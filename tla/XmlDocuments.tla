----------------------------- MODULE XmlDocuments -----------------------------
(***************************************************************************)
(* XML documents and paths into them, as the assertions of pkg/v1 follow   *)
(* them (getXMLPathValue) and as the mock server does (getXMLPath).  A     *)
(* path is one of Documents, of which a part may also be an attribute.     *)
(*                                                                         *)
(* A text is the sequence of its tokens, up to the first that the decoder  *)
(* refuses.  A tree is the function from the positions of its elements to  *)
(* them: <<1>> is the root, and Append(p, i) the i-th child of p.  Where   *)
(* the code has no root, it is empty.                                      *)
(***************************************************************************)
EXTENDS Documents

Start(name, attrs) == [token |-> "start", name |-> name, attrs |-> attrs]
End == [token |-> "end"]
CharData(s) == [token |-> "chars", s |-> s]

\* A tag has finitely many attributes.
IsToken(t) ==
  CASE t.token = "start" -> /\ t = Start(t.name, t.attrs)
                            /\ IsFiniteSet(DOMAIN t.attrs)
                            /\ t.attrs \in [DOMAIN t.attrs -> Seq(Symbols)]
    [] t.token = "chars" -> t = CharData(t.s) /\ t.s \in Seq(Symbols)
    [] OTHER -> t = End
IsXML(tokens) == tokens \in Seq(ToSet(tokens)) /\ \A t \in ToSet(tokens) : IsToken(t)

Node(name, attrs) == [name |-> name, attrs |-> attrs, text |-> <<>>]
Root == <<1>>

Children(tree, p) == {q \in DOMAIN tree : q # <<>> /\ Front(q) = p}

\* open: the position of the element that is read, <<>> outside of any.  A root that follows
\* another takes its place.
StartElement(st, node) ==
  LET kept == IF st.open = <<>> THEN {} ELSE DOMAIN st.tree
      p == IF st.open = <<>> THEN Root
           ELSE Append(st.open, Cardinality(Children(st.tree, st.open)) + 1)
  IN  [tree |-> [q \in kept \cup {p} |-> IF q = p THEN node ELSE st.tree[q]], open |-> p]

ReadToken(st, t) ==
  CASE t.token = "start" -> StartElement(st, Node(t.name, t.attrs))
    [] t.token # "start" /\ st.open = <<>> -> st
    [] t.token = "end" /\ st.open # <<>> ->
         [tree |-> [st.tree EXCEPT ![st.open].text = TrimSpace(@)], open |-> Front(st.open)]
    [] t.token = "chars" /\ st.open # <<>> ->
         [st EXCEPT !.tree[st.open].text = @ \o t.s]

NoTree == [p \in {} |-> Node("", <<>>)]

\* The elements that the input leaves open are kept as they are.
parseXML(tokens) ==
  LET upto[i \in 0 .. Len(tokens)] == IF i = 0 THEN [tree |-> NoTree, open |-> <<>>]
                                      ELSE ReadToken(upto[i - 1], tokens[i])
  IN  upto[Len(tokens)].tree

Attr(name) == [attr |-> name]
IsAttr(part) == "attr" \in DOMAIN part
XMLPaths == Seq(Parts \cup [attr : STRING]) \ {<<>>}

\* The child of that name that has the index, or the first one.
Child(tree, p, part) ==
  LET named == {q \in Children(tree, p) : tree[q].name = part.key}
  IN  {q \in named : Cardinality({r \in named : Last(r) < Last(q)})
                     = IF part.index < 0 THEN 0 ELSE part.index}

\* The element that the first parts of a path lead to; the first part may be the name of the
\* root.  The mock server takes an index that is no number for 0, which is the same as no
\* index.
Reached(tree, path, parts) ==
  LET upto[i \in Nat] ==
        IF i = 0 THEN DOMAIN tree \cap {Root}
        ELSE UNION {IF i = 1 /\ tree[p].name = path[i].key
                    THEN {q \in {p} : path[i].index <= 0}
                    ELSE Child(tree, p, path[i]) : p \in upto[i - 1]}
  IN  upto[parts]

\* Nothing after an attribute is looked at.
Elements(path) == {i \in DOMAIN path : \A j \in 1 .. i : ~IsAttr(path[j])}
AttrsAt(node, part) == {node.attrs[name] : name \in DOMAIN node.attrs \cap {part.attr}}

getXMLPath(tree, path) ==
  LET n == Cardinality(Elements(path))
      Texts(node) == IF n = Len(path) THEN {node.text} ELSE AttrsAt(node, path[n + 1])
  IN  {Str(s) : s \in UNION {Texts(tree[p]) : p \in Reached(tree, path, n)}}

\* The assertions follow the same path, and refuse such an index when they get to it.
getXMLPathValue(tree, path) ==
  IF \E i \in Elements(path) : path[i].index = BadIndex THEN {} ELSE getXMLPath(tree, path)
=============================================================================
