-------------------------------- MODULE Values --------------------------------
(***************************************************************************)
(* A value is a Go value that JSON, XML, a row of a table or a mock        *)
(* variable can hold: nil, a boolean, a number, a string, a slice or a     *)
(* map.  A string is a sequence of symbols, since conditions and steps     *)
(* look inside strings.                                                    *)
(*                                                                         *)
(* A slice or a map is one function, from the positions inside of it to    *)
(* what is there: at a position that leads to another slice or map, only   *)
(* that it does.  A position is the sequence of steps that leads to it.    *)
(***************************************************************************)
EXTENDS Integers, Sequences, SequencesExt

Null == [kind |-> "null"]
Bool(b) == [kind |-> "bool", b |-> b]
Number(n) == [kind |-> "number", type |-> "int", n |-> n]
Float(n) == [kind |-> "number", type |-> "float64", n |-> n]
Str(s) == [kind |-> "string", s |-> s]

Containers == {"slice", "map"}
IsContainer(v) == v.kind \in Containers

\* A step into a map, by a key, and into a slice, by an index from 0.
ByKey(key) == [key |-> key]
ByIndex(index) == [index |-> index]

Inside(v) == IF IsContainer(v) THEN DOMAIN v.at ELSE {}
Here(v) == IF IsContainer(v) THEN [kind |-> v.kind] ELSE v
NodeAt(v, p) == IF p = <<>> THEN Here(v) ELSE v.at[p]

\* The container of a kind that each of the steps leads from to one of the values.
Holding(kind, values) ==
  [kind |-> kind,
   at |-> [p \in UNION {{<<step>> \o q : q \in Inside(values[step]) \cup {<<>>}} :
                          step \in DOMAIN values} |-> NodeAt(values[Head(p)], Tail(p))]]

Slice(es) == Holding("slice", [step \in {ByIndex(i - 1) : i \in DOMAIN es} |-> es[step.index + 1]])
Object(f) == Holding("map", [step \in {ByKey(k) : k \in DOMAIN f} |-> f[step.key]])

\* What v holds at p.
Below(v, p) == {q \in {SubSeq(r, Len(p) + 1, Len(r)) : r \in Inside(v)} :
                  q # <<>> /\ p \o q \in Inside(v)}
At(v, p) ==
  IF NodeAt(v, p).kind \in Containers
  THEN [kind |-> NodeAt(v, p).kind, at |-> [q \in Below(v, p) |-> v.at[p \o q]]]
  ELSE NodeAt(v, p)

\* The steps to the elements of a slice, or to the values of a map.
Members(v) == {p \in Inside(v) : Len(p) = 1}

\* A value with each of its nodes changed.
Each(v, F(_)) ==
  IF IsContainer(v) THEN [kind |-> v.kind, at |-> [p \in DOMAIN v.at |-> F(v.at[p])]] ELSE F(v)
-----------------------------------------------------------------------------
\* Symbols are strings; those that the code writes are listed, since the provers do not
\* know that a literal is one.
Written == {"0", "1", "2", "3", "4", "5", "6", "7", "8", "9", "-", "true", "false", "<nil>",
            "<no value>", "[", "]", "map", ":", " ", "e+", "/", "a"}
Symbols == STRING \cup Written

Step == [key : STRING] \cup [index : Nat]
IsScalar(x) ==
  /\ x.kind \in {"null", "bool", "number", "string"}
  /\ x.kind = "number" => x.n \in Int
  /\ x.kind = "string" => x.s \in Seq(Symbols)
IsValue(v) ==
  IF IsContainer(v)
  THEN /\ v = [kind |-> v.kind, at |-> [p \in DOMAIN v.at |-> v.at[p]]]
       /\ DOMAIN v.at \subseteq Seq(Step) \ {<<>>} /\ IsFiniteSet(DOMAIN v.at)
       /\ \A p \in DOMAIN v.at : IsScalar(v.at[p]) \/ v.at[p] \in [kind : Containers]
  ELSE IsScalar(v)
===============================================================================
