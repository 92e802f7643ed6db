------------------------------ MODULE Documents ------------------------------
(***************************************************************************)
(* Paths into JSON documents, as the assertions and the Redis helpers of   *)
(* pkg/v1 follow them (getValueByPath, setValueByPath) and as the mock     *)
(* server does (getJSONPath).                                              *)
(*                                                                         *)
(* A path is a sequence of parts "key" or "key[index]", already split at   *)
(* the dots.  A result is a set of at most one value; it is empty where    *)
(* the code returns an error or nil.                                       *)
(***************************************************************************)
EXTENDS Condition

NoIndex == -1      \* no brackets, or a negative number in them
BadIndex == -2     \* brackets that hold no number
Part(key, index) == [key |-> key, index |-> index]
Parts == [key : STRING, index : {NoIndex, BadIndex} \cup Nat]
Paths == Seq(Parts) \ {<<>>}

\* The position of a path: a part without a key stays where it is and takes its index there.
PartSteps(part) == (IF part.key = "" THEN <<>> ELSE <<ByKey(part.key)>>)
                   \o (IF part.index < 0 THEN <<>> ELSE <<ByIndex(part.index)>>)
Position(path) == FlattenSeq([i \in DOMAIN path |-> PartSteps(path[i])])

IsReadable(path) == \A i \in DOMAIN path : path[i].index # BadIndex
Leads(v, p) == p = <<>> \/ p \in Inside(v)
Found(v, p) == IF Leads(v, p) THEN {At(v, p)} ELSE {}

getValueByPath(data, path) == IF IsReadable(path) THEN Found(data, Position(path)) ELSE {}
-----------------------------------------------------------------------------
\* Mutant: nothing else is kept beside the new value.
ReplaceAlone(v, p, new) ==
  LET under == {p \o q : q \in Inside(new) \cup {<<>>}}
  IN  [kind |-> v.kind, at |-> [r \in under |-> NodeAt(new, SubSeq(r, Len(p) + 1, Len(r)))]]

\* v with new at p, which is not empty.
Replace(v, p, new) ==
  LET kept == {r \in Inside(v) : ~IsPrefix(p, r)}
      under == {p \o q : q \in Inside(new) \cup {<<>>}}
  IN  [kind |-> v.kind,
       at |-> [r \in kept \cup under |->
                 IF r \in kept THEN v.at[r] ELSE NodeAt(new, SubSeq(r, Len(p) + 1, Len(r)))]]

\* The last part without key and index: setValueByPath looks for it and then sets nothing.
SetsNothing(path) == Last(path) = Part("", NoIndex)

\* The last part may name a new key of a map.
setValueByPath(data, path, value) ==
  LET target == Last(path)
      isThere == IF target.key # "" /\ target.index = NoIndex
                 THEN \E parent \in getValueByPath(data, Front(path)) : parent.kind = "map"
                 ELSE getValueByPath(data, path) # {}
  IN  CASE ~isThere -> {}
        [] isThere /\ SetsNothing(path) -> {data}
        [] OTHER -> {Replace(data, Position(path), value)}
-----------------------------------------------------------------------------
\* Mutant: a part without brackets leads into a slice, too.
getJSONPathFirst(body, path) ==
  LET Index(part) == IF part.index < 0 THEN 0 ELSE part.index
      taken == [i \in DOMAIN path |-> Part(path[i].key, Index(path[i]))]
  IN  IF body = Null \/ \E i \in DOMAIN path : path[i].key = "" THEN {}
      ELSE Found(body, Position(taken))

\* The mock server needs a key in every part, and takes an index that is no number for 0.
getJSONPath(body, path) ==
  LET Index(part) == IF part.index = BadIndex THEN 0 ELSE part.index
      taken == [i \in DOMAIN path |-> Part(path[i].key, Index(path[i]))]
  IN  IF body = Null \/ \E i \in DOMAIN path : path[i].key = "" THEN {}
      ELSE Found(body, Position(taken))
=============================================================================
