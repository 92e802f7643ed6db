----------------------------- MODULE QueryResults -----------------------------
(***************************************************************************)
(* What stages expect of the rows that a Fetch gave them: the expectations *)
(* of RowResult (pkg/v1/db.go), which compare fields as texts or by the    *)
(* conditions.                                                             *)
(***************************************************************************)
EXTENDS Database, Condition

CONSTANT Expectations   \* what stages expect of a field: [field, value]

ASSUME ExpectationsAssumption ==
  \A e \in Expectations : IsStored(e.value) \/ e.value.kind \in {"slice", "map", "ints"}

\* Mutant: no other comparison than that of Go.
ExpectSame(row, field, expected) == \E v \in Get(row, field) : v = expected

Expect(row, field, expected) == \E v \in Get(row, field) : Text(v) = Text(expected)

ExpectCond(row, field, condition, expected) ==
  \E v \in Get(row, field) : Evaluate(v, condition, expected)
-----------------------------------------------------------------------------
\* Expect and ExpectCond with Equal differ where kinds do, and on numbers: on a float64
\* with an exponent, and on those that are the same only as a float64.
ExpectationsAgree ==
  \A i \in DOMAIN result : \A e \in Expectations :
    LET passes == Expect(result[i], e.field, e.value)
        equal == ExpectCond(result[i], e.field, "Equal", e.value)
    IN  /\ passes /\ ~equal =>
             \A v \in Get(result[i], e.field) : v.kind # e.value.kind
        /\ equal /\ ~passes =>
             /\ IsNumber(e.value)
             /\ ~IsShort(e.value.n) \/ ~FloatIsExact(e.value.n)

\* What a stage expects of a result is held against the rows that its query selected, and
\* the two ways of expecting agree but where kinds differ or numbers have no exact text.
ResultsAreTrue == FetchGivesTheRows /\ ExpectationsAgree
=============================================================================
