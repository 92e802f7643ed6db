------------------------------- MODULE Condition -------------------------------
(***************************************************************************)
(* The condition vocabulary of pkg/condition, which the assertions of      *)
(* stages and the matching of mock requests share.                         *)
(*                                                                         *)
(* Numbers are integers, an int or a float64: no property is about         *)
(* fractions.  Their texts are those of fmt, but for the exponent that a   *)
(* float64 gets from 10^6 on: its digits and a mark stand for that text.   *)
(***************************************************************************)
EXTENDS Values

CONSTANTS
  Precision,   \* significant bits of a float64: 53, fewer in the checks
  Million      \* from 10^6 on fmt writes a float64 with an exponent, in the checks earlier

binary[k \in Nat] == IF k = 0 THEN 1 ELSE 2 * binary[k - 1]

ASSUME PrecisionAssumption == Precision \in Nat \ {0}
ASSUME MillionAssumption == Million \in Nat \ {0} /\ Million <= binary[Precision]

Ints(ns) == [kind |-> "ints", ns |-> ns]   \* []int, which conditions do not look into

Digits == <<"0", "1", "2", "3", "4", "5", "6", "7", "8", "9">>

decimal[n \in Nat] ==
  (IF n < 10 THEN <<>> ELSE decimal[n \div 10]) \o <<Digits[(n % 10) + 1]>>
Decimal(n) == IF n < 0 THEN <<"-">> \o decimal[-n] ELSE decimal[n]

IsShort(n) == n \in -Million + 1 .. Million - 1
HasExponent(x) == x.type = "float64" /\ ~IsShort(x.n)

Join(texts, separator) ==
  FlattenSeq([i \in DOMAIN texts |-> IF i = 1 THEN texts[i] ELSE separator \o texts[i]])
Bracketed(kind, texts) ==
  (IF kind = "map" THEN <<"map", "[">> ELSE <<"[">>) \o Join(texts, <<" ">>) \o <<"]">>

\* fmt's %v of what is neither slice nor map.
ScalarText(x) ==
  CASE x.kind = "null" -> <<"<nil>">>
    [] x.kind = "bool" -> <<IF x.b THEN "true" ELSE "false">>
    [] x.kind = "number" -> Decimal(x.n) \o (IF HasExponent(x) THEN <<"e+">> ELSE <<>>)
    [] x.kind = "string" -> x.s
    [] x.kind = "ints" -> Bracketed("slice", [i \in DOMAIN x.ns |-> Decimal(x.ns[i])])
    [] OTHER -> <<>>

\* What is printed at each position of a slice or a map.
PrintedNodes(v) == [p \in DOMAIN v.at \cup {<<>>} |->
               [kind |-> NodeAt(v, p).kind, text |-> ScalarText(NodeAt(v, p))]]

\* Slices are printed in their order, maps in one order of their keys.
InOrder(nodes, p) ==
  LET members == {q \in DOMAIN nodes : Len(q) = Len(p) + 1 /\ IsPrefix(p, q)}
      byIndex == [i \in 1 .. Cardinality(members) |-> Append(p, ByIndex(i - 1))]
  IN  IF ToSet(byIndex) = members THEN byIndex ELSE SetToSeq(members)
Label(p) == IF "key" \in DOMAIN Last(p) THEN <<Last(p).key, ":">> ELSE <<>>

\* down[n][p]: the text of what is at p, as deep as n steps.
NodesText(nodes) ==
  LET down[n \in Nat] ==
        [p \in DOMAIN nodes |->
           LET members == InOrder(nodes, p)
           IN  IF n = 0 \/ nodes[p].kind \notin Containers THEN nodes[p].text
               ELSE Bracketed(nodes[p].kind,
                              [i \in DOMAIN members |-> Label(members[i]) \o down[n - 1][members[i]]])]
  IN  down[Cardinality(DOMAIN nodes)][<<>>]

\* fmt's %v
Text(v) == IF IsContainer(v) THEN NodesText(PrintedNodes(v)) ELSE ScalarText(v)
-----------------------------------------------------------------------------
IsNumber(v) == v.kind = "number"

\* The multiple of unit nearest to n, ties to even.
NearestMultiple(n, unit) ==
  LET q == n \div unit
      r == n % unit
  IN  IF 2 * r > unit \/ (2 * r = unit /\ q % 2 = 1) THEN (q + 1) * unit ELSE q * unit

\* The exponent of a natural number: the least that leaves its bits room.
Exp(n) == CHOOSE k \in 0 .. n : /\ n < binary[k + Precision]
                                /\ k = 0 \/ binary[k - 1 + Precision] <= n

\* The float64 nearest to n.
Nearest(n) == IF n < 0 THEN -NearestMultiple(-n, binary[Exp(-n)])
              ELSE NearestMultiple(n, binary[Exp(n)])

\* Those of which no two have the same float64.
FloatIsExact(n) == n \in -binary[Precision] + 1 .. binary[Precision] - 1

ToFloat64(v) == IF IsNumber(v) THEN Nearest(v.n) ELSE 0

\* strings.Trim, of one symbol
Trim(s, c) == LET inner == {i \in DOMAIN s : s[i] # c}
              IN  IF inner = {} THEN <<>>
                  ELSE SubSeq(s, CHOOSE i \in inner : \A j \in inner : i <= j,
                                 CHOOSE i \in inner : \A j \in inner : i >= j)
TrimSpace(s) == Trim(s, " ")

\* strconv.ParseFloat of integers, as fmt writes them: no result for anything else.
Digit(d) == CHOOSE n \in 0 .. 9 : d \in ToSet(Digits) => Digits[n + 1] = d
FromDigits(s) == LET upto[n \in Nat] == IF n = 0 THEN 0 ELSE 10 * upto[n - 1] + Digit(s[n])
                 IN  upto[Len(s)]
Unsigned(s) == IF s # <<>> /\ Head(s) = "-" THEN Tail(s) ELSE s
Unmarked(s) == IF s # <<>> /\ Last(s) = "e+" THEN Front(s) ELSE s
ParseFloat(s) ==
  LET digits == Unmarked(Unsigned(s))
      n == FromDigits(digits)
  IN  IF digits = <<>> \/ ~(ToSet(digits) \subseteq ToSet(Digits)) THEN {}
      ELSE {Nearest(IF Unsigned(s) = s THEN n ELSE -n)}

ToNumberLoose(v) ==
  CASE v.kind = "number" -> {ToFloat64(v)}
    [] v.kind = "string" -> ParseFloat(TrimSpace(v.s))
    [] OTHER -> {}
-----------------------------------------------------------------------------
\* A value with its numbers as float64, as json.Unmarshal gives it.
FloatNode(x) == IF IsNumber(x) THEN Float(ToFloat64(x)) ELSE x
Floats(v) == Each(v, FloatNode)

\* The JSON of a value: its numbers as their digits.
DigitsNode(x) == IF IsNumber(x) THEN Number(x.n) ELSE x
Marshal(v) == Each(v, DigitsNode)

ValuesEqual(a, b) == Floats(a) = Floats(b)

CompareNumbers(a, b, Cmp(_, _)) ==
  \E x \in ToNumberLoose(a), y \in ToNumberLoose(b) : Cmp(x, y)

StringContains(a, b, Cmp(_, _)) == a # Null /\ b # Null /\ Cmp(Text(a), Text(b))

HasPrefix(s, t) == IsPrefix(t, s)
HasSuffix(s, t) == IsSuffix(t, s)
ContainsText(s, t) == \E i \in 0 .. Len(s) : HasPrefix(SubSeq(s, i + 1, Len(s)), t)

\* strings.Split(s, ",")
Split(s) == FoldLeft(LAMBDA items, c :
                       IF c = "," THEN Append(items, <<>>)
                       ELSE [items EXCEPT ![Len(items)] = Append(@, c)],
                     << <<>> >>, s)

ValueIn(actual, expected) ==
  CASE expected.kind = "slice" -> \E p \in Members(expected) : ValuesEqual(actual, At(expected, p))
    [] expected.kind = "string" ->
         \E item \in ToSet(Split(expected.s)) : ValuesEqual(actual, Str(TrimSpace(item)))
    [] OTHER -> ValuesEqual(actual, expected)

IsEmptyValue(v) == v \in {Null, Str(<<>>)} \/ (IsContainer(v) /\ Inside(v) = {})

\* regexp, for patterns that are a literal with an optional "^" before it.  A "[" that
\* nothing closes does not compile.
Compiles(p) == \A i \in DOMAIN p : p[i] # "["
MatchString(p, s) == IF p # <<>> /\ Head(p) = "^" THEN HasPrefix(s, Tail(p)) ELSE ContainsText(s, p)

Conditions ==
  {"Equal", "NotEqual", "GreaterThan", "LessThan", "GreaterThanOrEqual", "LessThanOrEqual",
   "Contains", "NotContains", "StartsWith", "EndsWith", "Matches", "In", "NotIn", "Empty", "NotEmpty"}

ValidateExpected(condition, expected) ==
  CASE condition = "Matches" -> Compiles(Text(expected))
    [] condition \in {"In", "NotIn"} -> expected.kind \in {"slice", "string"}
    [] OTHER -> TRUE

Evaluate(actual, condition, expected) ==
  CASE condition = "Equal" -> ValuesEqual(actual, expected)
    [] condition = "NotEqual" -> ~ValuesEqual(actual, expected)
    [] condition = "GreaterThan" -> CompareNumbers(actual, expected, LAMBDA x, y : x > y)
    [] condition = "LessThan" -> CompareNumbers(actual, expected, LAMBDA x, y : x < y)
    [] condition = "GreaterThanOrEqual" -> CompareNumbers(actual, expected, LAMBDA x, y : x >= y)
    [] condition = "LessThanOrEqual" -> CompareNumbers(actual, expected, LAMBDA x, y : x <= y)
    [] condition = "Contains" -> StringContains(actual, expected, ContainsText)
    [] condition = "NotContains" -> StringContains(actual, expected, LAMBDA s, t : ~ContainsText(s, t))
    [] condition = "StartsWith" -> StringContains(actual, expected, HasPrefix)
    [] condition = "EndsWith" -> StringContains(actual, expected, HasSuffix)
    [] condition = "Matches" -> /\ Compiles(Text(expected))
                                /\ MatchString(Text(expected), Text(actual))
    [] condition = "In" -> ValueIn(actual, expected)
    [] condition = "NotIn" -> ~ValueIn(actual, expected)
    [] condition = "Empty" -> IsEmptyValue(actual)
    [] condition = "NotEmpty" -> ~IsEmptyValue(actual)
    [] OTHER -> FALSE
=============================================================================
