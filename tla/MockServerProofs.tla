-------------------------- MODULE MockServerProofs --------------------------
(***************************************************************************)
(* The route that a call gets, the response that its steps leave and the   *)
(* reasons of a panic, for any routes, requests and steps; and the         *)
(* controller that starts and stops the servers of the ports.              *)
(***************************************************************************)
EXTENDS MockHandler, MockController, DocumentsProofs

LEMMA IntervalsDiffer == ASSUME NEW m \in Nat, NEW n \in Nat, 1 .. m = 1 .. n PROVE m = n
<1>1. m # 0 => m \in 1 .. n
  OBVIOUS
<1>2. n # 0 => n \in 1 .. m
  OBVIOUS
<1> QED BY <1>1, <1>2

\* A path and a pattern are split into texts and segments.
LEMMA SplitPaths ==
  ASSUME NEW path \in Seq(STRING)
  PROVE  splitPath(path) \in Seq(STRING)
BY Trimmed DEF splitPath

LEMMA SplitPatterns ==
  ASSUME NEW pattern \in Seq(Segments)
  PROVE  splitPattern(pattern) \in Seq(Segments)
BY Trimmed DEF splitPattern

\* A pattern is matched by the paths that it gives with its parameters replaced.
LEMMA MatchingIsFitting ==
  ASSUME NEW pattern \in Seq(Segments), NEW path \in Seq(STRING)
  PROVE  HasParams(pattern) /\ matchPathPattern(pattern, path) # {} <=> Fits(pattern, path)
<1> DEFINE ps == splitPattern(pattern)
           ss == splitPath(path)
           Matches ==
             /\ Len(ps) = Len(ss)
             /\ \A i \in DOMAIN ps : IF ps[i].param THEN ss[i] # "" ELSE ss[i] = ps[i].text
<1>1. ps \in Seq(Segments) /\ ss \in Seq(STRING)
  BY SplitPaths, SplitPatterns
<1>2. matchPathPattern(pattern, path) # {} <=> Matches
  BY DEF matchPathPattern
<1>3. Fits(pattern, path) <=>
        /\ HasParams(pattern)
        /\ \E params \in [Params(ps) -> ToSet(ss) \ {""}] : Given(ps, params) = ss
  BY DEF Fits
<1> HIDE DEF ps, ss
<1>4. /\ Len(ps) \in Nat /\ DOMAIN ps = 1 .. Len(ps) /\ \A i \in DOMAIN ps : ps[i] \in Segments
      /\ Len(ss) \in Nat /\ DOMAIN ss = 1 .. Len(ss) /\ \A i \in DOMAIN ss : ss[i] \in STRING
      /\ ss = [i \in DOMAIN ss |-> ss[i]]
  BY <1>1
<1>5. ASSUME Matches
      PROVE  \E params \in [Params(ps) -> ToSet(ss) \ {""}] : Given(ps, params) = ss
  <2> DEFINE params == [i \in Params(ps) |-> ss[i]]
  <2>1. params \in [Params(ps) -> ToSet(ss) \ {""}]
    BY <1>4, <1>5 DEF Params, ToSet
  <2>2. Given(ps, params) = [i \in DOMAIN ss |-> ss[i]]
    BY <1>4, <1>5 DEF Params, Given
  <2> QED BY <1>4, <2>1, <2>2
<1>6. ASSUME NEW params \in [Params(ps) -> ToSet(ss) \ {""}], Given(ps, params) = ss
      PROVE  Matches
  <2>1. DOMAIN ss = DOMAIN ps
    BY <1>6 DEF Given
  <2>2. Len(ps) = Len(ss)
    BY <1>4, <2>1, IntervalsDiffer
  <2>3. ASSUME NEW i \in DOMAIN ps
        PROVE  IF ps[i].param THEN ss[i] # "" ELSE ss[i] = ps[i].text
    <3>1. ss[i] = IF i \in Params(ps) THEN params[i] ELSE ps[i].text
      BY <1>6 DEF Given
    <3>2. i \in Params(ps) => params[i] # ""
      BY <1>6
    <3> QED BY <3>1, <3>2 DEF Params
  <2> QED BY <2>2, <2>3
<1> HIDE DEF Matches
<1> QED BY <1>2, <1>3, <1>5, <1>6

\* What is captured gives the path back, unless two parameters have one name.
LEMMA CapturesGiveThePath ==
  ASSUME NEW pattern \in Seq(Segments), NEW path \in Seq(STRING),
         NEW params \in matchPathPattern(pattern, path)
  PROVE  LET ps == splitPattern(pattern) IN
         IsInjective([i \in Params(ps) |-> ps[i].text]) =>
           Given(ps, [i \in Params(ps) |-> params[ps[i].text][1]]) = splitPath(path)
<1> DEFINE ps == splitPattern(pattern)
           ss == splitPath(path)
           Named(name) == {i \in DOMAIN ps : ps[i] = Param(name)}
           LastNamed(name) == CHOOSE i \in Named(name) : \A j \in Named(name) : j <= i
           captured == [i \in Params(ps) |-> params[ps[i].text][1]]
<1> SUFFICES ASSUME IsInjective([i \in Params(ps) |-> ps[i].text])
             PROVE  Given(ps, captured) = ss
  OBVIOUS
<1>1. /\ Len(ps) = Len(ss)
      /\ \A i \in DOMAIN ps : ~ps[i].param => ss[i] = ps[i].text
      /\ params = [name \in {ps[i].text : i \in {j \in DOMAIN ps : ps[j].param}} |->
                     <<ss[LastNamed(name)]>>]
  BY DEF matchPathPattern
<1>2. ps \in Seq(Segments) /\ ss \in Seq(STRING)
  BY SplitPaths, SplitPatterns
<1> HIDE DEF ps, ss
<1>3. /\ Len(ps) \in Nat /\ DOMAIN ps = 1 .. Len(ps) /\ \A i \in DOMAIN ps : ps[i] \in Segments
      /\ Len(ss) \in Nat /\ DOMAIN ss = 1 .. Len(ss) /\ ss = [i \in DOMAIN ss |-> ss[i]]
  BY <1>2
<1>4. ASSUME NEW i \in Params(ps)
      PROVE  params[ps[i].text][1] = ss[i]
  <2>1. i \in DOMAIN ps /\ ps[i].param /\ i \in Int
    BY <1>3 DEF Params
  <2>2. Named(ps[i].text) = {i}
    <3>1. i \in Named(ps[i].text)
      BY <1>3, <2>1 DEF Param, Segments
    <3>2. ASSUME NEW j \in Named(ps[i].text) PROVE j = i
      <4>1. j \in DOMAIN ps /\ ps[j].param /\ ps[j].text = ps[i].text
        BY DEF Param
      <4>2. j \in Params(ps)
        BY <4>1 DEF Params
      <4> QED BY <4>1, <4>2 DEF IsInjective
    <3> QED BY <3>1, <3>2
  <2>3. LastNamed(ps[i].text) = i
    BY <2>1, <2>2
  <2>4. params[ps[i].text] = <<ss[LastNamed(ps[i].text)]>>
    BY <1>1, <2>1
  <2>5. \A x : <<x>>[1] = x
    OBVIOUS
  <2> HIDE DEF LastNamed
  <2> QED BY <2>3, <2>4, <2>5
<1>5. Given(ps, captured) = [i \in DOMAIN ss |-> ss[i]]
  <2>1. DOMAIN ps = DOMAIN ss
    BY <1>3, <1>1
  <2>2. \A i \in Params(ps) : captured[i] = ss[i]
    BY <1>4
  <2>3. \A i \in DOMAIN ps : i \notin Params(ps) => ps[i].text = ss[i]
    BY <1>1 DEF Params
  <2> HIDE DEF captured
  <2> QED BY <2>1, <2>2, <2>3 DEF Given
<1> QED BY <1>3, <1>5

LEMMA ElementsAre == ASSUME NEW S, NEW s \in Seq(S) PROVE \A i \in DOMAIN s : s[i] \in S
OBVIOUS

LEMMA PatternsAre == \A i \in DOMAIN Patterns : Patterns[i] \in Seq(Segments)
BY PathsAssumption, ElementsAre

\* The choice among the routes, on any path.
LEMMA RightRoute ==
  ASSUME NEW registered \in SUBSET DOMAIN Patterns, NEW path \in Seq(STRING)
  PROVE  RouteIsRight(registered, path)
<1> DEFINE exact == {i \in registered : IsExact(Patterns[i], path)}
           fit == {i \in registered : /\ HasParams(Patterns[i])
                                      /\ matchPathPattern(Patterns[i], path) # {}}
           first == {i \in fit : \A j \in fit : i <= j}
           Routes(i, captures) == {[route |-> i, params |-> params] : params \in captures}
           found == findRouteLocked(registered, path)
           GivesThePath(r) ==
             LET ps == splitPattern(Patterns[r.route]) IN
             IsInjective([i \in Params(ps) |-> ps[i].text]) =>
               Given(ps, [i \in Params(ps) |-> r.params[ps[i].text][1]]) = splitPath(path)
<1>1. fit = {i \in registered : Fits(Patterns[i], path)}
  BY PatternsAre, MatchingIsFitting
<1>2. first = {i \in registered : /\ Fits(Patterns[i], path)
                                  /\ \A j \in registered : Fits(Patterns[j], path) => i <= j}
  BY <1>1
<1>3. RouteIsRight(registered, path) <=>
        /\ {r.route : r \in found} = IF exact # {} THEN exact ELSE first
        /\ exact = {} => \A r \in found : GivesThePath(r)
  <2> HIDE DEF found, GivesThePath, first
  <2>1. RouteIsRight(registered, path) <=>
          /\ {r.route : r \in found} =
               IF exact # {} THEN exact
               ELSE {i \in registered : /\ Fits(Patterns[i], path)
                                        /\ \A j \in registered : Fits(Patterns[j], path) => i <= j}
          /\ exact = {} => \A r \in found : GivesThePath(r)
    BY DEF RouteIsRight, found, GivesThePath
  <2> QED BY <1>2, <2>1
<1>4. CASE exact # {}
  <2>1. found = UNION {Routes(i, {NoFields}) : i \in exact}
    BY <1>4 DEF findRouteLocked
  <2>2. {r.route : r \in found} = exact
    <3>1. \A r \in found : r.route \in exact
      BY <2>1
    <3>2. \A i \in exact : \E r \in found : r.route = i
      <4> SUFFICES ASSUME NEW i \in exact PROVE \E r \in found : r.route = i
        OBVIOUS
      <4>1. [route |-> i, params |-> NoFields] \in Routes(i, {NoFields})
        OBVIOUS
      <4>2. [route |-> i, params |-> NoFields] \in found
        BY <2>1, <4>1
      <4> QED BY <4>2
    <3> HIDE DEF exact, found
    <3> QED BY <3>1, <3>2
  <2> HIDE DEF exact, found, first, GivesThePath
  <2> QED BY <1>3, <1>4, <2>2
<1>5. CASE exact = {}
  <2>1. found = UNION {Routes(i, matchPathPattern(Patterns[i], path)) : i \in first}
    BY <1>5 DEF findRouteLocked
  <2>2. {r.route : r \in found} = first
    <3>1. \A i \in first : \E params : params \in matchPathPattern(Patterns[i], path)
      OBVIOUS
    <3>2. \A i \in first : \E r \in found : r.route = i
      <4> SUFFICES ASSUME NEW i \in first PROVE \E r \in found : r.route = i
        OBVIOUS
      <4>1. PICK params : params \in matchPathPattern(Patterns[i], path)
        BY <3>1
      <4>2. [route |-> i, params |-> params] \in Routes(i, matchPathPattern(Patterns[i], path))
        BY <4>1
      <4>3. [route |-> i, params |-> params] \in found
        <5> HIDE DEF Routes, first
        <5> QED BY <2>1, <4>2
      <4> QED BY <4>3
    <3>3. \A r \in found : r.route \in first
      <4> HIDE DEF first
      <4> QED BY <2>1
    <3> HIDE DEF first, found
    <3> QED BY <3>2, <3>3
  <2>3. ASSUME NEW r \in found PROVE GivesThePath(r)
    <3>1. r.route \in registered /\ r.params \in matchPathPattern(Patterns[r.route], path)
      BY <2>1
    <3>2. Patterns[r.route] \in Seq(Segments)
      BY <3>1, PatternsAre
    <3> HIDE DEF found
    <3> QED BY <3>1, <3>2, CapturesGiveThePath
  <2> HIDE DEF exact, found, first, GivesThePath
  <2> QED BY <1>3, <1>5, <2>2, <2>3
<1> QED BY <1>4, <1>5
-----------------------------------------------------------------------------
(***************************************************************************)
(* The variables.  Whatever a step assigns is a value, and the only steps  *)
(* that a call can panic in are those registered with a bad number.        *)
(***************************************************************************)
LEMMA Powers ==
  /\ powers[0] = 1
  /\ \A n \in Nat : powers[n] \in Nat /\ powers[n] >= 1 /\ powers[n + 1] = Nearest(10 * powers[n])
<1> DEFINE step == [x \in Nat \X Nat |-> Nearest(10 * x[2])]
           F(f) == [n \in Nat |-> IF n = 0 THEN 1 ELSE Nearest(10 * f[n - 1])]
<1>1. step \in [Nat \X Nat -> Nat]
  <2>1. \A x \in Nat \X Nat : 10 * x[2] \in Nat
    OBVIOUS
  <2> QED BY <2>1, NearestOfNat
<1>2. PICK g \in [Nat -> Nat] : g[0] = 1 /\ \A n \in Nat : g[n + 1] = step[<<n, g[n]>>]
  <2>1. 1 \in Nat
    OBVIOUS
  <2> HIDE DEF step
  <2>2. \E g : IsIteration(g, Nat, 1, step)
    BY <1>1, <2>1, Recursion
  <2> QED BY <2>2 DEF IsIteration
<1>3. \A n \in Nat : g[n + 1] = Nearest(10 * g[n])
  BY <1>2
<1>4. ASSUME NEW n \in Nat PROVE g[n] = IF n = 0 THEN 1 ELSE Nearest(10 * g[n - 1])
  <2>1. CASE n = 0
    BY <1>2, <2>1
  <2>2. CASE n # 0
    <3>1. n - 1 \in Nat /\ (n - 1) + 1 = n
      BY <2>2
    <3>2. g[(n - 1) + 1] = Nearest(10 * g[n - 1])
      BY <1>3, <3>1
    <3> QED BY <2>2, <3>1, <3>2
  <2> QED BY <2>1, <2>2
<1>5. g = F(g)
  BY <1>2, <1>4
<1>6. powers = F(powers)
  BY <1>5 DEF powers
<1>7. \A n \in Nat : powers[n] = IF n = 0 THEN 1 ELSE Nearest(10 * powers[n - 1])
  BY <1>6
<1>8. powers[0] = 1
  BY <1>7
<1>9. \A n \in Nat : powers[n + 1] = Nearest(10 * powers[n])
  <2> SUFFICES ASSUME NEW n \in Nat PROVE powers[n + 1] = Nearest(10 * powers[n])
    OBVIOUS
  <2>1. n + 1 \in Nat /\ n + 1 # 0 /\ (n + 1) - 1 = n
    OBVIOUS
  <2> QED BY <1>7, <2>1
<1>10. Nat \subseteq {n \in Nat : powers[n] \in Nat /\ powers[n] >= 1}
  <2> DEFINE T == {n \in Nat : powers[n] \in Nat /\ powers[n] >= 1}
  <2>1. 0 \in T
    BY <1>8
  <2>2. ASSUME NEW n \in Nat, n \in T PROVE n + 1 \in T
    <3>1. PICK p \in Nat : p = powers[n] /\ p >= 1
      BY <2>2
    <3>2. 10 * p \in Nat /\ 10 * p >= 10
      BY <3>1
    <3>3. Nearest(10 * p) \in Nat /\ 10 * p <= 2 * Nearest(10 * p)
      BY <3>2, NearestOfNat, NearestIsNear
    <3>4. PICK x \in Nat : x = Nearest(10 * p)
      BY <3>3
    <3>5. x >= 1
      BY <3>2, <3>3, <3>4
    <3> QED BY <1>9, <3>1, <3>4, <3>5
  <2> HIDE DEF T
  <2>3. Nat \subseteq T
    BY <2>1, <2>2, Induction
  <2> QED BY <2>3 DEF T
<1> QED BY <1>8, <1>9, <1>10

\* However its ends are rounded, a number of at least one digit has more than one value.
LEMMA RangeOfALength ==
  ASSUME NEW n \in Nat
  PROVE  /\ powers[n] \in Nat /\ powers[n] >= 1
         /\ Nearest(powers[n + 1] - 1) \in Nat
         /\ Nearest(powers[n + 1] - 1) >= powers[n]
         /\ powers[n] = 1 => Nearest(powers[n + 1] - 1) <= 99
<1>1. PICK x \in Nat : x = powers[n] /\ x >= 1
  BY Powers
<1>2. 10 * x \in Nat
  OBVIOUS
<1>3. Nearest(10 * x) \in Nat /\ 10 * x <= 2 * Nearest(10 * x) /\ 2 * Nearest(10 * x) <= 3 * (10 * x)
  BY <1>2, NearestOfNat, NearestIsNear
<1>4. PICK y \in Nat : y = Nearest(10 * x)
  BY <1>3
<1>5. y = powers[n + 1]
  BY <1>1, <1>4, Powers
<1>6. y >= 5 * x /\ y <= 15 * x /\ y - 1 \in Nat
  BY <1>1, <1>3, <1>4
<1>7. /\ Nearest(y - 1) \in Nat
      /\ y - 1 <= 2 * Nearest(y - 1) /\ 2 * Nearest(y - 1) <= 3 * (y - 1)
  BY <1>6, NearestOfNat, NearestIsNear
<1>8. PICK z \in Nat : z = Nearest(y - 1)
  BY <1>7
<1>9. z >= x /\ (x = 1 => z <= 99)
  BY <1>1, <1>6, <1>7, <1>8
<1> QED BY <1>1, <1>5, <1>8, <1>9

\* Arithmetic in the width of an int.
LEMMA Wrapping ==
  ASSUME NEW n \in Int
  PROVE  /\ Wrap(n) \in Ints64
         /\ n \in Ints64 => Wrap(n) = n
         /\ n \in MaxInt + 1 .. 3 * MaxInt + 2 => Wrap(n) = n - 2 * (MaxInt + 1)
         /\ n \in -3 * (MaxInt + 1) .. -MaxInt - 2 => Wrap(n) = n + 2 * (MaxInt + 1)
<1>1. MaxInt \in Nat
  BY BoundsAssumption
<1>2. PICK u \in Nat : u = 2 * (MaxInt + 1) /\ u > 0
  BY <1>1
<1>3. PICK x \in Int : x = n + MaxInt + 1
  BY <1>1
<1>4. Wrap(n) = (x % u) - MaxInt - 1
  BY <1>2, <1>3 DEF Wrap
<1>5. x % u \in 0 .. u - 1
  BY <1>2
<1>6. Wrap(n) \in Ints64
  <2>1. PICK r \in 0 .. u - 1 : r = x % u
    BY <1>5
  <2> QED BY <1>1, <1>2, <1>4, <2>1 DEF Ints64
<1>7. x \in 0 .. u - 1 => x % u = x
  BY <1>2
<1>8. x \in u .. 2 * u - 1 => x % u = x - u
  <2> SUFFICES ASSUME x \in u .. 2 * u - 1 PROVE x % u = x - u
    OBVIOUS
  <2>1. PICK r \in Nat : r = x - u /\ r < u
    BY <1>2
  <2>2. 1 \in Nat /\ u \in Nat /\ r \in Nat /\ r < u
    BY <1>2, <2>1
  <2>3. (1 * u + r) % u = r
    BY <2>2, DivisionUnique
  <2>4. x = 1 * u + r
    BY <1>2, <2>1
  <2> QED BY <2>1, <2>3, <2>4
<1>9. x \in -u .. -1 => x % u = x + u
  <2> SUFFICES ASSUME x \in -u .. -1 PROVE x % u = x + u
    OBVIOUS
  <2>1. PICK r \in Nat : r = x + u /\ r < u
    BY <1>2
  <2>2. x = (-1) * u + r
    BY <1>2, <2>1
  <2>3. -1 \in Int /\ u \in Nat /\ r \in Nat /\ r < u
    BY <1>2, <2>1
  <2>4. ((-1) * u + r) % u = r
    BY <2>3
  <2> QED BY <2>1, <2>2, <2>4
<1>10. n \in Ints64 => Wrap(n) = n
  <2>1. n \in Ints64 => x \in 0 .. u - 1
    BY <1>1, <1>2, <1>3 DEF Ints64
  <2> QED BY <1>1, <1>3, <1>4, <1>7, <2>1
<1>11. n \in MaxInt + 1 .. 3 * MaxInt + 2 => Wrap(n) = n - 2 * (MaxInt + 1)
  <2>1. n \in MaxInt + 1 .. 3 * MaxInt + 2 => x \in u .. 2 * u - 1
    BY <1>1, <1>2, <1>3
  <2> QED BY <1>1, <1>2, <1>3, <1>4, <1>8, <2>1
<1>12. n \in -3 * (MaxInt + 1) .. -MaxInt - 2 => Wrap(n) = n + 2 * (MaxInt + 1)
  <2>1. n \in -3 * (MaxInt + 1) .. -MaxInt - 2 => x \in -u .. -1
    BY <1>1, <1>2, <1>3
  <2> QED BY <1>1, <1>2, <1>3, <1>4, <1>9, <2>1
<1> QED BY <1>6, <1>10, <1>11, <1>12

\* Whatever a builder is given, a step gets an int, and that int if a float64 holds it.
LEMMA ReceivedInts ==
  ASSUME TypeOK
  PROVE  /\ \A x \in Int : ToInt(x) \in Ints64
         /\ \A n \in Int : Received(n) \in Ints64
         /\ \A n \in Ints64 : FloatIsExact(n) => Received(n) = n
<1>1. MaxInt \in Nat /\ outOfRange \in {-MaxInt - 1, MaxInt}
  BY BoundsAssumption DEF TypeOK, OutOfRange
<1>2. \A x \in Int : ToInt(x) \in Ints64
  BY <1>1 DEF ToInt, Ints64
<1>3. \A n \in Int : Received(n) \in Ints64
  BY <1>2, NearestIdempotent DEF Received
<1>4. \A n \in Ints64 : FloatIsExact(n) => Received(n) = n
  <2> SUFFICES ASSUME NEW n \in Ints64, FloatIsExact(n) PROVE Received(n) = n
    OBVIOUS
  <2>1. n \in Int
    BY <1>1 DEF Ints64
  <2>2. Nearest(n) = n
    BY <2>1, ExactIsKept
  <2> QED BY <1>1, <2>1, <2>2 DEF Received, ToInt, Ints64
<1> QED BY <1>2, <1>3, <1>4

\* rand.Intn of a range of a fixed length does not panic, on any machine.
LEMMA FixedLengthHasARange ==
  ASSUME TypeOK, NEW length \in Ints64, length >= 1
  PROVE  Wrap(Wrap(ToInt(Nearest(pow10(length) - 1)) - ToInt(pow10(Wrap(length - 1)))) + 1) >= 1
<1>0. MaxInt \in Nat /\ MaxInt > 999 /\ outOfRange \in {-MaxInt - 1, MaxInt}
  BY BoundsAssumption DEF TypeOK, OutOfRange
<1>1. length \in Int /\ length - 1 \in Nat /\ (length - 1) + 1 = length /\ length - 1 \in Ints64
  BY <1>0 DEF Ints64
<1>2. Wrap(length - 1) = length - 1
  BY <1>1, Wrapping
<1>3. pow10(length) = powers[length] /\ pow10(Wrap(length - 1)) = powers[length - 1]
  BY <1>1, <1>2 DEF pow10
<1>4. PICK x \in Nat : x = powers[length - 1] /\ x >= 1
  BY <1>1, RangeOfALength
<1>5. PICK z \in Nat : z = Nearest(powers[length] - 1) /\ z >= x /\ (x = 1 => z <= 99)
  BY <1>1, <1>4, RangeOfALength
<1>6. SUFFICES Wrap(Wrap(ToInt(z) - ToInt(x)) + 1) >= 1
  BY <1>3, <1>4, <1>5
<1>7. CASE z <= MaxInt
  <2>1. ToInt(z) = z /\ ToInt(x) = x
    BY <1>0, <1>5, <1>7 DEF ToInt, Ints64
  <2>2. Wrap(z - x) = z - x
    BY <1>0, <1>4, <1>5, <1>7, Wrapping DEF Ints64
  <2>3. Wrap(z - x + 1) = z - x + 1
    BY <1>0, <1>4, <1>5, <1>7, Wrapping DEF Ints64
  <2> QED BY <1>5, <2>1, <2>2, <2>3
<1>8. CASE z > MaxInt /\ x > MaxInt
  <2>1. ToInt(z) = outOfRange /\ ToInt(x) = outOfRange
    BY <1>0, <1>8 DEF ToInt, Ints64
  <2>2. outOfRange - outOfRange = 0 /\ 0 \in Ints64 /\ 1 \in Ints64
    BY <1>0 DEF Ints64
  <2>3. Wrap(0) = 0 /\ Wrap(0 + 1) = 1
    BY <2>2, Wrapping
  <2> QED BY <2>1, <2>2, <2>3
<1>9. CASE z > MaxInt /\ x <= MaxInt
  <2>1. ToInt(z) = outOfRange /\ ToInt(x) = x
    BY <1>0, <1>9 DEF ToInt, Ints64
  <2>2. x >= 2
    BY <1>0, <1>4, <1>5, <1>9
  <2>3. CASE outOfRange = MaxInt
    <3>1. Wrap(MaxInt - x) = MaxInt - x /\ Wrap(MaxInt - x + 1) = MaxInt - x + 1
      BY <1>0, <1>9, <2>2, Wrapping DEF Ints64
    <3> QED BY <1>0, <1>9, <2>1, <2>3, <3>1
  <2>4. CASE outOfRange = -MaxInt - 1
    <3>1. Wrap(-MaxInt - 1 - x) = MaxInt + 1 - x
      <4>1. -MaxInt - 1 - x \in -3 * (MaxInt + 1) .. -MaxInt - 2
        BY <1>0, <1>9, <2>2
      <4> QED BY <1>0, <4>1, Wrapping
    <3>2. Wrap(MaxInt + 1 - x + 1) = MaxInt + 2 - x
      BY <1>0, <1>9, <2>2, Wrapping DEF Ints64
    <3> QED BY <1>0, <1>9, <2>1, <2>4, <3>1, <3>2
  <2> QED BY <1>0, <2>3, <2>4
<1> QED BY <1>0, <1>7, <1>8, <1>9

VariablesAreValues == \A name \in DOMAIN variables : IsValue(variables[name])

\* The number that a step can panic on.
BadNumber(s) ==
  \/ s.func = "GenerateRandomString" /\ Received(s.length) \notin 0 .. MaxLength
  \/ /\ s.func = "GenerateRandomInt"
     /\ Received(s.max) - Received(s.min) \notin 0 .. MaxInt - 1
     /\ s.max - s.min \in 0 .. MaxInt - 1 => ~FloatIsExact(s.min) \/ ~FloatIsExact(s.max)
  \/ s.func = "GenerateRandomIntFixLength" /\ Received(s.length) < 1

LEMMA MadeValues ==
  /\ \A s \in Seq(Symbols) : IsValue(Str(s))
  /\ \A n \in Int : IsValue(Number(n)) /\ IsValue(Float(n))
  /\ IsValue(Null)
BY DEF IsValue, IsContainer, Containers, IsScalar, Str, Number, Float, Null

LEMMA AssignedValue ==
  ASSUME TypeOK, NEW name, NEW value, IsValue(value), Assign(name, value)
  PROVE  VariablesAreValues'
<1>1. variables' = [k \in DOMAIN variables \cup {name} |-> IF k = name THEN value ELSE variables[k]]
  BY DEF Assign, With
<1>2. \A k \in DOMAIN variables : IsValue(variables[k])
  BY DEF TypeOK
<1>3. \A k \in DOMAIN variables' : IsValue(variables'[k])
  BY <1>1, <1>2
<1> QED BY <1>3 DEF VariablesAreValues

LEMMA KeptVariables == ASSUME TypeOK, UNCHANGED variables PROVE VariablesAreValues'
BY DEF TypeOK, VariablesAreValues

LEMMA ArgumentsAreValues ==
  ASSUME TypeOK, NEW arg, IsArg(arg)
  PROVE  IsValue(resolveArg(arg))
<1>1. CASE arg.kind # "ref"
  BY <1>1, FloatsOfValue DEF resolveArg, IsArg
<1>2. CASE arg.kind = "ref" /\ arg.name \in DOMAIN variables /\ variables[arg.name] # Null
  <2>1. IsValue(variables[arg.name])
    BY <1>2 DEF TypeOK
  <2>2. resolveArg(arg) = Str(Text(variables[arg.name]))
    BY <1>2 DEF resolveArg
  <2> QED BY <2>1, <2>2, TextOfValue, MadeValues
<1>3. CASE arg.kind = "ref" /\ ~(arg.name \in DOMAIN variables /\ variables[arg.name] # Null)
  <2>1. resolveArg(arg) = Str(<<"<no value>">>)
    BY <1>3 DEF resolveArg
  <2>2. "<no value>" \in Symbols
    <3>1. "<no value>" \in Written
      BY DEF Written
    <3> QED BY <3>1 DEF Symbols
  <2>3. <<"<no value>">> \in Seq(Symbols)
    <3>1. \A a \in Symbols : <<a>> \in Seq(Symbols)
      OBVIOUS
    <3> QED BY <2>2, <3>1
  <2> QED BY <2>1, <2>3, MadeValues
<1> QED BY <1>1, <1>2, <1>3

LEMMA VariablesAre ==
  ASSUME TypeOK, NEW name
  PROVE  IsValue(Variable(name)) /\ Text(Variable(name)) \in Seq(Symbols)
<1>1. IsValue(Variable(name))
  BY MadeValues DEF Variable, TypeOK
<1> QED BY <1>1, TextOfValue

LEMMA FieldsAre ==
  ASSUME NEW fields, \A key \in DOMAIN fields : fields[key] \in Seq(Symbols), NEW key
  PROVE  IsValue(Lookup(fields, key))
<1>1. CASE key \in DOMAIN fields
  <2>1. fields[key] \in Seq(Symbols) /\ Lookup(fields, key) = Str(fields[key])
    BY <1>1 DEF Lookup
  <2> QED BY <2>1, MadeValues
<1>2. CASE key \notin DOMAIN fields
  <2>1. Lookup(fields, key) = Str(<<>>) /\ <<>> \in Seq(Symbols)
    BY <1>2, EmptySeq DEF Lookup
  <2> QED BY <2>1, MadeValues
<1> QED BY <1>1, <1>2

\* The path of a request is a text.
LEMMA PathIsAText == ASSUME TypeOK PROVE URLPath \in Seq(Symbols)
<1> DEFINE texts == [i \in DOMAIN call.path |-> IF call.path[i] = "" THEN <<>> ELSE <<call.path[i]>>]
<1>1. call.path \in Seq(STRING)
  BY PathsAssumption DEF TypeOK
<1>2. DOMAIN call.path = 1 .. Len(call.path) /\ Len(call.path) \in Nat
      /\ \A i \in DOMAIN call.path : call.path[i] \in STRING
  BY <1>1, LenProperties, ElementOfSeq
<1>3. \A t \in STRING : (IF t = "" THEN <<>> ELSE <<t>>) \in Seq(Symbols)
  <2>1. \A t \in STRING : t \in Symbols
    BY DEF Symbols
  <2>2. \A t \in Symbols : <<t>> \in Seq(Symbols)
    OBVIOUS
  <2> QED BY <2>1, <2>2, EmptySeq
<1>4. texts \in [1 .. Len(call.path) -> Seq(Symbols)]
  BY <1>2, <1>3
<1>5. texts \in Seq(Seq(Symbols))
  <2> HIDE DEF texts
  <2> QED BY <1>2, <1>4, SeqDef
<1>6. <<"/">> \in Seq(Symbols)
  <2>1. "/" \in Symbols
    BY DEF Symbols, Written
  <2> HIDE DEF Symbols
  <2> QED BY <2>1
<1>7. URLPath = Join(texts, <<"/">>)
  BY DEF URLPath
<1> HIDE DEF texts
<1> QED BY <1>5, <1>6, <1>7, JoinedTexts

LEMMA ExtractsAreValues ==
  ASSUME TypeOK, NEW step \in Steps, step.func = "Extract"
  PROVE  IsValue(Actual(step))
<1>1. /\ step.source \in ExtractSources
      /\ step.source = "JsonBody" => step.at \in Paths
      /\ step.source = "XmlBody" => step.at \in XMLPaths
  BY StepsAssumption
<1>2. /\ call \in Calls /\ IsValue(call.json) /\ IsXML(call.xml)
      /\ \A key \in DOMAIN call.header : call.header[key] \in Seq(Symbols)
      /\ \A key \in DOMAIN call.query : call.query[key] \in Seq(Symbols)
      /\ \A key \in DOMAIN pathParams : pathParams[key] \in Seq(Symbols)
  BY CallsAssumption DEF TypeOK
<1>3. CASE step.source = "Header"
  BY <1>2, <1>3, FieldsAre DEF Actual
<1>4. CASE step.source = "Query"
  BY <1>2, <1>4, FieldsAre DEF Actual
<1>5. CASE step.source = "PathParam"
  BY <1>2, <1>5, FieldsAre DEF Actual
<1>6. CASE step.source = "Path"
  BY <1>6, PathIsAText, MadeValues DEF Actual
<1>7. CASE step.source = "JsonBody"
  <2>1. Actual(step) = ValueOr(getJSONPath(Floats(call.json), step.at), Null)
    BY <1>7 DEF Actual, JsonAt
  <2>2. Actual(step) = Null \/ Actual(step) \in getJSONPath(Floats(call.json), step.at)
    BY <2>1 DEF ValueOr
  <2>3. IsValue(Floats(call.json))
    BY <1>2, FloatsOfValue
  <2> QED BY <1>1, <1>7, <2>2, <2>3, JSONPathsLeadToValues, MadeValues
<1>8. CASE step.source = "XmlBody"
  <2>1. Actual(step) = ValueOr(getXMLPath(parseXML(call.xml), step.at), Null)
    BY <1>8 DEF Actual
  <2>2. Actual(step) = Null \/ Actual(step) \in getXMLPath(parseXML(call.xml), step.at)
    BY <2>1 DEF ValueOr
  <2>3. Actual(step) = Null \/ \E s \in Seq(Symbols) : Actual(step) = Str(s)
    BY <1>1, <1>2, <1>8, <2>2, XMLPathsLeadToTexts
  <2> QED BY <2>3, MadeValues
<1> QED BY <1>1, <1>3, <1>4, <1>5, <1>6, <1>7, <1>8 DEF ExtractSources

LEMMA NumbersOfValues ==
  ASSUME TypeOK, NEW v, IsValue(v)
  PROVE  ToInt(toFloat(v)) \in Int
<1>1. toFloat(v) \in Int
  <2>1. CASE v.kind = "number"
    <3>1. v.n \in Int /\ toFloat(v) = Nearest(v.n)
      BY <2>1 DEF IsValue, IsContainer, Containers, IsScalar, toFloat, ToFloat64, IsNumber
    <3> QED BY <3>1, NearestIdempotent
  <2>2. CASE v.kind = "string"
    <3>1. v.s \in Seq(Symbols) /\ toFloat(v) = ValueOr(ParseFloat(v.s), 0)
      BY <2>2 DEF IsValue, IsContainer, Containers, IsScalar, toFloat
    <3>2. toFloat(v) = 0 \/ toFloat(v) \in ParseFloat(v.s)
      BY <3>1 DEF ValueOr
    <3> QED BY <3>1, <3>2, ParsedNumbers
  <2>3. CASE v.kind \notin {"number", "string"}
    BY <2>3 DEF toFloat
  <2> QED BY <2>1, <2>2, <2>3
<1>2. MaxInt \in Nat
  BY BoundsAssumption
<1> QED BY <1>1, <1>2, ReceivedInts DEF Ints64

\* The step that a call panics in.
PanicsOn(step) == Executes(step) /\ BadNumber(step)

LEMMA PrepareDataKeepsValues ==
  ASSUME TypeOK, PrepareData
  PROVE  VariablesAreValues' /\ pc' = "steps"
<1>1. CASE IfRequest
  <2>1. PICK step \in StepsOf("If") :
          /\ Keeps
          /\ Assign(step.var, resolveArg(step.toBe)) \/ UNCHANGED variables
    BY <1>1 DEF IfRequest
  <2>2. step \in Steps /\ step.func = "If" /\ pc = "steps"
    BY DEF StepsOf
  <2>3. IsValue(resolveArg(step.toBe))
    BY <2>2, StepsAssumption, ArgumentsAreValues
  <2>4. VariablesAreValues'
    BY <2>1, <2>3, AssignedValue, KeptVariables
  <2> QED BY <2>1, <2>2, <2>4 DEF Keeps
<1>2. CASE IfRequestSetCase
  <2>1. UNCHANGED <<pc, variables>> /\ pc = "steps"
    BY <1>2 DEF IfRequestSetCase, StepsOf
  <2> QED BY <2>1, KeptVariables
<1>3. CASE ExtractRequest
  <2>1. PICK step \in StepsOf("Extract") :
          Keeps /\ (UNCHANGED variables \/ Assign(step.var, Actual(step)))
    BY <1>3 DEF ExtractRequest
  <2>2. step \in Steps /\ step.func = "Extract" /\ pc = "steps"
    BY DEF StepsOf
  <2>3. IsValue(Actual(step))
    BY <2>2, ExtractsAreValues
  <2>4. VariablesAreValues'
    BY <2>1, <2>3, AssignedValue, KeptVariables
  <2> QED BY <2>1, <2>2, <2>4 DEF Keeps
<1> QED BY <1>1, <1>2, <1>3 DEF PrepareData

LEMMA RandomNumbers ==
  ASSUME TypeOK, pc = "steps", NEW step, NEW min \in Int, NEW max \in Int, RandomBetween(step, min, max)
  PROVE  /\ VariablesAreValues'
         /\ pc' = "steps" \/ Wrap(Wrap(max - min) + 1) < 1
<1>1. CASE Wrap(Wrap(max - min) + 1) < 1
  <2>1. UNCHANGED variables
    BY <1>1 DEF RandomBetween, Panics
  <2> QED BY <1>1, <2>1, KeptVariables
<1>2. CASE ~(Wrap(Wrap(max - min) + 1) < 1)
  <2>1. PICK n \in {min, max} : Assign(step.var, Number(n))
    BY <1>2 DEF RandomBetween
  <2>2. IsValue(Number(n))
    BY <2>1, MadeValues
  <2>3. UNCHANGED pc
    BY <1>2 DEF RandomBetween, Keeps
  <2> QED BY <2>1, <2>2, <2>3, AssignedValue
<1> QED BY <1>1, <1>2

LEMMA GeneratorKeepsValues ==
  ASSUME TypeOK, Generator
  PROVE  VariablesAreValues' /\ (pc' = "steps" \/ \E step : PanicsOn(step))
<1>0. MaxInt \in Nat /\ MaxLength \in Nat
  BY BoundsAssumption
<1>1. CASE GenerateRandomString
  <2>1. PICK step \in StepsOf("GenerateRandomString") :
          /\ Executes(step)
          /\ IF Received(step.length) < 0 \/ Received(step.length) > MaxLength THEN Panics
             ELSE /\ \E s \in [1 .. Received(step.length) -> Letters] : Assign(step.var, Str(s))
                  /\ Keeps
    BY <1>1 DEF GenerateRandomString
  <2>2. step \in Steps /\ step.func = "GenerateRandomString" /\ pc = "steps"
    BY DEF StepsOf
  <2>3. PICK length \in Int : length = Received(step.length)
    <3>1. step.length \in Ints64
      BY <2>2, StepsAssumption
    <3> QED BY <1>0, <3>1, ReceivedInts DEF Ints64
  <2>4. CASE length < 0 \/ length > MaxLength
    <3>1. UNCHANGED variables /\ BadNumber(step)
      BY <1>0, <2>1, <2>2, <2>3, <2>4 DEF Panics, BadNumber
    <3> QED BY <2>1, <3>1, KeptVariables DEF PanicsOn
  <2>5. CASE ~(length < 0 \/ length > MaxLength)
    <3>1. PICK s \in [1 .. length -> Letters] : Assign(step.var, Str(s))
      BY <2>1, <2>3, <2>5
    <3>2. length \in Nat
      BY <2>5
    <3>3. Letters \subseteq Symbols
      BY DEF Letters, Symbols, Written
    <3>4. s \in Seq(Symbols)
      <4> HIDE DEF Symbols, Letters
      <4>1. s \in [1 .. length -> Symbols]
        BY <3>1, <3>3
      <4> QED BY <3>2, <4>1, SeqDef
    <3>5. UNCHANGED pc
      BY <2>1, <2>3, <2>5 DEF Keeps
    <3> QED BY <2>2, <3>1, <3>4, <3>5, MadeValues, AssignedValue
  <2> QED BY <2>4, <2>5
<1>2. CASE GenerateRandomInt
  <2>1. PICK step \in StepsOf("GenerateRandomInt") :
          Executes(step) /\ RandomBetween(step, Received(step.min), Received(step.max))
    BY <1>2 DEF GenerateRandomInt
  <2>2. step \in Steps /\ step.func = "GenerateRandomInt" /\ pc = "steps"
    BY DEF StepsOf
  <2>3. step.min \in Ints64 /\ step.max \in Ints64 /\ step.min \in Int /\ step.max \in Int
    <3>1. step.min \in Ints64 /\ step.max \in Ints64
      BY <2>2, StepsAssumption
    <3> QED BY <1>0, <3>1 DEF Ints64
  <2>4. Received(step.min) \in Int /\ Received(step.max) \in Int
    BY <1>0, <2>3, ReceivedInts DEF Ints64
  <2>5. PICK d \in Int : d = Received(step.max) - Received(step.min)
    BY <2>4
  <2>6. Wrap(Wrap(d) + 1) < 1 => d \notin 0 .. MaxInt - 1
    <3> SUFFICES ASSUME d \in 0 .. MaxInt - 1 PROVE ~(Wrap(Wrap(d) + 1) < 1)
      OBVIOUS
    <3>1. d \in Ints64 /\ d + 1 \in Ints64
      BY <1>0 DEF Ints64
    <3>2. Wrap(d) = d /\ Wrap(d + 1) = d + 1
      BY <3>1, Wrapping
    <3> QED BY <3>2
  <2>7. d \notin 0 .. MaxInt - 1 /\ step.max - step.min \in 0 .. MaxInt - 1
          => ~FloatIsExact(step.min) \/ ~FloatIsExact(step.max)
    BY <2>3, <2>5, ReceivedInts
  <2>8. Wrap(Wrap(d) + 1) < 1 => BadNumber(step)
    BY <2>2, <2>5, <2>6, <2>7 DEF BadNumber
  <2>9. VariablesAreValues' /\ (pc' = "steps" \/ Wrap(Wrap(d) + 1) < 1)
    BY <2>1, <2>2, <2>4, <2>5, RandomNumbers
  <2> QED BY <2>1, <2>8, <2>9 DEF PanicsOn
<1>3. CASE GenerateRandomIntFixLength
  <2>1. PICK step \in StepsOf("GenerateRandomIntFixLength") :
          /\ Executes(step)
          /\ RandomBetween(step, ToInt(pow10(Wrap(Received(step.length) - 1))),
                           ToInt(Nearest(pow10(Received(step.length)) - 1)))
    BY <1>3 DEF GenerateRandomIntFixLength
  <2>2. step \in Steps /\ step.func = "GenerateRandomIntFixLength" /\ pc = "steps"
    BY DEF StepsOf
  <2>3. PICK length \in Ints64 : length = Received(step.length)
    <3>1. step.length \in Ints64
      BY <2>2, StepsAssumption
    <3> QED BY <1>0, <3>1, ReceivedInts DEF Ints64
  <2> DEFINE min == ToInt(pow10(Wrap(length - 1)))
             max == ToInt(Nearest(pow10(length) - 1))
  <2>4. min \in Int /\ max \in Int
    <3>1. length - 1 \in Int /\ length \in Int
      BY <1>0 DEF Ints64
    <3>2. Wrap(length - 1) \in Int
      BY <1>0, <3>1, Wrapping DEF Ints64
    <3>3. pow10(Wrap(length - 1)) \in Int /\ pow10(length) - 1 \in Int
      BY <3>1, <3>2, Powers DEF pow10
    <3>4. Nearest(pow10(length) - 1) \in Int
      BY <3>3, NearestIdempotent
    <3> QED BY <1>0, <3>3, <3>4, ReceivedInts DEF Ints64
  <2>5. length >= 1 => ~(Wrap(Wrap(max - min) + 1) < 1)
    <3> SUFFICES ASSUME length >= 1 PROVE ~(Wrap(Wrap(max - min) + 1) < 1)
      OBVIOUS
    <3>1. Wrap(Wrap(max - min) + 1) >= 1
      BY FixedLengthHasARange
    <3>2. Wrap(Wrap(max - min) + 1) \in Int
      <4> HIDE DEF min, max
      <4>1. Wrap(max - min) + 1 \in Int
        BY <1>0, <2>4, Wrapping DEF Ints64
      <4> QED BY <1>0, <4>1, Wrapping DEF Ints64
    <3> HIDE DEF min, max
    <3> QED BY <3>1, <3>2
  <2>6. VariablesAreValues' /\ (pc' = "steps" \/ Wrap(Wrap(max - min) + 1) < 1)
    <3>1. RandomBetween(step, min, max)
      BY <2>1, <2>3
    <3> HIDE DEF min, max
    <3> QED BY <2>2, <2>4, <3>1, RandomNumbers
  <2>7. ~(length >= 1) => BadNumber(step)
    BY <1>0, <2>2, <2>3 DEF BadNumber, Ints64
  <2> HIDE DEF min, max
  <2> QED BY <2>1, <2>5, <2>6, <2>7 DEF PanicsOn
<1>4. CASE GenerateRandomDecimal
  <2>1. PICK step \in StepsOf("GenerateRandomDecimal") :
          /\ Keeps
          /\ \E n \in (Nearest(step.min) .. Nearest(step.max)) \cup (Nearest(step.max) .. Nearest(step.min)) :
               Assign(step.var, Float(Nearest(n)))
    BY <1>4 DEF GenerateRandomDecimal
  <2>2. step \in Steps /\ step.func = "GenerateRandomDecimal" /\ pc = "steps"
    BY DEF StepsOf
  <2>3. PICK n \in Int : Assign(step.var, Float(Nearest(n)))
    BY <2>1
  <2>4. IsValue(Float(Nearest(n)))
    BY NearestIdempotent, MadeValues
  <2> QED BY <2>1, <2>2, <2>3, <2>4, AssignedValue DEF Keeps
<1>5. CASE HashedString
  <2>1. PICK step \in StepsOf("HashedString") :
          /\ Keeps
          /\ Assign(step.var, IF step.algorithm \notin {"MD5", "SHA256"} THEN Str(<<>>)
                              ELSE Str(<<step.algorithm>> \o Text(Variable(step.from))))
    BY <1>5 DEF HashedString
  <2>2. step \in Steps /\ step.func = "HashedString" /\ pc = "steps"
    BY DEF StepsOf
  <2>3. step.algorithm \in Symbols
    BY <2>2, StepsAssumption DEF Symbols
  <2>4. <<step.algorithm>> \o Text(Variable(step.from)) \in Seq(Symbols)
    <3>1. <<step.algorithm>> \in Seq(Symbols)
      <4> HIDE DEF Symbols
      <4> QED BY <2>3
    <3> QED BY <3>1, VariablesAre, ConcatProperties
  <2>5. <<>> \in Seq(Symbols)
    BY EmptySeq
  <2>6. IsValue(IF step.algorithm \notin {"MD5", "SHA256"} THEN Str(<<>>)
                ELSE Str(<<step.algorithm>> \o Text(Variable(step.from))))
    BY <2>4, <2>5, MadeValues
  <2> QED BY <2>1, <2>2, <2>6, AssignedValue DEF Keeps
<1> QED BY <1>1, <1>2, <1>3, <1>4, <1>5 DEF Generator

\* The end of a substring is clipped, so that the slice is always in range.
LEMMA SubstringIsInRange ==
  ASSUME NEW text \in Seq(Symbols), NEW first \in Int, NEW last \in Int
  PROVE  LET start == IF first < 0 THEN 0 ELSE first
             end == IF last > Len(text) THEN Len(text) ELSE last
             part == IF start <= end THEN SliceOf(text, start, end) ELSE {Str(<<>>)}
         IN  part # {} /\ \A s \in part : IsValue(s)
<1> DEFINE start == IF first < 0 THEN 0 ELSE first
           end == IF last > Len(text) THEN Len(text) ELSE last
           part == IF start <= end THEN SliceOf(text, start, end) ELSE {Str(<<>>)}
<1> SUFFICES part # {} /\ \A s \in part : IsValue(s)
  OBVIOUS
<1>1. Len(text) \in Nat
  BY LenProperties
<1>2. start \in Nat /\ end \in Int /\ end <= Len(text)
  BY <1>1
<1> HIDE DEF start, end
<1>3. CASE start <= end
  <2>1. SliceOf(text, start, end) = {Str(SubSeq(text, start + 1, end))}
    <3> QED BY <1>1, <1>2, <1>3 DEF SliceOf
  <2>2. SubSeq(text, start + 1, end) \in Seq(Symbols)
    <3>1. \A i \in start + 1 .. end : i \in 1 .. Len(text)
      BY <1>1, <1>2
    <3> QED BY <1>2, <3>1, SubSeqProperties
  <2> QED BY <1>3, <2>1, <2>2, MadeValues
<1>4. CASE ~(start <= end)
  <2>1. part = {Str(<<>>)} /\ <<>> \in Seq(Symbols)
    BY <1>4, EmptySeq
  <2> HIDE DEF part
  <2> QED BY <2>1, MadeValues
<1> QED BY <1>3, <1>4

LEMMA DynamicVariableKeepsValues ==
  ASSUME TypeOK, DynamicVariable
  PROVE  VariablesAreValues' /\ pc' = "steps"
<1>1. CASE ConvertToString
  <2>1. PICK step \in StepsOf("ConvertToString") :
          /\ Keeps
          /\ \/ UNCHANGED variables
             \/ /\ step.var \in DOMAIN variables
                /\ Assign(step.var, Str(Text(variables[step.var])))
    BY <1>1 DEF ConvertToString
  <2>2. pc' = "steps"
    BY <2>1 DEF StepsOf, Keeps
  <2>3. step.var \in DOMAIN variables => IsValue(Str(Text(variables[step.var])))
    BY TextOfValue, MadeValues DEF TypeOK
  <2> QED BY <2>1, <2>2, <2>3, AssignedValue, KeptVariables
<1>2. CASE ConvertToInt
  <2>1. PICK step \in StepsOf("ConvertToInt") :
          /\ Keeps
          /\ \/ UNCHANGED variables
             \/ /\ step.var \in DOMAIN variables
                /\ Assign(step.var, Number(ToInt(toFloat(variables[step.var]))))
    BY <1>2 DEF ConvertToInt
  <2>2. pc' = "steps"
    BY <2>1 DEF StepsOf, Keeps
  <2>3. step.var \in DOMAIN variables => IsValue(Number(ToInt(toFloat(variables[step.var]))))
    BY NumbersOfValues, MadeValues DEF TypeOK
  <2> QED BY <2>1, <2>2, <2>3, AssignedValue, KeptVariables
<1>3. CASE DynamicVarSubstring
  <2>1. PICK step \in StepsOf("DynamicVarSubstring") :
          LET text == Text(Variable(step.from))
              start == IF Received(step.start) < 0 THEN 0 ELSE Received(step.start)
              end == IF Received(step.end) > Len(text) THEN Len(text) ELSE Received(step.end)
              part == IF start <= end THEN SliceOf(text, start, end) ELSE {Str(<<>>)}
          IN  IF step.from \notin DOMAIN variables THEN UNCHANGED variables /\ Keeps
              ELSE \/ part = {} /\ Panics
                   \/ \E s \in part : Assign(step.var, s) /\ Keeps
    BY <1>3 DEF DynamicVarSubstring
  <2> DEFINE text == Text(Variable(step.from))
             start == IF Received(step.start) < 0 THEN 0 ELSE Received(step.start)
             end == IF Received(step.end) > Len(text) THEN Len(text) ELSE Received(step.end)
             part == IF start <= end THEN SliceOf(text, start, end) ELSE {Str(<<>>)}
  <2>2. step \in Steps /\ step.func = "DynamicVarSubstring" /\ pc = "steps"
    BY DEF StepsOf
  <2>3. Received(step.start) \in Int /\ Received(step.end) \in Int
    <3>1. step.start \in Ints64 /\ step.end \in Ints64
      BY <2>2, StepsAssumption
    <3> QED BY <3>1, ReceivedInts, BoundsAssumption DEF Ints64
  <2>4. part # {} /\ \A s \in part : IsValue(s)
    BY <2>3, VariablesAre, SubstringIsInRange
  <2>5. (UNCHANGED variables /\ Keeps) \/ (part = {} /\ Panics) \/ \E s \in part : Assign(step.var, s) /\ Keeps
    BY <2>1
  <2> HIDE DEF part
  <2> QED BY <2>2, <2>4, <2>5, AssignedValue, KeptVariables DEF Keeps
<1>4. CASE DynamicVarJoin
  <2>1. PICK step \in StepsOf("DynamicVarJoin") :
          /\ Keeps
          /\ Assign(step.var, Str(Join([i \in DOMAIN step.parts |-> Text(resolveArg(step.parts[i]))],
                                       step.separator)))
    BY <1>4 DEF DynamicVarJoin
  <2>2. step \in Steps /\ step.func = "DynamicVarJoin" /\ pc = "steps"
    BY DEF StepsOf
  <2>3. /\ step.separator \in Seq(Symbols)
        /\ Len(step.parts) \in Nat /\ DOMAIN step.parts = 1 .. Len(step.parts)
        /\ \A i \in DOMAIN step.parts : IsArg(step.parts[i])
    <3>1. /\ step.separator \in Seq(Symbols) /\ Len(step.parts) \in Nat
          /\ step.parts = [i \in 1 .. Len(step.parts) |-> step.parts[i]]
          /\ \A i \in DOMAIN step.parts : IsArg(step.parts[i])
      BY <2>2, StepsAssumption
    <3> QED BY <3>1
  <2> DEFINE texts == [i \in DOMAIN step.parts |-> Text(resolveArg(step.parts[i]))]
  <2>4. \A i \in DOMAIN step.parts : Text(resolveArg(step.parts[i])) \in Seq(Symbols)
    BY <2>3, ArgumentsAreValues, TextOfValue
  <2>5. texts \in Seq(Seq(Symbols))
    <3>1. texts \in [1 .. Len(step.parts) -> Seq(Symbols)]
      BY <2>3, <2>4
    <3> QED BY <2>3, <3>1, SeqDef
  <2>6. IsValue(Str(Join(texts, step.separator)))
    <3> HIDE DEF texts
    <3> QED BY <2>3, <2>5, JoinedTexts, MadeValues
  <2>7. Keeps /\ Assign(step.var, Str(Join(texts, step.separator)))
    BY <2>1
  <2> HIDE DEF texts
  <2> QED BY <2>2, <2>6, <2>7, AssignedValue DEF Keeps
<1>5. CASE Delete
  <2>1. PICK step \in StepsOf("Delete") :
          Keeps /\ variables' = [name \in DOMAIN variables \ {step.var} |-> variables[name]]
    BY <1>5 DEF Delete
  <2>2. pc' = "steps"
    BY <2>1 DEF StepsOf, Keeps
  <2>3. \A name \in DOMAIN variables : IsValue(variables[name])
    BY DEF TypeOK
  <2>4. \A name \in DOMAIN variables' : IsValue(variables'[name])
    BY <2>1, <2>3
  <2> QED BY <2>2, <2>4 DEF VariablesAreValues
<1> QED BY <1>1, <1>2, <1>3, <1>4, <1>5 DEF DynamicVariable

LEMMA SetupKeepsValues ==
  ASSUME TypeOK, SetupResponse
  PROVE  VariablesAreValues' /\ pc' = "steps"
<1>1. pc = "steps" /\ UNCHANGED <<pc, variables>>
  BY DEF SetupResponse, OtherCase, SetBody, SetStatusCode, SetWait, SetRandomWait, SetHeader,
         CopyHeaderFromRequest, Setup, SetsUp, StepsOf
<1> QED BY <1>1, KeptVariables

LEMMA GreatestOf ==
  ASSUME NEW n \in Nat, NEW S \in SUBSET (1 .. n), S # {}
  PROVE  \E m \in S : \A j \in S : j <= m
<1>1. PICK k \in S : TRUE
  OBVIOUS
<1>2. PICK m \in 1 .. n : m \in S /\ \A j \in m + 1 .. n : j \notin S
  <2> DEFINE Above == {i \in Nat : i < n => \/ \E m \in n - i .. n : m \in S /\ \A j \in m + 1 .. n : j \notin S
                                            \/ \A j \in n - i .. n : j \notin S}
  <2>1. 0 \in Above
    <3>1. \A j \in n + 1 .. n : FALSE
      OBVIOUS
    <3>2. n \in n - 0 .. n /\ \A j \in n - 0 .. n : j = n
      OBVIOUS
    <3>3. CASE n \in S
      BY <3>1, <3>2, <3>3
    <3>4. CASE n \notin S
      BY <3>2, <3>4
    <3> QED BY <3>3, <3>4
  <2>2. ASSUME NEW i \in Nat, i \in Above PROVE i + 1 \in Above
    <3>1. SUFFICES ASSUME i + 1 < n
                   PROVE  \/ \E m \in n - (i + 1) .. n : m \in S /\ \A j \in m + 1 .. n : j \notin S
                          \/ \A j \in n - (i + 1) .. n : j \notin S
      OBVIOUS
    <3>2. CASE \E m \in n - i .. n : m \in S /\ \A j \in m + 1 .. n : j \notin S
      <4>1. n - i .. n \subseteq n - (i + 1) .. n
        OBVIOUS
      <4> QED BY <3>2, <4>1
    <3>3. CASE \A j \in n - i .. n : j \notin S
      <4>1. PICK x \in Int : x = n - (i + 1)
        OBVIOUS
      <4>2. x + 1 = n - i /\ x \in x .. n
        BY <3>1, <4>1
      <4>3. \A j \in x .. n : j = x \/ j \in x + 1 .. n
        BY <4>1
      <4> QED BY <3>3, <4>1, <4>2, <4>3
    <3>4. i < n
      BY <3>1
    <3> QED BY <2>2, <3>2, <3>3, <3>4
  <2> HIDE DEF Above
  <2>3. Nat \subseteq Above
    BY <2>1, <2>2, Induction
  <2>4. n # 0
    BY <1>1
  <2>5. n - 1 \in Nat /\ n - 1 < n /\ n - (n - 1) = 1
    BY <2>4
  <2>6. n - 1 \in Above
    BY <2>3, <2>5
  <2> USE DEF Above
  <2>7. \/ \E m \in 1 .. n : m \in S /\ \A j \in m + 1 .. n : j \notin S
        \/ \A j \in 1 .. n : j \notin S
    BY <2>5, <2>6
  <2> QED BY <1>1, <2>7
<1>3. \A j \in S : j <= m
  BY <1>2
<1> QED BY <1>2, <1>3

\* What a call captures from its path are texts.
LEMMA CapturesAreTexts ==
  ASSUME TypeOK, NEW pattern \in Seq(Segments), NEW params \in matchPathPattern(pattern, call.path),
         NEW name \in DOMAIN params
  PROVE  params[name] \in Seq(Symbols)
<1> DEFINE ps == splitPattern(pattern)
           ss == splitPath(call.path)
           named(n) == {i \in DOMAIN ps : ps[i] = Param(n)}
           last(n) == CHOOSE i \in named(n) : \A j \in named(n) : j <= i
<1>1. /\ Len(ps) = Len(ss)
      /\ params = [n \in {ps[i].text : i \in {j \in DOMAIN ps : ps[j].param}} |-> <<ss[last(n)]>>]
  BY DEF matchPathPattern
<1>2. params[name] = <<ss[last(name)]>> /\ \E j \in DOMAIN ps : ps[j].param /\ ps[j].text = name
  <2> HIDE DEF last, ps, ss
  <2> QED BY <1>1
<1>3. /\ ss \in Seq(STRING) /\ Len(ss) \in Nat /\ DOMAIN ss = 1 .. Len(ss)
      /\ DOMAIN ps = 1 .. Len(ps) /\ Len(ps) \in Nat /\ \A i \in DOMAIN ps : ps[i] \in Segments
  <2>1. ps \in Seq(Segments) /\ ss \in Seq(STRING)
    BY PathsAssumption, SplitPaths, SplitPatterns DEF TypeOK
  <2> HIDE DEF ps, ss
  <2> QED BY <2>1, LenProperties, ElementOfSeq
<1> HIDE DEF ps, ss
<1>4. named(name) # {} /\ named(name) \in SUBSET (1 .. Len(ps))
  <2>1. PICK j \in DOMAIN ps : ps[j].param /\ ps[j].text = name
    BY <1>2
  <2>2. ps[j] = Param(name)
    BY <1>3, <2>1 DEF Segments, Param
  <2> QED BY <1>3, <2>1, <2>2
<1>5. last(name) \in named(name)
  <2> HIDE DEF named
  <2>1. \E m \in named(name) : \A j \in named(name) : j <= m
    BY <1>3, <1>4, GreatestOf
  <2> QED BY <2>1
<1>6. last(name) \in DOMAIN ss
  <2> HIDE DEF last
  <2> QED BY <1>1, <1>3, <1>4, <1>5
<1>7. ss[last(name)] \in Symbols
  <2> HIDE DEF last
  <2>1. ss[last(name)] \in STRING
    BY <1>3, <1>6, ElementOfSeq
  <2> QED BY <2>1 DEF Symbols
<1> HIDE DEF last
<1> QED BY <1>2, <1>7

\* Every step leaves values in the variables, and panics only on its own number.
LEMMA StepsKeepValues ==
  ASSUME TypeOK, Next, ~HandleMockRequest, ~Finalize
  PROVE  VariablesAreValues' /\ (pc' = "steps" \/ \E step : PanicsOn(step))
<1>1. CASE PrepareData
  BY <1>1, PrepareDataKeepsValues
<1>2. CASE Generator
  BY <1>2, GeneratorKeepsValues
<1>3. CASE DynamicVariable
  BY <1>3, DynamicVariableKeepsValues
<1>4. CASE SetupResponse
  BY <1>4, SetupKeepsValues
<1> QED BY <1>1, <1>2, <1>3, <1>4 DEF Next

\* A call starts with the parameters of its path, which are texts.
LEMMA RoutingMakesValues ==
  ASSUME TypeOK, HandleMockRequest
  PROVE  /\ VariablesAreValues'
         /\ \A name \in DOMAIN pathParams' : pathParams'[name] \in Seq(Symbols)
<1>1. CASE UNCHANGED <<pathParams, variables>>
  BY <1>1 DEF TypeOK, VariablesAreValues
<1>2. CASE ~UNCHANGED <<pathParams, variables>>
  <2>0. PICK registered \in SUBSET DOMAIN Patterns :
          \E route \in findRouteLocked(registered, call.path) :
            /\ pathParams' = route.params
            /\ variables' = [name \in DOMAIN route.params |-> Str(route.params[name])]
    BY <1>2 DEF HandleMockRequest
  <2>1. PICK route \in findRouteLocked(registered, call.path) :
          /\ pathParams' = route.params
          /\ variables' = [name \in DOMAIN route.params |-> Str(route.params[name])]
    BY <2>0
  <2>2. \/ route.params = NoFields
        \/ \E i \in DOMAIN Patterns : route.params \in matchPathPattern(Patterns[i], call.path)
    BY DEF findRouteLocked
  <2>3. \A name \in DOMAIN route.params : route.params[name] \in Seq(Symbols)
    <3>1. CASE route.params = NoFields
      BY <3>1 DEF NoFields
    <3>2. CASE \E i \in DOMAIN Patterns : route.params \in matchPathPattern(Patterns[i], call.path)
      BY <3>2, PatternsAre, CapturesAreTexts
    <3> QED BY <2>2, <3>1, <3>2
  <2>4. \A name \in DOMAIN variables' : IsValue(variables'[name])
    BY <2>1, <2>3, MadeValues
  <2> QED BY <2>1, <2>3, <2>4 DEF VariablesAreValues
<1> QED BY <1>1, <1>2
-----------------------------------------------------------------------------
(***************************************************************************)
(* The response.  That a step leaves the last of its kind where it was     *)
(* needs that there is one: HasLast is carried along.                      *)
(***************************************************************************)
HasLast(is) == is # {} => LastOf(is) \in is

LastsInv ==
  /\ pc = "routing" => done = <<>>
  /\ \A func : HasLast(Ran(func))
  /\ \A key : HasLast(StepsFor(key))
  /\ (\A i \in CaseSteps : LooksAtTheRequest(done[i].step)) => HasLast(Matching)

IInv ==
  /\ TypeOK /\ LastsInv /\ ResponseIsOfItsCase /\ CaseIsOfTheLastMatch
  /\ PanicsOnlyOnBadNumbers

\* One step of the route is executed.
Runs(step) == step \in StepsOf(step.func) /\ Executes(step)

ResponseFuncs == {"SetBody", "SetStatusCode", "SetWait", "SetRandomWait", "SetHeader",
                  "CopyHeaderFromRequest"}
SetsAPart(step) == step.func \in ResponseFuncs /\ step.case = activeCase
SetsAHeader(step) ==
  /\ step.func \in {"SetHeader", "CopyHeaderFromRequest"} /\ step.case = activeCase
  /\ step.func = "SetHeader" \/ Lookup(call.header, step.key) # Str(<<>>)

\* What any step does to the case and the response.
StepForm(step) ==
  /\ Runs(step)
  /\ pc = "steps" /\ pc' \in {"steps", "panicked"}
  /\ activeCase' = IF step.func = "IfSetCase" /\ checkCondition(step) THEN step.case ELSE activeCase
  /\ status' = IF step.func = "SetStatusCode" /\ SetsAPart(step) THEN Received(step.code) ELSE status
  /\ fixedDelay' = IF step.func = "SetWait" /\ SetsAPart(step) THEN Nanoseconds(Received(step.ms))
                   ELSE fixedDelay
  /\ randomWait' = IF step.func = "SetRandomWait" /\ SetsAPart(step)
                   THEN <<Received(step.min), Received(step.max)>> ELSE randomWait
  /\ body' = IF step.func = "SetBody" /\ SetsAPart(step) THEN step.body ELSE body
  /\ headers' = IF SetsAHeader(step)
                THEN With(headers, step.key,
                          IF step.func = "SetHeader" THEN resolveArg(step.value)
                          ELSE Lookup(call.header, step.key))
                ELSE headers

LEMMA LastOfMore ==
  ASSUME NEW n \in Nat, NEW is \in SUBSET (1 .. n)
  PROVE  LastOf(is \cup {n + 1}) = n + 1
<1> DEFINE more == is \cup {n + 1}
<1>1. n + 1 \in more /\ \A j \in more : j <= n + 1
  OBVIOUS
<1>2. \A i \in more : (\A j \in more : j <= i) => i = n + 1
  OBVIOUS
<1> QED BY <1>1, <1>2 DEF LastOf

LEMMA Appended ==
  ASSUME TypeOK, NEW step \in Steps, Runs(step)
  PROVE  /\ Len(done) \in Nat /\ DOMAIN done = 1 .. Len(done)
         /\ DOMAIN done' = DOMAIN done \cup {Len(done) + 1}
         /\ \A i \in DOMAIN done : done'[i] = done[i]
         /\ done'[Len(done) + 1] = [step |-> step, case |-> activeCase]
<1> DEFINE entry == [step |-> step, case |-> activeCase]
           S == [step : Steps, case : Cases]
<1>1. done \in Seq(S) /\ entry \in S
  BY DEF TypeOK
<1>2. done' = Append(done, entry)
  BY DEF Runs, Executes
<1> HIDE DEF S, entry
<1>3. /\ Len(done) \in Nat /\ DOMAIN done = 1 .. Len(done)
      /\ DOMAIN done' = 1 .. Len(done) + 1
      /\ \A i \in DOMAIN done : done'[i] = done[i]
      /\ done'[Len(done) + 1] = entry
  BY <1>1, <1>2
<1> QED BY <1>3 DEF entry

LEMMA StepsAhead ==
  ASSUME NEW func, NEW step \in StepsOf(func)
  PROVE  step \in Steps /\ step.func = func /\ pc = "steps" /\ step \in StepsOf(step.func)
BY DEF StepsOf

\* Each action of Next but two executes a step.
LEMMA NextForms ==
  ASSUME Next
  PROVE  HandleMockRequest \/ Finalize \/ \E step \in Steps : StepForm(step)
<1>1. CASE PrepareData
  <2>1. CASE IfRequest
    <3>1. PICK step \in StepsOf("If") : Executes(step) /\ Keeps
      BY <2>1 DEF IfRequest
    <3> QED BY <3>1 DEF StepForm, Runs, StepsOf, Keeps, setup, SetsAPart, SetsAHeader, ResponseFuncs
  <2>2. CASE IfRequestSetCase
    <3>1. PICK step \in StepsOf("IfSetCase") :
            /\ Executes(step) /\ UNCHANGED <<pc, setup>>
            /\ activeCase' = IF checkCondition(step) THEN step.case ELSE activeCase
      BY <2>2 DEF IfRequestSetCase
    <3> QED BY <3>1 DEF StepForm, Runs, StepsOf, setup, SetsAPart, SetsAHeader, ResponseFuncs
  <2>3. CASE ExtractRequest
    <3>1. PICK step \in StepsOf("Extract") : Executes(step) /\ Keeps
      BY <2>3 DEF ExtractRequest
    <3> QED BY <3>1 DEF StepForm, Runs, StepsOf, Keeps, setup, SetsAPart, SetsAHeader, ResponseFuncs
  <2> QED BY <1>1, <2>1, <2>2, <2>3 DEF PrepareData
<1> DEFINE Others == {"GenerateRandomString", "GenerateRandomInt", "GenerateRandomIntFixLength",
                      "GenerateRandomDecimal", "HashedString", "ConvertToString", "ConvertToInt",
                      "DynamicVarSubstring", "DynamicVarJoin", "Delete"}
<1>2. ASSUME NEW func \in Others, NEW step \in StepsOf(func), Executes(step), Keeps \/ Panics
      PROVE  \E s \in Steps : StepForm(s)
  <2>1. step \in Steps /\ step.func = func
    BY DEF StepsOf
  <2>2. StepForm(step)
    BY <1>2, <2>1 DEF StepForm, Runs, StepsOf, Keeps, Panics, setup, SetsAPart, SetsAHeader,
                      ResponseFuncs
  <2> QED BY <2>1, <2>2
<1>3. CASE Generator
  <2>1. CASE GenerateRandomString
    BY <1>2, <2>1 DEF GenerateRandomString
  <2>2. CASE GenerateRandomInt
    BY <1>2, <2>2 DEF GenerateRandomInt, RandomBetween
  <2>3. CASE GenerateRandomIntFixLength
    BY <1>2, <2>3 DEF GenerateRandomIntFixLength, RandomBetween
  <2>4. CASE GenerateRandomDecimal
    BY <1>2, <2>4 DEF GenerateRandomDecimal
  <2>5. CASE HashedString
    BY <1>2, <2>5 DEF HashedString
  <2> QED BY <1>3, <2>1, <2>2, <2>3, <2>4, <2>5 DEF Generator
<1>4. CASE DynamicVariable
  <2>1. CASE ConvertToString
    BY <1>2, <2>1 DEF ConvertToString
  <2>2. CASE ConvertToInt
    BY <1>2, <2>2 DEF ConvertToInt
  <2>3. CASE DynamicVarSubstring
    BY <1>2, <2>3 DEF DynamicVarSubstring
  <2>4. CASE DynamicVarJoin
    BY <1>2, <2>4 DEF DynamicVarJoin
  <2>5. CASE Delete
    BY <1>2, <2>5 DEF Delete
  <2> QED BY <1>4, <2>1, <2>2, <2>3, <2>4, <2>5 DEF DynamicVariable
<1>5. CASE SetupResponse
  <2>1. CASE OtherCase
    <3>1. PICK func \in ResponseFuncs \cup {"SetMethod"} :
            \E step \in StepsOf(func) \ (IF func = "SetMethod" THEN {} ELSE Setup(func)) :
              SetsUp(step) /\ UNCHANGED setup
      BY <2>1 DEF OtherCase, ResponseFuncs
    <3>2. PICK step \in StepsOf(func) :
            /\ SetsUp(step) /\ UNCHANGED setup
            /\ func # "SetMethod" => step \notin Setup(func)
      BY <3>1
    <3>3. step \in Steps /\ step.func = func /\ pc = "steps" /\ step \in StepsOf(step.func)
      BY <3>2, StepsAhead
    <3>4. step.func # "SetMethod" => step.case # activeCase
      BY <3>2, <3>3 DEF Setup
    <3>5. ~SetsAPart(step) /\ ~SetsAHeader(step) /\ step.func # "IfSetCase"
      <4>1. step.func \in ResponseFuncs \cup {"SetMethod"}
        BY <3>1, <3>3
      <4> QED BY <3>4, <4>1 DEF SetsAPart, SetsAHeader, ResponseFuncs
    <3>6. Runs(step) /\ UNCHANGED <<pc, variables, activeCase, setup>>
      BY <3>2, <3>3 DEF Runs, SetsUp, setup
    <3> QED BY <3>3, <3>5, <3>6 DEF StepForm, setup
  <2>2. CASE SetBody
    <3>1. PICK step \in Setup("SetBody") :
            SetsUp(step) /\ body' = step.body /\ UNCHANGED <<status, headers, fixedDelay, randomWait>>
      BY <2>2 DEF SetBody
    <3> QED BY <3>1 DEF StepForm, Runs, StepsOf, Setup, SetsUp, SetsAPart, SetsAHeader, ResponseFuncs
  <2>3. CASE SetStatusCode
    <3>1. PICK step \in Setup("SetStatusCode") :
            /\ SetsUp(step) /\ status' = Received(step.code)
            /\ UNCHANGED <<body, headers, fixedDelay, randomWait>>
      BY <2>3 DEF SetStatusCode
    <3> QED BY <3>1 DEF StepForm, Runs, StepsOf, Setup, SetsUp, SetsAPart, SetsAHeader, ResponseFuncs
  <2>4. CASE SetWait
    <3>1. PICK step \in Setup("SetWait") :
            /\ SetsUp(step) /\ fixedDelay' = Nanoseconds(Received(step.ms))
            /\ UNCHANGED <<status, body, headers, randomWait>>
      BY <2>4 DEF SetWait
    <3> QED BY <3>1 DEF StepForm, Runs, StepsOf, Setup, SetsUp, SetsAPart, SetsAHeader, ResponseFuncs
  <2>5. CASE SetRandomWait
    <3>1. PICK step \in Setup("SetRandomWait") :
            /\ SetsUp(step) /\ randomWait' = <<Received(step.min), Received(step.max)>>
            /\ UNCHANGED <<status, body, headers, fixedDelay>>
      BY <2>5 DEF SetRandomWait
    <3> QED BY <3>1 DEF StepForm, Runs, StepsOf, Setup, SetsUp, SetsAPart, SetsAHeader, ResponseFuncs
  <2>6. CASE SetHeader
    <3>1. PICK step \in Setup("SetHeader") :
            /\ SetsUp(step) /\ headers' = With(headers, step.key, resolveArg(step.value))
            /\ UNCHANGED <<status, body, fixedDelay, randomWait>>
      BY <2>6 DEF SetHeader
    <3> QED BY <3>1 DEF StepForm, Runs, StepsOf, Setup, SetsUp, SetsAPart, SetsAHeader, ResponseFuncs
  <2>7. CASE CopyHeaderFromRequest
    <3>1. PICK step \in Setup("CopyHeaderFromRequest") :
            /\ SetsUp(step) /\ UNCHANGED <<status, body, fixedDelay, randomWait>>
            /\ headers' = IF Lookup(call.header, step.key) = Str(<<>>) THEN headers
                          ELSE With(headers, step.key, Lookup(call.header, step.key))
      BY <2>7 DEF CopyHeaderFromRequest
    <3> QED BY <3>1 DEF StepForm, Runs, StepsOf, Setup, SetsUp, SetsAPart, SetsAHeader, ResponseFuncs
  <2> QED BY <1>5, <2>1, <2>2, <2>3, <2>4, <2>5, <2>6, <2>7 DEF SetupResponse
<1> QED BY <1>1, <1>3, <1>4, <1>5 DEF Next

\* What a step adds to the steps of a kind, and where the last one is then.
LEMMA LastAfter ==
  ASSUME TypeOK, NEW step \in Steps, Runs(step), NEW is \in SUBSET DOMAIN done, HasLast(is)
  PROVE  /\ LastOf(is \cup {Len(done) + 1}) = Len(done) + 1
         /\ done'[LastOf(is \cup {Len(done) + 1})].step = step
         /\ HasLast(is \cup {Len(done) + 1})
         /\ is # {} => LastOf(is) \in DOMAIN done /\ done'[LastOf(is)] = done[LastOf(is)]
<1>1. /\ Len(done) \in Nat /\ DOMAIN done = 1 .. Len(done)
      /\ \A i \in DOMAIN done : done'[i] = done[i]
      /\ done'[Len(done) + 1] = [step |-> step, case |-> activeCase]
  BY Appended
<1>2. LastOf(is \cup {Len(done) + 1}) = Len(done) + 1
  BY <1>1, LastOfMore
<1>3. done'[LastOf(is \cup {Len(done) + 1})].step = step
  BY <1>1, <1>2
<1>4. HasLast(is \cup {Len(done) + 1})
  BY <1>2 DEF HasLast
<1>5. is # {} => LastOf(is) \in DOMAIN done /\ done'[LastOf(is)] = done[LastOf(is)]
  BY <1>1 DEF HasLast
<1> QED BY <1>2, <1>3, <1>4, <1>5

LEMMA RanAfter ==
  ASSUME TypeOK, NEW step \in Steps, Runs(step), NEW func
  PROVE  /\ Ran(func) \subseteq DOMAIN done
         /\ Ran(func)' = IF step.func = func /\ step.case = activeCase
                         THEN Ran(func) \cup {Len(done) + 1} ELSE Ran(func)
<1>1. /\ Len(done) \in Nat /\ DOMAIN done = 1 .. Len(done)
      /\ DOMAIN done' = DOMAIN done \cup {Len(done) + 1}
      /\ \A i \in DOMAIN done : done'[i] = done[i]
      /\ done'[Len(done) + 1] = [step |-> step, case |-> activeCase]
  BY Appended
<1>2. Len(done) + 1 \notin DOMAIN done
  BY <1>1
<1> QED BY <1>1, <1>2 DEF Ran

LEMMA LatestAfter ==
  ASSUME TypeOK, NEW step \in Steps, Runs(step), NEW func, HasLast(Ran(func))
  PROVE  /\ HasLast(Ran(func))'
         /\ IF step.func = func /\ step.case = activeCase
            THEN Ran(func)' # {} /\ Latest(func)' = step
            ELSE /\ Ran(func)' = {} <=> Ran(func) = {}
                 /\ Ran(func) # {} => Latest(func)' = Latest(func)
<1>1. Ran(func) \in SUBSET DOMAIN done
  BY RanAfter
<1>2. /\ done'[LastOf(Ran(func) \cup {Len(done) + 1})].step = step
      /\ HasLast(Ran(func) \cup {Len(done) + 1})
      /\ Ran(func) # {} => done'[LastOf(Ran(func))] = done[LastOf(Ran(func))]
  BY <1>1, LastAfter
<1>3. HasLast(Ran(func))' <=> HasLast(Ran(func)')
  BY DEF HasLast, LastOf
<1>4. Latest(func)' = done'[LastOf(Ran(func)')].step
  BY DEF Latest, LastOf
<1>5. CASE step.func = func /\ step.case = activeCase
  <2>1. Ran(func)' = Ran(func) \cup {Len(done) + 1}
    BY <1>5, RanAfter
  <2> QED BY <1>2, <1>3, <1>4, <1>5, <2>1
<1>6. CASE ~(step.func = func /\ step.case = activeCase)
  <2>1. Ran(func)' = Ran(func)
    BY <1>6, RanAfter
  <2> QED BY <1>2, <1>3, <1>4, <1>6, <2>1 DEF Latest
<1> QED BY <1>5, <1>6

LEMMA HeaderStepsAfter ==
  ASSUME TypeOK, NEW step \in Steps, Runs(step), NEW key
  PROVE  /\ HeaderSteps' = IF SetsAHeader(step) THEN HeaderSteps \cup {Len(done) + 1}
                           ELSE HeaderSteps
         /\ StepsFor(key)' = IF SetsAHeader(step) /\ step.key = key
                             THEN StepsFor(key) \cup {Len(done) + 1} ELSE StepsFor(key)
         /\ HeaderSteps \subseteq DOMAIN done /\ StepsFor(key) \subseteq HeaderSteps
<1>1. /\ Len(done) \in Nat /\ DOMAIN done = 1 .. Len(done)
      /\ \A i \in DOMAIN done : done'[i] = done[i]
      /\ done'[Len(done) + 1] = [step |-> step, case |-> activeCase]
  BY Appended
<1>2. Len(done) + 1 \notin DOMAIN done
  BY <1>1
<1> DEFINE both == Ran("SetHeader") \cup Ran("CopyHeaderFromRequest")
<1>3. both \subseteq DOMAIN done
  BY DEF Ran
<1>4. both' = IF /\ step.func \in {"SetHeader", "CopyHeaderFromRequest"}
                /\ step.case = activeCase
             THEN both \cup {Len(done) + 1} ELSE both
  BY RanAfter
<1>5. call' = call
  BY DEF Runs, Executes
<1>6. \A k : Lookup(call.header, k)' = Lookup(call.header, k)
  BY <1>5 DEF Lookup
<1> HIDE DEF both
<1>7. HeaderSteps' = {i \in both' : \/ done'[i].step.func = "SetHeader"
                                   \/ Lookup(call.header, done'[i].step.key) # Str(<<>>)}
  BY <1>5 DEF HeaderSteps, both, Lookup
<1>8. HeaderSteps = {i \in both : \/ done[i].step.func = "SetHeader"
                                 \/ Lookup(call.header, done[i].step.key) # Str(<<>>)}
  BY DEF HeaderSteps, both
<1>9. HeaderSteps' = IF SetsAHeader(step) THEN HeaderSteps \cup {Len(done) + 1} ELSE HeaderSteps
  BY <1>1, <1>2, <1>3, <1>4, <1>7, <1>8 DEF SetsAHeader
<1>10. HeaderSteps \subseteq DOMAIN done
  BY <1>3, <1>8
<1>11. StepsFor(key)' = {i \in HeaderSteps' : done'[i].step.key = key}
  BY DEF StepsFor
<1>12. StepsFor(key)' = IF SetsAHeader(step) /\ step.key = key
                       THEN StepsFor(key) \cup {Len(done) + 1} ELSE StepsFor(key)
  BY <1>1, <1>9, <1>10, <1>11 DEF StepsFor
<1> QED BY <1>9, <1>10, <1>12 DEF StepsFor

\* The last step that sets a header, before and after a step.
LEMMA LastHeaderAfter ==
  ASSUME TypeOK, NEW step \in Steps, Runs(step), NEW key, HasLast(StepsFor(key))
  PROVE  /\ HasLast(StepsFor(key))'
         /\ SetsAHeader(step) /\ step.key = key => done[LastOf(StepsFor(key))]'.step = step
         /\ ~(SetsAHeader(step) /\ step.key = key) /\ StepsFor(key) # {} =>
              done[LastOf(StepsFor(key))]' = done[LastOf(StepsFor(key))]
<1>1. StepsFor(key) \in SUBSET DOMAIN done
  BY HeaderStepsAfter
<1>2. /\ done'[LastOf(StepsFor(key) \cup {Len(done) + 1})].step = step
      /\ HasLast(StepsFor(key) \cup {Len(done) + 1})
      /\ StepsFor(key) # {} => done'[LastOf(StepsFor(key))] = done[LastOf(StepsFor(key))]
  BY <1>1, LastAfter
<1>3. HasLast(StepsFor(key))' <=> HasLast(StepsFor(key)')
  BY DEF HasLast, LastOf
<1>4. done[LastOf(StepsFor(key))]' = done'[LastOf(StepsFor(key)')]
  BY DEF LastOf
<1>5. StepsFor(key)' = IF SetsAHeader(step) /\ step.key = key
                      THEN StepsFor(key) \cup {Len(done) + 1} ELSE StepsFor(key)
  BY HeaderStepsAfter
<1>6. CASE SetsAHeader(step) /\ step.key = key
  BY <1>2, <1>3, <1>4, <1>5, <1>6
<1>7. CASE ~(SetsAHeader(step) /\ step.key = key)
  BY <1>2, <1>3, <1>4, <1>5, <1>7
<1> QED BY <1>6, <1>7

LEMMA HeadersAreKept ==
  ASSUME TypeOK, HeadersAreOfTheirCase, \A key : HasLast(StepsFor(key)),
         NEW step \in Steps, StepForm(step)
  PROVE  HeadersAreOfTheirCase'
<1>0. Runs(step) /\ call' = call
  BY DEF StepForm, Runs, Executes
<1>1. /\ Len(done) \in Nat /\ DOMAIN done = 1 .. Len(done)
      /\ \A i \in DOMAIN done : done'[i] = done[i]
      /\ done'[Len(done) + 1] = [step |-> step, case |-> activeCase]
  BY <1>0, Appended
<1>2. /\ HeaderSteps' = IF SetsAHeader(step) THEN HeaderSteps \cup {Len(done) + 1} ELSE HeaderSteps
      /\ HeaderSteps \subseteq DOMAIN done
  BY <1>0, HeaderStepsAfter
<1>3. DOMAIN headers = {done[i].step.key : i \in HeaderSteps}
  BY DEF HeadersAreOfTheirCase
<1>4. DOMAIN headers' = IF SetsAHeader(step) THEN DOMAIN headers \cup {step.key} ELSE DOMAIN headers
  BY DEF StepForm, With
<1>5. DOMAIN headers' = {done'[i].step.key : i \in HeaderSteps'}
  BY <1>1, <1>2, <1>3, <1>4
<1>6. ASSUME NEW key \in DOMAIN headers'
      PROVE  HeaderIsOf(done[LastOf(StepsFor(key))].step)'
  <2> DEFINE last == done[LastOf(StepsFor(key))]
  <2>1. CASE SetsAHeader(step) /\ step.key = key
    <3>1. last'.step = step
      BY <1>0, <2>1, LastHeaderAfter
    <3>2. headers'[step.key] = IF step.func = "SetHeader" THEN resolveArg(step.value)
                               ELSE Lookup(call.header, step.key)
      BY <2>1 DEF StepForm, With
    <3>3. step.func \in {"SetHeader", "CopyHeaderFromRequest"}
      BY <2>1 DEF SetsAHeader
    <3>4. step.func = "SetHeader" /\ step.value.kind # "ref" => resolveArg(step.value) = step.value
      <4>1. step.func = "SetHeader" => step.value.kind \in {"ref", "string"}
        BY StepsAssumption
      <4>2. step.value.kind = "string" => Floats(step.value) = step.value
        BY DEF Floats, Each, FloatNode, IsNumber, IsContainer, Containers
      <4> QED BY <4>1, <4>2 DEF resolveArg
    <3> HIDE DEF last
    <3>5. HeaderIsOf(last.step)' <=>
            IF step.func = "CopyHeaderFromRequest"
            THEN headers'[step.key] = Lookup(call.header, step.key)
            ELSE step.value.kind # "ref" => headers'[step.key] = step.value
      BY <1>0, <3>1 DEF HeaderIsOf, Lookup
    <3> USE DEF last
    <3> QED BY <3>2, <3>3, <3>4, <3>5
  <2>2. CASE ~(SetsAHeader(step) /\ step.key = key)
    <3>1. key \in DOMAIN headers /\ headers'[key] = headers[key]
      BY <1>4, <2>2 DEF StepForm, With
    <3>2. StepsFor(key) # {}
      BY <1>3, <3>1 DEF StepsFor
    <3>3. last' = last
      BY <1>0, <2>2, <3>2, LastHeaderAfter
    <3>4. last.step.key = key
      BY <3>2 DEF HasLast, StepsFor
    <3>5. HeaderIsOf(last.step)
      BY <3>1 DEF HeadersAreOfTheirCase
    <3> HIDE DEF last
    <3>6. HeaderIsOf(last.step)'
      BY <1>0, <3>1, <3>3, <3>4, <3>5 DEF HeaderIsOf, Lookup
    <3> QED BY <3>6 DEF last
  <2> QED BY <2>1, <2>2
<1> QED BY <1>5, <1>6 DEF HeadersAreOfTheirCase

LEMMA ResponseIsKept ==
  ASSUME TypeOK, ResponseIsOfItsCase, LastsInv, NEW step \in Steps, StepForm(step)
  PROVE  ResponseIsOfItsCase'
<1>0. Runs(step) /\ pc = "steps" /\ pc' # "answered" /\ outOfRange' = outOfRange
  BY DEF StepForm, Runs, Executes
<1>1. ASSUME NEW func
      PROVE  IF step.func = func /\ step.case = activeCase
             THEN Ran(func)' # {} /\ Latest(func)' = step
             ELSE /\ Ran(func)' = {} <=> Ran(func) = {}
                  /\ Ran(func) # {} => Latest(func)' = Latest(func)
  BY <1>0, LatestAfter DEF LastsInv
<1>2. StatusIsOfItsCase'
  <2>1. StatusIsOfItsCase
    BY DEF ResponseIsOfItsCase
  <2>2. status' = IF step.func = "SetStatusCode" /\ step.case = activeCase
                  THEN Received(step.code) ELSE status
    BY DEF StepForm, SetsAPart, ResponseFuncs
  <2> QED BY <1>0, <1>1, <2>1, <2>2 DEF StatusIsOfItsCase, Received, ToInt
<1>3. DelaysAreOfTheirCase'
  <2>1. DelaysAreOfTheirCase
    BY DEF ResponseIsOfItsCase
  <2>2. fixedDelay' = IF step.func = "SetWait" /\ step.case = activeCase
                      THEN Nanoseconds(Received(step.ms)) ELSE fixedDelay
    BY DEF StepForm, SetsAPart, ResponseFuncs
  <2>3. randomWait' = IF step.func = "SetRandomWait" /\ step.case = activeCase
                      THEN <<Received(step.min), Received(step.max)>> ELSE randomWait
    BY DEF StepForm, SetsAPart, ResponseFuncs
  <2>4. (fixedDelay = IF Ran("SetWait") = {} THEN 0
                      ELSE Nanoseconds(Received(Latest("SetWait").ms)))'
    BY <1>0, <1>1, <2>1, <2>2 DEF DelaysAreOfTheirCase, Received, ToInt
  <2>5. (randomWait = IF Ran("SetRandomWait") = {} THEN <<0, 0>>
                      ELSE <<Received(Latest("SetRandomWait").min),
                             Received(Latest("SetRandomWait").max)>>)'
    BY <1>0, <1>1, <2>1, <2>3 DEF DelaysAreOfTheirCase, Received, ToInt
  <2> QED BY <2>4, <2>5 DEF DelaysAreOfTheirCase
<1>4. BodyIsOfItsCase'
  BY <1>0, <1>1 DEF ResponseIsOfItsCase, BodyIsOfItsCase, StepForm, SetsAPart, ResponseFuncs
<1>5. HeadersAreOfTheirCase'
  BY HeadersAreKept DEF ResponseIsOfItsCase, LastsInv
<1> QED BY <1>2, <1>3, <1>4, <1>5 DEF ResponseIsOfItsCase

\* What a condition on the request alone says does not depend on when it is asked.
LEMMA RequestIsStable ==
  ASSUME NEW step, LooksAtTheRequest(step), UNCHANGED <<call, pathParams>>
  PROVE  checkCondition(step)' = checkCondition(step)
<1>1. (IF step.source = "JsonType" THEN step.value ELSE resolveArg(step.value))'
        = IF step.source = "JsonType" THEN step.value ELSE resolveArg(step.value)
  BY DEF LooksAtTheRequest, resolveArg
<1>2. Actual(step)' = Actual(step)
  BY DEF LooksAtTheRequest, Actual, Lookup, JsonAt, URLPath
<1> QED BY <1>1, <1>2 DEF checkCondition

CasesLook == \A i \in CaseSteps : LooksAtTheRequest(done[i].step)

LEMMA CaseIsKept ==
  ASSUME TypeOK, CaseIsOfTheLastMatch, LastsInv, NEW step \in Steps, StepForm(step)
  PROVE  CaseIsOfTheLastMatch' /\ (CasesLook' => HasLast(Matching)')
<1>0. Runs(step) /\ UNCHANGED <<call, pathParams>>
  BY DEF StepForm, Runs, Executes
<1>1. /\ Len(done) \in Nat /\ DOMAIN done = 1 .. Len(done)
      /\ DOMAIN done' = DOMAIN done \cup {Len(done) + 1}
      /\ \A i \in DOMAIN done : done'[i] = done[i]
      /\ done'[Len(done) + 1] = [step |-> step, case |-> activeCase]
  BY <1>0, Appended
<1>2. Len(done) + 1 \notin DOMAIN done
  BY <1>1
<1> SUFFICES ASSUME CasesLook'
             PROVE  /\ HasLast(Matching)'
                    /\ activeCase' = IF Matching' = {} THEN ""
                                     ELSE done[LastOf(Matching)]'.step.case
  BY DEF CaseIsOfTheLastMatch, CasesLook
<1>3. CaseSteps' = IF step.func = "IfSetCase" THEN CaseSteps \cup {Len(done) + 1} ELSE CaseSteps
  BY <1>1, <1>2 DEF CaseSteps
<1>4. CaseSteps \subseteq DOMAIN done
  BY DEF CaseSteps
<1>5. \A i \in CaseSteps' : LooksAtTheRequest(done'[i].step)
  BY DEF CasesLook, LooksAtTheRequest
<1>6. CasesLook
  BY <1>1, <1>3, <1>4, <1>5 DEF CasesLook
<1>7. step.func = "IfSetCase" => LooksAtTheRequest(step)
  BY <1>1, <1>3, <1>5
<1>8. Matching' = {i \in CaseSteps' : checkCondition(done[i].step)'}
  BY DEF Matching
<1>9. \A i \in CaseSteps : checkCondition(done[i].step)' = checkCondition(done[i].step)
  <2> SUFFICES ASSUME NEW i \in CaseSteps
               PROVE  checkCondition(done[i].step)' = checkCondition(done[i].step)
    OBVIOUS
  <2>1. PICK s : s = done[i].step
    OBVIOUS
  <2>2. done'[i].step = s
    BY <1>1, <1>4, <2>1
  <2>3. checkCondition(s)' = checkCondition(s)
    BY <1>0, <1>6, <2>1, RequestIsStable DEF CasesLook
  <2> QED BY <2>1, <2>2, <2>3
<1>10. \A i : i = Len(done) + 1 /\ step.func = "IfSetCase" =>
         checkCondition(done[i].step)' = checkCondition(step)
  <2> SUFFICES ASSUME NEW i, i = Len(done) + 1, step.func = "IfSetCase"
               PROVE  checkCondition(done[i].step)' = checkCondition(step)
    OBVIOUS
  <2>1. done'[i].step = step
    BY <1>1
  <2> QED BY <1>0, <1>7, <2>1, RequestIsStable
<1>11. PICK asked : asked = [i \in CaseSteps' |-> checkCondition(done[i].step)']
  OBVIOUS
<1>12. Matching' = {i \in CaseSteps' : asked[i]}
  BY <1>8, <1>11
<1>13. \A i \in CaseSteps : asked[i] = checkCondition(done[i].step)
  BY <1>3, <1>9, <1>11
<1>14. step.func = "IfSetCase" => asked[Len(done) + 1] = checkCondition(step)
  BY <1>3, <1>10, <1>11
<1>15. Matching' = IF step.func = "IfSetCase" /\ checkCondition(step)
                  THEN Matching \cup {Len(done) + 1} ELSE Matching
  BY <1>2, <1>3, <1>4, <1>12, <1>13, <1>14 DEF Matching
<1>16. Matching \in SUBSET DOMAIN done /\ HasLast(Matching)
  BY <1>4, <1>6 DEF Matching, LastsInv, CasesLook
<1>17. /\ done'[LastOf(Matching \cup {Len(done) + 1})].step = step
       /\ HasLast(Matching \cup {Len(done) + 1})
       /\ Matching # {} => done'[LastOf(Matching)] = done[LastOf(Matching)]
  BY <1>0, <1>16, LastAfter
<1>18. HasLast(Matching)' <=> HasLast(Matching')
  BY DEF HasLast, LastOf
<1>19. done[LastOf(Matching)]' = done'[LastOf(Matching')]
  BY DEF LastOf
<1>20. activeCase = IF Matching = {} THEN "" ELSE done[LastOf(Matching)].step.case
  BY <1>6 DEF CaseIsOfTheLastMatch, CasesLook
<1>21. activeCase' = IF step.func = "IfSetCase" /\ checkCondition(step) THEN step.case ELSE activeCase
  BY DEF StepForm
<1>22. CASE step.func = "IfSetCase" /\ checkCondition(step)
  BY <1>15, <1>16, <1>17, <1>18, <1>19, <1>21, <1>22
<1>23. CASE ~(step.func = "IfSetCase" /\ checkCondition(step))
  BY <1>15, <1>16, <1>17, <1>18, <1>19, <1>20, <1>21, <1>23
<1> QED BY <1>22, <1>23

LEMMA TypeIsKept ==
  ASSUME TypeOK, NEW step \in Steps, StepForm(step), VariablesAreValues'
  PROVE  TypeOK'
<1>1. /\ outOfRange' = outOfRange /\ call' = call /\ pathParams' = pathParams /\ waited' = waited
      /\ Len(done) < MaxSteps
      /\ done' = Append(done, [step |-> step, case |-> activeCase])
  BY DEF StepForm, Runs, Executes, StepsOf
<1>2. activeCase' \in Cases
  BY DEF TypeOK, StepForm, Cases
<1>3. status' \in Ints64 /\ fixedDelay' \in Ints64 /\ randomWait' \in Ints64 \X Ints64
  <2>1. Ints64 \subseteq Int
    BY BoundsAssumption DEF Ints64
  <2>2. \A n \in Ints64 : Received(n) \in Ints64
    BY <2>1, ReceivedInts
  <2>3. \A n \in Ints64 : Nanoseconds(n) \in Ints64
    <3>1. \A n \in Ints64 : n * Millisecond \in Int
      BY <2>1, BoundsAssumption
    <3> QED BY <3>1, Wrapping DEF Nanoseconds
  <2>4. \/ status' = Received(step.code) /\ step.func = "SetStatusCode"
        \/ status' = status
    BY DEF StepForm
  <2>5. \/ fixedDelay' = Nanoseconds(Received(step.ms)) /\ step.func = "SetWait"
        \/ fixedDelay' = fixedDelay
    BY DEF StepForm
  <2>6. \/ randomWait' = <<Received(step.min), Received(step.max)>> /\ step.func = "SetRandomWait"
        \/ randomWait' = randomWait
    BY DEF StepForm
  <2>7. status \in Ints64 /\ fixedDelay \in Ints64 /\ randomWait \in Ints64 \X Ints64
    BY DEF TypeOK
  <2>8. status' \in Ints64
    BY <2>2, <2>4, <2>7, StepsAssumption
  <2>9. fixedDelay' \in Ints64
    BY <2>2, <2>3, <2>5, <2>7, StepsAssumption
  <2>10. randomWait' \in Ints64 \X Ints64
    <3>1. CASE randomWait' = randomWait
      BY <2>7, <3>1
    <3>2. CASE randomWait' = <<Received(step.min), Received(step.max)>> /\ step.func = "SetRandomWait"
      <4>1. Received(step.min) \in Ints64 /\ Received(step.max) \in Ints64
        BY <2>2, <3>2, StepsAssumption
      <4> QED BY <3>2, <4>1
    <3> QED BY <2>6, <3>1, <3>2
  <2> QED BY <2>8, <2>9, <2>10
<1>4. done' \in Seq([step : Steps, case : Cases]) /\ Len(done') <= MaxSteps
  <2> DEFINE S == [step : Steps, case : Cases]
             entry == [step |-> step, case |-> activeCase]
  <2>1. done \in Seq(S) /\ entry \in S
    BY DEF TypeOK
  <2> HIDE DEF S, entry
  <2>2. Append(done, entry) \in Seq(S) /\ Len(Append(done, entry)) = Len(done) + 1
        /\ Len(done) \in Nat
    BY <2>1
  <2>3. done' \in Seq(S) /\ Len(done') <= MaxSteps
    BY <1>1, <2>2, BoundsAssumption DEF entry
  <2> QED BY <2>3 DEF S
<1> QED BY <1>1, <1>2, <1>3, <1>4 DEF TypeOK, StepForm, VariablesAreValues

\* Before the first step nothing has happened.
LEMMA Unstarted ==
  ASSUME done = <<>>
  PROVE  /\ \A func : Ran(func) = {}
         /\ HeaderSteps = {} /\ CaseSteps = {} /\ Matching = {}
         /\ \A key : StepsFor(key) = {}
<1>1. DOMAIN done = {}
  OBVIOUS
<1>2. (\A func : Ran(func) = {}) /\ CaseSteps = {}
  BY <1>1 DEF Ran, CaseSteps
<1> QED BY <1>2 DEF HeaderSteps, Matching, StepsFor

LEMMA FirstState == Init => IInv
<1> SUFFICES ASSUME Init PROVE IInv
  OBVIOUS
<1>1. done = <<>>
  BY DEF Init
<1>2. TypeOK
  <2>1. <<>> \in Seq([step : Steps, case : Cases]) /\ Len(<<>>) = 0
    OBVIOUS
  <2>2. done \in Seq([step : Steps, case : Cases]) /\ Len(done) <= MaxSteps
    BY <1>1, <2>1, BoundsAssumption
  <2>3. pc = "routing" /\ call \in Calls /\ activeCase = "" /\ status = 200 /\ fixedDelay = 0
        /\ randomWait = <<0, 0>> /\ waited = 0 /\ outOfRange \in OutOfRange
    BY DEF Init
  <2>4. activeCase \in Cases
    BY <2>3 DEF Cases
  <2>5. 0 \in Ints64 /\ 200 \in Ints64
    BY BoundsAssumption DEF Ints64
  <2>6. status \in Ints64 /\ fixedDelay \in Ints64 /\ waited \in Nat
    BY <2>3, <2>5
  <2>7. randomWait \in Ints64 \X Ints64
    BY <2>3, <2>5
  <2>8. DOMAIN variables = {} /\ DOMAIN pathParams = {}
    BY DEF Init, NoFields
  <2> QED BY <2>2, <2>3, <2>4, <2>6, <2>7, <2>8 DEF TypeOK
<1>3. (\A func : Ran(func) = {}) /\ HeaderSteps = {} /\ CaseSteps = {} /\ Matching = {}
  BY <1>1, Unstarted
<1>4. \A key : StepsFor(key) = {}
  BY <1>1, Unstarted
<1>5. LastsInv
  BY <1>1, <1>3, <1>4 DEF LastsInv, HasLast
<1>6. DOMAIN headers = {}
  BY DEF Init, NoFields
<1>7. ResponseIsOfItsCase
  BY <1>3, <1>6 DEF Init, ResponseIsOfItsCase, StatusIsOfItsCase, DelaysAreOfTheirCase,
                    BodyIsOfItsCase, HeadersAreOfTheirCase
<1>8. CaseIsOfTheLastMatch
  BY <1>3 DEF Init, CaseIsOfTheLastMatch
<1>9. PanicsOnlyOnBadNumbers
  BY DEF Init, PanicsOnlyOnBadNumbers
<1> QED BY <1>2, <1>5, <1>7, <1>8, <1>9 DEF IInv

LEMMA RoutingKeeps == ASSUME IInv, HandleMockRequest PROVE IInv'
<1>1. /\ pc = "routing" /\ pc' \in {"steps", "notFound"}
      /\ UNCHANGED <<outOfRange, call, activeCase, status, body, headers, fixedDelay, randomWait,
                     waited, done>>
  BY DEF HandleMockRequest, setup
<1>2. done = <<>>
  BY <1>1 DEF IInv, LastsInv
<1>3. TypeOK'
  BY <1>1, RoutingMakesValues DEF IInv, TypeOK, VariablesAreValues
<1>4. (\A func : Ran(func) = {}) /\ HeaderSteps = {} /\ CaseSteps = {} /\ Matching = {}
  BY <1>2, Unstarted
<1>5. \A key : StepsFor(key) = {}
  BY <1>2, Unstarted
<1>6. (\A func : Ran(func)' = {}) /\ CaseSteps' = {}
  BY <1>1, <1>4 DEF Ran, CaseSteps
<1>7. HeaderSteps' = {} /\ Matching' = {} /\ (\A key : StepsFor(key)' = {})
  BY <1>6 DEF HeaderSteps, Matching, StepsFor
<1>8. LastsInv'
  BY <1>1, <1>6, <1>7 DEF LastsInv, HasLast
<1>9. ResponseIsOfItsCase /\ CaseIsOfTheLastMatch
  BY DEF IInv
<1>10. ResponseIsOfItsCase'
  BY <1>1, <1>4, <1>6, <1>7, <1>9 DEF ResponseIsOfItsCase, StatusIsOfItsCase,
     DelaysAreOfTheirCase, BodyIsOfItsCase, HeadersAreOfTheirCase
<1>11. CaseIsOfTheLastMatch'
  BY <1>1, <1>4, <1>6, <1>7, <1>9 DEF CaseIsOfTheLastMatch
<1>12. PanicsOnlyOnBadNumbers'
  BY <1>1 DEF PanicsOnlyOnBadNumbers
<1> QED BY <1>3, <1>8, <1>10, <1>11, <1>12 DEF IInv

LEMMA HeadersStay ==
  ASSUME HeadersAreOfTheirCase, UNCHANGED <<call, headers, done>>
  PROVE  HeadersAreOfTheirCase'
<1>1. \A func : Ran(func)' = Ran(func)
  BY DEF Ran
<1>2. HeaderSteps' = HeaderSteps
  BY <1>1 DEF HeaderSteps, Lookup
<1>3. \A key : StepsFor(key)' = StepsFor(key)
  BY <1>2 DEF StepsFor
<1>4. DOMAIN headers' = {done'[i].step.key : i \in HeaderSteps'}
  BY <1>2 DEF HeadersAreOfTheirCase
<1>5. ASSUME NEW key \in DOMAIN headers'
      PROVE  HeaderIsOf(done[LastOf(StepsFor(key))].step)'
  <2>1. HeaderIsOf(done[LastOf(StepsFor(key))].step)
    BY DEF HeadersAreOfTheirCase
  <2>2. LastOf(StepsFor(key))' = LastOf(StepsFor(key))
    BY <1>3 DEF LastOf
  <2> HIDE <1>1, <1>2, <1>3, <1>4
  <2> QED BY <2>1, <2>2 DEF HeaderIsOf, Lookup
<1> QED BY <1>4, <1>5 DEF HeadersAreOfTheirCase

\* Finalize resolves the template of the body with the variables as they are then.
LEMMA FinalizeKeeps == ASSUME IInv, Finalize PROVE IInv'
<1>1. /\ pc = "steps" /\ pc' \in {"answered", "panicked"}
      /\ body' = IF pc' = "answered" THEN resolveArg(body) ELSE body
      /\ UNCHANGED <<outOfRange, call, pathParams, variables, activeCase, status, headers,
                     fixedDelay, randomWait, done>>
  BY DEF Finalize
<1>2. fixedDelay \in Int /\ randomWait[1] \in Int /\ randomWait[2] \in Int /\ MaxInt \in Nat
  BY BoundsAssumption DEF IInv, TypeOK, Ints64
<1>3. TypeOK'
  <2> DEFINE random == IF Sleeps /\ ~WaitOverflows THEN randomWait[1] .. randomWait[2] - 1 ELSE {0}
  <2>1. PICK ms \in random :
          waited' = (IF fixedDelay > 0 THEN fixedDelay ELSE 0)
                      + (IF Nanoseconds(ms) > 0 THEN Nanoseconds(ms) ELSE 0)
    BY DEF Finalize
  <2>2. ms \in Int
    BY <1>2
  <2>3. Nanoseconds(ms) \in Int
    <3>1. ms * Millisecond \in Int
      BY <2>2, BoundsAssumption
    <3> QED BY <1>2, <3>1, Wrapping DEF Nanoseconds, Ints64
  <2>4. waited' \in Nat
    BY <1>2, <2>1, <2>3
  <2> QED BY <1>1, <2>4 DEF IInv, TypeOK
<1>4. \A func : Ran(func)' = Ran(func)
  BY <1>1 DEF Ran
<1>5. \A func : Latest(func)' = Latest(func)
  BY <1>1, <1>4 DEF Latest, LastOf
<1>6. HeaderSteps' = HeaderSteps /\ CaseSteps' = CaseSteps
  BY <1>1, <1>4 DEF HeaderSteps, CaseSteps, Lookup
<1>7. \A key : StepsFor(key)' = StepsFor(key)
  BY <1>1, <1>6 DEF StepsFor
<1>8. \A step : checkCondition(step)' = checkCondition(step)
  BY <1>1 DEF checkCondition, Actual, Lookup, JsonAt, URLPath, Variable, resolveArg
<1>9. Matching' = Matching
  BY <1>1, <1>6, <1>8 DEF Matching
<1>10. LastsInv'
  BY <1>1, <1>4, <1>6, <1>7, <1>9 DEF IInv, LastsInv, HasLast, LastOf, LooksAtTheRequest
<1>11. CaseIsOfTheLastMatch'
  BY <1>1, <1>6, <1>9 DEF IInv, CaseIsOfTheLastMatch, LastOf, LooksAtTheRequest
<1>12. StatusIsOfItsCase' /\ DelaysAreOfTheirCase'
  BY <1>1, <1>4, <1>5 DEF IInv, ResponseIsOfItsCase, StatusIsOfItsCase, DelaysAreOfTheirCase,
                          Received, ToInt
<1>13. BodyIsOfItsCase'
  <2>1. PICK template : template = IF Ran("SetBody") = {} THEN Str(<<>>) ELSE Latest("SetBody").body
    OBVIOUS
  <2>2. body = template
    BY <1>1, <2>1 DEF IInv, ResponseIsOfItsCase, BodyIsOfItsCase
  <2>3. resolveArg(template)' = resolveArg(template)
    BY <1>1 DEF resolveArg
  <2>4. body' = IF pc' = "answered" THEN resolveArg(template)' ELSE template
    BY <1>1, <2>2, <2>3
  <2>5. (IF Ran("SetBody") = {} THEN Str(<<>>) ELSE Latest("SetBody").body)' = template
    BY <1>4, <1>5, <2>1
  <2> QED BY <2>4, <2>5 DEF BodyIsOfItsCase, resolveArg
<1>14. HeadersAreOfTheirCase'
  BY <1>1, HeadersStay DEF IInv, ResponseIsOfItsCase
<1>15. PanicsOnlyOnBadNumbers'
  <2>1. pc' = "panicked" => status \notin StatusCodes \/ WaitOverflows
    BY DEF Finalize
  <2>2. WaitOverflows => Sleeps /\ randomWait[2] - randomWait[1] > MaxInt
    <3>1. PICK d \in Int : d = randomWait[2] - randomWait[1]
      BY <1>2
    <3>2. d > 0 /\ d <= MaxInt => Wrap(d) = d
      BY <1>2, Wrapping DEF Ints64
    <3>3. Sleeps => d > 0
      BY <1>2, <3>1 DEF Sleeps
    <3> QED BY <1>2, <3>1, <3>2, <3>3 DEF WaitOverflows
  <2> QED BY <1>1, <2>1, <2>2 DEF PanicsOnlyOnBadNumbers, Sleeps
<1> QED BY <1>3, <1>10, <1>11, <1>12, <1>13, <1>14, <1>15 DEF IInv, ResponseIsOfItsCase

LEMMA Unchanged == ASSUME IInv, UNCHANGED vars PROVE IInv'
<1>1. UNCHANGED <<outOfRange, pc, call, pathParams, variables, activeCase, status, body, headers,
                  fixedDelay, randomWait, waited, done>>
  BY DEF vars, setup
<1>2. TypeOK'
  BY <1>1 DEF IInv, TypeOK
<1>3. \A func : Ran(func)' = Ran(func)
  BY <1>1 DEF Ran
<1>4. \A func : Latest(func)' = Latest(func)
  BY <1>1, <1>3 DEF Latest, LastOf
<1>5. HeaderSteps' = HeaderSteps /\ CaseSteps' = CaseSteps
  BY <1>1, <1>3 DEF HeaderSteps, CaseSteps, Lookup
<1>6. \A key : StepsFor(key)' = StepsFor(key)
  BY <1>1, <1>5 DEF StepsFor
<1>7. \A step : checkCondition(step)' = checkCondition(step)
  BY <1>1 DEF checkCondition, Actual, Lookup, JsonAt, URLPath, Variable, resolveArg
<1>8. Matching' = Matching
  BY <1>1, <1>5, <1>7 DEF Matching
<1>9. LastsInv'
  BY <1>1, <1>3, <1>5, <1>6, <1>8 DEF IInv, LastsInv, HasLast, LastOf, LooksAtTheRequest
<1>10. CaseIsOfTheLastMatch'
  BY <1>1, <1>5, <1>8 DEF IInv, CaseIsOfTheLastMatch, LastOf, LooksAtTheRequest
<1>11. StatusIsOfItsCase' /\ DelaysAreOfTheirCase'
  BY <1>1, <1>3, <1>4 DEF IInv, ResponseIsOfItsCase, StatusIsOfItsCase, DelaysAreOfTheirCase,
                          Received, ToInt
<1>12. BodyIsOfItsCase'
  BY <1>1, <1>3, <1>4 DEF IInv, ResponseIsOfItsCase, BodyIsOfItsCase, resolveArg
<1>13. HeadersAreOfTheirCase'
  BY <1>1, HeadersStay DEF IInv, ResponseIsOfItsCase
<1>14. PanicsOnlyOnBadNumbers'
  BY <1>1 DEF IInv, PanicsOnlyOnBadNumbers, Sleeps, Received, ToInt
<1> QED BY <1>2, <1>9, <1>10, <1>11, <1>12, <1>13, <1>14 DEF IInv, ResponseIsOfItsCase

LEMMA StepKeeps ==
  ASSUME IInv, NEW step \in Steps, StepForm(step), VariablesAreValues',
         pc' = "steps" \/ \E s : PanicsOn(s)
  PROVE  IInv'
<1>1. TypeOK /\ LastsInv /\ ResponseIsOfItsCase /\ CaseIsOfTheLastMatch
  BY DEF IInv
<1>2. TypeOK'
  BY <1>1, TypeIsKept
<1>3. ResponseIsOfItsCase'
  BY <1>1, ResponseIsKept
<1>4. CaseIsOfTheLastMatch' /\ (CasesLook' => HasLast(Matching)')
  BY <1>1, CaseIsKept
<1>5. Runs(step) /\ pc' # "routing"
  BY DEF StepForm
<1>6. \A func : HasLast(Ran(func))'
  BY <1>1, <1>5, LatestAfter DEF LastsInv
<1>7. \A key : HasLast(StepsFor(key))'
  BY <1>1, <1>5, LastHeaderAfter DEF LastsInv
<1>8. LastsInv'
  BY <1>4, <1>5, <1>6, <1>7 DEF LastsInv, CasesLook
<1>9. PanicsOnlyOnBadNumbers'
  <2>1. CASE pc' = "steps"
    BY <2>1 DEF PanicsOnlyOnBadNumbers
  <2>2. CASE \E s : PanicsOn(s)
    <3>1. PICK s : PanicsOn(s)
      BY <2>2
    <3>2. Len(done) \in Nat /\ done' = Append(done, [step |-> s, case |-> activeCase])
      BY <1>1, <3>1, LenProperties DEF PanicsOn, Executes, TypeOK
    <3>3. Len(done') = Len(done) + 1 /\ done'[Len(done) + 1] = [step |-> s, case |-> activeCase]
      <4> DEFINE entry == [step |-> s, case |-> activeCase]
      <4>1. done \in Seq([step : Steps, case : Cases])
        BY <1>1 DEF TypeOK
      <4>2. \A S, e : done \in Seq(S) =>
              /\ Len(Append(done, e)) = Len(done) + 1
              /\ Append(done, e)[Len(done) + 1] = e
        OBVIOUS
      <4> HIDE DEF entry
      <4> QED BY <3>2, <4>1, <4>2 DEF entry
    <3>4. done' # <<>> /\ Last(done').step = s
      BY <3>2, <3>3 DEF Last
    <3>5. outOfRange' = outOfRange /\ BadNumber(s)
      BY <3>1 DEF PanicsOn, Executes
    <3>6. BadNumber(s)' <=> BadNumber(s)
      BY <3>5 DEF BadNumber, Received, ToInt
    <3>7. BadNumber(Last(done).step)'
      BY <3>4, <3>5, <3>6 DEF BadNumber, Received, ToInt
    <3> QED BY <3>4, <3>7 DEF PanicsOnlyOnBadNumbers, BadNumber
  <2> QED BY <2>1, <2>2
<1> QED BY <1>2, <1>3, <1>4, <1>8, <1>9 DEF IInv

LEMMA Invariant == Spec => []IInv
<1>1. ASSUME IInv, [Next]_vars PROVE IInv'
  <2>1. CASE Next
    <3>1. CASE HandleMockRequest
      BY <1>1, <3>1, RoutingKeeps
    <3>2. CASE Finalize
      BY <1>1, <3>2, FinalizeKeeps
    <3>3. CASE ~HandleMockRequest /\ ~Finalize
      <4>1. VariablesAreValues' /\ (pc' = "steps" \/ \E step : PanicsOn(step))
        BY <1>1, <2>1, <3>3, StepsKeepValues DEF IInv
      <4> QED BY <1>1, <2>1, <3>3, <4>1, NextForms, StepKeeps
    <3> QED BY <3>1, <3>2, <3>3
  <2>2. CASE UNCHANGED vars
    BY <1>1, <2>2, Unchanged
  <2> QED BY <1>1, <2>1, <2>2
<1> QED BY FirstState, <1>1, PTL DEF Spec

\* What the handler keeps has its type (NewHandlerExecutor, handler.go:52-84).
THEOREM TypeCorrect == Spec => []TypeOK
<1>1. IInv => TypeOK
  BY DEF IInv
<1> QED BY <1>1, Invariant, PTL

\* Whichever routes are registered, findRouteLocked (server.go) picks the exact path, and
\* else the first of those that fit; what it captures gives the path back.
THEOREM RoutesAreRight == Spec => []RouteIsFirstThatFits
<1>1. TypeOK => RouteIsFirstThatFits
  BY RightRoute, PathsAssumption DEF TypeOK, RouteIsFirstThatFits
<1> QED BY <1>1, TypeCorrect, PTL

\* Whatever steps a route has, its response is that of the steps for the case active when
\* they ran, and the active case that of the last condition that the request satisfies.
THEOREM RepliesAreOfTheirCase == Spec => []ReplyIsOfTheActiveCase
<1>1. IInv => ReplyIsOfTheActiveCase
  BY DEF IInv, ReplyIsOfTheActiveCase
<1> QED BY <1>1, Invariant, PTL

\* Whatever its route's steps compute, a call ends without a reply only for a number that
\* the route was registered with, rounded to a float64 and converted to an int on any machine
\* (handler.go: Finalize and the generators): no substring, no conversion, no template, and
\* no int of a fixed length from 1 makes it panic, and no range of ints whose ends a float64
\* holds and that an int can measure.
THEOREM PanicsHaveReasons == Spec => []PanicsOnlyOnBadNumbers
<1>1. IInv => PanicsOnlyOnBadNumbers
  BY DEF IInv
<1> QED BY <1>1, Invariant, PTL
-----------------------------------------------------------------------------
(***************************************************************************)
(* The controller, for any number of ports, requests and calls, and any    *)
(* use of it.                                                              *)
(***************************************************************************)

ControllerInv == ControllerTypeOK /\ ServersInv /\ ShutInv

\* The parts of the type invariant, one per group of variables.
TableType ==
  /\ manner \in Manners
  /\ routes \in [Ports -> Requests \cup {None}]
  /\ servers \in [Ports -> Requests \cup {None}]
  /\ at \in [Requests -> {"idle", "registered", "shutdown", "reset"}]
  /\ port \in [Requests -> Ports \cup {None}]
  /\ targets \in [Requests -> SUBSET Requests]
  /\ timedOut \subseteq Requests

NetType ==
  /\ state \in [Requests -> {"none", "new", "checked", "bound", "serving",
                             "failed", "ended"}]
  /\ shut \subseteq Requests
  /\ holder \in [Ports -> Requests \cup {None}]

CallType ==
  answering \in [Arrivals -> {NoCall}
       \cup [at : {"accepted"}, server : Requests, steps : {None}]
       \cup [at : {"executing"}, server : Requests, steps : Requests]]

LEMMA TypeParts == ControllerTypeOK <=> TableType /\ NetType /\ CallType
BY DEF ControllerTypeOK, TableType, NetType, CallType

\* Initially nothing is registered.
LEMMA InitInv == ControllerInit => ControllerInv
<1> SUFFICES ASSUME ControllerInit PROVE ControllerInv
  OBVIOUS
<1>1. ControllerTypeOK
  BY DEF ControllerInit, ControllerTypeOK
<1>2. ServersInv /\ ShutInv
  BY DEF ControllerInit, ServersInv, ShutInv, NoCall
<1>3. QED
  BY <1>1, <1>2 DEF ControllerInv

\* A registration records at most the server it starts.
LEMMA RegisterStep ==
  ASSUME ControllerInv, NEW r \in Requests, NEW p \in Ports, RegisterRoute(r, p)
  PROVE  ControllerInv'
<1> USE ControllerAssumption DEF RegisterRoute, netVars
<1>1. TableType' /\ NetType' /\ CallType'
  BY TypeParts DEF ControllerInv, TableType, NetType, CallType, NoCall
<1>2. ControllerTypeOK'
  BY <1>1 DEF ControllerTypeOK, TableType, NetType, CallType, NoCall
<1>3. state[r] = "none"
  BY DEF ControllerInv, ServersInv
<1>4. ServersInv'
  BY <1>3 DEF ControllerInv, ControllerTypeOK, ServersInv, NoCall
<1>5. ShutInv'
  BY <1>3 DEF ControllerInv, ControllerTypeOK, ShutInv
<1>6. QED
  BY <1>2, <1>4, <1>5 DEF ControllerInv

\* A reset takes servers out of the table and touches none.
LEMMA ForgetStep ==
  ASSUME ControllerInv, NEW r \in Requests, NEW ps \in SUBSET Ports, Forget(r, ps),
         targets' = [targets EXCEPT ![r] = Recorded(ps)]
  PROVE  ControllerInv'
<1> USE ControllerAssumption DEF Forget, netVars
<1>1. Recorded(ps) \subseteq Requests
  BY DEF ControllerInv, ControllerTypeOK, Recorded
<1>2. TableType' /\ NetType' /\ CallType'
  BY <1>1, TypeParts DEF ControllerInv, TableType, NetType, CallType, NoCall
<1>3. ControllerTypeOK'
  BY <1>2 DEF ControllerTypeOK, TableType, NetType, CallType, NoCall
<1>4. ServersInv'
  BY DEF ControllerInv, ControllerTypeOK, ServersInv
<1>5. ShutInv'
  BY DEF ControllerInv, ControllerTypeOK, ShutInv
<1>6. QED
  BY <1>3, <1>4, <1>5 DEF ControllerInv

\* Shutdown and the answer of a reset.
LEMMA ResetsStep ==
  ASSUME ControllerInv, NEW r \in Requests, Resets(r)
  PROVE  ControllerInv'
<1> USE DEF tableVars, handlerVars, netVars
<1>1. CASE Shutdown(r)
  <2>1. PICK s \in targets[r] \ shut :
          /\ shut' = shut \cup {s}
          /\ IF state[s] = "serving"
             THEN /\ state' = [state EXCEPT ![s] = "ended"]
                  /\ holder' = [holder EXCEPT ![port[s]] = None]
             ELSE UNCHANGED <<state, holder>>
    BY <1>1 DEF Shutdown
  <2>2. s \in Requests
    BY DEF ControllerInv, ControllerTypeOK
  <2>3. UNCHANGED <<tableVars, handlerVars, answering>>
    BY <1>1 DEF Shutdown
  <2>4. ControllerTypeOK'
    BY <2>1, <2>2, <2>3 DEF ControllerInv, ControllerTypeOK, NoCall
  <2>5. \A q \in Requests : state'[q] = state[q] \/ (state[q] = "serving" /\ state'[q] = "ended")
    BY <2>1, <2>2 DEF ControllerInv, ControllerTypeOK
  <2>6. ServersInv'
    <3>1. \A q \in Requests : state'[q] = "none" <=> state[q] = "none"
      BY <2>5
    <3>2. \A k \in Arrivals : answering[k].at # "none" => answering[k].server \in Requests
      BY DEF ControllerInv, ControllerTypeOK, NoCall
    <3>3. QED
      BY <2>3, <3>1, <3>2 DEF ControllerInv, ControllerTypeOK, ServersInv
  <2>7. ShutInv'
    <3>1. state'[s] # "serving"
      BY <2>1, <2>2 DEF ControllerInv, ControllerTypeOK
    <3>2. QED
      BY <2>1, <2>3, <2>5, <3>1 DEF ControllerInv, ControllerTypeOK, ShutInv
  <2>8. QED
    BY <2>4, <2>6, <2>7 DEF ControllerInv
<1>2. CASE ResetReturns(r)
  <2>1. ControllerTypeOK'
    BY <1>2 DEF ResetReturns, ControllerInv, ControllerTypeOK, NoCall
  <2>2. ServersInv' /\ ShutInv'
    BY <1>2 DEF ResetReturns, ControllerInv, ControllerTypeOK, ServersInv, ShutInv
  <2>3. QED
    BY <2>1, <2>2 DEF ControllerInv
<1>3. QED
  BY <1>1, <1>2 DEF Resets

\* The goroutine of a server.
LEMMA StartsStep ==
  ASSUME ControllerInv, NEW s \in Requests, Starts(s)
  PROVE  ControllerInv'
<1> USE DEF tableVars, handlerVars, netVars
<1>1. ControllerTypeOK'
  BY DEF Starts, Listen, Bind, Serve, ControllerInv, ControllerTypeOK, NoCall
<1>2. UNCHANGED <<tableVars, handlerVars, shut, answering>>
  BY DEF Starts, Listen, Bind, Serve
<1>3. PICK x \in {"checked", "ended", "bound", "failed", "serving"} :
        state' = [state EXCEPT ![s] = x] /\ (x = "serving" => s \notin shut)
  BY DEF Starts, Listen, Bind, Serve
<1>4. state[s] # "none"
  BY DEF Starts, Listen, Bind, Serve
<1>5. \A k \in Arrivals : answering[k].at # "none" => answering[k].server \in Requests
  BY DEF ControllerInv, ControllerTypeOK, NoCall
<1>6. ServersInv'
  <2>1. \A q \in Requests : state'[q] = "none" <=> state[q] = "none"
    BY <1>3, <1>4 DEF ControllerInv, ControllerTypeOK
  <2>2. QED
    BY <1>2, <1>5, <2>1 DEF ControllerInv, ControllerTypeOK, ServersInv
<1>7. ShutInv'
  BY <1>2, <1>3 DEF ControllerInv, ControllerTypeOK, ShutInv
<1>8. QED
  BY <1>1, <1>6, <1>7 DEF ControllerInv

\* A call whose route was found.
LEMMA Executing ==
  ASSUME NEW c \in [at : {"accepted"}, server : Requests, steps : {None}], NEW x
  PROVE  [c EXCEPT !.at = "executing", !.steps = x]
           = [at |-> "executing", server |-> c.server, steps |-> x]
<1> DEFINE d == [c EXCEPT !.at = "executing", !.steps = x]
           e == [at |-> "executing", server |-> c.server, steps |-> x]
<1>1. c = [f \in {"at", "server", "steps"} |-> c[f]]
  OBVIOUS
<1>2. DOMAIN d = {"at", "server", "steps"} /\ d = [f \in DOMAIN d |-> d[f]]
  OBVIOUS
<1>3. d.at = "executing" /\ d.steps = x /\ d.server = c.server
  OBVIOUS
<1>4. DOMAIN e = {"at", "server", "steps"} /\ e = [f \in DOMAIN e |-> e[f]]
  OBVIOUS
<1>5. e.at = "executing" /\ e.steps = x /\ e.server = c.server
  OBVIOUS
<1> HIDE DEF d, e
<1>6. d = e
  BY <1>2, <1>3, <1>4, <1>5
<1>7. QED
  BY <1>6 DEF d, e

\* A mock request executes the steps found for the port of its server.
LEMMA CallsStep ==
  ASSUME ControllerInv, NEW k \in Arrivals, Accept(k) \/ FindRoute(k) \/ Respond(k)
  PROVE  ControllerInv'
<1> USE DEF tableVars, handlerVars, netVars
<1>1. CASE Accept(k)
  <2>1. PICK s \in Requests :
          /\ state[s] = "serving"
          /\ answering' = [answering EXCEPT ![k] = [at |-> "accepted", server |-> s, steps |-> None]]
    BY <1>1 DEF Accept
  <2>2. UNCHANGED <<tableVars, handlerVars, netVars>>
    BY <1>1 DEF Accept
  <2>3. CallType'
    BY <2>1, TypeParts DEF ControllerInv, CallType, NoCall
  <2>4. ControllerTypeOK' /\ ServersInv' /\ ShutInv'
    BY <2>1, <2>2, <2>3 DEF ControllerInv, ControllerTypeOK, CallType, ServersInv, ShutInv, NoCall
  <2>5. QED
    BY <2>4 DEF ControllerInv
<1>2. CASE FindRoute(k)
  <2> DEFINE steps == routes[port[answering[k].server]]
  <2>1. answering[k] \in [at : {"accepted"}, server : Requests, steps : {None}]
    BY <1>2 DEF FindRoute, ControllerInv, ControllerTypeOK, NoCall
  <2>2. port[answering[k].server] \in Ports
    BY <2>1 DEF ControllerInv, ServersInv
  <2>3. steps \in Requests \cup {None}
    BY <2>2 DEF ControllerInv, ControllerTypeOK
  <2>4. answering' = [answering EXCEPT ![k] = IF steps = None THEN NoCall
                   ELSE [answering[k] EXCEPT !.at = "executing", !.steps = steps]]
    BY <1>2 DEF FindRoute
  <2>5. [answering[k] EXCEPT !.at = "executing", !.steps = steps]
          = [at |-> "executing", server |-> answering[k].server, steps |-> steps]
    BY <2>1, Executing
  <2>6. UNCHANGED <<tableVars, handlerVars, netVars>>
    BY <1>2 DEF FindRoute
  <2>7. CallType'
    BY <2>1, <2>3, <2>4, <2>5, TypeParts DEF ControllerInv, CallType, NoCall
  <2>8. ServersInv'
    BY <2>1, <2>4, <2>5, <2>6 DEF ControllerInv, ControllerTypeOK, ServersInv, NoCall
  <2>9. ControllerTypeOK' /\ ShutInv'
    BY <2>6, <2>7 DEF ControllerInv, ControllerTypeOK, CallType, ShutInv, NoCall
  <2>10. QED
    BY <2>8, <2>9 DEF ControllerInv
<1>3. CASE Respond(k)
  <2>1. CallType'
    BY <1>3, TypeParts DEF Respond, ControllerInv, CallType, NoCall
  <2>2. ControllerTypeOK' /\ ServersInv' /\ ShutInv'
    BY <1>3, <2>1 DEF Respond, ControllerInv, ControllerTypeOK, CallType, ServersInv, ShutInv, NoCall
  <2>3. QED
    BY <2>2 DEF ControllerInv
<1>4. QED
  BY <1>1, <1>2, <1>3

LEMMA NextInv == ControllerInv /\ [ControllerNext]_controllerVars => ControllerInv'
<1> SUFFICES ASSUME ControllerInv, [ControllerNext]_controllerVars PROVE ControllerInv'
  OBVIOUS
<1>1. ASSUME NEW r \in Requests, Sends(r) PROVE ControllerInv'
  <2>1. ASSUME NEW p \in Ports, RegisterRoute(r, p) PROVE ControllerInv'
    BY <2>1, RegisterStep
  <2>2. ASSUME NEW p \in Ports, ResetPort(r, p) PROVE ControllerInv'
    <3>1. {p} \in SUBSET Ports
      OBVIOUS
    <3>2. QED
      BY <2>2, <3>1, ForgetStep DEF ResetPort
  <2>3. ASSUME ResetAll(r) PROVE ControllerInv'
    <3>1. Ports \in SUBSET Ports
      OBVIOUS
    <3>2. QED
      BY <2>3, <3>1, ForgetStep DEF ResetAll
  <2>4. QED
    BY <1>1, <2>1, <2>2, <2>3 DEF Sends
<1>2. CASE UNCHANGED controllerVars
  BY <1>2 DEF controllerVars, tableVars, handlerVars, netVars, ControllerInv, ControllerTypeOK, ServersInv,
              ShutInv, NoCall
<1>3. QED
  BY <1>1, <1>2, ResetsStep, StartsStep, CallsStep DEF ControllerNext

\* The inductive invariant: tables, servers and calls fit each other.
THEOREM ServersCorrect == ControllerSpec => []ControllerInv
BY InitInv, NextInv, PTL DEF ControllerSpec

\* The controller has its type: in particular a mock handler executes only steps
\* that were registered.
THEOREM ControllerTypes == ControllerSpec => []ControllerTypeOK
<1>1. ControllerInv => ControllerTypeOK
  BY DEF ControllerInv
<1>2. QED
  BY <1>1, ServersCorrect, PTL

\* No step loses a server: what leaves the table is the target of the reset that
\* took it, and a reset answers only when its targets are shut down.
LEMMA ForgottenStep ==
  ControllerInv /\ NoServerIsForgotten /\ [ControllerNext]_controllerVars => NoServerIsForgotten'
<1> SUFFICES ASSUME ControllerInv, NoServerIsForgotten, [ControllerNext]_controllerVars,
                    NEW s \in Requests,
                    state'[s] \in {"new", "checked", "bound", "serving"},
                    s \notin shut'
             PROVE  \/ servers'[port'[s]] = s
                    \/ \E r \in Requests : at'[r] = "shutdown" /\ s \in targets'[r]
  BY DEF NoServerIsForgotten
<1> DEFINE Live == state[s] \in {"new", "checked", "bound", "serving"}
           Kept == servers[port[s]] = s
           Held == \E r \in Requests : at[r] = "shutdown" /\ s \in targets[r]
<1> USE DEF tableVars, handlerVars, netVars
<1>1. Live /\ s \notin shut => Kept \/ Held
  BY DEF NoServerIsForgotten
<1>2. ASSUME NEW r \in Requests, NEW p \in Ports, RegisterRoute(r, p)
      PROVE  servers'[port'[s]] = s \/ \E q \in Requests : at'[q] = "shutdown" /\ s \in targets'[q]
  <2> USE <1>2, ControllerAssumption DEF RegisterRoute, ControllerInv, ControllerTypeOK
  <2>1. CASE s = r /\ servers[p] = None
    BY <2>1
  <2>2. CASE ~(s = r /\ servers[p] = None)
    <3>1. Live /\ s \notin shut /\ s # r
      BY <2>2 DEF ServersInv
    <3>2. port'[s] = port[s] /\ port[s] \in Ports
      BY <3>1 DEF ServersInv
    <3>3. Kept => servers'[port'[s]] = s
      BY <3>2
    <3>4. Held => \E q \in Requests : at'[q] = "shutdown" /\ s \in targets'[q]
      BY DEF ServersInv
    <3>5. QED
      BY <1>1, <3>1, <3>3, <3>4
  <2>3. QED
    BY <2>1, <2>2
<1>3. ASSUME NEW r \in Requests, NEW ps \in SUBSET Ports, Forget(r, ps),
             targets' = [targets EXCEPT ![r] = Recorded(ps)]
      PROVE  servers'[port'[s]] = s \/ \E q \in Requests : at'[q] = "shutdown" /\ s \in targets'[q]
  <2> USE <1>3, ControllerAssumption DEF Forget, ControllerInv, ControllerTypeOK
  <2>1. Live /\ s \notin shut /\ port'[s] = port[s] /\ port[s] \in Ports
    BY DEF ServersInv
  <2>2. CASE Held
    BY <2>2
  <2>3. CASE Kept /\ port[s] \in ps
    <3>1. s \in Recorded(ps)
      BY <2>3 DEF Recorded
    <3>2. at'[r] = "shutdown" /\ s \in targets'[r]
      BY <3>1
    <3>3. QED
      BY <3>2
  <2>4. CASE Kept /\ port[s] \notin ps
    BY <2>1, <2>4
  <2>5. QED
    BY <1>1, <2>1, <2>2, <2>3, <2>4
<1>4. ASSUME NEW r \in Requests, Resets(r)
      PROVE  servers'[port'[s]] = s \/ \E q \in Requests : at'[q] = "shutdown" /\ s \in targets'[q]
  <2>1. UNCHANGED <<tableVars, port, targets>>
    BY <1>4 DEF Resets, Shutdown, ResetReturns
  <2>2. Live /\ s \notin shut
    BY <1>4 DEF Resets, Shutdown, ResetReturns, ControllerInv, ControllerTypeOK
  <2>3. ASSUME NEW q \in Requests, at[q] = "shutdown", s \in targets[q]
        PROVE  at'[q] = "shutdown"
    BY <1>4, <2>2, <2>3 DEF Resets, Shutdown, ResetReturns, ControllerInv, ControllerTypeOK
  <2>4. QED
    BY <1>1, <2>1, <2>2, <2>3
<1>5. ASSUME UNCHANGED <<tableVars, handlerVars, shut>>,
             Live
      PROVE  servers'[port'[s]] = s \/ \E q \in Requests : at'[q] = "shutdown" /\ s \in targets'[q]
  BY <1>1, <1>5
<1>6. ASSUME NEW q \in Requests, Starts(q)
      PROVE  UNCHANGED <<tableVars, handlerVars, shut>> /\ Live
  BY <1>6 DEF Starts, Listen, Bind, Serve, ControllerInv, ControllerTypeOK
<1>7. ASSUME NEW k \in Arrivals, Accept(k) \/ FindRoute(k) \/ Respond(k)
      PROVE  UNCHANGED <<tableVars, handlerVars, shut>> /\ Live
  BY <1>7 DEF Accept, FindRoute, Respond
<1>8. ASSUME NEW r \in Requests, Sends(r)
      PROVE  servers'[port'[s]] = s \/ \E q \in Requests : at'[q] = "shutdown" /\ s \in targets'[q]
  <2>1. ASSUME NEW p \in Ports
        PROVE  {p} \in SUBSET Ports
    OBVIOUS
  <2>2. Ports \in SUBSET Ports
    OBVIOUS
  <2>3. QED
    BY <1>2, <1>3, <1>8, <2>1, <2>2 DEF Sends, ResetPort, ResetAll
<1>9. CASE UNCHANGED controllerVars
  BY <1>5, <1>9 DEF controllerVars
<1>10. QED
  BY <1>4, <1>5, <1>6, <1>7, <1>8, <1>9 DEF ControllerNext

\* However registrations, resets, binds and calls interleave, a server that may
\* serve is recorded, or some reset is about to shut it down.
THEOREM NoServerLost == ControllerSpec => []NoServerIsForgotten
<1>1. ControllerInit => NoServerIsForgotten
  BY DEF ControllerInit, NoServerIsForgotten
<1>2. QED
  BY <1>1, ServersCorrect, ForgottenStep, PTL DEF ControllerSpec

\* A call on a server that was shut down only ends.
LEMMA WaitStep ==
  ControllerInv /\ ResetWaitsForItsServers /\ [ControllerNext]_controllerVars => ResetWaitsForItsServers'
<1> SUFFICES ASSUME ControllerInv, ResetWaitsForItsServers, [ControllerNext]_controllerVars,
                    NEW r \in Requests, at'[r] = "reset", r \notin timedOut',
                    NEW s \in targets'[r]
             PROVE  CallsOf(s)' = {} /\ state'[s] # "serving"
  BY DEF ResetWaitsForItsServers
<1> USE DEF tableVars, handlerVars, netVars
<1>1. ControllerInv'
  BY NextInv
<1>2. state'[s] # "serving"
  BY <1>1 DEF ControllerInv, ShutInv
<1>3. CASE ResetReturns(r)
  <2>1. s \in targets[r] /\ answering' = answering
    BY <1>3 DEF ResetReturns
  <2>2. CallsOf(s)' = CallsOf(s)
    BY <2>1 DEF CallsOf
  <2>3. CallsOf(s) = {}
    BY <1>3, <2>1 DEF ResetReturns, ControllerInv, ControllerTypeOK
  <2>4. QED
    BY <1>2, <2>2, <2>3
<1>4. CASE ~ResetReturns(r)
  <2>1. at[r] = "reset" /\ r \notin timedOut /\ targets'[r] = targets[r]
    <3>1. CASE \E q \in Requests : Sends(q)
      <4>1. PICK q \in Requests : Sends(q)
        BY <3>1
      <4>2. /\ \E S : targets' = [targets EXCEPT ![q] = S] \/ targets' = targets
            /\ at[q] = "idle" /\ timedOut' = timedOut
            /\ at' = [at EXCEPT ![q] = "registered"] \/ at' = [at EXCEPT ![q] = "shutdown"]
        BY <4>1 DEF Sends, RegisterRoute, ResetPort, ResetAll, Forget
      <4>3. at \in [Requests -> {"idle", "registered", "shutdown", "reset"}]
            /\ DOMAIN targets = Requests
        BY DEF ControllerInv, ControllerTypeOK
      <4>4. QED
        BY <4>2, <4>3
    <3>2. CASE \E q \in Requests : Resets(q)
      BY <1>4, <3>2 DEF Resets, Shutdown, ResetReturns, ControllerInv, ControllerTypeOK
    <3>3. CASE \E s0 \in Requests : Starts(s0)
      BY <3>3 DEF Starts, Listen, Bind, Serve
    <3>4. CASE \E k \in Arrivals : Accept(k) \/ FindRoute(k) \/ Respond(k)
      BY <3>4 DEF Accept, FindRoute, Respond
    <3>5. CASE UNCHANGED controllerVars
      BY <3>5 DEF controllerVars
    <3>6. QED
      BY <3>1, <3>2, <3>3, <3>4, <3>5 DEF ControllerNext
  <2>2. CallsOf(s) = {} /\ state[s] # "serving"
    BY <2>1 DEF ResetWaitsForItsServers
  <2>3. CallsOf(s)' = {}
    <3>1. ASSUME NEW k \in Arrivals, Accept(k) \/ FindRoute(k) \/ Respond(k)
          PROVE  \A l \in Arrivals : answering'[l].at # "none" /\ answering'[l].server = s =>
                   answering[l].at # "none" /\ answering[l].server = s
      <4>1. CASE Accept(k)
        BY <2>2, <4>1 DEF Accept, ControllerInv, ControllerTypeOK
      <4>2. CASE FindRoute(k)
        <5>1. answering[k] \in [at : {"accepted"}, server : Requests, steps : {None}]
          BY <4>2 DEF FindRoute, ControllerInv, ControllerTypeOK, NoCall
        <5>2. answering'[k] = NoCall \/ answering'[k].server = answering[k].server
          BY <4>2, <5>1, Executing DEF FindRoute, ControllerInv, ControllerTypeOK
        <5>3. \A l \in Arrivals \ {k} : answering'[l] = answering[l]
          BY <4>2 DEF FindRoute, ControllerInv, ControllerTypeOK
        <5>4. QED
          BY <5>1, <5>2, <5>3 DEF NoCall
      <4>3. CASE Respond(k)
        BY <4>3 DEF Respond, ControllerInv, ControllerTypeOK, NoCall
      <4>4. QED
        BY <3>1, <4>1, <4>2, <4>3
    <3>2. CASE UNCHANGED answering
      BY <2>2, <3>2 DEF CallsOf
    <3>3. UNCHANGED answering \/ \E k \in Arrivals : Accept(k) \/ FindRoute(k) \/ Respond(k)
      BY DEF ControllerNext, controllerVars, Sends, RegisterRoute, ResetPort, ResetAll, Forget, Resets,
         Shutdown, ResetReturns, Starts, Listen, Bind, Serve
    <3>4. QED
      BY <2>2, <3>1, <3>2, <3>3 DEF CallsOf
  <2>4. QED
    BY <1>2, <2>3
<1>5. QED
  BY <1>2, <1>3, <1>4

\* A reset that was not cut short has waited for every call on its servers.
THEOREM ResetsWait == ControllerSpec => []ResetWaitsForItsServers
<1>1. ControllerInit => ResetWaitsForItsServers
  BY DEF ControllerInit, ResetWaitsForItsServers
<1>2. QED
  BY <1>1, ServersCorrect, WaitStep, PTL DEF ControllerSpec
=============================================================================
