---------------------------- MODULE DatabaseProofs ----------------------------
(***************************************************************************)
(* What a SetupTable leaves, which rows the helpers change, and what a     *)
(* Fetch gives, for any tables, calls, drivers and statements of the       *)
(* application.                                                            *)
(***************************************************************************)
EXTENDS QueryResults, DocumentsProofs, FiniteSetTheorems

LEMMA FunctionIsSequence ==
  ASSUME NEW n \in Nat, NEW f, f = [i \in 1 .. n |-> f[i]]
  PROVE  IsSequence(f) /\ Len(f) = n /\ DOMAIN f = 1 .. n
<1>1. \A i \in 1 .. n : f[i] \in ToSet(f)
  BY DEF ToSet
<1>2. f \in [1 .. n -> ToSet(f)]
  BY <1>1
<1>3. f \in Seq(ToSet(f))
  BY <1>2, IsASeq
<1> QED BY <1>2, <1>3 DEF IsSequence

LEMMA SequenceFacts ==
  ASSUME NEW s, IsSequence(s)
  PROVE  /\ Len(s) \in Nat /\ DOMAIN s = 1 .. Len(s)
         /\ s = [i \in 1 .. Len(s) |-> s[i]]
         /\ s = <<>> <=> Len(s) = 0
<1>1. s \in Seq(ToSet(s))
  BY DEF IsSequence
<1> QED BY <1>1

LEMMA Empty == IsSequence(<<>>) /\ Len(<<>>) = 0 /\ DOMAIN <<>> = {}
BY DEF IsSequence, ToSet

LEMMA Joining ==
  ASSUME NEW a, NEW b, IsSequence(a), IsSequence(b)
  PROVE  /\ Len(a \o b) = Len(a) + Len(b)
         /\ \A i \in 1 .. Len(a) : (a \o b)[i] = a[i]
         /\ \A i \in 1 .. Len(b) : \A k \in Nat : k = Len(a) + i => (a \o b)[k] = b[i]
         /\ a \o b = [i \in 1 .. Len(a) + Len(b) |-> (a \o b)[i]]
         /\ IsSequence(a \o b)
<1> DEFINE S == ToSet(a) \cup ToSet(b)
<1>1. a \in Seq(S) /\ b \in Seq(S)
  <2>1. a \in Seq(ToSet(a)) /\ b \in Seq(ToSet(b))
    BY DEF IsSequence
  <2> QED BY <2>1
<1>2. Len(a) \in Nat /\ Len(b) \in Nat
  BY <1>1
<1> HIDE DEF S
<1>3. a \o b \in Seq(S) /\ Len(a \o b) = Len(a) + Len(b)
  BY <1>1, ConcatProperties
<1>4. \A i \in 1 .. Len(a) + Len(b) : (a \o b)[i] = IF i <= Len(a) THEN a[i] ELSE b[i - Len(a)]
  BY <1>1, ConcatProperties
<1>5. a \o b = [i \in 1 .. Len(a) + Len(b) |-> (a \o b)[i]]
  <2>1. \A s \in Seq(S) : s = [i \in 1 .. Len(s) |-> s[i]]
    OBVIOUS
  <2> QED BY <1>3, <2>1
<1>6. IsSequence(a \o b)
  BY <1>2, <1>5, FunctionIsSequence
<1>7. \A i \in 1 .. Len(a) : (a \o b)[i] = a[i]
  BY <1>2, <1>4
<1>8. \A i \in 1 .. Len(b) : \A k \in Nat : k = Len(a) + i => (a \o b)[k] = b[i]
  <2>1. \A m, n \in Nat : \A i \in 1 .. n : \A k \in Nat :
           k = m + i => k \in 1 .. m + n /\ ~(k <= m) /\ k - m = i
    OBVIOUS
  <2> QED BY <1>2, <1>4, <2>1
<1> QED BY <1>3, <1>5, <1>6, <1>7, <1>8

LEMMA PlaceholdersFacts ==
  ASSUME NEW columns, IsSequence(columns), NEW first \in Int
  PROVE  LET ps == Placeholders(columns, first) IN
         /\ IsSequence(ps) /\ Len(ps) = Len(columns) /\ DOMAIN ps = DOMAIN columns
         /\ \A i \in DOMAIN columns :
              /\ ps[i].column = columns[i]
              /\ ps[i].ph \in {Question, first + i - 1}
<1> DEFINE ps == Placeholders(columns, first)
<1>1. Len(columns) \in Nat /\ DOMAIN columns = 1 .. Len(columns)
  BY SequenceFacts
<1>2. DOMAIN ps = 1 .. Len(columns) /\ ps = [i \in 1 .. Len(columns) |-> ps[i]]
  BY <1>1 DEF Placeholders
<1>3. \A i \in DOMAIN columns : ps[i].column = columns[i] /\ ps[i].ph \in {Question, first + i - 1}
  BY DEF Placeholders
<1> HIDE DEF ps
<1>4. IsSequence(ps) /\ Len(ps) = Len(columns)
  BY <1>1, <1>2, FunctionIsSequence
<1> QED BY <1>1, <1>2, <1>3, <1>4 DEF ps

LEMMA StatementsKept ==
  ASSUME NEW call, driver' = driver
  PROVE  /\ Statements(call)' = Statements(call)
         /\ SetupTable(call)' = SetupTable(call)
<1>1. IfNotExists' = IfNotExists
  BY DEF IfNotExists
<1>2. SetupTable(call)' = SetupTable(call)
  BY <1>1 DEF SetupTable, CreateTable, CreateIndex, DropTable
<1>3. DeleteWithLimit(call)' = DeleteWithLimit(call)
  BY DEF DeleteWithLimit, Placeholders, Limited, Question
<1>4. InsertOne(call)' = InsertOne(call)
  BY DEF InsertOne, Placeholders, Question
<1>5. ReplaceData(call)' = ReplaceData(call)
  BY DEF ReplaceData, Placeholders, Question
<1>6. \A columns : Update(call, columns)' = Update(call, columns)
  BY DEF Update, Placeholders, Question
<1>7. QueryData(call)' = QueryData(call)
  BY DEF QueryData, Placeholders, Question
<1> QED BY <1>2, <1>3, <1>4, <1>5, <1>6, <1>7 DEF Statements
-----------------------------------------------------------------------------
LEMMA One ==
  ASSUME NEW s
  PROVE  IsSequence(<<s>>) /\ Len(<<s>>) = 1 /\ DOMAIN <<s>> = {1} /\ <<s>>[1] = s
<1>1. DOMAIN <<s>> = 1 .. 1 /\ <<s>> = [i \in 1 .. 1 |-> <<s>>[i]] /\ <<s>>[1] = s
  OBVIOUS
<1>2. IsSequence(<<s>>) /\ Len(<<s>>) = 1
  BY <1>1, FunctionIsSequence
<1> QED BY <1>1, <1>2

LEMMA JoinThree ==
  ASSUME NEW a, NEW b, NEW c, IsSequence(a), IsSequence(b), IsSequence(c)
  PROVE  LET all == (a \o b) \o c IN
         /\ IsSequence(all) /\ Len(all) = Len(a) + Len(b) + Len(c)
         /\ \A i \in 1 .. Len(a) : all[i] = a[i]
         /\ \A i \in 1 .. Len(b) : \A k \in Nat : k = Len(a) + i => all[k] = b[i]
         /\ \A i \in 1 .. Len(c) : \A k \in Nat : k = Len(a) + Len(b) + i => all[k] = c[i]
<1> DEFINE ab == a \o b
           all == ab \o c
<1>1. Len(a) \in Nat /\ Len(b) \in Nat /\ Len(c) \in Nat
  BY SequenceFacts
<1>2. /\ Len(ab) = Len(a) + Len(b) /\ IsSequence(ab)
      /\ \A i \in 1 .. Len(a) : ab[i] = a[i]
      /\ \A i \in 1 .. Len(b) : \A k \in Nat : k = Len(a) + i => ab[k] = b[i]
  BY Joining
<1> HIDE DEF ab
<1>3. /\ Len(all) = Len(ab) + Len(c) /\ IsSequence(all)
      /\ \A i \in 1 .. Len(ab) : all[i] = ab[i]
      /\ \A i \in 1 .. Len(c) : \A k \in Nat : k = Len(ab) + i => all[k] = c[i]
  <2>1. IsSequence(ab)
    BY <1>2
  <2> QED BY <2>1, Joining
<1> HIDE DEF all
<1>4. \A i \in 1 .. Len(a) : all[i] = a[i]
  BY <1>1, <1>2, <1>3
<1>5. \A i \in 1 .. Len(b) : \A k \in Nat : k = Len(a) + i => all[k] = b[i]
  BY <1>1, <1>2, <1>3
<1>6. \A i \in 1 .. Len(c) : \A k \in Nat : k = Len(a) + Len(b) + i => all[k] = c[i]
  BY <1>1, <1>2, <1>3
<1>7. Len(all) = Len(a) + Len(b) + Len(c)
  BY <1>2, <1>3
<1> QED BY <1>3, <1>4, <1>5, <1>6, <1>7 DEF all, ab

LEMMA SetupShape ==
  ASSUME NEW call, IsSequence(call.indexes),
         NEW first \in {0, 1}, first = IF call.isReplace THEN 1 ELSE 0
  PROVE  /\ IsSequence(SetupTable(call)) /\ Len(call.indexes) \in Nat
         /\ Len(SetupTable(call)) = first + 1 + Len(call.indexes)
         /\ first = 1 => SetupTable(call)[1] = DropTable
         /\ SetupTable(call)[first + 1] = CreateTable(call.columns)
         /\ \A i \in 1 .. Len(call.indexes) : \A k \in Nat :
              k = first + 1 + i => SetupTable(call)[k] = CreateIndex(i, call.indexes[i])
<1>1. PICK drop, create, indexes :
        /\ drop = IF call.isReplace THEN <<DropTable>> ELSE <<>>
        /\ create = <<CreateTable(call.columns)>>
        /\ indexes = [i \in DOMAIN call.indexes |-> CreateIndex(i, call.indexes[i])]
  OBVIOUS
<1>2. IsSequence(drop) /\ Len(drop) = first /\ (first = 1 => drop[1] = DropTable)
  <2>1. IsSequence(<<>>) /\ Len(<<>>) = 0
    BY DEF IsSequence, ToSet
  <2> QED BY <1>1, <2>1, One
<1>3. IsSequence(create) /\ Len(create) = 1 /\ create[1] = CreateTable(call.columns)
  BY <1>1, One
<1>4. Len(call.indexes) \in Nat /\ DOMAIN call.indexes = 1 .. Len(call.indexes)
  BY SequenceFacts
<1>5. /\ DOMAIN indexes = 1 .. Len(call.indexes)
      /\ indexes = [i \in 1 .. Len(call.indexes) |-> indexes[i]]
      /\ \A i \in 1 .. Len(call.indexes) : indexes[i] = CreateIndex(i, call.indexes[i])
  BY <1>1, <1>4
<1>6. IsSequence(indexes) /\ Len(indexes) = Len(call.indexes)
  BY <1>4, <1>5, FunctionIsSequence
<1>7. PICK all : all = (drop \o create) \o indexes
  OBVIOUS
<1>8. SetupTable(call) = all
  BY <1>1, <1>7 DEF SetupTable
<1>9. /\ IsSequence(all) /\ Len(all) = Len(drop) + Len(create) + Len(indexes)
      /\ \A i \in 1 .. Len(drop) : all[i] = drop[i]
      /\ \A i \in 1 .. Len(create) : \A k \in Nat : k = Len(drop) + i => all[k] = create[i]
      /\ \A i \in 1 .. Len(indexes) : \A k \in Nat :
           k = Len(drop) + Len(create) + i => all[k] = indexes[i]
  <2>1. IsSequence(drop) /\ IsSequence(create) /\ IsSequence(indexes)
    BY <1>2, <1>3, <1>6
  <2> QED BY <1>7, <2>1, JoinThree
<1>10. /\ Len(all) = first + 1 + Len(call.indexes)
       /\ first = 1 => all[1] = DropTable
       /\ all[first + 1] = CreateTable(call.columns)
       /\ \A i \in 1 .. Len(call.indexes) : \A k \in Nat :
            k = first + 1 + i => all[k] = CreateIndex(i, call.indexes[i])
  <2>1. Len(all) = first + 1 + Len(call.indexes)
    BY <1>2, <1>3, <1>6, <1>9
  <2>2. first = 1 => all[1] = DropTable
    BY <1>2, <1>9
  <2>3. all[first + 1] = CreateTable(call.columns)
    <3>1. 1 \in 1 .. Len(create) /\ first + 1 \in Nat
      BY <1>3
    <3>2. PICK k \in Nat : k = first + 1
      BY <3>1
    <3>3. all[k] = create[1]
      BY <1>2, <1>9, <3>1, <3>2
    <3> QED BY <1>3, <3>2, <3>3
  <2>4. \A i \in 1 .. Len(call.indexes) : \A k \in Nat :
          k = first + 1 + i => all[k] = CreateIndex(i, call.indexes[i])
    <3> SUFFICES ASSUME NEW i \in 1 .. Len(call.indexes), NEW k \in Nat, k = first + 1 + i
                 PROVE  all[k] = indexes[i]
      BY <1>5
    <3>1. i \in 1 .. Len(indexes) /\ k = Len(drop) + Len(create) + i
      BY <1>2, <1>3, <1>6
    <3> QED BY <1>9, <3>1
  <2> QED BY <2>1, <2>2, <2>3, <2>4
<1> QED BY <1>4, <1>8, <1>9, <1>10

LEMMA PlaceholdersNumbered ==
  ASSUME NEW columns, IsSequence(columns), NEW n \in Nat, Len(columns) <= n
  PROVE  /\ IsSequence(Placeholders(columns, 1))
         /\ \A x \in ToSet(Placeholders(columns, 1)) :
              {"column", "ph"} \subseteq DOMAIN x /\ x.ph \in 0 .. n
<1> DEFINE ps == Placeholders(columns, 1)
<1>1. /\ IsSequence(ps) /\ DOMAIN ps = DOMAIN columns
      /\ \A i \in DOMAIN columns : ps[i].ph \in {Question, 1 + i - 1}
  BY PlaceholdersFacts
<1>4. \A i \in DOMAIN ps : DOMAIN ps[i] = {"column", "ph"}
  BY DEF Placeholders
<1>2. Len(columns) \in Nat /\ DOMAIN columns = 1 .. Len(columns)
  BY SequenceFacts
<1> HIDE DEF ps
<1>3. \A i \in DOMAIN ps : ps[i].ph \in 0 .. n
  BY <1>1, <1>2 DEF Question
<1> QED BY <1>1, <1>3, <1>4 DEF ToSet, ps

LEMMA UpdateShape ==
  ASSUME NEW call, IsCall(call), call.do = "Update",
         NEW columns \in SetToSeqs(DOMAIN call.updates)
  PROVE  LET args == Update(call, columns).args IN
         /\ IsSequence(columns) /\ Len(columns) = Cardinality(DOMAIN call.updates)
         /\ AreValues(args)
         /\ Len(args) = Len(columns) + Len(call.args)
         /\ \A i \in 1 .. Len(columns) : args[i] = call.updates[columns[i]]
         /\ \A i \in 1 .. Len(call.args) : \A k \in Nat :
              k = Len(columns) + i => args[k] = call.args[i]
<1> DEFINE D == DOMAIN call.updates
           given == [i \in DOMAIN columns |-> call.updates[columns[i]]]
           args == Update(call, columns).args
<1>1. /\ IsFiniteSet(D) /\ \A c \in D : IsStored(call.updates[c])
      /\ IsSequence(call.args) /\ \A v \in ToSet(call.args) : IsStored(v)
  BY DEF IsCall, AreValues
<1>2. Cardinality(D) \in Nat
  BY <1>1, FS_CardinalityType
<1>3. columns \in [1 .. Cardinality(D) -> D]
  BY DEF SetToSeqs
<1>4. IsSequence(columns) /\ Len(columns) = Cardinality(D)
  BY <1>2, <1>3, FunctionIsSequence
<1>5. /\ given = [i \in 1 .. Cardinality(D) |-> given[i]]
      /\ \A i \in 1 .. Cardinality(D) :
           given[i] = call.updates[columns[i]] /\ IsStored(given[i])
  BY <1>1, <1>3
<1>6. args = given \o call.args
  BY DEF Update
<1>7. Len(call.args) \in Nat /\ DOMAIN call.args = 1 .. Len(call.args)
  BY <1>1, SequenceFacts
<1> HIDE DEF given
<1>8. IsSequence(given) /\ Len(given) = Cardinality(D)
  BY <1>2, <1>5, FunctionIsSequence
<1>9. /\ IsSequence(args) /\ Len(args) = Cardinality(D) + Len(call.args)
      /\ \A i \in 1 .. Cardinality(D) : args[i] = given[i]
      /\ \A i \in 1 .. Len(call.args) : \A k \in Nat :
           k = Cardinality(D) + i => args[k] = call.args[i]
  <2>1. /\ Len(given \o call.args) = Len(given) + Len(call.args)
        /\ \A i \in 1 .. Len(given) : (given \o call.args)[i] = given[i]
        /\ \A i \in 1 .. Len(call.args) : \A k \in Nat :
             k = Len(given) + i => (given \o call.args)[k] = call.args[i]
        /\ IsSequence(given \o call.args)
    BY <1>1, <1>8, Joining
  <2> QED BY <1>6, <1>8, <2>1
<1> HIDE DEF args
<1>10. \A v \in ToSet(args) : IsStored(v)
  <2> SUFFICES ASSUME NEW i \in 1 .. Len(args)
               PROVE  IsStored(args[i])
    BY <1>9, SequenceFacts DEF ToSet
  <2>1. CASE i <= Cardinality(D)
    BY <1>2, <1>5, <1>9, <2>1
  <2>2. CASE ~(i <= Cardinality(D))
    <3>1. PICK j \in 1 .. Len(call.args) : i = Cardinality(D) + j
      <4>1. \A m, n \in Nat : \A k \in 1 .. m + n : ~(k <= m) => k - m \in 1 .. n /\ k = m + (k - m)
        OBVIOUS
      <4>2. /\ Cardinality(D) \in Nat /\ Len(call.args) \in Nat
            /\ i \in 1 .. Cardinality(D) + Len(call.args)
        BY <1>2, <1>7, <1>9
      <4> QED BY <2>2, <4>1, <4>2
    <3>2. args[i] = call.args[j] /\ call.args[j] \in ToSet(call.args)
      BY <1>7, <1>9, <3>1 DEF ToSet
    <3> QED BY <1>1, <3>2
  <2> QED BY <2>1, <2>2
<1>11. AreValues(args)
  BY <1>9, <1>10 DEF AreValues
<1> QED BY <1>2, <1>4, <1>5, <1>9, <1>11 DEF args

\* The statements of a call, by what it does.
LEMMA StatementsOf ==
  ASSUME NEW call
  PROVE  /\ call.do = "SetupTable" => Statements(call) = {SetupTable(call)}
         /\ call.do = "DropTable" => Statements(call) = {<<DropTable>>}
         /\ call.do = "CleanTable" => Statements(call) = {<<CleanTable>>}
         /\ call.do = "DeleteWithLimit" =>
              Statements(call) \subseteq {<<DeleteWithLimit(call)>>}
              /\ (call.where = <<>> => Statements(call) = {})
         /\ call.do = "InsertOne" => Statements(call) \subseteq {<<InsertOne(call)>>}
         /\ call.do = "ReplaceData" => Statements(call) = {<<ReplaceData(call)>>}
         /\ call.do = "Update" =>
              Statements(call) \subseteq
                {<<>>} \cup {<<Update(call, columns)>> : columns \in SetToSeqs(DOMAIN call.updates)}
         /\ call.do = "Fetch" => Statements(call) = {<<QueryData(call)>>}
<1>1. CASE call.do = "SetupTable"
  BY <1>1 DEF Statements
<1>2. CASE call.do = "DropTable"
  BY <1>2 DEF Statements
<1>3. CASE call.do = "CleanTable"
  BY <1>3 DEF Statements
<1>4. CASE call.do = "DeleteWithLimit"
  BY <1>4 DEF Statements
<1>5. CASE call.do = "InsertOne"
  BY <1>5 DEF Statements
<1>6. CASE call.do = "ReplaceData"
  BY <1>6 DEF Statements
<1>7. CASE call.do = "Update"
  BY <1>7 DEF Statements
<1>8. CASE call.do = "Fetch"
  BY <1>8 DEF Statements
<1> QED BY <1>1, <1>2, <1>3, <1>4, <1>5, <1>6, <1>7, <1>8

\* Every helper writes statements whose placeholders stand for values it was given.
LEMMA HelperStatements ==
  ASSUME NEW call \in Helpers, NEW all \in Statements(call)
  PROVE  IsSequence(all) /\ \A n \in DOMAIN all : IsStatement(all[n])
<1>1. IsCall(call)
  BY CallsAssumption
<1>2. ASSUME NEW s, IsStatement(s), all = <<s>>
      PROVE  IsSequence(all) /\ \A n \in DOMAIN all : IsStatement(all[n])
  BY <1>2, One
<1>3. CASE call.do = "SetupTable"
  <2>1. all = SetupTable(call)
    BY <1>3, StatementsOf
  <2>2. call.columns \in Seq(DOMAIN Upper) /\ IsSequence(call.indexes)
    BY <1>1, <1>3 DEF IsCall
  <2>3. PICK first \in {0, 1} : first = IF call.isReplace THEN 1 ELSE 0
    OBVIOUS
  <2>4. /\ IsSequence(all) /\ Len(call.indexes) \in Nat
        /\ Len(all) = first + 1 + Len(call.indexes)
        /\ first = 1 => all[1] = DropTable
        /\ all[first + 1] = CreateTable(call.columns)
        /\ \A i \in 1 .. Len(call.indexes) : \A k \in Nat :
             k = first + 1 + i => all[k] = CreateIndex(i, call.indexes[i])
    BY <2>1, <2>2, <2>3, SetupShape
  <2>5. /\ IsStatement(DropTable) /\ IsStatement(CreateTable(call.columns))
        /\ \A i : IsStatement(CreateIndex(i, call.indexes[i]))
    BY <2>2 DEF IsStatement, DropTable, CreateTable, CreateIndex
  <2>6. ASSUME NEW n \in DOMAIN all
        PROVE  IsStatement(all[n])
    <3>1. n \in 1 .. first + 1 + Len(call.indexes)
      BY <2>4, SequenceFacts
    <3>2. CASE n = 1 /\ first = 1
      BY <2>4, <2>5, <3>2
    <3>3. CASE n = first + 1
      BY <2>4, <2>5, <3>3
    <3>4. CASE ~(n <= first + 1)
      <4>1. n - first - 1 \in 1 .. Len(call.indexes) /\ n \in Nat /\ n = first + 1 + (n - first - 1)
        <5>1. \A f \in {0, 1} : \A l \in Nat : \A m \in 1 .. f + 1 + l :
                ~(m <= f + 1) => m - f - 1 \in 1 .. l /\ m \in Nat /\ m = f + 1 + (m - f - 1)
          OBVIOUS
        <5> QED BY <2>4, <3>1, <3>4, <5>1
      <4> QED BY <2>4, <2>5, <4>1
    <3> QED BY <2>4, <3>1, <3>2, <3>3, <3>4
  <2> QED BY <2>4, <2>6
<1>4. CASE call.do \in {"DropTable", "CleanTable", "DeleteWithLimit", "Fetch"}
  <2>1. /\ IsStatement(DropTable) /\ IsStatement(CleanTable)
        /\ IsStatement(DeleteWithLimit(call)) /\ IsStatement(QueryData(call))
    BY DEF IsStatement, DropTable, CleanTable, DeleteWithLimit, QueryData
  <2> QED BY <1>2, <1>4, <2>1, StatementsOf
<1>5. CASE call.do = "InsertOne"
  <2>1. /\ IsSequence(call.fields) /\ AreValues(call.values)
        /\ Len(call.fields) = Len(call.values)
    BY <1>1, <1>5 DEF IsCall
  <2>2. Len(call.fields) \in Nat
    BY <2>1, SequenceFacts
  <2>3. /\ IsSequence(InsertOne(call).sets) /\ InsertOne(call).args = call.values
        /\ \A x \in ToSet(InsertOne(call).sets) :
             {"column", "ph"} \subseteq DOMAIN x /\ x.ph \in 0 .. Len(call.fields)
    BY <2>1, <2>2, PlaceholdersNumbered DEF InsertOne
  <2>4. IsStatement(InsertOne(call))
    <3>1. /\ InsertOne(call).sql = "INSERT" /\ "args" \in DOMAIN InsertOne(call)
          /\ Sets(InsertOne(call)) = InsertOne(call).sets /\ Where(InsertOne(call)) = <<>>
      BY DEF InsertOne, Sets, Where
    <3> QED BY <2>1, <2>3, <3>1, Empty DEF IsStatement
  <2> QED BY <1>2, <1>5, <2>4, StatementsOf
<1>6. CASE call.do = "ReplaceData"
  <2>1. AreValues(call.values) /\ IsSequence(call.values)
    BY <1>1, <1>6 DEF IsCall, AreValues
  <2>2. Len(call.values) \in Nat /\ DOMAIN call.values = 1 .. Len(call.values)
    BY <2>1, SequenceFacts
  <2>3. PICK names : names = [i \in DOMAIN call.values |-> ""]
    OBVIOUS
  <2>4. IsSequence(names) /\ Len(names) = Len(call.values)
    BY <2>2, <2>3, FunctionIsSequence
  <2>5. /\ IsSequence(ReplaceData(call).sets) /\ ReplaceData(call).args = call.values
        /\ \A x \in ToSet(ReplaceData(call).sets) :
             {"column", "ph"} \subseteq DOMAIN x /\ x.ph \in 0 .. Len(call.values)
    <3>1. Len(names) <= Len(call.values)
      BY <2>2, <2>4
    <3>2. /\ IsSequence(Placeholders(names, 1))
          /\ \A x \in ToSet(Placeholders(names, 1)) :
               {"column", "ph"} \subseteq DOMAIN x /\ x.ph \in 0 .. Len(call.values)
      BY <2>2, <2>4, <3>1, PlaceholdersNumbered
    <3>3. ReplaceData(call).sets = Placeholders(names, 1) /\ ReplaceData(call).args = call.values
      BY <2>3 DEF ReplaceData
    <3> QED BY <3>2, <3>3
  <2>6. IsStatement(ReplaceData(call))
    <3>1. /\ ReplaceData(call).sql = "INSERT" /\ "args" \in DOMAIN ReplaceData(call)
          /\ Sets(ReplaceData(call)) = ReplaceData(call).sets /\ Where(ReplaceData(call)) = <<>>
      BY DEF ReplaceData, Sets, Where
    <3> QED BY <2>1, <2>5, <3>1, Empty DEF IsStatement
  <2> QED BY <1>2, <1>6, <2>6, StatementsOf
<1>7. CASE call.do = "Update"
  <2>1. CASE all = <<>>
    <3>1. IsSequence(<<>>) /\ DOMAIN <<>> = {}
      BY DEF IsSequence, ToSet
    <3> QED BY <2>1, <3>1
  <2>2. CASE all # <<>>
    <3>1. PICK columns \in SetToSeqs(DOMAIN call.updates) : all = <<Update(call, columns)>>
      BY <1>7, <2>2, StatementsOf
    <3>2. /\ IsSequence(columns) /\ AreValues(Update(call, columns).args)
          /\ Len(Update(call, columns).args) = Len(columns) + Len(call.args)
      BY <1>1, <1>7, UpdateShape
    <3>3. IsSequence(call.args)
      BY <1>1, <1>7 DEF IsCall, AreValues
    <3>4. Len(columns) \in Nat /\ Len(call.args) \in Nat
      BY <3>2, <3>3, SequenceFacts
    <3>5. PICK n \in Nat : n = Len(columns) + Len(call.args) /\ Len(columns) <= n
      BY <3>4
    <3>6. /\ IsSequence(Update(call, columns).sets)
          /\ \A x \in ToSet(Update(call, columns).sets) :
               {"column", "ph"} \subseteq DOMAIN x /\ x.ph \in 0 .. n
      BY <3>2, <3>5, PlaceholdersNumbered DEF Update
    <3>7. /\ Update(call, columns).sql = "UPDATE" /\ "args" \in DOMAIN Update(call, columns)
          /\ Sets(Update(call, columns)) = Update(call, columns).sets
          /\ Where(Update(call, columns)) = Placeholders(call.where, Len(columns) + 1)
      BY DEF Update, Sets, Where
    <3>9. IsSequence(Placeholders(call.where, Len(columns) + 1))
      <4>1. IsSequence(call.where) /\ Len(columns) + 1 \in Int
        BY <1>1, <1>7, <3>4 DEF IsCall
      <4> QED BY <4>1, PlaceholdersFacts
    <3>8. IsStatement(Update(call, columns))
      BY <3>2, <3>5, <3>6, <3>7, <3>9 DEF IsStatement
    <3> QED BY <1>2, <3>1, <3>8
  <2> QED BY <2>1, <2>2
<1> QED BY <1>1, <1>3, <1>4, <1>5, <1>6, <1>7 DEF IsCall
-----------------------------------------------------------------------------
\* What a statement leaves, by what it does.
LEMMA AfterDefinition ==
  ASSUME NEW s, NEW t \in After(s)
  PROVE  /\ s.sql = "DROP TABLE" => t = NoTable
         /\ s.sql = "CREATE TABLE" =>
              IF table # NoTable THEN t = table ELSE t = [NoTable EXCEPT !.columns = s.columns]
         /\ s.sql = "CREATE INDEX" =>
              IF NameIsUsed(s) THEN t = table
              ELSE t = [table EXCEPT !.indexes = @ \cup {s.index}]
         /\ s.sql = "SELECT" => t = table
<1>1. CASE s.sql = "DROP TABLE"
  BY <1>1 DEF After
<1>2. CASE s.sql = "CREATE TABLE"
  BY <1>2 DEF After, NameIsUsed
<1>3. CASE s.sql = "CREATE INDEX"
  BY <1>3 DEF After
<1>4. CASE s.sql = "SELECT"
  BY <1>4 DEF After
<1> QED BY <1>1, <1>2, <1>3, <1>4

LEMMA AfterInsert ==
  ASSUME NEW s, s.sql = "INSERT", NEW t \in After(s)
  PROVE  /\ IsAccepted(Resolved(s))
         /\ \E id \in FreeIds : t = [table EXCEPT !.rows =
              [r \in DOMAIN table.rows \cup {id} |->
                 IF r = id THEN WithSets([c \in ToSet(table.columns) |-> Null], Resolved(s))
                 ELSE table.rows[r]]]
<1>1. /\ IsAccepted(Resolved(s))
      /\ t \in {[table EXCEPT !.rows =
                   [r \in DOMAIN table.rows \cup {id} |->
                      IF r = id THEN WithSets([c \in ToSet(table.columns) |-> Null], Resolved(s))
                      ELSE table.rows[r]]] :
                  id \in {i \in FreeIds : \A j \in FreeIds : i <= j}}
  BY DEF After
<1> QED BY <1>1

LEMMA AfterDelete ==
  ASSUME NEW s, s.sql = "DELETE", NEW t \in After(s)
  PROVE  /\ IsAccepted(s)
         /\ \E gone \in Removals(s) :
              t = [table EXCEPT !.rows = [r \in DOMAIN table.rows \ gone |-> table.rows[r]]]
BY DEF After, Resolved

LEMMA AfterUpdate ==
  ASSUME NEW s, s.sql = "UPDATE", NEW t \in After(s)
  PROVE  /\ IsAccepted(s)
         /\ t = [table EXCEPT !.rows = [r \in DOMAIN table.rows |->
                   IF r \in Selected(s) THEN WithSets(table.rows[r], s) ELSE table.rows[r]]]
BY DEF After, Resolved

LEMMA NoTableIsTable == IsTable(NoTable)
<1>1. /\ NoTable.columns = <<>> /\ NoTable.indexes = {} /\ NoTable.rows = <<>>
      /\ NoTable = [columns |-> NoTable.columns, indexes |-> NoTable.indexes, rows |-> NoTable.rows]
  BY DEF NoTable
<1> QED BY <1>1 DEF IsTable

\* A table with other rows of its columns.
LEMMA RowsOfTheTable ==
  ASSUME NEW u, IsTable(u), NEW rows, DOMAIN rows \subseteq 1 .. MaxRows,
         \A r \in DOMAIN rows : /\ DOMAIN rows[r] = ToSet(u.columns)
                                /\ \A c \in ToSet(u.columns) : IsStored(rows[r][c])
  PROVE  IsTable([u EXCEPT !.rows = rows])
<1>1. PICK t : t = [u EXCEPT !.rows = rows]
  OBVIOUS
<1>2. u = [columns |-> u.columns, indexes |-> u.indexes, rows |-> u.rows]
  BY DEF IsTable
<1>3. /\ t.columns = u.columns /\ t.rows = rows
      /\ t = [columns |-> t.columns, indexes |-> t.indexes, rows |-> t.rows]
  BY <1>1, <1>2
<1>4. u.columns \in Seq(DOMAIN Upper)
  BY DEF IsTable
<1>5. IsTable(t)
  BY <1>3, <1>4 DEF IsTable
<1> QED BY <1>1, <1>5

\* What a row is set to are values.
LEMMA SetRows ==
  ASSUME NEW s, AreValues(s.args),
         IsSequence(Sets(s)), IsSequence(Where(s)),
         \A x \in ToSet(Sets(s)) : x.ph \in 0 .. Len(s.args),
         Len(s.args) = Len(Sets(s) \o Where(s)),
         NEW row, \A c \in DOMAIN row : IsStored(row[c])
  PROVE  /\ DOMAIN WithSets(row, s) = DOMAIN row
         /\ \A c \in DOMAIN row : IsStored(WithSets(row, s)[c])
<1> SUFFICES ASSUME NEW c \in DOMAIN row
             PROVE  IsStored(WithSets(row, s)[c])
  BY DEF WithSets
<1>1. PICK here : here = {k \in DOMAIN Sets(s) : Sets(s)[k].column = c}
  OBVIOUS
<1>2. WithSets(row, s)[c] = IF here = {} THEN row[c] ELSE Argument(s, CHOOSE k \in here : TRUE)
  BY <1>1 DEF WithSets
<1>3. CASE here = {}
  BY <1>2, <1>3
<1>4. CASE here # {}
  <2>1. PICK k \in DOMAIN Sets(s) : k = CHOOSE x \in here : TRUE
    BY <1>1, <1>4
  <2>2. /\ Len(Sets(s)) \in Nat /\ DOMAIN Sets(s) = 1 .. Len(Sets(s))
        /\ Len(s.args) \in Nat /\ DOMAIN s.args = 1 .. Len(s.args)
        /\ Len(Where(s)) \in Nat
    BY SequenceFacts DEF AreValues
  <2>3. PICK both : both = Sets(s) \o Where(s)
    OBVIOUS
  <2>4. Len(both) = Len(Sets(s)) + Len(Where(s)) /\ both[k] = Sets(s)[k]
    BY <2>1, <2>2, <2>3, Joining
  <2>5. Sets(s)[k].ph \in 0 .. Len(s.args) /\ k \in DOMAIN s.args
    BY <2>1, <2>2, <2>3, <2>4 DEF ToSet
  <2>6. \E j \in DOMAIN s.args : Argument(s, k) = s.args[j]
    <3>1. PICK ph : ph = Sets(s)[k].ph
      OBVIOUS
    <3>2. Argument(s, k) = s.args[IF ph = Question THEN k ELSE ph]
      BY <2>3, <2>4, <3>1 DEF Argument
    <3>3. (IF ph = Question THEN k ELSE ph) \in DOMAIN s.args
      BY <2>2, <2>5, <3>1 DEF Question
    <3> QED BY <3>2, <3>3
  <2> QED BY <1>2, <1>4, <2>1, <2>6 DEF AreValues, ToSet
<1> QED BY <1>3, <1>4

\* Naming the columns that stand in order for all of them leaves the arguments alone.
LEMMA ResolvedFacts ==
  ASSUME NEW s, s.sql = "INSERT", IsStatement(s)
  PROVE  LET q == Resolved(s) IN
         /\ q.args = s.args /\ AreValues(q.args)
         /\ IsSequence(Sets(q)) /\ IsSequence(Where(q))
         /\ \A x \in ToSet(Sets(q)) : x.ph \in 0 .. Len(q.args)
<1>1. /\ "args" \in DOMAIN s /\ AreValues(s.args) /\ IsSequence(Sets(s)) /\ IsSequence(Where(s))
      /\ \A x \in ToSet(Sets(s)) : {"column", "ph"} \subseteq DOMAIN x /\ x.ph \in 0 .. Len(s.args)
  BY DEF IsStatement
<1>2. PICK q : q = Resolved(s)
  OBVIOUS
<1>3. CASE q = s
  BY <1>1, <1>2, <1>3
<1>5. CASE q # s /\ "sets" \notin DOMAIN s
  <2>1. PICK named : q = [s EXCEPT !.sets = named]
    BY <1>2, <1>5 DEF Resolved
  <2>2. DOMAIN q = DOMAIN s /\ \A x \in DOMAIN s : q[x] = s[x]
    BY <1>5, <2>1
  <2>3. Sets(q) = Sets(s) /\ Where(q) = Where(s) /\ q.args = s.args
    BY <1>1, <1>5, <2>2 DEF Sets, Where
  <2> QED BY <1>1, <1>2, <2>3
<1>4. CASE q # s /\ "sets" \in DOMAIN s
  <2>1. PICK named : named = [k \in DOMAIN s.sets |->
                               [s.sets[k] EXCEPT !.column = table.columns[k]]]
    OBVIOUS
  <2>2. "sets" \in DOMAIN s
    BY <1>4
  <2>3. Sets(s) = s.sets
    BY <2>2 DEF Sets
  <2>4. q = [s EXCEPT !.sets = named]
    BY <1>2, <1>4, <2>1, <2>3 DEF Resolved
  <2>5. Sets(q) = named /\ q.args = s.args /\ Where(q) = Where(s)
    BY <1>1, <2>2, <2>4 DEF Sets, Where
  <2>6. Len(s.sets) \in Nat /\ DOMAIN s.sets = 1 .. Len(s.sets)
    BY <1>1, <2>3, SequenceFacts
  <2>7. DOMAIN named = 1 .. Len(s.sets) /\ named = [k \in 1 .. Len(s.sets) |-> named[k]]
    BY <2>1, <2>6
  <2>8. IsSequence(named)
    BY <2>6, <2>7, FunctionIsSequence
  <2>9. \A k \in DOMAIN named : named[k].ph \in 0 .. Len(s.args)
    <3> SUFFICES ASSUME NEW k \in DOMAIN s.sets
                 PROVE  named[k].ph \in 0 .. Len(s.args)
      BY <2>1
    <3>1. PICK x : x = s.sets[k]
      OBVIOUS
    <3>2. x \in ToSet(s.sets)
      BY <3>1 DEF ToSet
    <3>3. "ph" \in DOMAIN x /\ x.ph \in 0 .. Len(s.args)
      BY <1>1, <2>3, <3>2
    <3>4. named[k] = [x EXCEPT !.column = table.columns[k]]
      BY <2>1, <3>1
    <3> QED BY <3>3, <3>4
  <2>10. \A x \in ToSet(named) : x.ph \in 0 .. Len(s.args)
    BY <2>9 DEF ToSet
  <2> QED BY <1>1, <1>2, <2>5, <2>8, <2>10
<1> QED BY <1>3, <1>4, <1>5

LEMMA AfterIsTable ==
  ASSUME IsTable(table), NEW s, IsStatement(s), NEW t \in After(s)
  PROVE  IsTable(t)
<1>1. /\ table = [columns |-> table.columns, indexes |-> table.indexes, rows |-> table.rows]
      /\ table.columns \in Seq(DOMAIN Upper)
      /\ DOMAIN table.rows \subseteq 1 .. MaxRows
      /\ \A r \in DOMAIN table.rows :
           /\ DOMAIN table.rows[r] = ToSet(table.columns)
           /\ \A c \in ToSet(table.columns) : IsStored(table.rows[r][c])
  BY DEF IsTable
<1>2. CASE s.sql \in {"DROP TABLE", "SELECT"}
  BY <1>2, AfterDefinition, NoTableIsTable
<1>3. CASE s.sql = "CREATE TABLE"
  <2>1. CASE t = table
    BY <2>1
  <2>2. CASE t # table
    <3>1. t = [NoTable EXCEPT !.columns = s.columns] /\ s.columns \in Seq(DOMAIN Upper)
      BY <1>3, <2>2, AfterDefinition DEF IsStatement
    <3>2. t = [columns |-> s.columns, indexes |-> {}, rows |-> <<>>]
      BY <3>1 DEF NoTable
    <3>3. /\ t.columns = s.columns /\ DOMAIN t.rows = {}
          /\ t = [columns |-> t.columns, indexes |-> t.indexes, rows |-> t.rows]
      BY <3>2, Empty
    <3>4. t.columns \in Seq(DOMAIN Upper)
      BY <3>1, <3>3
    <3> QED BY <3>3, <3>4 DEF IsTable
  <2> QED BY <2>1, <2>2
<1>4. CASE s.sql = "CREATE INDEX"
  <2>1. CASE t = table
    BY <2>1
  <2>2. CASE t # table
    <3>1. t = [table EXCEPT !.indexes = @ \cup {s.index}]
      BY <1>4, <2>2, AfterDefinition
    <3>2. t.columns = table.columns /\ t.rows = table.rows
          /\ t = [columns |-> t.columns, indexes |-> t.indexes, rows |-> t.rows]
      BY <1>1, <3>1
    <3> QED BY <1>1, <3>2 DEF IsTable
  <2> QED BY <2>1, <2>2
<1>5. CASE s.sql = "INSERT"
  <2>1. PICK q : q = Resolved(s)
    OBVIOUS
  <2>2. /\ q.args = s.args /\ AreValues(q.args)
        /\ IsSequence(Sets(q)) /\ IsSequence(Where(q))
        /\ \A x \in ToSet(Sets(q)) : x.ph \in 0 .. Len(q.args)
    BY <1>5, <2>1, ResolvedFacts
  <2>3. IsAccepted(q)
    BY <1>5, <2>1, AfterInsert
  <2>4. PICK nulls : nulls = [c \in ToSet(table.columns) |-> Null]
    OBVIOUS
  <2>5. PICK id \in FreeIds : t = [table EXCEPT !.rows =
          [r \in DOMAIN table.rows \cup {id} |->
             IF r = id THEN WithSets([c \in ToSet(table.columns) |-> Null], Resolved(s))
             ELSE table.rows[r]]]
    BY <1>5, AfterInsert
  <2>6. DOMAIN nulls = ToSet(table.columns) /\ \A c \in DOMAIN nulls : IsStored(nulls[c])
    BY <2>4 DEF IsStored, IsScalar, Null
  <2>7. PICK row : row = WithSets(nulls, q)
    OBVIOUS
  <2>8. DOMAIN row = ToSet(table.columns) /\ \A c \in ToSet(table.columns) : IsStored(row[c])
    <3>1. Len(q.args) = Len(Sets(q) \o Where(q))
      BY <2>3 DEF IsAccepted
    <3> QED BY <2>2, <2>6, <2>7, <3>1, SetRows
  <2>9. PICK rows : rows = [r \in DOMAIN table.rows \cup {id} |->
                              IF r = id THEN row ELSE table.rows[r]]
    OBVIOUS
  <2>10. /\ DOMAIN rows = DOMAIN table.rows \cup {id}
         /\ \A r \in DOMAIN rows : rows[r] = IF r = id THEN row ELSE table.rows[r]
    BY <2>9
  <2>11. id \in 1 .. MaxRows
    BY DEF FreeIds
  <2>12. t = [table EXCEPT !.rows = rows]
    BY <2>1, <2>4, <2>5, <2>7, <2>9
  <2>13. \A r \in DOMAIN rows : /\ DOMAIN rows[r] = ToSet(table.columns)
                                /\ \A c \in ToSet(table.columns) : IsStored(rows[r][c])
    BY <1>1, <2>8, <2>10
  <2> QED BY <1>1, <2>10, <2>11, <2>12, <2>13, RowsOfTheTable
<1>6. CASE s.sql = "DELETE"
  <2>1. PICK gone \in Removals(s) :
          t = [table EXCEPT !.rows = [r \in DOMAIN table.rows \ gone |-> table.rows[r]]]
    BY <1>6, AfterDelete
  <2>2. PICK rows : rows = [r \in DOMAIN table.rows \ gone |-> table.rows[r]]
    OBVIOUS
  <2>3. t = [table EXCEPT !.rows = rows]
    BY <2>1, <2>2
  <2>4. /\ DOMAIN rows \subseteq DOMAIN table.rows
        /\ \A r \in DOMAIN rows : rows[r] = table.rows[r]
    BY <2>2
  <2> QED BY <1>1, <2>3, <2>4, RowsOfTheTable
<1>7. CASE s.sql = "UPDATE"
  <2>1. PICK rows : rows = [r \in DOMAIN table.rows |->
          IF r \in Selected(s) THEN WithSets(table.rows[r], s) ELSE table.rows[r]]
    OBVIOUS
  <2>2. t = [table EXCEPT !.rows = rows] /\ IsAccepted(s)
    BY <1>7, <2>1, AfterUpdate
  <2>3. /\ AreValues(s.args) /\ IsSequence(Sets(s)) /\ IsSequence(Where(s))
        /\ \A x \in ToSet(Sets(s)) : x.ph \in 0 .. Len(s.args)
        /\ Len(s.args) = Len(Sets(s) \o Where(s))
    BY <1>7, <2>2 DEF IsStatement, IsAccepted
  <2>4. ASSUME NEW r \in DOMAIN table.rows
        PROVE  /\ DOMAIN rows[r] = ToSet(table.columns)
               /\ \A c \in ToSet(table.columns) : IsStored(rows[r][c])
    <3>1. PICK row : row = table.rows[r]
      OBVIOUS
    <3>2. DOMAIN row = ToSet(table.columns) /\ \A c \in DOMAIN row : IsStored(row[c])
      BY <1>1, <3>1
    <3>3. /\ DOMAIN WithSets(row, s) = DOMAIN row
          /\ \A c \in DOMAIN row : IsStored(WithSets(row, s)[c])
      BY <2>3, <3>2, SetRows
    <3>4. rows[r] = WithSets(row, s) \/ rows[r] = row
      BY <2>1, <3>1
    <3> QED BY <3>2, <3>3, <3>4
  <2>5. DOMAIN rows = DOMAIN table.rows
    BY <2>1
  <2> QED BY <1>1, <2>2, <2>4, <2>5, RowsOfTheTable
<1> QED BY <1>2, <1>3, <1>4, <1>5, <1>6, <1>7 DEF IsStatement
-----------------------------------------------------------------------------
\* The statements of a helper from the n-th on: the head is the n-th, the tail begins
\* with the next.
LEMMA Suffix ==
  ASSUME NEW all, IsSequence(all), NEW n \in DOMAIN all,
         NEW left, left = SubSeq(all, n, Len(all))
  PROVE  /\ Len(all) \in Nat /\ n \in 1 .. Len(all)
         /\ left # <<>> /\ Len(left) = Len(all) - n + 1
         /\ Head(left) = all[n]
         /\ Tail(left) = SubSeq(all, n + 1, Len(all))
         /\ Tail(left) = <<>> <=> n = Len(all)
<1>1. all \in Seq(ToSet(all))
  BY DEF IsSequence
<1>2. Len(all) \in Nat /\ n \in 1 .. Len(all)
  BY SequenceFacts
<1>3. Head(left) = all[n] /\ Tail(left) = SubSeq(all, n + 1, Len(all))
  <2>1. Len(all) \in n .. Len(all)
    BY <1>2
  <2> QED BY <1>1, <1>2, <2>1, HeadTailOfSubSeq
<1>4. \A i \in 1 .. Len(all) : all[i] \in ToSet(all)
  BY <1>2, SequenceFacts DEF ToSet
<1>5. Len(left) = Len(all) - n + 1
  <2>1. \A i \in n .. Len(all) : all[i] \in ToSet(all)
    BY <1>2, <1>4
  <2>2. Len(SubSeq(all, n, Len(all))) = IF n <= Len(all) THEN Len(all) - n + 1 ELSE 0
    BY <1>2, <2>1, SubSeqProperties
  <2> QED BY <1>2, <2>2
<1>6. left # <<>>
  BY <1>2, <1>5
<1>7. CASE n = Len(all)
  <2>1. SubSeq(all, n + 1, Len(all)) = <<>>
    BY <1>2, <1>7, SubSeqEmpty
  <2> QED BY <1>2, <1>3, <1>5, <1>6, <1>7, <2>1
<1>8. CASE n # Len(all)
  <2>1. \A i \in n + 1 .. Len(all) : all[i] \in ToSet(all)
    BY <1>2, <1>4
  <2>2. Len(SubSeq(all, n + 1, Len(all))) =
          IF n + 1 <= Len(all) THEN Len(all) - (n + 1) + 1 ELSE 0
    BY <1>2, <2>1, SubSeqProperties
  <2>3. Len(Tail(left)) # 0
    BY <1>2, <1>3, <1>8, <2>2
  <2> QED BY <1>2, <1>3, <1>5, <1>6, <1>8, <2>3
<1> QED BY <1>7, <1>8

\* What a helper under way has left, before and after its next statement.
LEMMA UnderWay ==
  ASSUME NEW call, NEW left, IsUnderWay(call, left)
  PROVE  /\ left # <<>> /\ IsStatement(Head(left))
         /\ Tail(left) # <<>> => IsUnderWay(call, Tail(left))
<1>1. PICK all \in Statements(call) : \E n \in DOMAIN all : left = SubSeq(all, n, Len(all))
  BY DEF IsUnderWay
<1>2. PICK n \in DOMAIN all : left = SubSeq(all, n, Len(all))
  BY <1>1
<1>3. IsSequence(all) /\ \A k \in DOMAIN all : IsStatement(all[k])
  BY HelperStatements DEF IsUnderWay
<1>4. /\ Len(all) \in Nat /\ n \in 1 .. Len(all)
      /\ left # <<>> /\ Head(left) = all[n]
      /\ Tail(left) = SubSeq(all, n + 1, Len(all))
      /\ Tail(left) = <<>> <=> n = Len(all)
  BY <1>2, <1>3, Suffix
<1>5. Tail(left) # <<>> => n + 1 \in DOMAIN all
  BY <1>3, <1>4, SequenceFacts
<1> QED BY <1>3, <1>4, <1>5 DEF IsUnderWay

LEMMA UnderWayKept ==
  ASSUME NEW call, NEW left, driver' = driver
  PROVE  IsUnderWay(call, left)' <=> IsUnderWay(call, left)
<1>1. Statements(call)' = Statements(call)
  BY StatementsKept
<1> QED BY <1>1 DEF IsUnderWay

\* The table stays a table, whatever the application does to it, and a helper under way has
\* the last statements of its call left, in their order (db.go).
THEOREM TypeCorrect == Spec => []TypeOK
<1>1. Init => TypeOK
  BY DatabaseAssumption, NoTableIsTable DEF Init, TypeOK
<1>2. ASSUME TypeOK, [Next]_vars
      PROVE  TypeOK'
  <2>1. /\ driver \in Drivers /\ IsTable(table) /\ IsTable(before)
        /\ outcome \in {"returned", "failed"}
        /\ calls \in 0 .. MaxCalls /\ appDone \in 0 .. MaxApp /\ alone \in BOOLEAN
        /\ h # NoHelper => h = [call |-> h.call, left |-> h.left] /\ IsUnderWay(h.call, h.left)
    BY <1>2 DEF TypeOK
  <2>2. driver' = driver
    BY <1>2 DEF Next, Begin, Exec, Breaks, Fetch, Application, vars
  <2>3. ASSUME NEW s, IsStatement(s), table' \in After(s)
        PROVE  IsTable(table')
    BY <2>1, <2>3, AfterIsTable
  <2>4. h # NoHelper => IsStatement(Head(h.left))
    BY <2>1, UnderWay
  <2>5. IsTable(table')
    <3>1. CASE Exec
      BY <2>1, <2>3, <2>4, <3>1 DEF Exec
    <3>2. CASE Breaks
      BY <2>1, <2>3, <2>4, <3>2 DEF Breaks
    <3>3. CASE Application
      BY <2>3, <3>3, AppAssumption DEF Application
    <3>4. CASE UNCHANGED table
      BY <2>1, <3>4
    <3> QED BY <1>2, <3>1, <3>2, <3>3, <3>4 DEF Next, Begin, Fetch, vars
  <2>6. IsTable(before')
    BY <1>2, <2>1 DEF Next, Begin, Exec, Breaks, Fetch, Application, vars
  <2>7. h' = NoHelper \/ (h' = [call |-> h'.call, left |-> h'.left] /\ IsUnderWay(h'.call, h'.left))
    <3>1. CASE Begin
      <4>1. CASE h' = h
        BY <3>1, <4>1 DEF Begin
      <4>2. CASE h' # h
        <5>1. PICK call \in Helpers : \E left \in Statements(call) \ {<<>>} :
                                        h' = [call |-> call, left |-> left]
          BY <3>1, <4>2 DEF Begin
        <5>2. PICK left \in Statements(call) \ {<<>>} : h' = [call |-> call, left |-> left]
          BY <5>1
        <5>3. IsSequence(left)
          BY HelperStatements
        <5>4. left \in Seq(ToSet(left)) /\ 1 \in DOMAIN left
          BY <5>2, <5>3, SequenceFacts DEF IsSequence
        <5>5. left = SubSeq(left, 1, Len(left))
          BY <5>4, SubSeqFull
        <5>6. IsUnderWay(call, left)
          BY <5>4, <5>5 DEF IsUnderWay
        <5> QED BY <5>2, <5>6
      <4> QED BY <4>1, <4>2
    <3>2. CASE Exec \/ Breaks \/ Fetch
      <4>1. (Goes(TRUE) \/ Goes(FALSE)) /\ h # NoHelper
        BY <3>2 DEF Exec, Breaks, Fetch
      <4>2. \/ h' = NoHelper
            \/ Tail(h.left) # <<>> /\ h' = [h EXCEPT !.left = Tail(@)]
        BY <4>1 DEF Goes
      <4>3. CASE h' # NoHelper
        <5>1. h' = [call |-> h.call, left |-> Tail(h.left)] /\ Tail(h.left) # <<>>
          BY <2>1, <4>1, <4>2, <4>3
        <5>2. IsUnderWay(h.call, Tail(h.left))
          BY <2>1, <4>1, <5>1, UnderWay
        <5> QED BY <5>1, <5>2
      <4> QED BY <4>3
    <3>4. CASE UNCHANGED h
      BY <2>1, <3>4
    <3> QED BY <1>2, <3>1, <3>2, <3>4 DEF Next, Application, vars
  <2>8. (h = NoHelper \/ (h = [call |-> h.call, left |-> h.left] /\ IsUnderWay(h.call, h.left)))'
    <3>1. PICK now : now = h'
      OBVIOUS
    <3>2. now # NoHelper => IsUnderWay(now.call, now.left)'
      BY <2>2, <2>7, <3>1, UnderWayKept
    <3> QED BY <2>7, <3>1, <3>2
  <2>9. /\ outcome' \in {"returned", "failed"} /\ alone' \in BOOLEAN
        /\ calls' \in 0 .. MaxCalls /\ appDone' \in 0 .. MaxApp
    <3>1. outcome' \in {"returned", "failed"}
      BY <1>2, <2>1 DEF Next, Begin, Exec, Breaks, Fetch, Application, Goes, vars
    <3>2. alone' \in BOOLEAN
      BY <1>2, <2>1 DEF Next, Begin, Exec, Breaks, Fetch, Application, vars
    <3>3. calls' \in 0 .. MaxCalls
      <4>1. calls' = calls \/ (calls < MaxCalls /\ calls' = calls + 1)
        BY <1>2 DEF Next, Begin, Exec, Breaks, Fetch, Application, vars
      <4> QED BY <2>1, <4>1, DatabaseAssumption
    <3>4. appDone' \in 0 .. MaxApp
      <4>1. appDone' = appDone \/ (appDone < MaxApp /\ appDone' = appDone + 1)
        BY <1>2 DEF Next, Begin, Exec, Breaks, Fetch, Application, vars
      <4> QED BY <2>1, <4>1, DatabaseAssumption
    <3> QED BY <3>1, <3>2, <3>3, <3>4
  <2> QED BY <2>1, <2>2, <2>5, <2>6, <2>8, <2>9 DEF TypeOK
<1> QED BY <1>1, <1>2, PTL DEF Spec
-----------------------------------------------------------------------------
LEMMA SelectedRows ==
  ASSUME NEW s
  PROVE  Selected(s) \subseteq DOMAIN table.rows
BY DEF Selected, SelectedBy

LEMMA RowsAreFinite ==
  ASSUME IsTable(table), NEW rows \in SUBSET DOMAIN table.rows
  PROVE  IsFiniteSet(rows) /\ Cardinality(rows) \in Nat
<1>1. rows \in SUBSET (1 .. MaxRows)
  BY DEF IsTable
<1>2. IsFiniteSet(1 .. MaxRows)
  BY FS_Interval, DatabaseAssumption
<1> QED BY <1>1, <1>2, FS_Subset, FS_CardinalityType

\* Orders of a finite set: each of its elements stands once.
LEMMA Orders ==
  ASSUME NEW S, IsFiniteSet(S), NEW order \in SetToSeqs(S)
  PROVE  /\ Cardinality(S) \in Nat /\ IsSequence(order) /\ Len(order) = Cardinality(S)
         /\ DOMAIN order = 1 .. Cardinality(S)
         /\ \A i \in DOMAIN order : order[i] \in S
         /\ \A i, j \in DOMAIN order : order[i] = order[j] => i = j
         /\ \A x \in S : \E i \in DOMAIN order : order[i] = x
<1>1. Cardinality(S) \in Nat
  BY FS_CardinalityType
<1>2. /\ order \in [1 .. Cardinality(S) -> S]
      /\ \A i, j \in 1 .. Cardinality(S) : i # j => order[i] # order[j]
  BY DEF SetToSeqs
<1>3. IsSequence(order) /\ Len(order) = Cardinality(S)
  BY <1>1, <1>2, FunctionIsSequence
<1>4. order \in Injection(1 .. Cardinality(S), S)
  BY <1>2 DEF Injection, IsInjective
<1>5. Cardinality(1 .. Cardinality(S)) = Cardinality(S)
  BY <1>1, FS_Interval
<1>6. order \in Surjection(1 .. Cardinality(S), S)
  BY <1>4, <1>5, FS_Injection
<1>7. \A x \in S : \E i \in 1 .. Cardinality(S) : order[i] = x
  BY <1>6 DEF Surjection
<1> QED BY <1>1, <1>2, <1>3, <1>7

\* A row that is read shows what is in it, whatever the driver reports.
LEMMA DataShows ==
  ASSUME NEW row, DOMAIN row \subseteq DOMAIN Upper, \A c \in DOMAIN row : IsStored(row[c])
  PROVE  Shows(Data(row), row)
<1>1. \A c \in DOMAIN Upper : ToLower(c) = c /\ ToLower(Upper[c]) = c
  <2> SUFFICES ASSUME NEW c \in DOMAIN Upper
               PROVE  ToLower(c) = c /\ ToLower(Upper[c]) = c
    OBVIOUS
  <2>1. \A d \in DOMAIN Upper : Upper[d] = Upper[c] => d = c
    BY UpperAssumption
  <2>2. (CHOOSE l \in DOMAIN Upper : Upper[l] = Upper[c]) = c
    BY <2>1
  <2>3. Upper[c] \in DOMAIN Upper => Upper[c] = c
    BY UpperAssumption
  <2> QED BY <2>2, <2>3 DEF ToLower
<1>2. \A c \in DOMAIN row : ToLower(Reported(c)) = c
  BY <1>1 DEF Reported
<1>3. {ToLower(Reported(c)) : c \in DOMAIN row} = DOMAIN row
  BY <1>2
<1>4. PICK data : data = Data(row)
  OBVIOUS
<1>5. data = [k \in DOMAIN row |->
                LET v == Raw(row[k]) IN IF v.kind = "bytes" THEN Str(v.s) ELSE v]
  BY <1>3, <1>4 DEF Data
<1>6. ASSUME NEW c \in DOMAIN row
      PROVE  data[c] = row[c]
  <2>1. PICK v : v = row[c] /\ IsStored(v)
    OBVIOUS
  <2>2. data[c] = IF Raw(v).kind = "bytes" THEN Str(Raw(v).s) ELSE Raw(v)
    BY <1>5, <2>1
  <2>3. CASE driver = "mysql" /\ v.kind = "string"
    <3>1. Raw(v).kind = "bytes" /\ Raw(v).s = v.s
      BY <2>3 DEF Raw, Bytes
    <3> QED BY <2>1, <2>2, <2>3, <3>1 DEF IsStored
  <2>4. CASE ~(driver = "mysql" /\ v.kind = "string")
    <3>1. Raw(v) = v
      BY <2>4 DEF Raw
    <3> QED BY <2>1, <2>2, <3>1 DEF IsStored
  <2> QED BY <2>3, <2>4
<1>7. ASSUME NEW c \in DOMAIN row, NEW field \in {c, Upper[c]}
      PROVE  Get(data, field) = {row[c]}
  <2>1. ToLower(field) = c
    BY <1>1
  <2>2. c \in DOMAIN data
    BY <1>5
  <2> QED BY <1>6, <2>1, <2>2 DEF Get
<1> QED BY <1>4, <1>7 DEF Shows

\* The rows that are read, in their order, and what holds of them.
DataOf(rows, order, n) == [i \in 1 .. n |-> Data(rows[order[i]])]
AreShown(ids, rows) == \A r \in ids : Shows(Data(rows[r]), rows[r])
NoneIsRepeated(data, ids, rows) ==
  \A i \in DOMAIN data :
    Cardinality({j \in DOMAIN data : data[j] = data[i]}) <=
      Cardinality({r \in ids : Shows(data[i], rows[r])})

\* A result is read from different rows of the query, each of which it shows.
LEMMA RowsRead ==
  ASSUME NEW ids, IsFiniteSet(ids), NEW rows, NEW order \in SetToSeqs(ids),
         NEW n \in 0 .. Len(order),
         NEW data, data = DataOf(rows, order, n), AreShown(ids, rows)
  PROVE  /\ n = Len(order) => Len(data) = Cardinality(ids)
         /\ NoneIsRepeated(data, ids, rows)
<1>1. /\ Cardinality(ids) \in Nat /\ Len(order) = Cardinality(ids)
      /\ DOMAIN order = 1 .. Cardinality(ids)
      /\ \A i \in DOMAIN order : order[i] \in ids
      /\ \A i, j \in DOMAIN order : order[i] = order[j] => i = j
  BY Orders
<1>2. n \in Nat /\ DOMAIN data = 1 .. n /\ 1 .. n \subseteq DOMAIN order
  BY <1>1 DEF DataOf
<1>3. data = [i \in 1 .. n |-> data[i]]
  BY DEF DataOf
<1>4. Len(data) = n
  BY <1>2, <1>3, FunctionIsSequence
<1>5. ASSUME NEW i \in DOMAIN data
      PROVE  Cardinality({j \in DOMAIN data : data[j] = data[i]}) <=
               Cardinality({r \in ids : Shows(data[i], rows[r])})
  <2>1. PICK J, R : J = {j \in DOMAIN data : data[j] = data[i]}
                    /\ R = {r \in ids : Shows(data[i], rows[r])}
    OBVIOUS
  <2>2. PICK f : f = [j \in J |-> order[j]]
    OBVIOUS
  <2>3. ASSUME NEW j \in J
        PROVE  order[j] \in R
    <3>1. j \in 1 .. n /\ data[j] = data[i]
      BY <1>2, <2>1
    <3>2. order[j] \in ids /\ data[j] = Data(rows[order[j]])
      BY <1>1, <1>2, <3>1 DEF DataOf
    <3>3. Shows(data[j], rows[order[j]])
      BY <3>2 DEF AreShown
    <3> QED BY <2>1, <3>1, <3>2, <3>3
  <2>4. f \in [J -> R]
    BY <2>2, <2>3
  <2>5. \A j, k \in J : f[j] = f[k] => j = k
    BY <1>1, <1>2, <2>1, <2>2
  <2>6. f \in Injection(J, R)
    BY <2>4, <2>5 DEF Injection, IsInjective
  <2>7. IsFiniteSet(R)
    BY <2>1, FS_Subset
  <2> QED BY <2>1, <2>6, <2>7, FS_Injection
<1> QED BY <1>1, <1>4, <1>5 DEF NoneIsRepeated

\* FetchGivesTheRows of a result and of what was selected.
Gives(data, of) ==
  /\ ~of.broken => Len(data) = Cardinality(DOMAIN of.rows)
  /\ \A i \in DOMAIN data :
       Cardinality({j \in DOMAIN data : data[j] = data[i]}) <=
         Cardinality({r \in DOMAIN of.rows : Shows(data[i], of.rows[r])})

LEMMA RowsInv ==
  ASSUME TypeOK, FetchGivesTheRows, [Next]_vars
  PROVE  FetchGivesTheRows'
<1>0. (FetchGivesTheRows <=> Gives(result, found)) /\ (FetchGivesTheRows' <=> Gives(result', found'))
  BY DEF FetchGivesTheRows, Gives, ExpectCount, Shows, Get, ToLower
<1>1. CASE UNCHANGED <<result, found>>
  BY <1>0, <1>1
<1>2. CASE Fetch /\ IsAccepted(Head(h.left))
  <2>1. PICK ids : ids = Selected(Head(h.left))
    OBVIOUS
  <2>2. IsTable(table)
    BY DEF TypeOK
  <2>3. ids \in SUBSET DOMAIN table.rows
    BY <2>1, SelectedRows
  <2>4. IsFiniteSet(ids)
    BY <2>2, <2>3, RowsAreFinite
  <2>5. PICK order \in SetToSeqs(ids) : \E n \in 0 .. Len(order) :
          /\ result' = [i \in 1 .. n |-> Data(table.rows[order[i]])]
          /\ found' = [rows |-> [r \in ids |-> table.rows[r]], broken |-> n < Len(order)]
    BY <1>2, <2>1 DEF Fetch
  <2>6. PICK n \in 0 .. Len(order) :
          /\ result' = [i \in 1 .. n |-> Data(table.rows[order[i]])]
          /\ found' = [rows |-> [r \in ids |-> table.rows[r]], broken |-> n < Len(order)]
    BY <2>5
  <2>7. PICK data, rows : data = result' /\ rows = table.rows
    OBVIOUS
  <2>8. \A r \in ids : Shows(Data(rows[r]), rows[r])
    <3> SUFFICES ASSUME NEW r \in ids
                 PROVE  Shows(Data(rows[r]), rows[r])
      OBVIOUS
    <3>1. PICK row : row = rows[r]
      OBVIOUS
    <3>2. /\ DOMAIN row = ToSet(table.columns) /\ table.columns \in Seq(DOMAIN Upper)
          /\ \A c \in DOMAIN row : IsStored(row[c])
      BY <2>2, <2>3, <2>7, <3>1 DEF IsTable
    <3>3. DOMAIN row \subseteq DOMAIN Upper
      BY <3>2 DEF ToSet
    <3> QED BY <3>1, <3>2, <3>3, DataShows
  <2>9. data = [i \in 1 .. n |-> Data(rows[order[i]])]
    BY <2>6, <2>7
  <2>10. /\ n = Len(order) => Len(data) = Cardinality(ids)
         /\ \A i \in DOMAIN data :
              Cardinality({j \in DOMAIN data : data[j] = data[i]}) <=
                Cardinality({r \in ids : Shows(data[i], rows[r])})
    <3>1. data = DataOf(rows, order, n) /\ AreShown(ids, rows)
      BY <2>8, <2>9 DEF DataOf, AreShown
    <3>2. (n = Len(order) => Len(data) = Cardinality(ids)) /\ NoneIsRepeated(data, ids, rows)
      BY <2>4, <3>1, RowsRead
    <3> QED BY <3>2 DEF NoneIsRepeated
  <2>11. PICK selected : selected = [r \in ids |-> rows[r]]
    OBVIOUS
  <2>12. PICK of : of = found'
    OBVIOUS
  <2>13. of.rows = selected /\ (~of.broken => ~(n < Len(order)))
    BY <2>6, <2>7, <2>11, <2>12
  <2>14. DOMAIN selected = ids /\ \A r \in ids : selected[r] = rows[r]
    BY <2>11
  <2>15. ~of.broken => Len(data) = Cardinality(DOMAIN of.rows)
    <3>1. Len(order) \in Nat
      BY <2>4, Orders
    <3>2. ~(n < Len(order)) => n = Len(order)
      BY <3>1
    <3> QED BY <2>10, <2>13, <2>14, <3>2
  <2>16. \A i \in DOMAIN data :
           {r \in DOMAIN of.rows : Shows(data[i], of.rows[r])} =
             {r \in ids : Shows(data[i], rows[r])}
    BY <2>13, <2>14
  <2>17. \A i \in DOMAIN data :
           Cardinality({j \in DOMAIN data : data[j] = data[i]}) <=
             Cardinality({r \in DOMAIN of.rows : Shows(data[i], of.rows[r])})
    BY <2>10, <2>16
  <2>18. Gives(data, of)
    BY <2>15, <2>17 DEF Gives
  <2> QED BY <1>0, <2>7, <2>12, <2>18
<1> QED BY <1>1, <1>2 DEF Next, Begin, Exec, Breaks, Fetch, Application, vars

\* For any rows, conditions and drivers, a fetch gives the rows that its query selected.
THEOREM FetchedRowsAreTrue == Spec => []FetchGivesTheRows
<1>1. Init => FetchGivesTheRows
  <2> SUFFICES ASSUME Init
               PROVE  FetchGivesTheRows
    OBVIOUS
  <2>1. result = <<>> /\ found.rows = <<>>
    BY DEF Init
  <2>2. DOMAIN <<>> = {} /\ Len(<<>>) = 0 /\ Cardinality({}) = 0
    BY Empty, FS_EmptySet
  <2> QED BY <2>1, <2>2 DEF FetchGivesTheRows, ExpectCount
<1>2. TypeOK /\ FetchGivesTheRows /\ [Next]_vars => FetchGivesTheRows'
  BY RowsInv
<1> QED BY <1>1, <1>2, TypeCorrect, PTL DEF Spec
-----------------------------------------------------------------------------
(***************************************************************************)
(* What stages expect of a result.                                         *)
(***************************************************************************)
\* The values of a result are among those that are stored.
ResultIsStored == \A i \in DOMAIN result : \A k \in DOMAIN result[i] : IsStored(result[i][k])

\* A row that was read has values of the kinds that are stored.
LEMMA DataIsStored ==
  ASSUME NEW row, \A c \in DOMAIN row : IsStored(row[c]), DOMAIN row \subseteq DOMAIN Upper
  PROVE  \A k \in DOMAIN Data(row) : IsStored(Data(row)[k])
<1> SUFFICES ASSUME NEW k \in DOMAIN Data(row)
             PROVE  IsStored(Data(row)[k])
  OBVIOUS
<1>1. k \in {ToLower(Reported(c)) : c \in DOMAIN row}
      /\ Data(row)[k] = LET v == Raw(row[k]) IN IF v.kind = "bytes" THEN Str(v.s) ELSE v
  BY DEF Data
<1>2. \A c \in DOMAIN row : ToLower(Reported(c)) = c
  BY UpperAssumption DEF ToLower, Reported
<1>3. k \in DOMAIN row
  BY <1>1, <1>2
<1>4. PICK v : v = row[k] /\ IsStored(v)
  BY <1>3
<1>5. CASE driver = "mysql" /\ v.kind = "string"
  <2>1. Raw(v) = Bytes(v.s) /\ v = Str(v.s)
    BY <1>4, <1>5 DEF Raw, IsStored
  <2>2. Bytes(v.s).kind = "bytes" /\ Bytes(v.s).s = v.s
    BY DEF Bytes
  <2>3. Data(row)[k] = v
    BY <1>1, <1>4, <2>1, <2>2
  <2> QED BY <1>4, <2>3
<1>6. CASE ~(driver = "mysql" /\ v.kind = "string")
  <2>1. Raw(v) = v /\ v.kind # "bytes"
    BY <1>4, <1>6 DEF Raw, IsStored
  <2>2. Data(row)[k] = v
    BY <1>1, <1>4, <2>1
  <2> QED BY <1>4, <2>2
<1> QED BY <1>5, <1>6

LEMMA ResultStays ==
  ASSUME TypeOK, ResultIsStored, [Next]_vars
  PROVE  ResultIsStored'
<1>1. CASE UNCHANGED result
  BY <1>1 DEF ResultIsStored
<1>2. CASE Fetch /\ IsAccepted(Head(h.left))
  <2>1. IsTable(table)
    BY DEF TypeOK
  <2>2. PICK ids : ids = Selected(Head(h.left))
    OBVIOUS
  <2>3. IsFiniteSet(ids) /\ ids \subseteq DOMAIN table.rows
    BY <2>1, <2>2, SelectedRows, RowsAreFinite
  <2>4. PICK order \in SetToSeqs(ids) : \E n \in 0 .. Len(order) :
          result' = [i \in 1 .. n |-> Data(table.rows[order[i]])]
    BY <1>2, <2>2 DEF Fetch
  <2>5. PICK n \in 0 .. Len(order) : result' = [i \in 1 .. n |-> Data(table.rows[order[i]])]
    BY <2>4
  <2>6. Len(order) \in Nat /\ \A i \in 1 .. Len(order) : order[i] \in ids
    BY <2>3, Orders
  <2>7. ASSUME NEW i \in 1 .. n
        PROVE  \A k \in DOMAIN Data(table.rows[order[i]]) : IsStored(Data(table.rows[order[i]])[k])
    <3>1. PICK row : row = table.rows[order[i]]
      OBVIOUS
    <3>2. order[i] \in DOMAIN table.rows
      BY <2>3, <2>6
    <3>3. /\ DOMAIN row = ToSet(table.columns) /\ table.columns \in Seq(DOMAIN Upper)
          /\ \A c \in DOMAIN row : IsStored(row[c])
      BY <2>1, <3>1, <3>2 DEF IsTable
    <3>4. DOMAIN row \subseteq DOMAIN Upper
      BY <3>3 DEF ToSet
    <3> QED BY <3>1, <3>3, <3>4, DataIsStored
  <2>8. PICK data : data = result'
    OBVIOUS
  <2>9. \A i \in DOMAIN data : \A k \in DOMAIN data[i] : IsStored(data[i][k])
    <3>1. data = [i \in 1 .. n |-> Data(table.rows[order[i]])]
      BY <2>5, <2>8
    <3> QED BY <2>7, <3>1
  <2> QED BY <2>8, <2>9 DEF ResultIsStored
<1> QED BY <1>1, <1>2 DEF Next, Begin, Exec, Breaks, Fetch, Application, vars

\* Scalars that are stored, with the same text or the same float64, are the same values but
\* for their numbers.
LEMMA StoredValue ==
  ASSUME NEW v, IsStored(v)
  PROVE  /\ v.kind \in {"null", "bool", "number", "string"} /\ ~IsContainer(v)
         /\ v.kind = "number" => /\ v.n \in Int
                                 /\ Text(v) = Decimal(v.n) \o (IF HasExponent(v) THEN <<"e+">> ELSE <<>>)
                                 /\ Floats(v) = Float(Nearest(v.n))
         /\ v.kind = "string" => Text(v) = v.s /\ v = Str(v.s)
         /\ v.kind = "null" => v = Null
         /\ v.kind = "bool" => /\ v \in {Bool(FALSE), Bool(TRUE)}
                               /\ Text(v) = <<IF v.b THEN "true" ELSE "false">>
         /\ v.kind # "number" => Floats(v) = v
         /\ Floats(v).kind = v.kind
<1>1. v.kind \in {"null", "bool", "number", "string"} /\ ~IsContainer(v)
  BY DEF IsStored, IsContainer, Containers
<1>2. v.kind = "number" => v.n \in Int
  BY DEF IsStored, IsScalar
<1>3. v.kind = "number" => Floats(v) = Float(Nearest(v.n))
  BY <1>1 DEF Floats, Each, FloatNode, ToFloat64, IsNumber
<1>4. v.kind # "number" => Floats(v) = v
  BY <1>1 DEF Floats, Each, FloatNode, IsNumber
<1>5. Floats(v).kind = v.kind
  <2>1. Float(Nearest(v.n)).kind = "number"
    BY DEF Float
  <2> QED BY <1>3, <1>4, <2>1
<1>6. Text(v) = ScalarText(v)
  BY <1>1 DEF Text
<1> QED BY <1>1, <1>2, <1>3, <1>4, <1>5, <1>6 DEF IsStored, ScalarText

\* The mark of an exponent is no digit: it takes nothing from what tells numbers apart.
LEMMA MarkedTexts ==
  ASSUME NEW m \in Int, NEW n \in Int, NEW a \in {<<>>, <<"e+">>}, NEW b \in {<<>>, <<"e+">>},
         Decimal(m) \o a = Decimal(n) \o b
  PROVE  m = n
<1>1. \A x \in Int : Decimal(x) \in Seq(Symbols)
  BY IntegerTexts
<1>2. \A x \in Int : \A s \in Seq(Symbols) : Decimal(x) # s \o <<"e+">>
  <2> SUFFICES ASSUME NEW x \in Int, NEW s \in Seq(Symbols), Decimal(x) = s \o <<"e+">> PROVE FALSE
    OBVIOUS
  <2>1. \A i \in 1 .. 10 : Digits[i] # "e+"
    <3>1. /\ Digits[1] = "0" /\ Digits[2] = "1" /\ Digits[3] = "2" /\ Digits[4] = "3"
          /\ Digits[5] = "4" /\ Digits[6] = "5" /\ Digits[7] = "6" /\ Digits[8] = "7"
          /\ Digits[9] = "8" /\ Digits[10] = "9"
      BY DEF Digits
    <3>2. \A i \in 1 .. 10 : \/ i = 1 \/ i = 2 \/ i = 3 \/ i = 4 \/ i = 5 \/ i = 6 \/ i = 7 \/ i = 8
                             \/ i = 9 \/ i = 10
      OBVIOUS
    <3> QED BY <3>1, <3>2
  <2>2. \E i \in 1 .. 10 : Decimal(x)[Len(Decimal(x))] = Digits[i]
    <3>1. ASSUME NEW k \in Nat
          PROVE  /\ decimal[k] \in Seq(Symbols) /\ Len(decimal[k]) # 0
                 /\ \E i \in 1 .. 10 : decimal[k][Len(decimal[k])] = Digits[i]
      <4>1. decimal[k] = (IF k < 10 THEN <<>> ELSE decimal[k \div 10]) \o <<Digits[(k % 10) + 1]>>
        BY DecimalTexts
      <4>2. PICK t \in Seq(Symbols) : t = IF k < 10 THEN <<>> ELSE decimal[k \div 10]
        <5>1. CASE k < 10
          BY <5>1, EmptySeq
        <5>2. CASE ~(k < 10)
          <6>1. k \div 10 \in Nat
            OBVIOUS
          <6> QED BY <5>2, <6>1, DecimalTexts
        <5> QED BY <5>1, <5>2
      <4>3. (k % 10) + 1 \in 1 .. 10
        OBVIOUS
      <4>4. PICK i \in 1 .. 10 : i = (k % 10) + 1
        BY <4>3
      <4>5. decimal[k] = t \o <<Digits[i]>> /\ Digits[i] \in Symbols
        BY <4>1, <4>2, <4>4, DigitTexts
      <4>6. /\ (t \o <<Digits[i]>>)[Len(t) + 1] = Digits[i] /\ Len(t \o <<Digits[i]>>) = Len(t) + 1
            /\ t \o <<Digits[i]>> \in Seq(Symbols) /\ Len(t) \in Nat
        BY <4>5
      <4>7. /\ decimal[k] \in Seq(Symbols) /\ Len(decimal[k]) = Len(t) + 1
            /\ decimal[k][Len(decimal[k])] = Digits[i]
        BY <4>5, <4>6
      <4>8. Len(t) + 1 # 0
        BY <4>6
      <4>9. i \in 1 .. 10
        OBVIOUS
      <4>10. Len(decimal[k]) # 0
        BY <4>7, <4>8
      <4> QED BY <4>7, <4>9, <4>10, Zenon
    <3>2. CASE x < 0
      <4>1. -x \in Nat /\ Decimal(x) = <<"-">> \o decimal[-x]
        BY <3>2 DEF Decimal
      <4>2. PICK d \in Seq(Symbols) : d = decimal[-x]
        BY <3>1, <4>1
      <4>3. PICK sign \in Seq(Symbols) : sign = <<"-">> /\ Len(sign) = 1
        <5>1. "-" \in Symbols
          BY DEF Symbols, Written
        <5>2. \A y \in Symbols : <<y>> \in Seq(Symbols) /\ Len(<<y>>) = 1
          OBVIOUS
        <5> QED BY <5>1, <5>2
      <4>4. Len(d) \in Nat /\ Len(d) # 0 /\ \E i \in 1 .. 10 : d[Len(d)] = Digits[i]
        BY <3>1, <4>1, <4>2
      <4>5. Len(sign \o d) = Len(d) + 1 /\ (sign \o d)[Len(d) + 1] = d[Len(d)]
        BY <4>3, <4>4, ConcatProperties
      <4> QED BY <4>1, <4>2, <4>3, <4>4, <4>5
    <3>3. CASE ~(x < 0)
      <4>1. x \in Nat /\ Decimal(x) = decimal[x]
        BY <3>3 DEF Decimal
      <4> QED BY <3>1, <4>1
    <3> QED BY <3>2, <3>3
  <2>3. "e+" \in Symbols
    BY DEF Symbols, Written
  <2>4. Len(s \o <<"e+">>) = Len(s) + 1 /\ (s \o <<"e+">>)[Len(s) + 1] = "e+"
    BY <2>3
  <2> QED BY <2>1, <2>2, <2>4
<1>3. \A s \in Seq(Symbols) : s \o <<>> = s
  BY ConcatEmptySeq
<1>4. \A s, t \in Seq(Symbols) : s \o <<"e+">> = t \o <<"e+">> => s = t
  <2>1. "e+" \in Symbols
    BY DEF Symbols, Written
  <2>2. \A s \in Seq(Symbols) : SubSeq(s \o <<"e+">>, 1, Len(s \o <<"e+">>) - 1) = s
    BY <2>1
  <2> QED BY <2>2
<1>5. Decimal(m) = Decimal(n)
  BY <1>1, <1>2, <1>3, <1>4
<1> QED BY <1>5, IntegersDiffer

\* What is printed of numbers tells them apart.
LEMMA PrintedNumbers ==
  ASSUME NEW v, NEW w, IsNumber(v), IsNumber(w), IsStored(v), IsStored(w)
  PROVE  /\ Text(v) = Text(w) => v.n = w.n
         /\ v.n = w.n /\ IsShort(v.n) => Text(v) = Text(w)
<1> DEFINE mark(x) == IF HasExponent(x) THEN <<"e+">> ELSE <<>>
<1>1. v.n \in Int /\ w.n \in Int /\ Text(v) = Decimal(v.n) \o mark(v) /\ Text(w) = Decimal(w.n) \o mark(w)
  BY StoredValue DEF IsNumber
<1>2. mark(v) \in {<<>>, <<"e+">>} /\ mark(w) \in {<<>>, <<"e+">>}
  OBVIOUS
<1>3. v.n = w.n /\ IsShort(v.n) => mark(v) = mark(w)
  BY DEF HasExponent
<1> HIDE DEF mark
<1> QED BY <1>1, <1>2, <1>3, MarkedTexts

\* The two ways to expect a value, of a value that is stored.
LEMMA ValuesAgree ==
  ASSUME NEW v, IsStored(v), NEW w, IsStored(w) \/ w.kind \in {"slice", "map", "ints"}
  PROVE  /\ Text(v) = Text(w) /\ ~ValuesEqual(v, w) => v.kind # w.kind
         /\ ValuesEqual(v, w) /\ Text(v) # Text(w) =>
              /\ IsNumber(w)
              /\ ~IsShort(w.n) \/ ~FloatIsExact(w.n)
<1>1. CASE w.kind \in {"slice", "map", "ints"}
  <2>1. v.kind \in {"null", "bool", "number", "string"} /\ Floats(v).kind = v.kind
    BY StoredValue
  <2>2. Floats(w).kind = w.kind
    <3>1. CASE IsContainer(w)
      BY <3>1 DEF Floats, Each
    <3>2. CASE ~IsContainer(w)
      BY <1>1, <3>2 DEF Floats, Each, FloatNode, IsNumber
    <3> QED BY <3>1, <3>2
  <2>3. ~ValuesEqual(v, w)
    BY <1>1, <2>1, <2>2 DEF ValuesEqual
  <2> QED BY <1>1, <2>1, <2>3
<1>2. CASE IsStored(w) /\ v.kind # w.kind
  <2>1. Floats(v).kind = v.kind /\ Floats(w).kind = w.kind
    BY <1>2, StoredValue
  <2> QED BY <1>2, <2>1 DEF ValuesEqual
<1>3. CASE IsStored(w) /\ v.kind = w.kind /\ v.kind # "number"
  <2>1. Floats(v) = v /\ Floats(w) = w
    BY <1>3, StoredValue
  <2>2. Text(v) = Text(w) => v = w
    <3>1. CASE v.kind = "string"
      <4>1. v = Str(v.s) /\ w = Str(w.s) /\ Text(v) = v.s /\ Text(w) = w.s
        BY <1>3, <3>1, StoredValue
      <4> QED BY <4>1
    <3>2. CASE v.kind = "null"
      <4>1. v = Null /\ w = Null
        BY <1>3, <3>2, StoredValue
      <4> QED BY <4>1
    <3>3. CASE v.kind = "bool"
      <4>1. /\ v \in {Bool(FALSE), Bool(TRUE)} /\ w \in {Bool(FALSE), Bool(TRUE)}
            /\ Text(v) = <<IF v.b THEN "true" ELSE "false">>
            /\ Text(w) = <<IF w.b THEN "true" ELSE "false">>
        BY <1>3, <3>3, StoredValue
      <4>2. Bool(TRUE).b = TRUE /\ Bool(FALSE).b = FALSE
        BY DEF Bool
      <4>3. <<"true">> # <<"false">>
        OBVIOUS
      <4>4. CASE v = Bool(TRUE)
        BY <4>1, <4>2, <4>3, <4>4
      <4>5. CASE v = Bool(FALSE)
        BY <4>1, <4>2, <4>3, <4>5
      <4> QED BY <4>1, <4>4, <4>5
    <3>4. v.kind \in {"null", "bool", "string"}
      BY <1>3, StoredValue
    <3> QED BY <3>1, <3>2, <3>3, <3>4
  <2> QED BY <2>1, <2>2 DEF ValuesEqual
<1>4. CASE IsStored(w) /\ v.kind = w.kind /\ v.kind = "number"
  <2>1. /\ IsNumber(v) /\ IsNumber(w) /\ v.n \in Int /\ w.n \in Int
        /\ Floats(v) = Float(Nearest(v.n)) /\ Floats(w) = Float(Nearest(w.n))
    BY <1>4, StoredValue DEF IsNumber
  <2>2. ValuesEqual(v, w) <=> Nearest(v.n) = Nearest(w.n)
    BY <2>1 DEF ValuesEqual, Float
  <2>3. Text(v) = Text(w) => ValuesEqual(v, w)
    BY <1>4, <2>1, <2>2, PrintedNumbers
  <2>4. ValuesEqual(v, w) /\ FloatIsExact(w.n) => v.n = w.n
    BY <2>1, <2>2, ExactIntegers DEF FloatIsExact
  <2>5. v.n = w.n /\ IsShort(w.n) => Text(v) = Text(w)
    BY <1>4, <2>1, PrintedNumbers
  <2> QED BY <2>1, <2>3, <2>4, <2>5
<1> QED BY <1>1, <1>2, <1>3, <1>4

LEMMA StoredResultsAgree == ResultIsStored => ExpectationsAgree
<1> SUFFICES ASSUME ResultIsStored, NEW i \in DOMAIN result, NEW e \in Expectations
             PROVE  LET passes == Expect(result[i], e.field, e.value)
                        equal == ExpectCond(result[i], e.field, "Equal", e.value)
                    IN  /\ passes /\ ~equal =>
                             \A v \in Get(result[i], e.field) : v.kind # e.value.kind
                        /\ equal /\ ~passes =>
                             /\ IsNumber(e.value)
                             /\ ~IsShort(e.value.n) \/ ~FloatIsExact(e.value.n)
  BY DEF ExpectationsAgree
<1> DEFINE got == Get(result[i], e.field)
<1>1. \A v \in got : IsStored(v)
  BY DEF Get, ResultIsStored
<1>2. \A v, w \in got : v = w
  BY DEF Get
<1>3. IsStored(e.value) \/ e.value.kind \in {"slice", "map", "ints"}
  BY ExpectationsAssumption
<1>4. Expect(result[i], e.field, e.value) <=> \E v \in got : Text(v) = Text(e.value)
  BY DEF Expect
<1>5. ExpectCond(result[i], e.field, "Equal", e.value) <=> \E v \in got : ValuesEqual(v, e.value)
  BY DEF ExpectCond, Evaluate
<1> HIDE DEF got
<1>6. ASSUME NEW v \in got
      PROVE  /\ Text(v) = Text(e.value) /\ ~ValuesEqual(v, e.value) => v.kind # e.value.kind
             /\ ValuesEqual(v, e.value) /\ Text(v) # Text(e.value) =>
                  /\ IsNumber(e.value)
                  /\ ~IsShort(e.value.n) \/ ~FloatIsExact(e.value.n)
  BY <1>1, <1>3, ValuesAgree
<1>7. ASSUME Expect(result[i], e.field, e.value), ~ExpectCond(result[i], e.field, "Equal", e.value),
             NEW v \in got
      PROVE  v.kind # e.value.kind
  BY <1>2, <1>4, <1>5, <1>6, <1>7
<1>8. ASSUME ExpectCond(result[i], e.field, "Equal", e.value), ~Expect(result[i], e.field, e.value)
      PROVE  /\ IsNumber(e.value)
             /\ ~IsShort(e.value.n) \/ ~FloatIsExact(e.value.n)
  BY <1>2, <1>4, <1>5, <1>6, <1>8
<1> QED BY <1>7, <1>8 DEF got

\* What a stage expects of a result is held against the rows that its query selected, and
\* Expect and ExpectCond (db.go) agree but where kinds differ or numbers have no exact text,
\* for any rows, drivers, precision and expectations.
THEOREM ExpectationsAreHeld == Spec => []ResultsAreTrue
<1>1. Init => ResultIsStored
  BY DEF Init, ResultIsStored
<1>2. TypeOK /\ ResultIsStored /\ [Next]_vars => ResultIsStored'
  BY ResultStays
<1>3. FetchGivesTheRows /\ ResultIsStored => ResultsAreTrue
  BY StoredResultsAgree DEF ResultsAreTrue
<1> QED BY <1>1, <1>2, <1>3, TypeCorrect, FetchedRowsAreTrue, PTL DEF Spec
-----------------------------------------------------------------------------
\* The table now is as a SetupTable, alone at the database, has it after n statements.
SetUpBy(call, n, now, first) ==
  IF n = 0 THEN now = before
  ELSE IF n = first THEN now = NoTable
  ELSE IF call.isReplace \/ before = NoTable
  THEN now = [columns |-> call.columns, indexes |-> {Index(call, i) : i \in 1 .. n - first - 1},
              rows |-> <<>>]
  ELSE /\ now.columns = before.columns /\ now.rows = before.rows
       /\ \A i \in 1 .. n - first - 1 : \E x \in now.indexes : x.name = i

LEMMA TableWithColumns ==
  ASSUME NEW columns
  PROVE  [NoTable EXCEPT !.columns = columns] =
           [columns |-> columns, indexes |-> {}, rows |-> <<>>]
BY DEF NoTable

\* The next statement of a SetupTable leaves the table as one statement more does.
LEMMA SetUpStep ==
  ASSUME NEW call, IsSequence(call.indexes), IsTable(table),
         NEW first \in {0, 1}, first = IF call.isReplace THEN 1 ELSE 0,
         NEW n \in 0 .. first + Len(call.indexes), SetUpBy(call, n, table, first),
         NEW m \in Nat, m = n + 1, NEW s, s = SetupTable(call)[m],
         NEW t, t \in After(s) \/ (NameIsUsed(s) /\ t = table)
  PROVE  SetUpBy(call, m, t, first)
<1>1. /\ Len(call.indexes) \in Nat
      /\ first = 1 => SetupTable(call)[1] = DropTable
      /\ SetupTable(call)[first + 1] = CreateTable(call.columns)
      /\ \A i \in 1 .. Len(call.indexes) : \A k \in Nat :
           k = first + 1 + i => SetupTable(call)[k] = CreateIndex(i, call.indexes[i])
  BY SetupShape
<1>2. CASE n = 0 /\ first = 1
  <2>1. m = 1
    BY <1>2
  <2>2. s = DropTable
    BY <1>1, <1>2, <2>1
  <2>3. s.sql = "DROP TABLE"
    <3>1. DropTable.sql = "DROP TABLE"
      BY DEF DropTable
    <3> QED BY <2>2, <3>1
  <2>4. ~NameIsUsed(s)
    BY <2>3 DEF NameIsUsed
  <2>5. t = NoTable
    BY <2>3, <2>4, AfterDefinition
  <2> QED BY <1>2, <2>1, <2>5 DEF SetUpBy
<1>3. CASE n = first
  <2>1. m = first + 1 /\ m - first - 1 = 0 /\ m # 0 /\ m # first
    BY <1>3
  <2>2. s = CreateTable(call.columns)
    BY <1>1, <2>1
  <2>3. s.sql = "CREATE TABLE" /\ s.columns = call.columns
    <3>1. LET c == CreateTable(call.columns) IN c.sql = "CREATE TABLE" /\ c.columns = call.columns
      BY DEF CreateTable
    <3> QED BY <2>2, <3>1
  <2>4. IF table # NoTable THEN t = table
        ELSE t = [columns |-> call.columns, indexes |-> {}, rows |-> <<>>]
    <3>1. CASE t \in After(s)
      <4>1. IF table # NoTable THEN t = table ELSE t = [NoTable EXCEPT !.columns = s.columns]
        BY <2>3, <3>1, AfterDefinition
      <4>2. [NoTable EXCEPT !.columns = s.columns] =
              [columns |-> s.columns, indexes |-> {}, rows |-> <<>>]
        BY TableWithColumns
      <4> QED BY <2>3, <4>1, <4>2
    <3>2. CASE t \notin After(s)
      <4>1. NameIsUsed(s) /\ t = table
        BY <3>2
      <4>2. table # NoTable
        BY <2>3, <4>1 DEF NameIsUsed
      <4> QED BY <4>1, <4>2
    <3> QED BY <3>1, <3>2
  <2>5. CASE call.isReplace \/ before = NoTable
    <3>1. table = NoTable
      BY <1>3, <2>5 DEF SetUpBy
    <3>2. t = [columns |-> call.columns, indexes |-> {}, rows |-> <<>>]
      BY <2>4, <3>1
    <3>3. {Index(call, i) : i \in 1 .. 0} = {} /\ 1 .. m - first - 1 = 1 .. 0
      BY <2>1
    <3> QED BY <2>1, <2>5, <3>2, <3>3 DEF SetUpBy
  <2>6. CASE ~(call.isReplace \/ before = NoTable)
    <3>1. t = before
      BY <1>3, <2>4, <2>6 DEF SetUpBy
    <3> QED BY <2>1, <2>6, <3>1 DEF SetUpBy
  <2> QED BY <2>5, <2>6
<1>4. CASE n > first
  <2>1. PICK i \in 1 .. Len(call.indexes) : i = n - first
    <3>1. \A l \in Nat : \A k \in 0 .. first + l : k > first => k - first \in 1 .. l
      OBVIOUS
    <3> QED BY <1>1, <1>4, <3>1
  <2>2. m = first + 1 + i
    BY <1>4, <2>1
  <2>3. s = CreateIndex(i, call.indexes[i])
    BY <1>1, <2>1, <2>2
  <2>4. s.sql = "CREATE INDEX" /\ s.index = Index(call, i)
    <3>1. LET c == CreateIndex(i, call.indexes[i]) IN c.sql = "CREATE INDEX" /\ c.index = Index(call, i)
      BY DEF CreateIndex, Index
    <3> QED BY <2>3, <3>1
  <2>5. s.index.name = i
    <3>1. Index(call, i).name = i
      BY DEF Index
    <3> QED BY <2>4, <3>1
  <2>6. NameIsUsed(s) <=> \E x \in table.indexes : x.name = i
    BY <2>4, <2>5 DEF NameIsUsed
  <2>7. IF NameIsUsed(s) THEN t = table ELSE t = [table EXCEPT !.indexes = @ \cup {s.index}]
    BY <2>4, AfterDefinition
  <2>8. /\ n # 0 /\ n # first /\ m # 0 /\ m # first
        /\ n - first - 1 = i - 1 /\ m - first - 1 = i
        /\ 1 .. i = (1 .. i - 1) \cup {i} /\ i \notin 1 .. i - 1
    BY <1>4, <2>1
  <2>9. table = [columns |-> table.columns, indexes |-> table.indexes, rows |-> table.rows]
    BY DEF IsTable
  <2>10. CASE call.isReplace \/ before = NoTable
    <3>1. PICK made : made = {Index(call, j) : j \in 1 .. i - 1}
      OBVIOUS
    <3>2. table = [columns |-> call.columns, indexes |-> made, rows |-> <<>>]
      BY <2>8, <2>10, <3>1 DEF SetUpBy
    <3>3. \A x \in table.indexes : x.name # i
      BY <2>8, <3>1, <3>2 DEF Index
    <3>4. t = [columns |-> call.columns, indexes |-> made \cup {Index(call, i)}, rows |-> <<>>]
      BY <2>4, <2>6, <2>7, <3>2, <3>3
    <3>5. made \cup {Index(call, i)} = {Index(call, j) : j \in 1 .. i}
      BY <2>8, <3>1
    <3> QED BY <2>8, <2>10, <3>4, <3>5 DEF SetUpBy
  <2>11. CASE ~(call.isReplace \/ before = NoTable)
    <3>1. /\ table.columns = before.columns /\ table.rows = before.rows
          /\ \A j \in 1 .. i - 1 : \E x \in table.indexes : x.name = j
      BY <2>8, <2>11 DEF SetUpBy
    <3>2. /\ t.columns = table.columns /\ t.rows = table.rows
          /\ t.indexes = IF NameIsUsed(s) THEN table.indexes ELSE table.indexes \cup {s.index}
      BY <2>7, <2>9
    <3>3. \A j \in 1 .. i : \E x \in t.indexes : x.name = j
      BY <2>4, <2>6, <2>8, <2>5, <3>1, <3>2
    <3> QED BY <2>8, <2>11, <3>1, <3>2, <3>3 DEF SetUpBy
  <2> QED BY <2>10, <2>11
<1> QED BY <1>2, <1>3, <1>4

LEMMA SetUpNow ==
  ASSUME NEW call, NEW n, NEW first, first = IF call.isReplace THEN 1 ELSE 0
  PROVE  /\ IsSetUpTo(call, n) <=> SetUpBy(call, n, table, first)
         /\ before' = before => (IsSetUpTo(call, n)' <=> SetUpBy(call, n, table', first))
BY DEF IsSetUpTo, SetUpBy

\* A SetupTable has n statements behind it, and the m-th is the next of those it has left.
IsAt(call, left, first, n, m) ==
  /\ m = n + 1
  /\ n = Len(SetupTable(call)) - Len(left) /\ Head(left) = SetupTable(call)[m]
  /\ Tail(left) # <<>> => m = Len(SetupTable(call)) - Len(Tail(left))
  /\ Tail(left) = <<>> => m = first + 1 + Len(call.indexes)

LEMMA SetupUnderWay ==
  ASSUME NEW call, NEW left, IsUnderWay(call, left), call.do = "SetupTable",
         NEW first \in {0, 1}, first = IF call.isReplace THEN 1 ELSE 0
  PROVE  /\ IsSequence(call.indexes) /\ Len(call.indexes) \in Nat
         /\ Head(left).sql # "SELECT"
         /\ \E n \in 0 .. first + Len(call.indexes) : \E m \in Nat :
              IsAt(call, left, first, n, m)
<1>1. IsSequence(call.indexes)
  BY CallsAssumption DEF IsUnderWay, IsCall
<1>2. PICK all : all = SetupTable(call)
  OBVIOUS
<1>3. PICK m \in DOMAIN all : left = SubSeq(all, m, Len(all))
  BY <1>2, StatementsOf DEF IsUnderWay
<1>4. /\ IsSequence(all) /\ Len(call.indexes) \in Nat
      /\ Len(all) = first + 1 + Len(call.indexes)
      /\ first = 1 => all[1] = DropTable
      /\ all[first + 1] = CreateTable(call.columns)
      /\ \A i \in 1 .. Len(call.indexes) : \A k \in Nat :
           k = first + 1 + i => all[k] = CreateIndex(i, call.indexes[i])
  BY <1>1, <1>2, SetupShape
<1>5. /\ Len(all) \in Nat /\ m \in 1 .. Len(all)
      /\ Len(left) = Len(all) - m + 1 /\ Head(left) = all[m]
      /\ Tail(left) = SubSeq(all, m + 1, Len(all))
      /\ Tail(left) = <<>> <=> m = Len(all)
  <2>1. IsSequence(all) /\ left = SubSeq(all, m, Len(all))
    BY <1>3, <1>4
  <2> QED BY <2>1, Suffix
<1>6. Tail(left) # <<>> => Len(Tail(left)) = Len(all) - (m + 1) + 1
  <2>1. PICK k, tail : k = m + 1 /\ tail = Tail(left)
    OBVIOUS
  <2>2. IsSequence(all) /\ DOMAIN all = 1 .. Len(all) /\ tail = SubSeq(all, k, Len(all))
    BY <1>4, <1>5, <2>1, SequenceFacts
  <2>3. tail # <<>> => k \in DOMAIN all
    <3>1. m \in 1 .. Len(all) /\ Len(all) \in Nat /\ (tail # <<>> => m # Len(all))
      BY <1>5, <2>1
    <3> QED BY <2>1, <2>2, <3>1
  <2>4. k \in DOMAIN all => Len(tail) = Len(all) - k + 1
    BY <2>2, Suffix
  <2> QED BY <2>1, <2>3, <2>4
<1>7. all[m].sql # "SELECT"
  <2>1. /\ DropTable.sql = "DROP TABLE" /\ CreateTable(call.columns).sql = "CREATE TABLE"
        /\ \A i : CreateIndex(i, call.indexes[i]).sql = "CREATE INDEX"
    BY DEF DropTable, CreateTable, CreateIndex
  <2>2. CASE m <= first
    <3>1. first = 1 /\ m = 1
      BY <1>5, <2>2
    <3> QED BY <1>4, <2>1, <3>1
  <2>3. CASE m = first + 1
    BY <1>4, <2>1, <2>3
  <2>4. CASE m > first + 1
    <3>1. PICK i \in 1 .. Len(call.indexes) : i = m - first - 1
      <4>1. \A l \in Nat : \A k \in 1 .. first + 1 + l : k > first + 1 => k - first - 1 \in 1 .. l
        OBVIOUS
      <4>2. m \in 1 .. first + 1 + Len(call.indexes)
        BY <1>4, <1>5
      <4> QED BY <1>4, <2>4, <4>1, <4>2
    <3>2. m \in Nat /\ m = first + 1 + i
      BY <1>5, <3>1
    <3> QED BY <1>4, <2>1, <3>2
  <2> QED BY <1>5, <2>2, <2>3, <2>4
<1>8. PICK n \in Nat : n = m - 1
  BY <1>5
<1>9. PICK l, k, some, rest :
        l = Len(call.indexes) /\ k = Len(all) /\ some = Len(left) /\ rest = Len(Tail(left))
  OBVIOUS
<1>10. /\ l \in Nat /\ k = first + 1 + l /\ m \in 1 .. k /\ some = k - m + 1
       /\ Tail(left) # <<>> => rest = k - (m + 1) + 1
       /\ Tail(left) = <<>> => m = k
  BY <1>4, <1>5, <1>6, <1>9
<1>11. /\ n \in 0 .. first + l /\ m \in Nat /\ m = n + 1 /\ n = k - some
       /\ Tail(left) # <<>> => m = k - rest
       /\ Tail(left) = <<>> => m = first + 1 + l
  <2>1. l \in Nat /\ k \in Nat /\ k = first + 1 + l /\ m \in 1 .. k /\ some = k - m + 1 /\ n = m - 1
    BY <1>8, <1>10
  <2>2. n \in 0 .. first + l /\ m \in Nat /\ m = n + 1 /\ n = k - some
    BY <2>1
  <2>3. m = k - (k - (m + 1) + 1)
    BY <2>1
  <2> QED BY <1>10, <2>1, <2>2, <2>3
<1>12. IsAt(call, left, first, n, m)
  BY <1>2, <1>5, <1>9, <1>11 DEF IsAt
<1> QED BY <1>1, <1>4, <1>5, <1>7, <1>9, <1>11, <1>12

\* What the helper under way may be after a step.
LEMMA HelperSteps ==
  ASSUME TypeOK, [Next]_vars
  PROVE  /\ Exec \/ Breaks \/ Fetch =>
              h # NoHelper /\ h = [call |-> h.call, left |-> h.left] /\ IsUnderWay(h.call, h.left)
         /\ Goes(TRUE) /\ h' # NoHelper =>
              Tail(h.left) # <<>> /\ h' = [h EXCEPT !.left = Tail(@)]
         /\ Goes(TRUE) /\ h # NoHelper /\ h' = NoHelper => Tail(h.left) = <<>>
         /\ Goes(FALSE) => h' = NoHelper /\ outcome' = "failed"
<1>1. Exec \/ Breaks \/ Fetch => h # NoHelper
  BY DEF Exec, Breaks, Fetch
<1>2. h # NoHelper => h = [call |-> h.call, left |-> h.left] /\ IsUnderWay(h.call, h.left)
  BY DEF TypeOK
<1>3. Goes(TRUE) /\ h # NoHelper /\ h' = NoHelper => Tail(h.left) = <<>>
  <2> SUFFICES ASSUME h # NoHelper, Tail(h.left) # <<>>
               PROVE  [h EXCEPT !.left = Tail(@)] # NoHelper
    BY DEF Goes
  <2>1. [h EXCEPT !.left = Tail(@)] = [call |-> h.call, left |-> Tail(h.left)]
    BY <1>2
  <2> QED BY <2>1 DEF NoHelper
<1> QED BY <1>1, <1>2, <1>3 DEF Goes

\* A statement of a SetupTable that is executed counts as one more.
LEMMA SetupExecutes ==
  ASSUME TypeOK, SetupInv, [Next]_vars, Exec, Goes(TRUE), h.call.do = "SetupTable", alone,
         NEW first \in {0, 1}, first = IF h.call.isReplace THEN 1 ELSE 0
  PROVE  /\ IsSequence(h.call.indexes)
         /\ \E m \in Nat :
              /\ SetUpBy(h.call, m, table', first)
              /\ h' # NoHelper => h'.call = h.call /\ m = Len(SetupTable(h.call)) - Len(h'.left)
              /\ h' = NoHelper => m = first + 1 + Len(h.call.indexes)
<1>1. /\ h # NoHelper /\ h = [call |-> h.call, left |-> h.left] /\ IsUnderWay(h.call, h.left)
      /\ h' # NoHelper => Tail(h.left) # <<>> /\ h' = [h EXCEPT !.left = Tail(@)]
      /\ h' = NoHelper => Tail(h.left) = <<>>
  BY HelperSteps
<1>2. PICK call, left, s, t :
        call = h.call /\ left = h.left /\ s = Head(h.left) /\ t = table'
  OBVIOUS
<1>3. IsUnderWay(call, left) /\ call.do = "SetupTable" /\ first = IF call.isReplace THEN 1 ELSE 0
  BY <1>1, <1>2
<1>4. /\ IsSequence(call.indexes)
      /\ \E n \in 0 .. first + Len(call.indexes) : \E m \in Nat :
           IsAt(call, left, first, n, m)
  BY <1>3, SetupUnderWay
<1>5. PICK n \in 0 .. first + Len(call.indexes) : \E m \in Nat : IsAt(call, left, first, n, m)
  BY <1>4
<1>6. PICK m \in Nat : IsAt(call, left, first, n, m)
  BY <1>5
<1>7. /\ m = n + 1
      /\ n = Len(SetupTable(call)) - Len(left) /\ Head(left) = SetupTable(call)[m]
      /\ Tail(left) # <<>> => m = Len(SetupTable(call)) - Len(Tail(left))
      /\ Tail(left) = <<>> => m = first + 1 + Len(call.indexes)
  BY <1>6 DEF IsAt
<1>8. SetUpBy(call, n, table, first)
  <2>1. IsSetUpTo(call, n)
    BY <1>1, <1>2, <1>7 DEF SetupInv
  <2> QED BY <1>3, <2>1, SetUpNow
<1>9. t \in After(s) \/ (NameIsUsed(s) /\ t = table)
  <2>1. ~Goes(FALSE)
    BY <1>1, HelperSteps DEF Goes
  <2>2. \/ table' \in After(Head(h.left))
        \/ NameIsUsed(Head(h.left)) /\ table' = table
    BY <2>1 DEF Exec
  <2> QED BY <1>2, <2>2
<1>10. SetUpBy(call, m, t, first)
  <2>1. IsTable(table) /\ s = SetupTable(call)[m] /\ m = n + 1
    BY <1>2, <1>7 DEF TypeOK
  <2> QED BY <1>3, <1>4, <1>8, <1>9, <2>1, SetUpStep
<1>11. h' # NoHelper => h'.call = call /\ h'.left = Tail(left)
  BY <1>1, <1>2
<1> QED BY <1>1, <1>2, <1>4, <1>7, <1>10, <1>11

LEMMA SetupStep ==
  ASSUME TypeOK, SetupInv, [Next]_vars
  PROVE  SetupInv'
<1>1. CASE Begin
  <2> SUFFICES ASSUME h' # NoHelper, h'.call.do = "SetupTable"
               PROVE  IsSetUpTo(h.call, Len(SetupTable(h.call)) - Len(h.left))'
    BY DEF SetupInv
  <2>1. h = NoHelper /\ before' = table /\ driver' = driver /\ table' = table
    BY <1>1 DEF Begin
  <2>2. PICK call, left : h' = [call |-> call, left |-> left] /\ call \in Helpers
                          /\ left \in Statements(call)
    BY <1>1, <2>1 DEF Begin
  <2>3. left = SetupTable(call)
    BY <2>2, StatementsOf
  <2>4. Len(SetupTable(call)) \in Nat
    <3>1. IsSequence(left)
      BY <2>2, HelperStatements
    <3> QED BY <2>3, <3>1, SequenceFacts
  <2>5. SetupTable(call)' = SetupTable(call)
    BY <2>1, StatementsKept
  <2>6. PICK n : n = 0
    OBVIOUS
  <2>7. (Len(SetupTable(h.call)) - Len(h.left))' = n
    BY <2>2, <2>3, <2>4, <2>5, <2>6
  <2>8. IsSetUpTo(call, n)'
    BY <2>1, <2>6 DEF IsSetUpTo
  <2> QED BY <2>2, <2>7, <2>8
<1>2. CASE Exec
  <2> SUFFICES ASSUME h' # NoHelper, h'.call.do = "SetupTable", alone'
               PROVE  IsSetUpTo(h.call, Len(SetupTable(h.call)) - Len(h.left))'
    BY DEF SetupInv
  <2>1. Goes(TRUE) /\ alone /\ before' = before /\ driver' = driver
    BY <1>2, HelperSteps DEF Exec
  <2>2. PICK call, left : call = h.call /\ left = h'.left
    OBVIOUS
  <2>3. h'.call = call /\ h.call.do = "SetupTable"
    BY <1>2, <2>1, <2>2, HelperSteps
  <2>4. PICK first \in {0, 1} : first = IF call.isReplace THEN 1 ELSE 0
    OBVIOUS
  <2>5. PICK m \in Nat : SetUpBy(call, m, table', first) /\ m = Len(SetupTable(call)) - Len(left)
    BY <1>2, <2>1, <2>2, <2>3, <2>4, SetupExecutes
  <2>6. SetupTable(call)' = SetupTable(call)
    BY <2>1, StatementsKept
  <2>7. IsSetUpTo(call, m)'
    BY <2>1, <2>4, <2>5, SetUpNow
  <2> QED BY <2>2, <2>3, <2>5, <2>6, <2>7
<1>3. CASE Breaks
  <2>1. h' = NoHelper
    BY <1>3, HelperSteps DEF Breaks
  <2> QED BY <2>1 DEF SetupInv
<1>4. CASE Fetch
  <2> SUFFICES ASSUME h' # NoHelper, h'.call.do = "SetupTable"
               PROVE  FALSE
    BY DEF SetupInv
  <2>1. Goes(TRUE)
    BY <1>4, HelperSteps DEF Fetch
  <2>2. h'.call = h.call /\ IsUnderWay(h.call, h.left)
    BY <1>4, <2>1, HelperSteps
  <2>3. PICK call, left : call = h.call /\ left = h.left
    OBVIOUS
  <2>4. PICK first \in {0, 1} : first = IF call.isReplace THEN 1 ELSE 0
    OBVIOUS
  <2>5. IsUnderWay(call, left) /\ call.do = "SetupTable"
    BY <2>2, <2>3
  <2>6. Head(left).sql # "SELECT"
    BY <2>4, <2>5, SetupUnderWay
  <2> QED BY <1>4, <2>3, <2>6 DEF Fetch
<1>5. CASE Application
  <2>1. alone' = FALSE
    BY <1>5 DEF Application
  <2> QED BY <2>1 DEF SetupInv
<1>6. CASE UNCHANGED vars
  <2>1. UNCHANGED <<driver, table, before, h, alone>>
    BY <1>6 DEF vars
  <2>2. SetupTable(h.call)' = SetupTable(h.call)
    BY <2>1 DEF SetupTable, CreateTable, CreateIndex, DropTable, IfNotExists
  <2> QED BY <2>1, <2>2 DEF SetupInv, IsSetUpTo
<1> QED BY <1>1, <1>2, <1>3, <1>4, <1>5, <1>6 DEF Next

\* A return is that of the last statement, which is executed.
LEMMA ReturnSteps ==
  ASSUME TypeOK, [Next]_vars, NEW dos, Returns(dos)
  PROVE  /\ h = [call |-> h.call, left |-> h.left] /\ IsUnderWay(h.call, h.left)
         /\ Tail(h.left) = <<>> /\ Goes(TRUE)
         /\ \/ Exec /\ (\/ table' \in After(Head(h.left))
                        \/ NameIsUsed(Head(h.left)) /\ UNCHANGED table)
            \/ Fetch /\ IsAccepted(Head(h.left))
<1>1. h # NoHelper /\ h' = NoHelper /\ outcome' = "returned" /\ appDone' = appDone
  BY DEF Returns
<1>2. ~Goes(FALSE)
  BY <1>1 DEF Goes
<1>3. Exec \/ Fetch
  <2>1. ~Application
    <3>1. \A n \in Nat : n + 1 # n
      OBVIOUS
    <3> QED BY <1>1, <3>1 DEF Application, TypeOK
  <2>2. ~Begin /\ ~UNCHANGED vars
    BY <1>1 DEF Begin, vars
  <2>3. ~Breaks
    BY <1>2 DEF Breaks
  <2> QED BY <2>1, <2>2, <2>3 DEF Next
<1>4. Goes(TRUE)
  BY <1>2, <1>3 DEF Exec, Fetch
<1>5. Exec => \/ table' \in After(Head(h.left))
              \/ NameIsUsed(Head(h.left)) /\ UNCHANGED table
  BY <1>2 DEF Exec
<1>6. Fetch => IsAccepted(Head(h.left))
  BY <1>2 DEF Fetch
<1> QED BY <1>1, <1>3, <1>4, <1>5, <1>6, HelperSteps

\* Whatever statements, drivers and tables there are: a SetupTable that passes, alone at the
\* database, leaves the table and the indexes that it was given.
THEOREM SetupIsComplete == Spec => SetupGivesTheTable
<1>1. Init => SetupInv
  BY DEF Init, SetupInv
<1>2. TypeOK /\ SetupInv /\ [Next]_vars => SetupInv'
  BY SetupStep
<1>3. ASSUME TypeOK, SetupInv, [Next]_vars, Returns({"SetupTable"}), alone
      PROVE  IsSetUp
  <2>1. PICK call, left, t : call = h.call /\ left = h.left /\ t = table'
    OBVIOUS
  <2>2. PICK first \in {0, 1} : first = IF call.isReplace THEN 1 ELSE 0
    OBVIOUS
  <2>3. h.call.do = "SetupTable" /\ h' = NoHelper
    BY <1>3 DEF Returns
  <2>4. IsUnderWay(h.call, h.left) /\ Goes(TRUE) /\ (Exec \/ Fetch)
    BY <1>3, ReturnSteps
  <2>5. Exec
    <3>1. IsUnderWay(call, left) /\ call.do = "SetupTable"
      BY <2>1, <2>3, <2>4
    <3>2. Head(left).sql # "SELECT"
      BY <2>2, <3>1, SetupUnderWay
    <3> QED BY <2>1, <2>4, <3>2 DEF Fetch
  <2>6. /\ IsSequence(call.indexes)
        /\ \E m \in Nat : SetUpBy(call, m, t, first) /\ m = first + 1 + Len(call.indexes)
    BY <1>3, <2>1, <2>2, <2>3, <2>4, <2>5, SetupExecutes
  <2>7. PICK m \in Nat : SetUpBy(call, m, t, first) /\ m = first + 1 + Len(call.indexes)
    BY <2>6
  <2>8. PICK n \in Nat : n = Len(call.indexes) /\ DOMAIN call.indexes = 1 .. n
    BY <2>6, SequenceFacts
  <2>9. m # 0 /\ m # first /\ m - first - 1 = n
    <3>1. m = first + 1 + n
      BY <2>7, <2>8
    <3> QED BY <3>1
  <2>10. PICK given : given = {Index(call, i) : i \in 1 .. n}
    OBVIOUS
  <2>11. given = {[name |-> i, columns |-> call.indexes[i]] : i \in DOMAIN call.indexes}
    BY <2>8, <2>10 DEF Index
  <2>12. CASE call.isReplace \/ before = NoTable
    <3>1. t = [columns |-> call.columns, indexes |-> given, rows |-> <<>>]
      BY <2>7, <2>9, <2>10, <2>12 DEF SetUpBy
    <3> QED BY <2>1, <2>11, <2>12, <3>1 DEF IsSetUp
  <2>13. CASE ~(call.isReplace \/ before = NoTable)
    <3>1. /\ t.columns = before.columns /\ t.rows = before.rows
          /\ \A i \in 1 .. n : \E x \in t.indexes : x.name = i
      BY <2>7, <2>9, <2>13 DEF SetUpBy
    <3>2. \A x \in given : x.name \in 1 .. n
      BY <2>10 DEF Index
    <3>3. {x.name : x \in given} \subseteq {x.name : x \in t.indexes}
      BY <3>1, <3>2
    <3> QED BY <2>1, <2>11, <2>13, <3>1, <3>3 DEF IsSetUp
  <2> QED BY <2>12, <2>13
<1>4. TypeOK /\ SetupInv /\ [Next]_vars =>
        [Returns({"SetupTable"}) /\ alone => IsSetUp]_vars
  BY <1>3
<1> QED BY <1>1, <1>2, <1>4, TypeCorrect, PTL DEF Spec, SetupGivesTheTable
-----------------------------------------------------------------------------
\* The placeholders of a statement are numbered through: those beside what it sets first,
\* and from there on those of the columns of its condition.
IsNumbered(s, sets, columns, first) ==
  /\ Sets(s) = sets /\ IsSequence(sets)
  /\ \A k \in 1 .. Len(sets) : sets[k].ph \in {Question, k}
  /\ IsSequence(columns) /\ first \in Nat /\ first = Len(sets) + 1
  /\ Where(s) = s.where /\ s.where = Placeholders(columns, first)

\* The k-th of them stands for the k-th argument.
LEMMA ArgumentsInOrder ==
  ASSUME NEW s, NEW sets, NEW columns, NEW first, IsNumbered(s, sets, columns, first)
  PROVE  /\ Len(Sets(s) \o Where(s)) = Len(sets) + Len(columns)
         /\ \A k \in 1 .. Len(sets) : Argument(s, k) = s.args[k]
         /\ \A i \in 1 .. Len(columns) : \A k \in Nat : k = Len(sets) + i => Argument(s, k) = s.args[k]
<1>0. /\ Sets(s) = sets /\ IsSequence(sets)
      /\ \A k \in 1 .. Len(sets) : sets[k].ph \in {Question, k}
      /\ IsSequence(columns) /\ first \in Nat /\ first = Len(sets) + 1
      /\ Where(s) = Placeholders(columns, first)
  BY DEF IsNumbered
<1>1. Len(sets) \in Nat /\ Len(columns) \in Nat /\ DOMAIN columns = 1 .. Len(columns)
  BY <1>0, SequenceFacts
<1>2. PICK ps : ps = Placeholders(columns, first)
  OBVIOUS
<1>3. /\ IsSequence(ps) /\ Len(ps) = Len(columns)
      /\ \A i \in DOMAIN columns : ps[i].ph \in {Question, first + i - 1}
  <2>1. first \in Int /\ IsSequence(columns)
    BY <1>0
  <2> QED BY <1>2, <2>1, PlaceholdersFacts
<1>4. PICK all : all = sets \o ps
  OBVIOUS
<1>5. /\ Len(all) = Len(sets) + Len(ps)
      /\ \A k \in 1 .. Len(sets) : all[k] = sets[k]
      /\ \A i \in 1 .. Len(ps) : \A k \in Nat : k = Len(sets) + i => all[k] = ps[i]
  <2>1. IsSequence(ps) /\ IsSequence(sets)
    BY <1>0, <1>3
  <2>2. /\ Len(sets \o ps) = Len(sets) + Len(ps)
        /\ \A k \in 1 .. Len(sets) : (sets \o ps)[k] = sets[k]
        /\ \A i \in 1 .. Len(ps) : \A k \in Nat : k = Len(sets) + i => (sets \o ps)[k] = ps[i]
    BY <2>1, Joining
  <2> QED BY <1>4, <2>2
<1>6. ASSUME NEW k \in Nat, k # 0, all[k].ph \in {Question, k}
      PROVE  Argument(s, k) = s.args[k]
  <2>1. Argument(s, k) = s.args[IF all[k].ph = Question THEN k ELSE all[k].ph]
    BY <1>0, <1>2, <1>4 DEF Argument
  <2> QED BY <1>6, <2>1
<1>7. \A k \in 1 .. Len(sets) : Argument(s, k) = s.args[k]
  <2> SUFFICES ASSUME NEW k \in 1 .. Len(sets)
               PROVE  k \in Nat /\ k # 0 /\ all[k].ph \in {Question, k}
    BY <1>6
  <2> QED BY <1>0, <1>1, <1>5
<1>8. ASSUME NEW i \in 1 .. Len(columns), NEW k \in Nat, k = Len(sets) + i
      PROVE  Argument(s, k) = s.args[k]
  <2>1. k # 0 /\ first + i - 1 = k
    BY <1>0, <1>1, <1>8
  <2>2. all[k].ph \in {Question, k}
    BY <1>1, <1>3, <1>5, <1>8, <2>1
  <2> QED BY <1>6, <2>1, <2>2
<1>9. Len(Sets(s) \o Where(s)) = Len(sets) + Len(columns)
  BY <1>0, <1>2, <1>3, <1>4, <1>5
<1> QED BY <1>7, <1>8, <1>9

\* What a statement selects are the rows that the condition of its call names.
LEMMA NamedRows ==
  ASSUME NEW s, NEW sets, NEW call, NEW first, IsNumbered(s, sets, call.where, first),
         \A i \in 1 .. Len(call.where) : \A k \in Nat : k = Len(sets) + i => s.args[k] = call.args[i]
  PROVE  /\ DOMAIN s.where = DOMAIN call.where /\ (s.where = <<>> <=> call.where = <<>>)
         /\ SelectedBy(s, DOMAIN s.where) = Named(call, table.rows)
<1>0. /\ Sets(s) = sets /\ IsSequence(sets) /\ IsSequence(call.where) /\ first \in Nat
      /\ s.where = Placeholders(call.where, first)
  BY DEF IsNumbered
<1>1. Len(sets) \in Nat /\ Len(call.where) \in Nat /\ DOMAIN call.where = 1 .. Len(call.where)
  BY <1>0, SequenceFacts
<1>2. PICK where, columns : where = s.where /\ columns = call.where
  OBVIOUS
<1>3. \A i \in 1 .. Len(columns) : \A k \in Nat : k = Len(sets) + i => Argument(s, k) = s.args[k]
  BY <1>2, ArgumentsInOrder
<1>4. /\ IsSequence(where) /\ Len(where) = Len(columns) /\ DOMAIN where = DOMAIN columns
      /\ \A i \in DOMAIN columns : where[i].column = columns[i]
  <2>1. first \in Int /\ IsSequence(columns)
    BY <1>0, <1>2
  <2> QED BY <1>0, <1>2, <2>1, PlaceholdersFacts
<1>5. where = <<>> <=> columns = <<>>
  BY <1>0, <1>2, <1>4, SequenceFacts
<1>6. \A r \in DOMAIN table.rows : \A i \in DOMAIN columns :
        Satisfies(table.rows[r], s, i) <=>
          call.args[i] # Null /\ table.rows[r][call.where[i]] = call.args[i]
  <2> SUFFICES ASSUME NEW r \in DOMAIN table.rows, NEW i \in DOMAIN columns
               PROVE  Satisfies(table.rows[r], s, i) <=>
                        call.args[i] # Null /\ table.rows[r][columns[i]] = call.args[i]
    BY <1>2
  <2>1. i \in 1 .. Len(columns)
    BY <1>1, <1>2
  <2>2. PICK k \in Nat : k = Len(sets) + i
    BY <1>1, <2>1
  <2>3. Argument(s, k) = call.args[i]
    BY <1>2, <1>3, <2>1, <2>2
  <2>4. Argument(s, Len(Sets(s)) + i) = call.args[i]
    BY <1>0, <2>2, <2>3
  <2> QED BY <1>2, <1>4, <2>4 DEF Satisfies
<1>7. SelectedBy(s, DOMAIN s.where) = Named(call, table.rows)
  BY <1>2, <1>4, <1>6 DEF SelectedBy, Named
<1> QED BY <1>2, <1>4, <1>5, <1>7

\* The one statement of an update, a deletion or a query.
LEMMA OneStatement ==
  ASSUME NEW call, NEW left, IsUnderWay(call, left)
  PROVE  /\ call.do = "Update" =>
              \E columns \in SetToSeqs(DOMAIN call.updates) : Head(left) = Update(call, columns)
         /\ call.do = "DeleteWithLimit" => call.where # <<>> /\ Head(left) = DeleteWithLimit(call)
         /\ call.do = "Fetch" => Head(left) = QueryData(call)
<1>1. PICK all \in Statements(call) : \E n \in DOMAIN all : left = SubSeq(all, n, Len(all))
  BY DEF IsUnderWay
<1>2. PICK n \in DOMAIN all : left = SubSeq(all, n, Len(all))
  BY <1>1
<1>3. IsSequence(all) /\ call \in Helpers
  BY HelperStatements DEF IsUnderWay
<1>4. Head(left) = all[n]
  BY <1>2, <1>3, Suffix
<1>5. ASSUME NEW s, all = <<s>>
      PROVE  Head(left) = s
  <2>1. DOMAIN <<s>> = {1} /\ <<s>>[1] = s
    BY One
  <2> QED BY <1>4, <1>5, <2>1
<1>6. ASSUME call.do = "Update"
      PROVE  \E columns \in SetToSeqs(DOMAIN call.updates) : Head(left) = Update(call, columns)
  <2>1. all # <<>>
    BY Empty
  <2>2. all \in {<<>>} \cup {<<Update(call, columns)>> : columns \in SetToSeqs(DOMAIN call.updates)}
    BY <1>6, StatementsOf
  <2>3. PICK columns \in SetToSeqs(DOMAIN call.updates) : all = <<Update(call, columns)>>
    BY <2>1, <2>2
  <2> QED BY <1>5, <2>3
<1>7. ASSUME call.do = "DeleteWithLimit"
      PROVE  call.where # <<>> /\ Head(left) = DeleteWithLimit(call)
  <2>1. all = <<DeleteWithLimit(call)>> /\ call.where # <<>>
    BY <1>7, StatementsOf
  <2> QED BY <1>5, <2>1
<1>8. ASSUME call.do = "Fetch"
      PROVE  Head(left) = QueryData(call)
  <2>1. all = <<QueryData(call)>>
    BY <1>8, StatementsOf
  <2> QED BY <1>5, <2>1
<1> QED BY <1>6, <1>7, <1>8

\* The condition of an update starts after what it sets.
LEMMA UpdateNames ==
  ASSUME NEW call, IsCall(call), call.do = "Update",
         NEW columns \in SetToSeqs(DOMAIN call.updates),
         NEW s, s = Update(call, columns), IsAccepted(s)
  PROVE  /\ Selected(s) = Named(call, table.rows) /\ call.where # <<>>
         /\ \A row : WithSets(row, s) =
              [c \in DOMAIN row |-> IF c \in DOMAIN call.updates THEN call.updates[c] ELSE row[c]]
<1>1. /\ IsFiniteSet(DOMAIN call.updates)
      /\ IsSequence(call.where) /\ IsSequence(call.args)
  BY DEF IsCall, AreValues
<1>2. /\ Cardinality(DOMAIN call.updates) \in Nat /\ IsSequence(columns)
      /\ Len(columns) = Cardinality(DOMAIN call.updates)
      /\ DOMAIN columns = 1 .. Cardinality(DOMAIN call.updates)
      /\ \A i \in DOMAIN columns : columns[i] \in DOMAIN call.updates
      /\ \A x \in DOMAIN call.updates : \E i \in DOMAIN columns : columns[i] = x
  BY <1>1, Orders
<1>3. PICK n \in Nat : n = Len(columns) /\ DOMAIN columns = 1 .. n
  BY <1>2
<1>4. PICK sets : sets = Placeholders(columns, 1)
  OBVIOUS
<1>5. /\ IsSequence(sets) /\ Len(sets) = n /\ DOMAIN sets = 1 .. n
      /\ \A k \in 1 .. n : sets[k].column = columns[k] /\ sets[k].ph \in {Question, k}
  <2>1. /\ IsSequence(sets) /\ Len(sets) = Len(columns) /\ DOMAIN sets = DOMAIN columns
        /\ \A k \in DOMAIN columns : sets[k].column = columns[k] /\ sets[k].ph \in {Question, 1 + k - 1}
    BY <1>2, <1>4, PlaceholdersFacts
  <2>2. \A k \in 1 .. n : 1 + k - 1 = k
    OBVIOUS
  <2> QED BY <1>3, <2>1, <2>2
<1>6. PICK first \in Nat : first = n + 1
  OBVIOUS
<1>7. PICK u, args : u = s /\ args = s.args
  OBVIOUS
<1>8. /\ Sets(u) = sets /\ Where(u) = u.where /\ u.sql = "UPDATE" /\ args = u.args
      /\ u.where = Placeholders(call.where, first)
  <2>1. LET v == Update(call, columns) IN
        /\ Sets(v) = Placeholders(columns, 1) /\ Where(v) = v.where /\ v.sql = "UPDATE"
        /\ v.where = Placeholders(call.where, Len(columns) + 1)
    BY DEF Update, Sets, Where
  <2> QED BY <1>3, <1>4, <1>6, <1>7, <2>1
<1>9. /\ Len(args) = n + Len(call.args)
      /\ \A i \in 1 .. n : args[i] = call.updates[columns[i]]
      /\ \A i \in 1 .. Len(call.args) : \A k \in Nat : k = n + i => args[k] = call.args[i]
  <2>1. /\ Len(Update(call, columns).args) = Len(columns) + Len(call.args)
        /\ \A i \in 1 .. Len(columns) : Update(call, columns).args[i] = call.updates[columns[i]]
        /\ \A i \in 1 .. Len(call.args) : \A k \in Nat :
             k = Len(columns) + i => Update(call, columns).args[k] = call.args[i]
    BY UpdateShape
  <2> QED BY <1>3, <1>7, <2>1
<1>10. IsNumbered(u, sets, call.where, first)
  BY <1>1, <1>5, <1>6, <1>8 DEF IsNumbered
<1>11. /\ Len(Sets(u) \o Where(u)) = Len(sets) + Len(call.where)
       /\ \A k \in 1 .. Len(sets) : Argument(u, k) = u.args[k]
  BY <1>10, ArgumentsInOrder
<1>12. Len(call.args) = Len(call.where)
  <2>1. Len(args) = Len(Sets(u) \o Where(u))
    BY <1>7, <1>8 DEF IsAccepted
  <2>2. Len(call.args) \in Nat /\ Len(call.where) \in Nat
    BY <1>1, SequenceFacts
  <2> QED BY <1>5, <1>9, <1>11, <2>1, <2>2
<1>13. \A i \in 1 .. Len(call.where) : \A k \in Nat : k = Len(sets) + i => u.args[k] = call.args[i]
  BY <1>5, <1>8, <1>9, <1>12
<1>14. /\ DOMAIN u.where = DOMAIN call.where /\ (u.where = <<>> <=> call.where = <<>>)
       /\ SelectedBy(u, DOMAIN u.where) = Named(call, table.rows)
  BY <1>10, <1>13, NamedRows
<1>15. u.where # <<>>
  BY <1>7, <1>8 DEF IsAccepted
<1>16. ASSUME NEW row
       PROVE  WithSets(row, u) =
                [c \in DOMAIN row |-> IF c \in DOMAIN call.updates THEN call.updates[c] ELSE row[c]]
  <2>1. PICK Value : Value = [c \in DOMAIN row |->
          LET here == {k \in DOMAIN sets : sets[k].column = c}
          IN  IF here = {} THEN row[c] ELSE Argument(u, CHOOSE k \in here : TRUE)]
    OBVIOUS
  <2>2. WithSets(row, u) = Value
    BY <1>8, <2>1 DEF WithSets
  <2>3. \A c \in DOMAIN row :
          Value[c] = IF c \in DOMAIN call.updates THEN call.updates[c] ELSE row[c]
    <3> SUFFICES ASSUME NEW c \in DOMAIN row
                 PROVE  Value[c] = IF c \in DOMAIN call.updates THEN call.updates[c] ELSE row[c]
      OBVIOUS
    <3>1. PICK here : here = {k \in DOMAIN sets : sets[k].column = c}
      OBVIOUS
    <3>2. Value[c] = IF here = {} THEN row[c] ELSE Argument(u, CHOOSE k \in here : TRUE)
      BY <2>1, <3>1
    <3>3. here # {} <=> c \in DOMAIN call.updates
      BY <1>2, <1>3, <1>5, <3>1
    <3>4. CASE here # {}
      <4>1. PICK k : k = CHOOSE x \in here : TRUE
        OBVIOUS
      <4>2. k \in here
        BY <3>4, <4>1
      <4>3. k \in 1 .. n /\ columns[k] = c
        BY <1>5, <3>1, <4>2
      <4>4. Argument(u, k) = call.updates[c]
        BY <1>5, <1>8, <1>9, <1>11, <4>3
      <4> QED BY <3>2, <3>3, <3>4, <4>1, <4>4
    <3> QED BY <3>2, <3>3, <3>4
  <2>4. DOMAIN Value = DOMAIN row /\ Value = [c \in DOMAIN row |-> Value[c]]
    BY <2>1
  <2> QED BY <2>2, <2>3, <2>4
<1>17. Selected(u) = Named(call, table.rows) /\ call.where # <<>>
  BY <1>14, <1>15 DEF Selected
<1> QED BY <1>7, <1>16, <1>17

\* The condition of a deletion or a query has the arguments of its call.
LEMMA ConditionNames ==
  ASSUME NEW call, IsCall(call), call.do \in {"DeleteWithLimit", "Fetch"},
         NEW s, s = IF call.do = "Fetch" THEN QueryData(call) ELSE DeleteWithLimit(call)
  PROVE  /\ DOMAIN s.where = DOMAIN call.where /\ (s.where = <<>> <=> call.where = <<>>)
         /\ SelectedBy(s, DOMAIN s.where) = Named(call, table.rows)
<1>1. IsSequence(call.where)
  BY DEF IsCall
<1>2. /\ Sets(s) = <<>> /\ Where(s) = s.where
      /\ s.where = Placeholders(call.where, 1) /\ s.args = call.args
  <2>1. LET q == QueryData(call) IN
        Sets(q) = <<>> /\ Where(q) = q.where
        /\ q.where = Placeholders(call.where, 1) /\ q.args = call.args
    BY DEF QueryData, Sets, Where
  <2>2. LET d == DeleteWithLimit(call) IN
        Sets(d) = <<>> /\ Where(d) = d.where
        /\ d.where = Placeholders(call.where, 1) /\ d.args = call.args
    BY DEF DeleteWithLimit, Sets, Where
  <2> QED BY <2>1, <2>2
<1>3. PICK sets : sets = <<>>
  OBVIOUS
<1>4. Sets(s) = sets /\ IsSequence(sets) /\ \A k \in 1 .. Len(sets) : sets[k].ph \in {Question, k}
  BY <1>2, <1>3, Empty
<1>5. PICK first \in Nat : first = 1
  OBVIOUS
<1>6. IsNumbered(s, sets, call.where, first)
  BY <1>1, <1>2, <1>3, <1>4, <1>5, Empty DEF IsNumbered
<1>7. \A i \in 1 .. Len(call.where) : \A k \in Nat : k = Len(sets) + i => s.args[k] = call.args[i]
  <2>1. \A i \in 1 .. Len(call.where) : Len(sets) + i = i
    BY <1>1, <1>3, Empty, SequenceFacts
  <2> QED BY <1>2, <2>1
<1> QED BY <1>6, <1>7, NamedRows

\* What a deletion with a limit removes of the rows that are named.
LEMMA LimitedRemovals ==
  ASSUME IsTable(table), NEW call, IsCall(call), call.do = "DeleteWithLimit", call.where # <<>>,
         NEW s, s = DeleteWithLimit(call), NEW gone \in Removals(s),
         NEW named, named = Named(call, table.rows)
  PROVE  /\ gone \subseteq named /\ named \subseteq DOMAIN table.rows
         /\ gone = named \/ (call.limit > 0 /\ Cardinality(gone) = call.limit)
         /\ call.limit > 0 => Cardinality(gone) <= call.limit
<1>1. /\ s.limit = call.limit /\ call.limit \in Int
      /\ s.limited = IF call.limit > 0 THEN DOMAIN call.where ELSE {}
  <2>1. LET d == DeleteWithLimit(call) IN
        d.limit = call.limit /\ d.limited = IF call.limit > 0 THEN DOMAIN call.where ELSE {}
    BY DEF DeleteWithLimit, Limited
  <2> QED BY <2>1 DEF IsCall
<1>2. /\ DOMAIN s.where = DOMAIN call.where /\ s.where # <<>>
      /\ SelectedBy(s, DOMAIN s.where) = named
  BY ConditionNames
<1>3. IsSequence(call.where)
  BY DEF IsCall
<1>4. DOMAIN call.where # {}
  <2>1. PICK n \in Nat : DOMAIN call.where = 1 .. n /\ n # 0
    BY <1>3, SequenceFacts
  <2>2. 1 \in 1 .. n
    BY <2>1
  <2> QED BY <2>1, <2>2
<1>5. SelectedBy(s, {}) = {}
  BY DEF SelectedBy
<1>6. named \subseteq DOMAIN table.rows
  BY DEF Named
<1>7. IsFiniteSet(named) /\ Cardinality(named) \in Nat
  BY <1>6, RowsAreFinite
<1>8. PICK few, all : /\ few = SelectedBy(s, s.limited)
                      /\ all = IF s.limited = {} THEN Selected(s)
                               ELSE SelectedBy(s, DOMAIN s.where \ s.limited)
  OBVIOUS
<1>9. PICK rows : rows \in SUBSET few /\ gone = all \cup rows
                  /\ Cardinality(rows) = IF Cardinality(few) < s.limit THEN Cardinality(few)
                                         ELSE s.limit
  BY <1>8 DEF Removals
<1>10. CASE call.limit > 0
  <2>1. few = named /\ all = {}
    <3>1. s.limited = DOMAIN s.where /\ DOMAIN s.where \ s.limited = {} /\ s.limited # {}
      BY <1>1, <1>2, <1>4, <1>10
    <3> QED BY <1>2, <1>5, <1>8, <3>1
  <2>2. gone = rows /\ gone \subseteq named
    BY <1>9, <2>1
  <2>3. Cardinality(gone) = IF Cardinality(named) < call.limit THEN Cardinality(named)
                            ELSE call.limit
    BY <1>1, <1>9, <2>1, <2>2
  <2>4. Cardinality(gone) = Cardinality(named) => gone = named
    BY <1>7, <2>2, FS_Subset
  <2>5. Cardinality(gone) <= call.limit
    BY <1>1, <1>7, <2>3
  <2> QED BY <1>6, <1>10, <2>2, <2>3, <2>4, <2>5
<1>11. CASE ~(call.limit > 0)
  <2>1. few = {} /\ all = Selected(s)
    BY <1>1, <1>5, <1>8, <1>11
  <2>2. gone = named
    BY <1>2, <1>9, <2>1 DEF Selected
  <2> QED BY <1>6, <1>11, <2>2
<1> QED BY <1>10, <1>11

\* Whatever tables, calls and drivers there are: no update, deletion or query that passes
\* concerns other rows than its condition names.
THEOREM NamedRowsOnly == Spec => OnlyNamedRowsChange
<1>1. ASSUME TypeOK, [Next]_vars, Returns({"Update", "DeleteWithLimit", "Fetch"})
      PROVE  NamedRowsChange
  <2>1. PICK call, left, s, t : call = h.call /\ left = h.left /\ s = Head(h.left) /\ t = table'
    OBVIOUS
  <2>2. call.do \in {"Update", "DeleteWithLimit", "Fetch"}
    BY <1>1, <2>1 DEF Returns
  <2>3. /\ IsUnderWay(h.call, h.left)
        /\ \/ Exec /\ (\/ table' \in After(Head(h.left))
                       \/ NameIsUsed(Head(h.left)) /\ UNCHANGED table)
           \/ Fetch /\ IsAccepted(Head(h.left))
    BY <1>1, ReturnSteps
  <2>4. IsUnderWay(call, left) /\ IsCall(call) /\ s = Head(left)
    BY <2>1, <2>3, CallsAssumption DEF IsUnderWay
  <2>5. (Fetch => s.sql = "SELECT") /\ (Exec => s.sql # "SELECT")
    BY <2>1 DEF Exec, Fetch
  <2>6. Fetch \/ t \in After(s) \/ NameIsUsed(s)
    BY <2>1, <2>3
  <2>7. s.sql \in {"UPDATE", "DELETE", "SELECT"} => ~NameIsUsed(s)
    BY DEF NameIsUsed
  <2>8. CASE call.do = "Update"
    <3>1. PICK columns \in SetToSeqs(DOMAIN call.updates) : s = Update(call, columns)
      BY <2>4, <2>8, OneStatement
    <3>2. s.sql = "UPDATE"
      <4>1. Update(call, columns).sql = "UPDATE"
        BY DEF Update
      <4> QED BY <3>1, <4>1
    <3>3. t \in After(s)
      BY <2>5, <2>6, <2>7, <3>2
    <3>4. /\ IsAccepted(s)
          /\ t = [table EXCEPT !.rows = [r \in DOMAIN table.rows |->
                    IF r \in Selected(s) THEN WithSets(table.rows[r], s) ELSE table.rows[r]]]
      BY <3>2, <3>3, AfterUpdate
    <3>5. /\ Selected(s) = Named(call, table.rows) /\ call.where # <<>>
          /\ \A row : WithSets(row, s) =
               [c \in DOMAIN row |-> IF c \in DOMAIN call.updates THEN call.updates[c] ELSE row[c]]
      BY <2>4, <2>8, <3>1, <3>4, UpdateNames
    <3>6. table = [columns |-> table.columns, indexes |-> table.indexes, rows |-> table.rows]
      BY <1>1 DEF TypeOK, IsTable
    <3>7. t.rows = [r \in DOMAIN table.rows |->
                      IF r \in Selected(s) THEN WithSets(table.rows[r], s) ELSE table.rows[r]]
      BY <3>4, <3>6
    <3> QED BY <2>1, <2>8, <3>5, <3>7 DEF NamedRowsChange
  <2>9. CASE call.do = "DeleteWithLimit"
    <3>1. call.where # <<>> /\ s = DeleteWithLimit(call)
      BY <2>4, <2>9, OneStatement
    <3>2. s.sql = "DELETE"
      <4>1. DeleteWithLimit(call).sql = "DELETE"
        BY DEF DeleteWithLimit
      <4> QED BY <3>1, <4>1
    <3>3. t \in After(s)
      BY <2>5, <2>6, <2>7, <3>2
    <3>4. PICK gone \in Removals(s) :
            t = [table EXCEPT !.rows = [r \in DOMAIN table.rows \ gone |-> table.rows[r]]]
      BY <3>2, <3>3, AfterDelete
    <3>5. PICK named : named = Named(call, table.rows)
      OBVIOUS
    <3>6. IsTable(table)
      BY <1>1 DEF TypeOK
    <3>7. /\ gone \subseteq named /\ named \subseteq DOMAIN table.rows
          /\ gone = named \/ (call.limit > 0 /\ Cardinality(gone) = call.limit)
          /\ call.limit > 0 => Cardinality(gone) <= call.limit
      BY <2>4, <2>9, <3>1, <3>5, <3>6, LimitedRemovals
    <3>8. t.rows = [r \in DOMAIN table.rows \ gone |-> table.rows[r]]
      BY <3>4, <3>6 DEF IsTable
    <3>9. /\ DOMAIN table.rows \ DOMAIN t.rows = gone
          /\ \A r \in DOMAIN t.rows : t.rows[r] = table.rows[r]
      BY <3>7, <3>8
    <3> QED BY <2>1, <2>9, <3>1, <3>5, <3>7, <3>9 DEF NamedRowsChange
  <2>10. CASE call.do = "Fetch"
    <3>1. s = QueryData(call)
      BY <2>4, <2>10, OneStatement
    <3>2. s.sql = "SELECT"
      <4>1. QueryData(call).sql = "SELECT"
        BY DEF QueryData
      <4> QED BY <3>1, <4>1
    <3>3. Fetch /\ IsAccepted(s)
      BY <2>1, <2>3, <2>5, <3>2
    <3>4. PICK ids : ids = Selected(s)
      OBVIOUS
    <3>5. table' = table /\ DOMAIN found'.rows = ids
      BY <2>1, <3>3, <3>4 DEF Fetch
    <3>6. /\ s.where = <<>> <=> call.where = <<>>
          /\ SelectedBy(s, DOMAIN s.where) = Named(call, table.rows)
      BY <2>4, <2>10, <3>1, ConditionNames
    <3>7. ids = IF call.where = <<>> THEN DOMAIN table.rows ELSE Named(call, table.rows)
      BY <3>4, <3>6 DEF Selected
    <3> QED BY <2>1, <2>10, <3>5, <3>7 DEF NamedRowsChange
  <2> QED BY <2>2, <2>8, <2>9, <2>10
<1>2. TypeOK /\ [Next]_vars =>
        [Returns({"Update", "DeleteWithLimit", "Fetch"}) => NamedRowsChange]_vars
  BY <1>1
<1> QED BY <1>2, TypeCorrect, PTL DEF Spec, OnlyNamedRowsChange
=============================================================================
