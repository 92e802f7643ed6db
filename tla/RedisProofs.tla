------------------------------ MODULE RedisProofs ------------------------------
(***************************************************************************)
(* Proofs about the Redis helpers.                                         *)
(***************************************************************************)
EXTENDS Redis, DocumentsProofs

(***************************************************************************)
(* Texts and the documents in them.                                        *)
(***************************************************************************)
LEMMA KindOfValue ==
  ASSUME NEW v, IsValue(v)
  PROVE  /\ v.kind \in {"null", "bool", "number", "string", "slice", "map"}
         /\ v.kind = "number" => v.n \in Int
BY DEF IsValue, IsScalar, IsContainer, Containers

LEMMA Decoding ==
  ASSUME NEW text, IsText(text), NEW doc \in Decode(text)
  PROVE  /\ Decode(text) = {doc}
         /\ IsValue(doc) /\ Floats(doc) = doc
<1>1. CASE text.kind = "text"
  BY <1>1 DEF Decode
<1>2. CASE text.kind = "exponent"
  <2>1. IsValue(Number(text.n))
    <3>1. Number(text.n).kind = "number" /\ Number(text.n).n = text.n /\ text.n \in Int
      BY <1>2 DEF Number, IsText
    <3> HIDE DEF Number
    <3> QED BY <3>1 DEF IsValue, IsScalar, IsContainer, Containers
  <2>2. Decode(text) = {Floats(Number(text.n))}
    BY <1>2 DEF Decode
  <2> QED BY <2>1, <2>2, FloatsOfValue
<1>3. CASE text.kind # "text" /\ text.kind # "exponent"
  <2>1. IsValue(text) /\ Decode(text) = {Floats(text)}
    BY <1>3 DEF Decode, IsText
  <2> QED BY <2>1, FloatsOfValue
<1> QED BY <1>1, <1>2, <1>3

LEMMA ValueIsText ==
  ASSUME NEW d, IsValue(d)
  PROVE  /\ IsText(d) /\ Decode(d) = {Floats(d)} /\ IsText(Format(d))
         /\ \A path : Values(d, path) = getValueByPath(Floats(d), path)
<1>1. d.kind # "text" /\ d.kind # "exponent" /\ (d.kind = "number" => d.n \in Int)
  BY KindOfValue
<1>2. IsText(d) /\ Decode(d) = {Floats(d)}
  BY <1>1 DEF IsText, Decode
<1>3. IsText(Format(d))
  <2>1. CASE IsNumber(d) /\ ~IsShort(Nearest(d.n))
    <3>1. Nearest(d.n) \in Int
      BY <1>1, <2>1, NearestIdempotent DEF IsNumber
    <3>2. Exponent(Nearest(d.n)).kind = "exponent" /\ Exponent(Nearest(d.n)).n = Nearest(d.n)
      BY DEF Exponent
    <3> QED BY <2>1, <3>1, <3>2 DEF Format, IsText
  <2>2. CASE ~(IsNumber(d) /\ ~IsShort(Nearest(d.n)))
    BY <1>2, <2>2 DEF Format
  <2> QED BY <2>1, <2>2
<1>4. \A path : Values(d, path) = getValueByPath(Floats(d), path)
  BY <1>2 DEF Values
<1> QED BY <1>2, <1>3, <1>4

\* A slice or a map of short numbers is printed like what is read back of it.
LEMMA ShortNumbersStay ==
  ASSUME NEW v, IsValue(v), IsContainer(v), HasShortNumbers(v)
  PROVE  Text(Floats(v)) = Text(v)
<1> DEFINE f == Floats(v)
<1>1. /\ IsContainer(f) /\ Inside(f) = Inside(v)
      /\ \A p : p = <<>> \/ p \in Inside(v) => NodeAt(f, p) = FloatNode(NodeAt(v, p))
  BY FloatsOfValue DEF IsContainer
<1> HIDE DEF f
<1>2. DOMAIN f.at = Inside(v) /\ DOMAIN v.at = Inside(v)
  BY <1>1 DEF Inside
<1>3. ASSUME NEW p \in Inside(v) \cup {<<>>}
      PROVE  /\ FloatNode(NodeAt(v, p)).kind = NodeAt(v, p).kind
             /\ ScalarText(FloatNode(NodeAt(v, p))) = ScalarText(NodeAt(v, p))
  <2>1. PICK x : x = NodeAt(v, p) /\ (IsScalar(x) \/ x \in [kind : Containers])
    BY NodesOfValue
  <2>2. FloatNode(x).kind = x.kind
    BY <2>1, FloatNodes
  <2>3. CASE IsNumber(x)
    <3>1. x.n \in Int /\ p # <<>>
      <4>1. p = <<>> => x = [kind |-> v.kind]
        BY <2>1 DEF NodeAt, Here
      <4> QED BY <2>1, <2>3, <4>1 DEF IsScalar, IsNumber, IsContainer, Containers
    <3>2. x = v.at[p] /\ p \in Inside(v)
      BY <2>1, <3>1 DEF NodeAt
    <3>3. IsShort(x.n)
      BY <2>3, <3>2 DEF HasShortNumbers
    <3>4. FloatIsExact(x.n)
      <4>1. PICK b \in Nat : b = binary[Precision]
        BY BinaryGrows, PrecisionAssumption
      <4> QED BY <3>1, <3>3, <4>1, MillionAssumption DEF IsShort, FloatIsExact
    <3>5. FloatNode(x) = Float(x.n)
      BY <2>3, <3>1, <3>4, ExactIsKept DEF FloatNode, ToFloat64
    <3>6. /\ ScalarText(x) = Decimal(x.n) \o (IF HasExponent(x) THEN <<"e+">> ELSE <<>>)
          /\ ~HasExponent(x)
      BY <2>3, <3>3 DEF ScalarText, HasExponent, IsNumber
    <3>7. ScalarText(Float(x.n)) = Decimal(x.n) \o <<>>
      <4>1. Float(x.n).kind = "number" /\ Float(x.n).n = x.n /\ ~HasExponent(Float(x.n))
        BY <3>3 DEF Float, HasExponent
      <4> HIDE DEF Float
      <4> QED BY <4>1 DEF ScalarText
    <3> QED BY <2>1, <2>2, <3>5, <3>6, <3>7
  <2>4. CASE ~IsNumber(x)
    BY <2>1, <2>4 DEF FloatNode
  <2> QED BY <2>3, <2>4
<1>4. PrintedNodes(f) = PrintedNodes(v)
  BY <1>1, <1>2, <1>3 DEF PrintedNodes
<1> QED BY <1>1, <1>4 DEF Text, f

\* The value that is read back matches the one that was set.
LEMMA FloatsMatch ==
  ASSUME NEW v, IsValue(v), HasShortNumbers(v)
  PROVE  Matches(Floats(v), v)
<1>1. Floats(v).kind = v.kind
  BY FloatsOfValue
<1>2. CASE IsNumber(v)
  <2>1. v.n \in Int /\ ~IsContainer(v)
    BY <1>2, KindOfValue DEF IsNumber, IsContainer, Containers
  <2>2. Floats(v) = Float(Nearest(v.n))
    BY <1>2, <2>1 DEF Floats, Each, FloatNode, ToFloat64
  <2>3. IsNumber(Float(Nearest(v.n))) /\ Float(Nearest(v.n)).n = Nearest(v.n)
    BY DEF Float, IsNumber
  <2>4. Nearest(Nearest(v.n)) = Nearest(v.n)
    BY <2>1, NearestIdempotent
  <2> QED BY <1>2, <2>2, <2>3, <2>4 DEF Matches, ToFloat64
<1>3. CASE ~IsNumber(v)
  <2>1. Text(Floats(v)) = Text(v)
    <3>1. CASE IsContainer(v)
      BY <3>1, ShortNumbersStay
    <3>2. CASE ~IsContainer(v)
      BY <1>3, <3>2 DEF Floats, Each, FloatNode
    <3> QED BY <3>1, <3>2
  <2> QED BY <1>1, <1>3, <2>1 DEF Matches, IsNumber
<1> QED BY <1>2, <1>3

\* Something is read, and an expectation of the value holds of it, unless the value is excepted.
Expects(vs, value) == \E v \in vs : HasShortNumbers(value) => Matches(v, value)
Holds(doc, path, value) == Expects(Values(doc, path), value)

\* The documents that SetJsonField and HSetJsonField may write.
Documents(doc, path, value) == {Marshal(d) : d \in setValueByPath(doc, path, value)}

\* What is read in a document after a field has been set in it.
LEMMA SetDocument ==
  ASSUME NEW text, IsText(text), NEW doc \in Decode(text), NEW path \in Paths,
         NEW value, IsValue(value), NEW m \in Documents(doc, path, value)
  PROVE  /\ IsValue(m)
         /\ ~SetsNothing(path) => Holds(m, path, value)
         /\ \A q \in Paths : Apart(q, path) \/ SetsNothing(path) => Values(m, q) = Values(text, q)
<1>0. PICK d \in setValueByPath(doc, path, value) : m = Marshal(d)
  BY DEF Documents
<1>1. IsValue(doc) /\ Floats(doc) = doc /\ Decode(text) = {doc}
  BY Decoding
<1>2. /\ IsValue(d) /\ IsReadable(path)
      /\ SetsNothing(path) => d = doc
      /\ ~SetsNothing(path) => /\ IsContainer(doc) /\ Position(path) \in Seq(Step) \ {<<>>}
                               /\ d = Replace(doc, Position(path), value)
  BY <1>1, SettingAField
<1>3. /\ IsValue(m)
      /\ \A q : Values(m, q) = getValueByPath(Floats(d), q) /\ Values(text, q) = getValueByPath(doc, q)
  <2>1. IsValue(m) /\ Floats(m) = Floats(d)
    BY <1>0, <1>2, MarshaledValue
  <2> QED BY <1>1, <2>1, ValueIsText DEF Values
<1>4. ASSUME ~SetsNothing(path) PROVE Holds(m, path, value)
  <2>1. Found(d, Position(path)) = {value}
    BY <1>1, <1>2, <1>4, ReplacedIsFound
  <2>2. Found(Floats(d), Position(path)) = {Floats(x) : x \in Found(d, Position(path))}
    BY <1>2, <1>4, FloatsOfFound
  <2>3. Values(m, path) = {Floats(value)}
    BY <1>2, <1>3, <2>1, <2>2 DEF getValueByPath
  <2> QED BY <2>3, FloatsMatch DEF Holds, Expects
<1>5. ASSUME NEW q \in Paths, Apart(q, path) \/ SetsNothing(path)
      PROVE  Values(m, q) = Values(text, q)
  <2>1. CASE SetsNothing(path)
    BY <1>1, <1>2, <1>3, <2>1
  <2>2. CASE ~SetsNothing(path)
    <3>1. Position(q) \in Seq(Step)
      BY Positions DEF Paths, Parts
    <3>2. ~IsPrefix(Position(q), Position(path)) /\ ~IsPrefix(Position(path), Position(q))
      BY <1>5, <2>2 DEF Apart
    <3>3. Found(d, Position(q)) = Found(doc, Position(q))
      BY <1>1, <1>2, <2>2, <3>1, <3>2, ApartIsKept
    <3>4. /\ Found(Floats(d), Position(q)) = {Floats(x) : x \in Found(d, Position(q))}
          /\ Found(Floats(doc), Position(q)) = {Floats(x) : x \in Found(doc, Position(q))}
      BY <1>1, <1>2, <3>1, FloatsOfFound
    <3>5. Found(Floats(d), Position(q)) = Found(doc, Position(q))
      BY <1>1, <3>3, <3>4
    <3> QED BY <1>3, <3>5 DEF getValueByPath
  <2> QED BY <2>1, <2>2
<1> QED BY <1>3, <1>4, <1>5
-----------------------------------------------------------------------------
(***************************************************************************)
(* Redis.                                                                  *)
(***************************************************************************)
Lifetimes == {"none", "short", "long"}

IsFields(fields) == /\ fields = [f \in DOMAIN fields |-> fields[f]]
                    /\ DOMAIN fields \subseteq Fields
                    /\ \A f \in DOMAIN fields : IsText(fields[f])

IsEntry(e) ==
  \/ e = Missing
  \/ /\ e.type = "string" /\ e = String(e.text, e.ttl)
     /\ IsText(e.text) /\ e.ttl \in Lifetimes
  \/ /\ e.type = "hash" /\ e = Hash(e.fields, e.ttl)
     /\ IsFields(e.fields) /\ e.ttl \in Lifetimes

StoreOK == /\ store = [key \in Keys |-> store[key]]
           /\ \A key \in Keys : IsEntry(store[key])

LEMMA Entries ==
  /\ IsEntry(Missing)
  /\ \A text, ttl : IsText(text) /\ ttl \in Lifetimes => IsEntry(String(text, ttl))
  /\ \A fields, ttl : IsFields(fields) /\ ttl \in Lifetimes => IsEntry(Hash(fields, ttl))
<1>1. ASSUME NEW text, NEW ttl, IsText(text), ttl \in Lifetimes PROVE IsEntry(String(text, ttl))
  <2> DEFINE e == String(text, ttl)
  <2>1. e.type = "string" /\ e.text = text /\ e.ttl = ttl
    BY DEF String
  <2> HIDE DEF e
  <2>2. e = String(e.text, e.ttl)
    BY <2>1 DEF e
  <2> QED BY <1>1, <2>1, <2>2 DEF IsEntry, e
<1>2. ASSUME NEW fields, NEW ttl, IsFields(fields), ttl \in Lifetimes PROVE IsEntry(Hash(fields, ttl))
  <2> DEFINE e == Hash(fields, ttl)
  <2>1. e.type = "hash" /\ e.fields = fields /\ e.ttl = ttl
    BY DEF Hash
  <2> HIDE DEF e
  <2>2. e = Hash(e.fields, e.ttl)
    BY <2>1 DEF e
  <2> QED BY <1>2, <2>1, <2>2 DEF IsEntry, e
<1> QED BY <1>1, <1>2 DEF IsEntry

LEMMA EntryFacts ==
  ASSUME NEW e, IsEntry(e)
  PROVE  /\ e.type \in {"none", "string", "hash"} /\ e.ttl \in Lifetimes
         /\ IsFields(FieldsOf(e))
         /\ e.type = "string" => IsText(e.text)
         /\ \A field : \A text \in Texts(e, field) : IsText(text) /\ Texts(e, field) = {text}
         /\ \A ttl \in Lifetimes : e.type # "none" => /\ IsEntry([e EXCEPT !.ttl = ttl])
                                                      /\ [e EXCEPT !.ttl = ttl].ttl = ttl
                                                      /\ [e EXCEPT !.ttl = ttl].type = e.type
                                                      /\ \A field : Texts([e EXCEPT !.ttl = ttl], field) = Texts(e, field)
<1>1. CASE e = Missing
  <2>1. e.type = "none" /\ e.ttl = "none"
    BY <1>1 DEF Missing
  <2>2. FieldsOf(e) = [f \in {} |-> Null]
    BY <2>1 DEF FieldsOf
  <2>3. IsFields([f \in {} |-> Null]) /\ DOMAIN [f \in {} |-> Null] = {}
    BY DEF IsFields
  <2>4. \A field : Texts(e, field) = {}
    BY <2>1, <2>2, <2>3 DEF Texts
  <2> QED BY <2>1, <2>2, <2>3, <2>4 DEF Lifetimes
<1>2. CASE /\ e.type = "string" /\ e = String(e.text, e.ttl)
           /\ IsText(e.text) /\ e.ttl \in Lifetimes
  <2>1. IsFields(FieldsOf(e))
    <3>1. FieldsOf(e) = [f \in {} |-> Null]
      BY <1>2 DEF FieldsOf
    <3> QED BY <3>1 DEF IsFields
  <2>2. ASSUME NEW ttl \in Lifetimes
        PROVE  /\ IsEntry([e EXCEPT !.ttl = ttl])
               /\ [e EXCEPT !.ttl = ttl].ttl = ttl /\ [e EXCEPT !.ttl = ttl].type = e.type
               /\ \A field : Texts([e EXCEPT !.ttl = ttl], field) = Texts(e, field)
    <3> DEFINE n == [e EXCEPT !.ttl = ttl]
    <3>1. n = String(e.text, ttl)
      BY <1>2 DEF String
    <3>2. n.type = "string" /\ n.text = e.text /\ n.ttl = ttl
      <4> HIDE DEF n
      <4> QED BY <3>1 DEF String
    <3> HIDE DEF n
    <3>3. IsEntry(n)
      BY <1>2, <3>1, Entries
    <3>4. \A field : Texts(n, field) = Texts(e, field)
      BY <1>2, <3>2 DEF Texts
    <3> QED BY <1>2, <3>2, <3>3, <3>4 DEF n
  <2>3. \A field : \A text \in Texts(e, field) : IsText(text) /\ Texts(e, field) = {text}
    BY <1>2 DEF Texts
  <2> QED BY <1>2, <2>1, <2>2, <2>3
<1>3. CASE /\ e.type = "hash" /\ e = Hash(e.fields, e.ttl)
           /\ IsFields(e.fields) /\ e.ttl \in Lifetimes
  <2>1. FieldsOf(e) = e.fields
    BY <1>3 DEF FieldsOf
  <2>2. ASSUME NEW ttl \in Lifetimes
        PROVE  /\ IsEntry([e EXCEPT !.ttl = ttl])
               /\ [e EXCEPT !.ttl = ttl].ttl = ttl /\ [e EXCEPT !.ttl = ttl].type = e.type
               /\ \A field : Texts([e EXCEPT !.ttl = ttl], field) = Texts(e, field)
    <3> DEFINE n == [e EXCEPT !.ttl = ttl]
    <3>1. n = Hash(e.fields, ttl)
      BY <1>3 DEF Hash
    <3>2. n.type = "hash" /\ n.fields = e.fields /\ n.ttl = ttl
      <4> HIDE DEF n
      <4> QED BY <3>1 DEF Hash
    <3> HIDE DEF n
    <3>3. IsEntry(n)
      BY <1>3, <3>1, Entries
    <3>4. \A field : Texts(n, field) = Texts(e, field)
      BY <1>3, <3>2 DEF Texts, FieldsOf
    <3> QED BY <1>3, <3>2, <3>3, <3>4 DEF n
  <2>3. \A field : \A text \in Texts(e, field) : IsText(text) /\ Texts(e, field) = {text}
    BY <1>3, <2>1 DEF Texts, IsFields
  <2> QED BY <1>3, <2>1, <2>2, <2>3
<1> QED BY <1>1, <1>2, <1>3 DEF IsEntry

\* What a command leaves alone keeps its text, and a string key that it leaves alone is kept.
LEMMA Executing ==
  ASSUME NEW c, IsCommand(c), StoreOK, Redis(c)
  PROVE  /\ StoreOK'
         /\ \A key \in Keys : \A field \in Fields \cup {""} : ~Touches(c, key, field) =>
              Texts(store[key], field)' = Texts(store[key], field)
         /\ \A key \in Keys : ~Touches(c, key, "") /\ store[key].type = "string" =>
              store'[key] = store[key]
<1> DEFINE Kept == /\ \A key \in Keys : \A field \in Fields \cup {""} : ~Touches(c, key, field) =>
                        Texts(store'[key], field) = Texts(store[key], field)
                   /\ \A key \in Keys : ~Touches(c, key, "") /\ store[key].type = "string" =>
                        store'[key] = store[key]
<1>1. CASE store' = store
  BY <1>1 DEF StoreOK
<1>2. ASSUME NEW key \in Keys, NEW e, IsEntry(e), c.key = key, store' = [store EXCEPT ![key] = e],
             \A field \in Fields \cup {""} : ~Touches(c, key, field) => Texts(e, field) = Texts(store[key], field),
             ~Touches(c, key, "") => store[key].type # "string"
      PROVE  StoreOK' /\ Kept
  <2>1. store'[key] = e /\ \A k \in Keys \ {key} : store'[k] = store[k]
    BY <1>2 DEF StoreOK
  <2>2. store' = [k \in Keys |-> store'[k]]
    BY <1>2 DEF StoreOK
  <2>3. \A k \in Keys : IsEntry(store'[k])
    BY <1>2, <2>1 DEF StoreOK
  <2>4. Kept
    BY <1>2, <2>1
  <2> HIDE DEF Kept
  <2> QED BY <2>2, <2>3, <2>4 DEF StoreOK
<1>3. CASE Reply(c) = {}
  BY <1>1, <1>3 DEF Redis
<1>4. CASE Reply(c) # {} /\ c.cmd = "SET"
  <2>1. c.key \in Keys /\ IsText(c.text) /\ c.expiration \in Int
    BY <1>4 DEF IsCommand
  <2> DEFINE e == String(c.text, Lifetime(store[c.key], c.expiration))
  <2>2. store' = [store EXCEPT ![c.key] = e]
    BY <1>4 DEF Redis, Effect
  <2>3. IsEntry(e)
    <3>1. Lifetime(store[c.key], c.expiration) \in Lifetimes
      BY <2>1, EntryFacts DEF Lifetime, StoreOK, Lifetimes
    <3> QED BY <2>1, <3>1, Entries
  <2>4. \A field : Touches(c, c.key, field)
    BY <1>4 DEF Touches
  <2> HIDE DEF e, Kept
  <2> QED BY <1>2, <2>1, <2>2, <2>3, <2>4 DEF Kept
<1>5. CASE Reply(c) # {} /\ c.cmd = "DEL"
  <2>1. c.key \in Keys
    BY <1>5 DEF IsCommand
  <2>2. store' = [store EXCEPT ![c.key] = Missing]
    BY <1>5 DEF Redis, Effect
  <2>3. \A field : Touches(c, c.key, field)
    BY <1>5 DEF Touches
  <2> HIDE DEF Kept
  <2> QED BY <1>2, <2>1, <2>2, <2>3, Entries DEF Kept
<1>6. CASE Reply(c) # {} /\ c.cmd = "FLUSHDB"
  <2>1. store' = [key \in Keys |-> Missing]
    BY <1>6 DEF Redis, Effect
  <2>2. \A key, field : Touches(c, key, field)
    BY <1>6 DEF Touches
  <2>3. StoreOK'
    BY <2>1, Entries DEF StoreOK
  <2> QED BY <2>2, <2>3
<1>7. CASE Reply(c) # {} /\ c.cmd \in {"HSET", "HINCRBY"}
  <2>1. c.key \in Keys /\ c.field \in Fields
    BY <1>7 DEF IsCommand
  <2>2. store[c.key].type # "string"
    BY <1>7 DEF Reply
  <2>3. PICK text : IsText(text) /\ store' = PutField(c, text)
    <3>1. CASE c.cmd = "HSET"
      BY <1>7, <3>1 DEF IsCommand, Redis, Effect
    <3>2. CASE c.cmd = "HINCRBY"
      <4> DEFINE n == CHOOSE n \in Reply(c) : TRUE
      <4>1. n \in Reply(c)
        BY <1>7
      <4>2. \A m \in Counter(store[c.key], c.field) : m \in Int
        <5>1. CASE c.field \notin DOMAIN FieldsOf(store[c.key])
          BY <5>1 DEF Counter
        <5>2. CASE c.field \in DOMAIN FieldsOf(store[c.key])
          <6>1. IsEntry(store[c.key]) /\ store[c.key].type = "hash"
            BY <2>1, <5>2, EntryFacts DEF StoreOK, FieldsOf
          <6> DEFINE text == store[c.key].fields[c.field]
          <6>2. IsText(text)
            BY <2>1, <5>2, <6>1, EntryFacts DEF IsFields, FieldsOf
          <6>3. IsNumber(text) => text.n \in Int
            <7> HIDE DEF text
            <7> QED BY <6>2, KindOfValue DEF IsText, IsNumber
          <6> QED BY <5>2, <6>3 DEF Counter
        <5> QED BY <5>1, <5>2
      <4>3. Reply(c) = {m + c.increment : m \in Counter(store[c.key], c.field)}
        BY <2>2, <3>2 DEF Reply
      <4>4. n \in Int
        BY <3>2, <4>1, <4>2, <4>3 DEF IsCommand
      <4>5. IsText(Number(n))
        <5> HIDE DEF n
        <5>1. Number(n).kind = "number" /\ Number(n).n = n
          BY DEF Number
        <5> QED BY <4>4, <5>1 DEF IsText, IsValue, IsContainer, IsScalar, Containers
      <4>6. store' = PutField(c, Number(n))
        BY <1>7, <3>2 DEF Redis, Effect
      <4> QED BY <4>5, <4>6
    <3> QED BY <1>7, <3>1, <3>2
  <2> DEFINE old == FieldsOf(store[c.key])
             fields == WithField(old, c.field, text)
             e == Hash(fields, store[c.key].ttl)
  <2>4. IsEntry(store[c.key]) /\ IsFields(old) /\ store[c.key].ttl \in Lifetimes
    BY <2>1, EntryFacts DEF StoreOK
  <2>5. /\ DOMAIN fields = DOMAIN old \cup {c.field}
        /\ fields[c.field] = text /\ \A f \in DOMAIN old \ {c.field} : fields[f] = old[f]
        /\ fields = [f \in DOMAIN fields |-> fields[f]]
    BY DEF WithField
  <2>6. IsFields(fields)
    <3> HIDE DEF fields, old
    <3> QED BY <2>1, <2>3, <2>4, <2>5 DEF IsFields
  <2>7. store' = [store EXCEPT ![c.key] = e]
    BY <2>3 DEF PutField
  <2>8. IsEntry(e) /\ e.type = "hash" /\ e.fields = fields
    <3> HIDE DEF fields
    <3> QED BY <2>4, <2>6, Entries DEF Hash
  <2>9. ASSUME NEW field \in Fields \cup {""}, ~Touches(c, c.key, field)
        PROVE  Texts(e, field) = Texts(store[c.key], field)
    <3>1. field # c.field
      BY <1>7, <2>9 DEF Touches
    <3>2. Texts(e, field) = IF field \in DOMAIN fields THEN {fields[field]} ELSE {}
      <4> HIDE DEF e, fields
      <4> QED BY <2>8 DEF Texts, FieldsOf
    <3>3. Texts(store[c.key], field) = IF field \in DOMAIN old THEN {old[field]} ELSE {}
      BY <2>2 DEF Texts, FieldsOf
    <3> HIDE DEF e, fields, old
    <3> QED BY <2>5, <3>1, <3>2, <3>3
  <2> HIDE DEF e, fields, old, Kept
  <2> QED BY <1>2, <2>1, <2>2, <2>7, <2>8, <2>9 DEF Kept
<1>8. CASE Reply(c) # {} /\ c.cmd \notin {"SET", "DEL", "FLUSHDB", "HSET", "HINCRBY"}
  BY <1>1, <1>8 DEF Redis, Effect
<1> QED BY <1>3, <1>4, <1>5, <1>6, <1>7, <1>8
-----------------------------------------------------------------------------
(***************************************************************************)
(* The helpers.                                                            *)
(***************************************************************************)
Setters == {"SetJsonField", "HSetJsonField"}

IsHelper ==
  /\ h = [name |-> h.op.name, op |-> h.op, at |-> h.at, doc |-> h.doc, ttl |-> h.ttl]
  /\ h.op \in Helpers
  /\ h.at \in {"first", "ttl", "write"} /\ h.ttl \in Int
  /\ h.at # "first" => h.name \in Setters /\ IsValue(h.doc)
  /\ h.at = "ttl" => h.name = "SetJsonField"

WrittenOK == \A f \in written : /\ f.key \in Keys /\ f.field \in Fields \cup {""}
                                /\ f.path \in Paths /\ IsValue(f.value)

\* The state has its type.
TypeOK ==
  /\ StoreOK
  /\ client \in {"none", "empty", "connected"}
  /\ h = NoHelper \/ IsHelper
  /\ outcome \in {"returned", "failed"}
  /\ \A c \in late : IsCommand(c)
  /\ calls \in 0 .. MaxCalls /\ timeouts \in 0 .. MaxTimeouts /\ appDone \in 0 .. MaxApp
  /\ alone \in BOOLEAN
  /\ WrittenOK

\* A helper that has read a document and set its field in it.
Setting == h # NoHelper /\ h.at \in {"ttl", "write"}

\* In the document under way are all the fields that must be there once it is written.
DocumentInv == Setting =>
  /\ ~SetsNothing(h.op.path) => Holds(h.doc, h.op.path, h.op.value)
  /\ \A f \in written : f.key = h.op.key =>
       /\ h.name = "SetJsonField" => f.field = ""
       /\ f.field = FieldOfHelper(h.op) /\ (Apart(f.path, h.op.path) \/ SetsNothing(h.op.path))
            => Holds(h.doc, f.path, f.value)

\* While nobody else touches its key, the document under way is the one there with the field
\* set, and the lifetime that has been read is the one there.
AloneInv == Setting /\ alone =>
  /\ \E text \in Texts(store[h.op.key], FieldOfHelper(h.op)) : \E doc \in Decode(text) :
       h.doc \in Documents(doc, h.op.path, h.op.value)
  /\ h.name = "SetJsonField" /\ h.at = "write" =>
       h.ttl \in {-1, 0, 1} /\ (h.ttl = -1 <=> store[h.op.key].ttl = "none")

\* Where a field has been set something is read, and what is expected of it unless excepted.
WrittenInv == \A f \in written : Expects(Reads(store[f.key], f.field, f.path), f.value)

Inv == TypeOK /\ WrittenInv /\ DocumentInv /\ AloneInv

LEMMA HelperFacts ==
  ASSUME IsHelper
  PROVE  /\ h # NoHelper /\ h.name = h.op.name /\ h.op \in Helpers
         /\ h.name \in {"ConnectRedis", "FlushAll"} \cup KeyHelpers \cup FieldHelpers
         /\ "key" \in DOMAIN h.op => h.op.key \in Keys /\ FieldOfHelper(h.op) \in Fields \cup {""}
         /\ h.name \in Setters => /\ "key" \in DOMAIN h.op /\ IsValue(h.op.value)
                                  /\ h.op.path \in Paths
         /\ h.name = "SetJsonField" => FieldOfHelper(h.op) = ""
         /\ h.name = "HSetJsonField" => h.op.field \in Fields /\ FieldOfHelper(h.op) = h.op.field
<1>1. h.name = h.op.name
  BY DEF IsHelper
<1>2. h.op \in Helpers
  BY DEF IsHelper
<1>3. /\ h.op.name \in {"ConnectRedis", "FlushAll"} \cup KeyHelpers \cup FieldHelpers
      /\ "key" \in DOMAIN h.op <=> h.op.name \in KeyHelpers \cup FieldHelpers
      /\ "key" \in DOMAIN h.op => h.op.key \in Keys
      /\ "field" \in DOMAIN h.op <=> h.op.name \in FieldHelpers
      /\ "field" \in DOMAIN h.op => h.op.field \in Fields
      /\ h.op.name \in {"Set", "HSet", "SetJsonField", "HSetJsonField"} => IsValue(h.op.value)
      /\ h.op.name \in {"SetJsonField", "HSetJsonField"} => "path" \in DOMAIN h.op
      /\ "path" \in DOMAIN h.op => h.op.path \in Paths
  BY <1>2, HelpersAssumption
<1>4. h # NoHelper
  BY <1>1, <1>3 DEF NoHelper, KeyHelpers, FieldHelpers
<1>5. FieldOfHelper(h.op) \in Fields \cup {""}
  BY <1>3 DEF FieldOfHelper
<1> QED BY <1>1, <1>2, <1>3, <1>4, <1>5 DEF Setters, KeyHelpers, FieldHelpers, FieldOfHelper

LEMMA CommandOfHelper ==
  ASSUME IsHelper
  PROVE  IsCommand(Command(h.op))
<1> DEFINE op == h.op
<1>1. /\ op.name \in {"ConnectRedis", "FlushAll"} \cup KeyHelpers \cup FieldHelpers
      /\ op.name \in KeyHelpers \cup FieldHelpers => op.key \in Keys
      /\ op.name \in FieldHelpers => op.field \in Fields
      /\ op.name \in {"Set", "HSet", "SetJsonField", "HSetJsonField"} => IsValue(op.value)
      /\ op.name = "Set" => op.expiration \in Int
      /\ op.name = "HIncrement" => op.increment \in Int
      /\ h.name = op.name
  BY HelpersAssumption DEF IsHelper
<1>2. h.at \in {"first", "ttl", "write"} /\ h.ttl \in Int /\ (h.at # "first" => IsText(h.doc))
  BY ValueIsText DEF IsHelper
<1>3. IsValue(op.value) => IsText(Format(op.value))
  BY ValueIsText
<1> HIDE DEF op
<1>4. CASE op.name \in {"ConnectRedis", "FlushAll", "Set", "Get", "ExpectValue", "ExpectJsonField",
                        "Del", "ExpectFound", "ExpectNotFound"}
  <2>1. CASE op.name = "ConnectRedis"
    <3>1. Command(op) = Ping
      BY <2>1 DEF Command
    <3> QED BY <2>1, <3>1 DEF IsCommand, Ping, op
  <2>2. CASE op.name = "FlushAll"
    <3>1. Command(op) = FlushDB
      BY <2>2 DEF Command
    <3> QED BY <2>2, <3>1 DEF IsCommand, FlushDB, op
  <2>3. CASE op.name = "Set"
    <3>1. Command(op) = Set(op.key, Format(op.value), op.expiration)
      BY <2>3 DEF Command
    <3> QED BY <1>1, <1>3, <2>3, <3>1 DEF IsCommand, Set, KeyHelpers, op
  <2>4. CASE op.name \in {"Get", "ExpectValue", "ExpectJsonField"}
    <3>1. Command(op) = Get(op.key)
      BY <2>4 DEF Command
    <3> QED BY <1>1, <2>4, <3>1 DEF IsCommand, Get, KeyHelpers, op
  <2>5. CASE op.name = "Del"
    <3>1. Command(op) = Del(op.key)
      BY <2>5 DEF Command
    <3> QED BY <1>1, <2>5, <3>1 DEF IsCommand, Del, KeyHelpers, op
  <2>6. CASE op.name \in {"ExpectFound", "ExpectNotFound"}
    <3>1. Command(op) = Exists(op.key)
      BY <2>6 DEF Command
    <3> QED BY <1>1, <2>6, <3>1 DEF IsCommand, Exists, KeyHelpers, op
  <2> QED BY <1>4, <2>1, <2>2, <2>3, <2>4, <2>5, <2>6
<1>5. CASE op.name \in {"HSet", "HGet", "HExpectJsonField", "HIncrement"}
  <2>1. CASE op.name = "HSet"
    <3>1. Command(op) = HSet(op.key, op.field, Format(op.value))
      BY <2>1 DEF Command
    <3> QED BY <1>1, <1>3, <2>1, <3>1 DEF IsCommand, HSet, FieldHelpers, op
  <2>2. CASE op.name \in {"HGet", "HExpectJsonField"}
    <3>1. Command(op) = HGet(op.key, op.field)
      BY <2>2 DEF Command
    <3> QED BY <1>1, <2>2, <3>1 DEF IsCommand, HGet, FieldHelpers, op
  <2>3. CASE op.name = "HIncrement"
    <3>1. Command(op) = HIncrBy(op.key, op.field, op.increment)
      BY <2>3 DEF Command
    <3> QED BY <1>1, <2>3, <3>1 DEF IsCommand, HIncrBy, FieldHelpers, op
  <2> QED BY <1>5, <2>1, <2>2, <2>3
<1>6. CASE op.name = "SetJsonField"
  <2>1. op.key \in Keys
    BY <1>1, <1>6 DEF KeyHelpers
  <2>2. CASE h.at = "first"
    <3>1. Command(op) = Get(op.key)
      BY <1>6, <2>2 DEF Command
    <3> QED BY <2>1, <3>1 DEF IsCommand, Get, op
  <2>3. CASE h.at = "ttl"
    <3>1. Command(op) = TTL(op.key)
      BY <1>6, <2>3 DEF Command
    <3> QED BY <2>1, <3>1 DEF IsCommand, TTL, op
  <2>4. CASE h.at = "write"
    <3>1. Command(op) = Set(op.key, h.doc, h.ttl)
      BY <1>6, <2>4 DEF Command
    <3> QED BY <1>2, <2>1, <2>4, <3>1 DEF IsCommand, Set, op
  <2> QED BY <1>2, <2>2, <2>3, <2>4
<1>7. CASE op.name = "HSetJsonField"
  BY <1>1, <1>2, <1>7 DEF Command, IsCommand, HGet, HSet, FieldHelpers, op
<1> QED BY <1>1, <1>4, <1>5, <1>6, <1>7 DEF KeyHelpers, FieldHelpers

LEMMA CommandOfSetter ==
  ASSUME IsHelper
  PROVE  /\ h.name = "SetJsonField" /\ h.at = "first" => Command(h.op) = Get(h.op.key)
         /\ h.name = "SetJsonField" /\ h.at = "ttl" => Command(h.op) = TTL(h.op.key)
         /\ h.name = "SetJsonField" /\ h.at = "write" => Command(h.op) = Set(h.op.key, h.doc, h.ttl)
         /\ h.name = "HSetJsonField" /\ h.at = "first" => Command(h.op) = HGet(h.op.key, h.op.field)
         /\ h.name = "HSetJsonField" /\ h.at # "first" => Command(h.op) = HSet(h.op.key, h.op.field, h.doc)
<1>1. h.op.name = h.name
  BY DEF IsHelper
<1> QED BY <1>1 DEF Command
-----------------------------------------------------------------------------
(***************************************************************************)
(* The invariant.                                                          *)
(***************************************************************************)
LEMMA FieldsSurvive ==
  ASSUME Inv, NEW c, IsCommand(c), Redis(c), Forget(c)
  PROVE  StoreOK' /\ WrittenOK' /\ WrittenInv' /\ written' \subseteq written
<1>1. /\ StoreOK'
      /\ \A key \in Keys : \A field \in Fields \cup {""} : ~Touches(c, key, field) =>
           Texts(store'[key], field) = Texts(store[key], field)
  BY Executing DEF Inv, TypeOK
<1>2. \A f \in written' : f \in written /\ ~Touches(c, f.key, f.field)
  BY DEF Forget
<1>3. ASSUME NEW f \in written' PROVE Expects(Reads(store'[f.key], f.field, f.path), f.value)
  <2>1. f.key \in Keys /\ f.field \in Fields \cup {""}
    BY <1>2 DEF Inv, TypeOK, WrittenOK
  <2>2. Reads(store'[f.key], f.field, f.path) = Reads(store[f.key], f.field, f.path)
    BY <1>1, <1>2, <2>1 DEF Reads
  <2> QED BY <1>2, <2>2 DEF Inv, WrittenInv
<1>4. WrittenInv'
  BY <1>3 DEF WrittenInv
<1> QED BY <1>1, <1>2, <1>4 DEF Inv, TypeOK, WrittenOK

LEMMA ForeignKeepsInv ==
  ASSUME Inv, NEW c, IsCommand(c), Foreign(c)
  PROVE  /\ StoreOK' /\ WrittenOK' /\ WrittenInv' /\ alone' \in BOOLEAN
         /\ DocumentInv' /\ AloneInv'
<1>1. StoreOK' /\ WrittenOK' /\ WrittenInv' /\ written' \subseteq written
  BY FieldsSurvive DEF Foreign
<1>2. h' = h /\ alone' = (alone /\ ~IsOurs(c)) /\ alone \in BOOLEAN
  BY DEF Foreign, Inv, TypeOK
<1>3. Setting' <=> Setting
  BY <1>2 DEF Setting
<1>4. DocumentInv'
  <2>1. DocumentInv
    BY DEF Inv
  <2> QED BY <1>1, <1>2, <1>3, <2>1 DEF DocumentInv
<1>5. ASSUME Setting, alone' PROVE AloneInv'
  <2>1. alone /\ ~IsOurs(c) /\ IsHelper
    BY <1>2, <1>5 DEF Setting, Inv, TypeOK
  <2>2. h.name \in Setters /\ h # NoHelper
    BY <1>5, <2>1 DEF Setting, IsHelper
  <2>3. /\ "key" \in DOMAIN h.op /\ h.op.key \in Keys /\ FieldOfHelper(h.op) \in Fields \cup {""}
        /\ h.name = "SetJsonField" => FieldOfHelper(h.op) = ""
    BY <2>1, <2>2, HelperFacts
  <2>4. ~Touches(c, h.op.key, FieldOfHelper(h.op))
    BY <2>1, <2>2, <2>3 DEF IsOurs
  <2>5. /\ Texts(store'[h.op.key], FieldOfHelper(h.op)) = Texts(store[h.op.key], FieldOfHelper(h.op))
        /\ ~Touches(c, h.op.key, "") /\ store[h.op.key].type = "string" =>
             store'[h.op.key] = store[h.op.key]
    BY <2>3, <2>4, Executing DEF Inv, TypeOK, Foreign
  <2>6. /\ \E text \in Texts(store[h.op.key], FieldOfHelper(h.op)) : \E doc \in Decode(text) :
             h.doc \in Documents(doc, h.op.path, h.op.value)
        /\ h.name = "SetJsonField" /\ h.at = "write" =>
             h.ttl \in {-1, 0, 1} /\ (h.ttl = -1 <=> store[h.op.key].ttl = "none")
    BY <1>5, <2>1 DEF Inv, AloneInv
  <2>7. h.name = "SetJsonField" => store[h.op.key].type = "string"
    <3>1. IsEntry(store[h.op.key]) /\ "" \notin DOMAIN FieldsOf(store[h.op.key])
      BY <2>3, EntryFacts, FieldsAssumption DEF Inv, TypeOK, StoreOK, IsFields
    <3> QED BY <2>3, <2>6, <3>1 DEF Texts
  <2>8. \E text \in Texts(store'[h'.op.key], FieldOfHelper(h'.op)) : \E doc \in Decode(text) :
          h'.doc \in Documents(doc, h'.op.path, h'.op.value)
    BY <1>2, <2>5, <2>6
  <2>9. h.name = "SetJsonField" => store'[h.op.key] = store[h.op.key]
    BY <2>3, <2>4, <2>5, <2>7
  <2>10. h'.name = "SetJsonField" /\ h'.at = "write" =>
           h'.ttl \in {-1, 0, 1} /\ (h'.ttl = -1 <=> store'[h'.op.key].ttl = "none")
    BY <1>2, <2>6, <2>9
  <2> QED BY <2>8, <2>10 DEF AloneInv
<1>6. ~(Setting /\ alone') => AloneInv'
  BY <1>3 DEF AloneInv
<1> QED BY <1>1, <1>2, <1>4, <1>5, <1>6

\* With h done or only begun, nothing is claimed of a document.
LEMMA NotSetting ==
  ASSUME h' = NoHelper \/ h'.at = "first"
  PROVE  DocumentInv' /\ AloneInv'
BY DEF DocumentInv, AloneInv, Setting

LEMMA InvInit == Init => Inv
<1> SUFFICES ASSUME Init PROVE Inv
  OBVIOUS
<1>1. StoreOK
  BY Entries DEF Init, StoreOK
<1>2. TypeOK
  BY <1>1, BoundsAssumption DEF Init, TypeOK, WrittenOK
<1> QED BY <1>2 DEF Init, Inv, WrittenInv, DocumentInv, AloneInv, Setting

LEMMA CallKeepsInv == Inv /\ Call => Inv'
<1> SUFFICES ASSUME Inv, Call PROVE Inv'
  OBVIOUS
<1>1. PICK op \in Helpers :
        IF op.name # "ConnectRedis" /\ client # "connected"
        THEN outcome' = "failed" /\ UNCHANGED <<h, alone>>
        ELSE /\ h' = [name |-> op.name, op |-> op, at |-> "first", doc |-> NoDoc, ttl |-> 0]
             /\ alone' = TRUE
             /\ UNCHANGED outcome
  BY DEF Call
<1>2. h = NoHelper /\ calls < MaxCalls /\ calls' = calls + 1
      /\ UNCHANGED <<store, client, late, timeouts, appDone, written>>
  BY DEF Call
<1>3. calls' \in 0 .. MaxCalls
  BY <1>2, BoundsAssumption DEF Inv, TypeOK
<1>4. /\ h' = NoHelper \/ IsHelper'
      /\ h' = NoHelper \/ h'.at = "first"
      /\ alone' \in BOOLEAN /\ outcome' \in {"returned", "failed"}
  <2>1. CASE op.name # "ConnectRedis" /\ client # "connected"
    BY <1>1, <1>2, <2>1 DEF Inv, TypeOK
  <2>2. CASE ~(op.name # "ConnectRedis" /\ client # "connected")
    <3>1. h' = [name |-> op.name, op |-> op, at |-> "first", doc |-> NoDoc, ttl |-> 0]
          /\ alone' = TRUE /\ outcome' = outcome
      BY <1>1, <2>2
    <3>2. h'.op = op /\ h'.name = op.name /\ h'.at = "first" /\ h'.doc = NoDoc /\ h'.ttl = 0
      BY <3>1
    <3>3. IsHelper'
      BY <3>1, <3>2 DEF IsHelper
    <3> QED BY <3>1, <3>2, <3>3 DEF Inv, TypeOK
  <2> QED BY <2>1, <2>2
<1>5. TypeOK'
  BY <1>2, <1>3, <1>4 DEF Inv, TypeOK, StoreOK, WrittenOK
<1>6. WrittenInv'
  BY <1>2 DEF Inv, WrittenInv
<1> QED BY <1>4, <1>5, <1>6, NotSetting DEF Inv

LEMMA DryRunKeepsInv == Inv /\ DryRun => Inv'
<1> SUFFICES ASSUME Inv, DryRun PROVE Inv'
  OBVIOUS
<1>1. /\ client' \in {"none", "empty", "connected"}
      /\ outcome' = "returned" /\ h' = NoHelper
      /\ UNCHANGED <<store, h, late, timeouts, appDone, alone, written>>
  BY DEF DryRun, Inv, TypeOK
<1>4. calls' \in 0 .. MaxCalls
  <2>1. calls < MaxCalls /\ calls' = calls + 1
    BY DEF DryRun
  <2> QED BY <2>1, BoundsAssumption DEF Inv, TypeOK
<1>2. TypeOK'
  BY <1>1, <1>4 DEF Inv, TypeOK, StoreOK, WrittenOK
<1>3. WrittenInv'
  BY <1>1 DEF Inv, WrittenInv
<1> QED BY <1>1, <1>2, <1>3, NotSetting DEF Inv

LEMMA SingleCommandKeepsInv == Inv /\ SingleCommand => Inv'
<1> SUFFICES ASSUME Inv, SingleCommand PROVE Inv'
  OBVIOUS
<1> DEFINE c == Command(h.op)
<1>1. h # NoHelper
  BY DEF SingleCommand, NoHelper
<1>2. IsHelper
  BY <1>1 DEF Inv, TypeOK
<1>3. IsCommand(c) /\ Redis(c) /\ Forget(c)
  BY <1>2, CommandOfHelper DEF SingleCommand
<1>4. /\ h' = NoHelper /\ outcome' \in {"returned", "failed"}
      /\ client' \in {"none", "empty", "connected"}
      /\ UNCHANGED <<late, calls, timeouts, appDone, alone>>
  BY DEF SingleCommand, Ends, Inv, TypeOK
<1> HIDE DEF c
<1>5. StoreOK' /\ WrittenOK' /\ WrittenInv'
  BY <1>3, FieldsSurvive
<1>6. TypeOK'
  BY <1>4, <1>5 DEF Inv, TypeOK
<1> QED BY <1>4, <1>5, <1>6, NotSetting DEF Inv
LEMMA ReadDocumentKeepsInv == Inv /\ ReadDocument => Inv'
<1> SUFFICES ASSUME Inv, ReadDocument PROVE Inv'
  OBVIOUS
<1> DEFINE field == FieldOfHelper(h.op)
           key == h.op.key
<1>1. /\ h.name \in Setters /\ h.at = "first"
      /\ UNCHANGED <<store, client, late, calls, timeouts, appDone, alone, written>>
  BY DEF ReadDocument, Setters
<1>2. h # NoHelper /\ IsHelper
  BY <1>1 DEF Inv, TypeOK, NoHelper, Setters
<1>3. /\ h.op \in Helpers /\ h.name = h.op.name /\ key \in Keys /\ field \in Fields \cup {""}
      /\ IsValue(h.op.value) /\ h.op.path \in Paths
      /\ h.name = "SetJsonField" => field = ""
      /\ h.name = "HSetJsonField" => h.op.field \in Fields /\ field = h.op.field
  BY <1>1, <1>2, HelperFacts
<1>4. WrittenInv'
  BY <1>1 DEF Inv, WrittenInv
<1>5. CASE Ends("failed")
  <2>1. h' = NoHelper /\ outcome' = "failed"
    BY <1>5 DEF Ends
  <2>2. TypeOK'
    BY <1>1, <2>1 DEF Inv, TypeOK, StoreOK, WrittenOK
  <2> QED BY <1>4, <2>1, <2>2, NotSetting DEF Inv
<1>6. CASE ~Ends("failed")
  <2>1. PICK d : /\ \E doc \in Updated : d = Marshal(doc)
                 /\ h' = [h EXCEPT !.at = IF h.name = "SetJsonField" THEN "ttl" ELSE "write",
                                    !.doc = d]
                 /\ outcome' = outcome
    BY <1>6 DEF ReadDocument
  <2>2. PICK text \in Reply(Command(h.op)) : \E doc \in Decode(text) :
          d \in Documents(doc, h.op.path, h.op.value)
    BY <2>1 DEF Updated, Documents
  <2>3. PICK doc \in Decode(text) : d \in Documents(doc, h.op.path, h.op.value)
    BY <2>2
  <2>4. IsEntry(store[key]) /\ DOMAIN FieldsOf(store[key]) \subseteq Fields
    BY <1>3, EntryFacts DEF Inv, TypeOK, StoreOK, IsFields
  <2>5. text \in Texts(store[key], field)
        /\ (h.name = "SetJsonField" => store[key].type = "string")
    <3>1. CASE h.name = "SetJsonField"
      <4>1. Command(h.op) = Get(key)
        BY <1>1, <1>2, <3>1, CommandOfSetter
      <4>2. Reply(Get(key)) = IF store[key].type = "string" THEN {store[key].text} ELSE {}
        BY DEF Reply, Get
      <4> QED BY <1>3, <2>2, <3>1, <4>1, <4>2 DEF Texts
    <3>2. CASE h.name = "HSetJsonField"
      <4>1. Command(h.op) = HGet(key, h.op.field)
        BY <1>1, <1>2, <3>2, CommandOfSetter
      <4>2. Reply(HGet(key, h.op.field)) =
              IF h.op.field \in DOMAIN FieldsOf(store[key]) THEN {store[key].fields[h.op.field]} ELSE {}
        BY DEF Reply, HGet
      <4>3. h.op.field \in DOMAIN FieldsOf(store[key]) /\ text = store[key].fields[h.op.field]
        BY <2>2, <4>1, <4>2
      <4>4. store[key].type = "hash"
        BY <4>3 DEF FieldsOf
      <4> QED BY <1>3, <3>2, <4>3, <4>4 DEF Texts
    <3> QED BY <1>1, <3>1, <3>2 DEF Setters
  <2>6. IsText(text) /\ Texts(store[key], field) = {text}
    BY <2>4, <2>5, EntryFacts
  <2>7. /\ IsValue(d)
        /\ ~SetsNothing(h.op.path) => Holds(d, h.op.path, h.op.value)
        /\ \A q \in Paths : Apart(q, h.op.path) \/ SetsNothing(h.op.path) =>
             Values(d, q) = Values(text, q)
    <3> DEFINE path == h.op.path
               value == h.op.value
    <3>1. path \in Paths /\ IsValue(value) /\ d \in Documents(doc, path, value)
      BY <1>3, <2>3
    <3> HIDE DEF path, value
    <3>2. /\ IsValue(d)
          /\ ~SetsNothing(path) => Holds(d, path, value)
          /\ \A q \in Paths : Apart(q, path) \/ SetsNothing(path) => Values(d, q) = Values(text, q)
      BY <2>3, <2>6, <3>1, SetDocument
    <3> QED BY <3>2 DEF path, value
  <2>8. /\ h'.op = h.op /\ h'.name = h.name /\ h'.doc = d /\ h'.ttl = h.ttl
        /\ h'.at = IF h.name = "SetJsonField" THEN "ttl" ELSE "write"
        /\ h' = [name |-> h.name, op |-> h.op, at |-> h'.at, doc |-> d, ttl |-> h.ttl]
    <3>1. h = [name |-> h.op.name, op |-> h.op, at |-> h.at, doc |-> h.doc, ttl |-> h.ttl]
      BY <1>2 DEF IsHelper
    <3> QED BY <1>3, <2>1, <3>1
  <2>9. IsHelper'
    <3>1. h' = [name |-> h'.op.name, op |-> h'.op, at |-> h'.at, doc |-> h'.doc, ttl |-> h'.ttl]
      BY <1>3, <2>8
    <3>2. h.ttl \in Int
      BY <1>2 DEF IsHelper
    <3> QED BY <1>1, <1>3, <2>7, <2>8, <3>1, <3>2 DEF IsHelper
  <2>10. TypeOK'
    BY <1>1, <2>1, <2>9 DEF Inv, TypeOK, StoreOK, WrittenOK
  <2>11. DocumentInv'
    <3>1. ASSUME NEW f \in written, f.key = key
          PROVE  /\ h.name = "SetJsonField" => f.field = ""
                 /\ f.field = field /\ (Apart(f.path, h.op.path) \/ SetsNothing(h.op.path))
                      => Holds(d, f.path, f.value)
      <4>1. PICK v \in Reads(store[key], f.field, f.path) :
              HasShortNumbers(f.value) => Matches(v, f.value)
        BY <3>1 DEF Inv, WrittenInv, Expects
      <4>2. f.path \in Paths
        BY DEF Inv, TypeOK, WrittenOK
      <4>3. h.name = "SetJsonField" => f.field = ""
        BY <2>5, <4>1 DEF Reads, Texts
      <4>4. f.field = field => v \in Values(text, f.path)
        BY <2>6, <4>1 DEF Reads
      <4> QED BY <2>7, <4>1, <4>2, <4>3, <4>4 DEF Holds, Expects
    <3> QED BY <1>1, <2>7, <2>8, <3>1 DEF DocumentInv
  <2>12. AloneInv'
    <3>1. ~(h'.name = "SetJsonField" /\ h'.at = "write")
      BY <2>8
    <3>2. \E t \in Texts(store'[h'.op.key], FieldOfHelper(h'.op)) : \E x \in Decode(t) :
            h'.doc \in Documents(x, h'.op.path, h'.op.value)
      BY <1>1, <2>3, <2>5, <2>8
    <3> QED BY <3>1, <3>2 DEF AloneInv
  <2> QED BY <1>4, <2>10, <2>11, <2>12 DEF Inv
<1> QED BY <1>5, <1>6

LEMMA ReadTTLKeepsInv == Inv /\ ReadTTL => Inv'
<1> SUFFICES ASSUME Inv, ReadTTL PROVE Inv'
  OBVIOUS
<1>1. /\ h.name = "SetJsonField" /\ h.at = "ttl"
      /\ UNCHANGED <<store, client, outcome, late, calls, timeouts, appDone, alone, written>>
  BY DEF ReadTTL
<1>2. h # NoHelper /\ IsHelper
  BY <1>1 DEF Inv, TypeOK, NoHelper
<1>3. h.op.key \in Keys /\ h.name = h.op.name /\ FieldOfHelper(h.op) = ""
  BY <1>1, <1>2, HelperFacts DEF Setters
<1>4. Command(h.op) = TTL(h.op.key)
  BY <1>1, <1>2, CommandOfSetter
<1>5. Reply(TTL(h.op.key)) = {TimeToLive(store[h.op.key])}
  BY DEF Reply, TTL
<1>6. h' = [h EXCEPT !.at = "write", !.ttl = TimeToLive(store[h.op.key])]
  BY <1>4, <1>5 DEF ReadTTL
<1>7. IsEntry(store[h.op.key])
  BY <1>3 DEF Inv, TypeOK, StoreOK
<1>8. /\ TimeToLive(store[h.op.key]) \in {-2, -1, 0, 1}
      /\ store[h.op.key].type = "string" =>
           /\ TimeToLive(store[h.op.key]) # -2
           /\ TimeToLive(store[h.op.key]) = -1 <=> store[h.op.key].ttl = "none"
  BY <1>7, EntryFacts DEF TimeToLive, Lifetimes
<1>9. /\ h'.op = h.op /\ h'.name = h.name /\ h'.doc = h.doc /\ h'.at = "write"
      /\ h'.ttl = TimeToLive(store[h.op.key])
      /\ h' = [name |-> h.name, op |-> h.op, at |-> "write", doc |-> h.doc, ttl |-> h'.ttl]
  <2>1. h = [name |-> h.op.name, op |-> h.op, at |-> h.at, doc |-> h.doc, ttl |-> h.ttl]
    BY <1>2 DEF IsHelper
  <2> QED BY <1>3, <1>6, <2>1
<1>10. IsHelper'
  <2>1. h' = [name |-> h'.op.name, op |-> h'.op, at |-> h'.at, doc |-> h'.doc, ttl |-> h'.ttl]
    BY <1>3, <1>9
  <2>2. h.op \in Helpers /\ h.name \in Setters /\ IsValue(h.doc)
    BY <1>1, <1>2 DEF IsHelper
  <2>3. h'.ttl \in Int
    BY <1>8, <1>9
  <2> QED BY <1>9, <2>1, <2>2, <2>3 DEF IsHelper
<1>11. TypeOK'
  BY <1>1, <1>10 DEF Inv, TypeOK, StoreOK, WrittenOK
<1>12. WrittenInv'
  BY <1>1 DEF Inv, WrittenInv
<1>13. Setting
  BY <1>1, <1>2 DEF Setting
<1>14. DocumentInv'
  <2>1. DocumentInv
    BY DEF Inv
  <2> QED BY <1>1, <1>9, <1>13, <2>1 DEF DocumentInv
<1>15. ASSUME alone PROVE AloneInv'
  <2>1. \E text \in Texts(store[h.op.key], FieldOfHelper(h.op)) : \E doc \in Decode(text) :
          h.doc \in Documents(doc, h.op.path, h.op.value)
    BY <1>13, <1>15 DEF Inv, AloneInv
  <2>2. store[h.op.key].type = "string"
    <3>1. Texts(store[h.op.key], "") # {}
      BY <1>3, <2>1
    <3>2. "" \notin DOMAIN FieldsOf(store[h.op.key])
      BY <1>7, EntryFacts, FieldsAssumption DEF IsFields
    <3> QED BY <3>1, <3>2 DEF Texts
  <2>3. \E text \in Texts(store'[h'.op.key], FieldOfHelper(h'.op)) : \E doc \in Decode(text) :
          h'.doc \in Documents(doc, h'.op.path, h'.op.value)
    BY <1>1, <1>9, <2>1
  <2>4. h'.ttl \in {-1, 0, 1} /\ (h'.ttl = -1 <=> store'[h'.op.key].ttl = "none")
    BY <1>1, <1>8, <1>9, <2>2
  <2> QED BY <2>3, <2>4 DEF AloneInv
<1>16. ~alone => AloneInv'
  BY <1>1 DEF AloneInv
<1> QED BY <1>11, <1>12, <1>14, <1>15, <1>16 DEF Inv

LEMMA TimeOutKeepsInv == Inv /\ TimeOut => Inv'
<1> SUFFICES ASSUME Inv, TimeOut PROVE Inv'
  OBVIOUS
<1>1. /\ h # NoHelper /\ timeouts < MaxTimeouts /\ timeouts' = timeouts + 1
      /\ late' \in {late, late \cup {Command(h.op)}}
      /\ h' = NoHelper /\ outcome' = "failed"
      /\ UNCHANGED <<store, client, calls, appDone, alone, written>>
  BY DEF TimeOut, Ends
<1>2. IsCommand(Command(h.op))
  BY <1>1, CommandOfHelper DEF Inv, TypeOK
<1>3. \A c \in late' : IsCommand(c)
  BY <1>1, <1>2 DEF Inv, TypeOK
<1>4. timeouts' \in 0 .. MaxTimeouts
  BY <1>1, BoundsAssumption DEF Inv, TypeOK
<1>5. TypeOK'
  BY <1>1, <1>3, <1>4 DEF Inv, TypeOK, StoreOK, WrittenOK
<1>6. WrittenInv'
  BY <1>1 DEF Inv, WrittenInv
<1> QED BY <1>1, <1>5, <1>6, NotSetting DEF Inv

LEMMA OthersKeepInv == Inv /\ (LateCommand \/ Application) => Inv'
<1>1. ASSUME Inv, LateCommand PROVE Inv'
  <2>1. PICK c \in late : late' = late \ {c} /\ Foreign(c) /\ appDone' = appDone
    BY <1>1 DEF LateCommand
  <2>2. IsCommand(c)
    BY <1>1 DEF Inv, TypeOK
  <2>3. /\ StoreOK' /\ WrittenOK' /\ WrittenInv' /\ alone' \in BOOLEAN
        /\ DocumentInv' /\ AloneInv'
    BY <1>1, <2>1, <2>2, ForeignKeepsInv
  <2>4. UNCHANGED <<client, h, outcome, calls, timeouts, appDone>>
    BY <2>1 DEF Foreign
  <2>5. h' = NoHelper \/ IsHelper'
    BY <1>1, <2>4 DEF Inv, TypeOK, IsHelper
  <2>6. TypeOK'
    BY <1>1, <2>1, <2>3, <2>4, <2>5 DEF Inv, TypeOK
  <2> QED BY <2>3, <2>6 DEF Inv
<1>2. ASSUME Inv, Application PROVE Inv'
  <2>1. PICK c \in AppCommands : Foreign(c)
    BY <1>2 DEF Application
  <2>2. IsCommand(c)
    BY CommandsAssumption
  <2>3. /\ StoreOK' /\ WrittenOK' /\ WrittenInv' /\ alone' \in BOOLEAN
        /\ DocumentInv' /\ AloneInv'
    BY <1>2, <2>1, <2>2, ForeignKeepsInv
  <2>4. UNCHANGED <<client, h, outcome, calls, timeouts, late>>
    BY <1>2, <2>1 DEF Foreign, Application
  <2>5. h' = NoHelper \/ IsHelper'
    BY <1>2, <2>4 DEF Inv, TypeOK, IsHelper
  <2>6. appDone' \in 0 .. MaxApp
    <3>1. appDone < MaxApp /\ appDone' = appDone + 1
      BY <1>2 DEF Application
    <3> QED BY <1>2, <3>1, BoundsAssumption DEF Inv, TypeOK
  <2>7. TypeOK'
    BY <1>2, <2>1, <2>3, <2>4, <2>5, <2>6 DEF Inv, TypeOK
  <2> QED BY <2>3, <2>7 DEF Inv
<1> QED BY <1>1, <1>2
\* What a helper has written is there, under the lifetime that it sends.
LEMMA Writing ==
  ASSUME Inv, WriteDocument, Reply(Command(h.op)) # {}
  PROVE  /\ Texts(store'[h.op.key], FieldOfHelper(h.op)) = {h.doc}
         /\ store'[h.op.key].ttl = IF h.name = "SetJsonField" THEN Lifetime(store[h.op.key], h.ttl)
                                   ELSE store[h.op.key].ttl
<1> DEFINE key == h.op.key
           field == FieldOfHelper(h.op)
           c == Command(h.op)
<1>1. h.name \in Setters /\ h.at = "write" /\ Redis(c) /\ h # NoHelper /\ IsHelper
  BY DEF WriteDocument, Setters, Inv, TypeOK, NoHelper
<1>2. /\ key \in Keys
      /\ h.name = "SetJsonField" => field = ""
      /\ h.name = "HSetJsonField" => h.op.field \in Fields /\ field = h.op.field
  BY <1>1, HelperFacts
<1>3. store' = Effect(c) /\ store = [k \in Keys |-> store[k]]
  BY <1>1 DEF Redis, Inv, TypeOK, StoreOK
<1>4. CASE h.name = "SetJsonField"
  <2> DEFINE e == String(h.doc, Lifetime(store[key], h.ttl))
  <2>1. c = Set(key, h.doc, h.ttl)
    BY <1>1, <1>4, CommandOfSetter
  <2>2. Effect(Set(key, h.doc, h.ttl)) = [store EXCEPT ![key] = e]
    BY DEF Effect, Set
  <2>3. e.type = "string" /\ e.text = h.doc /\ e.ttl = Lifetime(store[key], h.ttl)
    BY DEF String
  <2> HIDE DEF e
  <2>4. store'[key] = e
    BY <1>2, <1>3, <2>1, <2>2
  <2> QED BY <1>2, <1>4, <2>3, <2>4 DEF Texts
<1>5. CASE h.name = "HSetJsonField"
  <2> DEFINE fields == WithField(FieldsOf(store[key]), h.op.field, h.doc)
             e == Hash(fields, store[key].ttl)
  <2>1. c = HSet(key, h.op.field, h.doc)
    BY <1>1, <1>5, CommandOfSetter
  <2>2. Effect(HSet(key, h.op.field, h.doc)) = [store EXCEPT ![key] = e]
    BY DEF Effect, HSet, PutField
  <2>3. h.op.field \in DOMAIN fields /\ fields[h.op.field] = h.doc
    BY DEF WithField
  <2> HIDE DEF fields
  <2>4. e.type = "hash" /\ e.fields = fields /\ e.ttl = store[key].ttl
    BY DEF Hash
  <2> HIDE DEF e
  <2>5. store'[key] = e
    BY <1>2, <1>3, <2>1, <2>2
  <2> QED BY <1>2, <1>5, <2>3, <2>4, <2>5 DEF Texts, FieldsOf
<1> QED BY <1>1, <1>4, <1>5 DEF Setters

LEMMA WriteDocumentKeepsInv == Inv /\ WriteDocument => Inv'
<1> SUFFICES ASSUME Inv, WriteDocument PROVE Inv'
  OBVIOUS
<1> DEFINE key == h.op.key
           field == FieldOfHelper(h.op)
           c == Command(h.op)
<1>1. /\ h.name \in Setters /\ h.at = "write" /\ Redis(c) /\ h # NoHelper /\ IsHelper
      /\ UNCHANGED <<client, late, calls, timeouts, appDone, alone>>
  BY DEF WriteDocument, Setters, Inv, TypeOK, NoHelper
<1>2. /\ key \in Keys /\ field \in Fields \cup {""} /\ h.op.path \in Paths /\ IsValue(h.op.value)
      /\ h.name = "SetJsonField" => field = ""
      /\ h.name = "HSetJsonField" => h.op.field \in Fields /\ field = h.op.field
  BY <1>1, HelperFacts
<1>3. h' = NoHelper /\ outcome' \in {"returned", "failed"}
  BY DEF WriteDocument, Ends
<1>4. /\ StoreOK'
      /\ \A k \in Keys : \A g \in Fields \cup {""} : ~Touches(c, k, g) =>
           Texts(store'[k], g) = Texts(store[k], g)
  BY <1>1, CommandOfHelper, Executing DEF Inv, TypeOK
<1>5. Setting
  BY <1>1 DEF Setting
<1>6. CASE Reply(c) = {}
  <2>1. store' = store /\ written' = written
    BY <1>6 DEF WriteDocument, Redis
  <2>2. WrittenInv'
    BY <2>1 DEF Inv, WrittenInv
  <2>3. TypeOK'
    BY <1>1, <1>3, <1>4, <2>1 DEF Inv, TypeOK, WrittenOK
  <2> QED BY <1>3, <2>2, <2>3, NotSetting DEF Inv
<1>7. CASE Reply(c) # {}
  <2>1. Remember(h.op)
    BY <1>7 DEF WriteDocument
  <2>2. Texts(store'[key], field) = {h.doc}
    BY <1>7, Writing
  <2>3. \A path, value : Holds(h.doc, path, value) =>
          Expects(Reads(store'[key], field, path), value)
    BY <2>2 DEF Reads, Holds
  <2>4. \A k, g : Touches(c, k, g) => k = key /\ (h.name = "HSetJsonField" => g = field)
    <3>1. CASE h.name = "SetJsonField"
      <4>1. c = Set(key, h.doc, h.ttl)
        BY <1>1, <3>1, CommandOfSetter
      <4> QED BY <3>1, <4>1 DEF Touches, Set
    <3>2. CASE h.name = "HSetJsonField"
      <4>1. c = HSet(key, h.op.field, h.doc)
        BY <1>1, <3>2, CommandOfSetter
      <4>2. \A k, g : Touches(HSet(key, h.op.field, h.doc), k, g) <=> key = k /\ h.op.field = g
        BY DEF Touches, HSet
      <4> QED BY <1>2, <3>2, <4>1, <4>2
    <3> QED BY <1>1, <3>1, <3>2 DEF Setters
  <2>5. ASSUME NEW f \in written,
               \/ f.key # key \/ f.field # field
               \/ Apart(f.path, h.op.path) \/ SetsNothing(h.op.path)
        PROVE  Expects(Reads(store'[f.key], f.field, f.path), f.value)
    <3>1. f.key \in Keys /\ f.field \in Fields \cup {""}
      BY DEF Inv, TypeOK, WrittenOK
    <3>2. f.key = key /\ h.name = "SetJsonField" => f.field = ""
      BY <1>5 DEF Inv, DocumentInv
    <3>3. CASE f.key = key /\ f.field = field
      <4>1. Holds(h.doc, f.path, f.value)
        BY <1>5, <2>5, <3>3 DEF Inv, DocumentInv
      <4> QED BY <2>3, <3>3, <4>1
    <3>4. CASE f.key # key \/ f.field # field
      <4>1. ~Touches(c, f.key, f.field)
        BY <1>1, <1>2, <2>4, <3>2, <3>4 DEF Setters
      <4>2. Texts(store'[f.key], f.field) = Texts(store[f.key], f.field)
        BY <1>4, <3>1, <4>1
      <4>3. Reads(store'[f.key], f.field, f.path) = Reads(store[f.key], f.field, f.path)
        BY <4>2 DEF Reads
      <4> QED BY <4>3 DEF Inv, WrittenInv
    <3> QED BY <3>3, <3>4
  <2> DEFINE new == [key |-> key, field |-> field, path |-> h.op.path, value |-> h.op.value]
  <2>6. ~SetsNothing(h.op.path) =>
          Expects(Reads(store'[new.key], new.field, new.path), new.value)
    BY <1>5, <2>3 DEF Inv, DocumentInv
  <2>7. \A f \in written' : \/ f = new /\ ~SetsNothing(h.op.path)
                            \/ /\ f \in written
                               /\ \/ f.key # key \/ f.field # field
                                  \/ Apart(f.path, h.op.path) \/ SetsNothing(h.op.path)
    BY <2>1 DEF Remember
  <2>8. \A f \in written' : Expects(Reads(store'[f.key], f.field, f.path), f.value)
    <3> HIDE DEF new
    <3> QED BY <2>5, <2>6, <2>7
  <2>9. WrittenInv'
    BY <2>8 DEF WrittenInv
  <2>10. WrittenOK'
    <3>1. new.key \in Keys /\ new.field \in Fields \cup {""} /\ new.path \in Paths /\ IsValue(new.value)
      BY <1>2
    <3> HIDE DEF new
    <3> QED BY <2>7, <3>1 DEF Inv, TypeOK, WrittenOK
  <2>11. TypeOK'
    BY <1>1, <1>3, <1>4, <2>10 DEF Inv, TypeOK
  <2> QED BY <1>3, <2>9, <2>11, NotSetting DEF Inv
<1> QED BY <1>6, <1>7

LEMMA ExpireKeepsInv == Inv /\ Expire => Inv'
<1> SUFFICES ASSUME Inv, Expire PROVE Inv'
  OBVIOUS
<1>1. PICK key \in Keys :
        /\ store[key].ttl # "none"
        /\ IF store[key].ttl = "long"
           THEN store' = [store EXCEPT ![key].ttl = "short"] /\ UNCHANGED <<alone, written>>
           ELSE /\ store' = [store EXCEPT ![key] = Missing]
                /\ written' = {f \in written : f.key # key}
                /\ alone' = (alone /\ ~IsOurs(Del(key)))
  BY DEF Expire
<1>2. UNCHANGED <<client, h, outcome, late, calls, timeouts, appDone>>
  BY DEF Expire
<1>3. store = [k \in Keys |-> store[k]] /\ \A k \in Keys : IsEntry(store[k])
  BY DEF Inv, TypeOK, StoreOK
<1>4. /\ h' = NoHelper \/ IsHelper'
      /\ Setting' <=> Setting
      /\ alone' \in BOOLEAN /\ (alone' => alone)
      /\ written' \subseteq written
  BY <1>1, <1>2 DEF Inv, TypeOK, IsHelper, Setting
<1>5. DocumentInv'
  <2>1. DocumentInv
    BY DEF Inv
  <2> QED BY <1>2, <1>4, <2>1 DEF DocumentInv
<1>6. ASSUME Setting
      PROVE  /\ h.op.key \in Keys /\ h.name \in Setters
             /\ IsOurs(Del(key)) <=> key = h.op.key
  <2>1. IsHelper /\ h # NoHelper
    BY <1>6 DEF Setting, Inv, TypeOK
  <2>2. h.name \in Setters
    BY <1>6, <2>1 DEF Setting, IsHelper
  <2>3. "key" \in DOMAIN h.op /\ h.op.key \in Keys
    BY <2>1, <2>2, HelperFacts
  <2>4. \A k, f : Touches(Del(key), k, f) <=> key = k
    BY DEF Touches, Del
  <2> QED BY <2>1, <2>2, <2>3, <2>4 DEF IsOurs
<1>7. /\ StoreOK'
      /\ \A k \in Keys : alone' /\ Setting /\ k = h.op.key =>
           /\ \A field : Texts(store'[k], field) = Texts(store[k], field)
           /\ store'[k].ttl = "none" <=> store[k].ttl = "none"
      /\ \A f \in written' : \A field : Texts(store'[f.key], field) = Texts(store[f.key], field)
  <2>1. CASE store[key].ttl = "long"
    <3> DEFINE e == [store[key] EXCEPT !.ttl = "short"]
    <3>1. store[key] # Missing
      BY <2>1 DEF Missing
    <3>2. store[key].type # "none"
      BY <1>3, <3>1 DEF IsEntry
    <3>3. IsEntry(e) /\ e.ttl = "short" /\ \A field : Texts(e, field) = Texts(store[key], field)
      BY <1>3, <3>2, EntryFacts DEF Lifetimes
    <3>4. store' = [store EXCEPT ![key] = e]
      BY <1>1, <2>1
    <3> HIDE DEF e
    <3>5. store'[key] = e /\ \A k \in Keys \ {key} : store'[k] = store[k]
      BY <1>3, <3>4
    <3>6. StoreOK'
      BY <1>3, <3>3, <3>4, <3>5 DEF StoreOK
    <3>7. \A k \in Keys : /\ \A field : Texts(store'[k], field) = Texts(store[k], field)
                          /\ store'[k].ttl = "none" <=> store[k].ttl = "none"
      BY <1>1, <3>3, <3>5
    <3>8. \A f \in written' : f.key \in Keys
      BY <1>4 DEF Inv, TypeOK, WrittenOK
    <3> QED BY <3>6, <3>7, <3>8
  <2>2. CASE store[key].ttl # "long"
    <3>1. /\ store' = [store EXCEPT ![key] = Missing]
          /\ written' = {f \in written : f.key # key}
          /\ alone' = (alone /\ ~IsOurs(Del(key)))
      BY <1>1, <2>2
    <3>2. \A k \in Keys \ {key} : store'[k] = store[k]
      BY <1>3, <3>1
    <3>3. StoreOK'
      BY <1>3, <3>1, Entries DEF StoreOK
    <3>4. \A f \in written' : f.key \in Keys \ {key}
      BY <3>1 DEF Inv, TypeOK, WrittenOK
    <3> QED BY <1>6, <3>1, <3>2, <3>3, <3>4
  <2> QED BY <2>1, <2>2
<1>8. WrittenInv'
  <2>1. \A f \in written' : Reads(store'[f.key], f.field, f.path) = Reads(store[f.key], f.field, f.path)
    BY <1>7 DEF Reads
  <2>2. \A f \in written' : Expects(Reads(store'[f.key], f.field, f.path), f.value)
    BY <1>4, <2>1 DEF Inv, WrittenInv
  <2> QED BY <2>2 DEF WrittenInv
<1>9. ASSUME Setting, alone' PROVE AloneInv'
  <2>1. /\ \E text \in Texts(store[h.op.key], FieldOfHelper(h.op)) : \E doc \in Decode(text) :
             h.doc \in Documents(doc, h.op.path, h.op.value)
        /\ h.name = "SetJsonField" /\ h.at = "write" =>
             h.ttl \in {-1, 0, 1} /\ (h.ttl = -1 <=> store[h.op.key].ttl = "none")
    BY <1>4, <1>9 DEF Inv, AloneInv
  <2>2. /\ Texts(store'[h.op.key], FieldOfHelper(h.op)) = Texts(store[h.op.key], FieldOfHelper(h.op))
        /\ store'[h.op.key].ttl = "none" <=> store[h.op.key].ttl = "none"
    BY <1>6, <1>7, <1>9
  <2>3. /\ \E text \in Texts(store'[h'.op.key], FieldOfHelper(h'.op)) : \E doc \in Decode(text) :
             h'.doc \in Documents(doc, h'.op.path, h'.op.value)
        /\ h'.name = "SetJsonField" /\ h'.at = "write" =>
             h'.ttl \in {-1, 0, 1} /\ (h'.ttl = -1 <=> store'[h'.op.key].ttl = "none")
    BY <1>2, <2>1, <2>2
  <2> QED BY <2>3 DEF AloneInv
<1>10. ~(Setting /\ alone') => AloneInv'
  BY <1>4 DEF AloneInv
<1>11. TypeOK'
  BY <1>2, <1>4, <1>7 DEF Inv, TypeOK, WrittenOK
<1> QED BY <1>5, <1>8, <1>9, <1>10, <1>11 DEF Inv

LEMMA InvStep == Inv /\ [Next]_vars => Inv'
<1>1. ASSUME Inv, UNCHANGED vars PROVE Inv'
  BY <1>1 DEF vars, Inv, TypeOK, StoreOK, WrittenOK, IsHelper, WrittenInv, DocumentInv,
              AloneInv, Setting
<1> QED BY <1>1, CallKeepsInv, DryRunKeepsInv, SingleCommandKeepsInv, ReadDocumentKeepsInv,
           ReadTTLKeepsInv, WriteDocumentKeepsInv, TimeOutKeepsInv, OthersKeepInv, ExpireKeepsInv
        DEF Next
THEOREM InvariantHolds == Spec => []Inv
BY InvInit, InvStep, PTL DEF Spec

\* The state has its type.
THEOREM TypeCorrect == Spec => []TypeOK
<1>1. Inv => TypeOK
  BY DEF Inv
<1> QED BY <1>1, InvariantHolds, PTL

\* What SetJsonField and HSetJsonField have set, an expectation of the same value finds,
\* however the helpers, the application, late commands and passing time interleave, for all
\* values but slices and maps that hold a number from Million on.
THEOREM FieldsAreFound == Spec => []WrittenFieldsAreExpected
<1>1. Inv => WrittenFieldsAreExpected
  BY DEF Inv, WrittenInv, WrittenFieldsAreExpected, IsExpected, Expects
<1> QED BY <1>1, InvariantHolds, PTL

\* The step that ends a helper well, at "write", is the one that writes its document.
LEMMA WritingStep ==
  ASSUME Inv, Next, DocumentWritten
  PROVE  /\ WriteDocument /\ Reply(Command(h.op)) # {}
         /\ Setting /\ IsHelper /\ h.name \in Setters
         /\ h.op.key \in Keys /\ h.op.path \in Paths /\ IsValue(h.op.value)
<1>1. IsHelper /\ h # NoHelper /\ h.at = "write" /\ h' = NoHelper /\ outcome' = "returned"
  BY DEF DocumentWritten, Inv, TypeOK
<1>2. h.name \in Setters
  BY <1>1 DEF IsHelper
<1>3. h' # h
  BY <1>1
<1>4. ~Call /\ ~DryRun
  BY <1>1 DEF Call, DryRun
<1>5. ~SingleCommand
  BY <1>2 DEF SingleCommand, Setters
<1>6. ~ReadDocument /\ ~ReadTTL
  BY <1>1 DEF ReadDocument, ReadTTL
<1>7. ~TimeOut
  BY <1>1 DEF TimeOut, Ends
<1>8. ~LateCommand /\ ~Application
  BY <1>3 DEF LateCommand, Application, Foreign
<1>9. ~Expire
  BY <1>3 DEF Expire
<1>10. WriteDocument
  BY <1>4, <1>5, <1>6, <1>7, <1>8, <1>9 DEF Next
<1>11. Reply(Command(h.op)) # {}
  BY <1>1, <1>10 DEF WriteDocument, Ends
<1> QED BY <1>1, <1>2, <1>10, <1>11, HelperFacts DEF Setting

\* With nobody else on its key, setting a field changes what is read at no path beside it,
\* for every document, path and value, though the document is decoded and encoded twice.
THEOREM NothingElseChanges == Spec => OnlyTheFieldChanges
<1> DEFINE field == FieldOfHelper(h.op)
           key == h.op.key
           A == DocumentWritten /\ alone =>
                  \A path \in HelperPaths : Apart(path, h.op.path) =>
                    Reads(store'[key], field, path) = Reads(store[key], field, path)
<1>1. ASSUME Inv, [Next]_vars PROVE [A]_vars
  <2>1. SUFFICES ASSUME Next, DocumentWritten, alone,
                        NEW path \in HelperPaths, Apart(path, h.op.path)
                 PROVE  Reads(store'[key], field, path) = Reads(store[key], field, path)
    BY <1>1
  <2>2. /\ WriteDocument /\ Reply(Command(h.op)) # {} /\ Setting
        /\ key \in Keys /\ h.op.path \in Paths /\ IsValue(h.op.value)
    BY <1>1, <2>1, WritingStep
  <2>3. PICK text \in Texts(store[key], field) : \E doc \in Decode(text) :
          h.doc \in Documents(doc, h.op.path, h.op.value)
    BY <1>1, <2>1, <2>2 DEF Inv, AloneInv
  <2>4. IsText(text) /\ Texts(store[key], field) = {text}
    BY <1>1, <2>2, <2>3, EntryFacts DEF Inv, TypeOK, StoreOK
  <2>5. path \in Paths
    BY HelpersAssumption DEF HelperPaths
  <2>6. Values(h.doc, path) = Values(text, path)
    <3> DEFINE p == h.op.path
               value == h.op.value
               d == h.doc
    <3>1. PICK doc \in Decode(text) : d \in Documents(doc, p, value)
      BY <2>3
    <3>2. p \in Paths /\ IsValue(value) /\ Apart(path, p)
      BY <2>1, <2>2
    <3> HIDE DEF p, value, d
    <3>3. \A q \in Paths : Apart(q, p) \/ SetsNothing(p) => Values(d, q) = Values(text, q)
      BY <2>4, <3>1, <3>2, SetDocument
    <3> QED BY <2>5, <3>2, <3>3 DEF d
  <2>7. Texts(store'[key], field) = {h.doc}
    BY <1>1, <2>2, Writing
  <2> QED BY <2>4, <2>6, <2>7 DEF Reads
<1> QED BY <1>1, InvariantHolds, PTL DEF Spec, OnlyTheFieldChanges

\* With nobody else on its key, setting a field leaves a key with a lifetime one with a
\* lifetime, and no other gets one.
THEOREM LifetimesStay == Spec => LifetimeIsKept
<1> DEFINE key == h.op.key
           A == DocumentWritten /\ alone /\ ~(h.name = "SetJsonField" /\ h.ttl = 0) =>
                  ((store[key].ttl = "none") <=> (store'[key].ttl = "none"))
<1>1. ASSUME Inv, [Next]_vars PROVE [A]_vars
  <2>1. SUFFICES ASSUME Next, DocumentWritten, alone, ~(h.name = "SetJsonField" /\ h.ttl = 0)
                 PROVE  (store[key].ttl = "none") <=> (store'[key].ttl = "none")
    BY <1>1
  <2>2. WriteDocument /\ Reply(Command(h.op)) # {} /\ Setting /\ h.at = "write"
    BY <1>1, <2>1, WritingStep DEF DocumentWritten
  <2>3. store'[key].ttl = IF h.name = "SetJsonField" THEN Lifetime(store[key], h.ttl)
                          ELSE store[key].ttl
    BY <1>1, <2>2, Writing
  <2>4. h.name = "SetJsonField" => h.ttl \in {-1, 1} /\ (h.ttl = -1 <=> store[key].ttl = "none")
    BY <1>1, <2>1, <2>2 DEF Inv, AloneInv
  <2>5. h.name = "SetJsonField" /\ h.ttl = -1 => store'[key].ttl = store[key].ttl
    BY <2>3 DEF Lifetime
  <2>6. h.name = "SetJsonField" /\ h.ttl = 1 => store'[key].ttl = "long"
    BY <2>3 DEF Lifetime
  <2> QED BY <2>3, <2>4, <2>5, <2>6
<1> QED BY <1>1, InvariantHolds, PTL DEF Spec, LifetimeIsKept
================================================================================
