---------------------------- MODULE RequestProofs ----------------------------
(***************************************************************************)
(* Theorems about Request, for any options, any replies of servers and any *)
(* expectations.                                                           *)
(***************************************************************************)
EXTENDS Request, DocumentsProofs

\* The options among us that give a Content-Type and the types they give, and the same for
\* the bodies among them.
Types(us) == {i \in DOMAIN us : TypeNames(GivenBy(us[i])) # {}}
GivenTypes(us) == UNION {TypesIn(GivenBy(us[i])) : i \in Types(us)}
Bodies(us) == {i \in DOMAIN us : Marshals(us[i])}
BodyTypes(us) == {TypeOf(us[i]) : i \in Bodies(us)}

\* What the options leave in the headers.
HeadersFollow(headers, us) ==
  /\ Types(us) = {} /\ Bodies(us) = {} => TypeNames(headers) = {}
  /\ Types(us) = {} => \A i \in Bodies(us) :
       (\A j \in Bodies(us) : i <= j) =>
         TypeNames(headers) = {ContentType} /\ headers[ContentType] = TypeOf(us[i])
  /\ Types(us) # {} => TypeNames(headers) # {}
  /\ TypesIn(headers) \subseteq GivenTypes(us) \cup BodyTypes(us)
  /\ \A i \in Types(us) :
       (\A j \in Types(us) : j <= i /\ TypeNames(GivenBy(us[j])) = {ContentType}) =>
         TypeNames(headers) = {ContentType} /\ headers[ContentType] = GivenBy(us[i])[ContentType]

IsConfig(c) ==
  c = [method |-> c.method, headers |-> c.headers, body |-> c.body,
       ignoreServerSSL |-> c.ignoreServerSSL]

\* new has the headers of given, and else those of old.
IsUnion(new, given, old) ==
  /\ DOMAIN new = DOMAIN given \cup DOMAIN old
  /\ \A k \in DOMAIN given : new[k] = given[k]
  /\ \A k \in DOMAIN old \ DOMAIN given : new[k] = old[k]
-----------------------------------------------------------------------------
LEMMA PuttingHeaders ==
  ASSUME NEW c, IsConfig(c), NEW given
  PROVE  /\ IsConfig(PutHeaders(c, given))
         /\ IsUnion(PutHeaders(c, given).headers, given, c.headers)
<1> DEFINE h == Over(given, c.headers)
<1>1. PutHeaders(c, given) = [method |-> c.method, headers |-> h, body |-> c.body,
                              ignoreServerSSL |-> c.ignoreServerSSL]
  BY DEF PutHeaders, IsConfig
<1>2. IsUnion(h, given, c.headers)
  BY DEF IsUnion, Over
<1> HIDE DEF h
<1> QED BY <1>1, <1>2 DEF IsConfig

\* One more option.
LEMMA MoreOptions ==
  ASSUME NEW us \in Seq(Options), NEW o \in Options
  PROVE  LET vs == Append(us, o)
             n == Len(us) + 1
             isType == TypeNames(GivenBy(o)) # {}
         IN  /\ vs \in Seq(Options) /\ n \in Nat /\ n > 0 /\ vs[n] = o
             /\ Types(us) \subseteq 1 .. n - 1 /\ Bodies(us) \subseteq 1 .. n - 1
             /\ \A i \in 1 .. n - 1 : vs[i] = us[i]
             /\ Types(vs) = Types(us) \cup (IF isType THEN {n} ELSE {})
             /\ GivenTypes(vs) = GivenTypes(us) \cup TypesIn(GivenBy(o))
             /\ Bodies(vs) = Bodies(us) \cup (IF Marshals(o) THEN {n} ELSE {})
             /\ BodyTypes(vs) = BodyTypes(us) \cup (IF Marshals(o) THEN {TypeOf(o)} ELSE {})
<1> DEFINE vs == Append(us, o)
           n == Len(us) + 1
           isType == TypeNames(GivenBy(o)) # {}
<1>1. /\ vs \in Seq(Options) /\ n \in Nat /\ n > 0 /\ vs[n] = o
      /\ DOMAIN us = 1 .. n - 1 /\ DOMAIN vs = 1 .. n
      /\ \A i \in 1 .. n - 1 : vs[i] = us[i]
  BY LenProperties, AppendProperties
<1> HIDE DEF vs, n
<1>2. 1 .. n = (1 .. n - 1) \cup {n} /\ n \notin 1 .. n - 1
  BY <1>1
<1>3. Types(vs) = Types(us) \cup (IF isType THEN {n} ELSE {})
  BY <1>1, <1>2 DEF Types
<1>4. Bodies(vs) = Bodies(us) \cup (IF Marshals(o) THEN {n} ELSE {})
  BY <1>1, <1>2 DEF Bodies
<1>5. Types(us) \subseteq 1 .. n - 1 /\ Bodies(us) \subseteq 1 .. n - 1
  BY <1>1 DEF Types, Bodies
<1>6. BodyTypes(vs) = BodyTypes(us) \cup (IF Marshals(o) THEN {TypeOf(o)} ELSE {})
  BY <1>1, <1>4, <1>5 DEF BodyTypes
<1>7. GivenTypes(vs) = GivenTypes(us) \cup TypesIn(GivenBy(o))
  <2>1. ~isType => TypesIn(GivenBy(o)) = {}
    BY DEF TypesIn
  <2>2. \A i \in Types(us) : TypesIn(GivenBy(vs[i])) = TypesIn(GivenBy(us[i]))
    BY <1>1, <1>5
  <2>3. CASE isType
    BY <1>1, <1>3, <2>2, <2>3 DEF GivenTypes
  <2>4. CASE ~isType
    <3>1. Types(vs) = Types(us)
      BY <1>3, <2>4
    <3> HIDE DEF isType
    <3> QED BY <2>1, <2>2, <2>4, <3>1 DEF GivenTypes
  <2> QED BY <2>3, <2>4
<1> QED BY <1>1, <1>3, <1>4, <1>5, <1>6, <1>7 DEF vs, n

\* An option that is no body: the headers that the caller gives, or none.
LEMMA GivenFollow ==
  ASSUME NEW us \in Seq(Options), NEW o \in Options, ~Marshals(o),
         NEW old, HeadersFollow(old, us), NEW new, IsUnion(new, GivenBy(o), old)
  PROVE  HeadersFollow(new, Append(us, o))
<1> DEFINE vs == Append(us, o)
           n == Len(us) + 1
<1> PICK g : g = GivenBy(o)
  OBVIOUS
<1>1. /\ n \in Nat /\ n > 0 /\ vs[n] = o
      /\ Types(us) \subseteq 1 .. n - 1 /\ Bodies(us) \subseteq 1 .. n - 1
      /\ \A i \in 1 .. n - 1 : vs[i] = us[i]
      /\ Types(vs) = Types(us) \cup (IF TypeNames(g) # {} THEN {n} ELSE {})
      /\ GivenTypes(vs) = GivenTypes(us) \cup TypesIn(g)
      /\ Bodies(vs) = Bodies(us) \cup {} /\ BodyTypes(vs) = BodyTypes(us) \cup {}
  BY MoreOptions
<1>2. IsUnion(new, g, old)
  OBVIOUS
<1> SUFFICES HeadersFollow(new, vs)
  OBVIOUS
<1> HIDE DEF vs, n
<1>3. TypeNames(new) = TypeNames(g) \cup TypeNames(old)
  BY <1>2 DEF IsUnion, TypeNames
<1>4. TypesIn(new) \subseteq TypesIn(g) \cup TypesIn(old)
  BY <1>2, <1>3 DEF IsUnion, TypesIn, TypeNames
<1>5. TypesIn(new) \subseteq GivenTypes(vs) \cup BodyTypes(vs)
  BY <1>1, <1>4 DEF HeadersFollow
<1>6. \A i \in Types(us) \cup Bodies(us) : vs[i] = us[i]
  BY <1>1
<1>7. CASE TypeNames(g) = {}
  <2>1. Types(vs) = Types(us) /\ Bodies(vs) = Bodies(us) /\ TypeNames(new) = TypeNames(old)
    BY <1>1, <1>3, <1>7
  <2>2. ContentType \in TypeNames(old) => new[ContentType] = old[ContentType]
    BY <1>2, <1>7 DEF IsUnion, TypeNames
  <2>3. Types(vs) = {} /\ Bodies(vs) = {} => TypeNames(new) = {}
    BY <2>1 DEF HeadersFollow
  <2>4. ASSUME Types(vs) = {}, NEW i \in Bodies(vs), \A j \in Bodies(vs) : i <= j
        PROVE  TypeNames(new) = {ContentType} /\ new[ContentType] = TypeOf(vs[i])
    <3>1. TypeNames(old) = {ContentType} /\ old[ContentType] = TypeOf(us[i])
      BY <2>1, <2>4 DEF HeadersFollow
    <3> QED BY <1>6, <2>1, <2>2, <3>1
  <2>5. Types(vs) # {} => TypeNames(new) # {}
    BY <2>1 DEF HeadersFollow
  <2>6. ASSUME NEW i \in Types(vs),
               \A j \in Types(vs) : j <= i /\ TypeNames(GivenBy(vs[j])) = {ContentType}
        PROVE  TypeNames(new) = {ContentType} /\ new[ContentType] = GivenBy(vs[i])[ContentType]
    <3>1. i \in Types(us)
          /\ \A j \in Types(us) : j <= i /\ TypeNames(GivenBy(us[j])) = {ContentType}
      BY <1>6, <2>1, <2>6
    <3>2. TypeNames(old) = {ContentType} /\ old[ContentType] = GivenBy(us[i])[ContentType]
      BY <3>1 DEF HeadersFollow
    <3> QED BY <1>6, <2>1, <2>2, <3>1, <3>2
  <2> QED BY <1>5, <2>3, <2>4, <2>5, <2>6 DEF HeadersFollow
<1>8. CASE TypeNames(g) # {}
  <2>1. Types(vs) = Types(us) \cup {n} /\ n \in Types(vs) /\ Types(vs) # {} /\ TypeNames(new) # {}
    BY <1>1, <1>3, <1>8
  <2>2. ASSUME NEW i \in Types(vs),
               \A j \in Types(vs) : j <= i /\ TypeNames(GivenBy(vs[j])) = {ContentType}
        PROVE  TypeNames(new) = {ContentType} /\ new[ContentType] = GivenBy(vs[i])[ContentType]
    <3>1. n <= i /\ TypeNames(g) = {ContentType}
      BY <1>1, <2>1, <2>2
    <3>2. i = n
      BY <1>1, <2>1, <3>1
    <3>3. ContentType \in DOMAIN g
      BY <3>1 DEF TypeNames
    <3>4. new[ContentType] = GivenBy(vs[i])[ContentType]
      BY <1>1, <1>2, <3>2, <3>3 DEF IsUnion
    <3>5. TypeNames(old) \subseteq {ContentType}
      <4>1. CASE Types(us) = {}
        <5>1. CASE Bodies(us) = {}
          BY <4>1, <5>1 DEF HeadersFollow
        <5>2. CASE Bodies(us) # {}
          <6>1. n - 1 \in Nat
            BY <1>1
          <6>2. \E m \in Bodies(us) : \A j \in Bodies(us) : m <= j
            BY <1>1, <5>2, <6>1, Bounded
          <6> QED BY <4>1, <6>2 DEF HeadersFollow
        <5> QED BY <5>1, <5>2
      <4>2. CASE Types(us) # {}
        <5>1. PICK m \in Types(us) : \A j \in Types(us) : j <= m
          <6>1. n - 1 \in Nat
            BY <1>1
          <6>2. \E m \in Types(us) : \A j \in Types(us) : m >= j
            BY <1>1, <4>2, <6>1, Bounded
          <6>3. \A j \in Types(us) : j \in Int
            BY <1>1
          <6> QED BY <6>2, <6>3
        <5>2. \A j \in Types(us) : TypeNames(GivenBy(us[j])) = {ContentType}
          BY <1>6, <2>1, <2>2
        <5> QED BY <5>1, <5>2 DEF HeadersFollow
      <4> QED BY <4>1, <4>2
    <3> QED BY <1>3, <3>1, <3>4, <3>5
  <2> QED BY <1>5, <2>1, <2>2 DEF HeadersFollow
<1> QED BY <1>7, <1>8

\* The type of a body.
LEMMA BodyFollows ==
  ASSUME NEW us \in Seq(Options), NEW o \in Options, Marshals(o),
         NEW c, IsConfig(c), HeadersFollow(c.headers, us)
  PROVE  HeadersFollow(DefaultType(c, TypeOf(o)).headers, Append(us, o))
<1> DEFINE vs == Append(us, o)
           n == Len(us) + 1
           old == c.headers
           new == DefaultType(c, TypeOf(o)).headers
<1>1. /\ n \in Nat /\ n > 0 /\ vs[n] = o
      /\ Types(us) \subseteq 1 .. n - 1 /\ Bodies(us) \subseteq 1 .. n - 1
      /\ \A i \in 1 .. n - 1 : vs[i] = us[i]
      /\ Types(vs) = Types(us) /\ GivenTypes(vs) = GivenTypes(us)
      /\ Bodies(vs) = Bodies(us) \cup {n} /\ BodyTypes(vs) = BodyTypes(us) \cup {TypeOf(o)}
  <2>1. GivenBy(o) = NoHeaders
    BY DEF Marshals, GivenBy
  <2>2. TypeNames(GivenBy(o)) = {} /\ TypesIn(GivenBy(o)) = {}
    BY <2>1 DEF TypesIn, TypeNames, NoHeaders
  <2>3. Types(vs) = Types(us) \cup {} /\ GivenTypes(vs) = GivenTypes(us) \cup {}
    BY <2>2, MoreOptions
  <2>4. Bodies(vs) = Bodies(us) \cup {n} /\ BodyTypes(vs) = BodyTypes(us) \cup {TypeOf(o)}
    BY MoreOptions
  <2>5. /\ n \in Nat /\ n > 0 /\ vs[n] = o
        /\ Types(us) \subseteq 1 .. n - 1 /\ Bodies(us) \subseteq 1 .. n - 1
        /\ \A i \in 1 .. n - 1 : vs[i] = us[i]
    BY MoreOptions
  <2> HIDE DEF vs, n
  <2> QED BY <2>3, <2>4, <2>5
<1>2. HeadersFollow(old, us)
  OBVIOUS
<1>3. \A i \in Types(us) \cup Bodies(us) : vs[i] = us[i]
  BY <1>1
<1> SUFFICES HeadersFollow(new, vs)
  OBVIOUS
<1>4. CASE ContentType \in DOMAIN old
  <2>1. new = old
    BY <1>4 DEF DefaultType
  <2>2. ContentType \in TypeNames(old)
    BY <1>4 DEF TypeNames, Canonical, ContentType
  <2> HIDE DEF vs, n, old, new
  <2>3. TypesIn(new) \subseteq GivenTypes(vs) \cup BodyTypes(vs)
    BY <1>1, <1>2, <2>1 DEF HeadersFollow
  <2>4. ASSUME Types(vs) = {}, NEW i \in Bodies(vs), \A j \in Bodies(vs) : i <= j
        PROVE  TypeNames(new) = {ContentType} /\ new[ContentType] = TypeOf(vs[i])
    <3>1. Types(us) = {} /\ Bodies(us) # {}
      BY <1>1, <1>2, <2>2, <2>4 DEF HeadersFollow
    <3>2. i \in Bodies(us)
      BY <1>1, <2>4, <3>1
    <3>3. \A j \in Bodies(us) : i <= j
      BY <1>1, <2>4
    <3> QED BY <1>2, <1>3, <2>1, <3>1, <3>2, <3>3 DEF HeadersFollow
  <2>5. ASSUME NEW i \in Types(vs),
               \A j \in Types(vs) : j <= i /\ TypeNames(GivenBy(vs[j])) = {ContentType}
        PROVE  TypeNames(new) = {ContentType} /\ new[ContentType] = GivenBy(vs[i])[ContentType]
    <3>1. i \in Types(us)
          /\ \A j \in Types(us) : j <= i /\ TypeNames(GivenBy(us[j])) = {ContentType}
      BY <1>1, <1>3, <2>5
    <3> QED BY <1>2, <1>3, <2>1, <3>1 DEF HeadersFollow
  <2>6. Bodies(vs) # {} /\ TypeNames(new) # {}
    BY <1>1, <2>1, <2>2
  <2> QED BY <2>3, <2>4, <2>5, <2>6 DEF HeadersFollow
<1>5. CASE ContentType \notin DOMAIN old
  <2>1. IsUnion(new, OneHeader(ContentType, TypeOf(o)), old)
    BY <1>5, PuttingHeaders DEF DefaultType, PutHeader
  <2>2. /\ DOMAIN new = DOMAIN old \cup {ContentType} /\ new[ContentType] = TypeOf(o)
        /\ \A k \in DOMAIN old : new[k] = old[k]
    <3> HIDE DEF new, old
    <3>1. /\ DOMAIN OneHeader(ContentType, TypeOf(o)) = {ContentType}
          /\ OneHeader(ContentType, TypeOf(o))[ContentType] = TypeOf(o)
      BY DEF OneHeader
    <3> QED BY <1>5, <2>1, <3>1 DEF IsUnion
  <2> HIDE DEF vs, n, old, new
  <2>3. TypeNames(new) = TypeNames(old) \cup {ContentType} /\ ContentType \notin TypeNames(old)
    BY <1>5, <2>2 DEF TypeNames, Canonical, ContentType
  <2>4. TypesIn(new) \subseteq TypesIn(old) \cup {TypeOf(o)}
    BY <2>2, <2>3 DEF TypesIn, TypeNames
  <2>5. TypesIn(new) \subseteq GivenTypes(vs) \cup BodyTypes(vs)
    BY <1>1, <1>2, <2>4 DEF HeadersFollow
  <2>6. ASSUME Types(vs) = {}, NEW i \in Bodies(vs), \A j \in Bodies(vs) : i <= j
        PROVE  TypeNames(new) = {ContentType} /\ new[ContentType] = TypeOf(vs[i])
    <3>1. Bodies(us) = {}
      <4> SUFFICES ASSUME Bodies(us) # {} PROVE FALSE
        OBVIOUS
      <4>1. n - 1 \in Nat
        BY <1>1
      <4>2. \E m \in Bodies(us) : \A j \in Bodies(us) : m <= j
        BY <1>1, <4>1, Bounded
      <4> QED BY <1>1, <1>2, <2>3, <2>6, <4>2 DEF HeadersFollow
    <3>2. TypeNames(old) = {} /\ i = n
      BY <1>1, <1>2, <2>6, <3>1 DEF HeadersFollow
    <3> QED BY <1>1, <2>2, <2>3, <3>2
  <2>7. ASSUME NEW i \in Types(vs),
               \A j \in Types(vs) : j <= i /\ TypeNames(GivenBy(vs[j])) = {ContentType}
        PROVE  FALSE
    <3>1. i \in Types(us)
          /\ \A j \in Types(us) : j <= i /\ TypeNames(GivenBy(us[j])) = {ContentType}
      BY <1>1, <1>3, <2>7
    <3> QED BY <1>2, <2>3, <3>1 DEF HeadersFollow
  <2>8. Bodies(vs) # {} /\ TypeNames(new) # {}
    BY <1>1, <2>3
  <2> QED BY <2>5, <2>6, <2>7, <2>8 DEF HeadersFollow
<1> HIDE DEF vs, new, old
<1> QED BY <1>4, <1>5

LEMMA OptionsFollow ==
  ASSUME NEW us \in Seq(Options), NEW o \in Options,
         NEW c, IsConfig(c), HeadersFollow(c.headers, us)
  PROVE  IsConfig(Apply(c, o)) /\ HeadersFollow(Apply(c, o).headers, Append(us, o))
<1>1. CASE o.option \in {"WithHeader", "WithHeaders"}
  <2>1. Apply(c, o) = PutHeaders(c, GivenBy(o)) /\ ~Marshals(o)
    BY <1>1 DEF Apply, Marshals, GivenBy, PutHeader
  <2> QED BY <2>1, PuttingHeaders, GivenFollow
<1>2. CASE Marshals(o)
  <2> DEFINE d == [c EXCEPT !.body = IF o.body = Unmarshalable THEN NoBody ELSE o.body]
  <2>1. Apply(c, o) = DefaultType(d, TypeOf(o))
    BY <1>2 DEF Apply, Marshals, WithBodyOf
  <2>2. IsConfig(d) /\ d.headers = c.headers
    BY DEF IsConfig
  <2> HIDE DEF d
  <2>3. HeadersFollow(d.headers, us)
    BY <2>2
  <2>4. IsConfig(DefaultType(d, TypeOf(o)))
    BY <2>2, PuttingHeaders DEF DefaultType, PutHeader
  <2> QED BY <1>2, <2>1, <2>2, <2>3, <2>4, BodyFollows
<1>3. CASE o.option \notin {"WithHeader", "WithHeaders"} /\ ~Marshals(o)
  <2>1. Apply(c, o) = c \/ \E x : \/ Apply(c, o) = [c EXCEPT !.method = x]
                                 \/ Apply(c, o) = [c EXCEPT !.body = x]
                                 \/ Apply(c, o) = [c EXCEPT !.ignoreServerSSL = x]
    BY <1>3 DEF Apply
  <2>2. IsConfig(Apply(c, o)) /\ Apply(c, o).headers = c.headers
    BY <2>1 DEF IsConfig
  <2>3. GivenBy(o) = NoHeaders
    BY <1>3 DEF GivenBy
  <2>4. IsUnion(c.headers, GivenBy(o), c.headers)
    BY <2>3 DEF IsUnion, NoHeaders
  <2> QED BY <1>3, <2>2, <2>4, GivenFollow
<1> QED BY <1>1, <1>2, <1>3
-----------------------------------------------------------------------------
ByOptions == IsConfig(cfg) /\ HeadersFollow(cfg.headers, used)

\* The state has its type; what is expected of a response is expected of a body.
TypeOK ==
  /\ pc \in {"building", "sent", "checking", "failed"} /\ dry \in BOOLEAN /\ server \in Servers
  /\ used \in Seq(Options) /\ Len(used) <= MaxOptions
  /\ IsBody(response.body)

IInv ==
  /\ TypeOK
  /\ ByOptions
  /\ pc = "sent" => sent \in SentHeaders(cfg.headers)

LEMMA InitInv == Init => IInv
<1> SUFFICES ASSUME Init PROVE IInv
  OBVIOUS
<1>1. used = <<>> /\ DOMAIN used = {} /\ pc = "building"
  BY EmptySeq DEF Init
<1>2. IsConfig(cfg) /\ DOMAIN cfg.headers = {}
  BY DEF Init, NewConfig, NoHeaders, IsConfig
<1>3. HeadersFollow(cfg.headers, used)
  BY <1>1, <1>2 DEF HeadersFollow, Types, Bodies, TypeNames, TypesIn
<1>4. IsBody(response.body)
  BY DEF Init, EmptyResponse, IsBody, NoBody, Other
<1>5. TypeOK
  <2>1. Len(used) <= MaxOptions /\ used \in Seq(Options)
    BY <1>1, EmptySeq, RequestAssumption
  <2> QED BY <1>4, <2>1 DEF Init, TypeOK
<1> QED BY <1>1, <1>2, <1>3, <1>5 DEF IInv, ByOptions

\* The start of a text, and of the tokens of a document.
LEMMA Starts ==
  ASSUME NEW S, NEW s \in Seq(S), NEW n \in 0 .. Len(s)
  PROVE  /\ SubSeq(s, 1, n) \in Seq(S) /\ Len(SubSeq(s, 1, n)) = n
         /\ \A i \in 1 .. n : SubSeq(s, 1, n)[i] = s[i]
<1>1. Len(s) \in Nat /\ \A i \in 1 .. n : i \in 1 .. Len(s)
  BY LenProperties
<1> QED BY <1>1, SubSeqProperties

LEMMA Tokens ==
  ASSUME NEW tokens
  PROVE  IsXML(tokens) <=> \E T : tokens \in Seq(T) /\ \A t \in T : IsToken(t)
<1>1. ASSUME NEW T, tokens \in Seq(T), \A t \in T : IsToken(t) PROVE IsXML(tokens)
  <2>1. DOMAIN tokens = 1 .. Len(tokens) /\ Len(tokens) \in Nat
        /\ \A i \in 1 .. Len(tokens) : tokens[i] \in T
    BY <1>1, LenProperties, ElementOfSeq
  <2>2. ToSet(tokens) \subseteq T /\ \A i \in 1 .. Len(tokens) : tokens[i] \in ToSet(tokens)
    BY <2>1 DEF ToSet
  <2>3. tokens = [i \in 1 .. Len(tokens) |-> tokens[i]]
    BY <1>1, <2>1
  <2>4. tokens \in [1 .. Len(tokens) -> ToSet(tokens)]
    BY <2>2, <2>3
  <2>5. tokens \in Seq(ToSet(tokens))
    BY <2>1, <2>4, SeqDef
  <2> QED BY <1>1, <2>2, <2>5 DEF IsXML
<1> QED BY <1>1 DEF IsXML

LEMMA CutDocuments ==
  ASSUME NEW tokens, IsXML(tokens), NEW cut \in CutTokens(tokens)
  PROVE  IsXML(cut)
<1> DEFINE T == {t \in ToSet(tokens) \cup {CharData(s) : s \in Seq(Symbols)} : IsToken(t)}
<1>1. tokens \in Seq(ToSet(tokens)) /\ \A t \in ToSet(tokens) : IsToken(t)
  BY DEF IsXML
<1>2. DOMAIN tokens = 1 .. Len(tokens) /\ Len(tokens) \in Nat
      /\ \A i \in 1 .. Len(tokens) : tokens[i] \in ToSet(tokens)
  BY <1>1, LenProperties, ElementOfSeq
<1>3. ToSet(tokens) \subseteq T
  BY <1>1
<1>4. tokens \in Seq(T)
  <2> HIDE DEF T
  <2>1. tokens = [i \in 1 .. Len(tokens) |-> tokens[i]]
    BY <1>1, <1>2
  <2>2. tokens \in [1 .. Len(tokens) -> T]
    BY <1>2, <1>3, <2>1
  <2> QED BY <1>2, <2>2, SeqDef
<1>5. cut \in Seq(T)
  <2>1. CASE \E n \in 0 .. Len(tokens) - 1 : cut = SubSeq(tokens, 1, n)
    <3> HIDE DEF T
    <3>1. PICK n \in 0 .. Len(tokens) - 1 : cut = SubSeq(tokens, 1, n)
      BY <2>1
    <3>2. n \in 0 .. Len(tokens)
      BY <1>2
    <3> QED BY <1>4, <3>1, <3>2, Starts
  <2>2. CASE \E n \in DOMAIN tokens : /\ tokens[n].token = "chars"
                                      /\ \E k \in 1 .. Len(tokens[n].s) - 1 :
                                           cut = Append(SubSeq(tokens, 1, n - 1),
                                                        CharData(SubSeq(tokens[n].s, 1, k)))
    <3>0. PICK n \in DOMAIN tokens :
            /\ tokens[n].token = "chars"
            /\ \E k \in 1 .. Len(tokens[n].s) - 1 :
                 cut = Append(SubSeq(tokens, 1, n - 1), CharData(SubSeq(tokens[n].s, 1, k)))
      BY <2>2
    <3>1. PICK k \in 1 .. Len(tokens[n].s) - 1 :
            cut = Append(SubSeq(tokens, 1, n - 1), CharData(SubSeq(tokens[n].s, 1, k)))
      BY <3>0
    <3>2. tokens[n].s \in Seq(Symbols)
      BY <1>1, <1>2, <3>0 DEF IsToken
    <3> PICK text : text = SubSeq(tokens[n].s, 1, k)
      OBVIOUS
    <3>3. text \in Seq(Symbols)
      <4>1. k \in 0 .. Len(tokens[n].s)
        BY <3>2, LenProperties
      <4> QED BY <3>2, <4>1, Starts
    <3>4. IsToken(CharData(text))
      BY <3>3 DEF IsToken, CharData
    <3>5. CharData(text) \in T
      BY <3>3, <3>4
    <3> HIDE DEF T
    <3>6. SubSeq(tokens, 1, n - 1) \in Seq(T)
      <4>1. n - 1 \in 0 .. Len(tokens)
        BY <1>2
      <4> QED BY <1>4, <4>1, Starts
    <3> QED BY <3>1, <3>5, <3>6, AppendProperties
  <2> HIDE DEF T
  <2> QED BY <2>1, <2>2 DEF CutTokens
<1>6. \A t \in T : IsToken(t)
  OBVIOUS
<1> HIDE DEF T
<1> QED BY <1>5, <1>6, Tokens

LEMMA CutBodies ==
  ASSUME NEW body, IsBody(body), NEW cut \in Cuts(body)
  PROVE  IsBody(cut)
<1>1. CASE body.text = "json"
  <2>1. IsBody(Other)
    BY DEF IsBody, Other, NoBody
  <2>2. ASSUME IsNumber(body.v), NEW m \in Beginnings(body.v.n)
        PROVE  IsBody(JSON(Number(m)))
    <3>1. body.v.n \in Int
      BY <1>1, <2>2 DEF IsBody, IsValue, IsScalar, IsContainer, Containers, IsNumber
    <3>2. m \in Int
      BY <3>1 DEF Beginnings
    <3>3. IsValue(Number(m))
      BY <3>2 DEF IsValue, IsScalar, IsContainer, Containers, Number
    <3> QED BY <3>3 DEF IsBody, JSON
  <2>3. \/ cut = Other
        \/ IsNumber(body.v) /\ \E m \in Beginnings(body.v.n) : cut = JSON(Number(m))
    BY <1>1 DEF Cuts
  <2> QED BY <2>1, <2>2, <2>3
<1>2. CASE body.text = "xml"
  <2>1. IsXML(body.tokens)
    BY <1>2 DEF IsBody
  <2>2. PICK tokens \in CutTokens(body.tokens) : cut = XML(tokens)
    BY <1>2 DEF Cuts
  <2>3. IsXML(tokens)
    BY <2>1, CutDocuments
  <2> QED BY <2>2, <2>3 DEF IsBody, XML
<1>3. CASE body.text \notin {"json", "xml"}
  BY <1>3 DEF Cuts
<1> QED BY <1>1, <1>2, <1>3

LEMMA OptionStep ==
  ASSUME IInv, Option
  PROVE  IInv'
<1>1. PICK o \in Options : /\ used' = Append(used, o) /\ cfg' = Apply(cfg, o)
                           /\ pc' \in {"failed", pc}
  BY DEF Option
<1>2. pc = "building" /\ UNCHANGED <<sent, response>> /\ used \in Seq(Options)
  BY DEF Option, IInv, TypeOK
<1>3. TypeOK'
  <2>1. used' \in Seq(Options) /\ Len(used') = Len(used) + 1 /\ Len(used) \in Nat
    BY <1>1, <1>2, AppendProperties, LenProperties
  <2>2. Len(used) < MaxOptions /\ UNCHANGED <<dry, server>>
    BY DEF Option
  <2> QED BY <1>1, <1>2, <2>1, <2>2, RequestAssumption DEF IInv, TypeOK
<1>4. ByOptions'
  BY <1>1, <1>2, OptionsFollow DEF IInv, ByOptions
<1> QED BY <1>1, <1>2, <1>3, <1>4 DEF IInv

LEMMA NextInv == IInv /\ [Next]_vars => IInv'
<1> SUFFICES ASSUME IInv, [Next]_vars PROVE IInv'
  OBVIOUS
<1>1. CASE Option
  BY <1>1, OptionStep
<1>2. ASSUME UNCHANGED <<used, cfg>> PROVE ByOptions'
  BY <1>2 DEF IInv, ByOptions
<1>3. CASE SendRESTRequest
  <2>1. UNCHANGED <<used, cfg>> /\ (response' = EmptyResponse \/ response' = response)
    BY <1>3 DEF SendRESTRequest
  <2>2. pc' = "sent" => sent' \in SentHeaders(cfg'.headers)
    BY <1>3 DEF SendRESTRequest
  <2>3. IsBody(EmptyResponse.body)
    BY DEF EmptyResponse, IsBody, NoBody
  <2>4. IsBody(response'.body)
    BY <2>1, <2>3 DEF IInv, TypeOK
  <2>5. pc' \in {"checking", "failed", "sent"} /\ UNCHANGED <<dry, server>>
    BY <1>3 DEF SendRESTRequest
  <2>6. TypeOK'
    BY <2>1, <2>4, <2>5 DEF IInv, TypeOK
  <2> QED BY <1>2, <2>1, <2>2, <2>6 DEF IInv
<1>4. CASE Reply
  <2>1. PICK reply \in Replies : \E body \in {reply.body} \cup Cuts(reply.body) :
          response' = [reply EXCEPT !.body = body]
    BY <1>4 DEF Reply
  <2>2. IsBody(reply.body) /\ response'.body \in {reply.body} \cup Cuts(reply.body)
    BY <2>1, RepliesAssumption
  <2>3. IsBody(response'.body)
    BY <2>2, CutBodies
  <2>4. UNCHANGED <<dry, server, used, cfg>> /\ pc' = "checking"
    BY <1>4 DEF Reply
  <2> QED BY <1>2, <2>3, <2>4 DEF IInv, TypeOK
<1>5. CASE DoFails
  <2>1. UNCHANGED <<dry, server, used, cfg, sent, response>> /\ pc' = "failed"
    BY <1>5 DEF DoFails
  <2> QED BY <1>2, <2>1 DEF IInv, TypeOK
<1>6. CASE Expect
  <2>1. UNCHANGED <<dry, server, used, cfg, sent, response>> /\ pc' \in {"checking", "failed"}
    BY <1>6 DEF Expect
  <2> QED BY <1>2, <2>1 DEF IInv, TypeOK
<1>7. CASE UNCHANGED vars
  <2>1. UNCHANGED <<pc, dry, server, used, cfg, sent, response>>
    BY <1>7 DEF vars
  <2> QED BY <1>2, <2>1 DEF IInv, TypeOK
<1> QED BY <1>1, <1>3, <1>4, <1>5, <1>6, <1>7 DEF Next

\* The inductive invariant: what the options leave in the headers, and what bodies are.
THEOREM InvariantHolds == Spec => []IInv
BY InitInv, NextInv, PTL DEF Spec

\* The state of a request has its type, and what came back is a body, cut short or not.
THEOREM TypeCorrect == Spec => []TypeOK
<1>1. IInv => TypeOK
  BY DEF IInv
<1> QED BY <1>1, InvariantHolds, PTL

\* For any options in any order, WithHeaders included: the Content-Type of the request is the
\* last one that the caller gives, if all of them are given under that name, and one of those
\* given, or of a body, otherwise; without any it is that of the first body, and without a
\* body there is none (SendRESTRequest).
THEOREM TypeIsTheCallers == Spec => []ContentTypeIsTheCallers
<1>1. IInv => ContentTypeIsTheCallers
  <2> DEFINE headers == cfg.headers
             first == CHOOSE i \in BodyOptions : \A j \in BodyOptions : i <= j
             last == CHOOSE i \in TypeOptions : \A j \in TypeOptions : j <= i
             Alike == \A i \in TypeOptions : TypeNames(GivenBy(used[i])) = {ContentType}
  <2> SUFFICES ASSUME IInv, pc = "sent"
               PROVE  /\ TypeOptions = {} /\ BodyOptions = {} => ContentType \notin DOMAIN sent
                      /\ TypeOptions = {} /\ BodyOptions # {} =>
                            sent[ContentType] = TypeOf(used[first])
                      /\ TypeOptions # {} =>
                            IF Alike
                            THEN sent[ContentType] = GivenBy(used[last])[ContentType]
                            ELSE sent[ContentType] \in Given \cup {TypeOf(used[i]) : i \in BodyOptions}
    BY DEF ContentTypeIsTheCallers
  <2>1. /\ TypeOptions = Types(used) /\ BodyOptions = Bodies(used)
        /\ {TypeOf(used[i]) : i \in BodyOptions} = BodyTypes(used) /\ Given = GivenTypes(used)
    BY DEF TypeOptions, Types, BodyOptions, Bodies, BodyTypes, Given, GivenTypes
  <2>2. HeadersFollow(headers, used)
    BY DEF IInv, ByOptions
  <2>3. /\ DOMAIN sent = {Canonical(k) : k \in DOMAIN headers}
        /\ \A name \in DOMAIN sent :
              \E k \in DOMAIN headers : Canonical(k) = name /\ sent[name] = headers[k]
    BY DEF IInv, SentHeaders
  <2>4. /\ ContentType \in DOMAIN sent <=> TypeNames(headers) # {}
        /\ TypeNames(headers) # {} => \E k \in TypeNames(headers) : sent[ContentType] = headers[k]
    <3> HIDE DEF headers
    <3> QED BY <2>3 DEF TypeNames
  <2>5. DOMAIN used = 1 .. Len(used) /\ Len(used) \in Nat
    BY LenProperties DEF IInv, TypeOK
  <2>6. Types(used) \subseteq 1 .. Len(used) /\ Bodies(used) \subseteq 1 .. Len(used)
    BY <2>5 DEF Types, Bodies
  <2>7. CASE TypeOptions = {} /\ BodyOptions = {}
    BY <2>1, <2>2, <2>4, <2>7 DEF HeadersFollow
  <2>8. CASE TypeOptions = {} /\ BodyOptions # {}
    <3>1. \E i \in BodyOptions : \A j \in BodyOptions : i <= j
      BY <2>1, <2>5, <2>6, <2>8, Bounded
    <3>2. first \in BodyOptions /\ \A j \in BodyOptions : first <= j
      BY <3>1
    <3> HIDE DEF first, headers
    <3>3. TypeNames(headers) = {ContentType} /\ headers[ContentType] = TypeOf(used[first])
      BY <2>1, <2>2, <2>8, <3>2 DEF HeadersFollow
    <3> QED BY <2>4, <2>8, <3>3
  <2>9. CASE TypeOptions # {}
    <3>1. TypeNames(headers) # {}
      BY <2>1, <2>2, <2>9 DEF HeadersFollow
    <3>2. sent[ContentType] \in TypesIn(headers)
      BY <2>4, <3>1 DEF TypesIn
    <3>3. sent[ContentType] \in Given \cup {TypeOf(used[i]) : i \in BodyOptions}
      BY <2>1, <2>2, <3>2 DEF HeadersFollow
    <3>4. ASSUME Alike
          PROVE  sent[ContentType] = GivenBy(used[last])[ContentType]
      <4>1. \E i \in TypeOptions : \A j \in TypeOptions : i >= j
        BY <2>1, <2>5, <2>6, <2>9, Bounded
      <4>2. \A i, j \in TypeOptions : i >= j => j <= i
        BY <2>1, <2>6
      <4>3. last \in TypeOptions /\ \A j \in TypeOptions : j <= last
        BY <4>1, <4>2
      <4> HIDE DEF last
      <4>4. TypeNames(headers) = {ContentType}
            /\ headers[ContentType] = GivenBy(used[last])[ContentType]
        BY <2>1, <2>2, <3>4, <4>3 DEF HeadersFollow
      <4> QED BY <2>4, <4>4
    <3> HIDE DEF last, Alike
    <3> QED BY <2>9, <3>3, <3>4
  <2> HIDE DEF last, first, Alike
  <2> QED BY <2>7, <2>8, <2>9
<1> QED BY <1>1, InvariantHolds, PTL
-----------------------------------------------------------------------------
(***************************************************************************)
(* Expectations.                                                           *)
(***************************************************************************)
FieldOf(body, path) == UNION {getValueByPath(v, path) : v \in Decode(body)}

LEMMA FieldsAre ==
  ASSUME NEW body, IsBody(body), NEW path \in Paths
  PROVE  /\ \A x, y \in FieldOf(body, path) : x = y
         /\ \A x \in FieldOf(body, path) : IsValue(x) /\ Floats(x) = x
<1>1. CASE body.text # "json"
  BY <1>1 DEF FieldOf, Decode
<1>2. CASE body.text = "json"
  <2> DEFINE v == body.v
             p == Position(path)
  <2>1. IsValue(v) /\ FieldOf(body, path) = getValueByPath(Floats(v), path)
    BY <1>2 DEF IsBody, FieldOf, Decode
  <2>2. p \in Seq(Step)
    BY Positions DEF Paths
  <2> HIDE DEF v, p
  <2>3. FieldOf(body, path) \subseteq Found(Floats(v), p)
    BY <2>1 DEF getValueByPath, p
  <2>4. \A x, y \in Found(Floats(v), p) : x = y
    BY DEF Found
  <2>5. \A x \in Found(Floats(v), p) : \E y : IsValue(y) /\ x = Floats(y)
    BY <2>1, <2>2, FloatsOfFound
  <2>6. \A x \in Found(Floats(v), p) : IsValue(x) /\ Floats(x) = x
    BY <2>5, FloatsOfValue
  <2> QED BY <2>3, <2>4, <2>6
<1> QED BY <1>1, <1>2

\* What a stage expects of a field: a value, or a list of a type of its own.
IsExpectation(e) == IsValue(e) \/ e.kind = "ints"

LEMMA EqualFields ==
  ASSUME IsBody(response.body), NEW path \in Paths, NEW e, IsExpectation(e)
  PROVE  LET same == ExpectJsonBodyField(path, e)
             equal == ExpectJsonBodyFieldCond(path, "Equal", e)
         IN  /\ same => equal
             /\ equal /\ ~same => e.kind \in {"slice", "map"} /\ Floats(e) # e
<1> DEFINE same == ExpectJsonBodyField(path, e)
           equal == ExpectJsonBodyFieldCond(path, "Equal", e)
           found == FieldOf(response.body, path)
<1>1. IsUsable("Equal", e)
  BY DEF IsUsable, Conditions, ValidateExpected
<1>2. same <=> \E got \in found :
        IF IsNumber(got) /\ IsNumber(e) THEN ToFloat64(got) = ToFloat64(e) ELSE got = e
  BY DEF ExpectJsonBodyField, FieldOf
<1>3. equal <=> \E got \in found : Floats(got) = Floats(e)
  BY <1>1 DEF ExpectJsonBodyFieldCond, FieldOf, Evaluate, ValuesEqual
<1>4. \A got \in found : IsValue(got) /\ Floats(got) = got
  BY FieldsAre
<1> HIDE DEF same, equal, found
<1>5. ASSUME NEW got \in found, IsNumber(got), IsNumber(e)
      PROVE  Floats(got) = Floats(e) <=> ToFloat64(got) = ToFloat64(e)
  <2>1. Floats(got) = Float(ToFloat64(got)) /\ Floats(e) = Float(ToFloat64(e))
    BY <1>5 DEF Floats, Each, FloatNode, IsContainer, Containers, IsNumber
  <2> QED BY <2>1 DEF Float
<1>6. ASSUME NEW got \in found, ~(IsNumber(got) /\ IsNumber(e)), Floats(got) = Floats(e), got # e
      PROVE  e.kind \in {"slice", "map"} /\ Floats(e) # e
  <2>1. got = Floats(e) /\ Floats(e) # e
    BY <1>4, <1>6
  <2>2. got.kind = e.kind
    <3>1. e.kind = "ints" => Floats(e) = e
      BY DEF Floats, Each, FloatNode, IsContainer, Containers, IsNumber
    <3>2. IsValue(e)
      BY <2>1, <3>1 DEF IsExpectation
    <3> QED BY <2>1, <3>2, FloatsOfValue
  <2>3. ~IsNumber(e)
    BY <1>6, <2>2 DEF IsNumber
  <2> QED BY <2>1, <2>3 DEF Floats, Each, FloatNode, IsContainer, Containers
<1>7. same => equal
  BY <1>2, <1>3, <1>5
<1>8. equal /\ ~same => e.kind \in {"slice", "map"} /\ Floats(e) # e
  BY <1>2, <1>3, <1>5, <1>6
<1> QED BY <1>7, <1>8 DEF same, equal

LEMMA Numerals ==
  ASSUME NEW v, IsExpectation(v)
  PROVE  /\ \A x, y \in ToNumberLoose(v) : x = y
         /\ ToNumberLoose(v) \subseteq Int
<1>1. CASE v.kind = "number"
  <2>1. v.n \in Int /\ ToNumberLoose(v) = {Nearest(v.n)}
    BY <1>1 DEF IsExpectation, IsValue, IsContainer, Containers, IsScalar, ToNumberLoose,
                ToFloat64, IsNumber
  <2> QED BY <2>1, NearestIdempotent
<1>2. CASE v.kind = "string"
  <2>1. v.s \in Seq(Symbols) /\ ToNumberLoose(v) = ParseFloat(TrimSpace(v.s))
    BY <1>2 DEF IsExpectation, IsValue, IsContainer, Containers, IsScalar, ToNumberLoose
  <2>2. TrimSpace(v.s) \in Seq(Symbols)
    BY <2>1, TrimmedTexts
  <2>3. ParseFloat(TrimSpace(v.s)) \subseteq Int
    BY <2>2, ParsedNumbers
  <2>4. \A x, y \in ParseFloat(TrimSpace(v.s)) : x = y
    BY DEF ParseFloat
  <2> QED BY <2>1, <2>3, <2>4
<1>3. CASE v.kind \notin {"number", "string"}
  BY <1>3 DEF ToNumberLoose
<1> QED BY <1>1, <1>2, <1>3

LEMMA OppositeConditions ==
  ASSUME NEW a, IsValue(a), NEW e, IsExpectation(e), NEW pair \in Opposites
  PROVE  ~(Evaluate(a, pair[1], e) /\ Evaluate(a, pair[2], e))
<1>1. CASE pair = <<"Equal", "NotEqual">>
  BY <1>1 DEF Evaluate
<1>2. CASE pair = <<"Contains", "NotContains">>
  BY <1>2 DEF Evaluate, StringContains
<1>3. CASE pair = <<"In", "NotIn">>
  BY <1>3 DEF Evaluate
<1>4. CASE pair = <<"Empty", "NotEmpty">>
  BY <1>4 DEF Evaluate
<1>5. CASE pair = <<"LessThan", "GreaterThanOrEqual">>
  <2>1. Evaluate(a, pair[1], e) => \E x \in ToNumberLoose(a), y \in ToNumberLoose(e) : x < y
    BY <1>5 DEF Evaluate, CompareNumbers
  <2>2. Evaluate(a, pair[2], e) => \E x \in ToNumberLoose(a), y \in ToNumberLoose(e) : x >= y
    BY <1>5 DEF Evaluate, CompareNumbers
  <2>3. ASSUME NEW x \in ToNumberLoose(a), NEW y \in ToNumberLoose(e), x < y,
               NEW u \in ToNumberLoose(a), NEW w \in ToNumberLoose(e), u >= w
        PROVE  FALSE
    <3>1. x = u /\ y = w /\ x \in Int /\ y \in Int
      BY Numerals DEF IsExpectation
    <3> QED BY <2>3, <3>1
  <2> QED BY <2>1, <2>2, <2>3
<1> QED BY <1>1, <1>2, <1>3, <1>4, <1>5 DEF Opposites

LEMMA FieldsAreHeld ==
  ASSUME IsBody(response.body)
  PROVE  FieldsAgree /\ OppositesExclude
<1>1. \A x \in JsonFields : x.path \in Paths /\ IsExpectation(x.e)
  BY ExpectationsAssumption DEF JsonFields, IsExpectation
<1>2. ASSUME NEW x \in XmlFields, NEW y \in XmlFields
      PROVE  ExpectXmlBodyField(x.path, y.s) <=> ExpectXmlBodyFieldCond(x.path, "Equal", y.s)
  <2> DEFINE found == getXMLPathValue(Tree(response.body), x.path)
  <2>1. IsUsable("Equal", Str(y.s))
    BY DEF IsUsable, Conditions, ValidateExpected
  <2>2. \A got \in found : \E s : got = Str(s)
    BY DEF getXMLPathValue, getXMLPath
  <2>3. \A s : Floats(Str(s)) = Str(s)
    BY DEF Floats, Each, FloatNode, IsContainer, Containers, IsNumber, Str
  <2>4. ExpectXmlBodyField(x.path, y.s) <=> Str(y.s) \in found
    BY DEF ExpectXmlBodyField
  <2>5. ExpectXmlBodyFieldCond(x.path, "Equal", y.s)
          <=> \E got \in found : Floats(got) = Floats(Str(y.s))
    BY <2>1 DEF ExpectXmlBodyFieldCond, Evaluate, ValuesEqual
  <2> HIDE DEF found
  <2> QED BY <2>2, <2>3, <2>4, <2>5
<1>3. FieldsAgree
  BY <1>1, <1>2, EqualFields DEF FieldsAgree
<1>4. ASSUME NEW x \in JsonFields, NEW y \in JsonFields, NEW pair \in Opposites,
             ExpectJsonBodyFieldCond(x.path, pair[1], y.e),
             ExpectJsonBodyFieldCond(x.path, pair[2], y.e)
      PROVE  FALSE
  <2>1. PICK a \in FieldOf(response.body, x.path) : Evaluate(a, pair[1], y.e)
    BY <1>4 DEF ExpectJsonBodyFieldCond, FieldOf
  <2>2. PICK b \in FieldOf(response.body, x.path) : Evaluate(b, pair[2], y.e)
    BY <1>4 DEF ExpectJsonBodyFieldCond, FieldOf
  <2>3. a = b /\ IsValue(a)
    BY <1>1, FieldsAre
  <2> QED BY <1>1, <2>1, <2>2, <2>3, OppositeConditions
<1>5. ASSUME NEW x \in JsonFields, NEW y \in JsonFields, y.e.kind = "ints"
      PROVE  ~ExpectJsonBodyFieldCond(x.path, "NotIn", y.e)
  BY <1>5 DEF ExpectJsonBodyFieldCond, IsUsable, ValidateExpected
<1>6. OppositesExclude
  BY <1>4, <1>5 DEF OppositesExclude
<1> QED BY <1>3, <1>6

LEMMA WholeJson ==
  ASSUME IsBody(response.body), NEW x \in Expectations, x.expect = "JsonBody"
  PROVE  Passes(x) <=> \E e \in ExpectedJson(x.e) : Decode(response.body) = {e}
<1>1. Passes(x) <=> \E got \in Decode(response.body), e \in ExpectedJson(x.e) : Floats(got) = Floats(e)
  BY DEF Passes, ExpectJsonBody, Evaluate, ValuesEqual
<1>2. \A got \in Decode(response.body) : Floats(got) = got /\ Decode(response.body) = {got}
  BY FloatsOfValue DEF Decode, IsBody
<1>3. \A e \in ExpectedJson(x.e) : Floats(e) = e
  BY ExpectationsAssumption, FloatsOfValue DEF ExpectedJson
<1> QED BY <1>1, <1>2, <1>3

LEMMA EqualAttrs ==
  ASSUME NEW a, IsFiniteSet(DOMAIN a), a \in [DOMAIN a -> Seq(Symbols)],
         NEW b, IsFiniteSet(DOMAIN b), b \in [DOMAIN b -> Seq(Symbols)],
         AttrsEqual(a, b), \A k \in DOMAIN a : a[k] # <<>>
  PROVE  a = b
<1>1. \A k \in DOMAIN a : k \in DOMAIN b /\ b[k] = a[k]
  BY DEF AttrsEqual
<1>2. DOMAIN a = DOMAIN b
  BY <1>1, FS_Subset DEF AttrsEqual
<1> QED BY <1>1, <1>2

LEMMA EqualTrees ==
  ASSUME NEW tokens, IsXML(tokens), NEW got \in Trees(tokens),
         NEW others, IsXML(others), NEW expected \in Trees(others),
         xmlNodesEqual(got, expected),
         \A p \in DOMAIN got : \A k \in DOMAIN got[p].attrs : got[p].attrs[k] # <<>>
  PROVE  got = expected
<1>1. DOMAIN got = DOMAIN expected
  BY DEF xmlNodesEqual
<1>2. got \in [DOMAIN got -> Nodes(tokens)] /\ expected \in [DOMAIN expected -> Nodes(others)]
  BY TreesAre
<1>3. \A t \in StartTags(tokens) \cup StartTags(others) :
        IsFiniteSet(DOMAIN t.attrs) /\ t.attrs \in [DOMAIN t.attrs -> Seq(Symbols)]
  BY DEF StartTags, IsXML, IsToken
<1>4. ASSUME NEW p \in DOMAIN got PROVE got[p] = expected[p]
  <2>1. got[p] \in Nodes(tokens) /\ expected[p] \in Nodes(others)
    BY <1>1, <1>2
  <2>2. /\ \E t \in StartTags(tokens) : got[p].attrs = t.attrs
        /\ \E t \in StartTags(others) : expected[p].attrs = t.attrs
    BY <2>1 DEF Nodes
  <2>3. AttrsEqual(got[p].attrs, expected[p].attrs)
    BY DEF xmlNodesEqual
  <2>4. got[p].attrs = expected[p].attrs
    BY <1>3, <2>2, <2>3, EqualAttrs
  <2>5. got[p].name = expected[p].name /\ got[p].text = expected[p].text
    BY DEF xmlNodesEqual
  <2> QED BY <2>1, <2>4, <2>5 DEF Nodes
<1> QED BY <1>1, <1>2, <1>4

LEMMA SameTrees ==
  ASSUME NEW tree
  PROVE  xmlNodesEqual(tree, tree)
BY DEF xmlNodesEqual, AttrsEqual

LEMMA BodiesAreHeld ==
  ASSUME IsBody(response.body)
  PROVE  BodiesMatch
<1> DEFINE got == Tree(response.body)
<1>1. ASSUME NEW x \in Expectations, x.expect = "XmlBody"
      PROVE  /\ got # NoTree /\ got = parseXML(x.tokens) => Passes(x)
             /\ Passes(x) /\ ~(\E p \in DOMAIN got : \E k \in DOMAIN got[p].attrs : got[p].attrs[k] = <<>>)
                  => got = parseXML(x.tokens)
  <2> DEFINE expected == parseXML(x.tokens)
  <2>1. Passes(x) <=> got # NoTree /\ expected # NoTree /\ xmlNodesEqual(got, expected)
    BY <1>1 DEF Passes, ExpectXmlBody
  <2>2. IsXML(x.tokens) /\ expected \in Trees(x.tokens)
    BY <1>1, ExpectationsAssumption, ParsedTrees
  <2>3. got # NoTree => IsXML(response.body.tokens) /\ got \in Trees(response.body.tokens)
    BY ParsedTrees DEF Tree, IsBody
  <2> HIDE DEF got, expected
  <2>4. got # NoTree /\ got = expected => Passes(x)
    BY <2>1, SameTrees
  <2>5. ASSUME Passes(x), ~(\E p \in DOMAIN got : \E k \in DOMAIN got[p].attrs : got[p].attrs[k] = <<>>)
        PROVE  got = expected
    BY <2>1, <2>2, <2>3, <2>5, EqualTrees
  <2> QED BY <2>4, <2>5 DEF expected
<1> QED BY <1>1, WholeJson DEF BodiesMatch

LEMMA LastPart ==
  ASSUME NEW S, NEW s \in Seq(S), s # <<>>
  PROVE  \E i \in DOMAIN s : Last(s) = s[i]
<1>1. DOMAIN s = 1 .. Len(s) /\ Len(s) \in Nat /\ Len(s) # 0
  BY LenProperties, EmptySeq
<1>2. Len(s) \in DOMAIN s
  BY <1>1
<1> QED BY <1>2 DEF Last

LEMMA KeyedPart ==
  ASSUME NEW part, part.key # ""
  PROVE  part # Part("", NoIndex)
<1>1. Part("", NoIndex).key = ""
  BY Zenon DEF Part
<1> QED BY <1>1, Zenon

LEMMA SamePaths ==
  ASSUME NEW v, NEW path \in Paths, \A i \in DOMAIN path : path[i].key # "",
         IsReadable(path)
  PROVE  getJSONPath(v, path) = getValueByPath(v, path)
<1> DEFINE Index(part) == IF part.index = BadIndex THEN 0 ELSE part.index
           taken == [i \in DOMAIN path |-> Part(path[i].key, Index(path[i]))]
<1>1. /\ path \in Seq(Parts) /\ path # <<>> /\ DOMAIN path = 1 .. Len(path) /\ Len(path) \in Nat
      /\ \A i \in DOMAIN path : path[i] \in Parts
      /\ path \in [1 .. Len(path) -> Parts] /\ Len(path) # 0
  <2>1. path \in Seq(Parts) /\ path # <<>>
    BY DEF Paths
  <2> QED BY <2>1, LenProperties, ElementOfSeq, EmptySeq
<1>2. taken = path
  <2>1. \A i \in DOMAIN path : Part(path[i].key, Index(path[i])) = path[i]
    BY <1>1 DEF IsReadable, Part, Parts
  <2>2. path = [i \in DOMAIN path |-> path[i]]
    BY <1>1
  <2> QED BY <2>1, <2>2
<1>3. getJSONPath(v, path) = IF v = Null THEN {} ELSE Found(v, Position(taken))
  BY DEF getJSONPath
<1>4. getValueByPath(v, path) = Found(v, Position(path))
  BY DEF getValueByPath
<1>5. Position(path) # <<>>
  <2>1. PICK i \in DOMAIN path : Last(path) = path[i]
    BY <1>1, LastPart
  <2>2. path[i].key # ""
    BY Zenon
  <2>3. path[i] # Part("", NoIndex)
    BY <2>2, KeyedPart, Zenon
  <2>4. ~SetsNothing(path)
    BY <2>1, <2>3, Zenon DEF SetsNothing
  <2> QED BY <1>1, <2>4, Positions
<1>6. v = Null => Found(v, Position(path)) = {}
  <2>1. Inside(Null) = {}
    BY DEF Inside, IsContainer, Containers, Null
  <2> QED BY <1>5, <2>1 DEF Found, Leads
<1> QED BY <1>2, <1>3, <1>4, <1>6

LEMMA ReadsTheSame ==
  ASSUME NEW v, NEW x \in JsonFields
  PROVE  /\ (\A i \in DOMAIN x.path : x.path[i].index # BadIndex /\ x.path[i].key # "") =>
               getJSONPath(v, x.path) = getValueByPath(v, x.path)
         /\ (\A i \in DOMAIN x.path : x.path[i].key # "") =>
               getValueByPath(v, x.path) \subseteq getJSONPath(v, x.path)
<1>1. x.path \in Paths
  BY ExpectationsAssumption DEF JsonFields
<1>2. ~IsReadable(x.path) => getValueByPath(v, x.path) = {}
  BY DEF getValueByPath
<1>3. IsReadable(x.path) <=> \A i \in DOMAIN x.path : x.path[i].index # BadIndex
  BY DEF IsReadable
<1> QED BY <1>1, <1>2, <1>3, SamePaths

\* For any expectations and any replies, cut short or not: an expectation that passes tells
\* the truth about the response, one and its opposite do not both pass, and both find at a
\* path what a step of a mock finds there (request.go, expect_condition.go).
THEOREM ExpectationsTellTheTruth == Spec => []ExpectationsAreTrue
<1>1. IInv => ExpectationsAreTrue
  <2> SUFFICES ASSUME IInv PROVE ExpectationsAreTrue
    OBVIOUS
  <2>1. IsBody(response.body)
    BY DEF IInv, TypeOK
  <2>2. PassedExpectationsHold
    BY <2>1, BodiesAreHeld, FieldsAreHeld DEF PassedExpectationsHold
  <2>3. \A tree, path : getXMLPathValue(tree, path) \subseteq getXMLPath(tree, path)
    BY DEF getXMLPathValue
  <2>4. StagesReadWhatMocksRead
    BY <2>3, ReadsTheSame DEF StagesReadWhatMocksRead
  <2> QED BY <2>2, <2>4 DEF ExpectationsAreTrue
<1> QED BY <1>1, InvariantHolds, PTL
==============================================================================
