------------------------------ MODULE Request ------------------------------
(***************************************************************************)
(* A stage that sends a request and expects things of the response         *)
(* (pkg/v1/request.go, expect_condition.go, assert.go).                    *)
(*                                                                         *)
(* The options build the configuration one after the other; the request is *)
(* sent, without a deadline; the expectations look at the response, until  *)
(* one fails the stage.  Bodies are documents (Documents), or texts that   *)
(* are none.                                                               *)
(***************************************************************************)
EXTENDS XmlDocuments, TLC

CONSTANTS
  Options,        \* options that stages pass
  MaxOptions,     \* bound on the options of a request
  Replies,        \* responses of servers: [status, header, body]
  Servers,        \* [https, trusted]
  Expectations    \* what stages expect

ASSUME RequestAssumption == MaxOptions \in Nat

JSON(v) == [text |-> "json", v |-> v]
XML(tokens) == [text |-> "xml", tokens |-> tokens]
Other == [text |-> "other"]
NoBody == [text |-> "none"]
IsBody(body) == CASE body.text = "json" -> IsValue(body.v)
                  [] body.text = "xml" -> IsXML(body.tokens)
                  [] OTHER -> body \in {Other, NoBody}

JsonFields == {x \in Expectations : x.expect \in {"JsonBodyField", "JsonBodyFieldCond"}}
XmlFields == {x \in Expectations : x.expect \in {"XmlBodyField", "XmlBodyFieldCond"}}

ASSUME RepliesAssumption ==
  \A r \in Replies : /\ r = [status |-> r.status, header |-> r.header, body |-> r.body]
                     /\ IsBody(r.body)
ASSUME ExpectationsAssumption ==
  \A x \in Expectations :
    /\ x \in JsonFields => /\ x.path \in Paths
                           /\ IF x.e.kind = "ints" THEN x.e.ns \in Seq(Int) ELSE IsValue(x.e)
    /\ x.expect = "JsonBody" => IsValue(IF x.e.kind = "json" THEN x.e.v ELSE x.e)
    /\ x.expect = "XmlBody" => IsXML(x.tokens)

VARIABLES
  pc,         \* "building", "sent", "checking", "failed"
  dry,        \* isDryRun
  server,     \* what is behind the URL
  used,       \* the options so far
  cfg,        \* restRequestConfig
  sent,       \* the headers of the request, under their canonical names
  response

vars == <<pc, dry, server, used, cfg, sent, response>>
-----------------------------------------------------------------------------
\* json.Unmarshal; the XML decoder finds no element in a text that is none.
Decode(body) == IF body.text = "json" THEN {Floats(body.v)} ELSE {}
Tree(body) == IF body.text = "xml" THEN parseXML(body.tokens) ELSE NoTree

\* A body that the connection cut short.  What is left of JSON is no JSON, but for the first
\* digits of a number alone; XML may end between two tokens or inside a text.
Beginnings(n) == {m \in (-n .. n) \cup (n .. -n) : IsStrictPrefix(Decimal(m), Decimal(n))}
CutTokens(tokens) ==
  {SubSeq(tokens, 1, n) : n \in 0 .. Len(tokens) - 1}
  \cup UNION {{Append(SubSeq(tokens, 1, n - 1), CharData(SubSeq(tokens[n].s, 1, k))) :
                 k \in 1 .. Len(tokens[n].s) - 1} :
               n \in {i \in DOMAIN tokens : tokens[i].token = "chars"}}
Cuts(body) ==
  CASE body.text = "json" ->
         {Other} \cup IF IsNumber(body.v) THEN {JSON(Number(m)) : m \in Beginnings(body.v.n)} ELSE {}
    [] body.text = "xml" -> {XML(tokens) : tokens \in CutTokens(body.tokens)}
    [] OTHER -> {body}

Nil == [text |-> "nil"]
Unmarshalable == [text |-> "unmarshalable"]   \* what json.Marshal or xml.Marshal refuses

ContentType == "Content-Type"
Canonical(key) == IF key = "content-type" THEN ContentType ELSE key
-----------------------------------------------------------------------------
(***************************************************************************)
(* Options.                                                                *)
(***************************************************************************)
NoHeaders == [k \in {} |-> ""]
NewConfig == [method |-> "GET", headers |-> NoHeaders, body |-> NoBody, ignoreServerSSL |-> {}]

OneHeader(key, value) == [k \in {key} |-> value]
Over(given, old) ==
  [k \in DOMAIN given \cup DOMAIN old |-> IF k \in DOMAIN given THEN given[k] ELSE old[k]]

\* Mutant: a header that is there stays.
KeepHeaders(c, headers) == [c EXCEPT !.headers = Over(@, headers)]

PutHeaders(c, headers) == [c EXCEPT !.headers = Over(headers, @)]
PutHeader(c, key, value) == PutHeaders(c, OneHeader(key, value))

\* Mutant: the type of the body always counts.
DefaultTypeAlways(c, type) == PutHeader(c, ContentType, type)

DefaultType(c, type) ==
  IF ContentType \in DOMAIN c.headers THEN c ELSE PutHeader(c, ContentType, type)

Marshals(o) == o.option \in {"WithJSONBody", "WithXMLBody"} /\ o.body # Nil
TypeOf(o) == IF o.option = "WithJSONBody" THEN "application/json" ELSE "application/xml"

\* An unmarshalable value fails; in a dry run it leaves no body.
WithBodyOf(c, o) ==
  DefaultType([c EXCEPT !.body = IF o.body = Unmarshalable THEN NoBody ELSE o.body], TypeOf(o))

Apply(c, o) ==
  CASE o.option = "WithMethod" -> IF o.method = "" THEN c ELSE [c EXCEPT !.method = o.method]
    [] o.option = "WithHeader" -> PutHeader(c, o.key, o.value)
    [] o.option = "WithHeaders" -> PutHeaders(c, o.headers)
    [] Marshals(o) -> WithBodyOf(c, o)
    [] o.option = "WithBody" -> [c EXCEPT !.body = o.body]
    [] o.option = "WithIgnoreServerSSL" -> [c EXCEPT !.ignoreServerSSL = {o.ignore}]
    [] OTHER -> c

Option ==
  /\ pc = "building" /\ Len(used) < MaxOptions
  /\ \E o \in Options :
       /\ used' = Append(used, o)
       /\ cfg' = Apply(cfg, o)
       /\ pc' = IF Marshals(o) /\ o.body = Unmarshalable /\ ~dry THEN "failed" ELSE pc
  /\ UNCHANGED <<dry, server, sent, response>>
-----------------------------------------------------------------------------
EmptyResponse == [status |-> 0, header |-> NoHeaders, body |-> NoBody]

\* Keys that differ only in their case end in one header: which value it gets, the order of
\* the map decides.
SentHeaders(headers) ==
  {f \in [{Canonical(k) : k \in DOMAIN headers} -> {headers[k] : k \in DOMAIN headers}] :
     \A name \in DOMAIN f : \E k \in DOMAIN headers : Canonical(k) = name /\ f[name] = headers[k]}

SendRESTRequest ==
  /\ pc = "building"
  /\ IF dry THEN pc' = "checking" /\ response' = EmptyResponse /\ UNCHANGED sent
     ELSE /\ UNCHANGED response
          /\ \/ cfg.method = "BAD METHOD" /\ pc' = "failed" /\ UNCHANGED sent
             \/ cfg.method # "BAD METHOD" /\ pc' = "sent" /\ sent' \in SentHeaders(cfg.headers)
  /\ UNCHANGED <<dry, server, used, cfg>>

\* With no word from the stage, the certificates of servers are not verified.
Verifies == server.https /\ cfg.ignoreServerSSL = {FALSE}

\* client.Do, and ReadAll, whose error is ignored.
Reply ==
  /\ pc = "sent"
  /\ Verifies => server.trusted
  /\ \E reply \in Replies : \E body \in {reply.body} \cup Cuts(reply.body) :
       response' = [reply EXCEPT !.body = body]
  /\ pc' = "checking"
  /\ UNCHANGED <<dry, server, used, cfg, sent>>

DoFails ==
  /\ pc = "sent"
  /\ pc' = "failed"
  /\ UNCHANGED <<dry, server, used, cfg, sent, response>>
-----------------------------------------------------------------------------
(***************************************************************************)
(* Expectations.                                                           *)
(***************************************************************************)
\* A string is the text of a document.
ExpectedJson(e) ==
  CASE e.kind = "json" -> {Floats(e.v)} [] e.kind = "string" -> {} [] OTHER -> {Floats(e)}

ExpectJsonBody(e) ==
  \E got \in Decode(response.body), expected \in ExpectedJson(e) : Evaluate(got, "Equal", expected)

\* reflect.DeepEqual tells an int from a float64.
ExpectJsonBodyField(path, e) ==
  \E got \in UNION {getValueByPath(v, path) : v \in Decode(response.body)} :
    IF IsNumber(got) /\ IsNumber(e) THEN ToFloat64(got) = ToFloat64(e) ELSE got = e

IsUsable(condition, e) == condition \in Conditions /\ ValidateExpected(condition, e)

ExpectJsonBodyFieldCond(path, condition, e) ==
  /\ IsUsable(condition, e)
  /\ \E got \in UNION {getValueByPath(v, path) : v \in Decode(response.body)} :
       Evaluate(got, condition, e)

\* Mutant: every attribute of the one is one of the other.
AttrsEqualOneWay(a, b) == \A k \in DOMAIN a : k \in DOMAIN b /\ b[k] = a[k]

\* An attribute that b has not reads as an empty string.
AttrsEqual(a, b) ==
  /\ Cardinality(DOMAIN a) = Cardinality(DOMAIN b)
  /\ \A k \in DOMAIN a : (IF k \in DOMAIN b THEN b[k] ELSE <<>>) = a[k]

xmlNodesEqual(a, b) ==
  /\ DOMAIN a = DOMAIN b
  /\ \A p \in DOMAIN a : /\ a[p].name = b[p].name /\ a[p].text = b[p].text
                         /\ AttrsEqual(a[p].attrs, b[p].attrs)

ExpectXmlBody(tokens) ==
  LET got == Tree(response.body)
  IN  got # NoTree /\ parseXML(tokens) # NoTree /\ xmlNodesEqual(got, parseXML(tokens))

ExpectXmlBodyField(path, s) == Str(s) \in getXMLPathValue(Tree(response.body), path)

ExpectXmlBodyFieldCond(path, condition, s) ==
  /\ IsUsable(condition, Str(s))
  /\ \E got \in getXMLPathValue(Tree(response.body), path) : Evaluate(got, condition, Str(s))

AssertCondition(actual, condition, e) == IsUsable(condition, e) /\ Evaluate(actual, condition, e)

Passes(x) ==
  CASE x.expect = "StatusCode" -> response.status = x.status
    [] x.expect = "Header" -> /\ Canonical(x.key) \in DOMAIN response.header
                              /\ response.header[Canonical(x.key)] = x.value
    [] x.expect = "JsonBody" -> ExpectJsonBody(x.e)
    [] x.expect = "JsonBodyField" -> ExpectJsonBodyField(x.path, x.e)
    [] x.expect = "JsonBodyFieldCond" -> ExpectJsonBodyFieldCond(x.path, x.condition, x.e)
    [] x.expect = "XmlBody" -> ExpectXmlBody(x.tokens)
    [] x.expect = "XmlBodyField" -> ExpectXmlBodyField(x.path, x.s)
    [] x.expect = "XmlBodyFieldCond" -> ExpectXmlBodyFieldCond(x.path, x.condition, x.s)
    [] x.expect = "Condition" -> AssertCondition(x.actual, x.condition, x.e)

\* One that fails panics; a dry run skips them all.
Expect ==
  /\ pc = "checking"
  /\ \E x \in Expectations : pc' = IF dry \/ Passes(x) THEN pc ELSE "failed"
  /\ UNCHANGED <<dry, server, used, cfg, sent, response>>

Init ==
  /\ pc = "building" /\ dry \in BOOLEAN /\ server \in Servers
  /\ used = <<>> /\ cfg = NewConfig
  /\ sent = NoHeaders /\ response = EmptyResponse

Next == Option \/ SendRESTRequest \/ Reply \/ DoFails \/ Expect

Spec == Init /\ [][Next]_vars
-----------------------------------------------------------------------------
\* The headers that an option of the caller gives, and the names among them that end in the
\* Content-Type of the request.
GivenBy(o) == CASE o.option = "WithHeader" -> OneHeader(o.key, o.value)
                [] o.option = "WithHeaders" -> o.headers
                [] OTHER -> NoHeaders
TypeNames(headers) == {k \in DOMAIN headers : Canonical(k) = ContentType}
TypesIn(headers) == {headers[k] : k \in TypeNames(headers)}

TypeOptions == {i \in DOMAIN used : TypeNames(GivenBy(used[i])) # {}}
BodyOptions == {i \in DOMAIN used : Marshals(used[i])}
Given == UNION {TypesIn(GivenBy(used[i])) : i \in TypeOptions}

\* The Content-Type is the last that the caller gives, with WithHeader or among others with
\* WithHeaders, before or after the body.  Where one is given under a name in other letters,
\* it is one of those given, or of a body.  Without any it is that of the first body, even
\* if a later option replaces that body.
ContentTypeIsTheCallers ==
  pc = "sent" =>
    CASE TypeOptions = {} /\ BodyOptions = {} -> ContentType \notin DOMAIN sent
      [] TypeOptions = {} /\ BodyOptions # {} ->
           LET first == CHOOSE i \in BodyOptions : \A j \in BodyOptions : i <= j
           IN  sent[ContentType] = TypeOf(used[first])
      [] TypeOptions # {} ->
           LET last == CHOOSE i \in TypeOptions : \A j \in TypeOptions : j <= i
           IN  IF \A i \in TypeOptions : TypeNames(GivenBy(used[i])) = {ContentType}
               THEN sent[ContentType] = GivenBy(used[last])[ContentType]
               ELSE sent[ContentType] \in Given \cup {TypeOf(used[i]) : i \in BodyOptions}

\* What is left of a body passes as a whole one only if it is the one expected, whatever the
\* numbers of Go.  XML is equal up to attributes of the reply that are empty.
BodiesMatch ==
  \A x \in Expectations :
    /\ x.expect = "JsonBody" =>
         (Passes(x) <=> \E e \in ExpectedJson(x.e) : Decode(response.body) = {e})
    /\ x.expect = "XmlBody" =>
         LET got == Tree(response.body)
             emptyAttrs == \E p \in DOMAIN got : \E k \in DOMAIN got[p].attrs : got[p].attrs[k] = <<>>
         IN  /\ got # NoTree /\ got = parseXML(x.tokens) => Passes(x)
             /\ Passes(x) /\ ~emptyAttrs => got = parseXML(x.tokens)

\* Two ways to expect a field to be equal agree, but for an int inside a slice or a map.
FieldsAgree ==
  /\ \A x, y \in JsonFields :
       LET same == ExpectJsonBodyField(x.path, y.e)
           equal == ExpectJsonBodyFieldCond(x.path, "Equal", y.e)
       IN  /\ same => equal
           /\ equal /\ ~same => y.e.kind \in {"slice", "map"} /\ Floats(y.e) # y.e
  /\ \A x, y \in XmlFields :
       ExpectXmlBodyField(x.path, y.s) <=> ExpectXmlBodyFieldCond(x.path, "Equal", y.s)

Opposites == { <<"Equal", "NotEqual">>, <<"Contains", "NotContains">>, <<"In", "NotIn">>,
               <<"Empty", "NotEmpty">>, <<"LessThan", "GreaterThanOrEqual">> }

\* Of a condition and its opposite at most one passes; a value in a list is not NotIn it,
\* in a list of a type that conditions do not look into, either.
OppositesExclude ==
  \A x, y \in JsonFields :
    /\ \A pair \in Opposites : ~(/\ ExpectJsonBodyFieldCond(x.path, pair[1], y.e)
                                 /\ ExpectJsonBodyFieldCond(x.path, pair[2], y.e))
    /\ y.e.kind = "ints" /\ (\E n \in ToSet(y.e.ns) : ExpectJsonBodyField(x.path, Number(n))) =>
         ~ExpectJsonBodyFieldCond(x.path, "NotIn", y.e)

PassedExpectationsHold == pc = "checking" => BodiesMatch /\ FieldsAgree /\ OppositesExclude

\* What an assertion of a stage finds at a path that has a key in every part, a step of a
\* mock finds too, and the same; only an index that is no number makes a difference.
StagesReadWhatMocksRead ==
  pc = "checking" =>
    /\ \A v \in Decode(response.body) : \A x \in JsonFields :
         /\ (\A i \in DOMAIN x.path : x.path[i].index # BadIndex /\ x.path[i].key # "") =>
               getJSONPath(v, x.path) = getValueByPath(v, x.path)
         /\ (\A i \in DOMAIN x.path : x.path[i].key # "") =>
               getValueByPath(v, x.path) \subseteq getJSONPath(v, x.path)
    /\ \A x \in XmlFields :
         getXMLPathValue(Tree(response.body), x.path) \subseteq getXMLPath(Tree(response.body), x.path)

\* An expectation that passes tells the truth about the response, and looks where a step of
\* a mock would look.
ExpectationsAreTrue == PassedExpectationsHold /\ StagesReadWhatMocksRead
=============================================================================
