----------------------------- MODULE MockHandler -----------------------------
(***************************************************************************)
(* One call of a mock route: the dynamic mock server looks for a route     *)
(* (server.go) and a HandlerExecutor executes its steps (handler.go), one  *)
(* by one, on the variables, the active case and the response of this call.*)
(*                                                                         *)
(* What client.go builds is the set Steps; a route has any sequence of at  *)
(* most MaxSteps of them.  Their numbers are the ints that the builders    *)
(* take: they arrive as JSON, a float64 each.  done remembers the steps    *)
(* and, for each, the case that was active before it.                      *)
(***************************************************************************)
EXTENDS XmlDocuments

CONSTANTS
  Calls,      \* requests: path, header, query, json, xml
  Patterns,   \* paths of routes, in the order of sort.Strings
  Steps,      \* steps of routes, as the builders of client.go make them
  MaxSteps,   \* bound on the steps of a route
  MaxInt,     \* largest int: 2^63 - 1, less in the checks
  MaxLength,  \* longest []byte that make gives
  Millisecond \* nanoseconds of it: 10^6, fewer in the checks

Ints64 == -MaxInt - 1 .. MaxInt

\* A string argument that is the template {{.name}}.
Ref(name) == [kind |-> "ref", name |-> name]
IsArg(arg) == arg.kind = "ref" \/ IsValue(arg)

Segments == [param : BOOLEAN, text : STRING]   \* of a pattern
ExtractSources == {"Header", "Query", "Path", "PathParam", "JsonBody", "XmlBody"}

ASSUME BoundsAssumption == MaxInt \in Nat /\ MaxInt > 999 /\ MaxLength \in Nat /\ MaxSteps \in Nat
                            /\ Millisecond \in Nat
ASSUME PathsAssumption ==
  Patterns \in Seq(Seq(Segments)) /\ \A c \in Calls : c.path \in Seq(STRING)
ASSUME CallsAssumption ==
  \A c \in Calls : /\ IsValue(c.json) /\ IsXML(c.xml)
                   /\ \A key \in DOMAIN c.header : c.header[key] \in Seq(Symbols)
                   /\ \A key \in DOMAIN c.query : c.query[key] \in Seq(Symbols)
ASSUME StepsAssumption ==
  \A s \in Steps :
    /\ s.func = "SetStatusCode" => s.code \in Ints64
    /\ s.func = "SetWait" => s.ms \in Ints64
    /\ s.func \in {"SetRandomWait", "GenerateRandomInt", "GenerateRandomDecimal"} =>
         s.min \in Ints64 /\ s.max \in Ints64
    /\ s.func \in {"GenerateRandomString", "GenerateRandomIntFixLength"} => s.length \in Ints64
    /\ s.func = "DynamicVarSubstring" => s.start \in Ints64 /\ s.end \in Ints64
    /\ s.func = "DynamicVarJoin" => /\ s.separator \in Seq(Symbols)
                                    /\ Len(s.parts) \in Nat
                                    /\ s.parts = [i \in 1 .. Len(s.parts) |-> s.parts[i]]
                                    /\ \A i \in DOMAIN s.parts : IsArg(s.parts[i])
    /\ s.func = "HashedString" => s.algorithm \in STRING
    /\ s.func = "SetHeader" => s.value.kind \in {"ref", "string"}
    /\ s.func = "If" => IsArg(s.toBe)
    /\ s.func = "Extract" =>
         /\ s.source \in ExtractSources
         /\ s.source = "JsonBody" => s.at \in Paths
         /\ s.source = "XmlBody" => s.at \in XMLPaths

VARIABLES
  outOfRange,  \* int() of a float64 that is too large, on this machine
  pc,          \* "routing", "steps", then "answered", "notFound" or "panicked"
  call,        \* the request
  pathParams,  \* what the route captured
  variables,   \* dynamic variables
  activeCase,
  status, body, headers, fixedDelay, randomWait,   \* the response under construction
  waited,      \* how long Finalize slept
  done

setup == <<status, body, headers, fixedDelay, randomWait>>
vars == <<outOfRange, pc, call, pathParams, variables, activeCase, setup, waited, done>>

NoFields == [x \in {} |-> <<>>]

\* Steps that look at the request: at is a name or a path.
If(source, at, condition, value, var, toBe) ==
  [func |-> "If", source |-> source, at |-> at, condition |-> condition, value |-> value,
   var |-> var, toBe |-> toBe]
IfSetCase(source, at, condition, value, case) ==
  [func |-> "IfSetCase", source |-> source, at |-> at, condition |-> condition, value |-> value,
   case |-> case]
IfRequestJsonTypeSetCase(at, type, case) == IfSetCase("JsonType", at, "Equal", Str(<<type>>), case)
Extract(source, at, var) == [func |-> "Extract", source |-> source, at |-> at, var |-> var]

\* The steps that may come next.
StepsOf(func) == IF pc = "steps" /\ Len(done) < MaxSteps THEN {s \in Steps : s.func = func} ELSE {}
StatusCodes == 100 .. 999   \* others make net/http's WriteHeader panic
-----------------------------------------------------------------------------
(***************************************************************************)
(* Routes.  A path is what strings.Split makes of it at each "/", so that  *)
(* "/a/" is "", "a", "".  A segment of a pattern is literal or a parameter *)
(* "{name}".                                                               *)
(***************************************************************************)
Literal(text) == [param |-> FALSE, text |-> text]
Param(name) == [param |-> TRUE, text |-> name]

HasParams(pattern) == \E i \in DOMAIN pattern : pattern[i].param

IsExact(pattern, path) ==
  ~HasParams(pattern) /\ [i \in DOMAIN pattern |-> pattern[i].text] = path

\* Without the slashes at both ends.
splitPath(path) == Trim(path, "")
splitPattern(pattern) == Trim(pattern, Literal(""))

\* The last of equally named parameters wins.
matchPathPattern(pattern, path) ==
  LET ps == splitPattern(pattern)
      segments == splitPath(path)
      Named(name) == {i \in DOMAIN ps : ps[i] = Param(name)}
  IN  IF /\ Len(ps) = Len(segments)
         /\ \A i \in DOMAIN ps : IF ps[i].param THEN segments[i] # "" ELSE segments[i] = ps[i].text
      THEN {[name \in {ps[i].text : i \in {j \in DOMAIN ps : ps[j].param}} |->
               <<segments[CHOOSE i \in Named(name) : \A j \in Named(name) : j <= i]>>]}
      ELSE {}

\* Mutant: patterns before exact paths.
findRouteLockedPatterns(registered, path) ==
  LET exact == {i \in registered : IsExact(Patterns[i], path)}
      fit == {i \in registered : /\ HasParams(Patterns[i])
                                 /\ matchPathPattern(Patterns[i], path) # {}}
      first == {i \in fit : \A j \in fit : i <= j}
      Routes(i, captures) == {[route |-> i, params |-> params] : params \in captures}
  IN  IF fit # {} THEN UNION {Routes(i, matchPathPattern(Patterns[i], path)) : i \in first}
      ELSE UNION {Routes(i, {NoFields}) : i \in exact}

\* The route among those registered, and what it captures.  At most one element.
findRouteLocked(registered, path) ==
  LET exact == {i \in registered : IsExact(Patterns[i], path)}
      fit == {i \in registered : /\ HasParams(Patterns[i])
                                 /\ matchPathPattern(Patterns[i], path) # {}}
      first == {i \in fit : \A j \in fit : i <= j}
      Routes(i, captures) == {[route |-> i, params |-> params] : params \in captures}
  IN  IF exact # {} THEN UNION {Routes(i, {NoFields}) : i \in exact}
      ELSE UNION {Routes(i, matchPathPattern(Patterns[i], path)) : i \in first}

\* null: the routes registered with null for their steps, which answer "not found".
HandleMockRequest ==
  /\ pc = "routing"
  /\ \E registered \in SUBSET DOMAIN Patterns, null \in SUBSET DOMAIN Patterns :
       LET found == findRouteLocked(registered, call.path) IN
       \/ /\ \A route \in found : route.route \in null
          /\ pc' = "notFound"
          /\ UNCHANGED <<pathParams, variables>>
       \/ \E route \in found :
            /\ route.route \notin null
            /\ pc' = "steps"
            /\ pathParams' = route.params
            /\ variables' = [name \in DOMAIN route.params |-> Str(route.params[name])]
  /\ UNCHANGED <<outOfRange, call, activeCase, setup, waited, done>>

OutOfRange == {-MaxInt - 1, MaxInt}   \* amd64, arm64

Init ==
  /\ outOfRange \in OutOfRange
  /\ pc = "routing"
  /\ call \in Calls
  /\ pathParams = NoFields /\ variables = NoFields
  /\ activeCase = ""
  /\ status = 200 /\ body = Str(<<>>) /\ headers = NoFields
  /\ fixedDelay = 0 /\ randomWait = <<0, 0>> /\ waited = 0
  /\ done = <<>>
-----------------------------------------------------------------------------
(***************************************************************************)
(* Arguments and conditions.                                               *)
(***************************************************************************)
resolveArg(arg) ==
  IF arg.kind # "ref" THEN Floats(arg)
  ELSE IF arg.name \in DOMAIN variables /\ variables[arg.name] # Null
       THEN Str(Text(variables[arg.name])) ELSE Str(<<"<no value>">>)

ValueOr(found, default) == IF found = {} THEN default ELSE CHOOSE v \in found : TRUE
Lookup(fields, key) == Str(IF key \in DOMAIN fields THEN fields[key] ELSE <<>>)
JsonAt(path) == ValueOr(getJSONPath(Floats(call.json), path), Null)
URLPath == Join([i \in DOMAIN call.path |-> IF call.path[i] = "" THEN <<>> ELSE <<call.path[i]>>],
                <<"/">>)

getTypeOf(v) ==
  CASE v.kind = "bool" -> "boolean" [] v.kind = "slice" -> "array"
    [] v.kind = "map" -> "object" [] OTHER -> v.kind

Variable(name) == IF name \in DOMAIN variables THEN variables[name] ELSE Null

\* What a condition or an extraction looks at.
Actual(step) ==
  CASE step.source = "Header" -> Lookup(call.header, step.at)
    [] step.source = "Query" -> Lookup(call.query, step.at)
    [] step.source = "Path" -> Str(URLPath)
    [] step.source = "PathParam" -> Lookup(pathParams, step.at)
    [] step.source = "Variable" -> Variable(step.at)
    [] step.source = "JsonBody" -> JsonAt(step.at)
    [] step.source = "XmlBody" -> ValueOr(getXMLPath(parseXML(call.xml), step.at), Null)
    [] step.source = "JsonType" -> Str(<<getTypeOf(JsonAt(step.at))>>)
    [] step.source = "JsonArrayLength" ->
         LET v == JsonAt(step.at) IN Number(IF v.kind = "slice" THEN Cardinality(Members(v)) ELSE -1)
    [] step.source = "JsonObjectLength" ->
         LET v == JsonAt(step.at)
         IN  Number(IF v.kind = "map" THEN Cardinality(Members(v)) ELSE -1)

checkCondition(step) ==
  Evaluate(Actual(step), step.condition,
           IF step.source = "JsonType" THEN step.value ELSE resolveArg(step.value))

toFloat(v) == CASE v.kind = "number" -> ToFloat64(v)
                [] v.kind = "string" -> ValueOr(ParseFloat(v.s), 0)
                [] OTHER -> 0

\* int() of a float64: out of range, the result is the machine's choice.
ToInt(x) ==
  CASE x \in Ints64 -> x [] x < -MaxInt - 1 -> -MaxInt - 1 [] OTHER -> outOfRange

\* An int of a builder, as the step gets it.
Received(n) == ToInt(Nearest(n))

\* A result of arithmetic in the width of an int.
Wrap(n) == ((n + MaxInt + 1) % (2 * (MaxInt + 1))) - MaxInt - 1
-----------------------------------------------------------------------------
(***************************************************************************)
(* Steps.                                                                  *)
(***************************************************************************)
Executes(step) ==
  /\ done' = Append(done, [step |-> step, case |-> activeCase])
  /\ UNCHANGED <<outOfRange, call, pathParams, waited>>

With(fields, key, value) ==
  [k \in DOMAIN fields \cup {key} |-> IF k = key THEN value ELSE fields[k]]
Assign(name, value) == variables' = With(variables, name, value)
Keeps == UNCHANGED <<pc, activeCase, setup>>
Panics == pc' = "panicked" /\ UNCHANGED <<variables, activeCase, setup>>

IfRequest == \E step \in StepsOf("If") :
  /\ Executes(step) /\ Keeps
  /\ IF checkCondition(step) THEN Assign(step.var, resolveArg(step.toBe))
     ELSE UNCHANGED variables

\* Mutant: the first match is kept.
IfRequestSetCaseFirst == \E step \in StepsOf("IfSetCase") :
  /\ Executes(step)
  /\ activeCase' = IF activeCase = "" /\ checkCondition(step) THEN step.case ELSE activeCase
  /\ UNCHANGED <<pc, variables, setup>>

IfRequestSetCase == \E step \in StepsOf("IfSetCase") :
  /\ Executes(step)
  /\ activeCase' = IF checkCondition(step) THEN step.case ELSE activeCase
  /\ UNCHANGED <<pc, variables, setup>>

ExtractRequest == \E step \in StepsOf("Extract") :
  LET value == Actual(step) IN
  /\ Executes(step) /\ Keeps
  /\ IF step.source \in {"JsonBody", "XmlBody"} /\ value = Null THEN UNCHANGED variables
     ELSE Assign(step.var, value)

Letters == {"a", "7"}   \* bound on what randomString picks from

GenerateRandomString == \E step \in StepsOf("GenerateRandomString") :
  LET length == Received(step.length) IN
  /\ Executes(step)
  /\ IF length < 0 \/ length > MaxLength THEN Panics
     ELSE /\ \E s \in [1 .. length -> Letters] : Assign(step.var, Str(s))
          /\ Keeps

\* rand.Intn(max-min+1) + min, of which the ends stand for all.  Intn panics below 1.
RandomBetween(step, min, max) ==
  IF Wrap(Wrap(max - min) + 1) < 1 THEN Panics
  ELSE /\ \E n \in {min, max} : Assign(step.var, Number(n))
       /\ Keeps

GenerateRandomInt == \E step \in StepsOf("GenerateRandomInt") :
  Executes(step) /\ RandomBetween(step, Received(step.min), Received(step.max))

powers[n \in Nat] == IF n = 0 THEN 1 ELSE Nearest(10 * powers[n - 1])
pow10(n) == powers[IF n < 0 THEN 0 ELSE n]

GenerateRandomIntFixLength == \E step \in StepsOf("GenerateRandomIntFixLength") :
  LET length == Received(step.length) IN
  /\ Executes(step)
  /\ RandomBetween(step, ToInt(pow10(Wrap(length - 1))), ToInt(Nearest(pow10(length) - 1)))

\* min + rand.Float64()*(max-min): rounded to integers here, and never a panic.
GenerateRandomDecimal == \E step \in StepsOf("GenerateRandomDecimal") :
  /\ Executes(step) /\ Keeps
  /\ LET min == Nearest(step.min)
         max == Nearest(step.max)
     IN  \E n \in (min .. max) \cup (max .. min) : Assign(step.var, Float(Nearest(n)))

\* A hash is written as its algorithm before the text.
HashedString == \E step \in StepsOf("HashedString") :
  /\ Executes(step) /\ Keeps
  /\ Assign(step.var, IF step.algorithm \notin {"MD5", "SHA256"} THEN Str(<<>>)
                      ELSE Str(<<step.algorithm>> \o Text(Variable(step.from))))

ConvertToString == \E step \in StepsOf("ConvertToString") :
  /\ Executes(step) /\ Keeps
  /\ IF step.var \notin DOMAIN variables THEN UNCHANGED variables
     ELSE Assign(step.var, Str(Text(variables[step.var])))

ConvertToInt == \E step \in StepsOf("ConvertToInt") :
  /\ Executes(step) /\ Keeps
  /\ IF step.var \notin DOMAIN variables THEN UNCHANGED variables
     ELSE Assign(step.var, Number(ToInt(toFloat(variables[step.var]))))

\* s[start:end]
SliceOf(s, start, end) ==
  IF 0 <= start /\ start <= end /\ end <= Len(s) THEN {Str(SubSeq(s, start + 1, end))} ELSE {}

\* Mutant: the end is not clipped.
DynamicVarSubstringUnclipped == \E step \in StepsOf("DynamicVarSubstring") :
  LET text == Text(Variable(step.from))
      start == IF Received(step.start) < 0 THEN 0 ELSE Received(step.start)
      end == Received(step.end)
      part == IF start <= end THEN SliceOf(text, start, end) ELSE {Str(<<>>)}
  IN
  /\ Executes(step)
  /\ IF step.from \notin DOMAIN variables THEN UNCHANGED variables /\ Keeps
     ELSE \/ part = {} /\ Panics
          \/ \E s \in part : Assign(step.var, s) /\ Keeps

DynamicVarSubstring == \E step \in StepsOf("DynamicVarSubstring") :
  LET text == Text(Variable(step.from))
      start == IF Received(step.start) < 0 THEN 0 ELSE Received(step.start)
      end == IF Received(step.end) > Len(text) THEN Len(text) ELSE Received(step.end)
      part == IF start <= end THEN SliceOf(text, start, end) ELSE {Str(<<>>)}
  IN
  /\ Executes(step)
  /\ IF step.from \notin DOMAIN variables THEN UNCHANGED variables /\ Keeps
     ELSE \/ part = {} /\ Panics
          \/ \E s \in part : Assign(step.var, s) /\ Keeps

DynamicVarJoin == \E step \in StepsOf("DynamicVarJoin") :
  LET texts == [i \in DOMAIN step.parts |-> Text(resolveArg(step.parts[i]))] IN
  /\ Executes(step) /\ Keeps
  /\ Assign(step.var, Str(Join(texts, step.separator)))

Delete == \E step \in StepsOf("Delete") :
  /\ Executes(step) /\ Keeps
  /\ variables' = [name \in DOMAIN variables \ {step.var} |-> variables[name]]
-----------------------------------------------------------------------------
(***************************************************************************)
(* The response.  A step for another case than the active one does nothing.*)
(***************************************************************************)
\* Mutant: every step sets up.
SetupAlways(func) == StepsOf(func)

Setup(func) == {s \in StepsOf(func) : s.case = activeCase}
SetsUp(step) == Executes(step) /\ UNCHANGED <<pc, variables, activeCase>>

OtherCase ==
  \E func \in {"SetBody", "SetStatusCode", "SetWait", "SetRandomWait", "SetMethod", "SetHeader",
              "CopyHeaderFromRequest"} :
  \E step \in StepsOf(func) \ (IF func = "SetMethod" THEN {} ELSE Setup(func)) :
    SetsUp(step) /\ UNCHANGED setup

\* SetJsonBody and SetXmlBody.  The template is resolved by Finalize.
SetBody == \E step \in Setup("SetBody") :
  /\ SetsUp(step)
  /\ body' = step.body
  /\ UNCHANGED <<status, headers, fixedDelay, randomWait>>

SetStatusCode == \E step \in Setup("SetStatusCode") :
  /\ SetsUp(step)
  /\ status' = Received(step.code)
  /\ UNCHANGED <<body, headers, fixedDelay, randomWait>>

\* time.Duration(ms) * time.Millisecond
Nanoseconds(ms) == Wrap(ms * Millisecond)

SetWait == \E step \in Setup("SetWait") :
  /\ SetsUp(step)
  /\ fixedDelay' = Nanoseconds(Received(step.ms))
  /\ UNCHANGED <<status, body, headers, randomWait>>

SetRandomWait == \E step \in Setup("SetRandomWait") :
  /\ SetsUp(step)
  /\ randomWait' = <<Received(step.min), Received(step.max)>>
  /\ UNCHANGED <<status, body, headers, fixedDelay>>

SetHeader == \E step \in Setup("SetHeader") :
  /\ SetsUp(step)
  /\ headers' = With(headers, step.key, resolveArg(step.value))
  /\ UNCHANGED <<status, body, fixedDelay, randomWait>>

CopyHeaderFromRequest == \E step \in Setup("CopyHeaderFromRequest") :
  LET value == Lookup(call.header, step.key) IN
  /\ SetsUp(step)
  /\ headers' = IF value = Str(<<>>) THEN headers ELSE With(headers, step.key, value)
  /\ UNCHANGED <<status, body, fixedDelay, randomWait>>

\* At the end of the steps, at any length.  Headers and delays come before a panic of
\* WriteHeader, and are lost with the connection; rand.Intn panics before them, if the
\* difference of its ends is no int.
Sleeps == randomWait[2] > 0 /\ randomWait[2] > randomWait[1]
WaitOverflows == Sleeps /\ Wrap(randomWait[2] - randomWait[1]) < 1
Finalize ==
  /\ pc = "steps"
  /\ LET fixed == IF fixedDelay > 0 THEN fixedDelay ELSE 0
         random == IF Sleeps /\ ~WaitOverflows THEN randomWait[1] .. randomWait[2] - 1 ELSE {0}
     IN  \E ms \in random : waited' = fixed + (IF Nanoseconds(ms) > 0 THEN Nanoseconds(ms) ELSE 0)
  /\ IF status \in StatusCodes /\ ~WaitOverflows THEN pc' = "answered" /\ body' = resolveArg(body)
     ELSE pc' = "panicked" /\ UNCHANGED body
  /\ UNCHANGED <<outOfRange, call, pathParams, variables, activeCase, status, headers, fixedDelay,
                 randomWait, done>>

PrepareData == IfRequest \/ IfRequestSetCase \/ ExtractRequest
Generator ==
  \/ GenerateRandomString \/ GenerateRandomInt \/ GenerateRandomIntFixLength
  \/ GenerateRandomDecimal \/ HashedString
DynamicVariable ==
  ConvertToString \/ ConvertToInt \/ DynamicVarSubstring \/ DynamicVarJoin \/ Delete
SetupResponse ==
  \/ OtherCase \/ SetBody \/ SetStatusCode \/ SetWait \/ SetRandomWait \/ SetHeader
  \/ CopyHeaderFromRequest

Next ==
  \/ HandleMockRequest \/ PrepareData \/ Generator \/ DynamicVariable \/ SetupResponse
  \/ Finalize

Spec == Init /\ [][Next]_vars
-----------------------------------------------------------------------------
\* The active case is one that a step sets, and what ran are steps of the route.
Cases == {""} \cup {s.case : s \in {step \in Steps : step.func = "IfSetCase"}}
TypeOK ==
  /\ pc \in {"routing", "steps", "answered", "notFound", "panicked"}
  /\ call \in Calls /\ outOfRange \in OutOfRange
  /\ activeCase \in Cases
  /\ \A name \in DOMAIN variables : IsValue(variables[name])
  /\ \A name \in DOMAIN pathParams : pathParams[name] \in Seq(Symbols)
  /\ status \in Ints64 /\ fixedDelay \in Ints64 /\ randomWait \in Ints64 \X Ints64 /\ waited \in Nat
  /\ done \in Seq([step : Steps, case : Cases]) /\ Len(done) <= MaxSteps

\* The segments that a pattern gives with its parameters replaced.
Params(ps) == {i \in DOMAIN ps : ps[i].param}
Given(ps, params) == [i \in DOMAIN ps |-> IF i \in Params(ps) THEN params[i] ELSE ps[i].text]
Fits(pattern, path) ==
  LET ps == splitPattern(pattern)
      segments == splitPath(path)
  IN  /\ HasParams(pattern)
      /\ \E params \in [Params(ps) -> ToSet(segments) \ {""}] : Given(ps, params) = segments

\* findRouteLocked picks the exact path if it is registered, and else the first of those
\* whose parameters can be replaced by segments to give the path, but for slashes at its
\* ends; what it captures gives the path back.
RouteIsRight(registered, path) ==
  LET found == findRouteLocked(registered, path)
      exact == {i \in registered : IsExact(Patterns[i], path)}
  IN  /\ {r.route : r \in found} =
            IF exact # {} THEN exact
            ELSE {i \in registered : /\ Fits(Patterns[i], path)
                                     /\ \A j \in registered : Fits(Patterns[j], path) => i <= j}
      /\ exact = {} =>
           \A r \in found :
             LET ps == splitPattern(Patterns[r.route]) IN
             IsInjective([i \in Params(ps) |-> ps[i].text]) =>
               Given(ps, [i \in Params(ps) |-> r.params[ps[i].text][1]]) = splitPath(path)

\* It does so whichever routes are registered.
RouteIsFirstThatFits ==
  pc = "routing" =>
    \A registered \in SUBSET DOMAIN Patterns : RouteIsRight(registered, call.path)

\* The steps of a kind that ran and were for the case active then.
Ran(func) == {i \in DOMAIN done : done[i].step.func = func /\ done[i].step.case = done[i].case}
LastOf(is) == CHOOSE i \in is : \A j \in is : j <= i
Latest(func) == done[LastOf(Ran(func))].step

\* Header steps that set a header, all of them and those for one header.
HeaderSteps == {i \in Ran("SetHeader") \cup Ran("CopyHeaderFromRequest") :
                  \/ done[i].step.func = "SetHeader"
                  \/ Lookup(call.header, done[i].step.key) # Str(<<>>)}
StepsFor(key) == {i \in HeaderSteps : done[i].step.key = key}
HeaderIsOf(step) ==
  IF step.func = "CopyHeaderFromRequest" THEN headers[step.key] = Lookup(call.header, step.key)
  ELSE step.value.kind # "ref" => headers[step.key] = step.value

\* The parts of the response are those of the last step of their kind that was for the
\* case active when it ran: a step for another case never shows.
StatusIsOfItsCase ==
  status = IF Ran("SetStatusCode") = {} THEN 200 ELSE Received(Latest("SetStatusCode").code)
DelaysAreOfTheirCase ==
  /\ fixedDelay = IF Ran("SetWait") = {} THEN 0 ELSE Nanoseconds(Received(Latest("SetWait").ms))
  /\ randomWait = IF Ran("SetRandomWait") = {} THEN <<0, 0>>
                  ELSE <<Received(Latest("SetRandomWait").min), Received(Latest("SetRandomWait").max)>>
BodyIsOfItsCase ==
  LET template == IF Ran("SetBody") = {} THEN Str(<<>>) ELSE Latest("SetBody").body
  IN  body = IF pc = "answered" THEN resolveArg(template) ELSE template
HeadersAreOfTheirCase ==
  /\ DOMAIN headers = {done[i].step.key : i \in HeaderSteps}
  /\ \A key \in DOMAIN headers : HeaderIsOf(done[LastOf(StepsFor(key))].step)
ResponseIsOfItsCase ==
  StatusIsOfItsCase /\ DelaysAreOfTheirCase /\ BodyIsOfItsCase /\ HeadersAreOfTheirCase

\* The active case is that of the last step whose condition the request satisfies,
\* whatever else the steps did.  Conditions on variables are excepted.
LooksAtTheRequest(step) ==
  step.source # "Variable" /\ (step.source = "JsonType" \/ step.value.kind # "ref")
CaseSteps == {i \in DOMAIN done : done[i].step.func = "IfSetCase"}
Matching == {i \in CaseSteps : checkCondition(done[i].step)}
CaseIsOfTheLastMatch ==
  (\A i \in CaseSteps : LooksAtTheRequest(done[i].step)) =>
    activeCase = IF Matching = {} THEN "" ELSE done[LastOf(Matching)].step.case

\* A call has the response that was set up for the case its request matched last, each part
\* for the case active when it was set up.
ReplyIsOfTheActiveCase == ResponseIsOfItsCase /\ CaseIsOfTheLastMatch

\* A call ends without a reply only for a number its route was registered with, as the step
\* gets it: an empty range or one that is longer than an int can say, a length below 1 or of
\* more than there is room for, a status that is none.  A range that is neither, as it was
\* registered, does so only if a float64 does not hold one of its ends, which is rounded and
\* may overflow.  An int of a fixed length from 1 always has a range, however its ends are
\* rounded and wherever they overflow.
PanicsOnlyOnBadNumbers ==
  pc = "panicked" =>
    \/ status \notin StatusCodes
    \/ Sleeps /\ randomWait[2] - randomWait[1] > MaxInt
    \/ /\ done # <<>>
       /\ LET s == Last(done).step IN
          \/ s.func = "GenerateRandomString" /\ Received(s.length) \notin 0 .. MaxLength
          \/ /\ s.func = "GenerateRandomInt"
             /\ Received(s.max) - Received(s.min) \notin 0 .. MaxInt - 1
             /\ s.max - s.min \in 0 .. MaxInt - 1 => ~FloatIsExact(s.min) \/ ~FloatIsExact(s.max)
          \/ s.func = "GenerateRandomIntFixLength" /\ Received(s.length) < 1
=============================================================================
