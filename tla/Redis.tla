-------------------------------- MODULE Redis --------------------------------
(***************************************************************************)
(* The Redis helpers of a stage (pkg/v1/redis.go), the gateway they talk   *)
(* to over HTTP (pkg/redis-mock-server) and the Redis behind it, which the *)
(* application under test uses at the same time.                           *)
(*                                                                         *)
(* A helper sends one command after the other and waits for each reply.  A *)
(* client that gives up (30 s) fails its helper, and the gateway, which    *)
(* has no deadline, may still execute the command later.  Redis executes   *)
(* one command at a time; only then does anything else happen to a key.    *)
(***************************************************************************)
EXTENDS Documents

CONSTANTS
  Keys, Fields,   \* keys of Redis, fields of hashes
  Helpers,        \* calls of helpers, as stages make them
  AppCommands,    \* commands of the application under test
  MaxCalls,       \* bound on the calls of helpers
  MaxApp,         \* bound on the commands of the application
  MaxTimeouts     \* bound on the requests that time out

ASSUME BoundsAssumption == MaxCalls \in Nat /\ MaxApp \in Nat /\ MaxTimeouts \in Nat
ASSUME FieldsAssumption == "" \notin Fields   \* it stands for the text of a string key

VARIABLES
  store,     \* what each key holds
  client,    \* the RedisClient of the stages: "none", "empty" or "connected"
  h,         \* the helper under way, with what it has read
  outcome,   \* of the last helper: "returned" or "failed"
  late,      \* commands that their client has given up and that may still be executed
  calls, timeouts, appDone,   \* counters for the bounds
  alone,     \* since h began, nobody else has touched its key
  written    \* history: fields set by SetJsonField and HSetJsonField that nobody touched since

vars == <<store, client, h, outcome, late, calls, timeouts, appDone, alone, written>>
-----------------------------------------------------------------------------
(***************************************************************************)
(* Values.  Redis stores texts: a JSON document stands for its text, other *)
(* texts are PlainText, and 1e+06 is a JSON number but no integer.  A      *)
(* string argument is the text it holds.                                   *)
(***************************************************************************)
PlainText(s) == [kind |-> "text", s |-> s]
Exponent(n) == [kind |-> "exponent", n |-> n]

\* json.Unmarshal
Decode(text) == CASE text.kind = "text" -> {}
                  [] text.kind = "exponent" -> {Floats(Number(text.n))}
                  [] OTHER -> {Floats(text)}

\* A number argument travels as a JSON number and is written by fmt's %v of a float64.
Format(arg) == IF IsNumber(arg) /\ ~IsShort(Nearest(arg.n)) THEN Exponent(Nearest(arg.n)) ELSE arg

\* Lifetimes: none, at least half a second, less.
Missing == [type |-> "none", ttl |-> "none"]
String(text, ttl) == [type |-> "string", text |-> text, ttl |-> ttl]
Hash(fields, ttl) == [type |-> "hash", fields |-> fields, ttl |-> ttl]
-----------------------------------------------------------------------------
(***************************************************************************)
(* Commands, which handleExecute passes on one to one.                     *)
(***************************************************************************)
Ping == [cmd |-> "PING"]
Set(key, text, expiration) == [cmd |-> "SET", key |-> key, text |-> text, expiration |-> expiration]
Get(key) == [cmd |-> "GET", key |-> key]
Del(key) == [cmd |-> "DEL", key |-> key]
Exists(key) == [cmd |-> "EXISTS", key |-> key]
TTL(key) == [cmd |-> "TTL", key |-> key]
HSet(key, field, text) == [cmd |-> "HSET", key |-> key, field |-> field, text |-> text]
HGet(key, field) == [cmd |-> "HGET", key |-> key, field |-> field]
HIncrBy(key, field, n) == [cmd |-> "HINCRBY", key |-> key, field |-> field, increment |-> n]
FlushDB == [cmd |-> "FLUSHDB"]

FieldsOf(entry) == IF entry.type = "hash" THEN entry.fields ELSE [f \in {} |-> Null]
Counter(entry, field) ==
  IF field \notin DOMAIN FieldsOf(entry) THEN {0}
  ELSE LET text == entry.fields[field] IN IF IsNumber(text) THEN {text.n} ELSE {}

\* time.Duration: -1 keeps the lifetime of the key, other numbers below 1 give none.
Lifetime(entry, expiration) ==
  CASE expiration > 0 -> "long" [] expiration = -1 -> entry.ttl [] OTHER -> "none"

\* TTL rounds to seconds, half a second down to 0.
TimeToLive(entry) ==
  CASE entry.type = "none" -> -2 [] entry.ttl = "none" -> -1
    [] entry.ttl = "short" -> 0 [] OTHER -> 1

\* The reply, or no element for an error or a missing key.
Reply(c) ==
  CASE c.cmd \in {"PING", "SET", "DEL", "FLUSHDB"} -> {"OK"}
    [] c.cmd = "GET" -> IF store[c.key].type = "string" THEN {store[c.key].text} ELSE {}
    [] c.cmd = "EXISTS" -> {IF store[c.key].type = "none" THEN 0 ELSE 1}
    [] c.cmd = "TTL" -> {TimeToLive(store[c.key])}
    [] c.cmd = "HSET" -> IF store[c.key].type = "string" THEN {} ELSE {"OK"}
    [] c.cmd = "HGET" -> IF c.field \in DOMAIN FieldsOf(store[c.key])
                         THEN {store[c.key].fields[c.field]} ELSE {}
    [] c.cmd = "HINCRBY" -> IF store[c.key].type = "string" THEN {}
                            ELSE {n + c.increment : n \in Counter(store[c.key], c.field)}

WithField(fields, field, text) ==
  [f \in DOMAIN fields \cup {field} |-> IF f = field THEN text ELSE fields[f]]
PutField(c, text) ==
  [store EXCEPT ![c.key] = Hash(WithField(FieldsOf(@), c.field, text), @.ttl)]

\* The effect of a command that succeeds.
Effect(c) ==
  CASE c.cmd = "SET" ->
         [store EXCEPT ![c.key] = String(c.text, Lifetime(@, c.expiration))]
    [] c.cmd = "DEL" -> [store EXCEPT ![c.key] = Missing]
    [] c.cmd = "FLUSHDB" -> [key \in Keys |-> Missing]
    [] c.cmd = "HSET" -> PutField(c, c.text)
    [] c.cmd = "HINCRBY" -> PutField(c, Number(CHOOSE n \in Reply(c) : TRUE))
    [] OTHER -> store

Redis(c) == store' = IF Reply(c) = {} THEN store ELSE Effect(c)

\* What a command may change: all fields of a string key count as one, "".
Touches(c, key, field) ==
  CASE c.cmd = "FLUSHDB" -> TRUE
    [] c.cmd \in {"SET", "DEL"} -> c.key = key
    [] c.cmd \in {"HSET", "HINCRBY"} -> c.key = key /\ c.field = field
    [] OTHER -> FALSE

IsText(t) == IF t.kind = "exponent" THEN t.n \in Int ELSE t.kind = "text" \/ IsValue(t)
IsCommand(c) ==
  CASE c.cmd \in {"PING", "FLUSHDB"} -> TRUE
    [] c.cmd \in {"GET", "DEL", "EXISTS", "TTL"} -> c.key \in Keys
    [] c.cmd = "SET" -> c.key \in Keys /\ IsText(c.text) /\ c.expiration \in Int
    [] c.cmd = "HGET" -> c.key \in Keys /\ c.field \in Fields
    [] c.cmd = "HSET" -> c.key \in Keys /\ c.field \in Fields /\ IsText(c.text)
    [] c.cmd = "HINCRBY" -> c.key \in Keys /\ c.field \in Fields /\ c.increment \in Int
    [] OTHER -> FALSE
ASSUME CommandsAssumption == \A c \in AppCommands : IsCommand(c)
-----------------------------------------------------------------------------
KeyHelpers == {"Set", "Get", "ExpectValue", "Del", "ExpectFound", "ExpectNotFound",
               "ExpectJsonField", "SetJsonField"}
FieldHelpers == {"HSet", "HGet", "HIncrement", "HExpectJsonField", "HSetJsonField"}
ASSUME HelpersAssumption ==
  \A op \in Helpers :
    /\ op.name \in {"ConnectRedis", "FlushAll"} \cup KeyHelpers \cup FieldHelpers
    /\ "key" \in DOMAIN op <=> op.name \in KeyHelpers \cup FieldHelpers
    /\ "key" \in DOMAIN op => op.key \in Keys
    /\ "field" \in DOMAIN op <=> op.name \in FieldHelpers
    /\ "field" \in DOMAIN op => op.field \in Fields
    /\ op.name \in {"Set", "HSet", "SetJsonField", "HSetJsonField"} => IsValue(op.value)
    /\ op.name = "Set" => op.expiration \in Int
    /\ op.name = "HIncrement" => op.increment \in Int
    /\ op.name \in {"SetJsonField", "HSetJsonField"} => "path" \in DOMAIN op
    /\ "path" \in DOMAIN op => op.path \in Paths

NoHelper == [name |-> "none"]
NoDoc == PlainText(<<>>)

\* The field that a helper is about, "" for a string key.
FieldOfHelper(op) == IF "field" \in DOMAIN op THEN op.field ELSE ""

\* Every helper but ConnectRedis starts with the command that its first line sends; the two
\* that set a field of a document go on from there.
Command(op) ==
  CASE op.name = "ConnectRedis" -> Ping
    [] op.name = "Set" -> Set(op.key, Format(op.value), op.expiration)
    [] op.name \in {"Get", "ExpectValue", "ExpectJsonField"} -> Get(op.key)
    [] op.name = "Del" -> Del(op.key)
    [] op.name \in {"ExpectFound", "ExpectNotFound"} -> Exists(op.key)
    [] op.name = "HSet" -> HSet(op.key, op.field, Format(op.value))
    [] op.name \in {"HGet", "HExpectJsonField"} -> HGet(op.key, op.field)
    [] op.name = "HIncrement" -> HIncrBy(op.key, op.field, op.increment)
    [] op.name = "FlushAll" -> FlushDB
    [] op.name = "SetJsonField" ->
         [first |-> Get(op.key), ttl |-> TTL(op.key), write |-> Set(op.key, h.doc, h.ttl)][h.at]
    [] op.name = "HSetJsonField" ->
         IF h.at = "first" THEN HGet(op.key, op.field) ELSE HSet(op.key, op.field, h.doc)

\* What an expectation finds equal: numbers as float64, the rest as fmt's %v writes it.
Matches(found, expected) ==
  IF IsNumber(found) /\ IsNumber(expected) THEN ToFloat64(found) = ToFloat64(expected)
  ELSE Text(found) = Text(expected)

Values(text, path) == UNION {getValueByPath(doc, path) : doc \in Decode(text)}

\* The expectation of an Expect helper, on a reply.
Expected(op, reply) ==
  CASE op.name = "ExpectValue" -> reply = op.value
    [] op.name = "ExpectFound" -> reply # 0
    [] op.name = "ExpectNotFound" -> reply = 0
    [] op.name \in {"ExpectJsonField", "HExpectJsonField"} ->
         \E v \in Values(reply, op.path) : Matches(v, op.value)
    [] OTHER -> TRUE

Init ==
  /\ store = [key \in Keys |-> Missing]
  /\ client = "none"
  /\ h = NoHelper /\ outcome = "returned"
  /\ late = {}
  /\ calls = 0 /\ timeouts = 0 /\ appDone = 0
  /\ alone = TRUE /\ written = {}

\* A stage calls a helper, which fails at once without a connection.
Call ==
  /\ h = NoHelper /\ calls < MaxCalls
  /\ calls' = calls + 1
  /\ \E op \in Helpers :
       IF op.name # "ConnectRedis" /\ client # "connected"
       THEN outcome' = "failed" /\ UNCHANGED <<h, alone>>
       ELSE /\ h' = [name |-> op.name, op |-> op, at |-> "first", doc |-> NoDoc, ttl |-> 0]
            /\ alone' = TRUE
            /\ UNCHANGED outcome
  /\ UNCHANGED <<store, client, late, timeouts, appDone, written>>

\* In a dry run every helper returns at once; ConnectRedis returns an empty client.
DryRun ==
  /\ h = NoHelper /\ calls < MaxCalls
  /\ calls' = calls + 1
  /\ \E op \in Helpers : client' = IF op.name = "ConnectRedis" THEN "empty" ELSE client
  /\ outcome' = "returned"
  /\ UNCHANGED <<store, h, late, timeouts, appDone, alone, written>>

Ends(how) == h' = NoHelper /\ outcome' = how
Forget(c) == written' = {f \in written : ~Touches(c, f.key, f.field)}

\* The paths of two fields that neither contains.
Apart(p, q) == ~IsPrefix(Position(p), Position(q)) /\ ~IsPrefix(Position(q), Position(p))

Remember(op) ==
  written' = IF SetsNothing(op.path) THEN written
             ELSE {f \in written : \/ f.key # op.key \/ f.field # FieldOfHelper(op)
                                   \/ Apart(f.path, op.path)}
                  \cup {[key |-> op.key, field |-> FieldOfHelper(op), path |-> op.path,
                         value |-> op.value]}

\* A helper that needs one command.
SingleCommand ==
  /\ h.name \notin {"none", "SetJsonField", "HSetJsonField"}
  /\ Redis(Command(h.op))
  /\ Forget(Command(h.op))
  /\ LET reply == Reply(Command(h.op)) IN
     /\ Ends(IF \E r \in reply : Expected(h.op, r) THEN "returned" ELSE "failed")
     /\ client' = IF h.name = "ConnectRedis" THEN "connected" ELSE client
  /\ UNCHANGED <<late, calls, timeouts, appDone, alone>>

\* SetJsonField and HSetJsonField: the document with the field set.
Updated == UNION {setValueByPath(doc, h.op.path, h.op.value) :
                    doc \in UNION {Decode(r) : r \in Reply(Command(h.op))}}

\* Mutant: the field is set in a copy.
ReadDocumentCopied ==
  /\ h.name \in {"SetJsonField", "HSetJsonField"} /\ h.at = "first"
  /\ \/ Updated = {} /\ Ends("failed")
     \/ /\ Updated # {}
        /\ \E raw \in Reply(Command(h.op)) : \E doc \in Decode(raw) :
             h' = [h EXCEPT !.at = IF h.name = "SetJsonField" THEN "ttl" ELSE "write",
                            !.doc = Marshal(doc)]
        /\ UNCHANGED outcome
  /\ UNCHANGED <<store, client, late, calls, timeouts, appDone, alone, written>>

ReadDocument ==
  /\ h.name \in {"SetJsonField", "HSetJsonField"} /\ h.at = "first"
  /\ \/ Updated = {} /\ Ends("failed")
     \/ \E doc \in Updated :
          /\ h' = [h EXCEPT !.at = IF h.name = "SetJsonField" THEN "ttl" ELSE "write",
                            !.doc = Marshal(doc)]
          /\ UNCHANGED outcome
  /\ UNCHANGED <<store, client, late, calls, timeouts, appDone, alone, written>>

\* Mutant: a default lifetime instead of the key's.
ReadTTLDefault ==
  /\ h.name = "SetJsonField" /\ h.at = "ttl"
  /\ h' = [h EXCEPT !.at = "write", !.ttl = 1]
  /\ UNCHANGED <<store, client, outcome, late, calls, timeouts, appDone, alone, written>>

ReadTTL ==
  /\ h.name = "SetJsonField" /\ h.at = "ttl"
  /\ \E ttl \in Reply(Command(h.op)) : h' = [h EXCEPT !.at = "write", !.ttl = ttl]
  /\ UNCHANGED <<store, client, outcome, late, calls, timeouts, appDone, alone, written>>

WriteDocument ==
  /\ h.name \in {"SetJsonField", "HSetJsonField"} /\ h.at = "write"
  /\ Redis(Command(h.op))
  /\ IF Reply(Command(h.op)) = {} THEN Ends("failed") /\ UNCHANGED written
     ELSE Ends("returned") /\ Remember(h.op)
  /\ UNCHANGED <<client, late, calls, timeouts, appDone, alone>>

\* The client gives up.  The command is lost, or will be executed later, or already has
\* been: that is a late execution at once.
TimeOut ==
  /\ h # NoHelper /\ timeouts < MaxTimeouts
  /\ timeouts' = timeouts + 1
  /\ late' \in {late, late \cup {Command(h.op)}}
  /\ Ends("failed")
  /\ UNCHANGED <<store, client, calls, appDone, alone, written>>

IsOurs(c) == h # NoHelper /\ "key" \in DOMAIN h.op /\ Touches(c, h.op.key, FieldOfHelper(h.op))

\* Somebody else's command.
Foreign(c) ==
  /\ Redis(c)
  /\ Forget(c)
  /\ alone' = (alone /\ ~IsOurs(c))
  /\ UNCHANGED <<client, h, outcome, calls, timeouts>>

LateCommand == \E c \in late :
  /\ late' = late \ {c}
  /\ Foreign(c) /\ UNCHANGED appDone

Application ==
  /\ appDone < MaxApp /\ appDone' = appDone + 1
  /\ \E c \in AppCommands : Foreign(c)
  /\ UNCHANGED late

\* Time passes for a key with a lifetime.
Expire == \E key \in Keys :
  /\ store[key].ttl # "none"
  /\ IF store[key].ttl = "long"
     THEN store' = [store EXCEPT ![key].ttl = "short"] /\ UNCHANGED <<alone, written>>
     ELSE /\ store' = [store EXCEPT ![key] = Missing]
          /\ written' = {f \in written : f.key # key}
          /\ alone' = (alone /\ ~IsOurs(Del(key)))
  /\ UNCHANGED <<client, h, outcome, late, calls, timeouts, appDone>>

Next ==
  \/ Call \/ DryRun
  \/ SingleCommand \/ ReadDocument \/ ReadTTL \/ WriteDocument \/ TimeOut
  \/ LateCommand \/ Application \/ Expire

Spec == Init /\ [][Next]_vars
-----------------------------------------------------------------------------
\* The text of a string key, or of a field of a hash.
Texts(entry, field) ==
  IF entry.type = "string" THEN IF field = "" THEN {entry.text} ELSE {}
  ELSE IF field \in DOMAIN FieldsOf(entry) THEN {entry.fields[field]} ELSE {}

\* What an expectation reads there.
Reads(entry, field, path) == UNION {Values(text, path) : text \in Texts(entry, field)}

\* Inside a slice or a map an int is compared by its text with the float64 found, which
\* from Million on has an exponent.
HasShortNumbers(v) ==
  \A p \in Inside(v) : IsNumber(v.at[p]) => IsShort(v.at[p].n)

IsExpected(f) == \E v \in Reads(store[f.key], f.field, f.path) : Matches(v, f.value)

\* What SetJsonField and HSetJsonField have set, an expectation of the same value finds,
\* until somebody touches it: helpers for other fields of the document in between, the
\* application's commands on other keys, late commands and passing time lose nothing.
\* (Under a path that ends in a dot they set nothing, and return all the same.)  Slices and
\* maps that hold a number from Million on are excepted: there the comments of SetJsonField
\* ("sets the field ... to value") and of ExpectJsonField ("asserts it equals
\* expectedValue") promise what the code does not do.
WrittenFieldsAreExpected == \A f \in written : HasShortNumbers(f.value) => IsExpected(f)

DocumentWritten == h # NoHelper /\ h.at = "write" /\ h' = NoHelper /\ outcome' = "returned"
HelperPaths == {op.path : op \in {o \in Helpers : "path" \in DOMAIN o}}

\* With nobody else on its key, a helper that sets a field changes what is read at no
\* path beside that field: the document goes through two encodings and three commands.
OnlyTheFieldChanges ==
  [][DocumentWritten /\ alone =>
       \A path \in HelperPaths : Apart(path, h.op.path) =>
         Reads(store'[h.op.key], FieldOfHelper(h.op), path) =
           Reads(store[h.op.key], FieldOfHelper(h.op), path)]_vars

\* With nobody else on its key, a helper that sets a field leaves a key with a lifetime
\* one with a lifetime, and no other gets one.  (TTL rounds the last half second to 0, and
\* SetJsonField then takes the lifetime away: that case is left out here.)
LifetimeIsKept ==
  [][DocumentWritten /\ alone /\ ~(h.name = "SetJsonField" /\ h.ttl = 0) =>
       ((store[h.op.key].ttl = "none") <=> (store'[h.op.key].ttl = "none"))]_vars
=============================================================================
