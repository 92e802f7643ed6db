# A TLA+ verification of `integration_tester_v2`

The repository is a Go library for writing integration tests as named *stages*,
with several front ends that run them (a sequential CLI, a command mode driven
over stdin/stdout, an HTTP server behind an Electron/React UI), a set of helpers
that stages call (mocks, application processes, Redis, databases, HTTP
requests, expectations), and two stand-alone servers (a dynamic HTTP mock and a
Redis gateway). This directory holds TLA+ models of it, the TLC configurations
that check them and the TLAPS proofs about them. Paths below are relative to the
repository; `tester.go` alone means `pkg/v1/tester.go`.

## 1. Inventory

| component | source | state it keeps | operations | what is hard about it | what makes it correct |
|---|---|---|---|---|---|
| stage runner | `tester.go` | per Tester: `Stages`, `runMu`. Package-global: `currentStage`, `isRecording`, `isDryRun`, `stageActions`, `dryRunMu` | `Stage`, `RunStageByName`, `TryRunStageByName`, `DryRunAll`, `RecordAction`, `IsDryRun`, `GetStageActions` | global recording state written by whichever stage runs; two kinds of lock, one per Tester and one global; panics, `Goexit`, unknown names; a helper reads the dry-run flag in a section of its own | stages never overlap; actions are filed under the stage that performed them; a dry run has no side effects; nothing stays locked; every call returns |
| command mode | `cli.go` | `runningStage`, `stageStarted`, `lastStage`, `lastResult` under `s.mu`; the output under `lockedWriter` | `list`, `status`, `run`, `help`, `exit`, end of input; executor, heartbeat and stage goroutines | four goroutines write lines; responses are composed and then written; a timeout races the answer; the end races the result | no overlap, lines of a run in order and true, the end waits for the stages, every run is answered |
| run modes | `run.go`, `cli.go:35-54` | the `-mode` flag, the environment | `CurrentMode`, `RunWithMode`, `RunCLI` | precedence of flag and environment | exactly one mode is entered |
| UI server, jobs | `serve.go` | `status` map under `s.mu`; the queue of goroutines on `s.runMu` | `handleRunStage` (with prerequisites), `handleRunAction`, `handleRunAll`, `handleDiscover` | requests answered before they run, in no fixed order; action indices resolved early; statuses cached | statuses tell what happened; one job at a time; prerequisites run first |
| UI server, event stream | `serve.go`, `logger.go` | `clients`, one channel of 128 per client; `logs`; the registry of servers | `handleEvents`, `broadcast`, `snapshot`, `onLog`, `onActions`, `Start`, `Stop` | snapshot and stream overlap; events dropped when a channel is full; stop during connect; handlers called under `logMu` and `actionMu` | no send on a closed channel; a client that keeps up ends in sync; locks are ordered |
| handles | `app.go`, `mock.go`, `dynamic_mock.go`, the clients of `db.go` | the variables of the program, the process, the in-process mock's listener and handler map | `RunAppServer`, `RunMockServer`, `Connect`, `NewDynamicMockClient`, what uses them, `Stop` | the empty handles of a dry run, actions run again by hand, ports bound on a goroutine, a handler map shared with the caller | a discover touches nothing, a stage that passes did its work, what is cleaned up is gone |
| dynamic mock controller | `pkg/dynamic-mock-server/server.go` | `Servers`, `Routes` under `mc.mu`; the listeners | `registerRoute`, `resetPort`, `resetAll`, mock requests | a listener binds later than it is recorded; reset releases the lock before the port is closed | a registered route is served; a reset port is free |
| dynamic mock steps | `pkg/dynamic-mock-server/handler.go`, `client.go`, `findRouteLocked` | one executor per request: variables, active case, response | conditional steps, extractions, generators, setters | the active case decides which later steps count; numbers of the route and texts of the request meet in slices and ranges | the response is that of the active case; only bad registrations lose a reply |
| Redis gateway | `pkg/redis-mock-server` | none (a go-redis client) | one HTTP call per command | values are converted on the way; no deadline: a command may outlive its client | what is read is what was written |
| Redis helpers | `redis.go` | the connection | one command each; `SetJsonField`, `HSetJsonField` several | read-modify-write without a transaction, TTL read in between | only the field changes, the lifetime stays |
| database helpers | `db.go` | a connection | `SetupTable`, `Update`, `DeleteWithLimit`, `Fetch` and the like, expectations | several statements without a transaction; SQL for four drivers; values that come back in other types | exactly the rows a condition names; results are held against what was selected |
| request helpers | `request.go` | a request's configuration, its response | options, `SendRESTRequest`, expectations on JSON and XML | options in any order, replies cut short, two comparisons of the same field, paths followed by other code than in the mock server | the caller's headers win; an expectation that passes is true; stages and mocks read the same |
| conditions | `pkg/condition`, `expect_condition.go`, `assert.go` | — | `Evaluate`, `Validate`, `AssertCondition` | numbers through float64, texts as numbers | strict, typed semantics |
| front end | `ui/` | reducer state | apply snapshot and events | JavaScript, beyond HTTP | converges to the server |
| examples, vendored code | `example_app`, `client-example`, `vendor` | | | | not part of the system |

How they interact. The front ends call the runner: command mode and
`RunCLI` call `RunStageByName` directly, the UI server from a goroutine per
request, under its own `s.runMu`. A stage function calls helpers; each helper
calls `RecordAction` (which files it in `stageActions` and notifies the
action-update handlers), then `IsDryRun`, and only outside a dry run acts.
`Log` and `RecordAction` call back into the UI server while they hold `logMu`
and `actionMu`; the server then takes `serverRegistryMu` and `s.mu`. Stages
talk to the mock servers over HTTP.

The hazards this code is exposed to are listed, each at its line, in
`PROJECT.json` ("hazards").

## 2. Plan

1. `Tester` with its abstract specification `StageRunner`, and `TesterProofs`. *(done)*
2. `CliSession`, proved about in `TesterProofs`, since it drives the runner. *(done)*
3. `UIServer`, composed with the abstract runner, and `UIServerProofs`. *(done)*
4. `EventStream`, proved about in `UIServerProofs`. *(done)*
5. `MockController`. *(done)*
6. `Values`, `Condition`, `Documents` and `XmlDocuments`, the operators, with
   `DocumentsProofs`; `MockHandler`, one call of a mock route; `MockServerProofs`, about it
   and the controller. *(done)*
7. `Redis`: the helpers, the gateway and the Redis behind it; `RedisProofs`. *(done)*
8. `Handles` and `HandlesProofs`: what runs, discovers and actions run by hand
   do to the processes, mocks and clients that stages share. *(done)*
9. `Database`: the helpers as statements that may fail half-way; `QueryResults`: the
   expectations on what they fetch; `DatabaseProofs`. *(done)*
10. `Request`: the options, the request and the expectations; `RequestProofs`. *(done)*
11. More proofs: every safety property of a passing run is a theorem. *(done)*
12. Left: the lock order of the handlers called under `logMu` and `actionMu`, the choice
    of the run mode (section 14 says why they come last).

Each module takes its sizes as CONSTANTS with a named assumption, has one
action per critical section of the code, and states its lock invariant as a
conjunction of named parts, so that it can be proved about as well as checked.
There is one run per question asked of a component: its safety, its liveness
where that needs other bounds, and one for a disagreement found with what the
repository says; the sections below tell of the others.

How the modules fit together:

```
StageRunner  (abstract: one execution at a time)
   ^  implemented by            ^ used as the runner by
Tester  (SerialSpec)         UIServer            EventStream
   ^ TesterProofs               ^ UIServerProofs    ^ UIServerProofs
CliSession                   MockController      Handles
   ^ TesterProofs               ^ MockServerProofs  ^ HandlesProofs

Values <- Condition <- Documents <- Redis                         RedisProofs
       |            |            <- XmlDocuments <- Request       RequestProofs
       |            |                            <- MockHandler   MockServerProofs
       |            |                            <- DocumentsProofs
       <- Database <- QueryResults                                DatabaseProofs
```

An arrow is an EXTENDS. The four modules of proofs on the right extend `DocumentsProofs`, too.

## 3. `Tester`, the stage runner

`Callers` are goroutines. Each is at a `pc` place and executes one `job`: the
Tester, the stage, `real` or `dry`, the index of a dry run, and whether the
stage ended in `Goexit`. An action is one critical section or one lock operation:

| action | code |
|---|---|
| `Stage` | `Tester.Stage`, before anything runs |
| `RunStageByName`, `LockRun`, `TryRunStageByName` | the calls and `runMu` (a failed `TryLock` returns at once and changes nothing: a stuttering step) |
| `RLock`, `RWake`, `WLock`, `WDrained`, `RUnlock`, `WUnlock` | `dryRunMu`, as `sync.RWMutex` behaves: a reader that meets a writer queues and is handed the lock when that writer unlocks; a writer excludes other writers, then drains the readers |
| `Begin`, `StageNotFound` | the lookup and the first section under `actionMu`, or the early return |
| `RecordAction`, `IsDryRun`, `SideEffectDone` | a helper call: it records itself, asks, and acts or not |
| `StageFuncEnds`, `Clear` | the function returns, panics or ends in `Goexit`; the deferred section under `actionMu` |
| `UnlockRun`, `WUnlock` | the deferred unlocks; `DryRunAll` goes on to the next stage |

A recorded action is reduced to who recorded it, in which stage and mode.

Bounds: `MaxActions` recorded actions per stage and `MaxStages` registered
stages. Two stages and two actions tell a list that was emptied from one that
was not; three callers are a holder, a waiter and an overtaker.

| run | what it shows |
|---|---|
| `tester` | One Tester, three callers, two stages: `IsDryRun` answers for the caller that asks, and the serial runner `StageRunner` is implemented (`Active` maps the executing caller to the abstract execution), so that stages do not overlap and no action is filed under another stage |
| `tester_pair` | two Testers and two callers: `RunsExcludePerTester`, `AdmittedCallsWaitForNoRun`, and `EveryCallReturns` |

With two Testers in one process two stages do overlap, although the comment at
`tester.go:97-101` and `pkg/v1/docs/01-mental-model.md` say that stages never do:
`runMu` is a field of `Tester` and `dryRunMu` only read-locked by runs, while the
state they protect is global to the package. No mode of the library makes two
Testers; the theorems about stages that never overlap assume one
(`SingleTester`), and `tester_pair` checks what holds without.

Fairness (`tester_pair`): weak on the steps of a goroutine that can go on,
strong on `LockRun` and `WLock`, because a Go mutex hands itself to the longest
waiter after 1 ms of waiting. Nothing is assumed of `RLock` beyond weak
fairness: a queued reader is handed the lock. `StageFuncEnds` is strongly fair:
stage functions are assumed to end, and with two Testers nothing else ends
them, since one execution may switch the recording of the other off and helper
calls that are not recorded are not bounded by `MaxActions`.

## 4. `CliSession`, command mode

The reading goroutine (`main`), and per accepted run an executor (`exec`), a
heartbeat (`beating`) and the stage (`stage`). `runningStage` and `last` are the
session record; `out` is the sequence of lines written. A response is composed in
the action that reads the command and written in a later one, as in the code, so
it can be overtaken. `HEARTBEAT` stands for `SLOW` too; a run's number stands for
its stage name.

| action | code |
|---|---|
| `HandleOther`, `HandleStatus`, `HandleRunBusy`, `HandleRun`, `HandleExit`, `ReadEOF`, then `WriteReply`, `EmitRunning`, `GoExecute`, `EmitExit`, `WaitIdle`, `EmitBye`, `ProcessReturns` | `RunCLICommandIO`, `handleRun`, `waitIdle` |
| `StageEnds`, `StageReturned`, `Timeout`, `Exit2` | `runWithTimeout` |
| `Heartbeat`, `HeartbeatStops`, `Publish`, `EmitResult` | `execute` |

| run | what it shows |
|---|---|
| `cli` | two accepted runs among four commands, with a timeout and stages that never return: stages do not overlap, the lines of a run are in order, what `status` and `BUSY` report was true when composed, the end waits for the stages; `RunIsAnswered`, which is that every announced run gets its result (`ResultArrives`) and that the loop comes back (`SessionGoesOn`) |
| `cli_bye` | a violation: the session is freed (`cli.go:276`) before the result line is written (`cli.go:288-292`), so `exit` may end the session without it, although `cli_test.go:60` expects it |

Two runs are a run and its successor, which is all a result can be confused
with; two more commands in flight add `status` or `exit` on either side of it.
Deadlock is not checked: a session ends.

Two consequences of the same code are not runs of their own. In the window of
`cli_bye` the next run can be announced before the result line of the last one,
against the blank-line framing of `pkg/v1/docs/09-ai-agent-guide.md:45-47`
(`LinesOfARunAreOrdered` therefore speaks of the lines of one run). And without
a timeout a stage function that ends in `runtime.Goexit` ends the executor
goroutine with it, leaving the run unanswered and the session busy for ever;
with a timeout, the instance of `cli`, it is answered.

Fairness: weak on every goroutine of the process that can go on and on an armed
timer; none on the driver (commands), on stage functions, on ticks or on the end
of the process.

## 5. `UIServer`, the jobs of the UI server

A request is a goroutine: `pc` is where it is, `job` what it asks for, `todo`
the stages it has still to consider, the prerequisites first. The Tester it
calls is `StageRunner`, the serial runner that `Tester` is shown to implement;
`UIServer` takes `active` and `stageActions` from it.

| action | code in `serve.go` |
|---|---|
| `HandleRunStage`, `HandleRunAction`, `HandleRunAll`, `HandleDiscover` | the handlers, up to `go func` and the 202 |
| `Take`, `JobDone`, `ActionDone` | `s.runMu.Lock` and the deferred unlock |
| `SkipPassed`, `SetRunning`, `StartStage`, `StageNotFound`, `SetResult` | the loops of the handlers and `runSingleStage`: the cached status, "Running...", `RunStageByName`, the result; a failed prerequisite ends the job |
| `RecordAction`, `StageEnds`, `DryRunEnds` | what the Tester does meanwhile |
| `Goexit` | a function ends its goroutine: only deferred calls run, so `s.runMu` is free again and the status stays "Running..." |

`outcome` and `ran` are histories that only the properties read.

| run | what it shows |
|---|---|
| `ui` | two requests of any kind, either of which may die in `Goexit`, up to three registered stages under two names (nothing forbids to register a name twice), a name that is not registered: `StatusTellsOutcome`, `PrerequisitesPassed`, `RunAllRunsEverything`, `ManualActionsRunAlone`, and under fairness `EveryRequestEnds`, with `StatusSettles` in it |

Two requests are one that works, or whose effect is still seen, and one that
queues behind it; three stages give a prerequisite that passed, one that is run again
and the stage itself. One recorded action is enough to have one to run by hand.
A status that says "Running..." after a stage died in `Goexit` is what the code
does, and the reason why `StatusTellsOutcome` and `StatusSettles` name that case.

Fairness: weak on a goroutine that can go on and on the end of functions; strong
on `Take`, for the same reason as `LockRun` above. No client has to send anything.

## 6. `EventStream`, what clients see

The server is reduced to the number of changes of one status and the number of
logs: a value stands for the history before it, so that a page that is behind
can be told from one that is not. A page shows a status and a list of logs.

| action | code |
|---|---|
| `SetStatus`, `BroadcastStatus`, `OnLog`, `BroadcastLog`, `OnActions` | `setStatus`, `onLog`, `onActions` and `broadcast`: the write and the send are two sections of `s.mu`; a full channel drops the event |
| `Connect`, `Register`, `BeginSnapshot`, `ReadStatus`, `ReadLogs`, `Deliver`, `Forward`, `EndStream`, `Disconnect` | `handleEvents` and `snapshot`, and the page applying what it gets (`ui/src/App.jsx`) |
| `Fetch` | the page's `/api/state` request, when it opens and after a `refresh` |
| `Unregister`, `CloseAll`, `Shutdown` | `Stop` |

| run | what it shows |
|---|---|
| `stream` | a connection, with a page that fetches or not: no send on a closed channel and no second close, whatever meets `Stop` (`ChannelsAreSafe`); nothing falls between registration, snapshot and stream (`NothingMissed`); `PageCatchesUp` and `ClosedStreamsEnd` |

Channels hold 2 events instead of 128: full, half full and empty are the cases
that differ. Two changes and two logs are one in the snapshot and one after it.
Connections share the server only, which treats each for itself under `s.mu`:
one is enough.
`lost` records what was dropped, and the properties excuse exactly that.

Departures that are not runs: the channel is registered (`serve.go:214`) before
the snapshot is read (229), so a log written in between is in both, and
`App.jsx` appends it twice, although `serve.go:228` calls a client that has its
snapshot "in sync" and `pkg/v1/docs/08-run-modes.md:119` a log event "a new `LogEntry`".
And, where no text of the repository promises otherwise: a page that fetches replaces its state by the reply, which may be
older than events it has applied (`NothingMissed` and `PageCatchesUp` are about
connections that only stream); a page that connects between the closing of the
channels and `Shutdown` is never closed (`ClosedStreamsEnd` is about the streams
that were).

Fairness: weak on broadcasts, handlers and a `Stop` that has begun.

## 7. `MockController`, the dynamic mock server's controller

Registrations and resets are goroutines that share `Servers` and `Routes` under
`mc.mu`. A server is named by the registration that started it, and has a
goroutine of its own that checks, binds and serves; a reset forgets its servers
under `mc.mu` and shuts them down afterwards. A port has one route, since routes
do not interact; what a call executes is the registration it found.

| action | code in `pkg/dynamic-mock-server/server.go` |
|---|---|
| `RegisterRoute` | `handleRegisterRoute` with `startMockServerLocked` |
| `ResetPort`, `ResetAll`, then `Shutdown` and `ResetReturns` | `handleResetPort`, `handleResetAll`; `Shutdown` waits for calls, at most 5 s |
| `Listen`, `Bind`, `Serve` | `ListenAndServe`, as the code uses it: it refuses after `Shutdown`, fails on a port in use (logged only), and gives back a listener opened too late |
| `Accept`, `FindRoute`, `Respond` | `handleMockRequest`: the lookup under `mc.mu`, the steps outside |

`manner` says how the controller is used: by `concurrent` clients, by one that
waits for each answer (`sequential`, which no run needs), or by one that also
waits for its servers before it resets them (`patient`).

| run | what it shows |
|---|---|
| `mock` | four requests and a call on two ports, of concurrent clients or a patient one: `NoServerIsForgotten`, `ResetWaitsForItsServers`, `ResetsEnd`, `PatientClientIsServed` |

Four requests are two generations of a server, a reset between them and one
that races it; two ports let a reset of all take one server that serves and one
that does not yet. One call is enough to hold a reset up.

Waiting for the answers is not enough: register, reset before the new server
listens, register again, and the first server still binds the port, the second
fails on it, which is only logged (`server.go:116-120`), and since
`Servers[port]` stays set no later registration starts anything, while each
answers "ok"; `server.go:80-84` and `pkg/dynamic-mock-server/README.md:54` have it
that the server exists or the answer is an error. Hence `PatientClientIsServed`.

Nothing stops a call from executing steps that have been replaced, nor a second
reset of a port, which finds no server, from answering before the calls of the
first one end: `pkg/dynamic-mock-server/requirement.txt:11` asks a reset to wait for its own, which is
`ResetWaitsForItsServers`.

Fairness: weak on resets and on the goroutines of servers; a call may last for
ever.

## 8. `Condition`, documents and `MockHandler`, one call of a mock

`Condition` is `pkg/condition`: `Evaluate` and what it calls, on the values of
`Values`: nil, booleans, numbers, strings, slices and maps. A string is a sequence of
symbols, because conditions and steps look into strings. A slice or a map is one
function, from the positions inside of it to what is there; a position is the sequence
of keys and indices that leads to it. So a document needs no recursion, and a path that is
followed is a position that is looked up. Numbers are integers, of type int or float64
(`Number`, `Float`); `Nearest` rounds them where the code goes through float64, with
`Precision` bits instead of 53. `Text` is fmt's `%v`: of a slice or a map it is the text of
everything inside (`NodesText`), and a float64 from `Million` on has an exponent, which a mark
after its digits stands for (`HasExponent`), so that the text of an int and that of its float64
differ. `Marshal` is a value as JSON, in which numbers are their digits, `Floats` what comes
back.

`Documents` has the paths into JSON, `getValueByPath` and `setValueByPath`
(`request.go`) and `getJSONPath` (`handler.go`), `XmlDocuments` those into XML,
`getXMLPathValue` and `getXMLPath`. An XML text is the sequence of its tokens, the tree
that `parseXML` makes of it a function from the positions of the elements to them.

`MockHandler` is a call: `HandleMockRequest` looks the route up, then each step
of the route is an action, and `Finalize` answers. A route is any sequence of at
most `MaxSteps` steps out of `Steps`, which holds the steps the builders of
`client.go` can make; the request is one of `Calls`. `done` is a history of the
steps with the case that was active before each.

Ints have the width of Go's: `MaxInt` is the largest, `Wrap` what a result of arithmetic
is, and `ToInt` the conversion of a float64, whose result out of range is the machine's choice
(`outOfRange`, one of `OutOfRange` for amd64 and arm64, the same for the whole call). A number
of a step is the int that a builder takes, and reaches the handler as the float64 of a JSON
text: `Received` is `int(toFloat(arg))`, which every step that takes a number goes through.
So 0 .. 2^63-2 arrives as a range whose end overflows. `MaxLength` is the longest slice of
bytes that `make` gives; `Millisecond` are the nanoseconds that `SetWait` multiplies by, and
may overflow with.

A path is what `strings.Split` makes of it at each slash, so that `splitPath` drops the empty
segments at both ends, as many as there are.

| action | code |
|---|---|
| `HandleMockRequest` | `handleMockRequest`, `findRouteLocked`, `matchPathPattern` (`server.go`) |
| `IfRequest`, `IfRequestSetCase`, `ExtractRequest` | `handlePrepareData`; `Actual` is what each variant looks at |
| `GenerateRandomString` ... `HashedString` | `handleGenerator` |
| `ConvertToString` ... `Delete` | `handleDynamicVariable` |
| `OtherCase`, `SetBody` ... `CopyHeaderFromRequest` | `handleSetupResponse`, for another case than the active one or for it |
| `Finalize` | `Finalize`: delays, headers, the status (which may panic), the body |

| run | what it shows |
|---|---|
| `mock_call` | `RouteIsFirstThatFits`, for any set of registered routes; `ReplyIsOfTheActiveCase`, for any order of steps: each part of the response is of the case active when it was set (`ResponseIsOfItsCase`), that case is of the last match (`CaseIsOfTheLastMatch`); `PanicsOnlyOnBadNumbers`: only bad numbers lose the reply |

Three steps are a condition, a step under it and one that undoes or follows it.
The four patterns are all combinations of a literal and a parameter, one of them
with the same name twice; the four requests have JSON, XML or neither, several slashes
at the end, an empty segment. `Precision` 7 and `MaxInt` 2047 put the loss of
digits and the overflow at lengths 3 and 4, where 53 bits and 2^63 put them at
16 and 19; the range 0 .. 2046 is the one of 2^63-2 values. `Million` is 100, below the numbers
that lose digits, as 10^6 is below 2^53, and `Millisecond` 3: 800 ms overflow. A hash is its algorithm in front of the text: nothing depends on more.
`CaseIsOfTheLastMatch` is about routes whose conditions look at the request: one that
looks at a variable, or compares with a template `{{.name}}`, means the value of that
moment, which a later step may change.
Deadlock is not checked: a call ends.

What the code does and no property forbids: a status that is none, an empty
range, one whose ends were rounded to an empty one or overflow, or a negative length makes
`net/http` drop the connection (`PanicsOnlyOnBadNumbers` lists exactly these, and of a range that
is none of them, as it was registered, says that a float64 does not hold one of its ends); a route
registered with `null` answers 404 and hides the patterns that would fit; the
body is a template of the variables at the end, a header of those at its step.

## 9. `Redis`, the Redis helpers and what is behind them

One helper is under way at a time (`h`), since stages do not overlap. Each of
its actions is one command: an HTTP request, the gateway's call and Redis's
execution. Between them the application executes commands (`Application`), keys
expire (`Expire`: lifetimes are none, long, and less than the half second that
`TTL` rounds to 0), and a command whose client gave up after 30 s may be executed
at last (`LateCommand`): the gateway calls Redis with `context.Background()`.

| action | code |
|---|---|
| `Call`, `DryRun` | the first lines of every helper of `redis.go` |
| `SingleCommand` | every helper but the next two, with its expectation |
| `ReadDocument`, `ReadTTL`, `WriteDocument` | `SetJsonField`; without `ReadTTL`, `HSetJsonField` |
| `TimeOut` | `execute` of `redis-mock-server/client.go` fails |

`Reply` and `Effect` are the commands of `handleExecute`, and `Format` what the
gateway makes of a number. `alone` remembers that nobody else touched the key
since the helper began, `written` which fields were set and not touched since.

| run | what it shows |
|---|---|
| `redis` | six calls, two commands of the application, one request that times out: `WrittenFieldsAreExpected`, `OnlyTheFieldChanges`, `LifetimeIsKept` |

Code and comments disagree about large numbers inside slices and maps: `SetJsonField` "sets the
field at the given dot+bracket path (e.g. "a.b[0].c") to value" (`redis.go:183-184`),
`ExpectJsonField` "asserts it equals expectedValue" (`redis.go:313-314`), but what is no number
is compared by its `%v` text (`redis.go:304` and `346`). A map with an int of 10^6 comes back from
JSON with a float64, whose text has an exponent: `map[n:1e+06]` is not `map[n:1000000]`, and the
value that was set is not found. A number alone is compared as a number and is found.
`WrittenFieldsAreExpected` therefore excepts slices and maps that hold a number from `Million` on
(`HasShortNumbers`); it is about all others, whose whole text must be the same. `Million` is
100 and `Precision` 7, and one of the helpers sets a slice with a larger number: without the
exception TLC finds the property violated.

Six calls are a connection, a document, and four changes and expectations; one
key is enough for helpers that never look at two, and two commands of the
application set a document and break it. With somebody else on the key the two
action properties do not hold, as no sequence of separate commands could make
them: the write of the other is lost, and a key that expired between `GET` and
`SET` comes back. Nor does `LifetimeIsKept` in the last half second of a key,
which is then written without expiry; the property names that case. A path that ends in a dot
sets nothing and is no error (`SetsNothing`, `request.go:503-514`): the document is
written as it was.

## 10. `Handles`, what stages share

A program keeps the handles that `RunAppServer`, `RunMockServer`, `Connect` and
`NewDynamicMockClient` return in variables that its stages share (`handle`):
`Nil` before the first assignment, `Empty` when a dry run assigned it, else one
of the `thing`s that were started. `job` is the execution under way: of a stage,
of all stages as a dry run, or of a recorded action by hand. `actions` is
`stageActions`, each entry with what its closure captured: the handle the helper
was called on and the handler map, and whether another helper made the call
(`nested`). `suite` is what the program registered.

| action | code |
|---|---|
| `RunAppServer`, `RunMockServer`, `Connect`, `NewDynamicMockClient` | the functions of these names: record, in a dry run return an empty handle, else start |
| `UpdateMockServer`, `SetupTable`, `DropTable`, `Fetch`, `QueryData`, `RegisterRoute` | what uses a handle; `SetupTable` and `Fetch` call, and so record, another helper, but only outside a dry run |
| `AppStop`, `MockStop` | `Stop`: not recorded, and without a question to `IsDryRun` |
| `RunStage`, `Discover`, `BeginStage`, `StageEnds` | `RunStageByName`, `DryRunAll`, as executions that do not overlap (`Tester`, `UIServer`) |
| `PickAction`, `RunAction` | `handleRunAction`: the lookup, and the execution later |
| `Check`, `Bind`, `Serve` | the goroutine of a mock in `ListenAndServe`, which refuses after `Close`, fails on a port in use (only logged) and gives back a listener opened too late |

`acted`, `orphans`, `cleaned` and `complete` are histories.

| run | what it shows |
|---|---|
| `handles` | four executions of four suites: `DryRunTouchesNothing`, `ListsFollowTheScript`, `PassedStagesDidTheirWork`, `CleanedUpIsGone`, `UpdatesRaceOnlyOnStartMaps`, `MocksGetTheirPort` |

Four executions are a run that starts something, a discover or an action that
takes its handle, and two stages that use and stop it. A variable has the type Go
gives it (`KindOf`): the assumption on `Suites` lets no suite call `Stop` of a mock on
a process. The suites are a process
with a database; two mocks; one that uses nil rows before it assigns, and one
that starts its process only where there is none.

A list "follows" a script if its entries that are not nested are the calls of the
script in order, all but those that do not record or were skipped (`Follows`);
`complete` tells which lists are whole.

A mock keeps the map that its `RunMockServer` is called with (`mock.go:30-32`), and an update
merges into the map its mock keeps (`mock.go:75-80`). In a stage that map is one the program
keeps in a variable (`Kept`), and may pass to several mocks, one that is written in the call
(`NewMap`), or nil (`NoMap`); by hand it is the one of the recorded call. A mock that has none
makes one when it is first updated (`MergedInto`). The third suite of the run starts both mocks
with one kept map.

What the properties except is what the code does:

* `Stop` does not ask `IsDryRun`. A discover usually overwrites a handle before
  the stage that stops it, and stops nothing; but a suite that is not `Ordered` (it
  starts its process only `if app == nil`, or panics on the nil rows of a dry
  `QueryData` before it assigns) lets a discover kill a process that runs,
  against `pkg/v1/docs/01-mental-model.md:88-90` and `pkg/v1/docs/06-database-and-redis.md:144-145`.
* After a discover a cleanup stage passes without stopping what runs: its
  handles are empty. The things whose handle is lost that way are `orphans`.
* What an "App Run" or "Mock Run" executed by hand starts, nobody can stop; such
  a mock answers from the map of the mock it replays, under another lock.
* Two mocks that a program starts with one map of its own share it, under two locks, and
  an update of the one races with the calls of the other. `UpdatesRaceOnlyOnStartMaps` excepts
  those maps (`StartMaps`) as well as replays, and says that nothing else does: not that two
  mocks are updated with one map, nor that both were started without one.
* `Stop` on the handle of a dry run returns and stops nothing, and its stage passes.
* A recorded `RegisterRoute` drops its error.

## 11. `Database`, the database helpers

One table, one helper under way at a time (`h`), whose statements are executed
one after the other; between them the application executes statements of its own,
and the connection may break at any of them (`Breaks`), before or after the
database has executed it. SQL is a record: what it sets, what it compares, and
for each value a placeholder, `?` or `:n`.

| definition | code in `db.go` |
|---|---|
| `SetupTable`, `DeleteWithLimit`, `InsertOne`, `ReplaceData`, `Update`, `QueryData`, `Placeholders`, `Limited` | the SQL that each helper writes for its driver |
| `Begin`, `Exec`, `Fetch` | the checks of the arguments; `DB.Exec`, ORA-00955 ignored; `DB.Query` and the rows, with `Data` for each |
| `Get`, `ExpectCount`; in `QueryResults`, `Expect` and `ExpectCond` | the functions of `RowResult` and `QueryResult` |
| `After`, `Removals`, `Selected`, ... | external: what a database makes of a statement |

| run | what it shows |
|---|---|
| `database` | five calls, four drivers, one statement of the application: `SetupGivesTheTable` (`IsSetUp`), `OnlyNamedRowsChange` (`NamedRowsChange`), and `ResultsAreTrue`, which is `FetchGivesTheRows` and `ExpectationsAgree` |

A database accepts a statement with as many arguments as placeholders (`IsAccepted`),
and `Upper` is how `Data` finds a column by its name in upper case. What is stored is nil,
a boolean, a number or a text (`IsStored`).

Five calls are a setup, two rows, a change and a fetch. Two rows tell "the rows
that are named" from "all rows" and from "as many as the limit".

What the code does and no property forbids: `Fetch` never asks `rows.Err`, so a
connection that breaks gives the rows before it, although `db.go:352` says "all
results"; `?` is not translated for postgres, whose drivers refuse it
(`pkg/v1/docs/06-database-and-redis.md:63` has the library translate); mysql knows no `CREATE INDEX
IF NOT EXISTS`, so that a `SetupTable` with indexes fails there; `ReplaceData` is an
`INSERT`; `SetupTableFromAnother` does nothing, though `pkg/v1/docs/06-database-and-redis.md:40` says
that it copies a schema; a `SetupTable` that fails half-way leaves what it did.
`Expect` compares texts, so a float64 of 10^6 or more, or of -10^6 or less, printed with an
exponent (`HasExponent`), is not `Expect`ed where `ExpectCond` with `Equal` passes, and of two
integers that are the same float64 only `ExpectCond` takes one for the other; such
numbers, from `Million` on or not `FloatIsExact`, are what `ExpectationsAgree` excepts (`Million`
and the first number that is not exact are both 128, with `Precision` 7, so that both bounds are
among the values of the run); `ExpectCond` checks
neither the condition nor what is expected, so `NotIn` passes with a `[]int` that holds the value.

## 12. `Request`, a request and what is expected of it

`Option` applies an option to the configuration; `SendRESTRequest` builds the
request or, in a dry run, returns an empty response; `Reply` and `DoFails` are
the server and the connection, which may cut the body short; `Expect` is any
expectation, and one that fails ends the stage. Bodies are documents of
`Documents` and `XmlDocuments`, or texts that are none. What is left of a JSON text that was
cut (`Cuts`) is none, or the first digits of a number alone (`Beginnings`); XML is cut between two
tokens or inside a text (`CutTokens`).

| definition | code |
|---|---|
| `Apply`, `DefaultType`, `PutHeader`, `PutHeaders`, `SentHeaders` | the options of `request.go` and the headers as they are sent |
| `ExpectJsonBody`, `ExpectJsonBodyField`, `ExpectJsonBodyFieldCond`, `ExpectXmlBody`, `ExpectXmlBodyField`, `ExpectXmlBodyFieldCond`, `Passes` | the expectations of `request.go` |
| `IsUsable`, `AssertCondition` | `expect_condition.go` |

| run | what it shows |
|---|---|
| `request` | `ContentTypeIsTheCallers`; `ExpectationsAreTrue`: what passes is so (`PassedExpectationsHold`, which is `BodiesMatch`, `FieldsAgree` and `OppositesExclude`), and stages and mocks find the same under a path (`StagesReadWhatMocksRead`) |

Three options are a header, a body and what comes after; one reply is enough for
expectations that look at nothing else. Headers are given one by one (`WithHeader`) or several
at once (`WithHeaders`), before a body or after it, and `ContentTypeIsTheCallers` is about all
of them (`GivenBy`): the last type given is sent.  Without one it is that of the first body, even
when a later option replaced that body, since the second finds a type (`request.go:198`).

What the code does and the properties except: headers spelt in other letters are
made canonical when they are sent, and the order of a map decides which of two
wins (where such a name is given, the property says no more than that the type is one of those
given or of a body); `ExpectXmlBody` takes `<r p=""/>` for `<r q="1"/>`, one way round; the
error of `ReadAll` is dropped, so that a body cut short passes where what is left of it would:
an XML body cut within its closing tags or inside a text, and the number 12 that is left of 129
(`BodiesMatch` compares with the body that came); an `int` inside a
slice or map that `ExpectJsonBodyField` is given never equals the float64 of the
body. A request has no deadline: a server that does not answer holds its stage
for ever, and with it the Tester.

## 13. What is proved

The type invariant of every component is proved for every value of its constants, and so is
each safety property of each passing run. Type invariants are therefore not repeated in
the runs. The proofs are in eight modules; three of them are about two modules each, which is why
`CliSession`, `EventStream` and `MockController` name their specification and what belongs to
it after themselves (`SessionSpec`, `StreamTypeOK`, `ControllerInit`): a module of proofs can
then extend both.

What is assumed of the constants is what the module that declares them says in an
ASSUME, which TLC evaluates for the instance of the run: bounds are natural numbers;
steps, calls, options and expectations have the types that Go gives them; replies and
arguments are values (`IsValue`, `IsXML`); and `Million`, from which on `%v` prints a float64
with an exponent, is a number that a float64 holds.

`TesterProofs` (for any number of Testers, callers, stages and actions):

* `TypeCorrect`, then `LocksCorrect`: the inductive invariant is
  `TypeOK /\ JobInv /\ LockInv`. `LockInv` ties each lock to the places of the
  code at which it is held (`RunMuInv`, `ReadersInv`, `WriterInv`, `QueueInv`);
  none of the properties is inductive without it, since each speaks of who
  executes and a step towards executing looks at a lock only.
* From it: `ExclusionPerTester`, `AdmittedCalls`, `Quiescence`'s lock part.
* `MutualExclusion`, `RecordingStateIsOwned`, `ActionsFiled`, `DryRunAnswer`,
  `Quiescence` and `ImplementsSerial` under the assumption `SingleTester` (all
  Testers are equal): with two of them stages overlap (section 3).

`TesterProofs` on `CliSession` (any number of runs and commands):

* `SessionCorrect`: `SessionTypeOK /\ SessionInv` is inductive (the session is taken by
  exactly the run that occupies it); from it `OneStage` and `EndWaits`.
* `LinesCorrect`: `LinesInv` is inductive together with `LinesOfARunAreOrdered` and
  `ReportsAreTrue`. It speaks of the lines written and of the one waiting to be
  (`Fits`: its run was announced, what it says of an outcome is so), of `last`, and
  of who may still write a progress line. The order needs it because a reply is
  composed in one step and written in a later one: that no line follows the result
  it should precede depends on what the reply in between was composed from. From
  it `LinesOrdered` and `ReportsTrue`.

`UIServerProofs` (any stages, requests and names): the inductive invariant is
`TypeOK /\ JobsInv`, proved together with `StatusTellsOutcome` as
`JobsCorrect`. `JobsInv` says that the goroutine past `Take` is the holder of
`s.runMu` (`MutexInv`), that the execution of the Tester is that of the goroutine
in it (`ActiveInv`), and that such a goroutine has a stage to run (`TodoInv`).
`StatusTellsOutcome` needs it: that a step of one request leaves the status
another one answers for alone follows from only one of them working. From it
`TypeCorrect`, `StatusesTell`, `ActionsRunAlone`. `ProgressCorrect` adds `ProgressInv`:
`todo` is the end of the request's plan (`PlanInv`); the prerequisites before it
have passed, unless one that is registered twice just failed (`PassedInv`); what a
run-all ran is the beginning of `order` (`RanInv`). That a skipped prerequisite has
passed is `StatusTellsOutcome`, and that the stage itself is not among its
prerequisites, so that running it undoes none of them, is the lemma `BeforeFacts`.
From it `PrerequisitesHold` and `RunAllIsComplete`.

`UIServerProofs` on `EventStream` (any connections, logs, fetches and capacity): `StreamInv` says for
each connection where its page, its channel and its snapshots can be (`Places`),
that every log it knows was written (`LogsExist`), and, for a page that only streams
and lost nothing, that the status and each log are in what it shows, in a snapshot
being read, in the channel, or still to be broadcast (`StatusOnItsWay`,
`LogsOnTheirWay`). The last two are why nothing falls between registration, snapshot
and stream: each step moves a thing from one of these places to the next.
`ChannelsSafe` and `NothingIsMissed` follow.

`HandlesProofs` (any suites whose variables have a type, as Go's have; any number of
things, maps and executions): the lemma `HelperForm` reduces each helper to its
effect on what was recorded, started, stopped and used. On that, one lemma for each
part of `IInv`: what a thing's state says of it (`ThingsInv`), that a variable holds
things of its type (`HandlesInv`), that who is not lost is held by the variable that
started it (`HeldInv`), which mocks share a map, and that one that was updated has a map
(`MapsInv`), what the stage under
way did (`PassedInv`), what a cleanup left, and that what it goes through is handles
that were started (`CleanInv`), and, for an `Ordered` suite,
that a discover holds empty handles only where it uses them (`DryInv`). From it
`DiscoverIsHarmless`, `PassedMeansDone`, `CleanupIsFinal`, `MapsAreOwn`, and the action
property `PortsAreFree`, which also needs that one variable holds one mock.
`ListsAreTheScripts` has an inductive invariant of its own, `ListsInv`: the list of the
stage under way follows the part of its script that was executed, and is not whole.
That a list follows a script is that its entries have places in it, in order; each
kind of call extends that map by one entry, by none, or by a nested one.

`DatabaseProofs` (any tables, calls, drivers and statements of the application; assumed
are what Go's types say of a call, `CallsAssumption`, what a database is sent,
`AppAssumption`, and that no two columns are spelt the same in upper case,
`UpperAssumption`): the inductive invariant is `TypeOK /\ SetupInv /\ FetchGivesTheRows`. `SetupInv`
says what the table is when a `SetupTable` that is alone has executed `n` of its
statements; `TypeOK` has that a helper under way has the last statements of its call
left, which tells `n`. From it `TypeCorrect`, `FetchedRowsAreTrue` and `SetupIsComplete`.
`ExpectationsAreHeld` adds that a result holds what is stored (`ResultIsStored`), and that
on such values texts and conditions agree: different integers have different texts
(`IntegersDiffer`), a text with an exponent is never that of an integer (`MarkedTexts`), and
integers that a float64 holds exactly stay themselves (`ExactIntegers`).
`NamedRowsOnly` looks at one statement, and rests on lemmas about the SQL:
placeholders are numbered through `SET` and `WHERE`, so that the k-th stands for the
k-th argument although the two lists of arguments are joined in the order of a map;
and a limit takes its number out of the rows selected.

`DocumentsProofs` has the lemmas on values, texts, conditions and paths that the next
three and `DatabaseProofs` cite. An operator that recurs (the powers of two, the digits
of a number, the tokens of a text) is a function on the naturals there; that a function
is defined by its equation, and that all of its values have a property, follow from the
well-foundedness of `<`, with a set in the place of the property (`Recursion`,
`RecursionBelow`, `Induction`). What they give:

* numbers: rounding a float64 changes nothing (`NearestIdempotent`), rounding an integer
  moves it by half of itself at most (`NearestIsNear`), and one of at most 53 bits is what no
  other is rounded to (`ExactIntegers`);
* texts: `%v` gives a text for any value, slices and maps included (`TextOfValue`, from
  `JoinedTexts` for what is between the brackets), different integers have different texts
  (`IntegersDiffer`), and what is read from a text is an integer (`ParsedNumbers`);
* JSON: `setValueByPath` gives the document, or the document with the value at the position
  of the path (`SettingAField`); there the value is found (`ReplacedIsFound`), and at a
  position neither above nor below it what was there before (`ApartIsKept`);
* XML: `parseXML` gives a tree for any tokens (`ParsedTrees`), and a path into it leads to a
  text (`XMLPathsLeadToTexts`).

`MockServerProofs` (any routes, requests, steps and precision; ints of any width that holds
999): `RoutesAreRight` needs no more than the types: a pattern matches exactly the paths
that fit it (`MatchingIsFitting`), and what it captures then gives the path back
(`CapturesGiveThePath`), both between the slashes that are trimmed. The inductive
invariant is `TypeOK /\ LastsInv /\ ResponseIsOfItsCase /\ CaseIsOfTheLastMatch /\
PanicsOnlyOnBadNumbers`. The properties speak of the last of the steps that set
something, and that there is a last one is a fact about finite sets which would need an
induction; `LastsInv` carries it along instead. The lemma `NextForms` reduces all actions
but the first and the last to what they do to the case and to the response (`StepForm`).
From it `RepliesAreOfTheirCase`. For `PanicsHaveReasons` the type invariant has that
variables hold values, since a step does arithmetic with the numbers it finds in them. Every argument of a step
reaches it through a float64 and is cut to an int there; that it is an int, and the given one
if a float64 holds it, is `ReceivedInts`, and `Wrapping` says what the subtraction and the
addition in front of `rand.Intn` give where they leave the ints.
That the range of a given number of digits (`GenerateRandomIntFixLength`) is never empty,
although its ends are powers of ten rounded to a float64 and cut to an int, is
`FixedLengthHasARange`, which rests on `NearestIsNear`.

`RedisProofs` (any keys, fields, values, paths and commands): the inductive invariant is
`TypeOK /\ WrittenInv /\ DocumentInv /\ AloneInv`. `WrittenInv` is stronger than the
property: where a field has been set something is read (`Holds`), and the value is what
is expected of each thing read, unless it has a number that is printed in two ways
(`Expects`). Between the read and the write of a setter, `DocumentInv` says that the document in the helper's hands holds the
field and all those remembered for its key, and `AloneInv` that, with nobody else on the
key, it is the stored one with the field set. `FieldsAreFound` follows from `WrittenInv`; that a value set and the value decoded from its
JSON print alike, slices and maps included, is `ShortNumbersStay` with `FloatsMatch`: a number
below `Million` keeps its text when it becomes a float64. The step that sets a field is
the lemma `SetDocument`, from the three on JSON above. `NothingElseChanges` and `LifetimesStay` are about the last step of a setter and follow
from `AloneInv`.

`RequestProofs` (any options, replies and expectations): for `TypeIsTheCallers` the
inductive invariant `IInv` follows the options, `WithHeader`, `WithHeaders` and the bodies
alike: which of the configuration's headers are spellings of `Content-Type`, and with which
values, is a matter of the last option that gave one and, when none did, of the first
body (`HeadersFollow`; `OptionsFollow` takes it through one option of each kind). `ExpectationsTellTheTruth` is about the state in which
expectations are checked, and needs of the past only that the response is a body,
cut short or not, where a cut leaves no JSON, the beginning of a number, or XML tokens of
which the last may be the beginning of a text (`TypeCorrect`, `CutDocuments`, `CutBodies`). That two ways to expect equality agree is
that what is found in a decoded body holds float64s only (`FieldsAre`); that opposites
exclude each other, that a value is read as one number at most (`Numerals`); that stages
and mocks find the same at a path, that both follow its position (`SamePaths`).

`MockServerProofs` on `MockController` (any ports, requests and calls): `ServersCorrect` is the
inductive invariant, `ControllerTypeOK /\ ServersInv /\ ShutInv`. `ServersInv`: only registrations
start servers, each is recorded under its own port, and calls are on servers that were started.
`ShutInv`: a server that was shut down serves no more, and a reset has shut all
its servers down when it answers. `NoServerLost` and `ResetsWait` are inductive
on top of it: neither is alone, since both speak of what a server may still do. `None`
being no request and no port is the only assumption used.

Only model-checked: liveness (`EveryCallReturns`, `RunIsAnswered`, `EveryRequestEnds`,
`PageCatchesUp`, `ClosedStreamsEnd`, `ResetsEnd`, `PatientClientIsServed`), because TLAPS treats
neither ENABLED nor fairness; and the run `cli_bye`, which finds a violation.

Assumptions of the models: stages are registered before anything runs
(registering during a dry run is a data race, `tester.go:204`); a stage function
does not itself call the runner (it would wait for itself).

## 14. Not modelled

* Run modes (`run.go`, `cli.go:35-54`): a process picks its mode once, from a flag or
  the environment, and then is one of the modelled front ends; nothing changes
  state afterwards. `RunCLI` is a loop over `RunStageByName`.
* The log and action-update handlers: they are called under `logMu` and `actionMu`,
  and those of the library take `serverRegistryMu` and `s.mu` inside, never the other
  way round. A handler of the program that logs, or runs a helper, waits for
  itself; nothing in the repository registers one.
* The token check, the static files and the start of the UI server, the control port
  of the mock server and its access key: one comparison or one call each, before
  anything that is modelled.
* `Sleep`, `model.go`: no state. Electron and the drawing of the page: JavaScript, of
  which `EventStream` has what the page keeps.
* The examples, which were read for how the library is used, and `vendor`.

Wording, formatting, durations and the contents of logs are left out everywhere: no
property is about them.
