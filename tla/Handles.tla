------------------------------- MODULE Handles -------------------------------
(***************************************************************************)
(* What stages share: the processes, in-process mocks and clients they     *)
(* start (app.go, mock.go, db.go, dynamic_mock.go), in the variables they  *)
(* keep the handles in, while stages run, a discover executes all of them  *)
(* as a dry run, and a user runs recorded actions again by hand.           *)
(*                                                                         *)
(* Executions do not overlap (Tester, UIServer); the goroutines of mocks   *)
(* go on beside them.  A stage is a sequence of helper calls, and ends     *)
(* with the first that fails or panics.                                    *)
(***************************************************************************)
EXTENDS Naturals, Sequences

CONSTANTS
  Suites,          \* what a program may register: sequences of stages
  Vars, Ports,
  MaxThings,       \* bound on processes, mocks and clients that are ever started
  MaxMaps,         \* bound on handler maps in use at a time
  Kept,            \* those that the program keeps in variables of its own
  MaxJobs,         \* bound on executions
  Nil, Empty       \* a variable never assigned; the handle that a dry run returns

Things == 1 .. MaxThings
Maps == 1 .. MaxMaps
NoMap == 0               \* a nil map, or none
NewMap == MaxMaps + 1    \* one that is written in the call
NoPort == 0

VARIABLES
  suite,     \* the registered stages
  handle,    \* the variables that stages share
  thing,     \* what was started
  job,       \* the execution under way
  actions,   \* stageActions: per stage, the calls with what their closures captured
  queued,    \* the recorded action that handleRunAction looked up, until s.runMu is free
  jobs,      \* how many executions began
  acted,     \* history: on what the execution under way, or the last one, acted
  orphans,   \* history: the things whose handle was overwritten or never kept
  cleaned,   \* history: the things there were, orphans apart, when a cleanup passed
  complete   \* history: per stage, the mode of the execution that its list is the whole of

histories == <<acted, orphans, cleaned, complete>>
vars == <<suite, handle, thing, job, actions, queued, jobs, histories>>
-----------------------------------------------------------------------------
(***************************************************************************)
(* Stages and their calls.  once: the stage calls it only while the        *)
(* variable is nil.                                                        *)
(***************************************************************************)
Call(do, var, port, map) == [do |-> do, var |-> var, port |-> port, map |-> map, once |-> FALSE]
Once(call) == [call EXCEPT !.once = TRUE]

Starters == {"RunAppServer", "RunMockServer", "Connect", "NewDynamicMockClient"}
Stoppers == {"AppStop", "MockStop"}
Users == {"UpdateMockServer", "SetupTable", "DropTable", "Fetch", "QueryData", "RegisterRoute"}

Calls == [do : Starters \cup Stoppers \cup Users, var : Vars, port : Ports \cup {NoPort},
          map : Kept \cup {NoMap, NewMap}, once : BOOLEAN]

\* The type that Go gives a variable: what it holds, and what is called on it.
KindOf(do) ==
  CASE do \in {"RunAppServer", "AppStop"} -> "app"
    [] do \in {"RunMockServer", "UpdateMockServer", "MockStop"} -> "mock"
    [] do \in {"NewDynamicMockClient", "RegisterRoute"} -> "dynamic"
    [] OTHER -> "db"

ASSUME HandlesAssumption ==
  /\ MaxThings \in Nat /\ MaxMaps \in Nat /\ MaxJobs \in Nat
  /\ Nil # Empty /\ Nil \notin Things /\ Empty \notin Things
  /\ NoPort \notin Ports /\ Kept \subseteq Maps
  /\ Suites \subseteq Seq(Seq(Calls))
  /\ \A stages \in Suites : \A s, t \in DOMAIN stages :
       \A k \in DOMAIN stages[s], n \in DOMAIN stages[t] :
         stages[s][k].var = stages[t][n].var => KindOf(stages[s][k].do) = KindOf(stages[t][n].do)

Handles == Things \cup {Nil, Empty}
Actions == [call : Calls, on : Handles, map : Maps \cup {NoMap}, dry : BOOLEAN, nested : BOOLEAN]
NoAction == [call |-> "none"]

Idle == [mode |-> "idle"]
InStage == job.mode \in {"real", "dry"}
Dry == job.mode = "dry"
Manual == job.mode = "manual"

Script == suite[job.stage]
Current == IF Manual THEN job.action.call ELSE Script[job.at]
Target == IF Manual THEN job.action.on ELSE handle[Current.var]
Skips == InStage /\ Current.once /\ handle[Current.var] # Nil

Calling(dos) ==
  /\ job.mode # "idle"
  /\ InStage => job.at \in DOMAIN Script
  /\ Current.do \in dos /\ ~Skips

\* The call returns; it panics, which the Tester or handleRunAction recovers.
Returns == job' = IF Manual THEN Idle ELSE [job EXCEPT !.at = @ + 1]
NextStage == IF Dry /\ job.stage < Len(suite) THEN [job EXCEPT !.stage = @ + 1, !.at = 0] ELSE Idle
Panics == job' = NextStage
-----------------------------------------------------------------------------
(***************************************************************************)
(* RecordAction.  A closure captures the handle that the helper was called *)
(* on, and the handler map; nothing is recorded by hand.                   *)
(***************************************************************************)
Entry(do, map, nested) ==
  [call |-> [Current EXCEPT !.do = do], on |-> IF do \in Starters THEN Nil ELSE Target,
   map |-> map, dry |-> Dry, nested |-> nested]

Record(entries) ==
  actions' = IF InStage THEN [actions EXCEPT ![job.stage] = @ \o entries] ELSE actions

\* What an execution acted on: by the call at which place, and from a dry run or not.
Acts(i) ==
  acted' = acted \cup {[do |-> Current.do, thing |-> i,
                        at |-> IF Manual THEN 0 ELSE job.at,
                        dry |-> Dry \/ (Manual /\ job.action.dry)]}

Assign(h) ==
  /\ handle' = [handle EXCEPT ![Current.var] = h]
  /\ orphans' = orphans \cup ({handle[Current.var]} \cap Things)

MapsInUse ==
  {thing[i].map : i \in Things}
    \cup (UNION {{actions[s][k].map : k \in DOMAIN actions[s]} : s \in DOMAIN actions})
    \cup (IF queued = NoAction THEN {} ELSE {queued.map})

IsNew(map) ==
  LET free == Maps \ (MapsInUse \cup Kept) IN map \in free /\ \A m \in free : map <= m

\* The caller's map: in a stage one that it writes or keeps, by hand that of the recorded call.
GivenMap(map) ==
  CASE Manual -> map = job.action.map
    [] ~Manual /\ Current.map = NewMap -> IsNew(map)
    [] OTHER -> map = Current.map

\* Mutant: a mock that has no map takes the caller's.
MergedIntoCallers(map) ==
  map = IF thing[Target].map = NoMap THEN Current.map ELSE thing[Target].map

\* The map that an update writes: that of its mock, or a new one.  It reads its own.
MergedInto(map) ==
  IF thing[Target].map = NoMap THEN IsNew(map) ELSE map = thing[Target].map

NotStarted == [kind |-> "none", state |-> "none", port |-> NoPort, map |-> NoMap,
               closed |-> FALSE, byHand |-> FALSE]
ThingRecords ==
  [kind : {"none", "app", "mock", "db", "dynamic"},
   state : {"none", "running", "starting", "checked", "bound", "serving", "failed", "ended"},
   port : Ports \cup {NoPort}, map : Maps \cup {NoMap}, closed : BOOLEAN, byHand : BOOLEAN]

\* i, the next thing, is started.  By hand, nobody gets its handle.
Start(i, state, map) ==
  /\ thing[i] = NotStarted /\ \A j \in Things : j < i => thing[j] # NotStarted
  /\ thing' = [thing EXCEPT ![i] =
                 [kind |-> KindOf(Current.do), state |-> state, port |-> Current.port,
                  map |-> map, closed |-> FALSE, byHand |-> Manual]]
  /\ IF Manual THEN orphans' = orphans \cup {i} /\ UNCHANGED handle ELSE Assign(i)

StartsDry == Assign(Empty) /\ UNCHANGED thing
Untouched == UNCHANGED <<thing, handle, acted, orphans>>
Rest == UNCHANGED <<suite, queued, jobs, cleaned, complete>>
-----------------------------------------------------------------------------
(***************************************************************************)
(* The helpers that start something.                                       *)
(***************************************************************************)
RunAppServer ==
  /\ Calling({"RunAppServer"})
  /\ Record(<<Entry("RunAppServer", NoMap, FALSE)>>)
  /\ \/ Dry /\ StartsDry /\ Returns
     \/ ~Dry /\ Returns /\ \E i \in Things : Start(i, "running", NoMap)
     \/ ~Dry /\ Panics /\ UNCHANGED <<thing, handle, orphans>>   \* Fail: cmd.Start
  /\ UNCHANGED acted /\ Rest

\* Always succeeds: the port is bound later, on a goroutine.
RunMockServer ==
  /\ Calling({"RunMockServer"})
  /\ \E map \in Maps \cup {NoMap} :
       /\ GivenMap(map)
       /\ Record(<<Entry("RunMockServer", map, FALSE)>>)
       /\ IF Dry THEN StartsDry ELSE \E i \in Things : Start(i, "starting", map)
  /\ Returns /\ UNCHANGED acted /\ Rest

Connect ==
  /\ Calling({"Connect"})
  /\ Record(<<Entry("Connect", NoMap, FALSE)>>)
  /\ \/ Dry /\ StartsDry /\ Returns
     \/ ~Dry /\ Returns /\ \E i \in Things : Start(i, "running", NoMap)
     \/ ~Dry /\ Panics /\ UNCHANGED <<thing, handle, orphans>>   \* Fail: sql.Open, Ping
  /\ UNCHANGED acted /\ Rest

NewDynamicMockClient ==
  /\ Calling({"NewDynamicMockClient"})
  /\ Record(<<Entry("NewDynamicMockClient", NoMap, FALSE)>>)
  /\ IF Dry THEN StartsDry ELSE \E i \in Things : Start(i, "running", NoMap)
  /\ Returns /\ UNCHANGED acted /\ Rest
-----------------------------------------------------------------------------
(***************************************************************************)
(* The helpers that use a handle, or stop what is behind it.               *)
(***************************************************************************)
\* A helper that found its handle real did its work.
Works == Acts(Target) /\ Returns /\ UNCHANGED <<thing, handle, orphans>>
Refuses == Panics /\ Untouched

Updates ==
  /\ Acts(Target) /\ Returns /\ UNCHANGED <<handle, orphans>>
  /\ \E map \in Maps : MergedInto(map) /\ thing' = [thing EXCEPT ![Target].map = map]

\* Mutant: IsDryRun is asked first.
UpdateMockServerDryFirst ==
  /\ Calling({"UpdateMockServer"})
  /\ IF Dry THEN UNCHANGED actions ELSE Record(<<Entry("UpdateMockServer", NoMap, FALSE)>>)
  /\ CASE Dry -> Returns /\ Untouched
       [] ~Dry /\ Target \in Things -> Updates
       [] OTHER -> Refuses
  /\ Rest

\* Mutant: without a server there is nothing to update.
UpdateMockServerLenient ==
  /\ Calling({"UpdateMockServer"})
  /\ Record(<<Entry("UpdateMockServer", NoMap, FALSE)>>)
  /\ CASE Dry \/ Target = Empty -> Returns /\ Untouched
       [] ~Dry /\ Target \in Things -> Updates
       [] OTHER -> Refuses
  /\ Rest

\* On nil it panics, on the handle of a dry run it fails.
UpdateMockServer ==
  /\ Calling({"UpdateMockServer"})
  /\ Record(<<Entry("UpdateMockServer", NoMap, FALSE)>>)
  /\ CASE Dry -> Returns /\ Untouched
       [] ~Dry /\ Target \in Things -> Updates
       [] OTHER -> Refuses
  /\ Rest

\* A helper of DBClient with the calls it makes of others.
DBCall(do, nested) ==
  /\ Calling({do})
  /\ IF Dry THEN /\ Record(<<Entry(do, NoMap, FALSE)>>)
                 /\ IF do = "QueryData" THEN Refuses   \* nil rows: the stage's next use panics
                    ELSE Returns /\ Untouched
     ELSE IF Target \notin Things
     THEN /\ Record(<<Entry(do, NoMap, FALSE)>> \o (IF do = "Fetch" THEN nested ELSE <<>>))
          /\ Refuses
     ELSE /\ Record(<<Entry(do, NoMap, FALSE)>> \o nested)
          /\ Works \/ (Acts(Target) /\ Panics /\ UNCHANGED <<thing, handle, orphans>>)
  /\ Rest

\* SetupTable is called with isReplace: it drops the table first.
SetupTable == DBCall("SetupTable", <<Entry("DropTable", NoMap, TRUE)>>)
DropTable == DBCall("DropTable", <<>>)
Fetch == DBCall("Fetch", <<Entry("QueryData", NoMap, TRUE)>>)
QueryData == DBCall("QueryData", <<>>)

\* RegisterRoute, ResetPort and ResetAll give an error back, which the stage asserts not to
\* be there, and which a closure drops.
RegisterRoute ==
  /\ Calling({"RegisterRoute"})
  /\ Record(<<Entry("RegisterRoute", NoMap, FALSE)>>)
  /\ CASE Dry -> Returns /\ Untouched
       [] ~Dry /\ Target \in Things -> Works \/ Refuses
       [] OTHER -> Refuses
  /\ Rest

\* Stop is not recorded, and does not ask IsDryRun.
Stop(do, Stopped(_)) ==
  /\ Calling({do})
  /\ CASE Target = Nil -> Panics /\ Untouched
       [] Target = Empty -> Returns /\ Untouched
       [] OTHER -> /\ Acts(Target) /\ Returns
                   /\ thing' = [thing EXCEPT ![Target] = Stopped(thing[Target])]
                   /\ UNCHANGED <<handle, orphans>>
  /\ UNCHANGED actions /\ Rest

AppStop == Stop("AppStop", LAMBDA t : [t EXCEPT !.state = "ended"])

\* Mutant: only a listener that is served is closed.
MockStopListener == Stop("MockStop", LAMBDA t :
  IF t.state = "serving" THEN [t EXCEPT !.closed = TRUE, !.state = "ended"] ELSE t)

\* Mutant: the listener is closed later.
MockStopLater == Stop("MockStop", LAMBDA t : [t EXCEPT !.closed = TRUE])

\* http.Server.Close: a listener that is not served yet closes itself.
MockStop == Stop("MockStop", LAMBDA t :
  [t EXCEPT !.closed = TRUE, !.state = IF t.state = "serving" THEN "ended" ELSE @])

Skip ==
  /\ InStage /\ job.at \in DOMAIN Script /\ Skips
  /\ Returns /\ UNCHANGED actions /\ Untouched /\ Rest
-----------------------------------------------------------------------------
(***************************************************************************)
(* Executions.                                                             *)
(***************************************************************************)
Begins(j) ==
  /\ job = Idle /\ jobs < MaxJobs
  /\ job' = j /\ jobs' = jobs + 1 /\ acted' = {}
  /\ UNCHANGED <<suite, handle, thing, actions, orphans, cleaned, complete>>

RunStage == \E s \in DOMAIN suite :
  Begins([mode |-> "real", stage |-> s, at |-> 0]) /\ UNCHANGED queued

\* Mutant: of one stage.
DiscoverOne == \E s \in DOMAIN suite :
  Begins([mode |-> "dry", stage |-> s, at |-> 0]) /\ UNCHANGED queued

Discover ==
  /\ suite # <<>>
  /\ Begins([mode |-> "dry", stage |-> 1, at |-> 0]) /\ UNCHANGED queued

\* handleRunAction looks the action up when the request arrives, and runs it later.
PickAction == \E s \in DOMAIN suite : \E k \in DOMAIN actions[s] :
  /\ queued = NoAction
  /\ queued' = actions[s][k]
  /\ UNCHANGED <<suite, handle, thing, job, actions, jobs, histories>>

RunAction ==
  /\ queued # NoAction
  /\ Begins([mode |-> "manual", action |-> queued])
  /\ queued' = NoAction

BeginStage ==
  /\ InStage /\ job.at = 0
  /\ job' = [job EXCEPT !.at = 1]
  /\ actions' = [actions EXCEPT ![job.stage] = <<>>]
  /\ complete' = [complete EXCEPT ![job.stage] = "none"]
  /\ UNCHANGED <<suite, handle, thing, queued, jobs, acted, orphans, cleaned>>

\* Every process and mock that the program starts has its Stop in the script.
CleansUp(script) ==
  /\ \A k \in DOMAIN script : script[k].do \notin Starters
  /\ \A s \in DOMAIN suite : \A k \in DOMAIN suite[s] :
       suite[s][k].do \in {"RunAppServer", "RunMockServer"} =>
         \E n \in DOMAIN script : /\ script[n].do \in Stoppers /\ ~script[n].once
                                 /\ script[n].var = suite[s][k].var

StageEnds ==
  /\ InStage /\ job.at = Len(Script) + 1
  /\ job' = NextStage
  /\ complete' = [complete EXCEPT ![job.stage] = job.mode]
  /\ cleaned' = IF ~Dry /\ CleansUp(Script)
                THEN {i \in Things : thing[i] # NotStarted} \ orphans ELSE cleaned
  /\ UNCHANGED <<suite, handle, thing, actions, queued, jobs, acted, orphans>>
-----------------------------------------------------------------------------
(***************************************************************************)
(* What goes on by itself: the goroutine of a mock, in ListenAndServe, and *)
(* a process that exits.                                                   *)
(***************************************************************************)
PortFree(port) ==
  \A j \in Things : thing[j].port = port => thing[j].state \notin {"bound", "serving"}

Becomes(i, state) ==
  /\ thing' = [thing EXCEPT ![i].state = state]
  /\ UNCHANGED <<suite, handle, job, actions, queued, jobs, histories>>

Check(i) == /\ thing[i].state = "starting"
            /\ Becomes(i, IF thing[i].closed THEN "ended" ELSE "checked")

\* A port that is in use is only logged.
Bind(i) == /\ thing[i].state = "checked"
           /\ Becomes(i, IF PortFree(thing[i].port) THEN "bound" ELSE "failed")

Serve(i) == /\ thing[i].state = "bound"
            /\ Becomes(i, IF thing[i].closed THEN "ended" ELSE "serving")

Exits(i) == thing[i].kind = "app" /\ thing[i].state = "running" /\ Becomes(i, "ended")
-----------------------------------------------------------------------------
Init ==
  /\ suite \in Suites
  /\ handle = [v \in Vars |-> Nil]
  /\ thing = [i \in Things |-> NotStarted]
  /\ job = Idle
  /\ actions = [s \in DOMAIN suite |-> <<>>]
  /\ queued = NoAction
  /\ jobs = 0
  /\ acted = {} /\ orphans = {} /\ cleaned = {}
  /\ complete = [s \in DOMAIN suite |-> "none"]

Helper ==
  \/ RunAppServer \/ RunMockServer \/ Connect \/ NewDynamicMockClient
  \/ UpdateMockServer \/ SetupTable \/ DropTable \/ Fetch \/ QueryData \/ RegisterRoute
  \/ AppStop \/ MockStop \/ Skip

Next ==
  \/ Helper
  \/ RunStage \/ Discover \/ PickAction \/ RunAction \/ BeginStage \/ StageEnds
  \/ \E i \in Things : Check(i) \/ Bind(i) \/ Serve(i) \/ Exits(i)

Spec == Init /\ [][Next]_vars
-----------------------------------------------------------------------------
\* Variables hold handles, things and actions are of their types.
TypeOK ==
  /\ suite \in Suites
  /\ handle \in [Vars -> Handles]
  /\ thing \in [Things -> ThingRecords]
  /\ \/ job = Idle
     \/ job \in [mode : {"real", "dry"}, stage : DOMAIN suite, at : Nat]
     \/ job \in [mode : {"manual"}, action : Actions]
  /\ actions \in [DOMAIN suite -> Seq(Actions)]
  /\ queued \in Actions \cup {NoAction}
  /\ jobs \in Nat
  /\ acted \subseteq [do : Users \cup Stoppers, thing : Things, at : Nat, dry : BOOLEAN]
  /\ orphans \subseteq Things /\ cleaned \subseteq Things
  /\ complete \in [DOMAIN suite -> {"none", "real", "dry"}]

\* A call that assigns its variable in every dry run: nothing before it in its stage makes
\* use of nil rows.
SureInDryRuns(t, n) ==
  /\ suite[t][n].do \in Starters /\ ~suite[t][n].once
  /\ \A m \in 1 .. n - 1 : suite[t][m].do # "QueryData"

\* The stages use and stop only what earlier calls, in the order of registration, assign.
Ordered ==
  \A s \in DOMAIN suite : \A k \in DOMAIN suite[s] :
    suite[s][k].do \notin Starters =>
      \E t \in 1 .. s : \E n \in DOMAIN suite[t] :
        /\ t = s => n < k
        /\ suite[t][n].var = suite[s][k].var
        /\ SureInDryRuns(t, n)

\* A discover touches nothing that a stage has started, although Stop does not ask
\* IsDryRun, provided the stages are ordered; nor does, by hand, an action that it recorded.
DryRunTouchesNothing == Ordered => \A e \in acted : ~e.dry

\* place: the call of the script that each entry records, nested ones apart.  They are in the
\* order of the script, and all calls before n are there but those that the stage may skip.
FollowsAt(place, list, script, n) ==
  LET direct == {k \in DOMAIN list : ~list[k].nested}
      calls == {c \in DOMAIN script : c < n /\ script[c].do \notin Stoppers}
  IN  /\ place \in [direct -> calls]
      /\ \A k \in direct : list[k].call = script[place[k]]
      /\ \A j, k \in direct : j < k => place[j] < place[k]
      /\ \A c \in calls : script[c].once \/ \E k \in direct : place[k] = c
Follows(list, script, n) ==
  \E place \in [{k \in DOMAIN list : ~list[k].nested} -> DOMAIN script] :
    FollowsAt(place, list, script, n)
NoneNested(list) == \A k \in DOMAIN list : ~list[k].nested

\* A list that is whole has the calls of its stage in order.  That of a discover has no
\* more; that of a run also has the calls that helpers make of each other.
ListsFollowTheScript ==
  \A s \in DOMAIN suite : complete[s] # "none" =>
    /\ Follows(actions[s], suite[s], Len(suite[s]) + 1)
    /\ complete[s] = "dry" => NoneNested(actions[s])

\* A stage that passes has used what it names: no call of it was skipped on the handle of a
\* dry run, or was refused, without failing the stage.  A Stop is no such call: on the handle
\* of a dry run it returns, and has stopped nothing.
PassedStagesDidTheirWork ==
  job.mode = "real" /\ job.at = Len(Script) + 1 =>
    \A k \in DOMAIN Script : Script[k].do \in Users =>
      \/ Script[k].once
      \/ \E e \in acted : e.at = k /\ e.do = Script[k].do /\ thing[e.thing] # NotStarted

\* What there was when a stage that stops everything passed, it is gone and stays gone,
\* a mock that had not begun to listen included; apart from what a discover, a second
\* start or an action run by hand has taken the handle of.
CleanedUpIsGone ==
  \A i \in cleaned : /\ thing[i].kind = "app" => thing[i].state = "ended"
                     /\ thing[i].kind = "mock" => thing[i].state # "serving"

\* A program that gives each of its mocks a port of its own.
PortPerVar ==
  \A s, t \in DOMAIN suite : \A k \in DOMAIN suite[s], n \in DOMAIN suite[t] :
    /\ suite[s][k].do = "RunMockServer" /\ suite[t][n].do = "RunMockServer"
    /\ suite[s][k].port = suite[t][n].port
    => suite[s][k].var = suite[t][n].var

\* A mock that a stage keeps gets its port, after a cleanup that passed even if an earlier
\* one had it.  It fails, which is only logged, behind one whose handle was lost: one that no
\* cleanup closed, or that it stopped before it listened.
MocksGetTheirPort ==
  [][\A i \in Things : PortPerVar /\ i \notin orphans
                       /\ thing[i].state = "checked" /\ thing'[i].state = "failed" =>
       \E j \in orphans : /\ thing[j].port = thing[i].port
                          /\ \/ thing[j].state = "bound"
                             \/ thing[j].state = "serving" /\ j \notin cleaned]_vars

\* The maps that the program keeps and starts mocks with.
StartMaps == {map \in Kept : \E s \in DOMAIN suite : \E k \in DOMAIN suite[s] :
                               suite[s][k].do = "RunMockServer" /\ suite[s][k].map = map}

\* An update writes the map of its mock under that mock's lock.  Another mock answers from
\* the same map, under a lock of its own, only if one of them was started by hand, or if the
\* program starts mocks with a map that it keeps: never because two mocks were updated with
\* one map, nor because they were started without any.
UpdatesRaceOnlyOnStartMaps ==
  \A e \in acted : e.do = "UpdateMockServer" =>
    \A j \in Things \ {e.thing} :
      thing[j].state = "serving" /\ thing[j].map = thing[e.thing].map =>
        \/ thing[j].byHand \/ thing[e.thing].byHand
        \/ thing[j].map \in StartMaps
-----------------------------------------------------------------------------
(***************************************************************************)
(* The inductive invariant.                                                *)
(***************************************************************************)
Started(i) == thing[i].kind # "none"
Recorded == (UNION {{actions[s][k] : k \in DOMAIN actions[s]} : s \in DOMAIN actions})
              \cup ({queued} \ {NoAction}) \cup (IF Manual THEN {job.action} ELSE {})
Done(k) == InStage /\ k \in DOMAIN Script /\ k < job.at

\* What the states of a thing say of its kind.
ThingsInv == \A i \in Things :
  /\ ~Started(i) => thing[i] = NotStarted
  /\ thing[i].kind = "app" => thing[i].state \in {"running", "ended"}
  /\ thing[i].state \in {"starting", "checked", "bound", "serving"} =>
       thing[i].kind = "mock"
  /\ thing[i].state = "serving" => ~thing[i].closed

\* A variable holds a thing that its calls take.
HandlesInv == \A v \in Vars : handle[v] \in Things =>
  /\ Started(handle[v])
  /\ \A s \in DOMAIN suite : \A k \in DOMAIN suite[s] :
       suite[s][k].var = v => KindOf(suite[s][k].do) = thing[handle[v]].kind

\* The variable that a stage assigned holds what was started, until that is an orphan.
HeldInv == \A i \in Things \ orphans : Started(i) =>
  \E s \in DOMAIN suite : \E k \in DOMAIN suite[s] :
    /\ suite[s][k].do \in Starters
    /\ handle[suite[s][k].var] = i /\ thing[i].port = suite[s][k].port

\* Of two mocks with one map, one was started by hand, unless stages start them with it;
\* a mock that was updated has a map.
MapsInv ==
  /\ \A i, j \in Things : i # j /\ thing[i].map \in Maps /\ thing[i].map = thing[j].map =>
       thing[i].byHand \/ thing[j].byHand \/ thing[i].map \in StartMaps
  /\ \A e \in acted : e.do = "UpdateMockServer" => thing[e.thing].map \in Maps

\* A call that a run has passed, and that was not to be skipped, did its work.
PassedInv == job.mode = "real" => \A k \in DOMAIN Script :
  Done(k) /\ Script[k].do \in Users => \/ Script[k].once
                                      \/ \E e \in acted : /\ e.at = k /\ e.do = Script[k].do
                                                           /\ Started(e.thing)

\* No stop is recorded, and no handle that was not started.  A stop in a cleanup that has
\* been passed, and a cleanup that is over, stopped the things.
Gone(i) == /\ Started(i)
           /\ thing[i].kind = "app" => thing[i].state = "ended"
           /\ thing[i].kind = "mock" => thing[i].closed
CleanInv ==
  /\ \A a \in Recorded : a.call.do \notin Stoppers /\ (a.on \in Things => Started(a.on))
  /\ \A i \in cleaned : Gone(i)
  /\ job.mode = "real" /\ CleansUp(Script) => \A k \in DOMAIN Script :
       Done(k) /\ Script[k].do \in Stoppers /\ ~Script[k].once
         /\ handle[Script[k].var] \in Things => Gone(handle[Script[k].var])

\* Where a dry run has passed a call that surely assigns a variable, that is empty.
DryInv == Ordered =>
  /\ \A a \in Recorded : a.dry => a.on \notin Things
  /\ \A e \in acted : ~e.dry
  /\ Dry => \A t \in 1 .. job.stage : \A n \in DOMAIN suite[t] :
       (t = job.stage => n < job.at) /\ SureInDryRuns(t, n) => handle[suite[t][n].var] = Empty

\* The list of the stage under way follows its script so far.
ListsInv ==
  /\ ListsFollowTheScript
  /\ InStage /\ job.at > 0 =>
       /\ complete[job.stage] = "none"
       /\ Follows(actions[job.stage], Script, job.at)
       /\ (Dry => NoneNested(actions[job.stage]))

IInv == TypeOK /\ ThingsInv /\ HandlesInv /\ HeldInv /\ MapsInv /\ PassedInv /\ CleanInv /\ DryInv
=============================================================================
