--------------------------- MODULE HandlesProofs ---------------------------
(***************************************************************************)
(* Theorems about Handles, for every set of registered stages and any      *)
(* number of executions.                                                   *)
(***************************************************************************)
EXTENDS Handles, TLAPS

(***************************************************************************)
(* What a helper may do, whichever it is.                                  *)
(***************************************************************************)
OnCall == job.mode # "idle" /\ (InStage => job.at \in DOMAIN Script)
Ends == Returns \/ Panics

\* What a helper records.
Fresh == {a \in Actions : /\ a.dry = Dry /\ a.call.do \notin Stoppers
                          /\ a.on = Nil \/ (a.on = Target /\ Current.do \notin Starters)}
RecordsFresh == UNCHANGED actions \/ \E es \in Seq(Fresh) : Record(es)

SkipsCall == InStage /\ Current.once /\ Returns /\ Untouched
IgnoresCall ==
  /\ Untouched
  /\ \/ Dry /\ Current.do \in Users /\ Returns
     \/ Dry /\ Current.do = "QueryData" /\ Panics
     \/ Current.do \in Stoppers /\ Target \notin Things /\ Returns
     \/ Current.do \in Stoppers /\ Target = Nil /\ Panics
     \/ ~Dry /\ Panics
EmptiesHandle == Dry /\ Current.do \in Starters /\ StartsDry /\ UNCHANGED acted /\ Returns
StartsThing ==
  /\ ~Dry /\ Current.do \in Starters /\ Returns /\ UNCHANGED acted
  /\ \E i \in Things :
       \/ Current.do # "RunMockServer" /\ Start(i, "running", NoMap)
       \/ Current.do = "RunMockServer" /\ 
            \E map \in Maps \cup {NoMap} : GivenMap(map) /\ Start(i, "starting", map)
Fills == \E map \in Maps :
  MergedInto(map) /\ thing' = [thing EXCEPT ![Target] = [thing[Target] EXCEPT !.map = map]]
UsesThing ==
  /\ ~Dry /\ Current.do \in Users /\ Target \in Things
  /\ Acts(Target) /\ UNCHANGED <<handle, orphans>> /\ Ends
  /\ IF Current.do = "UpdateMockServer" THEN Fills ELSE UNCHANGED thing
StopsThing ==
  /\ Current.do \in Stoppers /\ Target \in Things
  /\ Acts(Target) /\ UNCHANGED <<handle, orphans, actions>> /\ Returns
  /\ \/ /\ Current.do = "AppStop"
        /\ thing' = [thing EXCEPT ![Target] = [thing[Target] EXCEPT !.state = "ended"]]
     \/ /\ Current.do = "MockStop"
        /\ thing' = [thing EXCEPT ![Target] = [thing[Target] EXCEPT !.closed = TRUE,
             !.state = IF thing[Target].state = "serving" THEN "ended" ELSE thing[Target].state]]

HelperStep ==
  /\ OnCall /\ Rest /\ RecordsFresh
  /\ SkipsCall \/ IgnoresCall \/ EmptiesHandle \/ StartsThing \/ UsesThing \/ StopsThing

LEMMA SuiteType ==
  ASSUME TypeOK, NEW s \in DOMAIN suite
  PROVE  suite[s] \in Seq(Calls) /\ suite \in Seq(Seq(Calls)) /\ s \in Nat \ {0}
BY HandlesAssumption DEF TypeOK

LEMMA CallType ==
  ASSUME TypeOK, NEW s \in DOMAIN suite, NEW k \in DOMAIN suite[s]
  PROVE  suite[s][k] \in Calls /\ suite[s][k].var \in Vars
<1>1. suite[s] \in Seq(Calls)
  BY SuiteType
<1>2. suite[s][k] \in Calls
  BY <1>1
<1>3. QED
  BY <1>2 DEF Calls

\* The call that is made, and the handle it is made on.
LEMMA CurrentType ==
  ASSUME TypeOK, OnCall
  PROVE  /\ Current \in Calls /\ Target \in Handles
         /\ Manual \/ InStage
         /\ Manual => job \in [mode : {"manual"}, action : Actions] /\ ~InStage
         /\ InStage => job \in [mode : {"real", "dry"}, stage : DOMAIN suite, at : Nat] /\ ~Manual
<1>1. job \in [mode : {"real", "dry"}, stage : DOMAIN suite, at : Nat]
      \/ job \in [mode : {"manual"}, action : Actions]
  BY DEF TypeOK, OnCall, Idle
<1>2. CASE job \in [mode : {"manual"}, action : Actions]
  <2>1. job.mode = "manual" /\ job.action \in Actions
    BY <1>2
  <2>2. job.action.call \in Calls /\ job.action.on \in Handles
    BY <2>1 DEF Actions
  <2>3. QED
    BY <1>2, <2>1, <2>2 DEF Current, Target, Manual, InStage
<1>3. CASE job \in [mode : {"real", "dry"}, stage : DOMAIN suite, at : Nat]
  <2>1. InStage /\ ~Manual /\ job.stage \in DOMAIN suite
    BY <1>3 DEF InStage, Manual
  <2>2. Script \in Seq(Calls) /\ job.at \in DOMAIN Script
    BY <2>1, SuiteType DEF Script, OnCall
  <2>3. Current \in Calls
    BY <2>1, <2>2 DEF Current
  <2>4. handle[Current.var] \in Handles
    BY <2>3 DEF TypeOK, Calls
  <2>5. QED
    BY <1>3, <2>1, <2>3, <2>4 DEF Target
<1>4. QED
  BY <1>1, <1>2, <1>3

LEMMA EntryFresh ==
  ASSUME TypeOK, OnCall, NEW do \in Starters \cup Users, NEW map \in Maps \cup {NoMap},
         NEW nested \in BOOLEAN, (do \in Starters) <=> (Current.do \in Starters)
  PROVE  Entry(do, map, nested) \in Fresh
<1>1. Current \in Calls /\ Target \in Handles
  BY CurrentType
<1>2. do \notin Stoppers
  BY DEF Starters, Users, Stoppers
<1>3. [Current EXCEPT !.do = do] \in Calls /\ [Current EXCEPT !.do = do].do = do
  BY <1>1 DEF Calls
<1>4. Dry \in BOOLEAN
  BY DEF Dry
<1>5. Entry(do, map, nested) \in Actions
  BY <1>1, <1>3, <1>4 DEF Entry, Actions, Handles
<1>6. QED
  BY <1>2, <1>3, <1>5 DEF Entry, Fresh

LEMMA ShortSeqs ==
  ASSUME NEW S
  PROVE  /\ <<>> \in Seq(S)
         /\ \A x, y \in S : <<x>> \in Seq(S) /\ <<x>> \o <<y>> \in Seq(S) /\ <<x>> \o <<>> = <<x>>
OBVIOUS

LEMMA RecordOne ==
  ASSUME TypeOK, OnCall, NEW do \in Starters \cup Users, NEW map \in Maps \cup {NoMap},
         (do \in Starters) <=> (Current.do \in Starters), Record(<<Entry(do, map, FALSE)>>)
  PROVE  RecordsFresh
<1>1. Entry(do, map, FALSE) \in Fresh
  BY EntryFresh
<1>2. <<Entry(do, map, FALSE)>> \in Seq(Fresh)
  BY <1>1, ShortSeqs, Zenon
<1>3. QED
  BY <1>2 DEF RecordsFresh

LEMMA RecordTwo ==
  ASSUME TypeOK, OnCall, NEW do \in Users, NEW other \in Users, Current.do \notin Starters,
         Record(<<Entry(do, NoMap, FALSE)>> \o <<Entry(other, NoMap, TRUE)>>)
  PROVE  RecordsFresh
<1>1. do \notin Starters /\ other \notin Starters
  BY DEF Users, Starters
<1>2. Entry(do, NoMap, FALSE) \in Fresh /\ Entry(other, NoMap, TRUE) \in Fresh
  BY <1>1, EntryFresh
<1>3. <<Entry(do, NoMap, FALSE)>> \o <<Entry(other, NoMap, TRUE)>> \in Seq(Fresh)
  BY <1>2, ShortSeqs, Zenon
<1>4. QED
  BY <1>3 DEF RecordsFresh

\* Every helper is a step of this form.
LEMMA HelperForm == TypeOK /\ Helper => HelperStep
<1> SUFFICES ASSUME TypeOK, Helper PROVE HelperStep
  OBVIOUS
<1>a. \A do \in Starters : do \notin Users /\ do \notin Stoppers
  BY DEF Starters, Users, Stoppers
<1>b. \A do \in Users : do \notin Starters /\ do \notin Stoppers
  BY DEF Starters, Users, Stoppers
<1>c. \A dos : Calling(dos) => OnCall /\ Current.do \in dos
  BY DEF Calling, OnCall
<1>d. /\ {"RunAppServer", "RunMockServer", "Connect", "NewDynamicMockClient"} \subseteq Starters
      /\ {"UpdateMockServer", "SetupTable", "DropTable", "Fetch", "QueryData", "RegisterRoute"}
           \subseteq Users
      /\ {"AppStop", "MockStop"} \subseteq Stoppers
  BY DEF Starters, Users, Stoppers
<1>1. CASE RunAppServer
  <2>1. OnCall /\ Current.do = "RunAppServer" /\ Rest /\ UNCHANGED acted
        /\ Record(<<Entry("RunAppServer", NoMap, FALSE)>>)
    BY <1>1, <1>c DEF RunAppServer
  <2>2. RecordsFresh
    BY <2>1, <1>d, RecordOne
  <2>3. EmptiesHandle \/ StartsThing \/ IgnoresCall
    BY <1>1, <2>1, <1>d DEF RunAppServer, EmptiesHandle, StartsThing, IgnoresCall, Untouched
  <2>4. QED
    BY <2>1, <2>2, <2>3 DEF HelperStep
<1>2. CASE RunMockServer
  <2>1. OnCall /\ Current.do = "RunMockServer" /\ Rest /\ Returns /\ UNCHANGED acted
    BY <1>2, <1>c DEF RunMockServer
  <2>2. PICK map \in Maps \cup {NoMap} :
          /\ GivenMap(map) /\ Record(<<Entry("RunMockServer", map, FALSE)>>)
          /\ IF Dry THEN StartsDry ELSE \E i \in Things : Start(i, "starting", map)
    BY <1>2 DEF RunMockServer
  <2>3. RecordsFresh
    BY <2>1, <2>2, <1>d, RecordOne
  <2>4. EmptiesHandle \/ StartsThing
    BY <2>1, <2>2, <1>d DEF EmptiesHandle, StartsThing
  <2>5. QED
    BY <2>1, <2>3, <2>4 DEF HelperStep
<1>3. CASE Connect
  <2>1. OnCall /\ Current.do = "Connect" /\ Rest /\ UNCHANGED acted
        /\ Record(<<Entry("Connect", NoMap, FALSE)>>)
    BY <1>3, <1>c DEF Connect
  <2>2. RecordsFresh
    BY <2>1, <1>d, RecordOne
  <2>3. EmptiesHandle \/ StartsThing \/ IgnoresCall
    BY <1>3, <2>1, <1>d DEF Connect, EmptiesHandle, StartsThing, IgnoresCall, Untouched
  <2>4. QED
    BY <2>1, <2>2, <2>3 DEF HelperStep
<1>4. CASE NewDynamicMockClient
  <2>1. OnCall /\ Current.do = "NewDynamicMockClient" /\ Rest /\ Returns /\ UNCHANGED acted
        /\ Record(<<Entry("NewDynamicMockClient", NoMap, FALSE)>>)
    BY <1>4, <1>c DEF NewDynamicMockClient
  <2>2. RecordsFresh
    BY <2>1, <1>d, RecordOne
  <2>3. EmptiesHandle \/ StartsThing
    BY <1>4, <2>1, <1>d DEF NewDynamicMockClient, EmptiesHandle, StartsThing
  <2>4. QED
    BY <2>1, <2>2, <2>3 DEF HelperStep
<1>5. CASE UpdateMockServer
  <2>1. OnCall /\ Current.do = "UpdateMockServer" /\ Rest
        /\ Record(<<Entry("UpdateMockServer", NoMap, FALSE)>>)
    BY <1>5, <1>c DEF UpdateMockServer
  <2>2. RecordsFresh
    BY <2>1, <1>b, <1>d, RecordOne
  <2>3. IgnoresCall \/ UsesThing
    BY <1>5, <2>1, <1>d
       DEF UpdateMockServer, IgnoresCall, UsesThing, Updates, Fills, Refuses, Ends
  <2>4. QED
    BY <2>1, <2>2, <2>3 DEF HelperStep
<1>6. CASE RegisterRoute
  <2>1. OnCall /\ Current.do = "RegisterRoute" /\ Rest
        /\ Record(<<Entry("RegisterRoute", NoMap, FALSE)>>)
    BY <1>6, <1>c DEF RegisterRoute
  <2>2. RecordsFresh
    BY <2>1, <1>b, <1>d, RecordOne
  <2>3. IgnoresCall \/ UsesThing
    BY <1>6, <2>1, <1>d DEF RegisterRoute, IgnoresCall, UsesThing, Works, Refuses, Ends
  <2>4. QED
    BY <2>1, <2>2, <2>3 DEF HelperStep
<1>7. ASSUME NEW do \in {"SetupTable", "DropTable", "Fetch", "QueryData"}, NEW other \in Users,
             NEW nested \in {<<>>, <<Entry(other, NoMap, TRUE)>>}, DBCall(do, nested)
      PROVE  HelperStep
  <2>1. OnCall /\ Current.do = do /\ Rest /\ do \in Users
    BY <1>7, <1>c, <1>d DEF DBCall
  <2>2. \/ Record(<<Entry(do, NoMap, FALSE)>>)
        \/ Record(<<Entry(do, NoMap, FALSE)>> \o <<Entry(other, NoMap, TRUE)>>)
    <3>1. Entry(do, NoMap, FALSE) \in Fresh
      BY <2>1, <1>b, EntryFresh
    <3>2. <<Entry(do, NoMap, FALSE)>> \o <<>> = <<Entry(do, NoMap, FALSE)>>
      BY <3>1, ShortSeqs, Zenon
    <3>3. QED
      BY <1>7, <3>2 DEF DBCall
  <2>3. RecordsFresh
    BY <2>1, <2>2, <1>b, RecordOne, RecordTwo
  <2>4. IgnoresCall \/ UsesThing
    BY <1>7, <2>1 DEF DBCall, IgnoresCall, UsesThing, Works, Refuses, Ends
  <2>5. QED
    BY <2>1, <2>3, <2>4 DEF HelperStep
<1>8. CASE SetupTable \/ DropTable \/ Fetch \/ QueryData
  <2>1. "DropTable" \in Users /\ "QueryData" \in Users
    BY <1>d
  <2>2. QED
    BY <1>7, <1>8, <2>1 DEF SetupTable, DropTable, Fetch, QueryData
<1>9. CASE AppStop
  <2>1. OnCall /\ Current.do = "AppStop" /\ Rest /\ UNCHANGED actions
    BY <1>9, <1>c DEF AppStop, Stop
  <2>2. Target \in Handles
    BY <2>1, CurrentType
  <2>3. IgnoresCall \/ StopsThing
    BY <1>9, <2>1, <2>2, <1>d, HandlesAssumption
       DEF AppStop, Stop, IgnoresCall, StopsThing, Handles, TypeOK
  <2>4. QED
    BY <2>1, <2>3 DEF HelperStep, RecordsFresh
<1>10. CASE MockStop
  <2>1. OnCall /\ Current.do = "MockStop" /\ Rest /\ UNCHANGED actions
    BY <1>10, <1>c DEF MockStop, Stop
  <2>2. Target \in Handles
    BY <2>1, CurrentType
  <2>3. IgnoresCall \/ StopsThing
    BY <1>10, <2>1, <2>2, <1>d, HandlesAssumption
       DEF MockStop, Stop, IgnoresCall, StopsThing, Handles, TypeOK
  <2>4. QED
    BY <2>1, <2>3 DEF HelperStep, RecordsFresh
<1>11. CASE Skip
  BY <1>11 DEF Skip, Skips, InStage, HelperStep, OnCall, RecordsFresh, SkipsCall
<1>12. QED
  BY <1>1, <1>2, <1>3, <1>4, <1>5, <1>6, <1>8, <1>9, <1>10, <1>11 DEF Helper
-----------------------------------------------------------------------------
(***************************************************************************)
(* Types.                                                                  *)
(***************************************************************************)
JobType == \/ job = Idle
           \/ job \in [mode : {"real", "dry"}, stage : DOMAIN suite, at : Nat]
           \/ job \in [mode : {"manual"}, action : Actions]

LEMMA EndsType ==
  ASSUME TypeOK, OnCall, Ends, UNCHANGED suite
  PROVE  /\ JobType'
         /\ Manual => job' = Idle
         /\ Returns /\ InStage => job' = [job EXCEPT !.at = job.at + 1]
         /\ Panics => job' = NextStage
<1>1. CASE Manual
  <2>1. ~InStage /\ ~Dry
    BY <1>1 DEF Manual, InStage, Dry
  <2>2. job' = Idle
    BY <1>1, <2>1 DEF Ends, Returns, Panics, NextStage
  <2>3. QED
    BY <1>1, <2>1, <2>2 DEF JobType, Panics
<1>2. CASE InStage
  <2>1. job \in [mode : {"real", "dry"}, stage : DOMAIN suite, at : Nat] /\ ~Manual
    BY <1>2, CurrentType
  <2>2. suite \in Seq(Seq(Calls))
    BY HandlesAssumption DEF TypeOK
  <2>3. CASE Returns
    <3>1. job' = [job EXCEPT !.at = job.at + 1]
      BY <2>1, <2>3 DEF Returns
    <3>2. job.at + 1 \in Nat
      BY <2>1
    <3>3. job' \in [mode : {"real", "dry"}, stage : DOMAIN suite', at : Nat]
      BY <2>1, <3>1, <3>2
    <3>4. QED
      BY <2>1, <3>1, <3>3 DEF JobType, Panics
  <2>4. CASE Panics
    <3>1. CASE Dry /\ job.stage < Len(suite)
      <4>1. job' = [job EXCEPT !.stage = job.stage + 1, !.at = 0]
        BY <2>4, <3>1 DEF Panics, NextStage
      <4>2. job.stage + 1 \in DOMAIN suite
        BY <2>1, <2>2, <3>1
      <4>3. job' \in [mode : {"real", "dry"}, stage : DOMAIN suite', at : Nat]
        BY <2>1, <4>1, <4>2
      <4>4. QED
        BY <2>1, <2>4, <4>3 DEF JobType, Panics, Returns
    <3>2. CASE ~(Dry /\ job.stage < Len(suite))
      BY <2>1, <2>4, <3>2 DEF Panics, NextStage, JobType, Returns, Idle
    <3>3. QED
      BY <3>1, <3>2
  <2>5. QED
    BY <2>3, <2>4 DEF Ends
<1>3. QED
  BY <1>1, <1>2, CurrentType

\* Where an execution of stages goes on.
AtNextCall == /\ job'.mode = job.mode /\ job'.stage = job.stage /\ job'.at = job.at + 1
AtNextStage == /\ Dry /\ job.stage < Len(suite)
               /\ job'.mode = job.mode /\ job'.stage = job.stage + 1 /\ job'.at = 0

LEMMA ModeStep ==
  ASSUME job \in [mode : {"real", "dry"}, stage : DOMAIN suite, at : Nat]
  PROVE  /\ job' = NextStage => job' = Idle \/ AtNextStage
         /\ job' = [job EXCEPT !.at = job.at + 1] => AtNextCall
         /\ job' = Idle \/ AtNextStage \/ AtNextCall => ~Manual'
<1>1. job' = NextStage => job' = Idle \/ AtNextStage
  BY DEF NextStage, AtNextStage
<1>2. job' = [job EXCEPT !.at = job.at + 1] => AtNextCall
  BY DEF AtNextCall
<1>3. job' = Idle \/ AtNextStage \/ AtNextCall => ~Manual'
  BY DEF Idle, AtNextStage, AtNextCall, Manual
<1>4. QED
  BY <1>1, <1>2, <1>3

LEMMA RecordsType ==
  ASSUME TypeOK, OnCall, RecordsFresh, UNCHANGED suite
  PROVE  actions' \in [DOMAIN suite' -> Seq(Actions)]
<1>1. CASE UNCHANGED actions
  BY <1>1 DEF TypeOK
<1>2. ASSUME NEW es \in Seq(Fresh), Record(es)
      PROVE  actions' \in [DOMAIN suite' -> Seq(Actions)]
  <2>1. es \in Seq(Actions)
    <3>1. Fresh \subseteq Actions
      BY DEF Fresh
    <3>2. QED
      BY <1>2, <3>1
  <2>2. \A l \in Seq(Actions) : l \o es \in Seq(Actions)
    BY <2>1
  <2>3. QED
    BY <1>2, <2>2 DEF Record, TypeOK
<1>3. QED
  BY <1>1, <1>2 DEF RecordsFresh

LEMMA KindType == \A do : KindOf(do) \in {"app", "mock", "db", "dynamic"}
BY DEF KindOf

\* What a thing is when it is started.
LEMMA StartType ==
  ASSUME TypeOK, OnCall, NEW i \in Things, NEW state \in {"running", "starting"},
         NEW map \in Maps \cup {NoMap}, Start(i, state, map)
  PROVE  /\ thing[i] = NotStarted
         /\ thing' \in [Things -> ThingRecords]
         /\ \A j \in Things \ {i} : thing'[j] = thing[j]
         /\ thing'[i] = [kind |-> KindOf(Current.do), state |-> state, port |-> Current.port,
                         map |-> map, closed |-> FALSE, byHand |-> Manual]
         /\ thing'[i].map = map
         /\ handle' \in [Vars -> Handles] /\ orphans' \subseteq Things
<1>1. Current \in Calls
  BY CurrentType
<1>2. Manual \in BOOLEAN
  BY DEF Manual
<1> DEFINE new == [kind |-> KindOf(Current.do), state |-> state, port |-> Current.port,
                   map |-> map, closed |-> FALSE, byHand |-> Manual]
<1>3. new \in ThingRecords
  BY <1>1, <1>2, KindType DEF ThingRecords, Calls
<1>4. thing[i] = NotStarted /\ thing' = [thing EXCEPT ![i] = new]
  BY DEF Start
<1> HIDE DEF new
<1>5. thing' \in [Things -> ThingRecords] /\ thing'[i] = new
      /\ \A j \in Things \ {i} : thing'[j] = thing[j]
  BY <1>3, <1>4 DEF TypeOK
<1>6. handle' \in [Vars -> Handles] /\ orphans' \subseteq Things
  <2>1. Current.var \in Vars /\ i \in Handles
    BY <1>1 DEF Calls, Handles
  <2>2. handle \in [Vars -> Handles] /\ orphans \subseteq Things
    BY DEF TypeOK
  <2>3. CASE Manual
    BY <2>2, <2>3 DEF Start
  <2>4. CASE ~Manual
    BY <2>1, <2>2, <2>4 DEF Start, Assign
  <2> QED BY <2>3, <2>4
<1>7. new.map = map
  BY DEF new
<1>8. QED
  BY <1>4, <1>5, <1>6, <1>7 DEF new

\* What a thing is when it is stopped.
LEMMA StopType ==
  ASSUME TypeOK, OnCall, StopsThing
  PROVE  /\ thing' \in [Things -> ThingRecords]
         /\ \A j \in Things \ {Target} : thing'[j] = thing[j]
         /\ LET i == Target
                t == thing[i]
            IN  /\ thing'[i].kind = t.kind /\ thing'[i].port = t.port
                /\ thing'[i].map = t.map /\ thing'[i].byHand = t.byHand
                /\ Current.do = "AppStop" =>
                     thing'[i].state = "ended" /\ thing'[i].closed = t.closed
                /\ Current.do # "AppStop" =>
                     /\ Current.do = "MockStop" /\ thing'[i].closed
                     /\ thing'[i].state = IF t.state = "serving" THEN "ended" ELSE t.state
<1>1. Target \in Things /\ thing[Target] \in ThingRecords /\ thing \in [Things -> ThingRecords]
  BY DEF StopsThing, TypeOK
<1>2. CASE Current.do = "AppStop"
  <2>1. thing' = [thing EXCEPT ![Target] = [thing[Target] EXCEPT !.state = "ended"]]
    BY <1>2 DEF StopsThing
  <2>2. [thing[Target] EXCEPT !.state = "ended"] \in ThingRecords
    BY <1>1 DEF ThingRecords
  <2>3. QED
    BY <1>1, <1>2, <2>1, <2>2 DEF ThingRecords
<1>3. CASE Current.do = "MockStop"
  <2> DEFINE state == IF thing[Target].state = "serving" THEN "ended" ELSE thing[Target].state
             u == [thing[Target] EXCEPT !.closed = TRUE, !.state = state]
  <2>1. thing' = [thing EXCEPT ![Target] = u]
    BY <1>3 DEF StopsThing
  <2>2. state \in {"none", "running", "starting", "checked", "bound", "serving", "failed", "ended"}
    BY <1>1 DEF ThingRecords
  <2> HIDE DEF state
  <2>3. u \in ThingRecords /\ u.kind = thing[Target].kind /\ u.port = thing[Target].port
        /\ u.map = thing[Target].map /\ u.byHand = thing[Target].byHand
        /\ u.closed = TRUE /\ u.state = state
    BY <1>1, <2>2 DEF ThingRecords
  <2> HIDE DEF u
  <2>4. thing'[Target] = u /\ thing' \in [Things -> ThingRecords]
        /\ \A j \in Things \ {Target} : thing'[j] = thing[j]
    BY <1>1, <2>1, <2>3
  <2>5. QED
    BY <1>3, <2>3, <2>4 DEF state
<1>4. QED
  BY <1>2, <1>3 DEF StopsThing

\* What an updated mock is.
LEMMA FillType ==
  ASSUME TypeOK, OnCall, Target \in Things, Fills
  PROVE  /\ thing' \in [Things -> ThingRecords]
         /\ \A j \in Things \ {Target} : thing'[j] = thing[j]
         /\ thing'[Target].map \in Maps
         /\ thing'[Target] = [thing[Target] EXCEPT !.map = thing'[Target].map]
         /\ IF thing[Target].map = NoMap THEN thing'[Target].map \notin MapsInUse
            ELSE thing'[Target].map = thing[Target].map
<1>1. thing[Target] \in ThingRecords /\ thing \in [Things -> ThingRecords]
  BY DEF TypeOK
<1>2. PICK map \in Maps :
        MergedInto(map) /\ thing' = [thing EXCEPT ![Target] = [thing[Target] EXCEPT !.map = map]]
  BY DEF Fills
<1> DEFINE u == [thing[Target] EXCEPT !.map = map]
<1>3. u \in ThingRecords /\ u.map = map
  BY <1>1, <1>2 DEF ThingRecords
<1>4. thing'[Target] = u /\ thing' \in [Things -> ThingRecords]
      /\ \A j \in Things \ {Target} : thing'[j] = thing[j]
  BY <1>1, <1>2, <1>3
<1>5. IF thing[Target].map = NoMap THEN map \notin MapsInUse ELSE map = thing[Target].map
  BY <1>2 DEF MergedInto, IsNew
<1>6. QED
  BY <1>2, <1>3, <1>4, <1>5

LEMMA ActsType ==
  ASSUME TypeOK, OnCall, Target \in Things, Current.do \in Users \cup Stoppers, Acts(Target)
  PROVE  acted' \subseteq [do : Users \cup Stoppers, thing : Things, at : Nat, dry : BOOLEAN]
<1> DEFINE e == [do |-> Current.do, thing |-> Target, at |-> IF Manual THEN 0 ELSE job.at,
                 dry |-> Dry \/ (Manual /\ job.action.dry)]
<1>1. acted' = acted \cup {e}
  BY DEF Acts
<1>2. (IF Manual THEN 0 ELSE job.at) \in Nat
  BY CurrentType
<1>3. (Dry \/ (Manual /\ job.action.dry)) \in BOOLEAN
  BY DEF Dry
<1>4. e \in [do : Users \cup Stoppers, thing : Things, at : Nat, dry : BOOLEAN]
  BY <1>2, <1>3
<1>5. QED
  BY <1>1, <1>4 DEF TypeOK

LEMMA HelperType == TypeOK /\ HelperStep => TypeOK'
<1> SUFFICES ASSUME TypeOK, HelperStep PROVE TypeOK'
  OBVIOUS
<1>1. OnCall /\ Rest /\ Ends
  BY DEF HelperStep, Ends, SkipsCall, IgnoresCall, EmptiesHandle, StartsThing, UsesThing, StopsThing
<1>2. JobType'
  BY <1>1, EndsType DEF Rest
<1>3. actions' \in [DOMAIN suite' -> Seq(Actions)]
  BY <1>1, RecordsType DEF HelperStep, Rest
<1>4. Current \in Calls
  BY <1>1, CurrentType
<1>5. /\ handle' \in [Vars -> Handles] /\ thing' \in [Things -> ThingRecords]
      /\ acted' \subseteq [do : Users \cup Stoppers, thing : Things, at : Nat, dry : BOOLEAN]
      /\ orphans' \subseteq Things
  <2>1. CASE Untouched
    BY <2>1 DEF Untouched, TypeOK
  <2>2. CASE EmptiesHandle
    BY <1>4, <2>2 DEF EmptiesHandle, StartsDry, Assign, TypeOK, Handles, Calls
  <2>3. CASE StartsThing
    <3>1. UNCHANGED acted
      BY <2>3 DEF StartsThing
    <3>2. PICK i \in Things, state \in {"running", "starting"}, map \in Maps \cup {NoMap} :
            Start(i, state, map)
      BY <2>3 DEF StartsThing
    <3>3. QED
      BY <1>1, <3>1, <3>2, StartType DEF TypeOK
  <2>4. CASE UsesThing
    BY <1>1, <2>4, ActsType, FillType DEF UsesThing, TypeOK
  <2>5. CASE StopsThing
    <3>1. thing' \in [Things -> ThingRecords]
      BY <1>1, <2>5, StopType
    <3>2. QED
      BY <1>1, <2>5, <3>1, ActsType DEF StopsThing, TypeOK
  <2>6. QED
    BY <2>1, <2>2, <2>3, <2>4, <2>5 DEF HelperStep, SkipsCall, IgnoresCall
<1>6. QED
  BY <1>1, <1>2, <1>3, <1>5 DEF TypeOK, Rest, JobType

\* A step that is not a call of a helper.
GoesOn == \E i \in Things : Check(i) \/ Bind(i) \/ Serve(i) \/ Exits(i)
Executes == RunStage \/ Discover \/ PickAction \/ RunAction \/ BeginStage \/ StageEnds

LEMMA NextForm == [Next]_vars /\ TypeOK => HelperStep \/ Executes \/ GoesOn \/ UNCHANGED vars
BY HelperForm DEF Next, Executes, GoesOn

LEMMA GoesOnForm ==
  ASSUME TypeOK, NEW i \in Things, Check(i) \/ Bind(i) \/ Serve(i) \/ Exits(i)
  PROVE  \E state \in {"checked", "bound", "serving", "failed", "ended"} :
           /\ Becomes(i, state) /\ thing' \in [Things -> ThingRecords]
           /\ \A j \in Things \ {i} : thing'[j] = thing[j]
           /\ thing'[i] = [thing[i] EXCEPT !.state = state]
           /\ state = "serving" => ~thing[i].closed
           /\ \/ thing[i].kind = "app" /\ state = "ended"
              \/ thing[i].state \in {"starting", "checked", "bound"}
<1>1. PICK state \in {"checked", "bound", "serving", "failed", "ended"} :
        /\ Becomes(i, state)
        /\ state = "serving" => ~thing[i].closed
        /\ \/ thing[i].kind = "app" /\ state = "ended"
           \/ thing[i].state \in {"starting", "checked", "bound"}
  BY DEF Check, Bind, Serve, Exits
<1>2. thing \in [Things -> ThingRecords] /\ thing' = [thing EXCEPT ![i].state = state]
  BY <1>1 DEF TypeOK, Becomes
<1>3. [thing[i] EXCEPT !.state = state] \in ThingRecords
  BY <1>2 DEF ThingRecords
<1>4. QED
  BY <1>1, <1>2, <1>3

LEMMA ExecutesType == TypeOK /\ Executes => TypeOK' /\ UNCHANGED <<thing, handle, orphans, suite>>
<1> SUFFICES ASSUME TypeOK, Executes PROVE TypeOK' /\ UNCHANGED <<thing, handle, orphans, suite>>
  OBVIOUS
<1>0. suite \in Seq(Seq(Calls)) /\ \A s \in DOMAIN suite : suite[s] \in Seq(Calls)
  BY HandlesAssumption DEF TypeOK
<1>1. CASE RunStage
  <2>1. PICK s \in DOMAIN suite : Begins([mode |-> "real", stage |-> s, at |-> 0])
          /\ UNCHANGED queued
    BY <1>1 DEF RunStage
  <2>2. job' \in [mode : {"real", "dry"}, stage : DOMAIN suite', at : Nat]
    BY <2>1 DEF Begins
  <2>3. jobs' \in Nat /\ acted' = {}
    BY <2>1 DEF Begins, TypeOK
  <2>4. QED
    BY <2>1, <2>2, <2>3 DEF Begins, TypeOK
<1>2. CASE Discover
  <2>1. 1 \in DOMAIN suite
    BY <1>0, <1>2 DEF Discover
  <2>2. job' \in [mode : {"real", "dry"}, stage : DOMAIN suite', at : Nat]
    BY <1>2, <2>1 DEF Discover, Begins
  <2>3. jobs' \in Nat /\ acted' = {}
    BY <1>2 DEF Discover, Begins, TypeOK
  <2>4. QED
    BY <1>2, <2>2, <2>3 DEF Discover, Begins, TypeOK
<1>3. CASE PickAction
  <2>1. queued' \in Actions
    BY <1>3 DEF PickAction, TypeOK
  <2>2. QED
    BY <1>3, <2>1 DEF PickAction, TypeOK, histories
<1>4. CASE RunAction
  <2>1. queued \in Actions /\ job' = [mode |-> "manual", action |-> queued]
    BY <1>4 DEF RunAction, Begins, TypeOK
  <2>2. job' \in [mode : {"manual"}, action : Actions]
    BY <2>1
  <2>3. jobs' \in Nat /\ acted' = {}
    BY <1>4 DEF RunAction, Begins, TypeOK
  <2>4. QED
    BY <1>4, <2>2, <2>3 DEF RunAction, Begins, TypeOK
<1>5. CASE BeginStage
  <2>1. job \in [mode : {"real", "dry"}, stage : DOMAIN suite, at : Nat]
    BY <1>5 DEF BeginStage, InStage, TypeOK, Idle
  <2>2. job' \in [mode : {"real", "dry"}, stage : DOMAIN suite', at : Nat]
    BY <1>5, <2>1 DEF BeginStage
  <2>3. actions' \in [DOMAIN suite' -> Seq(Actions)]
    <3>1. <<>> \in Seq(Actions)
      BY ShortSeqs, Zenon
    <3>2. QED
      BY <1>5, <3>1 DEF BeginStage, TypeOK
  <2>4. complete' \in [DOMAIN suite' -> {"none", "real", "dry"}]
    BY <1>5 DEF BeginStage, TypeOK
  <2>5. QED
    BY <1>5, <2>2, <2>3, <2>4 DEF BeginStage, TypeOK
<1>6. CASE StageEnds
  <2>1. job \in [mode : {"real", "dry"}, stage : DOMAIN suite, at : Nat]
    BY <1>6 DEF StageEnds, InStage, TypeOK, Idle
  <2>2. job' = Idle \/ job' \in [mode : {"real", "dry"}, stage : DOMAIN suite', at : Nat]
    <3>1. CASE Dry /\ job.stage < Len(suite)
      <4>1. job' = [job EXCEPT !.stage = job.stage + 1, !.at = 0]
        BY <1>6, <3>1 DEF StageEnds, NextStage
      <4>2. job.stage + 1 \in DOMAIN suite
        BY <1>0, <2>1, <3>1
      <4>3. suite' = suite
        BY <1>6 DEF StageEnds
      <4>4. QED
        BY <2>1, <4>1, <4>2, <4>3
    <3>2. CASE ~(Dry /\ job.stage < Len(suite))
      BY <1>6, <3>2 DEF StageEnds, NextStage
    <3>3. QED
      BY <3>1, <3>2
  <2>3. complete' \in [DOMAIN suite' -> {"none", "real", "dry"}]
    BY <1>6, <2>1 DEF StageEnds, TypeOK
  <2>4. cleaned' \subseteq Things
    BY <1>6 DEF StageEnds, TypeOK
  <2>5. QED
    BY <1>6, <2>2, <2>3, <2>4 DEF StageEnds, TypeOK
<1>7. QED
  BY <1>1, <1>2, <1>3, <1>4, <1>5, <1>6 DEF Executes

LEMMA InitType == Init => TypeOK
<1> SUFFICES ASSUME Init PROVE TypeOK
  OBVIOUS
<1>1. NotStarted \in ThingRecords
  BY DEF NotStarted, ThingRecords
<1>2. actions \in [DOMAIN suite -> Seq(Actions)]
  BY DEF Init
<1>3. QED
  BY <1>1, <1>2 DEF Init, TypeOK, Handles

LEMMA TypeStep == TypeOK /\ [Next]_vars => TypeOK'
<1> SUFFICES ASSUME TypeOK, [Next]_vars PROVE TypeOK'
  OBVIOUS
<1>1. CASE GoesOn
  <2>1. PICK i \in Things : Check(i) \/ Bind(i) \/ Serve(i) \/ Exits(i)
    BY <1>1 DEF GoesOn
  <2>2. thing' \in [Things -> ThingRecords] /\ \E state : Becomes(i, state)
    BY <2>1, GoesOnForm
  <2>3. QED
    BY <2>2 DEF Becomes, TypeOK, histories
<1>2. CASE UNCHANGED vars
  BY <1>2 DEF vars, histories, TypeOK
<1>3. QED
  BY <1>1, <1>2, NextForm, HelperType, ExecutesType

\* Variables, things and executions are of their types, whatever is registered and run.
THEOREM TypeCorrect == Spec => []TypeOK
BY InitType, TypeStep, PTL DEF Spec

-----------------------------------------------------------------------------
(***************************************************************************)
(* Recorded calls, and what a call finds behind its handle.                *)
(***************************************************************************)
InLists(a) == \E s \in DOMAIN actions : \E k \in DOMAIN actions[s] : a = actions[s][k]

LEMMA RecordedMembers ==
  /\ \A a : a \in Recorded <=> \/ InLists(a)
                               \/ a = queued /\ queued # NoAction
                               \/ Manual /\ a = job.action
  /\ \A a : a \in Recorded' <=> \/ InLists(a)'
                                \/ a = queued' /\ queued' # NoAction
                                \/ Manual' /\ a = job.action'
<1>1. \A a : a \in Recorded <=> \/ InLists(a)
                                \/ a = queued /\ queued # NoAction
                                \/ Manual /\ a = job.action
  BY DEF Recorded, InLists
<1>2. \A a : a \in Recorded' <=> \/ InLists(a)'
                                 \/ a = queued' /\ queued' # NoAction
                                 \/ Manual' /\ a = job.action'
  BY DEF Recorded, InLists
<1>3. QED
  BY <1>1, <1>2

\* Only a call in a stage adds to what is recorded.
LEMMA RecordedStep ==
  ASSUME TypeOK, [Next]_vars, NEW a \in Recorded', a \notin Recorded
  PROVE  HelperStep /\ InStage /\ a \in Fresh
<1>1. ~InLists(a) /\ ~(a = queued /\ queued # NoAction) /\ ~(Manual /\ a = job.action)
  BY RecordedMembers
<1>2. InLists(a)' \/ (a = queued' /\ queued' # NoAction) \/ (Manual' /\ a = job.action')
  BY RecordedMembers
<1>3. CASE HelperStep
  <2>1. OnCall /\ Ends /\ UNCHANGED <<suite, queued>>
    BY <1>3 DEF HelperStep, Ends, SkipsCall, IgnoresCall, EmptiesHandle, StartsThing, UsesThing,
                StopsThing, Rest
  <2>2. ~Manual'
    <3>1. CASE Manual
      BY <2>1, <3>1, EndsType DEF Manual, Idle
    <3>2. CASE InStage
      <4>1. job \in [mode : {"real", "dry"}, stage : DOMAIN suite, at : Nat]
        BY <2>1, <3>2, CurrentType
      <4>2. QED
        BY <2>1, <3>2, <4>1, EndsType, ModeStep DEF Ends
    <3>3. QED
      BY <2>1, <3>1, <3>2, CurrentType
  <2>3. InLists(a)'
    BY <1>1, <1>2, <2>1, <2>2
  <2>4. actions' # actions
    BY <1>1, <2>3 DEF InLists
  <2>5. PICK es \in Seq(Fresh) : Record(es)
    BY <1>3, <2>4 DEF HelperStep, RecordsFresh
  <2>6. InStage /\ actions' = [actions EXCEPT ![job.stage] = @ \o es]
    BY <2>4, <2>5 DEF Record
  <2>7. job.stage \in DOMAIN actions /\ actions[job.stage] \in Seq(Actions)
    BY <2>1, <2>6, CurrentType DEF TypeOK
  <2>8. PICK s \in DOMAIN actions' : \E k \in DOMAIN actions'[s] : a = actions'[s][k]
    BY <2>3 DEF InLists
  <2>9. s = job.stage
    BY <1>1, <2>6, <2>8 DEF InLists
  <2>10. actions'[s] = actions[s] \o es
    BY <2>6, <2>7, <2>9
  <2>11. \A l \in Seq(Actions), m \in Seq(Fresh) : \A j \in DOMAIN (l \o m) :
           (\E i \in DOMAIN l : (l \o m)[j] = l[i]) \/ (l \o m)[j] \in Fresh
    OBVIOUS
  <2>12. (\E i \in DOMAIN actions[s] : a = actions[s][i]) \/ a \in Fresh
    BY <2>7, <2>8, <2>9, <2>10, <2>11
  <2>13. QED
    BY <1>1, <1>3, <2>6, <2>7, <2>9, <2>12 DEF InLists
<1>4. CASE Executes
  <2>1. CASE RunStage \/ Discover
    BY <1>1, <1>2, <2>1 DEF RunStage, Discover, Begins, InLists, Manual
  <2>2. CASE PickAction
    BY <1>1, <1>2, <2>2 DEF PickAction, InLists, Manual, TypeOK
  <2>3. CASE RunAction
    BY <1>1, <1>2, <2>3 DEF RunAction, Begins, InLists, Manual
  <2>4. CASE BeginStage
    <3>1. job \in [mode : {"real", "dry"}, stage : DOMAIN suite, at : Nat]
      BY <2>4 DEF BeginStage, InStage, TypeOK, Idle
    <3>2. ~Manual' /\ UNCHANGED queued
      BY <2>4, <3>1 DEF BeginStage, Manual
    <3>3. \A s \in DOMAIN actions' : actions'[s] = actions[s] \/ actions'[s] = <<>>
      BY <2>4, <3>1 DEF BeginStage, TypeOK
    <3>4. QED
      BY <1>1, <1>2, <2>4, <3>2, <3>3 DEF BeginStage, InLists
  <2>5. CASE StageEnds
    <3>1. job \in [mode : {"real", "dry"}, stage : DOMAIN suite, at : Nat]
      BY <2>5 DEF StageEnds, InStage, TypeOK, Idle
    <3>2. ~Manual' /\ UNCHANGED <<queued, actions>>
      BY <2>5, <3>1 DEF StageEnds, NextStage, Manual, Idle
    <3>3. QED
      BY <1>1, <1>2, <3>2 DEF InLists
  <2>6. QED
    BY <1>4, <2>1, <2>2, <2>3, <2>4, <2>5 DEF Executes
<1>5. CASE GoesOn \/ UNCHANGED vars
  BY <1>1, <1>2, <1>5 DEF GoesOn, Check, Bind, Serve, Exits, Becomes, vars, InLists, Manual
<1>6. QED
  BY <1>3, <1>4, <1>5, NextForm, <1>1, <1>2

RecordedFits ==
  \A a \in Recorded : a.call.do \notin Stoppers /\ (a.on \in Things => Started(a.on))

\* A call is made on a variable of its type, and a stop in a stage.
LEMMA CallFits ==
  ASSUME TypeOK, HandlesInv, RecordedFits, OnCall
  PROVE  /\ Current.do \in Stoppers => InStage
         /\ Target \in Things => Started(Target)
         /\ InStage /\ Target \in Things => thing[Target].kind = KindOf(Current.do)
         /\ InStage /\ handle[Current.var] \in Things =>
              Started(handle[Current.var]) /\ thing[handle[Current.var]].kind = KindOf(Current.do)
<1>1. CASE InStage
  <2>1. job \in [mode : {"real", "dry"}, stage : DOMAIN suite, at : Nat] /\ ~Manual
    BY <1>1, CurrentType
  <2>2. Current = suite[job.stage][job.at] /\ job.at \in DOMAIN suite[job.stage]
    BY <1>1, <2>1 DEF Current, Script, OnCall
  <2>3. Current.var \in Vars
    BY CurrentType DEF Calls
  <2>4. QED
    BY <1>1, <2>1, <2>2, <2>3 DEF HandlesInv, Target
<1>2. CASE Manual
  <2>1. job.action \in Recorded /\ ~InStage
    BY <1>2, RecordedMembers, CurrentType
  <2>2. QED
    BY <1>2, <2>1 DEF RecordedFits, Current, Target
<1>3. QED
  BY <1>1, <1>2, CurrentType

-----------------------------------------------------------------------------
(***************************************************************************)
(* What steps do to things.                                                *)
(***************************************************************************)
Keeps(i) ==
  /\ thing'[i].kind = thing[i].kind /\ thing'[i].port = thing[i].port
  /\ thing[i].map # NoMap => thing'[i].map = thing[i].map
  /\ thing'[i].byHand = thing[i].byHand
  /\ thing[i].closed => thing'[i].closed
  /\ thing[i].kind = "app" /\ thing[i].state = "ended" => thing'[i].state = "ended"
ThingOK(t) ==
  /\ t.kind = "none" => t = NotStarted
  /\ t.kind = "app" => t.state \in {"running", "ended"}
  /\ t.state \in {"starting", "checked", "bound", "serving"} => t.kind = "mock"
  /\ t.state = "serving" => ~t.closed

LEMMA ThingsInvForm == /\ ThingsInv <=> \A i \in Things : ThingOK(thing[i])
                       /\ ThingsInv' <=> \A i \in Things : ThingOK(thing'[i])
BY DEF ThingsInv, ThingOK, Started

LEMMA ThingStep ==
  ASSUME TypeOK, ThingsInv, HandlesInv, RecordedFits, [Next]_vars
  PROVE  /\ ThingsInv' /\ \A i \in Things : Started(i) => Keeps(i)
         /\ UNCHANGED suite
<1>0. \A i \in Things : ThingOK(thing[i]) /\ thing[i] \in ThingRecords
  BY ThingsInvForm DEF TypeOK
<1>1. CASE UNCHANGED <<thing, suite>>
  BY <1>1 DEF ThingsInv, Started, Keeps
<1>2. CASE HelperStep /\ StartsThing
  <2>1. OnCall /\ UNCHANGED suite /\ Current \in Calls
    BY <1>2, CurrentType DEF HelperStep, Rest
  <2>2. PICK i \in Things :
          \/ Current.do # "RunMockServer" /\ Start(i, "running", NoMap)
          \/ /\ Current.do = "RunMockServer"
             /\ \E map \in Maps \cup {NoMap} : Start(i, "starting", map)
    BY <1>2 DEF StartsThing
  <2>3. PICK state \in {"running", "starting"}, map \in Maps \cup {NoMap} :
          /\ Start(i, state, map)
          /\ state = "starting" => Current.do = "RunMockServer"
    BY <2>2
  <2>4. /\ thing[i] = NotStarted /\ \A j \in Things \ {i} : thing'[j] = thing[j]
        /\ thing'[i] = [kind |-> KindOf(Current.do), state |-> state, port |-> Current.port,
                        map |-> map, closed |-> FALSE, byHand |-> Manual]
    BY <2>1, <2>3, StartType
  <2>5. ThingOK(thing'[i])
    BY <1>2, <2>3, <2>4 DEF ThingOK, KindOf, StartsThing, Starters
  <2>6. ~Started(i)
    BY <2>4 DEF Started, NotStarted
  <2>7. QED
    BY <1>0, <2>1, <2>4, <2>5, <2>6, ThingsInvForm DEF Keeps
<1>3. CASE HelperStep /\ StopsThing
  <2>1. OnCall /\ UNCHANGED suite /\ Target \in Things /\ Current.do \in Stoppers
    BY <1>3 DEF HelperStep, Rest, StopsThing
  <2>2. Started(Target) /\ thing[Target].kind = KindOf(Current.do)
    BY <2>1, CallFits
  <2>3. ThingOK(thing'[Target]) /\ Keeps(Target)
    <3>1. CASE Current.do = "AppStop"
      <4>1. thing[Target].kind = "app"
        BY <2>2, <3>1 DEF KindOf
      <4>2. QED
        BY <1>0, <1>3, <2>1, <3>1, <4>1, StopType DEF ThingOK, Keeps
    <3>2. CASE Current.do # "AppStop"
      <4>1. thing[Target].kind = "mock"
        BY <2>1, <2>2, <3>2 DEF KindOf, Stoppers
      <4>2. QED
        BY <1>0, <1>3, <2>1, <3>2, <4>1, StopType DEF ThingOK, Keeps
    <3>3. QED
      BY <3>1, <3>2
  <2>4. \A j \in Things \ {Target} : thing'[j] = thing[j]
    BY <1>3, <2>1, StopType
  <2>5. QED
    BY <1>0, <2>1, <2>3, <2>4, ThingsInvForm DEF Keeps
<1>4. CASE HelperStep /\ ~StartsThing /\ ~StopsThing
  <2>1. CASE UNCHANGED thing
    BY <1>1, <1>4, <2>1 DEF HelperStep, Rest
  <2>2. CASE UsesThing /\ Fills
    <3>1. OnCall /\ UNCHANGED suite /\ Target \in Things /\ Started(Target)
      BY <1>4, <2>2, CallFits DEF HelperStep, Rest, UsesThing
    <3>2. /\ \A j \in Things \ {Target} : thing'[j] = thing[j]
          /\ thing'[Target] = [thing[Target] EXCEPT !.map = thing'[Target].map]
          /\ thing[Target].map # NoMap => thing'[Target].map = thing[Target].map
      BY <2>2, <3>1, FillType
    <3>3. ThingOK(thing'[Target]) /\ Keeps(Target)
      BY <1>0, <3>1, <3>2 DEF ThingOK, Keeps, Started, ThingRecords
    <3>4. QED
      BY <1>0, <3>1, <3>2, <3>3, ThingsInvForm DEF Keeps
  <2>3. QED
    BY <1>4, <2>1, <2>2 DEF HelperStep, SkipsCall, IgnoresCall, EmptiesHandle, UsesThing,
                            Untouched, StartsDry
<1>5. CASE Executes
  BY <1>1, <1>5, ExecutesType
<1>6. CASE GoesOn
  <2>1. PICK i \in Things : Check(i) \/ Bind(i) \/ Serve(i) \/ Exits(i)
    BY <1>6 DEF GoesOn
  <2>2. PICK state \in {"checked", "bound", "serving", "failed", "ended"} :
           /\ Becomes(i, state)
           /\ \A j \in Things \ {i} : thing'[j] = thing[j]
           /\ thing'[i] = [thing[i] EXCEPT !.state = state]
           /\ state = "serving" => ~thing[i].closed
           /\ \/ thing[i].kind = "app" /\ state = "ended"
              \/ thing[i].state \in {"starting", "checked", "bound"}
    BY <2>1, GoesOnForm
  <2>3. ThingOK(thing'[i]) /\ Keeps(i)
    BY <1>0, <2>2 DEF ThingOK, Keeps, ThingRecords
  <2>4. QED
    BY <1>0, <2>2, <2>3, ThingsInvForm DEF Keeps, Becomes
<1>7. QED
  BY <1>1, <1>2, <1>3, <1>4, <1>5, <1>6, NextForm DEF vars

\* How variables, and the things that lose theirs, change.
Starting(i) == /\ HelperStep /\ StartsThing /\ OnCall /\ Current \in Calls
               /\ thing[i] = NotStarted /\ thing'[i].kind = KindOf(Current.do)
               /\ thing'[i].port = Current.port /\ thing'[i].byHand = Manual
               /\ Current.do \in Starters
Assigns(h) == /\ InStage /\ OnCall /\ Assign(h)
              /\ Current.var \in Vars /\ Current.do \in Starters

LEMMA HandleStep ==
  ASSUME TypeOK, ThingsInv, HandlesInv, RecordedFits, [Next]_vars
  PROVE  \/ UNCHANGED <<handle, orphans>> /\ \A i \in Things : ~Started(i) => thing'[i] = thing[i]
         \/ Assigns(Empty) /\ UNCHANGED thing
         \/ \E i \in Things : /\ Starting(i)
                              /\ \A j \in Things \ {i} : thing'[j] = thing[j]
                              /\ Assigns(i) \/ (Manual /\ orphans' = orphans \cup {i} /\ UNCHANGED handle)
<1>1. CASE HelperStep /\ StartsThing
  <2>1. OnCall /\ Current \in Calls /\ Current.do \in Starters
    BY <1>1, CurrentType DEF HelperStep, StartsThing
  <2>2. PICK i \in Things, state \in {"running", "starting"}, map \in Maps \cup {NoMap} :
          Start(i, state, map)
    BY <1>1 DEF StartsThing
  <2>3. Starting(i) /\ \A j \in Things \ {i} : thing'[j] = thing[j]
    <3>1. /\ thing[i] = NotStarted /\ \A j \in Things \ {i} : thing'[j] = thing[j]
          /\ thing'[i] = [kind |-> KindOf(Current.do), state |-> state, port |-> Current.port,
                         map |-> map, closed |-> FALSE, byHand |-> Manual]
      BY <2>1, <2>2, StartType
    <3>2. thing'[i].kind = KindOf(Current.do) /\ thing'[i].port = Current.port
      BY <3>1
    <3>3. thing'[i].byHand = Manual
      BY <3>1
    <3>4. QED
      BY <1>1, <2>1, <3>1, <3>2, <3>3 DEF Starting
  <2>4. Current.var \in Vars
    BY <2>1 DEF Calls
  <2>5. Assigns(i) \/ (Manual /\ orphans' = orphans \cup {i} /\ UNCHANGED handle)
    BY <2>1, <2>2, <2>4, CurrentType DEF Start, Assigns
  <2>6. QED
    BY <2>3, <2>5
<1>2. CASE HelperStep /\ EmptiesHandle
  <2>1. OnCall /\ Current \in Calls
    BY <1>2, CurrentType DEF HelperStep
  <2>2. Assigns(Empty) /\ UNCHANGED thing
    BY <1>2, <2>1 DEF EmptiesHandle, StartsDry, Assigns, Calls, Dry, InStage
  <2>3. QED
    BY <2>2
<1>3. CASE HelperStep /\ StopsThing
  <2>1. OnCall /\ Current.do \in Stoppers /\ Target \in Things /\ UNCHANGED <<handle, orphans>>
    BY <1>3 DEF HelperStep, StopsThing
  <2>2. Started(Target)
    BY <2>1, CallFits
  <2>3. \A j \in Things \ {Target} : thing'[j] = thing[j]
    BY <1>3, <2>1, StopType
  <2>4. QED
    BY <2>1, <2>2, <2>3
<1>4. CASE HelperStep /\ (SkipsCall \/ IgnoresCall \/ UsesThing)
  <2>1. UNCHANGED <<handle, orphans>>
    BY <1>4 DEF SkipsCall, IgnoresCall, UsesThing, Untouched
  <2>2. CASE UNCHANGED thing
    BY <2>1, <2>2
  <2>3. CASE UsesThing /\ Fills
    <3>1. Target \in Things /\ OnCall /\ Started(Target)
      BY <1>4, <2>3, CallFits DEF HelperStep, UsesThing
    <3>2. QED
      BY <2>1, <2>3, <3>1, FillType
  <2>4. QED
    BY <1>4, <2>2, <2>3 DEF SkipsCall, IgnoresCall, UsesThing, Untouched
<1>5. CASE Executes
  BY <1>5, ExecutesType
<1>6. CASE GoesOn
  <2>1. PICK i \in Things : Check(i) \/ Bind(i) \/ Serve(i) \/ Exits(i)
    BY <1>6 DEF GoesOn
  <2>2. /\ \E state : Becomes(i, state)
        /\ \A j \in Things \ {i} : thing'[j] = thing[j]
        /\ thing[i].kind = "app" \/ thing[i].state \in {"starting", "checked", "bound"}
    BY <2>1, GoesOnForm
  <2>3. Started(i)
    BY <2>2 DEF ThingsInv, Started
  <2>4. QED
    BY <2>2, <2>3 DEF Becomes, histories
<1>7. CASE UNCHANGED vars
  BY <1>7 DEF vars, histories
<1>8. QED
  BY <1>1, <1>2, <1>3, <1>4, <1>5, <1>6, <1>7, NextForm DEF HelperStep

StepFrom == TypeOK /\ ThingsInv /\ HandlesInv /\ RecordedFits /\ [Next]_vars

\* A call in a stage stands in the suite.
LEMMA CallInSuite ==
  ASSUME TypeOK, InStage, OnCall
  PROVE  /\ job.stage \in DOMAIN suite /\ job.at \in DOMAIN suite[job.stage]
         /\ Current = suite[job.stage][job.at] /\ Script = suite[job.stage]
BY CurrentType DEF Current, Script, OnCall

LEMMA HandlesInvStep == StepFrom => HandlesInv'
<1> SUFFICES ASSUME StepFrom, NEW v \in Vars, handle'[v] \in Things
             PROVE  /\ Started(handle[v])'
                    /\ \A s \in DOMAIN suite : \A k \in DOMAIN suite[s] :
                         suite[s][k].var = v => KindOf(suite[s][k].do) = thing'[handle'[v]].kind
  <2>1. StepFrom => UNCHANGED suite
    BY ThingStep DEF StepFrom
  <2>2. QED
    BY <2>1 DEF HandlesInv
<1>1. \A i \in Things : Started(i) => Keeps(i)
  BY ThingStep DEF StepFrom
<1>2. CASE handle'[v] = handle[v]
  BY <1>1, <1>2 DEF StepFrom, HandlesInv, Keeps, Started
<1>3. ASSUME handle'[v] # handle[v]
      PROVE  /\ Started(handle[v])'
             /\ \A s \in DOMAIN suite : \A k \in DOMAIN suite[s] :
                  suite[s][k].var = v => KindOf(suite[s][k].do) = thing'[handle'[v]].kind
  <2>1. \A h : Assigns(h) => v = Current.var /\ h = handle'[v]
    BY <1>3 DEF Assigns, Assign, StepFrom, TypeOK
  <2>2. PICK i \in Things : Starting(i) /\ Assigns(i)
    BY <1>3, <2>1, HandleStep, HandlesAssumption DEF StepFrom
  <2>3. v = Current.var /\ handle'[v] = i
    BY <2>1, <2>2
  <2>4. thing'[i].kind = KindOf(Current.do) /\ thing'[i].kind # "none"
    BY <2>2, KindType DEF Starting
  <2>5. Current = suite[job.stage][job.at] /\ job.stage \in DOMAIN suite
        /\ job.at \in DOMAIN suite[job.stage]
    BY <2>2, CallInSuite DEF Starting, Assigns, StepFrom
  <2>6. suite \in Suites
    BY DEF StepFrom, TypeOK
  <2>7. QED
    BY <2>3, <2>4, <2>5, <2>6, HandlesAssumption DEF Started
<1>4. QED
  BY <1>2, <1>3

LEMMA HeldInvStep == StepFrom /\ HeldInv => HeldInv'
<1> SUFFICES ASSUME StepFrom, HeldInv, NEW i \in Things, i \notin orphans', Started(i)'
             PROVE  \E s \in DOMAIN suite : \E k \in DOMAIN suite[s] :
                      /\ suite[s][k].do \in Starters
                      /\ handle'[suite[s][k].var] = i /\ thing'[i].port = suite[s][k].port
  <2>1. StepFrom => UNCHANGED suite
    BY ThingStep DEF StepFrom
  <2>2. QED
    BY <2>1 DEF HeldInv
<1>1. \A j \in Things : Started(j) => Keeps(j)
  BY ThingStep DEF StepFrom
<1>2. ASSUME NEW j \in Things, Starting(j)
      PROVE  thing'[j].port = Current.port /\ Current.do \in Starters /\ ~Started(j)
  BY <1>2 DEF Starting, Started, NotStarted
<1>3. orphans \subseteq orphans'
  BY HandleStep DEF StepFrom, Assigns, Assign
<1>4. CASE Started(i)
  <2>0. PICK s \in DOMAIN suite : \E k \in DOMAIN suite[s] :
          /\ suite[s][k].do \in Starters
          /\ handle[suite[s][k].var] = i /\ thing[i].port = suite[s][k].port
    BY <1>3, <1>4 DEF HeldInv
  <2>1. PICK k \in DOMAIN suite[s] :
          /\ suite[s][k].do \in Starters
          /\ handle[suite[s][k].var] = i /\ thing[i].port = suite[s][k].port
    BY <2>0
  <2>2. thing'[i].port = thing[i].port
    BY <1>1, <1>4 DEF Keeps
  <2>3. suite[s][k].var \in Vars
    BY CallType DEF StepFrom
  <2>4. ASSUME NEW h, Assigns(h) PROVE handle'[suite[s][k].var] = i
    <3>1. handle[Current.var] # i
      BY <2>4 DEF Assigns, Assign
    <3>2. QED
      BY <2>1, <2>3, <2>4, <3>1 DEF Assigns, Assign, StepFrom, TypeOK
  <2>5. handle'[suite[s][k].var] = i
    BY <2>1, <2>4, HandleStep DEF StepFrom
  <2>6. QED
    BY <2>1, <2>2, <2>5
<1>5. CASE ~Started(i)
  <2>1. thing'[i] # thing[i]
    BY <1>5 DEF Started
  <2>2. PICK j \in Things :
          /\ Starting(j) /\ \A m \in Things \ {j} : thing'[m] = thing[m]
          /\ Assigns(j) \/ (Manual /\ orphans' = orphans \cup {j} /\ UNCHANGED handle)
    BY <1>5, <2>1, HandleStep DEF StepFrom
  <2>3. j = i /\ Assigns(i)
    BY <2>1, <2>2
  <2>4. handle'[Current.var] = i
    BY <2>3 DEF Assigns, Assign, StepFrom, TypeOK
  <2>5. QED
    BY <1>2, <2>2, <2>3, <2>4, CallInSuite DEF Assigns, StepFrom
<1>6. QED
  BY <1>4, <1>5

LEMMA MapsInvStep == StepFrom /\ MapsInv => MapsInv'
<1> SUFFICES ASSUME StepFrom, MapsInv PROVE MapsInv'
  OBVIOUS
<1>0. TypeOK /\ thing \in [Things -> ThingRecords] /\ UNCHANGED suite
  BY ThingStep DEF StepFrom, TypeOK
<1>1. \A n \in Things : Started(n) => Keeps(n)
  BY ThingStep DEF StepFrom
<1>2. \A n \in Things : ~Started(n) => thing[n] = NotStarted
  BY DEF StepFrom, ThingsInv
<1>3. NoMap \notin Maps /\ NotStarted.map = NoMap
  BY HandlesAssumption DEF NoMap, Maps, NotStarted
<1>4. StartMaps' = StartMaps
  BY <1>0 DEF StartMaps
\* A map that a thing gets in this step is no other's, or it is given to a start.
<1>5. ASSUME NEW m \in Things, NEW n \in Things, m # n, thing'[m].map # thing[m].map,
             thing'[m].map \in Maps, thing'[m].map = thing'[n].map
      PROVE  thing'[m].byHand \/ thing'[m].map \in StartMaps
  <2>1. CASE HelperStep /\ UsesThing /\ Fills
    <3>1. OnCall /\ Target \in Things
      BY <2>1 DEF HelperStep, UsesThing
    <3>2. m = Target /\ thing'[n] = thing[n] /\ thing'[m].map \notin MapsInUse
      BY <1>0, <1>5, <2>1, <3>1, FillType
    <3>3. thing[n].map \in MapsInUse
      BY DEF MapsInUse
    <3>4. QED
      BY <1>5, <3>2, <3>3
  <2>2. CASE HelperStep /\ StartsThing
    <3>1. OnCall
      BY <2>2 DEF HelperStep
    <3>2. PICK o \in Things :
            \/ Current.do # "RunMockServer" /\ Start(o, "running", NoMap)
            \/ /\ Current.do = "RunMockServer"
               /\ \E map \in Maps \cup {NoMap} : GivenMap(map) /\ Start(o, "starting", map)
      BY <2>2 DEF StartsThing
    <3>3. PICK state \in {"running", "starting"}, map \in Maps \cup {NoMap} :
            Start(o, state, map) /\ (map \in Maps => Current.do = "RunMockServer" /\ GivenMap(map))
      BY <1>3, <3>2
    <3>4. /\ thing'[o].map = map /\ \A p \in Things \ {o} : thing'[p] = thing[p]
          /\ thing'[o] = [kind |-> KindOf(Current.do), state |-> state, port |-> Current.port,
                          map |-> map, closed |-> FALSE, byHand |-> Manual]
      <4>1. state \in {"running", "starting"} /\ map \in Maps \cup {NoMap} /\ Start(o, state, map)
        BY <3>3
      <4>2. QED
        BY <1>0, <3>1, <4>1, StartType
    <3>5. o = m /\ thing'[m].byHand = Manual /\ map \in Maps /\ thing[n].map = map
      BY <1>5, <3>4
    <3>6. map \in MapsInUse
      BY <3>5 DEF MapsInUse
    <3>7. CASE ~Manual
      <4>1. Current.map # NewMap /\ map = Current.map
        BY <3>3, <3>5, <3>6, <3>7 DEF GivenMap, IsNew
      <4>2. InStage /\ Current \in Calls
        BY <1>0, <3>1, <3>7, CurrentType
      <4>3. map \in Kept
        BY <1>3, <3>5, <4>1, <4>2 DEF Calls
      <4>4. job.stage \in DOMAIN suite /\ job.at \in DOMAIN suite[job.stage]
            /\ Current = suite[job.stage][job.at]
        BY <1>0, <3>1, <4>2, CallInSuite
      <4>5. map \in StartMaps
        BY <3>3, <3>5, <4>1, <4>3, <4>4 DEF StartMaps
      <4>6. QED
        BY <3>4, <3>5, <4>5
    <3>8. QED
      BY <3>5, <3>7
  <2>3. CASE HelperStep /\ StopsThing
    BY <1>0, <1>5, <2>3, StopType DEF HelperStep, StopsThing
  <2>4. CASE GoesOn
    <3>1. PICK o \in Things : Check(o) \/ Bind(o) \/ Serve(o) \/ Exits(o)
      BY <2>4 DEF GoesOn
    <3>2. /\ \A p \in Things \ {o} : thing'[p] = thing[p]
          /\ \E state : thing'[o] = [thing[o] EXCEPT !.state = state]
      BY <1>0, <3>1, GoesOnForm
    <3>3. thing'[o].map = thing[o].map
      BY <1>0, <3>2 DEF ThingRecords
    <3>4. QED
      BY <1>5, <3>2, <3>3
  <2>5. HelperStep => \/ UNCHANGED thing
                      \/ UsesThing /\ Fills
                      \/ StartsThing
                      \/ StopsThing
    BY DEF HelperStep, SkipsCall, IgnoresCall, EmptiesHandle, UsesThing, Untouched, StartsDry
  <2>6. QED
    BY <1>0, <1>5, <2>1, <2>2, <2>3, <2>4, <2>5, NextForm, ExecutesType DEF StepFrom, vars
<1>6. ASSUME NEW i \in Things, NEW j \in Things, i # j,
             thing'[i].map \in Maps, thing'[i].map = thing'[j].map
      PROVE  thing'[i].byHand \/ thing'[j].byHand \/ thing'[i].map \in StartMaps
  <2>1. CASE thing'[i].map = thing[i].map /\ thing'[j].map = thing[j].map
    <3>1. Started(i) /\ Started(j)
      BY <1>2, <1>3, <1>6, <2>1
    <3>2. QED
      BY <1>1, <1>6, <2>1, <3>1 DEF Keeps, MapsInv
  <2>2. QED
    BY <1>5, <1>6, <2>1
<1>7. ASSUME NEW e \in acted', e.do = "UpdateMockServer"
      PROVE  thing'[e.thing].map \in Maps
  <2>1. CASE e \in acted
    <3>1. e.thing \in Things /\ thing[e.thing].map \in Maps
      BY <1>0, <1>7, <2>1 DEF MapsInv, TypeOK
    <3>2. Started(e.thing)
      BY <1>2, <1>3, <3>1
    <3>3. QED
      BY <1>1, <1>3, <3>1, <3>2 DEF Keeps
  <2>2. CASE e \notin acted
    <3>1. HelperStep
      <4>1. Executes => acted' \in {acted, {}}
        BY DEF Executes, RunStage, Discover, PickAction, RunAction, BeginStage, StageEnds, Begins,
               histories
      <4>2. GoesOn \/ UNCHANGED vars => UNCHANGED acted
        BY DEF GoesOn, Check, Bind, Serve, Exits, Becomes, vars, histories
      <4>3. QED
        BY <1>0, <2>2, <4>1, <4>2, NextForm DEF StepFrom
    <3>2. acted' # acted
      BY <2>2
    <3>3. Acts(Target) /\ (UsesThing \/ StopsThing)
      BY <3>1, <3>2 DEF HelperStep, SkipsCall, IgnoresCall, EmptiesHandle, StartsThing, UsesThing,
                        StopsThing, Untouched
    <3>4. e.do = Current.do /\ e.thing = Target
      BY <2>2, <3>3 DEF Acts
    <3>5. "UpdateMockServer" \notin Stoppers
      BY DEF Stoppers
    <3>6. UsesThing /\ Fills /\ OnCall /\ Target \in Things
      BY <1>7, <3>1, <3>3, <3>4, <3>5 DEF UsesThing, StopsThing, HelperStep
    <3>7. QED
      BY <1>0, <3>4, <3>6, FillType
  <2>3. QED
    BY <2>1, <2>2
<1>8. QED
  BY <1>4, <1>6, <1>7 DEF MapsInv

-----------------------------------------------------------------------------
(***************************************************************************)
(* What steps do to the execution.                                         *)
(***************************************************************************)
InStageType == job \in [mode : {"real", "dry"}, stage : DOMAIN suite, at : Nat]

LEMMA InStageFacts ==
  ASSUME TypeOK
  PROVE  /\ InStage <=> InStageType
         /\ InStage => ~Manual /\ suite[job.stage] \in Seq(Calls) /\ Script = suite[job.stage]
<1>1. InStage <=> InStageType
  BY DEF TypeOK, InStage, InStageType, Idle
<1>2. InStageType => suite[job.stage] \in Seq(Calls)
  BY SuiteType DEF InStageType
<1>3. QED
  BY <1>1, <1>2 DEF InStage, Manual, Script

BeginsStage == /\ InStage /\ job.at = 0 /\ job'.mode = job.mode /\ job'.stage = job.stage
               /\ job'.at = 1 /\ UNCHANGED <<acted, handle, suite>>

LEMMA JobStep ==
  ASSUME TypeOK, [Next]_vars
  PROVE  \/ UNCHANGED <<job, acted, handle, suite>>
         \/ job'.mode \in {"idle", "manual"}
         \/ job'.mode = "real" /\ job'.at = 0
         \/ job'.mode = "dry" /\ job'.stage = 1 /\ job'.at = 0
         \/ BeginsStage
         \/ /\ AtNextStage /\ InStage
            /\ (HelperStep /\ Panics) \/ (StageEnds /\ UNCHANGED <<acted, handle, suite>>)
         \/ AtNextCall /\ InStage /\ HelperStep /\ Returns
<1>1. CASE HelperStep
  <2>1. OnCall /\ Ends /\ UNCHANGED suite
    BY <1>1 DEF HelperStep, Ends, SkipsCall, IgnoresCall, EmptiesHandle, StartsThing, UsesThing,
                StopsThing, Rest
  <2>2. CASE Manual
    BY <2>1, <2>2, EndsType DEF Idle
  <2>3. CASE InStage
    <3>1. job \in [mode : {"real", "dry"}, stage : DOMAIN suite, at : Nat]
      BY <2>3, InStageFacts DEF InStageType
    <3>2. Returns => AtNextCall
      BY <2>1, <2>3, <3>1, EndsType, ModeStep
    <3>3. Panics => job' = Idle \/ AtNextStage
      BY <2>1, <2>3, <3>1, EndsType, ModeStep
    <3>4. QED
      BY <1>1, <2>1, <2>3, <3>2, <3>3 DEF Ends, Idle
  <2>4. QED
    BY <2>1, <2>2, <2>3, CurrentType
<1>2. CASE Executes
  <2>1. CASE RunStage
    BY <2>1 DEF RunStage, Begins
  <2>2. CASE Discover
    BY <2>2 DEF Discover, Begins
  <2>3. CASE PickAction
    BY <2>3 DEF PickAction, histories
  <2>4. CASE RunAction
    BY <2>4 DEF RunAction, Begins
  <2>5. CASE BeginStage
    <3>1. InStageType
      BY <2>5, InStageFacts DEF BeginStage
    <3>2. QED
      BY <2>5, <3>1 DEF BeginStage, BeginsStage, InStageType
  <2>6. CASE StageEnds
    <3>1. InStage /\ job' = NextStage /\ UNCHANGED <<acted, handle, suite>>
      BY <2>6 DEF StageEnds
    <3>2. job' = Idle \/ AtNextStage
      BY <3>1, InStageFacts, ModeStep DEF InStageType
    <3>3. QED
      BY <2>6, <3>1, <3>2 DEF Idle
  <2>7. QED
    BY <1>2, <2>1, <2>2, <2>3, <2>4, <2>5, <2>6 DEF Executes
<1>3. CASE GoesOn
  BY <1>3 DEF GoesOn, Check, Bind, Serve, Exits, Becomes, histories
<1>4. CASE UNCHANGED vars
  BY <1>4 DEF vars, histories
<1>5. QED
  BY <1>1, <1>2, <1>3, <1>4, NextForm

\* In a run, a call that returns goes on in the same script, and nobody forgets what was done.
LEMMA RunStep ==
  ASSUME StepFrom, job'.mode = "real"
  PROVE  \/ UNCHANGED <<job, acted, handle>> /\ job.mode = "real"
         \/ \A k \in DOMAIN Script' : ~(k < job'.at)
         \/ /\ job.mode = "real" /\ HelperStep /\ Returns /\ OnCall /\ job'.at = job.at + 1
            /\ Script' = Script /\ \A k \in DOMAIN Script : k < job'.at => k < job.at \/ k = job.at
<1>1. TypeOK /\ TypeOK' /\ UNCHANGED suite
  BY TypeStep, ThingStep DEF StepFrom
<1>2. InStage' /\ job' \in [mode : {"real", "dry"}, stage : DOMAIN suite, at : Nat]
      /\ Script' = suite[job'.stage] /\ suite[job'.stage] \in Seq(Calls)
  <2>1. job' \in [mode : {"real", "dry"}, stage : DOMAIN suite, at : Nat]
    BY <1>1 DEF TypeOK, Idle
  <2>2. QED
    BY <1>1, <2>1, SuiteType DEF InStage, Script
<1>3. CASE job'.at \in {0, 1}
  BY <1>2, <1>3
<1>4. CASE AtNextCall /\ InStage /\ HelperStep /\ Returns
  <2>1. job.mode = "real" /\ Script' = Script /\ OnCall /\ job'.at = job.at + 1
    BY <1>1, <1>2, <1>4 DEF AtNextCall, Script, HelperStep
  <2>2. job.at \in Nat
    BY <1>1, <1>4, InStageFacts DEF InStageType
  <2>3. \A k \in DOMAIN Script : k \in Nat
    BY <1>2, <2>1
  <2>4. \A k \in DOMAIN Script : k < job'.at => k < job.at \/ k = job.at
    BY <2>1, <2>2, <2>3
  <2>5. QED
    BY <1>4, <2>1, <2>4
<1>5. CASE UNCHANGED <<job, acted, handle, suite>>
  BY <1>5
<1>6. \/ job'.at \in {0, 1}
      \/ AtNextCall /\ InStage /\ HelperStep /\ Returns
      \/ UNCHANGED <<job, acted, handle, suite>>
  BY JobStep DEF StepFrom, BeginsStage, AtNextStage
<1>7. QED
  BY <1>3, <1>4, <1>5, <1>6

-----------------------------------------------------------------------------
(***************************************************************************)
(* Runs: what a passed call did, and what a cleanup stopped.               *)
(***************************************************************************)
LEMMA PassedInvStep == StepFrom /\ PassedInv => PassedInv'
<1> SUFFICES ASSUME StepFrom, PassedInv, job'.mode = "real",
                    NEW k \in DOMAIN Script', k < job'.at, Script'[k].do \in Users,
                    ~Script'[k].once
             PROVE  \E e \in acted' : e.at = k /\ e.do = Script'[k].do /\ Started(e.thing)'
  BY DEF PassedInv, Done
<1>1. \A i \in Things : Started(i) => Started(i)'
  BY ThingStep DEF StepFrom, Keeps, Started
<1>2. acted \subseteq [do : Users \cup Stoppers, thing : Things, at : Nat, dry : BOOLEAN]
  BY DEF StepFrom, TypeOK
<1>3. CASE UNCHANGED <<job, acted, handle>> /\ job.mode = "real"
  <2>1. Script' = Script
    BY <1>3, ThingStep DEF StepFrom, Script
  <2>2. Done(k)
    BY <1>3, <2>1 DEF Done, InStage
  <2>3. \E e \in acted : e.at = k /\ e.do = Script[k].do /\ Started(e.thing)
    BY <1>3, <2>1, <2>2 DEF PassedInv
  <2>4. QED
    BY <1>1, <1>2, <1>3, <2>1, <2>3
<1>4. CASE /\ job.mode = "real" /\ HelperStep /\ Returns /\ OnCall /\ job'.at = job.at + 1
           /\ Script' = Script /\ (k < job.at \/ k = job.at)
  <2>1. InStage /\ ~Dry /\ ~Manual /\ Current = Script[job.at]
    BY <1>4 DEF InStage, Dry, Manual, Current
  <2>2. CASE k < job.at
    <3>1. Done(k)
      BY <1>4, <2>1, <2>2 DEF Done
    <3>2. \E e \in acted : e.at = k /\ e.do = Script[k].do /\ Started(e.thing)
      BY <1>4, <3>1 DEF PassedInv
    <3>3. acted \subseteq acted'
      BY <1>4 DEF HelperStep, SkipsCall, IgnoresCall, EmptiesHandle, StartsThing, UsesThing,
                  StopsThing, Untouched, Acts
    <3>4. QED
      BY <1>1, <1>2, <1>4, <3>2, <3>3
  <2>3. CASE k = job.at
    <3>1. Current.do \in Users /\ ~Current.once
      BY <1>4, <2>1, <2>3
    <3>2. Current.do \notin Starters /\ Current.do \notin Stoppers
      BY <3>1 DEF Users, Starters, Stoppers
    <3>3. ~Panics
      <4>1. job' # Idle
        BY DEF Idle
      <4>2. QED
        BY <2>1, <4>1 DEF Panics, NextStage
    <3>4. UsesThing
      BY <1>4, <2>1, <3>1, <3>2, <3>3
         DEF HelperStep, SkipsCall, IgnoresCall, EmptiesHandle, StartsThing, StopsThing
    <3>5. Target \in Things /\ Started(Target)
      BY <1>4, <2>1, <3>4, CallFits DEF StepFrom, UsesThing
    <3>6. \E e \in acted' : e.do = Current.do /\ e.thing = Target /\ e.at = job.at
      <4> DEFINE e == [do |-> Current.do, thing |-> Target, at |-> IF Manual THEN 0 ELSE job.at,
                       dry |-> Dry \/ (Manual /\ job.action.dry)]
      <4>1. e \in acted'
        BY <3>4 DEF UsesThing, Acts
      <4>2. e.do = Current.do /\ e.thing = Target /\ e.at = IF Manual THEN 0 ELSE job.at
        OBVIOUS
      <4>3. QED
        BY <2>1, <4>1, <4>2, Zenon
    <3>7. QED
      BY <1>1, <1>4, <2>1, <2>3, <3>5, <3>6
  <2>4. QED
    BY <1>4, <2>2, <2>3
<1>5. QED
  BY <1>3, <1>4, RunStep

LEMMA GoneKept == StepFrom => \A i \in Things : Gone(i) => Gone(i)'
BY ThingStep DEF StepFrom, Keeps, Gone, Started

LEMMA RecordedFitsStep == StepFrom => RecordedFits'
<1> SUFFICES ASSUME StepFrom, NEW a \in Recorded'
             PROVE  a.call.do \notin Stoppers /\ (a.on \in Things => Started(a.on)')
  BY DEF RecordedFits
<1>1. \A i \in Things : Started(i) => Started(i)'
  BY ThingStep DEF StepFrom, Keeps, Started
<1>2. CASE a \in Recorded
  BY <1>1, <1>2 DEF StepFrom, RecordedFits
<1>3. CASE a \notin Recorded
  <2>1. HelperStep /\ a \in Fresh
    BY <1>3, RecordedStep DEF StepFrom
  <2>2. a.call.do \notin Stoppers /\ (a.on = Nil \/ a.on = Target)
    BY <2>1 DEF Fresh
  <2>3. Target \in Things => Started(Target)
    BY <2>1, CallFits DEF HelperStep, StepFrom
  <2>4. QED
    BY <1>1, <2>2, <2>3, HandlesAssumption
<1>4. QED
  BY <1>2, <1>3

CleanedGone == \A i \in cleaned : Gone(i)
CleaningInv == job.mode = "real" /\ CleansUp(Script) => \A k \in DOMAIN Script :
  Done(k) /\ Script[k].do \in Stoppers /\ ~Script[k].once
    /\ handle[Script[k].var] \in Things => Gone(handle[Script[k].var])

LEMMA CleanedGoneStep == StepFrom /\ HeldInv /\ CleanedGone /\ CleaningInv => CleanedGone'
<1> SUFFICES ASSUME StepFrom, HeldInv, CleanedGone, CleaningInv, NEW i \in cleaned'
             PROVE  Gone(i)'
  BY DEF CleanedGone
<1>0. TypeOK /\ TypeOK'
  BY TypeStep DEF StepFrom
<1>1. i \in Things
  BY <1>0 DEF TypeOK
<1>2. CASE i \in cleaned
  BY <1>1, <1>2, GoneKept DEF CleanedGone
<1>3. CASE i \notin cleaned
  <2>1. StageEnds /\ ~Dry /\ CleansUp(Script) /\ thing[i] # NotStarted /\ i \notin orphans
    <3>1. UNCHANGED cleaned \/ StageEnds
      <4>1. HelperStep => UNCHANGED cleaned
        BY DEF HelperStep, Rest
      <4>2. Executes => UNCHANGED cleaned \/ StageEnds
        BY DEF Executes, RunStage, Discover, PickAction, RunAction, BeginStage, Begins, histories
      <4>3. GoesOn \/ UNCHANGED vars => UNCHANGED cleaned
        BY DEF GoesOn, Check, Bind, Serve, Exits, Becomes, vars, histories
      <4>4. QED
        BY <4>1, <4>2, <4>3, NextForm DEF StepFrom
    <3>2. QED
      BY <1>3, <3>1 DEF StageEnds
  <2>2. Started(i)
    BY <1>1, <2>1 DEF StepFrom, ThingsInv
  <2>3. PICK s \in DOMAIN suite : \E k \in DOMAIN suite[s] :
          suite[s][k].do \in Starters /\ handle[suite[s][k].var] = i
    BY <1>1, <2>1, <2>2 DEF HeldInv
  <2>4. PICK k \in DOMAIN suite[s] :
          suite[s][k].do \in Starters /\ handle[suite[s][k].var] = i
    BY <2>3
  <2>5. suite[s][k].var \in Vars
    BY <1>0, CallType
  <2>6. thing[i].kind = KindOf(suite[s][k].do)
    BY <1>1, <2>4, <2>5 DEF StepFrom, HandlesInv
  <2>7. CASE suite[s][k].do \in {"RunAppServer", "RunMockServer"}
    <3>1. PICK n \in DOMAIN Script :
            Script[n].do \in Stoppers /\ ~Script[n].once /\ Script[n].var = suite[s][k].var
      BY <2>1, <2>7 DEF CleansUp
    <3>2. Done(n) /\ job.mode = "real"
      <4>1. InStage /\ job.at = Len(Script) + 1 /\ Script \in Seq(Calls)
        BY <1>0, <2>1, InStageFacts DEF StageEnds
      <4>2. n < job.at
        BY <4>1
      <4>3. QED
        BY <2>1, <4>1, <4>2 DEF Done, InStage, Dry
    <3>3. Gone(i)
      BY <1>1, <2>1, <2>4, <3>1, <3>2 DEF CleaningInv
    <3>4. QED
      BY <1>1, <3>3, GoneKept
  <2>8. CASE suite[s][k].do \notin {"RunAppServer", "RunMockServer"}
    <3>1. thing[i].kind \notin {"app", "mock"}
      BY <2>4, <2>6, <2>8 DEF KindOf, Starters
    <3>2. Gone(i)
      BY <2>2, <3>1 DEF Gone
    <3>3. QED
      BY <1>1, <3>2, GoneKept
  <2>9. QED
    BY <2>7, <2>8
<1>4. QED
  BY <1>2, <1>3

LEMMA CleaningInvStep == StepFrom /\ CleaningInv => CleaningInv'
<1> SUFFICES ASSUME StepFrom, CleaningInv, job'.mode = "real", CleansUp(Script)',
                    NEW k \in DOMAIN Script', k < job'.at, Script'[k].do \in Stoppers,
                    ~Script'[k].once, handle'[Script'[k].var] \in Things
             PROVE  Gone(handle[Script[k].var])'
  BY DEF CleaningInv, Done
<1>1. UNCHANGED suite
  BY ThingStep DEF StepFrom
<1>2. CASE UNCHANGED <<job, acted, handle>> /\ job.mode = "real"
  <2>1. Script' = Script
    BY <1>1, <1>2 DEF Script
  <2>2. Done(k) /\ CleansUp(Script)
    BY <1>1, <1>2, <2>1 DEF Done, InStage, CleansUp
  <2>3. Gone(handle[Script[k].var])
    BY <1>2, <2>1, <2>2 DEF CleaningInv
  <2>4. QED
    BY <1>2, <2>1, <2>3, GoneKept DEF Gone, Started
<1>3. CASE /\ job.mode = "real" /\ HelperStep /\ Returns /\ OnCall /\ job'.at = job.at + 1
           /\ Script' = Script /\ (k < job.at \/ k = job.at)
  <2>1. InStage /\ ~Dry /\ ~Manual /\ Current = Script[job.at] /\ job.at \in DOMAIN Script
    BY <1>3 DEF InStage, Dry, Manual, Current, OnCall
  <2>2. CleansUp(Script)
    BY <1>1, <1>3 DEF CleansUp
  <2>3. Current.do \notin Starters
    BY <2>1, <2>2 DEF CleansUp
  <2>4. UNCHANGED handle
    BY <1>3, <2>3 DEF HelperStep, SkipsCall, IgnoresCall, EmptiesHandle, StartsThing, UsesThing,
                      StopsThing, Untouched
  <2>5. CASE k < job.at
    <3>1. Done(k)
      BY <1>3, <2>1, <2>5 DEF Done
    <3>2. Gone(handle[Script[k].var])
      BY <1>3, <2>2, <2>4, <3>1 DEF CleaningInv
    <3>3. QED
      BY <1>3, <2>4, <3>2, GoneKept DEF Gone, Started
  <2>6. CASE k = job.at
    <3>1. Current.do \in Stoppers /\ ~Current.once /\ Target = handle[Current.var]
          /\ Target \in Things
      BY <1>3, <2>1, <2>4, <2>6 DEF Target
    <3>2. Current.do \notin Users
      BY <3>1 DEF Users, Stoppers
    <3>3. ~Panics
      <4>1. job' # Idle
        BY DEF Idle
      <4>2. QED
        BY <2>1, <4>1 DEF Panics, NextStage
    <3>4. StopsThing
      BY <1>3, <2>1, <2>3, <3>1, <3>2, <3>3
         DEF HelperStep, SkipsCall, IgnoresCall, EmptiesHandle, StartsThing, UsesThing
    <3>5. Started(Target) /\ thing[Target].kind = KindOf(Current.do)
      BY <1>3, <2>1, <3>1, CallFits DEF StepFrom
    <3>6. CASE Current.do = "AppStop"
      <4>1. thing'[Target].kind = "app" /\ thing'[Target].state = "ended"
        BY <1>3, <3>4, <3>5, <3>6, StopType DEF StepFrom, KindOf
      <4>2. QED
        BY <1>3, <2>1, <2>4, <2>6, <3>1, <4>1 DEF Gone, Started
    <3>7. CASE Current.do # "AppStop"
      <4>1. thing'[Target].kind = "mock" /\ thing'[Target].closed
        BY <1>3, <3>4, <3>5, <3>7, StopType DEF StepFrom, KindOf
      <4>2. QED
        BY <1>3, <2>1, <2>4, <2>6, <3>1, <4>1 DEF Gone, Started
    <3>8. QED
      BY <3>6, <3>7
  <2>7. QED
    BY <1>3, <2>5, <2>6
<1>4. QED
  BY <1>2, <1>3, RunStep

-----------------------------------------------------------------------------
(***************************************************************************)
(* Dry runs.                                                               *)
(***************************************************************************)
DryRecords == \A a \in Recorded : a.dry => a.on \notin Things
DryActs == \A e \in acted : ~e.dry
DryEmpties == Dry => \A t \in 1 .. job.stage : \A n \in DOMAIN suite[t] :
  (t = job.stage => n < job.at) /\ SureInDryRuns(t, n) => handle[suite[t][n].var] = Empty

LEMMA DryInvParts == DryInv <=> (Ordered => DryRecords /\ DryActs /\ DryEmpties)
BY DEF DryInv, DryRecords, DryActs, DryEmpties

\* In a dry run, a call that starts nothing is made on the handle of a dry run.
LEMMA DryTarget ==
  ASSUME TypeOK, Ordered, DryEmpties, Dry, OnCall, Current.do \notin Starters
  PROVE  Target = Empty /\ Empty \notin Things /\ Empty # Nil
<1>1. InStage /\ ~Manual
  BY DEF Dry, InStage, Manual
<1>2. /\ job.stage \in DOMAIN suite /\ job.at \in DOMAIN suite[job.stage]
      /\ Current = suite[job.stage][job.at]
  BY <1>1, CallInSuite
<1>3. PICK t \in 1 .. job.stage : \E n \in DOMAIN suite[t] :
        /\ t = job.stage => n < job.at
        /\ suite[t][n].var = Current.var
        /\ SureInDryRuns(t, n)
  BY <1>2 DEF Ordered
<1>4. handle[Current.var] = Empty
  BY <1>3 DEF DryEmpties
<1>5. QED
  BY <1>1, <1>4, HandlesAssumption DEF Target

LEMMA DryRecordsStep == StepFrom /\ Ordered /\ DryRecords /\ DryEmpties => DryRecords'
<1> SUFFICES ASSUME StepFrom, Ordered, DryRecords, DryEmpties, NEW a \in Recorded', a.dry
             PROVE  a.on \notin Things
  BY DEF DryRecords
<1>1. CASE a \in Recorded
  BY <1>1 DEF DryRecords
<1>2. CASE a \notin Recorded
  <2>1. HelperStep /\ a \in Fresh
    BY <1>2, RecordedStep DEF StepFrom
  <2>2. OnCall /\ a.dry = Dry
    BY <2>1 DEF HelperStep, Fresh
  <2>3. Dry
    BY <2>2
  <2>4. QED
    BY <2>1, <2>2, <2>3, DryTarget, HandlesAssumption DEF Fresh, StepFrom
<1>3. QED
  BY <1>1, <1>2

LEMMA DryActsStep == StepFrom /\ Ordered /\ DryRecords /\ DryActs /\ DryEmpties => DryActs'
<1> SUFFICES ASSUME StepFrom, Ordered, DryRecords, DryActs, DryEmpties, NEW e \in acted', e \notin acted
             PROVE  ~e.dry
  BY DEF DryActs
<1>1. HelperStep
  <2>1. Executes => acted' = acted \/ acted' = {}
    BY DEF Executes, RunStage, Discover, PickAction, RunAction, BeginStage, StageEnds, Begins,
           histories
  <2>2. GoesOn \/ UNCHANGED vars => acted' = acted
    BY DEF GoesOn, Check, Bind, Serve, Exits, Becomes, vars, histories
  <2>3. QED
    BY <2>1, <2>2, NextForm DEF StepFrom
<1>2. OnCall /\ Target \in Things /\ Acts(Target) /\ Current.do \in Users \cup Stoppers
  BY <1>1 DEF HelperStep, SkipsCall, IgnoresCall, EmptiesHandle, StartsThing, UsesThing, StopsThing,
              Untouched
<1>3. ~Dry
  BY <1>2, DryTarget DEF StepFrom, Users, Stoppers, Starters
<1>4. Manual => ~job.action.dry
  <2>1. Manual => job.action \in Recorded /\ Target = job.action.on
    BY RecordedMembers DEF Target
  <2>2. QED
    BY <1>2, <2>1 DEF DryRecords
<1>5. e = [do |-> Current.do, thing |-> Target, at |-> IF Manual THEN 0 ELSE job.at,
           dry |-> Dry \/ (Manual /\ job.action.dry)]
  BY <1>2 DEF Acts
<1>6. (Dry \/ (Manual /\ job.action.dry)) = FALSE
  BY <1>3, <1>4
<1>7. QED
  BY <1>5, <1>6

LEMMA DryEmptiesStep == StepFrom /\ Ordered /\ DryEmpties => DryEmpties'
<1> SUFFICES ASSUME StepFrom, Ordered, DryEmpties, Dry', NEW t \in 1 .. job'.stage,
                    NEW n \in DOMAIN suite'[t], t = job'.stage => n < job'.at, SureInDryRuns(t, n)'
             PROVE  handle'[suite'[t][n].var] = Empty
  BY DEF DryEmpties
<1>1. TypeOK /\ TypeOK' /\ UNCHANGED suite
  BY TypeStep, ThingStep DEF StepFrom
<1>2. SureInDryRuns(t, n)
  BY <1>1 DEF SureInDryRuns
<1>3. job' \in [mode : {"real", "dry"}, stage : DOMAIN suite, at : Nat]
  BY <1>1 DEF TypeOK, Idle, Dry
<1>4. t \in DOMAIN suite /\ t \in Nat /\ t >= 1 /\ suite[t] \in Seq(Calls)
  <2>1. suite \in Seq(Seq(Calls))
    BY <1>1, HandlesAssumption DEF TypeOK
  <2>2. QED
    BY <1>3, <2>1
<1>5. n \in DOMAIN suite[t] /\ n \in Nat /\ n >= 1 /\ suite[t][n].var \in Vars
  BY <1>1, <1>4, CallType
<1>6. CASE UNCHANGED <<job, acted, handle, suite>>
  BY <1>1, <1>2, <1>6 DEF DryEmpties, Dry
<1>7. CASE job'.mode = "dry" /\ job'.stage = 1 /\ job'.at = 0
  BY <1>4, <1>5, <1>7
<1>8. CASE BeginsStage
  <2>1. t # job.stage /\ Dry /\ job'.stage = job.stage /\ handle' = handle
    BY <1>5, <1>8 DEF BeginsStage, Dry
  <2>2. QED
    BY <1>1, <1>2, <1>5, <2>1 DEF DryEmpties
<1>9. CASE AtNextStage /\ InStage /\ StageEnds /\ UNCHANGED <<acted, handle, suite>>
  <2>1. job \in [mode : {"real", "dry"}, stage : DOMAIN suite, at : Nat] /\ Dry
    BY <1>1, <1>9, InStageFacts DEF InStageType, AtNextStage
  <2>2. t # job'.stage /\ t \in 1 .. job.stage
    BY <1>3, <1>4, <1>5, <1>9, <2>1 DEF AtNextStage
  <2>3. t = job.stage => n < job.at
    BY <1>1, <1>4, <1>5, <1>9, InStageFacts DEF StageEnds
  <2>4. QED
    BY <1>1, <1>2, <1>5, <1>9, <2>1, <2>2, <2>3 DEF DryEmpties
<1>10. CASE AtNextStage /\ InStage /\ HelperStep /\ Panics
  <2>1. /\ job \in [mode : {"real", "dry"}, stage : DOMAIN suite, at : Nat] /\ Dry /\ OnCall
        /\ ~Manual
    BY <1>1, <1>10, InStageFacts DEF InStageType, AtNextStage, HelperStep
  <2>2. t # job'.stage /\ t \in 1 .. job.stage
    BY <1>3, <1>4, <1>5, <1>10, <2>1 DEF AtNextStage
  <2>3. ~Returns
    <3>1. Returns => job'.at = job.at + 1
      BY <1>1, <1>10, <2>1, EndsType, ModeStep DEF Ends, AtNextCall
    <3>2. job'.at = 0 /\ job.at \in Nat
      BY <1>10, <2>1 DEF AtNextStage
    <3>3. QED
      BY <3>1, <3>2
  <2>4. ~(Current.do \in Stoppers /\ Target = Nil)
    BY <1>1, <2>1, DryTarget DEF Stoppers, Starters
  <2>5. Untouched /\ Current.do = "QueryData"
    BY <1>10, <2>1, <2>3, <2>4 DEF HelperStep, SkipsCall, IgnoresCall, EmptiesHandle, StartsThing,
                                   UsesThing, StopsThing
  <2>6. job.at \in DOMAIN suite[job.stage] /\ Current = suite[job.stage][job.at]
    BY <1>1, <1>10, <2>1, CallInSuite
  <2>7. t = job.stage => n < job.at
    <3>1. CASE t = job.stage /\ n = job.at
      BY <1>2, <2>5, <2>6, <3>1 DEF SureInDryRuns, Starters
    <3>2. CASE t = job.stage /\ n > job.at
      <4>1. job.at \in 1 .. n - 1
        BY <1>4, <1>5, <2>1, <2>6, <3>2
      <4>2. QED
        BY <1>2, <2>5, <2>6, <3>2, <4>1 DEF SureInDryRuns
    <3>3. QED
      BY <1>5, <2>1, <3>1, <3>2
  <2>8. QED
    BY <1>1, <1>2, <1>5, <2>1, <2>2, <2>5, <2>7 DEF DryEmpties, Untouched
<1>11. CASE AtNextCall /\ InStage /\ HelperStep /\ Returns
  <2>1. /\ job \in [mode : {"real", "dry"}, stage : DOMAIN suite, at : Nat] /\ Dry /\ OnCall
        /\ ~Manual /\ job'.stage = job.stage /\ job'.at = job.at + 1
    BY <1>1, <1>11, InStageFacts DEF InStageType, AtNextCall, HelperStep, Dry
  <2>2. job.at \in DOMAIN suite[job.stage] /\ Current = suite[job.stage][job.at]
    BY <1>1, <1>11, <2>1, CallInSuite
  <2>3. handle' = handle \/ EmptiesHandle
    BY <1>11, <2>1 DEF HelperStep, SkipsCall, IgnoresCall, StartsThing, UsesThing, StopsThing,
                       Untouched
  <2>4. handle \in [Vars -> Handles]
    BY <1>1 DEF TypeOK
  <2>5. EmptiesHandle => handle' = [handle EXCEPT ![Current.var] = Empty]
    BY DEF EmptiesHandle, StartsDry, Assign
  <2>6. CASE t = job.stage => n < job.at
    <3>1. handle[suite[t][n].var] = Empty
      BY <1>2, <1>5, <2>1, <2>6 DEF DryEmpties
    <3>2. QED
      BY <1>1, <1>5, <2>3, <2>4, <2>5, <3>1
  <2>7. CASE t = job.stage /\ ~(n < job.at)
    <3>1. n = job.at
      BY <1>5, <2>1, <2>7
    <3>2. Current.do \in Starters /\ ~Current.once
      BY <1>2, <2>2, <2>7, <3>1 DEF SureInDryRuns
    <3>3. Current.do \notin Users /\ Current.do \notin Stoppers
      BY <3>2 DEF Starters, Users, Stoppers
    <3>4. EmptiesHandle
      BY <1>11, <2>1, <3>2, <3>3 DEF HelperStep, SkipsCall, IgnoresCall, StartsThing, UsesThing,
                                     StopsThing, Users
    <3>5. QED
      BY <1>1, <1>5, <2>2, <2>4, <2>5, <2>7, <3>1, <3>4
  <2>8. QED
    BY <2>6, <2>7
<1>12. QED
  BY <1>1, <1>6, <1>7, <1>8, <1>9, <1>10, <1>11, JobStep DEF Dry, StepFrom
-----------------------------------------------------------------------------
(***************************************************************************)
(* The inductive invariant, and the theorems.                              *)
(***************************************************************************)
LEMMA CleanInvParts == CleanInv <=> RecordedFits /\ CleanedGone /\ CleaningInv
BY DEF CleanInv, RecordedFits, CleanedGone, CleaningInv

LEMMA InitIInv == Init => IInv
<1> SUFFICES ASSUME Init PROVE IInv
  OBVIOUS
<1>1. TypeOK
  BY InitType
<1>2. \A i \in Things : thing[i] = NotStarted /\ ~Started(i)
  <2>1. NotStarted.kind = "none"
    BY DEF NotStarted
  <2>2. QED
    BY <2>1 DEF Init, Started
<1>3. ThingsInv
  <2>1. NotStarted.state = "none" /\ NotStarted.kind = "none"
    BY DEF NotStarted
  <2>2. QED
    BY <1>2, <2>1 DEF ThingsInv
<1>4. HandlesInv
  BY HandlesAssumption DEF Init, HandlesInv
<1>5. HeldInv
  BY <1>2 DEF HeldInv
<1>6. MapsInv
  BY <1>2, HandlesAssumption DEF MapsInv, NotStarted, NoMap, Maps, Init
<1>7. ~InStage /\ ~Dry /\ ~Manual /\ job.mode # "real" /\ acted = {} /\ cleaned = {}
  BY DEF Init, Idle, InStage, Dry, Manual
<1>8. Recorded = {}
  BY <1>7, RecordedMembers DEF Init, InLists
<1>9. PassedInv /\ CleanInv /\ DryInv
  BY <1>7, <1>8 DEF PassedInv, CleanInv, DryInv
<1>10. QED
  BY <1>1, <1>3, <1>4, <1>5, <1>6, <1>9 DEF IInv

LEMMA IInvStep == IInv /\ [Next]_vars => IInv'
<1> SUFFICES ASSUME IInv, [Next]_vars PROVE IInv'
  OBVIOUS
<1>1. RecordedFits /\ CleanedGone /\ CleaningInv
  BY CleanInvParts DEF IInv
<1>2. StepFrom
  BY <1>1 DEF IInv, StepFrom
<1>3. TypeOK' /\ ThingsInv' /\ UNCHANGED suite
  BY <1>2, TypeStep, ThingStep DEF StepFrom
<1>4. HandlesInv' /\ HeldInv' /\ MapsInv' /\ PassedInv'
  BY <1>2, HandlesInvStep, HeldInvStep, MapsInvStep, PassedInvStep DEF IInv
<1>5. RecordedFits' /\ CleanedGone' /\ CleaningInv'
  BY <1>1, <1>2, RecordedFitsStep, CleanedGoneStep, CleaningInvStep DEF IInv
<1>6. CleanInv'
  BY <1>5 DEF CleanInv, RecordedFits, CleanedGone, CleaningInv
<1>7. DryInv'
  <2>1. Ordered' => Ordered
    BY <1>3 DEF Ordered, SureInDryRuns
  <2>2. Ordered => DryRecords' /\ DryActs' /\ DryEmpties'
    BY <1>2, DryInvParts, DryRecordsStep, DryActsStep, DryEmptiesStep DEF IInv
  <2>3. QED
    BY <2>1, <2>2 DEF DryInv, DryRecords, DryActs, DryEmpties
<1>8. QED
  BY <1>3, <1>4, <1>6, <1>7 DEF IInv

\* The strengthening of the invariants below holds in every execution.
THEOREM Inductive == Spec => []IInv
BY InitIInv, IInvStep, PTL DEF Spec

\* A discover touches nothing that a stage has started, although Stop does not ask IsDryRun
\* (app.go, mock.go), when stages use and stop what earlier ones assign; nor does, by hand,
\* an action that it recorded.
THEOREM DiscoverIsHarmless == Spec => []DryRunTouchesNothing
<1>1. IInv => DryRunTouchesNothing
  BY DEF IInv, DryInv, DryRunTouchesNothing
<1>2. QED
  BY <1>1, Inductive, PTL

\* A stage that passes has used everything that its calls name (UpdateMockServer, the helpers
\* of DBClient, RegisterRoute).
THEOREM PassedMeansDone == Spec => []PassedStagesDidTheirWork
<1>1. IInv => PassedStagesDidTheirWork
  <2> SUFFICES ASSUME IInv, job.mode = "real", job.at = Len(Script) + 1,
                      NEW k \in DOMAIN Script, Script[k].do \in Users, ~Script[k].once
               PROVE  \E e \in acted : /\ e.at = k /\ e.do = Script[k].do
                                       /\ thing[e.thing] # NotStarted
    BY DEF PassedStagesDidTheirWork
  <2>1. InStage /\ Script \in Seq(Calls)
    BY InStageFacts DEF IInv, InStage
  <2>2. k < job.at
    BY <2>1
  <2>3. PICK e \in acted : e.at = k /\ e.do = Script[k].do /\ Started(e.thing)
    BY <2>1, <2>2 DEF IInv, PassedInv, Done
  <2>4. NotStarted.kind = "none"
    BY DEF NotStarted
  <2>5. QED
    BY <2>3, <2>4 DEF Started
<1>2. QED
  BY <1>1, Inductive, PTL

\* What a passed cleanup stage stops is gone for good (AppServer.Stop, MockServer.Stop).
THEOREM CleanupIsFinal == Spec => []CleanedUpIsGone
<1>1. IInv => CleanedUpIsGone
  BY DEF IInv, TypeOK, ThingsInv, CleanInv, Gone, CleanedUpIsGone
<1>2. QED
  BY <1>1, Inductive, PTL

\* UpdateMockServer (mock.go) changes, under the lock of its mock, a map that no other mock
\* answers from, unless one of the two was started by hand (the closure of RunMockServer), or
\* the program starts mocks with a map that it keeps, which RunMockServer does not copy: two
\* mocks that are updated with one map, or started with none, do not share one.
THEOREM MapsAreOwn == Spec => []UpdatesRaceOnlyOnStartMaps
<1>1. IInv => UpdatesRaceOnlyOnStartMaps
  <2> SUFFICES ASSUME IInv, NEW e \in acted, e.do = "UpdateMockServer",
                      NEW j \in Things \ {e.thing}, thing[j].map = thing[e.thing].map
               PROVE  \/ thing[j].byHand \/ thing[e.thing].byHand
                      \/ thing[j].map \in StartMaps
    BY DEF UpdatesRaceOnlyOnStartMaps
  <2>1. e.thing \in Things
    BY DEF IInv, TypeOK
  <2>2. thing[e.thing].map \in Maps
    BY DEF IInv, MapsInv
  <2>3. QED
    BY <2>1, <2>2 DEF IInv, MapsInv
<1>2. QED
  BY <1>1, Inductive, PTL

LEMMA BlockedBind ==
  ASSUME TypeOK, ThingsInv, [Next]_vars, NEW i \in Things,
         thing[i].state = "checked", thing'[i].state = "failed"
  PROVE  \E j \in Things : thing[j].port = thing[i].port /\ thing[j].state \in {"bound", "serving"}
<1>1. CASE UNCHANGED thing
  BY <1>1
<1>2. CASE HelperStep
  <2>1. OnCall
    BY <1>2 DEF HelperStep
  <2>2. CASE StopsThing
    BY <2>1, <2>2, StopType DEF TypeOK
  <2>3. CASE StartsThing
    <3>1. PICK m \in Things, state \in {"running", "starting"}, map \in Maps \cup {NoMap} :
            Start(m, state, map)
      BY <2>3 DEF StartsThing
    <3>2. thing[m] = NotStarted /\ \A n \in Things \ {m} : thing'[n] = thing[n]
      BY <2>1, <3>1, StartType
    <3>3. thing[m].state = "none"
      BY <3>2 DEF NotStarted
    <3>4. QED
      BY <3>2, <3>3
  <2>4. CASE UsesThing /\ Fills
    <3>1. thing[Target] \in ThingRecords /\ Target \in Things
      BY <2>4 DEF UsesThing, TypeOK
    <3>2. thing'[Target].state = thing[Target].state
      BY <2>1, <2>4, <3>1, FillType DEF ThingRecords
    <3>3. QED
      BY <2>1, <2>4, <3>1, <3>2, FillType
  <2>5. QED
    BY <1>1, <1>2, <2>2, <2>3, <2>4 DEF HelperStep, SkipsCall, IgnoresCall, EmptiesHandle, StartsDry,
                                  UsesThing, Untouched
<1>3. CASE GoesOn
  <2>1. PICK m \in Things : Check(m) \/ Bind(m) \/ Serve(m) \/ Exits(m)
    BY <1>3 DEF GoesOn
  <2>2. \A n \in Things \ {m} : thing'[n] = thing[n]
    BY <2>1, GoesOnForm
  <2>3. m = i
    BY <2>2
  <2>4. Bind(i) /\ ~PortFree(thing[i].port)
    <3>1. Bind(i)
      BY <2>1, <2>3 DEF Check, Serve, Exits
    <3>2. thing \in [Things -> ThingRecords]
      BY DEF TypeOK
    <3>3. PortFree(thing[i].port) => thing' = [thing EXCEPT ![i].state = "bound"]
      BY <3>1 DEF Bind, Becomes
    <3>4. QED
      BY <3>1, <3>2, <3>3 DEF ThingRecords
  <2>5. QED
    BY <2>4 DEF PortFree
<1>4. QED
  BY <1>1, <1>2, <1>3, NextForm, ExecutesType DEF vars

LEMMA OneMockPerPort ==
  ASSUME IInv, PortPerVar, NEW i \in Things \ orphans, NEW j \in Things \ orphans,
         thing[i].kind = "mock", thing[j].kind = "mock", thing[i].port = thing[j].port
  PROVE  i = j
<1>1. ASSUME NEW m \in Things \ orphans, thing[m].kind = "mock"
      PROVE  \E s \in DOMAIN suite : \E k \in DOMAIN suite[s] :
               /\ suite[s][k].do = "RunMockServer"
               /\ handle[suite[s][k].var] = m /\ thing[m].port = suite[s][k].port
  <2>1. PICK s \in DOMAIN suite : \E k \in DOMAIN suite[s] :
               /\ suite[s][k].do \in Starters
               /\ handle[suite[s][k].var] = m /\ thing[m].port = suite[s][k].port
    BY <1>1 DEF IInv, HeldInv, Started
  <2>2. PICK k \in DOMAIN suite[s] :
               /\ suite[s][k].do \in Starters
               /\ handle[suite[s][k].var] = m /\ thing[m].port = suite[s][k].port
    BY <2>1
  <2>3. suite[s][k].var \in Vars
    BY CallType DEF IInv
  <2>4. KindOf(suite[s][k].do) = "mock"
    BY <1>1, <2>2, <2>3 DEF IInv, HandlesInv
  <2>5. suite[s][k].do = "RunMockServer"
    BY <2>2, <2>4 DEF KindOf, Starters
  <2>6. QED
    BY <2>2, <2>5
<1>2. QED
  BY <1>1 DEF PortPerVar

\* A mock whose handle is kept fails to bind its port, in the goroutine of RunMockServer, only
\* behind one whose handle was lost and that no cleanup closed, or that has not listened yet.
THEOREM PortsAreFree == Spec => MocksGetTheirPort
<1> DEFINE Blocked(i) ==
      PortPerVar /\ i \notin orphans /\ thing[i].state = "checked" /\ thing'[i].state = "failed" =>
        \E j \in orphans : /\ thing[j].port = thing[i].port
                           /\ \/ thing[j].state = "bound"
                              \/ thing[j].state = "serving" /\ j \notin cleaned
<1>1. IInv /\ [Next]_vars => [\A i \in Things : Blocked(i)]_vars
  <2> SUFFICES ASSUME IInv, [Next]_vars, NEW i \in Things, PortPerVar, i \notin orphans,
                      thing[i].state = "checked", thing'[i].state = "failed"
               PROVE  \E j \in orphans : /\ thing[j].port = thing[i].port
                                         /\ \/ thing[j].state = "bound"
                                            \/ thing[j].state = "serving" /\ j \notin cleaned
    OBVIOUS
  <2>1. PICK j \in Things : thing[j].port = thing[i].port /\ thing[j].state \in {"bound", "serving"}
    BY BlockedBind DEF IInv
  <2>2. thing[i].kind = "mock" /\ thing[j].kind = "mock" /\ Started(i) /\ Started(j)
    BY <2>1 DEF IInv, ThingsInv, Started
  <2>3. j \in orphans
    BY <2>1, <2>2, OneMockPerPort
  <2>4. thing[j].state = "serving" => j \notin cleaned
    BY <2>1, <2>2 DEF IInv, ThingsInv, CleanInv, Gone
  <2>5. QED
    BY <2>1, <2>3, <2>4
<1>2. QED
  BY <1>1, Inductive, PTL DEF Spec, MocksGetTheirPort
-----------------------------------------------------------------------------
(***************************************************************************)
(* Lists.  First the lists themselves, whoever records them.               *)
(***************************************************************************)
Direct(list) == {k \in DOMAIN list : ~list[k].nested}
Before(script, n) == {c \in DOMAIN script : c < n /\ script[c].do \notin Stoppers}

LEMMA FollowsByPlace ==
  ASSUME NEW list, NEW script, NEW n
  PROVE  Follows(list, script, n) <=>
           \E place \in [Direct(list) -> Before(script, n)] :
             /\ \A k \in Direct(list) : list[k].call = script[place[k]]
             /\ \A j, k \in Direct(list) : j < k => place[j] < place[k]
             /\ \A c \in Before(script, n) : script[c].once \/ \E k \in Direct(list) : place[k] = c
<1>1. Before(script, n) \subseteq DOMAIN script
  BY DEF Before
<1>2. \A place \in [Direct(list) -> Before(script, n)] : place \in [Direct(list) -> DOMAIN script]
  BY <1>1
<1>3. QED
  BY <1>2 DEF Follows, FollowsAt, Direct, Before

\* A list that begins.
LEMMA FollowsFromTheStart ==
  ASSUME NEW script \in Seq(Calls)
  PROVE  Follows(<<>>, script, 1) /\ NoneNested(<<>>)
<1>1. Direct(<<>>) = {} /\ Before(script, 1) = {}
  BY DEF Direct, Before
<1>2. [k \in {} |-> 0] \in [Direct(<<>>) -> Before(script, 1)]
  BY <1>1
<1>3. Follows(<<>>, script, 1)
  <2>1. \A k : k \notin Direct(<<>>) /\ k \notin Before(script, 1)
    BY <1>1
  <2>2. QED
    BY <1>2, <2>1, FollowsByPlace, Zenon
<1>4. NoneNested(<<>>)
  BY DEF NoneNested
<1>5. QED
  BY <1>3, <1>4

\* A call that records nothing.
LEMMA FollowsPast ==
  ASSUME NEW script \in Seq(Calls), NEW list \in Seq(Actions), NEW n \in DOMAIN script,
         Follows(list, script, n), script[n].once \/ script[n].do \in Stoppers
  PROVE  Follows(list, script, n + 1)
<1>1. PICK place \in [Direct(list) -> Before(script, n)] :
        /\ \A k \in Direct(list) : list[k].call = script[place[k]]
        /\ \A j, k \in Direct(list) : j < k => place[j] < place[k]
        /\ \A c \in Before(script, n) : script[c].once \/ \E k \in Direct(list) : place[k] = c
  BY FollowsByPlace
<1>2. \A c \in DOMAIN script : c < n + 1 <=> c < n \/ c = n
  OBVIOUS
<1>3. /\ Before(script, n) \subseteq Before(script, n + 1)
      /\ \A c \in Before(script, n + 1) : c \in Before(script, n) \/ (c = n /\ script[n].once)
  BY <1>2 DEF Before
<1>4. place \in [Direct(list) -> Before(script, n + 1)]
  BY <1>1, <1>3
<1>5. \A c \in Before(script, n + 1) : script[c].once \/ \E k \in Direct(list) : place[k] = c
  BY <1>1, <1>3
<1>6. QED
  BY <1>1, <1>4, <1>5, FollowsByPlace

\* A call that records itself.
LEMMA FollowsRecorded ==
  ASSUME NEW script \in Seq(Calls), NEW list \in Seq(Actions), NEW n \in DOMAIN script,
         Follows(list, script, n), script[n].do \notin Stoppers,
         NEW e \in Actions, e.call = script[n], ~e.nested
  PROVE  Follows(list \o <<e>>, script, n + 1)
<1> DEFINE more == list \o <<e>>
           last == Len(list) + 1
<1>1. PICK place \in [Direct(list) -> Before(script, n)] :
        /\ \A k \in Direct(list) : list[k].call = script[place[k]]
        /\ \A j, k \in Direct(list) : j < k => place[j] < place[k]
        /\ \A c \in Before(script, n) : script[c].once \/ \E k \in Direct(list) : place[k] = c
  BY FollowsByPlace
<1>2. /\ DOMAIN more = DOMAIN list \cup {last} /\ more[last] = e
      /\ \A k \in DOMAIN list : more[k] = list[k] /\ k < last /\ k # last /\ ~(last < k)
      /\ ~(last < last)
  OBVIOUS
<1>3. Direct(more) = Direct(list) \cup {last} /\ Direct(list) \subseteq DOMAIN list
  BY <1>2 DEF Direct
<1>4. \A c \in DOMAIN script : c < n + 1 <=> c < n \/ c = n
  OBVIOUS
<1>5. Before(script, n + 1) = Before(script, n) \cup {n} /\ \A c \in Before(script, n) : c < n
  BY <1>4 DEF Before
<1> DEFINE further == [k \in Direct(more) |-> IF k = last THEN n ELSE place[k]]
<1>6. \A k \in Direct(list) : further[k] = place[k] /\ place[k] \in Before(script, n)
  BY <1>1, <1>2, <1>3
<1>7. further[last] = n
  BY <1>3
<1>8. further \in [Direct(more) -> Before(script, n + 1)]
  BY <1>3, <1>5, <1>6, <1>7
<1>9. \A k \in Direct(more) : more[k].call = script[further[k]]
  BY <1>1, <1>2, <1>3, <1>6, <1>7
<1>10. \A j, k \in Direct(more) : j < k => further[j] < further[k]
  BY <1>1, <1>2, <1>3, <1>5, <1>6, <1>7
<1>11. \A c \in Before(script, n + 1) : script[c].once \/ \E k \in Direct(more) : further[k] = c
  BY <1>1, <1>3, <1>5, <1>6, <1>7
<1> HIDE DEF more, further
<1>12. Follows(more, script, n + 1)
  BY <1>8, <1>9, <1>10, <1>11, FollowsByPlace
<1>13. QED
  BY <1>12 DEF more

\* A helper that another one calls.
LEMMA FollowsNested ==
  ASSUME NEW script, NEW list \in Seq(Actions), NEW n, Follows(list, script, n),
         NEW e \in Actions, e.nested
  PROVE  Follows(list \o <<e>>, script, n)
<1> DEFINE more == list \o <<e>>
<1>1. /\ DOMAIN more = DOMAIN list \cup {Len(list) + 1} /\ more[Len(list) + 1] = e
      /\ \A k \in DOMAIN list : more[k] = list[k]
  OBVIOUS
<1>2. Direct(more) = Direct(list) /\ \A k \in Direct(list) : more[k] = list[k]
  BY <1>1 DEF Direct
<1> HIDE DEF more
<1>3. Follows(more, script, n)
  BY <1>2, FollowsByPlace
<1>4. QED
  BY <1>3 DEF more

\* What a call records: itself, unless it is skipped or is a stop; and in a run, perhaps, the
\* helper that it calls.
Itself(e) == e \in Actions /\ e.call = Current /\ ~e.nested
RecordsNothing == UNCHANGED actions /\ (Current.once \/ Current.do \in Stoppers)
RecordsCall ==
  /\ Current.do \notin Stoppers
  /\ \/ \E e \in Actions : Itself(e) /\ Record(<<e>>)
     \/ ~Dry /\ \E e, m \in Actions : Itself(e) /\ m.nested /\ Record(<<e>> \o <<m>>)

LEMMA EntryItself ==
  ASSUME TypeOK, OnCall, NEW map \in Maps \cup {NoMap}, Current.do \notin Stoppers
  PROVE  Itself(Entry(Current.do, map, FALSE)) /\ Entry(Current.do, map, FALSE) \in Actions
<1>1. Current \in Calls
  BY CurrentType
<1>2. Current.do \in Starters \cup Users /\ [Current EXCEPT !.do = Current.do] = Current
  BY <1>1 DEF Calls
<1>3. Entry(Current.do, map, FALSE) \in Actions
  BY <1>2, EntryFresh DEF Fresh
<1>4. QED
  BY <1>2, <1>3 DEF Itself, Entry

LEMMA HelperRecords == TypeOK /\ Helper => RecordsNothing \/ RecordsCall
<1> SUFFICES ASSUME TypeOK, Helper PROVE RecordsNothing \/ RecordsCall
  OBVIOUS
<1>a. \A do \in Starters \cup Users : do \notin Stoppers
  BY DEF Starters, Users, Stoppers
<1>b. \A dos : Calling(dos) => OnCall /\ Current.do \in dos
  BY DEF Calling, OnCall
<1>c. \A do \in Starters \cup Users, map \in Maps \cup {NoMap} :
        OnCall /\ Current.do = do /\ Record(<<Entry(do, map, FALSE)>>) => RecordsCall
  BY <1>a, EntryItself DEF RecordsCall
<1>d. /\ {"RunAppServer", "RunMockServer", "Connect", "NewDynamicMockClient"} \subseteq Starters
      /\ {"UpdateMockServer", "SetupTable", "DropTable", "Fetch", "QueryData", "RegisterRoute"}
           \subseteq Users
      /\ {"AppStop", "MockStop"} \subseteq Stoppers
  BY DEF Starters, Users, Stoppers
<1>1. CASE RunAppServer
  <2>1. OnCall /\ Current.do = "RunAppServer" /\ Record(<<Entry("RunAppServer", NoMap, FALSE)>>)
    BY <1>1, <1>b DEF RunAppServer
  <2>2. QED
    BY <2>1, <1>c, <1>d
<1>2. CASE RunMockServer
  <2>1. OnCall /\ Current.do = "RunMockServer"
    BY <1>2, <1>b DEF RunMockServer
  <2>2. PICK map \in Maps \cup {NoMap} : Record(<<Entry("RunMockServer", map, FALSE)>>)
    BY <1>2 DEF RunMockServer
  <2>3. QED
    BY <2>1, <2>2, <1>c, <1>d
<1>3. CASE Connect
  <2>1. OnCall /\ Current.do = "Connect" /\ Record(<<Entry("Connect", NoMap, FALSE)>>)
    BY <1>3, <1>b DEF Connect
  <2>2. QED
    BY <2>1, <1>c, <1>d
<1>4. CASE NewDynamicMockClient
  <2>1. OnCall /\ Current.do = "NewDynamicMockClient" /\ Record(<<Entry("NewDynamicMockClient", NoMap, FALSE)>>)
    BY <1>4, <1>b DEF NewDynamicMockClient
  <2>2. QED
    BY <2>1, <1>c, <1>d
<1>5. CASE UpdateMockServer
  <2>1. OnCall /\ Current.do = "UpdateMockServer" /\ Record(<<Entry("UpdateMockServer", NoMap, FALSE)>>)
    BY <1>5, <1>b DEF UpdateMockServer
  <2>2. QED
    BY <2>1, <1>c, <1>d
<1>6. CASE RegisterRoute
  <2>1. OnCall /\ Current.do = "RegisterRoute" /\ Record(<<Entry("RegisterRoute", NoMap, FALSE)>>)
    BY <1>6, <1>b DEF RegisterRoute
  <2>2. QED
    BY <2>1, <1>c, <1>d
<1>7. ASSUME NEW do \in {"SetupTable", "DropTable", "Fetch", "QueryData"}, NEW other \in Users,
             NEW nested \in {<<>>, <<Entry(other, NoMap, TRUE)>>}, DBCall(do, nested)
      PROVE  RecordsCall
  <2>1. OnCall /\ Current.do = do /\ do \in Users /\ do \notin Stoppers
    BY <1>7, <1>a, <1>b, <1>d DEF DBCall
  <2>2. Itself(Entry(do, NoMap, FALSE)) /\ Entry(do, NoMap, FALSE) \in Actions
    BY <2>1, EntryItself
  <2>3. Entry(other, NoMap, TRUE) \in Actions /\ Entry(other, NoMap, TRUE).nested
    <3>1. do \notin Starters /\ other \notin Starters
      BY <2>1 DEF Users, Starters
    <3>2. Entry(other, NoMap, TRUE) \in Fresh
      BY <2>1, <3>1, EntryFresh
    <3>3. QED
      BY <3>2 DEF Fresh, Entry
  <2>4. <<Entry(do, NoMap, FALSE)>> \o <<>> = <<Entry(do, NoMap, FALSE)>>
    BY <2>2, ShortSeqs, Zenon
  <2>5. \/ Record(<<Entry(do, NoMap, FALSE)>>)
        \/ ~Dry /\ Record(<<Entry(do, NoMap, FALSE)>> \o <<Entry(other, NoMap, TRUE)>>)
    BY <1>7, <2>4 DEF DBCall
  <2>6. QED
    BY <2>1, <2>2, <2>3, <2>5 DEF RecordsCall
<1>8. CASE SetupTable \/ DropTable \/ Fetch \/ QueryData
  <2>1. "DropTable" \in Users /\ "QueryData" \in Users
    BY <1>d
  <2>2. QED
    BY <1>7, <1>8, <2>1 DEF SetupTable, DropTable, Fetch, QueryData
<1>9. CASE AppStop \/ MockStop
  BY <1>9, <1>b, <1>d DEF AppStop, MockStop, Stop, RecordsNothing
<1>10. CASE Skip
  BY <1>10 DEF Skip, Skips, RecordsNothing
<1>11. QED
  BY <1>1, <1>2, <1>3, <1>4, <1>5, <1>6, <1>8, <1>9, <1>10 DEF Helper

\* The list of the stage under way after a call of it.
LEMMA ListAfterCall ==
  ASSUME TypeOK, ListsInv, InStage, job.at \in DOMAIN Script, RecordsNothing \/ RecordsCall
  PROVE  /\ Follows(actions'[job.stage], Script, job.at + 1)
         /\ Dry => NoneNested(actions'[job.stage])
         /\ \A s \in DOMAIN suite : s # job.stage => actions'[s] = actions[s]
<1>1. /\ InStageType /\ ~Manual /\ Script = suite[job.stage] /\ Script \in Seq(Calls)
      /\ Current = Script[job.at] /\ DOMAIN actions = DOMAIN suite
      /\ job.stage \in DOMAIN suite
  BY InStageFacts DEF InStageType, Current, TypeOK
<1>a. PICK list \in Seq(Actions), script \in Seq(Calls) :
        list = actions[job.stage] /\ script = Script
  BY <1>1 DEF TypeOK
<1>b. PICK n \in DOMAIN script : n = job.at
  BY <1>a
<1>2. list = actions[job.stage] /\ script = Script /\ n = job.at
  BY <1>a, <1>b
<1>3. Follows(list, script, n) /\ (Dry => NoneNested(list))
  <2>1. job.at > 0
    BY <1>1
  <2>2. QED
    BY <1>2, <2>1 DEF ListsInv
<1>4. CASE RecordsNothing
  <2>1. Follows(list, script, n + 1)
    BY <1>1, <1>2, <1>3, <1>4, FollowsPast DEF RecordsNothing
  <2>2. QED
    BY <1>2, <1>3, <1>4, <2>1 DEF RecordsNothing
<1>5. ASSUME NEW e \in Actions, Itself(e), Current.do \notin Stoppers
      PROVE  /\ Follows(list \o <<e>>, script, n + 1)
             /\ NoneNested(list) => NoneNested(list \o <<e>>)
             /\ list \o <<e>> \in Seq(Actions)
  <2>1. e.call = script[n] /\ ~e.nested /\ script[n].do \notin Stoppers
    BY <1>1, <1>2, <1>5 DEF Itself
  <2>2. Follows(list \o <<e>>, script, n + 1)
    BY <1>3, <2>1, FollowsRecorded
  <2>3. /\ list \o <<e>> \in Seq(Actions)
        /\ \A k \in DOMAIN (list \o <<e>>) : \/ k \in DOMAIN list /\ (list \o <<e>>)[k] = list[k]
                                             \/ (list \o <<e>>)[k] = e
    OBVIOUS
  <2>4. QED
    BY <2>1, <2>2, <2>3 DEF NoneNested
<1>6. \A es : Record(es) => /\ actions'[job.stage] = list \o es
                            /\ \A s \in DOMAIN suite : s # job.stage => actions'[s] = actions[s]
  BY <1>1, <1>2 DEF Record, TypeOK
<1>7. CASE RecordsCall
  <2>1. CASE \E e \in Actions : Itself(e) /\ Record(<<e>>)
    BY <1>2, <1>3, <1>5, <1>6, <1>7, <2>1 DEF RecordsCall
  <2>2. CASE ~Dry /\ \E e, m \in Actions : Itself(e) /\ m.nested /\ Record(<<e>> \o <<m>>)
    <3>1. PICK e \in Actions, m \in Actions : Itself(e) /\ m.nested /\ Record(<<e>> \o <<m>>)
      BY <2>2
    <3>2. Follows(list \o <<e>>, script, n + 1) /\ list \o <<e>> \in Seq(Actions)
      BY <1>5, <1>7, <3>1 DEF RecordsCall
    <3>3. Follows((list \o <<e>>) \o <<m>>, script, n + 1)
      BY <3>1, <3>2, FollowsNested
    <3>4. (list \o <<e>>) \o <<m>> = list \o (<<e>> \o <<m>>)
      OBVIOUS
    <3>5. QED
      BY <1>2, <1>6, <2>2, <3>1, <3>3, <3>4
  <2>3. QED
    BY <1>7, <2>1, <2>2 DEF RecordsCall
<1>8. QED
  BY <1>4, <1>7

\* Between the calls of a stage.
LEMMA ListsKept ==
  ASSUME ListsInv, UNCHANGED <<suite, actions, complete>>, (InStage /\ job.at > 0)' => UNCHANGED job
  PROVE  ListsInv'
<1>1. ListsFollowTheScript'
  BY DEF ListsInv, ListsFollowTheScript
<1>2. ASSUME (InStage /\ job.at > 0)'
      PROVE  (/\ complete[job.stage] = "none"
              /\ Follows(actions[job.stage], Script, job.at)
              /\ Dry => NoneNested(actions[job.stage]))'
  <2>1. UNCHANGED job
    BY <1>2
  <2>2. InStage /\ job.at > 0 /\ Script' = Script /\ (Dry' <=> Dry)
    BY <1>2, <2>1 DEF InStage, Script, Dry
  <2>3. QED
    BY <2>1, <2>2 DEF ListsInv
<1>3. QED
  BY <1>1, <1>2 DEF ListsInv

LEMMA ListsInvStep == TypeOK /\ ListsInv /\ [Next]_vars => ListsInv'
<1> SUFFICES ASSUME TypeOK, ListsInv, [Next]_vars PROVE ListsInv'
  OBVIOUS
<1>0. \A j : j = Idle => j.mode = "idle"
  BY DEF Idle
<1>1. CASE Helper
  <2>1. HelperStep /\ (RecordsNothing \/ RecordsCall)
    BY <1>1, HelperForm, HelperRecords
  <2>2. OnCall /\ Ends /\ UNCHANGED <<suite, complete>>
    BY <2>1 DEF HelperStep, Ends, SkipsCall, IgnoresCall, EmptiesHandle, StartsThing, UsesThing,
                StopsThing, Rest
  <2>3. CASE Manual
    <3>1. job' = Idle /\ ~InStage
      BY <2>2, <2>3, EndsType DEF Manual, InStage
    <3>2. UNCHANGED actions
      BY <2>1, <3>1 DEF RecordsNothing, RecordsCall, Record
    <3>3. QED
      BY <1>0, <2>2, <3>1, <3>2, ListsKept DEF InStage
  <2>4. CASE InStage
    <3>1. /\ InStageType /\ job.at \in DOMAIN Script /\ Script = suite[job.stage]
          /\ job.at \in Nat /\ job.at > 0
      BY <2>2, <2>4, InStageFacts DEF OnCall, InStageType
    <3>2. /\ Follows(actions'[job.stage], Script, job.at + 1)
          /\ Dry => NoneNested(actions'[job.stage])
          /\ \A s \in DOMAIN suite : s # job.stage => actions'[s] = actions[s]
      BY <2>1, <2>4, <3>1, ListAfterCall
    <3>3. complete[job.stage] = "none"
      BY <2>4, <3>1 DEF ListsInv
    <3>4. ListsFollowTheScript'
      BY <2>2, <3>2, <3>3 DEF ListsInv, ListsFollowTheScript
    <3>5. CASE AtNextCall
      <4>1. Script' = Script /\ (Dry' <=> Dry) /\ job'.stage = job.stage /\ job'.at = job.at + 1
        BY <2>2, <3>5 DEF AtNextCall, Script, Dry
      <4>2. QED
        BY <2>2, <3>2, <3>3, <3>4, <4>1 DEF ListsInv
    <3>6. CASE job' = Idle \/ AtNextStage
      <4>1. ~(InStage /\ job.at > 0)'
        BY <1>0, <3>6 DEF AtNextStage, InStage
      <4>2. QED
        BY <3>4, <4>1 DEF ListsInv
    <3>7. QED
      BY <2>2, <2>4, <3>1, <3>5, <3>6, EndsType, ModeStep DEF Ends, InStageType
  <2>5. QED
    BY <2>2, <2>3, <2>4, CurrentType
<1>2. CASE RunStage \/ Discover \/ RunAction
  <2>1. UNCHANGED <<suite, actions, complete>> /\ ~(InStage /\ job.at > 0)'
    BY <1>2 DEF RunStage, Discover, RunAction, Begins, InStage
  <2>2. QED
    BY <2>1, ListsKept
<1>3. CASE PickAction
  BY <1>3, ListsKept DEF PickAction, histories
<1>4. CASE BeginStage
  <2>1. /\ InStageType /\ Script = suite[job.stage] /\ Script \in Seq(Calls)
        /\ job.stage \in DOMAIN suite /\ UNCHANGED suite
    BY <1>4, InStageFacts DEF BeginStage, InStageType
  <2>2. job'.stage = job.stage /\ job'.at = 1
    BY <1>4, <2>1 DEF BeginStage, InStageType
  <2>3. actions'[job.stage] = <<>> /\ complete'[job.stage] = "none"
    BY <1>4, <2>1 DEF BeginStage, TypeOK
  <2>4. \A s \in DOMAIN suite : s # job.stage => actions'[s] = actions[s]
                                                 /\ complete'[s] = complete[s]
    BY <1>4, <2>1 DEF BeginStage, TypeOK
  <2>5. ListsFollowTheScript'
    BY <2>1, <2>3, <2>4 DEF ListsInv, ListsFollowTheScript
  <2>6. Script' = Script
    BY <2>1, <2>2 DEF Script
  <2>7. QED
    BY <2>1, <2>2, <2>3, <2>5, <2>6, FollowsFromTheStart DEF ListsInv
<1>5. CASE StageEnds
  <2>1. /\ InStageType /\ Script = suite[job.stage] /\ Script \in Seq(Calls)
        /\ job.stage \in DOMAIN suite /\ UNCHANGED <<suite, actions>>
        /\ job.at = Len(Script) + 1 /\ job.at > 0
    BY <1>5, InStageFacts DEF StageEnds, InStageType
  <2>2. /\ complete'[job.stage] = job.mode
        /\ \A s \in DOMAIN suite : s # job.stage => complete'[s] = complete[s]
    BY <1>5, <2>1 DEF StageEnds, TypeOK
  <2>3. /\ Follows(actions[job.stage], suite[job.stage], Len(suite[job.stage]) + 1)
        /\ Dry => NoneNested(actions[job.stage])
    BY <1>5, <2>1 DEF ListsInv, StageEnds
  <2>4. ListsFollowTheScript'
    BY <2>1, <2>2, <2>3 DEF ListsInv, ListsFollowTheScript, Dry
  <2>5. ~(InStage /\ job.at > 0)'
    <3>1. job' = Idle \/ AtNextStage
      BY <1>5, <2>1, ModeStep DEF StageEnds, InStageType
    <3>2. QED
      BY <1>0, <3>1 DEF AtNextStage, InStage
  <2>6. QED
    BY <2>4, <2>5 DEF ListsInv
<1>6. CASE GoesOn
  BY <1>6, ListsKept DEF GoesOn, Check, Bind, Serve, Exits, Becomes, histories
<1>7. CASE UNCHANGED vars
  BY <1>7, ListsKept DEF vars, histories
<1>8. QED
  BY <1>1, <1>2, <1>3, <1>4, <1>5, <1>6, <1>7 DEF Next, GoesOn

\* The actions that a user may run again are those of the stage, in its order: the list of a
\* stage that came to its end has every call but stops and skipped ones (RecordAction in every
\* helper), that of a discover nothing else, that of a run also what helpers call (db.go:62).
THEOREM ListsAreTheScripts == Spec => []ListsFollowTheScript
<1>1. Init => ListsInv
  BY DEF Init, ListsInv, ListsFollowTheScript, InStage, Idle
<1>2. TypeOK /\ ListsInv /\ [Next]_vars => ListsInv'
  BY ListsInvStep
<1>3. ListsInv => ListsFollowTheScript
  BY DEF ListsInv
<1>4. QED
  BY <1>1, <1>2, <1>3, TypeCorrect, PTL DEF Spec
=============================================================================
