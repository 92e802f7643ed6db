--------------------------- MODULE UIServerProofs ---------------------------
(***************************************************************************)
(* Theorems about UIServer, for any number of requests and registered      *)
(* stages, and about the event stream it offers.                           *)
(***************************************************************************)
EXTENDS UIServer, EventStream, FiniteSetTheorems, SequenceTheorems, TLAPS

IInv == TypeOK /\ JobsInv

LEMMA OrderType == order \in Seq(Registrable) => order \in Seq(Names)
BY DEF Names

\* What a non-empty list of stages has first, and after it.
LEMMA TodoFacts ==
  ASSUME NEW t \in Seq(Names), t # <<>>
  PROVE  Head(t) \in Names /\ Tail(t) \in Seq(Names)
OBVIOUS

LEMMA SeqFacts ==
  ASSUME NEW S
  PROVE  /\ <<>> \in Seq(S)
         /\ \A s \in Seq(S), x \in S : Append(s, x) \in Seq(S) /\ s \o <<x>> \in Seq(S)
OBVIOUS

LEMMA LongIsNonEmpty == \A t \in Seq(Names) : Len(t) > 1 => t # <<>>
OBVIOUS

\* The prerequisites of a name do not contain it.
LEMMA BeforeFacts ==
  ASSUME order \in Seq(Registrable), NEW n
  PROVE  /\ Before(n) \in Seq(Names)
         /\ \A i \in 1 .. Len(Before(n)) : Before(n)[i] # n
<1>1. order \in Seq(Names)
  BY OrderType
<1> DEFINE I == {i \in DOMAIN order : \A j \in 1 .. i : order[j] # n}
           c == Cardinality(I)
<1>2. I \subseteq 1 .. Len(order) /\ Len(order) \in Nat
  BY <1>1
<1>3. \A k \in Nat : IsFiniteSet(1 .. k) /\ Cardinality(1 .. k) = k
  <2> TAKE k \in Nat
  <2>1. 1 \in Int /\ k \in Int
    OBVIOUS
  <2>2. IsFiniteSet(1 .. k) /\ Cardinality(1 .. k) = IF 1 > k THEN 0 ELSE k - 1 + 1
    BY <2>1, FS_Interval, Zenon
  <2>3. QED
    BY <2>2
<1>4. \A k \in Nat : I \subseteq 1 .. k => c \in Nat /\ c <= k
  <2> HIDE DEF I
  <2> TAKE k \in Nat
  <2>1. HAVE I \subseteq 1 .. k
  <2>2. IsFiniteSet(1 .. k) /\ Cardinality(1 .. k) = k
    BY <1>3
  <2>3. IsFiniteSet(I) /\ c <= k
    BY <2>1, <2>2, FS_Subset
  <2>4. QED
    BY <2>3, FS_CardinalityType
<1>5. c \in Nat /\ c <= Len(order)
  BY <1>2, <1>4
<1>6. \A i \in 1 .. c : order[i] # n
  <2> SUFFICES ASSUME NEW i \in 1 .. c, order[i] = n PROVE FALSE
    OBVIOUS
  <2>1. i \in Nat /\ i - 1 \in Nat /\ i <= c
    BY <1>5
  <2>2. I \subseteq 1 .. (i - 1)
    <3>1. \A k \in I : k \in 1 .. Len(order) /\ ~(i <= k)
      BY <1>2, <2>1
    <3>2. QED
      BY <1>2, <2>1, <3>1
  <2>3. c <= i - 1
    BY <1>4, <2>1, <2>2
  <2>4. QED
    BY <1>5, <2>1, <2>3
<1> HIDE DEF c
<1>7. \A i \in 1 .. c : order[i] \in Names
  BY <1>1, <1>5
<1>8. /\ SubSeq(order, 1, c) \in Seq(Names)
      /\ Len(SubSeq(order, 1, c)) = c
      /\ \A i \in 1 .. c : SubSeq(order, 1, c)[i] = order[i]
  BY <1>1, <1>5, <1>7, SubSeqProperties
<1>9. Before(n) = SubSeq(order, 1, c)
  BY DEF Before, c
<1>10. QED
  BY <1>6, <1>8, <1>9

\* What a request considers: the prerequisites, if asked for, and the stage last.
LEMMA PlanFacts ==
  ASSUME order \in Seq(Registrable), NEW n, NEW p \in BOOLEAN
  PROVE  /\ Plan(n, p) \in Seq(Names \cup {n})
         /\ Len(Plan(n, p)) = (IF p THEN Len(Before(n)) ELSE 0) + 1
         /\ Plan(n, p)[Len(Plan(n, p))] = n
         /\ p => \A i \in 1 .. Len(Before(n)) : Plan(n, p)[i] = Before(n)[i]
<1>1. ASSUME NEW s \in Seq(Names)
      PROVE  /\ s \o <<n>> \in Seq(Names \cup {n})
             /\ Len(s \o <<n>>) = Len(s) + 1
             /\ (s \o <<n>>)[Len(s) + 1] = n
             /\ \A i \in 1 .. Len(s) : (s \o <<n>>)[i] = s[i]
  <2>1. s \in Seq(Names \cup {n}) /\ <<n>> \in Seq(Names \cup {n}) /\ Len(s) \in Nat
    OBVIOUS
  <2>2. QED
    BY <2>1
<1>2. Before(n) \in Seq(Names) /\ <<>> \in Seq(Names) /\ Len(<<>>) = 0
  BY BeforeFacts
<1>3. CASE p
  <2>1. Plan(n, p) = Before(n) \o <<n>>
    BY <1>3 DEF Plan
  <2>2. PICK s \in Seq(Names) : s = Before(n)
    BY <1>2
  <2>3. QED
    BY <1>1, <1>3, <2>1, <2>2
<1>4. CASE ~p
  <2>1. Plan(n, p) = <<>> \o <<n>>
    BY <1>4 DEF Plan
  <2>2. QED
    BY <1>1, <1>2, <1>4, <2>1
<1>5. QED
  BY <1>3, <1>4

\* To consider a stage is to take the next one of the plan.
LEMMA OneFurther ==
  ASSUME NEW S, NEW P \in Seq(S), NEW t \in Seq(Names), t # <<>>,
         Len(t) <= Len(P),
         \A k \in DOMAIN t : t[k] = P[Len(P) - Len(t) + k]
  PROVE  /\ Len(Tail(t)) = Len(t) - 1 /\ Len(Tail(t)) <= Len(P)
         /\ \A k \in DOMAIN Tail(t) : Tail(t)[k] = P[Len(P) - Len(Tail(t)) + k]
         /\ Head(t) = P[Len(P) - Len(t) + 1]
         /\ Len(t) \in Nat /\ Len(t) >= 1 /\ Len(P) \in Nat
<1>1. Len(P) \in Nat /\ Len(t) \in Nat /\ Len(t) >= 1 /\ DOMAIN t = 1 .. Len(t)
  OBVIOUS
<1>2. Len(Tail(t)) = Len(t) - 1 /\ DOMAIN Tail(t) = 1 .. (Len(t) - 1)
  BY <1>1
<1>3. \A k \in 1 .. (Len(t) - 1) : Tail(t)[k] = t[k + 1]
  BY <1>1
<1>4. Head(t) = t[1]
  OBVIOUS
<1>5. \A k \in 1 .. (Len(t) - 1) : t[k + 1] = P[Len(P) - Len(t) + (k + 1)]
  BY <1>1
<1>6. \A k \in 1 .. (Len(t) - 1) :
        Len(P) - Len(t) + (k + 1) = Len(P) - (Len(t) - 1) + k
  BY <1>1
<1>7. QED
  BY <1>1, <1>2, <1>3, <1>4, <1>5, <1>6

LEMMA InitInv == Init => IInv /\ StatusTellsOutcome
<1> SUFFICES ASSUME Init PROVE IInv /\ StatusTellsOutcome
  OBVIOUS
<1>a. \A k \in 1 .. MaxStages : k \in Nat
  OBVIOUS
<1>b. <<>> \in Seq(Runner!Execution) /\ <<>> \in Seq(Names)
  OBVIOUS
<1> USE ConstantsAssumption DEF Init, Runner!Init
<1>1. order \in Seq(Registrable)
  <2>1. PICK k \in 1 .. MaxStages : order \in [1 .. k -> Registrable]
    OBVIOUS
  <2>2. k \in Nat
    BY <1>a
  <2>3. QED
    BY <2>1, <2>2, SeqDef, Zenon
<1>2. TypeOK
  <2>1. status \in [Names -> Status \cup {""}]
    BY DEF Status
  <2>2. NoJob \in Job
    BY DEF NoJob, Job
  <2>3. stageActions \in [Names -> Seq(Runner!Execution)]
    BY <1>b
  <2>4. QED
    BY <1>1, <1>b, <2>1, <2>2, <2>3 DEF TypeOK
<1>3. JobsInv
  BY DEF JobsInv, MutexInv, ActiveInv, TodoInv, Working
<1>4. StatusTellsOutcome
  BY DEF StatusTellsOutcome, IsRunning, Outcome
<1>5. QED
  BY <1>2, <1>3, <1>4 DEF IInv

\* A new request changes nothing but its own goroutine.
LEMMA HandleType ==
  ASSUME IInv, NEW r \in Requests, Handle(r)
  PROVE  /\ TypeOK'
         /\ pc[r] = "idle" /\ pc' = [pc EXCEPT ![r] = "queued"]
         /\ \E j \in Job, t \in Seq(Names) :
              job' = [job EXCEPT ![r] = j] /\ todo' = [todo EXCEPT ![r] = t]
         /\ UNCHANGED <<order, status, runMu, result, runnerVars, history>>
<1> USE DEF IInv, TypeOK, runnerVars, history
<1>1. ASSUME NEW j \in Job, NEW t \in Seq(Names), Accept(r, j, t, "queued")
      PROVE  /\ TypeOK'
             /\ pc[r] = "idle" /\ pc' = [pc EXCEPT ![r] = "queued"]
             /\ job' = [job EXCEPT ![r] = j] /\ todo' = [todo EXCEPT ![r] = t]
             /\ UNCHANGED <<order, status, runMu, result, runnerVars, history>>
  BY <1>1 DEF Accept
<1>2. <<>> \in Seq(Names)
  BY SeqFacts
<1>3. CASE HandleRunStage(r)
  <2>1. PICK n \in Names, p \in BOOLEAN :
          Accept(r, [kind |-> "stage", name |-> n, prereq |-> p], Plan(n, p), "queued")
    BY <1>3 DEF HandleRunStage
  <2>2. Plan(n, p) \in Seq(Names)
    <3>1. Before(n) \in Seq(Names)
      BY BeforeFacts
    <3>2. (IF p THEN Before(n) ELSE <<>>) \in Seq(Names)
      BY <1>2, <3>1
    <3> HIDE DEF TypeOK, IInv
    <3>3. QED
      BY <3>2, SeqFacts DEF Plan
  <2>3. [kind |-> "stage", name |-> n, prereq |-> p] \in Job
    BY DEF Job
  <2> HIDE DEF TypeOK
  <2>4. QED
    BY <1>1, <2>1, <2>2, <2>3
<1>4. CASE HandleRunAction(r)
  <2>1. PICK n \in Names :
          Accept(r, [kind |-> "action", name |-> n, prereq |-> FALSE], <<>>, "queued")
    BY <1>4 DEF HandleRunAction
  <2>2. [kind |-> "action", name |-> n, prereq |-> FALSE] \in Job
    BY DEF Job
  <2> HIDE DEF TypeOK
  <2>3. QED
    BY <1>1, <1>2, <2>1, <2>2
<1>5. CASE HandleRunAll(r) \/ HandleDiscover(r)
  <2>1. /\ [kind |-> "all", name |-> "", prereq |-> FALSE] \in Job
        /\ [kind |-> "discover", name |-> "", prereq |-> FALSE] \in Job
    BY DEF Job
  <2>2. order \in Seq(Names)
    BY OrderType
  <2> HIDE DEF TypeOK
  <2>3. QED
    BY <1>1, <1>5, <2>1, <2>2 DEF HandleRunAll, HandleDiscover
<1>6. QED
  BY <1>3, <1>4, <1>5 DEF Handle

\* The goroutines keep the types.
LEMMA WorkType ==
  ASSUME IInv, NEW r \in Requests,
         Take(r) \/ GoesOn(r) \/ RecordAction(r) \/ FunctionEnds(r)
  PROVE  TypeOK'
<1> USE DEF IInv, TypeOK, runnerVars, history, jobVars, Release
<1>1. todo[r] # <<>> => Head(todo[r]) \in Names /\ Tail(todo[r]) \in Seq(Names)
  BY TodoFacts
<1>2. pc[r] \in {"run", "exec", "returned"} => todo[r] # <<>>
  BY DEF JobsInv, TodoInv
<1>3. CASE Take(r) \/ JobDone(r) \/ ActionDone(r)
  BY <1>3 DEF Take, JobDone, ActionDone
<1>4. CASE SkipPassed(r)
  <2>1. todo[r] # <<>>
    BY <1>4, LongIsNonEmpty DEF SkipPassed, IsPrerequisite
  <2>2. QED
    BY <1>1, <1>4, <2>1 DEF SkipPassed
<1>5. CASE SetRunning(r)
  BY <1>1, <1>5 DEF SetRunning, Status
<1>6. CASE StartStage(r)
  <2>1. todo[r] # <<>>
    BY <1>2, <1>6 DEF StartStage
  <2>2. Execution(r) \in Runner!Execution
    BY <1>1, <2>1 DEF Execution, Runner!Execution
  <2>3. stageActions' \in [Names -> Seq(Runner!Execution)]
    <3>1. stageActions' = [stageActions EXCEPT ![Execution(r).stage] = <<>>]
      BY <1>6 DEF StartStage, Runner!Start
    <3>2. <<>> \in Seq(Runner!Execution)
      BY SeqFacts
    <3>3. QED
      BY <3>1, <3>2
  <2>4. QED
    BY <1>6, <2>2, <2>3 DEF StartStage, Runner!Start
<1>7. CASE StageNotFound(r) \/ StageEnds(r)
  <2>1. PICK res \in Outcome : Returned(r, res)
    BY <1>7 DEF StageNotFound, StageEnds, Outcome
  <2>2. Head(todo[r]) \in Names
    BY <1>1, <1>2, <1>7 DEF StageNotFound, StageEnds
  <2>3. /\ UNCHANGED <<order, status, runMu, job, todo, stageActions>>
        /\ active' \in {active, NoRequest}
    BY <1>7 DEF StageNotFound, StageEnds, Runner!Finish
  <2>4. ran' \in [Requests -> Seq(Names)]
    <3>1. Append(ran[r], Head(todo[r])) \in Seq(Names)
      BY <2>2, SeqFacts
    <3>2. ran' = [ran EXCEPT ![r] = Append(ran[r], Head(todo[r]))]
      BY <2>1 DEF Returned
    <3>3. QED
      BY <3>1, <3>2
  <2>5. outcome' \in [Names -> Outcome \cup {"none", "goexit"}]
    BY <2>1 DEF Returned
  <2>6. QED
    BY <2>1, <2>3, <2>4, <2>5 DEF Returned
<1>8. CASE SetResult(r)
  <2>1. result[r] \in Outcome /\ todo[r] # <<>>
    BY <1>2, <1>8 DEF SetResult, JobsInv, TodoInv
  <2>2. status' \in [Names -> Status \cup {""}]
    BY <1>8, <2>1 DEF SetResult, Outcome, Status
  <2>3. todo' \in [Requests -> Seq(Names)]
    <3>1. todo' = [todo EXCEPT ![r] = Tail(todo[r])]
      BY <1>8 DEF SetResult
    <3>2. QED
      BY <1>1, <2>1, <3>1
  <2>4. runMu' \in Requests \cup {NoRequest} /\ pc' \in {[pc EXCEPT ![r] = "next"],
                                                       [pc EXCEPT ![r] = "done"]}
    BY <1>8 DEF SetResult
  <2>5. QED
    BY <1>8, <2>2, <2>3, <2>4 DEF SetResult
<1>9. CASE RecordAction(r)
  <2>1. /\ active \in Runner!Execution
        /\ stageActions' = [stageActions EXCEPT ![active.stage] = Append(@, active)]
        /\ active' = active
    BY <1>9 DEF RecordAction, Runner!Record
  <2>2. active.stage \in Names
    BY <2>1 DEF Runner!Execution
  <2>3. Append(stageActions[active.stage], active) \in Seq(Runner!Execution)
    BY <2>1, <2>2, SeqFacts
  <2>4. stageActions' \in [Names -> Seq(Runner!Execution)]
    BY <2>1, <2>3
  <2>5. QED
    BY <1>9, <2>1, <2>4 DEF RecordAction
<1>10. CASE DryRunEnds(r)
  BY <1>1, <1>2, <1>10 DEF DryRunEnds, Runner!Finish
<1>11. CASE Goexit(r)
  <2>1. outcome' \in [Names -> Outcome \cup {"none", "goexit"}]
    BY <1>11 DEF Goexit, Dies
  <2>2. /\ UNCHANGED <<order, status, job, todo, result, ran, stageActions>>
        /\ active' \in {active, NoRequest}
    BY <1>11 DEF Goexit, Dies, Runner!Finish
  <2>3. QED
    BY <1>11, <2>1, <2>2 DEF Goexit, Dies
<1>12. QED
  BY <1>3, <1>4, <1>5, <1>6, <1>7, <1>8, <1>9, <1>10, <1>11 DEF GoesOn, FunctionEnds

\* A new request neither works nor executes: the invariant and the statuses stand.
LEMMA HandleInv ==
  ASSUME IInv, StatusTellsOutcome, NEW r \in Requests, Handle(r)
  PROVE  JobsInv' /\ StatusTellsOutcome'
<1>1. PICK j \in Job, t \in Seq(Names) :
        job' = [job EXCEPT ![r] = j] /\ todo' = [todo EXCEPT ![r] = t]
  BY HandleType
<1>2. /\ pc[r] = "idle" /\ pc' = [pc EXCEPT ![r] = "queued"]
      /\ UNCHANGED <<order, status, runMu, result, runnerVars, history>>
  BY HandleType
<1>3. \A q \in Requests : q # r =>
        pc'[q] = pc[q] /\ job'[q] = job[q] /\ todo'[q] = todo[q] /\ result'[q] = result[q]
  BY <1>1, <1>2 DEF IInv, TypeOK
<1>4. pc'[r] = "queued"
  BY <1>2 DEF IInv, TypeOK
<1>5. active # NoRequest => active.by \in Requests
  BY DEF IInv, TypeOK, Runner!Execution
<1> USE DEF IInv, JobsInv, runnerVars, history
<1>6. MutexInv'
  BY <1>2, <1>3, <1>4 DEF MutexInv, Working
<1>7. ActiveInv'
  BY <1>2, <1>3, <1>4, <1>5 DEF ActiveInv, Execution
<1>8. TodoInv'
  BY <1>2, <1>3, <1>4 DEF TodoInv
<1>9. StatusTellsOutcome'
  <2>1. \A q \in Requests, n \in Names : IsRunning(q, n)' <=> IsRunning(q, n)
    BY <1>2, <1>3, <1>4 DEF IsRunning
  <2>2. QED
    BY <1>2, <2>1 DEF StatusTellsOutcome
<1>10. QED
  BY <1>6, <1>7, <1>8, <1>9

\* Who works holds s.runMu, so nobody else does; who does not, executes nothing.
LEMMA OneWorks ==
  ASSUME IInv, NEW r \in Requests, NEW q \in Requests, Working(r), Working(q)
  PROVE  q = r
BY DEF IInv, JobsInv, MutexInv

\* A step of the goroutine r leaves the others where they are.
LEMMA OthersStay ==
  ASSUME IInv, NEW r \in Requests,
         Take(r) \/ GoesOn(r) \/ RecordAction(r) \/ FunctionEnds(r)
  PROVE  /\ \A q \in Requests \ {r} :
              /\ pc'[q] = pc[q] /\ job'[q] = job[q] /\ todo'[q] = todo[q]
              /\ result'[q] = result[q] /\ ~Working(q)
         /\ job' = job /\ order' = order
<1> USE DEF IInv, TypeOK, JobsInv, runnerVars, history, jobVars, Release
<1>1. ASSUME Take(r) PROVE \A q \in Requests : ~Working(q)
  BY <1>1, ConstantsAssumption DEF Take, MutexInv
<1>2. ASSUME ~Take(r) PROVE \A q \in Requests \ {r} : ~Working(q)
  BY <1>2, OneWorks DEF Working, GoesOn, SkipPassed, SetRunning, StartStage, StageNotFound,
       SetResult, JobDone, RecordAction, FunctionEnds, StageEnds, DryRunEnds, Goexit,
       Dies, ActionDone
<1>3. /\ \A q \in Requests \ {r} :
           /\ pc'[q] = pc[q] /\ todo'[q] = todo[q] /\ result'[q] = result[q]
      /\ job' = job /\ order' = order
  BY DEF Take, GoesOn, SkipPassed, SetRunning, StartStage, StageNotFound, Returned,
       SetResult, JobDone, RecordAction, FunctionEnds, StageEnds, DryRunEnds, Goexit,
       Dies, ActionDone
<1>4. QED
  BY <1>1, <1>2, <1>3

\* The holder of s.runMu is the goroutine at work.
LEMMA MutexStep ==
  ASSUME IInv, NEW r \in Requests,
         Take(r) \/ GoesOn(r) \/ RecordAction(r) \/ FunctionEnds(r)
  PROVE  MutexInv'
<1> USE ConstantsAssumption DEF IInv, TypeOK, JobsInv, runnerVars, history, jobVars, Release
<1>1. \A q \in Requests \ {r} : ~Working(q) /\ ~Working(q)'
  BY OthersStay DEF Working
<1>2. runMu' = r <=> Working(r)'
  <2>1. CASE Take(r)
    BY <2>1 DEF Take, Working
  <2>2. CASE GoesOn(r) \/ RecordAction(r)
    <3>1. Working(r) /\ runMu = r
      BY <2>2 DEF MutexInv, Working, GoesOn, SkipPassed, SetRunning, StartStage,
           StageNotFound, SetResult, JobDone, RecordAction
    <3>2. \/ runMu' = runMu /\ pc'[r] \in {"next", "run", "exec", "returned"}
          \/ runMu' = NoRequest /\ pc'[r] = "done"
      BY <2>2 DEF GoesOn, SkipPassed, SetRunning, StartStage, StageNotFound, Returned,
           SetResult, JobDone, RecordAction
    <3>3. QED
      BY <3>1, <3>2 DEF Working
  <2>3. CASE FunctionEnds(r)
    <3>1. Working(r) /\ runMu = r
      BY <2>3 DEF MutexInv, Working, FunctionEnds, StageEnds, DryRunEnds, Goexit, Dies,
           ActionDone
    <3>2. \/ runMu' = runMu /\ pc'[r] \in {"next", "returned"}
          \/ runMu' = NoRequest /\ pc'[r] \in {"done", "dead"}
      BY <2>3 DEF FunctionEnds, StageEnds, Returned, DryRunEnds, Goexit, Dies, ActionDone
    <3>3. QED
      BY <3>1, <3>2 DEF Working
  <2>4. QED
    BY <2>1, <2>2, <2>3
<1>3. runMu' \in {runMu, r, NoRequest}
  BY DEF Take, GoesOn, SkipPassed, SetRunning, StartStage, StageNotFound,
       SetResult, JobDone, RecordAction, FunctionEnds, StageEnds, DryRunEnds, Goexit,
       ActionDone
<1>4. QED
  BY <1>1, <1>2, <1>3 DEF MutexInv

\* The Tester executes for the goroutine that is at its call.
LEMMA ActiveStep ==
  ASSUME IInv, NEW r \in Requests,
         Take(r) \/ GoesOn(r) \/ RecordAction(r) \/ FunctionEnds(r)
  PROVE  ActiveInv'
<1> USE ConstantsAssumption DEF IInv, TypeOK, JobsInv, runnerVars, history, jobVars, Release
<1>1. \A q \in Requests \ {r} : pc[q] # "exec" /\ pc'[q] # "exec"
  BY OthersStay DEF Working
<1>2. active # NoRequest => active.by \in Requests
  BY DEF Runner!Execution
<1>3. CASE StartStage(r)
  <2>1. todo[r] # <<>>
    BY <1>3 DEF StartStage, TodoInv
  <2>2. active' = Execution(r) /\ Execution(r)' = Execution(r) /\ pc'[r] = "exec"
    BY <1>3 DEF StartStage, Runner!Start, Execution
  <2>3. Execution(r).by = r
    BY DEF Execution
  <2>4. todo' = todo
    BY <1>3 DEF StartStage
  <2>5. QED
    BY <1>1, <2>1, <2>2, <2>3, <2>4 DEF ActiveInv
<1>4. CASE RecordAction(r)
  BY <1>4 DEF RecordAction, Runner!Record, ActiveInv, Execution
<1>5. CASE pc[r] = "exec" /\ FunctionEnds(r)
  <2>1. active' = NoRequest /\ pc'[r] # "exec"
    BY <1>5 DEF FunctionEnds, StageEnds, DryRunEnds, Goexit, Dies, ActionDone,
         Runner!Finish, Returned
  <2>2. QED
    BY <1>1, <2>1 DEF ActiveInv
<1>6. CASE pc[r] # "exec" /\ ~StartStage(r)
  <2>1. active' = active /\ pc'[r] # "exec"
    BY <1>6 DEF Take, GoesOn, SkipPassed, SetRunning, StageNotFound, Returned,
         SetResult, JobDone, RecordAction, FunctionEnds, StageEnds, DryRunEnds,
         Goexit, Dies, ActionDone
  <2>2. active = NoRequest
    BY <1>1, <1>2, <1>6 DEF ActiveInv
  <2>3. QED
    BY <1>1, <2>1, <2>2 DEF ActiveInv
<1>7. pc[r] = "exec" => StartStage(r) \/ RecordAction(r) \/ FunctionEnds(r)
  BY DEF Take, GoesOn, SkipPassed, SetRunning, StageNotFound, SetResult, JobDone
<1>8. QED
  BY <1>3, <1>4, <1>5, <1>6, <1>7

\* A goroutine has a stage to run, and the result it will set is the last one.
LEMMA TodoStep ==
  ASSUME IInv, NEW r \in Requests,
         Take(r) \/ GoesOn(r) \/ RecordAction(r) \/ FunctionEnds(r)
  PROVE  TodoInv'
<1> USE ConstantsAssumption DEF IInv, TypeOK, JobsInv, runnerVars, history, jobVars, Release
<1>1. \A q \in Requests \ {r} : pc'[q] = pc[q] /\ job'[q] = job[q] /\ ~Working(q)
  BY OthersStay
<1>2. \A q \in Requests \ {r} : pc'[q] \notin {"run", "exec", "returned", "act"}
  BY <1>1 DEF Working
<1>3. job' = job
  BY OthersStay
<1>4. pc'[r] \in {"run", "exec", "returned"} => todo'[r] # <<>>
  BY DEF TodoInv, Take, GoesOn, SkipPassed, SetRunning, StartStage,
       StageNotFound, Returned, SetResult, JobDone, RecordAction, FunctionEnds,
       StageEnds, DryRunEnds, Goexit, Dies, ActionDone
<1>5. pc'[r] = "act" => job[r].kind = "action"
  BY DEF TodoInv, Take, GoesOn, SkipPassed, SetRunning, StartStage,
       StageNotFound, Returned, SetResult, JobDone, RecordAction, FunctionEnds,
       StageEnds, DryRunEnds, Goexit, Dies, ActionDone
<1>6. pc'[r] \in {"run", "returned"} => job[r].kind # "discover"
  BY DEF TodoInv, Take, GoesOn, SkipPassed, SetRunning, StartStage,
       StageNotFound, Returned, SetResult, JobDone, RecordAction, FunctionEnds,
       StageEnds, DryRunEnds, Goexit, Dies, ActionDone
<1>7. ASSUME pc'[r] = "returned"
      PROVE  outcome'[Head(todo'[r])] = result'[r] /\ result'[r] \in Outcome
  <2>1. PICK res \in Outcome : Returned(r, res) /\ todo' = todo /\ pc[r] \in {"run", "exec"}
    BY <1>7 DEF Take, GoesOn, SkipPassed, SetRunning, StartStage,
       StageNotFound, Outcome, SetResult, JobDone, RecordAction, FunctionEnds,
       StageEnds, DryRunEnds, Goexit, Dies, ActionDone
  <2>2. Head(todo[r]) \in Names
    BY <2>1, TodoFacts DEF TodoInv
  <2>3. QED
    BY <2>1, <2>2 DEF Returned
<1>8. QED
  BY <1>2, <1>3, <1>4, <1>5, <1>6, <1>7 DEF TodoInv

\* The goroutine at work answers for the status of its stage, and for no other.
LEMMA StatusStep ==
  ASSUME IInv, StatusTellsOutcome, NEW r \in Requests,
         Take(r) \/ GoesOn(r) \/ RecordAction(r) \/ FunctionEnds(r)
  PROVE  StatusTellsOutcome'
<1> USE DEF IInv, TypeOK, JobsInv, runnerVars, history, jobVars, Release
<1> DEFINE h == Head(todo[r])
<1>1. \A q \in Requests \ {r}, n \in Names : ~IsRunning(q, n) /\ ~IsRunning(q, n)'
  BY OthersStay DEF Working, IsRunning
<1>2. \A n \in Names : (\E q \in Requests : IsRunning(q, n)) <=> IsRunning(r, n)
  BY <1>1
<1>3. \A n \in Names : (\E q \in Requests : IsRunning(q, n))' <=> IsRunning(r, n)'
  BY <1>1
<1>4. job' = job
  BY OthersStay
<1>5. \A n \in Names :
        /\ status[n] \in Outcome => outcome[n] = status[n]
        /\ IsRunning(r, n) => status[n] = "Running..."
        /\ status[n] = "Running..." => outcome[n] = "goexit" \/ IsRunning(r, n)
        /\ status[n] \in {"Not Run", ""} => outcome[n] = "none"
  BY <1>2 DEF StatusTellsOutcome
<1>6. SUFFICES ASSUME NEW n \in Names
      PROVE  /\ status'[n] \in Outcome => outcome'[n] = status'[n]
             /\ IsRunning(r, n)' => status'[n] = "Running..."
             /\ status'[n] = "Running..." => outcome'[n] = "goexit" \/ IsRunning(r, n)'
             /\ status'[n] \in {"Not Run", ""} => outcome'[n] = "none"
  BY <1>3 DEF StatusTellsOutcome
<1>7. CASE \/ Take(r) \/ SkipPassed(r) \/ JobDone(r) \/ ActionDone(r) \/ RecordAction(r)
           \/ DryRunEnds(r) \/ StartStage(r)
  <2>1. status' = status /\ outcome' = outcome
    BY <1>7 DEF Take, SkipPassed, JobDone, ActionDone, RecordAction, DryRunEnds, StartStage
  <2>2. IsRunning(r, n)' <=> IsRunning(r, n)
    BY <1>4, <1>7 DEF Take, SkipPassed, JobDone, ActionDone, RecordAction, DryRunEnds,
         StartStage, IsRunning, TodoInv
  <2>3. QED
    BY <1>5, <2>1, <2>2
<1>8. CASE SetRunning(r)
  <2>1. h \in Names /\ outcome' = outcome /\ todo' = todo
    BY <1>8, TodoFacts DEF SetRunning
  <2>2. status'[n] = IF n = h THEN "Running..." ELSE status[n]
    BY <1>8, <2>1 DEF SetRunning
  <2>3. IsRunning(r, n)' <=> n = h
    BY <1>4, <1>8, <2>1 DEF SetRunning, IsRunning
  <2>4. ~IsRunning(r, n)
    BY <1>8 DEF SetRunning, IsRunning
  <2>5. QED
    BY <1>5, <2>1, <2>2, <2>3, <2>4 DEF Outcome
<1>9. CASE StageNotFound(r) \/ StageEnds(r)
  <2>1. PICK res \in Outcome : Returned(r, res) /\ todo' = todo /\ status' = status
    BY <1>9 DEF StageNotFound, StageEnds, Outcome
  <2>2. IsRunning(r, n) <=> n = h
    BY <1>9 DEF StageNotFound, StageEnds, IsRunning, TodoInv
  <2>3. IsRunning(r, n)' <=> n = h
    BY <1>4, <1>9, <2>1 DEF StageNotFound, StageEnds, IsRunning, TodoInv, Returned
  <2>4. n # h => outcome'[n] = outcome[n]
    BY <2>1 DEF Returned
  <2>5. QED
    BY <1>5, <2>1, <2>2, <2>3, <2>4 DEF Outcome
<1>10. CASE SetResult(r)
  <2>1. outcome[h] = result[r] /\ result[r] \in Outcome /\ job[r].kind # "discover"
    BY <1>10 DEF SetResult, TodoInv
  <2>2. status'[n] = IF n = h THEN result[r] ELSE status[n]
    BY <1>10 DEF SetResult
  <2>3. outcome' = outcome /\ (IsRunning(r, n) <=> n = h) /\ ~IsRunning(r, n)'
    BY <1>10, <2>1 DEF SetResult, IsRunning
  <2>4. QED
    BY <1>5, <2>1, <2>2, <2>3 DEF Outcome
<1>11. CASE Goexit(r)
  <2>1. status' = status /\ ~IsRunning(r, n)'
    BY <1>11 DEF Goexit, Dies, IsRunning
  <2>2. CASE pc[r] = "exec" /\ job[r].kind # "discover"
    <3>1. outcome'[n] = IF n = h THEN "goexit" ELSE outcome[n]
      BY <1>11, <2>2 DEF Goexit, Dies
    <3>2. IsRunning(r, n) <=> n = h
      BY <2>2 DEF IsRunning
    <3>3. CASE n = h
      <4>1. status'[n] = "Running..." /\ outcome'[n] = "goexit"
        BY <1>5, <2>1, <3>1, <3>2, <3>3
      <4>2. QED
        BY <2>1, <4>1 DEF Outcome
    <3>4. CASE n # h
      <4>1. outcome'[n] = outcome[n] /\ status'[n] = status[n] /\ ~IsRunning(r, n)
        BY <2>1, <3>1, <3>2, <3>4
      <4>2. QED
        BY <1>5, <2>1, <4>1
    <3>5. QED
      BY <3>3, <3>4
  <2>3. CASE ~(pc[r] = "exec" /\ job[r].kind # "discover")
    <3>1. outcome' = outcome /\ ~IsRunning(r, n)
      BY <1>11, <2>3 DEF Goexit, Dies, IsRunning
    <3>2. QED
      BY <1>5, <2>1, <3>1
  <2>4. QED
    BY <2>2, <2>3
<1>12. QED
  BY <1>7, <1>8, <1>9, <1>10, <1>11 DEF GoesOn, FunctionEnds

LEMMA NextInv ==
  IInv /\ StatusTellsOutcome /\ [Next]_vars => IInv' /\ StatusTellsOutcome'
<1> SUFFICES ASSUME IInv, StatusTellsOutcome, [Next]_vars
             PROVE  IInv' /\ StatusTellsOutcome'
  OBVIOUS
<1>1. ASSUME NEW r \in Requests, Handle(r) PROVE IInv' /\ StatusTellsOutcome'
  BY <1>1, HandleType, HandleInv DEF IInv
<1>2. ASSUME NEW r \in Requests,
             Take(r) \/ GoesOn(r) \/ RecordAction(r) \/ FunctionEnds(r)
      PROVE  IInv' /\ StatusTellsOutcome'
  BY <1>2, WorkType, MutexStep, ActiveStep, TodoStep, StatusStep DEF IInv, JobsInv
<1>3. CASE UNCHANGED vars
  <2> USE <1>3 DEF vars, jobVars, runnerVars, history
  <2>1. TypeOK'
    BY DEF IInv, TypeOK
  <2>2. MutexInv'
    BY DEF IInv, JobsInv, MutexInv, Working
  <2>3. ActiveInv'
    <3>1. \A r \in Requests : Execution(r)' = Execution(r)
      BY DEF Execution
    <3>2. QED
      BY <3>1 DEF IInv, JobsInv, ActiveInv
  <2>4. TodoInv'
    BY DEF IInv, JobsInv, TodoInv
  <2>5. StatusTellsOutcome'
    <3>1. \A q \in Requests, n \in Names : IsRunning(q, n)' <=> IsRunning(q, n)
      BY DEF IsRunning
    <3>2. QED
      BY <3>1 DEF StatusTellsOutcome
  <2>6. QED
    BY <2>1, <2>2, <2>3, <2>4, <2>5 DEF IInv, JobsInv
<1>4. QED
  BY <1>1, <1>2, <1>3 DEF Next

\* What is left of a request's plan stays the end of it, and shrinks from the front.
LEMMA HandlePlan ==
  ASSUME IInv, NEW r \in Requests, Handle(r)
  PROVE  /\ \E S : PlanOf(r)' \in Seq(S)
         /\ \/ job'[r].kind = "action" /\ todo'[r] = <<>>
            \/ todo'[r] = PlanOf(r)'
         /\ job'[r].kind = "all" => todo'[r] = order
<1>1. ASSUME NEW j, NEW t, Accept(r, j, t, "queued")
      PROVE  job'[r] = j /\ todo'[r] = t /\ order' = order /\ order \in Seq(Registrable)
  BY <1>1 DEF Accept, IInv, TypeOK
<1>2. CASE HandleRunStage(r)
  <2>1. PICK n \in Names, p \in BOOLEAN :
          Accept(r, [kind |-> "stage", name |-> n, prereq |-> p], Plan(n, p), "queued")
    BY <1>2 DEF HandleRunStage
  <2> DEFINE j == [kind |-> "stage", name |-> n, prereq |-> p]
  <2>2. job'[r] = j /\ todo'[r] = Plan(n, p) /\ order' = order
    BY <1>1, <2>1
  <2>3. j.kind = "stage" /\ j.name = n /\ j.prereq = p
    OBVIOUS
  <2>4. Plan(n, p)' = Plan(n, p)
    BY <2>2 DEF Plan, Before
  <2>5. PlanOf(r)' = Plan(n, p)
    BY <2>2, <2>3, <2>4 DEF PlanOf, Plan, Before
  <2>6. Plan(n, p) \in Seq(Names \cup {n})
    BY <2>1, <1>1, PlanFacts
  <2>7. QED
    BY <2>2, <2>3, <2>5, <2>6
<1>3. CASE HandleRunAction(r)
  <2>1. /\ order \in Seq(Registrable) /\ order' = order /\ todo'[r] = <<>>
        /\ job'[r].kind = "action"
    BY <1>1, <1>3 DEF HandleRunAction
  <2>2. PlanOf(r)' = order
    BY <2>1 DEF PlanOf
  <2>3. QED
    BY <2>1, <2>2
<1>4. CASE HandleRunAll(r)
  <2>1. /\ order \in Seq(Registrable) /\ order' = order /\ todo'[r] = order
        /\ job'[r].kind = "all"
    BY <1>4 DEF HandleRunAll, Accept, IInv, TypeOK
  <2>2. PlanOf(r)' = order
    BY <2>1 DEF PlanOf
  <2>3. QED
    BY <2>1, <2>2
<1>5. CASE HandleDiscover(r)
  <2>1. /\ order \in Seq(Registrable) /\ order' = order /\ todo'[r] = order
        /\ job'[r].kind = "discover"
    BY <1>5 DEF HandleDiscover, Accept, IInv, TypeOK
  <2>2. PlanOf(r)' = order
    BY <2>1 DEF PlanOf
  <2>3. QED
    BY <2>1, <2>2
<1>6. QED
  BY <1>2, <1>3, <1>4, <1>5 DEF Handle

LEMMA TodoMoves ==
  ASSUME IInv, NEW r \in Requests,
         Take(r) \/ GoesOn(r) \/ RecordAction(r) \/ FunctionEnds(r)
  PROVE  /\ pc[r] # "idle" /\ pc'[r] \notin {"idle", "queued"}
         /\ \/ todo'[r] = todo[r]
            \/ todo[r] # <<>> /\ todo'[r] = Tail(todo[r])
<1>1. \/ todo' = todo
      \/ /\ SkipPassed(r) \/ SetResult(r) \/ DryRunEnds(r)
         /\ todo' = [todo EXCEPT ![r] = Tail(todo[r])]
  BY DEF Take, GoesOn, SkipPassed, SetRunning, StartStage, StageNotFound, Returned,
     SetResult, JobDone, RecordAction, FunctionEnds, StageEnds, DryRunEnds, Goexit,
     Dies, ActionDone, jobVars
<1>2. SkipPassed(r) \/ SetResult(r) \/ DryRunEnds(r) => todo[r] # <<>>
  BY LongIsNonEmpty DEF IInv, TypeOK, JobsInv, TodoInv, SkipPassed, IsPrerequisite,
     SetResult, DryRunEnds
<1>3. pc[r] # "idle" /\ pc'[r] \notin {"idle", "queued"}
  BY DEF IInv, TypeOK, Take, GoesOn, SkipPassed, SetRunning, StartStage, StageNotFound,
     Returned, SetResult, JobDone, RecordAction, FunctionEnds, StageEnds, DryRunEnds,
     Goexit, Dies, ActionDone, Release, jobVars
<1>4. QED
  BY <1>1, <1>2, <1>3 DEF IInv, TypeOK

\* A plan is a sequence.
LEMMA PlanOfType ==
  ASSUME IInv, NEW r \in Requests
  PROVE  \E S : PlanOf(r) \in Seq(S)
<1>1. order \in Seq(Registrable) /\ job[r].prereq \in BOOLEAN
  BY DEF IInv, TypeOK, Job
<1>2. Plan(job[r].name, job[r].prereq) \in Seq(Names \cup {job[r].name})
  BY <1>1, PlanFacts
<1>3. QED
  BY <1>1, <1>2 DEF PlanOf

LEMMA SamePlan ==
  ASSUME order' = order, NEW r, job'[r] = job[r]
  PROVE  PlanOf(r)' = PlanOf(r)
BY DEF PlanOf, Plan, Before

LEMMA PlanStep ==
  ASSUME IInv, PlanInv, NEW r \in Requests,
         Take(r) \/ GoesOn(r) \/ RecordAction(r) \/ FunctionEnds(r)
  PROVE  PlanInv'
<1>1. \A q \in Requests : PlanOf(q)' = PlanOf(q)
  BY OthersStay, SamePlan
<1>2. ASSUME NEW q \in Requests, q # r, pc'[q] # "idle"
      PROVE  /\ Len(todo'[q]) <= Len(PlanOf(q)')
             /\ \A k \in DOMAIN todo'[q] : todo'[q][k] = PlanOf(q)'[Considered(q)' + k]
             /\ pc'[q] = "queued" /\ job'[q].kind = "stage" => Considered(q)' = 0
  BY <1>1, <1>2, OthersStay DEF PlanInv, Considered
<1>3. /\ Len(todo'[r]) <= Len(PlanOf(r)')
      /\ \A k \in DOMAIN todo'[r] : todo'[r][k] = PlanOf(r)'[Considered(r)' + k]
  <2>1. /\ Len(todo[r]) <= Len(PlanOf(r))
        /\ \A k \in DOMAIN todo[r] : todo[r][k] = PlanOf(r)[Considered(r) + k]
    BY TodoMoves DEF PlanInv
  <2>2. CASE todo'[r] = todo[r]
    BY <1>1, <2>1, <2>2 DEF Considered
  <2>3. CASE todo[r] # <<>> /\ todo'[r] = Tail(todo[r])
    <3>1. PICK S : PlanOf(r) \in Seq(S)
      BY PlanOfType
    <3>2. todo[r] \in Seq(Names)
      BY DEF IInv, TypeOK
    <3>3. /\ Len(Tail(todo[r])) <= Len(PlanOf(r))
          /\ \A k \in DOMAIN Tail(todo[r]) :
               Tail(todo[r])[k] = PlanOf(r)[Len(PlanOf(r)) - Len(Tail(todo[r])) + k]
      BY <2>1, <2>3, <3>1, <3>2, OneFurther DEF Considered
    <3>4. QED
      BY <1>1, <2>3, <3>3 DEF Considered
  <2>4. QED
    BY <2>2, <2>3, TodoMoves
<1>4. pc'[r] # "queued"
  BY TodoMoves
<1>5. QED
  BY <1>2, <1>3, <1>4 DEF PlanInv

\* No prerequisite is left behind that did not pass: the one at hand is no earlier
\* one run again, unless that fails and ends the job, and never the stage itself.
LEMMA PassedStep ==
  ASSUME IInv, StatusTellsOutcome, PlanInv, PassedInv, NEW r \in Requests,
         Take(r) \/ GoesOn(r) \/ RecordAction(r) \/ FunctionEnds(r)
  PROVE  PassedInv'
<1> DEFINE h == Head(todo[r])
<1>1. \A q \in Requests : q # r => ~Working(q)'
  BY OthersStay DEF Working
<1>2. job' = job /\ order' = order /\ PlanOf(r)' = PlanOf(r)
  BY OthersStay, SamePlan
<1>3. PICK name, B : name = job[r].name /\ B = Before(job[r].name)
  OBVIOUS
<1>4. Before(job[r].name)' = B
  BY <1>2, <1>3 DEF Before
<1>5. SUFFICES ASSUME Working(r)', job[r].kind = "stage", job[r].prereq,
                      NEW i \in DOMAIN B, i <= Considered(r)'
               PROVE  \/ outcome'[B[i]] = "PASSED"
                      \/ pc'[r] = "returned" /\ result'[r] = "FAILED" /\ IsPrerequisite(r)'
  BY <1>1, <1>2, <1>4 DEF PassedInv
<1>6. PICK P : P = PlanOf(r)
  OBVIOUS
<1>7. /\ B \in Seq(Names) /\ i \in 1 .. Len(B) /\ Len(B) \in Nat
      /\ B[i] \in Names /\ B[i] # name
      /\ Len(P) = Len(B) + 1 /\ P[Len(P)] = name /\ P[i] = B[i]
  <2>1. order \in Seq(Registrable)
    BY DEF IInv, TypeOK
  <2>2. B \in Seq(Names) /\ \A k \in 1 .. Len(B) : B[k] # name
    BY <1>3, <2>1, BeforeFacts
  <2>3. i \in 1 .. Len(B) /\ Len(B) \in Nat
    BY <2>2
  <2>4. P = Plan(name, TRUE)
    <3>1. job[r].prereq = TRUE
      BY <1>5 DEF IInv, TypeOK, Job
    <3>2. P = Plan(job[r].name, job[r].prereq)
      BY <1>5, <1>6 DEF PlanOf
    <3>3. QED
      BY <1>3, <3>1, <3>2
  <2>5. /\ Len(P) = Len(B) + 1 /\ P[Len(P)] = name
        /\ \A k \in 1 .. Len(B) : P[k] = B[k]
    <3>1. /\ Len(Plan(name, TRUE)) = (IF TRUE THEN Len(Before(name)) ELSE 0) + 1
          /\ Plan(name, TRUE)[Len(Plan(name, TRUE))] = name
          /\ TRUE => \A k \in 1 .. Len(Before(name)) :
                       Plan(name, TRUE)[k] = Before(name)[k]
      BY <2>1, PlanFacts, Zenon
    <3>2. B = Before(name)
      BY <1>3
    <3>3. QED
      BY <2>4, <3>1, <3>2
  <2>6. QED
    BY <2>2, <2>3, <2>5
<1>8. /\ todo[r] \in Seq(Names) /\ Len(todo[r]) \in Nat
      /\ Considered(r) = Len(P) - Len(todo[r])
  <2>1. todo[r] \in Seq(Names)
    BY DEF IInv, TypeOK
  <2>2. Len(todo[r]) \in Nat
    BY <2>1
  <2>3. QED
    BY <1>6, <2>1, <2>2 DEF Considered
<1>9. ASSUME todo[r] # <<>>
      PROVE  /\ Len(todo[r]) >= 1 /\ Len(Tail(todo[r])) = Len(todo[r]) - 1
             /\ h = P[Considered(r) + 1] /\ h \in Names
  <2>1. PICK S : P \in Seq(S)
    BY <1>6, PlanOfType
  <2>2. /\ Len(todo[r]) <= Len(P)
        /\ \A k \in DOMAIN todo[r] : todo[r][k] = P[Len(P) - Len(todo[r]) + k]
    BY <1>6, <1>8, TodoMoves DEF PlanInv
  <2>3. /\ Len(Tail(todo[r])) = Len(todo[r]) - 1
        /\ Head(todo[r]) = P[Len(P) - Len(todo[r]) + 1] /\ Len(todo[r]) >= 1
    BY <1>8, <1>9, <2>1, <2>2, OneFurther
  <2>4. Head(todo[r]) \in Names
    BY <1>8, <1>9, TodoFacts
  <2>5. QED
    BY <1>8, <2>3, <2>4
<1>10. ASSUME todo[r] # <<>>, h = B[i]
       PROVE  IsPrerequisite(r)
  <2>1. ASSUME Len(todo[r]) = 1 PROVE FALSE
    <3>1. Considered(r) + 1 = Len(P)
      BY <1>7, <1>8, <2>1
    <3>2. h = name
      BY <1>7, <1>9, <1>10, <3>1
    <3>3. QED
      BY <1>7, <1>10, <3>2
  <2>2. Len(todo[r]) > 1
    <3>1. Len(todo[r]) \in Nat /\ Len(todo[r]) >= 1 /\ Len(todo[r]) # 1
      BY <1>8, <1>9, <1>10, <2>1
    <3>2. \A m \in Nat : m >= 1 /\ m # 1 => m > 1
      OBVIOUS
    <3>3. QED
      BY <3>1, <3>2
  <2>3. QED
    BY <1>5, <2>2 DEF IsPrerequisite
<1>11. ASSUME Working(r), i <= Considered(r), pc[r] # "returned" \/ result[r] # "FAILED"
                                                \/ ~IsPrerequisite(r)
       PROVE  outcome[B[i]] = "PASSED"
  BY <1>3, <1>5, <1>11 DEF PassedInv
<1>12. ASSUME todo'[r] = todo[r] PROVE Considered(r)' = Considered(r)
  BY <1>2, <1>12 DEF Considered
<1>13. ASSUME todo[r] # <<>>, todo'[r] = Tail(todo[r])
       PROVE  i <= Considered(r) \/ h = B[i]
  <2>1. Considered(r)' = Len(P) - Len(Tail(todo[r]))
    BY <1>2, <1>6, <1>13 DEF Considered
  <2>2. /\ i \in Nat /\ Len(P) \in Nat /\ Len(todo[r]) \in Nat
        /\ Considered(r) = Len(P) - Len(todo[r]) /\ i <= Considered(r)'
        /\ Len(Tail(todo[r])) = Len(todo[r]) - 1
    BY <1>5, <1>7, <1>8, <1>9, <1>13
  <2>3. i <= Considered(r) \/ i = Considered(r) + 1
    <3>1. \A k, p, t \in Nat : k <= p - (t - 1) => k <= p - t \/ k = p - t + 1
      OBVIOUS
    <3>2. i <= Len(P) - (Len(todo[r]) - 1)
      BY <2>1, <2>2
    <3>3. i <= Len(P) - Len(todo[r]) \/ i = Len(P) - Len(todo[r]) + 1
      BY <2>2, <3>1, <3>2
    <3>4. QED
      BY <2>2, <3>3, Zenon
  <2>4. QED
    BY <1>7, <1>9, <1>13, <2>3
<1>14. CASE Take(r)
  BY <1>5, <1>7, <1>12, <1>14 DEF Take, PlanInv
<1>15. CASE SkipPassed(r)
  <2>1. todo[r] # <<>> /\ todo'[r] = Tail(todo[r])
    BY <1>8, <1>15, LongIsNonEmpty DEF SkipPassed, IsPrerequisite, IInv, TypeOK
  <2>2. outcome' = outcome /\ Working(r) /\ pc[r] = "next" /\ status[h] = "PASSED"
    BY <1>15 DEF SkipPassed, history, Working
  <2>3. outcome[h] = "PASSED"
    BY <1>9, <2>1, <2>2 DEF StatusTellsOutcome, Outcome
  <2>4. QED
    BY <1>11, <1>13, <2>1, <2>2, <2>3
<1>16. CASE SetRunning(r) \/ StartStage(r) \/ RecordAction(r)
  <2>1. todo' = todo /\ outcome' = outcome /\ pc[r] \in {"next", "run", "exec"}
    BY <1>16 DEF SetRunning, StartStage, RecordAction, history, jobVars
  <2>2. Working(r)
    BY <2>1 DEF Working
  <2>3. QED
    BY <1>5, <1>11, <1>12, <2>1, <2>2
<1>17. CASE StageNotFound(r) \/ StageEnds(r)
  <2>1. PICK res \in Outcome : Returned(r, res)
    BY <1>17 DEF StageNotFound, StageEnds, Outcome
  <2>2. todo' = todo /\ pc[r] \in {"run", "exec"}
    BY <1>17 DEF StageNotFound, StageEnds
  <2>3. todo[r] # <<>> /\ Working(r)
    BY <2>2 DEF IInv, JobsInv, TodoInv, Working
  <2>4. outcome' = [outcome EXCEPT ![h] = res] /\ result'[r] = res /\ pc'[r] = "returned"
    BY <2>1 DEF Returned, IInv, TypeOK
  <2>5. CASE B[i] = h
    <3>1. IsPrerequisite(r)'
      BY <1>2, <1>10, <2>2, <2>3, <2>5 DEF IsPrerequisite
    <3>2. outcome'[B[i]] = res
      BY <1>9, <2>3, <2>4, <2>5 DEF IInv, TypeOK
    <3>3. QED
      BY <2>4, <3>1, <3>2 DEF Outcome
  <2>6. CASE B[i] # h
    <3>1. outcome'[B[i]] = outcome[B[i]]
      BY <1>7, <2>4, <2>6 DEF IInv, TypeOK
    <3>2. QED
      BY <1>5, <1>11, <1>12, <2>2, <2>3, <3>1
  <2>7. QED
    BY <2>5, <2>6
<1>18. CASE SetResult(r)
  <2>1. /\ pc[r] = "returned" /\ todo' = [todo EXCEPT ![r] = Tail(todo[r])]
        /\ outcome' = outcome
    BY <1>18 DEF SetResult, history
  <2>2. ~(result[r] = "FAILED" /\ IsPrerequisite(r))
    BY <1>5, <1>18 DEF SetResult, Release, Working, IInv, TypeOK
  <2>3. /\ todo[r] # <<>> /\ Working(r)
        /\ outcome[h] = result[r] /\ result[r] \in Outcome
    BY <2>1 DEF IInv, JobsInv, TodoInv, Working
  <2>4. todo'[r] = Tail(todo[r])
    BY <2>1 DEF IInv, TypeOK
  <2>5. h = B[i] => outcome[h] = "PASSED"
    BY <1>10, <2>2, <2>3 DEF Outcome
  <2>6. QED
    BY <1>11, <1>13, <2>1, <2>2, <2>3, <2>4, <2>5
<1>19. CASE JobDone(r) \/ ActionDone(r) \/ Goexit(r) \/ DryRunEnds(r)
  BY <1>5, <1>19 DEF JobDone, ActionDone, Goexit, Dies, DryRunEnds, Release, Working,
     IInv, TypeOK
<1>20. QED
  BY <1>14, <1>15, <1>16, <1>17, <1>18, <1>19 DEF GoesOn, FunctionEnds

\* A run-all runs the next stage that is registered, and goes on after each.
LEMMA RanStep ==
  ASSUME IInv, PlanInv, RanInv, NEW r \in Requests,
         Take(r) \/ GoesOn(r) \/ RecordAction(r) \/ FunctionEnds(r)
  PROVE  RanInv'
<1> DEFINE G(q) == /\ pc[q] = "idle" => ran[q] = <<>> /\ job[q].kind = "none"
                   /\ job[q].kind = "all" =>
                        /\ Len(ran[q]) + Len(todo[q])
                             = Len(order) + (IF pc[q] = "returned" THEN 1 ELSE 0)
                        /\ \A k \in DOMAIN ran[q] : ran[q][k] = order[k]
                        /\ pc[q] = "done" => todo[q] = <<>>
<1>1. \A q \in Requests : G(q)
  BY DEF RanInv
<1>2. job' = job /\ order' = order
  BY OthersStay
<1>3. ran' = ran \/ ran' = [ran EXCEPT ![r] = Append(ran[r], Head(todo[r]))]
  BY DEF Take, GoesOn, SkipPassed, SetRunning, StartStage, StageNotFound, Returned,
     SetResult, JobDone, RecordAction, FunctionEnds, StageEnds, DryRunEnds, Goexit,
     Dies, ActionDone, history
<1>4. \A q \in Requests : q # r => G(q)'
  <2> SUFFICES ASSUME NEW q \in Requests, q # r PROVE G(q)'
    OBVIOUS
  <2>1. ran'[q] = ran[q]
    BY <1>3 DEF IInv, TypeOK
  <2>2. pc'[q] = pc[q] /\ todo'[q] = todo[q] /\ job'[q] = job[q]
    BY OthersStay
  <2>3. G(q)
    BY <1>1
  <2>4. QED
    BY <1>2, <2>1, <2>2, <2>3
<1>5. G(r)'
  <2>1. SUFFICES ASSUME job[r].kind = "all"
        PROVE  /\ Len(ran'[r]) + Len(todo'[r])
                    = Len(order) + (IF pc'[r] = "returned" THEN 1 ELSE 0)
               /\ \A k \in DOMAIN ran'[r] : ran'[r][k] = order[k]
               /\ pc'[r] = "done" => todo'[r] = <<>>
    BY <1>2, TodoMoves
  <2>2. /\ Len(ran[r]) + Len(todo[r]) = Len(order) + (IF pc[r] = "returned" THEN 1 ELSE 0)
        /\ \A k \in DOMAIN ran[r] : ran[r][k] = order[k]
    BY <1>1, <2>1
  <2>3. /\ ran[r] \in Seq(Names) /\ todo[r] \in Seq(Names) /\ order \in Seq(Registrable)
        /\ Len(ran[r]) \in Nat /\ Len(todo[r]) \in Nat /\ Len(order) \in Nat
    <3>1. ran[r] \in Seq(Names) /\ todo[r] \in Seq(Names) /\ order \in Seq(Registrable)
      BY DEF IInv, TypeOK
    <3>2. QED
      BY <3>1
  <2>4. CASE StageNotFound(r) \/ StageEnds(r)
    <3>1. PICK res \in Outcome : Returned(r, res)
      BY <2>4 DEF StageNotFound, StageEnds, Outcome
    <3>2. todo' = todo /\ pc[r] \in {"run", "exec"}
      BY <2>4 DEF StageNotFound, StageEnds
    <3>3. todo[r] # <<>>
      BY <3>2 DEF IInv, JobsInv, TodoInv
    <3>4. PICK h : h = Head(todo[r])
      OBVIOUS
    <3>5. h \in Names
      BY <2>3, <3>3, <3>4, TodoFacts
    <3>6. ran'[r] = Append(ran[r], h) /\ pc'[r] = "returned"
      BY <3>1, <3>4 DEF Returned, IInv, TypeOK
    <3>7. /\ Len(Append(ran[r], h)) = Len(ran[r]) + 1
          /\ DOMAIN Append(ran[r], h) = 1 .. (Len(ran[r]) + 1)
          /\ DOMAIN ran[r] = 1 .. Len(ran[r])
          /\ \A k \in 1 .. Len(ran[r]) : Append(ran[r], h)[k] = ran[r][k]
          /\ Append(ran[r], h)[Len(ran[r]) + 1] = h
      BY <2>3, <3>5
    <3>8. h = order[Len(ran[r]) + 1]
      <4>1. PlanOf(r) = order
        BY <2>1 DEF PlanOf
      <4>2. /\ Len(todo[r]) <= Len(order)
            /\ \A k \in DOMAIN todo[r] : todo[r][k] = order[Len(order) - Len(todo[r]) + k]
        BY <4>1, TodoMoves DEF PlanInv, Considered
      <4>3. h = order[Len(order) - Len(todo[r]) + 1]
        BY <2>3, <3>3, <3>4, <4>2, OneFurther
      <4>4. Len(order) - Len(todo[r]) = Len(ran[r])
        <5>1. Len(ran[r]) + Len(todo[r]) = Len(order) + 0
          BY <2>2, <3>2
        <5>2. \A a, t, o \in Nat : a + t = o + 0 => o - t = a
          OBVIOUS
        <5>3. QED
          BY <2>3, <5>1, <5>2
      <4>5. QED
        BY <4>3, <4>4
    <3>9. \A k \in 1 .. (Len(ran[r]) + 1) : k \in 1 .. Len(ran[r]) \/ k = Len(ran[r]) + 1
      BY <2>3
    <3>10. Len(ran'[r]) + Len(todo'[r]) = Len(order) + 1
      <4>1. Len(ran[r]) + Len(todo[r]) = Len(order) + 0
        BY <2>2, <3>2
      <4>2. \A a, t, o \in Nat : a + t = o + 0 => (a + 1) + t = o + 1
        OBVIOUS
      <4>3. Len(ran'[r]) = Len(ran[r]) + 1 /\ todo'[r] = todo[r]
        BY <3>2, <3>6, <3>7
      <4>4. (Len(ran[r]) + 1) + Len(todo[r]) = Len(order) + 1
        BY <2>3, <4>1, <4>2
      <4>5. QED
        BY <4>3, <4>4, Zenon
    <3>11. \A k \in DOMAIN ran'[r] : ran'[r][k] = order[k]
      BY <2>2, <3>6, <3>7, <3>8, <3>9
    <3>12. QED
      BY <3>6, <3>10, <3>11
  <2>5. CASE SetResult(r)
    <3>1. pc[r] = "returned" /\ ran' = ran /\ ~IsPrerequisite(r)
      BY <2>1, <2>5 DEF SetResult, history, IsPrerequisite
    <3>2. pc'[r] = "next" /\ todo'[r] = Tail(todo[r])
      BY <2>5, <3>1 DEF SetResult, IInv, TypeOK
    <3>3. todo[r] # <<>>
      BY <3>1 DEF IInv, JobsInv, TodoInv
    <3>4. Len(Tail(todo[r])) = Len(todo[r]) - 1
      BY <2>3, <3>3
    <3>5. Len(ran'[r]) + Len(todo'[r]) = Len(order) + 0
      <4>1. Len(ran[r]) + Len(todo[r]) = Len(order) + 1
        BY <2>2, <3>1
      <4>2. \A a, t, o \in Nat : a + t = o + 1 => a + (t - 1) = o + 0
        OBVIOUS
      <4>3. Len(ran[r]) + (Len(todo[r]) - 1) = Len(order) + 0
        BY <2>3, <4>1, <4>2
      <4>4. QED
        BY <3>1, <3>2, <3>4, <4>3
    <3>6. pc'[r] # "done" /\ (IF pc'[r] = "returned" THEN 1 ELSE 0) = 0
      BY <3>2
    <3>7. QED
      BY <2>2, <3>1, <3>5, <3>6, Zenon
  <2>6. CASE \/ Take(r) \/ SetRunning(r) \/ StartStage(r) \/ RecordAction(r)
             \/ JobDone(r) \/ Goexit(r)
    <3>1. ran' = ran /\ todo' = todo /\ pc[r] # "returned" /\ pc'[r] # "returned"
      BY <2>6 DEF Take, SetRunning, StartStage, RecordAction, JobDone, Goexit, Dies,
         Release, history, jobVars, IInv, TypeOK
    <3>2. pc'[r] = "done" => todo[r] = <<>>
      BY <2>6 DEF Take, SetRunning, StartStage, RecordAction, JobDone, Goexit, Dies,
         jobVars, IInv, TypeOK
    <3>3. QED
      BY <2>2, <3>1, <3>2
  <2>7. CASE SkipPassed(r) \/ ActionDone(r) \/ DryRunEnds(r)
    BY <2>1, <2>7 DEF SkipPassed, IsPrerequisite, ActionDone, DryRunEnds, IInv, JobsInv,
       TodoInv
  <2>8. QED
    BY <2>4, <2>5, <2>6, <2>7 DEF GoesOn, FunctionEnds
<1>6. QED
  BY <1>4, <1>5 DEF RanInv

LEMMA HandleProgress ==
  ASSUME IInv, ProgressInv, NEW r \in Requests, Handle(r)
  PROVE  ProgressInv'
<1>1. PICK j \in Job, t \in Seq(Names) :
        job' = [job EXCEPT ![r] = j] /\ todo' = [todo EXCEPT ![r] = t]
  BY HandleType
<1>2. /\ pc[r] = "idle" /\ pc' = [pc EXCEPT ![r] = "queued"]
      /\ UNCHANGED <<order, status, runMu, result, runnerVars, history>>
  BY HandleType
<1>3. \A q \in Requests : q # r =>
        /\ pc'[q] = pc[q] /\ job'[q] = job[q] /\ todo'[q] = todo[q]
        /\ result'[q] = result[q]
  BY <1>1, <1>2 DEF IInv, TypeOK
<1>4. pc'[r] = "queued" /\ todo'[r] = t /\ job'[r] = j
  BY <1>1, <1>2 DEF IInv, TypeOK
<1>5. order' = order /\ outcome' = outcome /\ ran' = ran
  BY <1>2 DEF history
<1>6. PlanInv'
  <2>1. ASSUME NEW q \in Requests, q # r, pc'[q] # "idle"
        PROVE  /\ Len(todo'[q]) <= Len(PlanOf(q)')
               /\ \A k \in DOMAIN todo'[q] : todo'[q][k] = PlanOf(q)'[Considered(q)' + k]
               /\ pc'[q] = "queued" /\ job'[q].kind = "stage" => Considered(q)' = 0
    <3>1. PlanOf(q)' = PlanOf(q)
      BY <1>3, <1>5, <2>1, SamePlan
    <3>2. pc'[q] = pc[q] /\ todo'[q] = todo[q] /\ job'[q] = job[q]
      BY <1>3, <2>1
    <3>3. Considered(q)' = Considered(q)
      BY <3>1, <3>2 DEF Considered
    <3>4. /\ Len(todo[q]) <= Len(PlanOf(q))
          /\ \A k \in DOMAIN todo[q] : todo[q][k] = PlanOf(q)[Considered(q) + k]
          /\ pc[q] = "queued" /\ job[q].kind = "stage" => Considered(q) = 0
      BY <2>1, <3>2 DEF ProgressInv, PlanInv
    <3>5. QED
      BY <3>1, <3>2, <3>3, <3>4
  <2>2. PICK S : PlanOf(r)' \in Seq(S)
    BY HandlePlan
  <2>3. /\ Len(todo'[r]) <= Len(PlanOf(r)')
        /\ \A k \in DOMAIN todo'[r] : todo'[r][k] = PlanOf(r)'[Considered(r)' + k]
        /\ job'[r].kind = "stage" => Considered(r)' = 0
    <3> DEFINE C == Considered(r)'
    <3>1. PICK P \in Seq(S) : P = PlanOf(r)'
      BY <2>2
    <3>2. Considered(r)' = Len(P) - Len(t)
      BY <1>4, <3>1 DEF Considered
    <3>3. Len(P) \in Nat
      BY <3>1
    <3>4. CASE job'[r].kind = "action" /\ todo'[r] = <<>>
      BY <1>4, <3>1, <3>2, <3>3, <3>4
    <3>5. CASE todo'[r] = PlanOf(r)'
      <4>1. t = P /\ Considered(r)' = 0
        BY <1>4, <3>1, <3>2, <3>3, <3>5
      <4>2. \A k \in DOMAIN P : P[k] = P[0 + k]
        OBVIOUS
      <4>3. QED
        BY <1>4, <3>1, <3>3, <4>1, <4>2
    <3>6. QED
      BY HandlePlan, <3>4, <3>5
  <2>4. QED
    BY <2>1, <2>3 DEF PlanInv
<1>7. PassedInv'
  <2>1. ~Working(r)'
    BY <1>4 DEF Working
  <2>2. \A q \in Requests : q # r => Before(job[q].name)' = Before(job[q].name)
    BY <1>3, <1>5 DEF Before
  <2>3. ASSUME NEW q \in Requests, q # r,
               Working(q)', job'[q].kind = "stage", job'[q].prereq,
               NEW i \in DOMAIN Before(job[q].name), i <= Considered(q)'
        PROVE  \/ outcome'[Before(job[q].name)[i]] = "PASSED"
               \/ pc'[q] = "returned" /\ result'[q] = "FAILED" /\ IsPrerequisite(q)'
    <3>1. PlanOf(q)' = PlanOf(q)
      BY <1>3, <1>5, <2>3, SamePlan
    <3>2. Considered(q)' = Considered(q) /\ Working(q)
          /\ (IsPrerequisite(q)' <=> IsPrerequisite(q))
      BY <1>3, <2>3, <3>1 DEF Considered, Working, IsPrerequisite
    <3>3. QED
      BY <1>3, <1>5, <2>3, <3>2 DEF ProgressInv, PassedInv
  <2>4. QED
    BY <2>1, <2>2, <2>3 DEF PassedInv
<1>8. RanInv'
  <2>1. ASSUME NEW q \in Requests, q # r
        PROVE  /\ pc'[q] = "idle" => ran'[q] = <<>> /\ job'[q].kind = "none"
               /\ job'[q].kind = "all" =>
                    /\ Len(ran'[q]) + Len(todo'[q])
                         = Len(order') + (IF pc'[q] = "returned" THEN 1 ELSE 0)
                    /\ \A k \in DOMAIN ran'[q] : ran'[q][k] = order'[k]
                    /\ pc'[q] = "done" => todo'[q] = <<>>
    BY <1>3, <1>5, <2>1 DEF ProgressInv, RanInv
  <2>2. ran'[r] = <<>>
    BY <1>2, <1>5 DEF ProgressInv, RanInv
  <2>3. job'[r].kind = "all" => todo'[r] = order
    BY HandlePlan
  <2>4. order \in Seq(Registrable)
    BY DEF IInv, TypeOK
  <2>5. job'[r].kind = "all" =>
           /\ Len(ran'[r]) + Len(todo'[r])
                = Len(order') + (IF pc'[r] = "returned" THEN 1 ELSE 0)
           /\ \A k \in DOMAIN ran'[r] : ran'[r][k] = order'[k]
    BY <1>4, <1>5, <2>2, <2>3, <2>4
  <2>6. QED
    BY <1>4, <2>1, <2>5 DEF RanInv
<1>9. QED
  BY <1>6, <1>7, <1>8 DEF ProgressInv

LEMMA InitProgress == Init => ProgressInv
<1> SUFFICES ASSUME Init PROVE ProgressInv
  OBVIOUS
<1> USE DEF Init
<1>1. PlanInv
  BY DEF PlanInv
<1>2. PassedInv
  BY DEF PassedInv, Working
<1>3. RanInv
  BY DEF RanInv, NoJob
<1>4. QED
  BY <1>1, <1>2, <1>3 DEF ProgressInv

LEMMA NextProgress ==
  IInv /\ StatusTellsOutcome /\ ProgressInv /\ [Next]_vars => ProgressInv'
<1> SUFFICES ASSUME IInv, StatusTellsOutcome, ProgressInv, [Next]_vars
             PROVE  ProgressInv'
  OBVIOUS
<1>1. ASSUME NEW r \in Requests, Handle(r) PROVE ProgressInv'
  BY <1>1, HandleProgress
<1>2. ASSUME NEW r \in Requests,
             Take(r) \/ GoesOn(r) \/ RecordAction(r) \/ FunctionEnds(r)
      PROVE  ProgressInv'
  BY <1>2, PlanStep, PassedStep, RanStep DEF ProgressInv
<1>3. CASE UNCHANGED vars
  <2> USE <1>3 DEF vars, jobVars, runnerVars, history
  <2>1. /\ order' = order /\ job' = job /\ todo' = todo /\ pc' = pc /\ result' = result
        /\ outcome' = outcome /\ ran' = ran
    OBVIOUS
  <2>2. \A r \in Requests :
          /\ PlanOf(r)' = PlanOf(r) /\ Before(job[r].name)' = Before(job[r].name)
    BY <2>1, SamePlan DEF Before
  <2>3. \A r \in Requests : Considered(r)' = Considered(r)
    BY <2>1, <2>2 DEF Considered
  <2>4. PlanInv'
    BY <2>1, <2>2, <2>3 DEF ProgressInv, PlanInv
  <2>5. PassedInv'
    <3>1. \A r \in Requests :
            (Working(r)' <=> Working(r)) /\ (IsPrerequisite(r)' <=> IsPrerequisite(r))
      BY <2>1 DEF Working, IsPrerequisite
    <3>2. QED
      BY <2>1, <2>2, <2>3, <3>1 DEF ProgressInv, PassedInv
  <2>6. RanInv'
    BY <2>1 DEF ProgressInv, RanInv
  <2>7. QED
    BY <2>4, <2>5, <2>6 DEF ProgressInv
<1>4. QED
  BY <1>1, <1>2, <1>3 DEF Next

\* The inductive invariant: one goroutine works, the Tester executes for it, and it
\* has a stage to run.
THEOREM JobsCorrect == Spec => [](IInv /\ StatusTellsOutcome)
BY InitInv, NextInv, PTL DEF Spec

\* Every variable of the server's jobs has its type.
THEOREM TypeCorrect == Spec => []TypeOK
<1>1. IInv => TypeOK
  BY DEF IInv
<1>2. QED
  BY <1>1, JobsCorrect, PTL

\* However requests queue, fail and die, the statuses clients read are the results
\* of the last runs.
THEOREM StatusesTell == Spec => []StatusTellsOutcome
BY JobsCorrect, PTL

\* A manual action overlaps no stage, no dry run and no other action.
THEOREM ActionsRunAlone == Spec => []ManualActionsRunAlone
<1>1. IInv => ManualActionsRunAlone
  <2> SUFFICES ASSUME IInv, NEW r \in Requests, pc[r] = "act"
               PROVE  active = NoRequest /\ \A q \in Requests \ {r} : pc[q] # "act"
    BY DEF ManualActionsRunAlone
  <2>1. \A q \in Requests : Working(q) => q = r
    BY OneWorks DEF Working
  <2>2. active # NoRequest => active.by \in Requests
    BY DEF IInv, TypeOK, Runner!Execution
  <2>3. QED
    BY <2>1, <2>2 DEF IInv, JobsInv, ActiveInv, Working
<1>2. QED
  BY <1>1, JobsCorrect, PTL

\* What is left of a request is the end of its plan, the prerequisites it is past have
\* passed, and what a run-all has run is the beginning of the registered stages.
THEOREM ProgressCorrect == Spec => [](IInv /\ ProgressInv)
<1>1. Init => IInv /\ StatusTellsOutcome /\ ProgressInv
  BY InitInv, InitProgress
<1>2. IInv /\ StatusTellsOutcome /\ ProgressInv /\ [Next]_vars
        => (IInv /\ StatusTellsOutcome /\ ProgressInv)'
  BY NextInv, NextProgress
<1>3. QED
  BY <1>1, <1>2, PTL DEF Spec

\* A stage that is run with its prerequisites starts when all of them have passed,
\* whatever other requests ran in between.
THEOREM PrerequisitesHold == Spec => []PrerequisitesPassed
<1>1. IInv /\ ProgressInv => PrerequisitesPassed
  <2> SUFFICES ASSUME IInv, ProgressInv, NEW r \in Requests, pc[r] = "exec",
                      job[r].kind = "stage", job[r].prereq, Len(todo[r]) = 1,
                      NEW i \in DOMAIN Before(job[r].name)
               PROVE  outcome[Before(job[r].name)[i]] = "PASSED"
    BY DEF PrerequisitesPassed
  <2>1. order \in Seq(Registrable) /\ job[r].prereq = TRUE
    BY DEF IInv, TypeOK, Job
  <2>2. PICK name : name = job[r].name
    OBVIOUS
  <2>3. PlanOf(r) = Plan(name, TRUE)
    <3>1. PlanOf(r) = Plan(job[r].name, job[r].prereq)
      BY DEF PlanOf
    <3>2. QED
      BY <2>1, <2>2, <3>1
  <2>4. /\ Len(Plan(name, TRUE)) = Len(Before(name)) + 1
        /\ Before(name) \in Seq(Names)
    <3>1. Len(Plan(name, TRUE)) = (IF TRUE THEN Len(Before(name)) ELSE 0) + 1
      BY <2>1, PlanFacts, Zenon
    <3>2. QED
      BY <2>1, <3>1, BeforeFacts
  <2>5. i \in 1 .. Len(Before(name)) /\ Len(Before(name)) \in Nat
    BY <2>2, <2>4
  <2>6. Considered(r) = Len(Before(name))
    <3>1. Considered(r) = Len(Plan(name, TRUE)) - 1
      BY <2>3 DEF Considered
    <3>2. \A m \in Nat : (m + 1) - 1 = m
      OBVIOUS
    <3>3. QED
      BY <2>4, <2>5, <3>1, <3>2
  <2>7. i <= Considered(r) /\ Working(r)
    BY <2>5, <2>6 DEF Working
  <2>8. QED
    BY <2>7 DEF ProgressInv, PassedInv
<1>2. QED
  BY <1>1, ProgressCorrect, PTL

\* A run-all that is over has run every stage once, in the registered order.
THEOREM RunAllIsComplete == Spec => []RunAllRunsEverything
<1>1. IInv /\ ProgressInv => RunAllRunsEverything
  <2> SUFFICES ASSUME IInv, ProgressInv, NEW r \in Requests, pc[r] = "done",
                      job[r].kind = "all"
               PROVE  ran[r] = order
    BY DEF RunAllRunsEverything
  <2>1. ran[r] \in Seq(Names) /\ order \in Seq(Registrable)
    BY DEF IInv, TypeOK
  <2>2. /\ Len(ran[r]) + Len(todo[r]) = Len(order) + 0 /\ todo[r] = <<>>
        /\ \A k \in DOMAIN ran[r] : ran[r][k] = order[k]
    BY DEF ProgressInv, RanInv
  <2>3. Len(ran[r]) = Len(order)
    BY <2>1, <2>2
  <2>4. QED
    BY <2>1, <2>2, <2>3
<1>2. QED
  BY <1>1, ProgressCorrect, PTL
-----------------------------------------------------------------------------
(***************************************************************************)
(* The event stream, for any number of connections, statuses, logs and     *)
(* fetches, and any capacity.                                              *)
(***************************************************************************)

ServerMoves == \/ SetStatus \/ BroadcastStatus \/ OnLog \/ BroadcastLog \/ OnActions
               \/ Unregister \/ CloseAll \/ Shutdown
PageMoves(c) ==
  \/ Connect(c) \/ Register(c) \/ Forward(c) \/ EndStream(c) \/ BeginSnapshot(c)
  \/ Fetch(c) \/ Disconnect(c)
SnapMoves(x) == ReadStatus(x) \/ ReadLogs(x) \/ Deliver(x)

LEMMA NextForm ==
  [StreamNext]_streamVars => \/ ServerMoves \/ UNCHANGED streamVars
                 \/ \E c \in Clients : PageMoves(c)
                 \/ \E x \in Snaps : SnapMoves(x)
BY DEF StreamNext, Writes, Sends, Stops, Streams, Snapshots, ServerMoves, PageMoves, SnapMoves

\* Appending to a sequence, and taking its head.
LEMMA AppendFacts ==
  ASSUME NEW S, NEW s \in Seq(S), NEW e \in S
  PROVE  /\ Append(s, e) \in Seq(S) /\ Len(Append(s, e)) = Len(s) + 1
         /\ DOMAIN Append(s, e) = (DOMAIN s) \cup {Len(s) + 1} /\ Append(s, e)[Len(s) + 1] = e
         /\ \A i \in DOMAIN s : Append(s, e)[i] = s[i] /\ i <= Len(s) /\ i \in Nat
         /\ Len(s) \in Nat
OBVIOUS

LEMMA TailFacts ==
  ASSUME NEW S, NEW s \in Seq(S), s # <<>>
  PROVE  /\ Tail(s) \in Seq(S) /\ Len(Tail(s)) = Len(s) - 1 /\ Len(s) \in Nat
         /\ Head(s) = s[1] /\ Head(s) \in S /\ 1 \in DOMAIN s
         /\ \A i \in DOMAIN Tail(s) : i + 1 \in DOMAIN s /\ Tail(s)[i] = s[i + 1] /\ i \in Nat
         /\ \A i \in DOMAIN s : i # 1 => i - 1 \in DOMAIN Tail(s)
         /\ \A i \in DOMAIN s : i \in Nat /\ i >= 1
OBVIOUS

LEMMA FirstLogsFacts ==
  ASSUME NEW n \in Nat
  PROVE  FirstLogs(n) \in Seq(Nat) /\ DOMAIN FirstLogs(n) = 1 .. n
         /\ \A i \in 1 .. n : FirstLogs(n)[i] = i
<1>1. \A i \in 1 .. n : i \in Nat
  OBVIOUS
<1>2. FirstLogs(n) \in [1 .. n -> Nat]
  BY <1>1 DEF FirstLogs
<1>3. QED
  BY <1>2 DEF FirstLogs

LEMMA OwnSnap == \A c \in Clients : <<c, 0>> \in Snaps /\ \A k \in 0 .. MaxFetches : <<c, k>> \in Snaps
BY StreamAssumption DEF Snaps

\* What a broadcast does to the channel of a connection.
Keeps(c) == chan'[c] = chan[c]
Gets(c, e) == /\ c \in clients /\ HasRoom(c)
              /\ chan'[c] = Append(chan[c], e)

LEMMA BroadcastForm ==
  ASSUME StreamTypeOK, NEW e \in Event, Broadcast(e)
  PROVE  /\ chan' \in [Clients -> Seq(Event)] /\ \A c \in Clients : Len(chan'[c]) <= Capacity
         /\ lost' \in [Clients -> SUBSET {"stage", "log", "refresh"}]
         /\ \A c \in Clients :
              \/ c \notin clients /\ Keeps(c) /\ lost'[c] = lost[c]
              \/ c \in clients /\ Keeps(c) /\ lost'[c] = lost[c] \cup {e.type}
              \/ Gets(c, e) /\ lost'[c] = IF e.type = "stage" THEN lost[c] \ {"stage"} ELSE lost[c]
<1>1. chan \in [Clients -> Seq(Event)] /\ \A c \in Clients : Len(chan[c]) <= Capacity
      /\ lost \in [Clients -> SUBSET {"stage", "log", "refresh"}]
  BY DEF StreamTypeOK
<1>2. e.type \in {"stage", "log", "refresh"}
  BY DEF Event
<1>3. \A c \in Clients : /\ Append(chan[c], e) \in Seq(Event)
                         /\ Len(Append(chan[c], e)) = Len(chan[c]) + 1 /\ Len(chan[c]) \in Nat
  BY <1>1, AppendFacts
<1>4. \A c \in Clients : chan'[c] = IF c \in clients /\ HasRoom(c) THEN Append(chan[c], e) ELSE chan[c]
  BY DEF Broadcast
<1>5. chan' \in [Clients -> Seq(Event)]
  BY <1>1, <1>3 DEF Broadcast
<1>6. \A c \in Clients : Len(chan'[c]) <= Capacity
  <2> SUFFICES ASSUME NEW c \in Clients PROVE Len(chan'[c]) <= Capacity
    OBVIOUS
  <2> DEFINE n == Len(chan[c])
  <2>1. n \in Nat /\ n <= Capacity /\ Capacity \in Nat /\ Len(Append(chan[c], e)) = n + 1
    BY <1>1, <1>3, StreamAssumption
  <2>2. (chan'[c] = Append(chan[c], e) /\ n < Capacity) \/ chan'[c] = chan[c]
    BY <1>4 DEF HasRoom
  <2>3. (Len(chan'[c]) = n + 1 /\ n < Capacity) \/ Len(chan'[c]) = n
    BY <2>1, <2>2, Zenon
  <2> HIDE DEF n
  <2>4. QED
    BY <2>1, <2>3
<1> DEFINE L(c) == IF c \notin clients THEN lost[c]
                   ELSE IF ~HasRoom(c) THEN lost[c] \cup {e.type}
                   ELSE IF e.type = "stage" THEN lost[c] \ {"stage"} ELSE lost[c]
<1>7. lost' = [c \in Clients |-> L(c)] /\ \A c \in Clients : L(c) \in SUBSET {"stage", "log", "refresh"}
  <2>1. lost' = [c \in Clients |-> L(c)]
    BY DEF Broadcast
  <2>2. QED
    BY <1>1, <1>2, <2>1
<1>8. lost' \in [Clients -> SUBSET {"stage", "log", "refresh"}] /\ \A c \in Clients : lost'[c] = L(c)
  <2> HIDE DEF L
  <2>1. QED
    BY <1>7
<1>9. QED
  BY <1>4, <1>5, <1>6, <1>8 DEF Keeps, Gets

-----------------------------------------------------------------------------
(***************************************************************************)
(* Types.                                                                  *)
(***************************************************************************)
SnapType == [at : {"none", "begin", "status", "ready"}, status : Nat, logs : Nat]

LEMMA BeginForm ==
  ASSUME snap \in [Snaps -> SnapType], NEW c \in Clients, NEW k \in 0 .. MaxFetches,
         snap' = [snap EXCEPT ![<<c, k>>].at = "begin"]
  PROVE  /\ snap' \in [Snaps -> SnapType]
         /\ \A j \in 0 .. MaxFetches : /\ snap'[<<c, j>>].logs = snap[<<c, j>>].logs
                                       /\ j # k => snap'[<<c, j>>] = snap[<<c, j>>]
         /\ snap'[<<c, k>>].at = "begin"
<1>1. PICK x \in Snaps : x = <<c, k>>
  BY OwnSnap
<1>2. snap' = [snap EXCEPT ![x].at = "begin"]
  BY <1>1
<1> DEFINE b == [snap[x] EXCEPT !.at = "begin"]
<1>3. b \in SnapType /\ b.logs = snap[x].logs /\ b.at = "begin"
  BY DEF SnapType
<1>4. snap' = [snap EXCEPT ![x] = b]
  BY <1>2
<1> HIDE DEF b
<1>5. snap' \in [Snaps -> SnapType] /\ snap'[x] = b /\ \A y \in Snaps : y # x => snap'[y] = snap[y]
  BY <1>3, <1>4
<1>6. \A j \in 0 .. MaxFetches : j # k => <<c, j>> # x
  BY <1>1
<1>7. QED
  BY <1>1, <1>3, <1>5, <1>6, OwnSnap

LEMMA PagesType ==
  ASSUME StreamTypeOK, NEW c \in Clients, PageMoves(c)
  PROVE  StreamTypeOK' /\ UNCHANGED <<serverVars, stop, fetchers, lost>>
<1>0. <<c, 0>> \in Snaps /\ chan[c] \in Seq(Event) /\ closes[c] \in Nat
  BY OwnSnap DEF StreamTypeOK
<1>1. CASE Connect(c)
  BY <1>1 DEF Connect, StreamTypeOK, serverVars, pageVars
<1>2. CASE Register(c)
  BY <1>2 DEF Register, StreamTypeOK, serverVars, pageVars
<1>3. CASE BeginSnapshot(c)
  <2>1. snap \in [Snaps -> SnapType] /\ 0 \in 0 .. MaxFetches
    BY StreamAssumption DEF StreamTypeOK, SnapType
  <2>2. snap' \in [Snaps -> SnapType]
    BY <1>3, <2>1, BeginForm DEF BeginSnapshot
  <2>3. QED
    BY <1>0, <1>3, <2>2 DEF BeginSnapshot, StreamTypeOK, SnapType, serverVars, pageVars
<1>4. CASE Fetch(c)
  <2>1. PICK k \in 1 .. MaxFetches : snap' = [snap EXCEPT ![<<c, k>>].at = "begin"]
    BY <1>4, Zenon DEF Fetch
  <2>2. snap' \in [Snaps -> SnapType]
    <3>1. snap \in [Snaps -> SnapType] /\ k \in 0 .. MaxFetches
      BY DEF StreamTypeOK, SnapType
    <3>2. QED
      BY <2>1, <3>1, BeginForm
  <2>3. QED
    BY <1>4, <2>2 DEF Fetch, StreamTypeOK, SnapType, serverVars, connVars
<1>5. CASE LeaveClients(c)
  BY <1>0, <1>5 DEF LeaveClients, StreamTypeOK, serverVars, pageVars
<1>6. CASE Forward(c)
  <2> DEFINE e == Head(chan[c])
  <2>1. e \in Event /\ Tail(chan[c]) \in Seq(Event) /\ Len(Tail(chan[c])) <= Capacity
    <3>1. Len(Tail(chan[c])) = Len(chan[c]) - 1 /\ Len(chan[c]) \in Nat /\ Len(chan[c]) <= Capacity
      BY <1>0, <1>6, TailFacts DEF Forward, StreamTypeOK
    <3>2. QED
      BY <1>0, <1>6, <3>1, TailFacts, StreamAssumption DEF Forward
  <2>2. chan' = [chan EXCEPT ![c] = Tail(chan[c])]
    BY <1>6 DEF Forward
  <2>3. chan' \in [Clients -> Seq(Event)] /\ \A d \in Clients : Len(chan'[d]) <= Capacity
    BY <2>1, <2>2 DEF StreamTypeOK
  <2>4. view' \in [Clients -> [status : Nat, logs : Seq(Nat)]]
    <3>1. e.n \in Nat /\ view[c].logs \in Seq(Nat) /\ view \in [Clients -> [status : Nat, logs : Seq(Nat)]]
      BY <2>1 DEF Event, StreamTypeOK
    <3>2. Append(view[c].logs, e.n) \in Seq(Nat)
      BY <3>1, AppendFacts
    <3>3. \/ view' = [view EXCEPT ![c].status = e.n]
          \/ view' = [view EXCEPT ![c].logs = Append(view[c].logs, e.n)]
          \/ view' = view
      BY <1>6 DEF Forward
    <3> HIDE DEF e
    <3>4. QED
      BY <3>1, <3>2, <3>3
  <2>5. due' \in [Clients -> BOOLEAN]
    BY <1>6 DEF Forward, StreamTypeOK
  <2>6. QED
    BY <1>6, <2>3, <2>4, <2>5 DEF Forward, StreamTypeOK, serverVars
<1>7. QED
  BY <1>1, <1>2, <1>3, <1>4, <1>5, <1>6 DEF PageMoves, EndStream, Disconnect

LEMMA SnapsType ==
  ASSUME StreamTypeOK, NEW x \in Snaps, SnapMoves(x)
  PROVE  StreamTypeOK' /\ UNCHANGED <<serverVars, stop, fetchers, lost, clients, chan, closes, due>>
<1>1. snap \in [Snaps -> SnapType] /\ snap[x] \in SnapType /\ stageStatus \in Nat /\ logs \in Nat
  BY DEF StreamTypeOK, SnapType
<1>2. CASE ReadStatus(x)
  <2>1. snap' \in [Snaps -> SnapType]
    BY <1>1, <1>2 DEF ReadStatus, SnapType
  <2>2. QED
    BY <1>2, <2>1 DEF ReadStatus, StreamTypeOK, SnapType, serverVars, connVars, pageVars
<1>3. CASE ReadLogs(x)
  <2>1. snap' \in [Snaps -> SnapType]
    BY <1>1, <1>3 DEF ReadLogs, SnapType
  <2>2. QED
    BY <1>3, <2>1 DEF ReadLogs, StreamTypeOK, SnapType, serverVars, connVars, pageVars
<1>4. CASE Deliver(x)
  <2>1. snap' \in [Snaps -> SnapType]
    BY <1>1, <1>4 DEF Deliver, SnapType, NoSnap
  <2>2. snap[x].status \in Nat /\ FirstLogs(snap[x].logs) \in Seq(Nat) /\ x[1] \in Clients
    BY <1>1, FirstLogsFacts DEF SnapType, Snaps
  <2>3. view' \in [Clients -> [status : Nat, logs : Seq(Nat)]]
    BY <1>4, <2>2 DEF Deliver, StreamTypeOK
  <2>4. handler' \in [Clients -> {"none", "connected", "registered", "snapshot", "stream", "gone"}]
    BY <1>4, <2>2 DEF Deliver, StreamTypeOK
  <2>5. QED
    BY <1>4, <2>1, <2>3, <2>4 DEF Deliver, StreamTypeOK, SnapType, serverVars
<1>5. QED
  BY <1>2, <1>3, <1>4 DEF SnapMoves

LEMMA ServerType ==
  ASSUME StreamTypeOK, ServerMoves
  PROVE  StreamTypeOK' /\ UNCHANGED <<snap, handler, fetchers, view, due>>
<1>1. CASE SetStatus
  BY <1>1 DEF SetStatus, StreamTypeOK, connVars, pageVars
<1>2. CASE OnLog
  BY <1>2 DEF OnLog, StreamTypeOK, connVars, pageVars
<1>3. CASE Unregister \/ Shutdown
  BY <1>3 DEF Unregister, Shutdown, StreamTypeOK, serverVars, connVars, pageVars
<1>4. CASE CloseAll
  <2>1. closes' \in [Clients -> Nat]
    BY <1>4 DEF CloseAll, StreamTypeOK
  <2>2. QED
    BY <1>4, <2>1 DEF CloseAll, StreamTypeOK, serverVars, pageVars
<1>5. CASE BroadcastStatus
  <2>1. [type |-> "stage", n |-> stageStatus] \in Event
    BY DEF Event, StreamTypeOK
  <2>2. QED
    BY <1>5, <2>1, BroadcastForm DEF BroadcastStatus, StreamTypeOK, pageVars
<1>6. CASE BroadcastLog
  <2>1. [type |-> "log", n |-> logs] \in Event
    BY DEF Event, StreamTypeOK
  <2>2. QED
    BY <1>6, <2>1, BroadcastForm DEF BroadcastLog, StreamTypeOK, pageVars
<1>7. CASE OnActions
  <2>1. [type |-> "refresh", n |-> 0] \in Event
    BY DEF Event
  <2>2. QED
    BY <1>7, <2>1, BroadcastForm DEF OnActions, StreamTypeOK, pageVars
<1>8. QED
  BY <1>1, <1>2, <1>3, <1>4, <1>5, <1>6, <1>7 DEF ServerMoves

-----------------------------------------------------------------------------
(***************************************************************************)
(* A connection that a step leaves alone.                                  *)
(***************************************************************************)
Same(c) ==
  /\ chan'[c] = chan[c] /\ closes'[c] = closes[c] /\ handler'[c] = handler[c]
  /\ view'[c] = view[c] /\ due'[c] = due[c] /\ lost'[c] = lost[c]
  /\ c \in clients' <=> c \in clients
  /\ \A k \in 0 .. MaxFetches : snap'[<<c, k>>] = snap[<<c, k>>]

LEMMA SameKept ==
  ASSUME NEW c \in Clients, Same(c), UNCHANGED <<stageStatus, logs, sending, fetchers>>, ConnectionInv(c)
  PROVE  ConnectionInv(c)'
<1>1. 0 \in 0 .. MaxFetches /\ \A k \in 1 .. MaxFetches : k \in 0 .. MaxFetches
  BY StreamAssumption
<1>2. Own(c)' = Own(c)
  BY <1>1 DEF Same, Own
<1>3. Places(c)'
  BY <1>1, <1>2 DEF ConnectionInv, Places, Same
<1>4. LogsExist(c)'
  BY DEF ConnectionInv, LogsExist, Same, LogAt
<1>5. StatusOnItsWay(c)'
  BY <1>2 DEF ConnectionInv, StatusOnItsWay, Same, StageAt, HasStatus
<1>6. LogsOnTheirWay(c)'
  BY <1>2 DEF ConnectionInv, LogsOnTheirWay, Same, LogAt, HasLog
<1>7. QED
  BY <1>3, <1>4, <1>5, <1>6 DEF ConnectionInv

LEMMA OthersSame ==
  ASSUME StreamTypeOK, NEW c \in Clients, PageMoves(c), NEW d \in Clients, d # c
  PROVE  Same(d)
<1>1. \A j, k \in 0 .. MaxFetches : <<d, k>> # <<c, j>> /\ <<d, k>> \in Snaps
  BY OwnSnap
<1>2. 0 \in 0 .. MaxFetches /\ \A k \in 1 .. MaxFetches : k \in 0 .. MaxFetches
  BY StreamAssumption
<1>3. CASE Connect(c) \/ Register(c)
  BY <1>3 DEF Connect, Register, Same, StreamTypeOK, pageVars
<1>4. CASE LeaveClients(c)
  BY <1>4 DEF LeaveClients, Same, StreamTypeOK, pageVars
<1>5. CASE BeginSnapshot(c)
  BY <1>1, <1>2, <1>5 DEF BeginSnapshot, Same, StreamTypeOK, pageVars
<1>6. CASE Fetch(c)
  BY <1>1, <1>2, <1>6 DEF Fetch, Same, StreamTypeOK, connVars
<1>7. CASE Forward(c)
  BY <1>7 DEF Forward, Same, StreamTypeOK
<1>8. QED
  BY <1>3, <1>4, <1>5, <1>6, <1>7 DEF PageMoves, EndStream, Disconnect

LEMMA OtherSnapsSame ==
  ASSUME StreamTypeOK, NEW x \in Snaps, SnapMoves(x), NEW d \in Clients, d # x[1]
  PROVE  Same(d)
<1>1. \A k \in 0 .. MaxFetches : <<d, k>> # x /\ <<d, k>> \in Snaps
  <2>1. \A k \in 0 .. MaxFetches : <<d, k>>[1] = d
    OBVIOUS
  <2>2. QED
    BY <2>1, OwnSnap
<1>2. \A k \in 0 .. MaxFetches : snap'[<<d, k>>] = snap[<<d, k>>]
  BY <1>1 DEF SnapMoves, ReadStatus, ReadLogs, Deliver, StreamTypeOK
<1>3. chan' = chan /\ closes' = closes /\ lost' = lost /\ clients' = clients /\ due' = due
  BY SnapsType
<1>4. handler'[d] = handler[d] /\ view'[d] = view[d]
  BY DEF SnapMoves, ReadStatus, ReadLogs, Deliver, StreamTypeOK, connVars, pageVars
<1>5. QED
  BY <1>2, <1>3, <1>4 DEF Same

-----------------------------------------------------------------------------
(***************************************************************************)
(* What the server does to a connection.                                   *)
(***************************************************************************)
LEMMA ServerKeeps ==
  ASSUME StreamInv, ServerMoves, NEW c \in Clients
  PROVE  ConnectionInv(c)'
<1>0. StreamTypeOK /\ StreamTypeOK' /\ ConnectionInv(c) /\ UNCHANGED <<snap, handler, fetchers, view, due>>
  BY ServerType DEF StreamInv
<1>1. Own(c)' = Own(c) /\ stageStatus \in Nat /\ logs \in Nat /\ chan[c] \in Seq(Event)
  BY <1>0 DEF Own, StreamTypeOK
<1>2. CASE Unregister \/ Shutdown
  <2>1. Same(c) /\ UNCHANGED <<stageStatus, logs, sending, fetchers>>
    BY <1>0, <1>2 DEF Unregister, Shutdown, Same, serverVars, connVars, pageVars
  <2>2. QED
    BY <1>0, <2>1, SameKept
<1>3. CASE SetStatus
  <2>1. UNCHANGED <<logs, chan, closes, clients, lost>> /\ sending' = sending \cup {"stage"}
    BY <1>3 DEF SetStatus, connVars
  <2>2. Places(c)' /\ LogsExist(c)'
    BY <1>0, <1>1, <2>1 DEF ConnectionInv, Places, LogsExist, LogAt
  <2>3. StatusOnItsWay(c)'
    BY <2>1 DEF StatusOnItsWay
  <2>4. LogsOnTheirWay(c)'
    BY <1>0, <1>1, <2>1 DEF ConnectionInv, LogsOnTheirWay, LogAt, HasLog
  <2>5. QED
    BY <2>2, <2>3, <2>4 DEF ConnectionInv
<1>4. CASE OnLog
  <2>1. UNCHANGED <<stageStatus, chan, closes, clients, lost>> /\ sending' = sending \cup {"log"}
        /\ logs' = logs + 1 /\ "log" \notin sending
    BY <1>4 DEF OnLog, connVars
  <2>2. Places(c)'
    BY <1>0, <1>1, <2>1 DEF ConnectionInv, Places
  <2>3. LogsExist(c)'
    <3>1. 1 .. logs \subseteq 1 .. logs'
      BY <1>1, <2>1
    <3>2. \A k \in 0 .. MaxFetches : snap[<<c, k>>].logs \in Nat
      BY <1>0, OwnSnap DEF StreamTypeOK
    <3>3. \A k \in 0 .. MaxFetches : snap[<<c, k>>].logs <= logs'
      BY <1>0, <1>1, <2>1, <3>2 DEF ConnectionInv, LogsExist
    <3>4. QED
      BY <1>0, <2>1, <3>1, <3>3 DEF ConnectionInv, LogsExist, LogAt
  <2>4. StatusOnItsWay(c)'
    BY <1>0, <1>1, <2>1 DEF ConnectionInv, StatusOnItsWay, StageAt, HasStatus
  <2>5. LogsOnTheirWay(c)'
    <3>1. \A l \in 1 .. logs' : l \in 1 .. logs \/ l = logs'
      BY <1>1, <2>1
    <3>2. QED
      BY <1>0, <1>1, <2>1, <3>1 DEF ConnectionInv, LogsOnTheirWay, LogAt, HasLog
  <2>6. QED
    BY <2>2, <2>3, <2>4, <2>5 DEF ConnectionInv
<1>5. CASE CloseAll
  <2>1. UNCHANGED <<stageStatus, logs, sending, chan, lost>> /\ clients' = {}
        /\ closes'[c] = IF c \in clients THEN closes[c] + 1 ELSE closes[c]
    BY <1>5 DEF CloseAll, serverVars
  <2>2. closes[c] \in Nat
    BY <1>0 DEF StreamTypeOK
  <2>3. Places(c)'
    BY <1>0, <1>1, <2>1, <2>2 DEF ConnectionInv, Places
  <2>4. LogsExist(c)'
    BY <1>0, <2>1 DEF ConnectionInv, LogsExist, LogAt
  <2>5. StatusOnItsWay(c)' /\ LogsOnTheirWay(c)'
    BY <2>1 DEF StatusOnItsWay, LogsOnTheirWay
  <2>6. QED
    BY <2>3, <2>4, <2>5 DEF ConnectionInv
<1>6. ASSUME NEW e \in Event, Broadcast(e), UNCHANGED <<stageStatus, logs, closes, clients>>,
             e.type = "stage" => e.n = stageStatus,
             e.type = "log" => e.n = logs /\ logs >= 1,
             "stage" \in sending /\ "stage" \notin sending' => e.type = "stage",
             "log" \in sending /\ "log" \notin sending' => e.type = "log",
             sending' \subseteq sending
      PROVE  ConnectionInv(c)'
  <2>1. \/ c \notin clients /\ Keeps(c) /\ lost'[c] = lost[c]
        \/ c \in clients /\ Keeps(c) /\ lost'[c] = lost[c] \cup {e.type}
        \/ Gets(c, e) /\ lost'[c] = IF e.type = "stage" THEN lost[c] \ {"stage"} ELSE lost[c]
    BY <1>0, <1>6, BroadcastForm
  <2>2. e.type \in {"stage", "log", "refresh"} /\ e.n \in Nat
    BY <1>6 DEF Event
  <2>3. CASE c \notin clients
    <3>1. Places(c)' /\ LogsExist(c)'
      BY <1>0, <1>1, <1>6, <2>1, <2>3 DEF ConnectionInv, Places, LogsExist, LogAt, Keeps, Gets
    <3>2. StatusOnItsWay(c)' /\ LogsOnTheirWay(c)'
      BY <1>6, <2>3 DEF StatusOnItsWay, LogsOnTheirWay
    <3>3. QED
      BY <3>1, <3>2 DEF ConnectionInv
  <2>4. CASE Keeps(c) /\ c \in clients /\ lost'[c] = lost[c] \cup {e.type}
    <3>1. Places(c)' /\ LogsExist(c)'
      BY <1>0, <1>1, <1>6, <2>4 DEF ConnectionInv, Places, LogsExist, LogAt, Keeps
    <3>2. StatusOnItsWay(c)'
      BY <1>0, <1>1, <1>6, <2>4 DEF ConnectionInv, StatusOnItsWay, StageAt, HasStatus, Keeps
    <3>3. LogsOnTheirWay(c)'
      BY <1>0, <1>1, <1>6, <2>4 DEF ConnectionInv, LogsOnTheirWay, LogAt, HasLog, Keeps
    <3>4. QED
      BY <3>1, <3>2, <3>3 DEF ConnectionInv
  <2>5. CASE Gets(c, e) /\ lost'[c] = IF e.type = "stage" THEN lost[c] \ {"stage"} ELSE lost[c]
    <3>1. PICK n \in Nat : /\ DOMAIN chan'[c] = (DOMAIN chan[c]) \cup {n} /\ chan'[c][n] = e
                          /\ \A i \in DOMAIN chan[c] : chan'[c][i] = chan[c][i] /\ i <= n /\ i # n
      <4>1. /\ Len(chan[c]) + 1 \in Nat /\ DOMAIN chan'[c] = (DOMAIN chan[c]) \cup {Len(chan[c]) + 1}
            /\ chan'[c][Len(chan[c]) + 1] = e
            /\ \A i \in DOMAIN chan[c] : /\ chan'[c][i] = chan[c][i]
                                         /\ i <= Len(chan[c]) + 1 /\ i # Len(chan[c]) + 1
        BY <1>1, <2>5, AppendFacts DEF Gets
      <4>2. QED
        BY <4>1
    <3>2. \A i \in DOMAIN chan[c] : i <= n /\ i # n
      BY <3>1
    <3>3. n \in Nat /\ n <= n /\ c \in clients
      BY <2>5 DEF Gets
    <3>4. \A i \in DOMAIN chan[c] : chan'[c][i] = chan[c][i]
      BY <3>1
    <3>5. DOMAIN chan'[c] = (DOMAIN chan[c]) \cup {n} /\ chan'[c][n] = e
      BY <3>1
    <3>6. Places(c)'
      BY <1>0, <1>1, <1>6, <3>3 DEF ConnectionInv, Places
    <3>7. LogsExist(c)'
      <4>1. e.type = "log" => e.n \in 1 .. logs
        BY <1>1, <1>6
      <4>2. QED
        BY <1>0, <1>6, <3>4, <3>5, <4>1 DEF ConnectionInv, LogsExist, LogAt
    <3>8. StatusOnItsWay(c)'
      <4>1. CASE e.type = "stage"
        BY <1>6, <3>2, <3>3, <3>5, <4>1 DEF StatusOnItsWay, StageAt
      <4>2. CASE e.type # "stage"
        <5>1. ~StageAt(c, n)' /\ \A i \in DOMAIN chan[c] : StageAt(c, i)' <=> StageAt(c, i)
          BY <3>4, <3>5, <4>2 DEF StageAt
        <5>2. \A i : StageAt(c, i)' => i \in DOMAIN chan[c] /\ StageAt(c, i)
          BY <3>5, <5>1 DEF StageAt
        <5>3. HasStatus(c)' <=> HasStatus(c)
          BY <1>0, <1>1, <1>6 DEF HasStatus
        <5>4. (StatusOnItsWay(c)!1)' => StatusOnItsWay(c)!1
          BY <1>0, <1>6, <2>5, <4>2
        <5>5. StatusOnItsWay(c)!1 => StatusOnItsWay(c)!2
          BY <1>0 DEF ConnectionInv, StatusOnItsWay
        <5>6. StatusOnItsWay(c)!2 => (StatusOnItsWay(c)!2)'
          BY <1>6, <3>4, <3>5, <5>1, <5>2, <5>3
        <5>7. QED
          BY <5>4, <5>5, <5>6 DEF StatusOnItsWay
      <4>3. QED
        BY <4>1, <4>2
    <3>9. LogsOnTheirWay(c)'
      <4>1. \A l \in 1 .. logs : HasLog(c, l)' <=> HasLog(c, l)
        BY <1>0, <1>1 DEF HasLog
      <4>2. \A i \in DOMAIN chan[c] : LogAt(c, i)' <=> LogAt(c, i)
        BY <3>4, <3>5 DEF LogAt
      <4>3. e.type = "log" => LogAt(c, n)' /\ chan'[c][n].n = logs
        BY <1>6, <3>5 DEF LogAt
      <4>4. "log" \notin lost'[c] => "log" \notin lost[c]
        BY <2>5
      <4>5. ConnectionInv(c) /\ LogsOnTheirWay(c) /\ fetchers' = fetchers
        BY <1>0 DEF ConnectionInv
      <4>6. QED
        BY <1>6, <3>4, <3>5, <4>1, <4>2, <4>3, <4>4, <4>5 DEF LogsOnTheirWay
    <3>10. QED
      BY <3>6, <3>7, <3>8, <3>9 DEF ConnectionInv
  <2>6. QED
    BY <2>1, <2>3, <2>4, <2>5
<1>7. CASE BroadcastStatus
  <2>1. [type |-> "stage", n |-> stageStatus] \in Event
    BY <1>1 DEF Event
  <2>2. QED
    BY <1>6, <1>7, <2>1 DEF BroadcastStatus
<1>8. CASE BroadcastLog
  <2>1. [type |-> "log", n |-> logs] \in Event
    BY <1>1 DEF Event
  <2>2. logs >= 1
    BY <1>8 DEF StreamInv, BroadcastLog
  <2>3. QED
    BY <1>6, <1>8, <2>1, <2>2 DEF BroadcastLog
<1>9. CASE OnActions
  <2>1. [type |-> "refresh", n |-> 0] \in Event
    BY DEF Event
  <2>2. QED
    BY <1>6, <1>9, <2>1 DEF OnActions
<1>10. QED
  BY <1>2, <1>3, <1>4, <1>5, <1>7, <1>8, <1>9 DEF ServerMoves

-----------------------------------------------------------------------------
(***************************************************************************)
(* What its page and its handler do to a connection.                       *)
(***************************************************************************)
LEMMA OwnType ==
  ASSUME StreamTypeOK, NEW c \in Clients
  PROVE  /\ \A k \in 0 .. MaxFetches : snap[<<c, k>>] \in SnapType
         /\ 0 \in 0 .. MaxFetches /\ \A k \in 1 .. MaxFetches : k \in 0 .. MaxFetches /\ k # 0
         /\ chan[c] \in Seq(Event) /\ view[c] \in [status : Nat, logs : Seq(Nat)]
         /\ stageStatus \in Nat /\ logs \in Nat /\ closes[c] \in Nat
<1>1. \A k \in 0 .. MaxFetches : snap[<<c, k>>] \in SnapType
  BY OwnSnap DEF StreamTypeOK, SnapType
<1>2. 0 \in 0 .. MaxFetches /\ \A k \in 1 .. MaxFetches : k \in 0 .. MaxFetches /\ k # 0
  BY StreamAssumption
<1>3. QED
  BY <1>1, <1>2 DEF StreamTypeOK

LEMMA PageKeeps ==
  ASSUME StreamTypeOK, NEW c \in Clients, ConnectionInv(c), PageMoves(c), ~Forward(c)
  PROVE  ConnectionInv(c)'
<1>0. UNCHANGED <<serverVars, stop, fetchers, lost>>
  BY PagesType
<1>1. CASE Connect(c)
  <2>1. /\ handler[c] = "none" /\ handler'[c] = "connected"
        /\ UNCHANGED <<clients, chan, closes, snap, view, due>>
    BY <1>1 DEF Connect, StreamTypeOK, pageVars
  <2>2. Places(c)' /\ LogsExist(c)'
    BY <1>0, <2>1 DEF ConnectionInv, Places, LogsExist, LogAt, Own, serverVars
  <2>3. c \notin clients'
    BY <2>1 DEF ConnectionInv, Places
  <2>4. QED
    BY <2>2, <2>3 DEF ConnectionInv, StatusOnItsWay, LogsOnTheirWay
<1>2. CASE Register(c)
  <2>1. /\ handler[c] = "connected" /\ handler'[c] = "registered" /\ c \in clients'
        /\ UNCHANGED <<chan, closes, snap, view, due>>
    BY <1>2 DEF Register, StreamTypeOK, pageVars
  <2>2. closes[c] = 0 /\ chan[c] = <<>>
    BY <2>1 DEF ConnectionInv, Places
  <2>3. Places(c)' /\ LogsExist(c)'
    BY <1>0, <2>1, <2>2 DEF ConnectionInv, Places, LogsExist, LogAt, Own, serverVars
  <2>4. StatusOnItsWay(c)' /\ LogsOnTheirWay(c)'
    BY <2>1, <2>2 DEF StatusOnItsWay, LogsOnTheirWay, HasStatus, HasLog, StageAt
  <2>5. QED
    BY <2>3, <2>4 DEF ConnectionInv
<1>3. CASE BeginSnapshot(c)
  <2>1. /\ handler[c] = "registered" /\ handler'[c] = "snapshot"
        /\ UNCHANGED <<clients, chan, closes, view, due>>
    BY <1>3 DEF BeginSnapshot, StreamTypeOK, pageVars
  <2>2. snap \in [Snaps -> SnapType] /\ 0 \in 0 .. MaxFetches /\ \A k \in 1 .. MaxFetches : k \in 0 .. MaxFetches /\ k # 0
    BY OwnType DEF StreamTypeOK, SnapType
  <2>3. /\ Own(c)'.at = "begin" /\ \A k \in 0 .. MaxFetches : snap'[<<c, k>>].logs = snap[<<c, k>>].logs
        /\ \A k \in 1 .. MaxFetches : snap'[<<c, k>>] = snap[<<c, k>>]
    BY <1>3, <2>2, BeginForm DEF BeginSnapshot, Own
  <2>4. Places(c)'
    BY <1>0, <2>1, <2>3 DEF ConnectionInv, Places
  <2>5. LogsExist(c)'
    BY <1>0, <2>1, <2>3 DEF ConnectionInv, LogsExist, LogAt, serverVars
  <2>6. StatusOnItsWay(c)'
    BY <1>0, <2>1, <2>3 DEF ConnectionInv, StatusOnItsWay, StageAt, HasStatus, serverVars
  <2>7. LogsOnTheirWay(c)'
    BY <1>0, <2>1, <2>3 DEF ConnectionInv, LogsOnTheirWay, LogAt, HasLog, serverVars
  <2>8. QED
    BY <2>4, <2>5, <2>6, <2>7 DEF ConnectionInv
<1>4. CASE Fetch(c)
  <2>1. PICK k \in 1 .. MaxFetches : snap' = [snap EXCEPT ![<<c, k>>].at = "begin"]
    BY <1>4, Zenon DEF Fetch
  <2>2. due[c] /\ UNCHANGED <<clients, chan, closes, handler, view>>
    BY <1>4 DEF Fetch, connVars
  <2>3. c \in fetchers
    BY <2>2 DEF ConnectionInv, Places
  <2>4. /\ Own(c)' = Own(c)
        /\ \A j \in 0 .. MaxFetches : snap'[<<c, j>>].logs = snap[<<c, j>>].logs
    <3>1. snap \in [Snaps -> SnapType] /\ k \in 0 .. MaxFetches /\ k # 0 /\ 0 \in 0 .. MaxFetches
      BY OwnType DEF StreamTypeOK, SnapType
    <3>2. QED
      BY <2>1, <3>1, BeginForm DEF Own
  <2>5. Places(c)' /\ LogsExist(c)'
    BY <1>0, <2>2, <2>3, <2>4 DEF ConnectionInv, Places, LogsExist, LogAt, serverVars
  <2>6. QED
    BY <1>0, <2>3, <2>5 DEF ConnectionInv, StatusOnItsWay, LogsOnTheirWay
<1>5. CASE LeaveClients(c)
  <2>1. /\ handler[c] = "stream" /\ handler'[c] = "gone" /\ c \notin clients'
        /\ closes'[c] = (IF c \in clients THEN closes[c] + 1 ELSE closes[c])
        /\ UNCHANGED <<chan, snap, view, due>>
    BY <1>5 DEF LeaveClients, StreamTypeOK, pageVars
  <2>2. Places(c)' /\ LogsExist(c)'
    BY <1>0, <2>1, OwnType DEF ConnectionInv, Places, LogsExist, LogAt, Own, serverVars
  <2>3. QED
    BY <2>1, <2>2 DEF ConnectionInv, StatusOnItsWay, LogsOnTheirWay
<1>6. QED
  BY <1>1, <1>2, <1>3, <1>4, <1>5 DEF PageMoves, EndStream, Disconnect

LEMMA SnapKeeps ==
  ASSUME StreamTypeOK, NEW c \in Clients, ConnectionInv(c), NEW k \in 0 .. MaxFetches,
         NEW x, x = <<c, k>>, SnapMoves(x)
  PROVE  ConnectionInv(c)'
<1>0. /\ UNCHANGED <<serverVars, stop, fetchers, lost, clients, chan, closes, due>>
      /\ x \in Snaps /\ x[1] = c /\ x[2] = k /\ snap[x].at # "none"
  BY SnapsType, OwnSnap DEF SnapMoves, ReadStatus, ReadLogs, Deliver
<1>1. \A j \in 0 .. MaxFetches : j # k => snap'[<<c, j>>] = snap[<<c, j>>]
  <2>1. \A j \in 0 .. MaxFetches : j # k => <<c, j>> # x
    OBVIOUS
  <2>2. QED
    BY <2>1, OwnSnap DEF SnapMoves, ReadStatus, ReadLogs, Deliver, StreamTypeOK
<1>2. snap[x] \in SnapType /\ logs \in Nat /\ stageStatus \in Nat
  BY OwnType
<1>3. /\ snap'[x].logs \in {snap[x].logs, logs, 0}
      /\ ReadStatus(x) => snap'[x] = [snap[x] EXCEPT !.at = "status", !.status = stageStatus] /\ UNCHANGED <<handler, view>>
      /\ ReadLogs(x) => snap'[x] = [snap[x] EXCEPT !.at = "ready", !.logs = logs] /\ UNCHANGED <<handler, view>>
      /\ Deliver(x) => /\ snap'[x] = NoSnap
                       /\ view'[c] = [status |-> snap[x].status, logs |-> FirstLogs(snap[x].logs)]
                       /\ handler'[c] = IF k = 0 THEN "stream" ELSE handler[c]
  <2>1. ReadStatus(x) => snap'[x] = [snap[x] EXCEPT !.at = "status", !.status = stageStatus] /\ UNCHANGED <<handler, view>>
    BY <1>0 DEF ReadStatus, StreamTypeOK, connVars, pageVars
  <2>2. ReadLogs(x) => snap'[x] = [snap[x] EXCEPT !.at = "ready", !.logs = logs] /\ UNCHANGED <<handler, view>>
    BY <1>0 DEF ReadLogs, StreamTypeOK, connVars, pageVars
  <2>3. Deliver(x) => /\ snap'[x] = NoSnap
                      /\ view'[c] = [status |-> snap[x].status, logs |-> FirstLogs(snap[x].logs)]
                      /\ handler'[c] = IF k = 0 THEN "stream" ELSE handler[c]
    BY <1>0 DEF Deliver, StreamTypeOK
  <2>4. snap'[x].logs \in {snap[x].logs, logs, 0}
    <3>1. CASE ReadStatus(x)
      BY <1>2, <2>1, <3>1 DEF SnapType
    <3>2. CASE ReadLogs(x)
      BY <1>2, <2>2, <3>2 DEF SnapType
    <3>3. CASE Deliver(x)
      BY <2>3, <3>3 DEF NoSnap
    <3>4. QED
      BY <3>1, <3>2, <3>3 DEF SnapMoves
  <2>5. QED
    BY <2>1, <2>2, <2>3, <2>4
<1>4. snap[x].logs <= logs /\ \A j \in 0 .. MaxFetches : snap'[<<c, j>>].logs <= logs
  BY <1>1, <1>2, <1>3 DEF ConnectionInv, LogsExist
<1>5. LogsExist(c)'
  <2>1. \A i \in DOMAIN view'[c].logs : view'[c].logs[i] \in 1 .. logs
    <3>1. CASE Deliver(x)
      <4>1. snap[x].logs \in Nat
        BY <1>2 DEF SnapType
      <4>2. view'[c].logs = FirstLogs(snap[x].logs)
        BY <1>3, <3>1
      <4>3. 1 .. snap[x].logs \subseteq 1 .. logs
        BY <1>2, <1>4, <4>1
      <4>4. \A i \in DOMAIN FirstLogs(snap[x].logs) : FirstLogs(snap[x].logs)[i] \in 1 .. logs
        <5>1. /\ DOMAIN FirstLogs(snap[x].logs) = 1 .. snap[x].logs
              /\ \A i \in 1 .. snap[x].logs : FirstLogs(snap[x].logs)[i] = i
          BY <4>1, FirstLogsFacts
        <5>2. QED
          BY <4>3, <5>1
      <4>5. QED
        BY <4>2, <4>4
    <3>2. CASE ~Deliver(x)
      BY <1>3, <3>2 DEF SnapMoves, ConnectionInv, LogsExist
    <3>3. QED
      BY <3>1, <3>2
  <2>2. QED
    BY <1>0, <1>4, <2>1 DEF ConnectionInv, LogsExist, LogAt, serverVars
<1>6. CASE k # 0
  <2>1. k \in 1 .. MaxFetches
    BY <1>6, StreamAssumption
  <2>2. c \in fetchers
    BY <1>0, <2>1 DEF ConnectionInv, Places
  <2>3. Own(c)' = Own(c) /\ handler'[c] = handler[c]
    BY <1>1, <1>3, <1>6, OwnType DEF Own, SnapMoves
  <2>4. Places(c)'
    BY <1>0, <2>2, <2>3 DEF ConnectionInv, Places
  <2>5. QED
    BY <1>0, <1>5, <2>2, <2>4 DEF ConnectionInv, StatusOnItsWay, LogsOnTheirWay
<1>7. CASE k = 0
  <2>0. Own(c) = snap[x] /\ Own(c)' = snap'[x] /\ handler[c] = "snapshot" /\ Own(c) \in SnapType
    BY <1>0, <1>2, <1>7 DEF Own, ConnectionInv, Places
  <2>1. \A j \in 1 .. MaxFetches : snap'[<<c, j>>] = snap[<<c, j>>]
    BY <1>1, <1>7, OwnType
  <2>2. CASE ReadStatus(x)
    <3>1. /\ Own(c).at = "begin" /\ Own(c)'.at = "status" /\ Own(c)'.status = stageStatus
          /\ UNCHANGED <<handler, view>>
      <4>1. snap'[x] = [snap[x] EXCEPT !.at = "status", !.status = stageStatus] /\ UNCHANGED <<handler, view>>
        BY <1>3, <2>2
      <4>2. snap'[x].at = "status" /\ snap'[x].status = stageStatus
        BY <1>2, <4>1 DEF SnapType
      <4>3. snap[x].at = "begin"
        BY <2>2 DEF ReadStatus
      <4>4. QED
        BY <2>0, <4>1, <4>2, <4>3
    <3>2. Places(c)'
      BY <1>0, <2>0, <2>1, <3>1 DEF ConnectionInv, Places
    <3>3. StatusOnItsWay(c)'
      BY <1>0, <3>1 DEF ConnectionInv, StatusOnItsWay, StageAt, HasStatus, serverVars
    <3>4. LogsOnTheirWay(c)'
      BY <1>0, <3>1 DEF ConnectionInv, LogsOnTheirWay, LogAt, HasLog, serverVars
    <3>5. QED
      BY <1>5, <3>2, <3>3, <3>4 DEF ConnectionInv
  <2>3. CASE ReadLogs(x)
    <3>1. /\ Own(c).at = "status" /\ Own(c)'.at = "ready" /\ Own(c)'.status = Own(c).status
          /\ Own(c)'.logs = logs /\ UNCHANGED <<handler, view>>
      <4>1. snap'[x] = [snap[x] EXCEPT !.at = "ready", !.logs = logs] /\ UNCHANGED <<handler, view>>
        BY <1>3, <2>3
      <4>2. snap'[x].at = "ready" /\ snap'[x].logs = logs /\ snap'[x].status = snap[x].status
        BY <1>2, <4>1 DEF SnapType
      <4>3. snap[x].at = "status"
        BY <2>3 DEF ReadLogs
      <4>4. QED
        BY <2>0, <4>1, <4>2, <4>3
    <3>2. Places(c)'
      BY <1>0, <2>0, <2>1, <3>1 DEF ConnectionInv, Places
    <3>3. StatusOnItsWay(c)'
      BY <1>0, <2>0, <3>1 DEF ConnectionInv, StatusOnItsWay, StageAt, HasStatus, serverVars
    <3>4. \A l \in 1 .. logs : HasLog(c, l)'
      BY <1>2, <3>1 DEF HasLog
    <3>5. LogsOnTheirWay(c)'
      BY <1>0, <3>4 DEF LogsOnTheirWay, serverVars
    <3>6. QED
      BY <1>5, <3>2, <3>3, <3>5 DEF ConnectionInv
  <2>4. CASE Deliver(x)
    <3>1. /\ Own(c).at = "ready" /\ Own(c)'.at = "none" /\ handler'[c] = "stream"
          /\ view'[c].status = Own(c).status /\ view'[c].logs = FirstLogs(Own(c).logs)
      BY <1>3, <1>7, <2>0, <2>4 DEF Deliver, NoSnap
    <3>2. Places(c)'
      BY <1>0, <2>0, <2>1, <3>1 DEF ConnectionInv, Places
    <3>3. HasStatus(c) => HasStatus(c)'
      BY <1>0, <2>0, <3>1 DEF HasStatus, serverVars
    <3>4. StatusOnItsWay(c)'
      BY <1>0, <3>3 DEF ConnectionInv, StatusOnItsWay, StageAt, serverVars
    <3>5. \A l \in 1 .. logs : HasLog(c, l) => HasLog(c, l)'
      <4>1. Own(c).logs \in Nat
        BY <2>0 DEF SnapType
      <4>2. \A l \in 1 .. logs : l <= Own(c).logs => l \in DOMAIN FirstLogs(Own(c).logs) /\ FirstLogs(Own(c).logs)[l] = l
        <5>1. \A l \in 1 .. logs : l <= Own(c).logs => l \in 1 .. Own(c).logs
          BY <1>2, <4>1
        <5>2. QED
          BY <4>1, <5>1, FirstLogsFacts
      <4>3. QED
        BY <2>0, <3>1, <4>2 DEF HasLog
    <3>6. LogsOnTheirWay(c)'
      BY <1>0, <3>5 DEF ConnectionInv, LogsOnTheirWay, LogAt, serverVars
    <3>7. QED
      BY <1>5, <3>2, <3>4, <3>6 DEF ConnectionInv
  <2>5. QED
    BY <2>2, <2>3, <2>4 DEF SnapMoves
<1>8. QED
  BY <1>6, <1>7

LEMMA ForwardKeeps ==
  ASSUME StreamTypeOK, NEW c \in Clients, ConnectionInv(c), Forward(c)
  PROVE  ConnectionInv(c)'
<1> DEFINE s == chan[c]
           e == Head(s)
           v == view[c].logs
<1>0. /\ UNCHANGED <<serverVars, stop, clients, closes, handler, snap, fetchers, lost>>
      /\ handler[c] = "stream" /\ s # <<>>
  BY DEF Forward
<1>1. s \in Seq(Event) /\ v \in Seq(Nat) /\ e \in Event /\ e = s[1] /\ 1 \in DOMAIN s
  BY <1>0, OwnType, TailFacts
<1>2. /\ chan'[c] = Tail(s) /\ due'[c] = (due[c] \/ (e.type = "refresh" /\ c \in fetchers))
      /\ e.type = "stage" => view'[c].status = e.n /\ view'[c].logs = v
      /\ e.type = "log" => view'[c].status = view[c].status /\ view'[c].logs = Append(v, e.n)
      /\ e.type \notin {"stage", "log"} => view' = view
  <2>1. view[c] \in [status : Nat, logs : Seq(Nat)] /\ view \in [Clients -> [status : Nat, logs : Seq(Nat)]]
    BY DEF StreamTypeOK
  <2>2. e.type = "stage" => view' = [view EXCEPT ![c].status = e.n]
    BY DEF Forward
  <2>3. e.type = "log" => view' = [view EXCEPT ![c].logs = Append(view[c].logs, e.n)]
    BY DEF Forward
  <2>4. e.type \notin {"stage", "log"} => view' = view
    BY DEF Forward
  <2>5. chan'[c] = Tail(s) /\ due'[c] = (due[c] \/ (e.type = "refresh" /\ c \in fetchers))
    BY DEF Forward, StreamTypeOK
  <2> HIDE DEF e
  <2>6. QED
    BY <2>1, <2>2, <2>3, <2>4, <2>5
<1>3. \A i \in DOMAIN chan'[c] : i + 1 \in DOMAIN s /\ chan'[c][i] = s[i + 1] /\ i \in Nat
  BY <1>0, <1>1, <1>2, TailFacts
<1>4. \A i \in DOMAIN s : i = 1 \/ (i - 1 \in DOMAIN chan'[c] /\ chan'[c][i - 1] = s[i])
  <2>1. \A i \in DOMAIN s : i \in Nat /\ (i - 1) + 1 = i
    BY <1>1
  <2>2. \A i \in DOMAIN s : i # 1 => i - 1 \in DOMAIN chan'[c]
    BY <1>0, <1>1, <1>2, TailFacts
  <2>3. QED
    BY <1>3, <2>1, <2>2
<1>5. \A i \in DOMAIN s : i \in Nat /\ i >= 1
  BY <1>1
<1>6. Own(c)' = Own(c) /\ Own(c).at = "none" /\ chan[c] = s
  BY <1>0 DEF ConnectionInv, Places, Own
<1>7. e.type \in {"stage", "log", "refresh"} /\ e.n \in Nat
  BY <1>1 DEF Event
<1>8. \A l : l \in 1 .. logs /\ HasLog(c, l) <=> l \in 1 .. logs /\ \E i \in DOMAIN v : v[i] = l
  BY <1>0, <1>6 DEF HasLog
<1>9. \A l : HasLog(c, l)' <=> \E i \in DOMAIN view'[c].logs : view'[c].logs[i] = l
  BY <1>0, <1>6 DEF HasLog
<1>10. /\ e.type # "log" => view'[c].logs = v
       /\ e.type = "log" => /\ \A i \in DOMAIN v : i \in DOMAIN view'[c].logs /\ view'[c].logs[i] = v[i]
                            /\ \E i \in DOMAIN view'[c].logs : view'[c].logs[i] = e.n
                            /\ \A i \in DOMAIN view'[c].logs : view'[c].logs[i] = e.n \/ (i \in DOMAIN v /\ view'[c].logs[i] = v[i])
  <2>1. e.type # "log" => view'[c].logs = v
    <3> HIDE DEF e
    <3>1. QED
      BY <1>2, <1>7
  <2>2. /\ DOMAIN Append(v, e.n) = (DOMAIN v) \cup {Len(v) + 1} /\ Append(v, e.n)[Len(v) + 1] = e.n
        /\ \A i \in DOMAIN v : Append(v, e.n)[i] = v[i]
    <3> HIDE DEF e, v
    <3>1. QED
      BY <1>1, <1>7, AppendFacts
  <2>3. e.type = "log" => view'[c].logs = Append(v, e.n)
    BY <1>2
  <2> HIDE DEF v, e
  <2>4. QED
    BY <2>1, <2>2, <2>3
<1>11. Places(c)'
  <2>1. c \notin fetchers => due'[c] = due[c]
    BY <1>2, OwnType DEF StreamTypeOK
  <2>2. QED
    BY <1>0, <1>6, <2>1 DEF ConnectionInv, Places
<1> HIDE DEF e, v, s
<1>12. LogsExist(c)'
  <2>1. \A i \in DOMAIN s : s[i].type = "log" => s[i].n \in 1 .. logs
    BY <1>6 DEF ConnectionInv, LogsExist, LogAt
  <2>2. \A i \in DOMAIN v : v[i] \in 1 .. logs
    BY DEF ConnectionInv, LogsExist, v
  <2>3. \A i \in DOMAIN view'[c].logs : view'[c].logs[i] \in 1 .. logs
    BY <1>1, <1>10, <2>1, <2>2
  <2>4. QED
    BY <1>0, <1>3, <2>1, <2>3 DEF ConnectionInv, LogsExist, LogAt, serverVars
<1>13. StatusOnItsWay(c)'
  <2> SUFFICES ASSUME c \in clients, c \notin fetchers, "stage" \notin lost[c], "stage" \notin sending
               PROVE  \/ \E i \in DOMAIN chan'[c] :
                           /\ chan'[c][i].type = "stage" /\ chan'[c][i].n = stageStatus
                           /\ \A j \in DOMAIN chan'[c] : chan'[c][j].type = "stage" => j <= i
                      \/ (\A i \in DOMAIN chan'[c] : chan'[c][i].type # "stage") /\ view'[c].status = stageStatus
    BY <1>0 DEF StatusOnItsWay, StageAt, HasStatus, serverVars
  <2>1. CASE \E i \in DOMAIN s : /\ s[i].type = "stage" /\ s[i].n = stageStatus
                                /\ \A j \in DOMAIN s : s[j].type = "stage" => j <= i
    <3>1. PICK i \in DOMAIN s : /\ s[i].type = "stage" /\ s[i].n = stageStatus
                                /\ \A j \in DOMAIN s : s[j].type = "stage" => j <= i
      BY <2>1
    <3>2. \A j \in DOMAIN chan'[c] : chan'[c][j].type = "stage" => j + 1 <= i /\ j \in Nat
      BY <1>3, <3>1
    <3>3. CASE i = 1
      <4>1. \A j \in DOMAIN chan'[c] : chan'[c][j].type # "stage"
        <5>1. \A j \in DOMAIN chan'[c] : j \in Nat /\ j # 0
          BY <1>0, <1>1, <1>2, TailFacts
        <5>2. QED
          BY <3>2, <3>3, <5>1
      <4>2. view'[c].status = stageStatus
        BY <1>1, <1>2, <3>1, <3>3
      <4>3. QED
        BY <4>1, <4>2
    <3>4. CASE i # 1
      <4>1. i - 1 \in DOMAIN chan'[c] /\ chan'[c][i - 1] = s[i] /\ i \in Nat
        BY <1>4, <1>5, <3>1, <3>4
      <4>2. \A j \in DOMAIN chan'[c] : chan'[c][j].type = "stage" => j <= i - 1
        BY <3>2, <4>1
      <4>3. QED
        BY <3>1, <4>1, <4>2
    <3>5. QED
      BY <3>3, <3>4
  <2>2. CASE (\A i \in DOMAIN s : s[i].type # "stage") /\ HasStatus(c)
    <3>1. view[c].status = stageStatus
      BY <1>0, <1>6, <2>2 DEF HasStatus
    <3>2. e.type # "stage" /\ view'[c].status = view[c].status
      BY <1>1, <1>2, <1>7, <2>2
    <3>3. QED
      BY <1>3, <2>2, <3>1, <3>2
  <2>3. QED
    BY <1>6, <2>1, <2>2 DEF ConnectionInv, StatusOnItsWay, StageAt
<1>14. LogsOnTheirWay(c)'
  <2> SUFFICES ASSUME c \in clients, c \notin fetchers, "log" \notin lost[c], NEW l \in 1 .. logs
               PROVE  \/ l = logs /\ "log" \in sending
                      \/ \E i \in DOMAIN chan'[c] : chan'[c][i].type = "log" /\ chan'[c][i].n = l
                      \/ \E i \in DOMAIN view'[c].logs : view'[c].logs[i] = l
    BY <1>0, <1>9 DEF LogsOnTheirWay, LogAt, serverVars
  <2>1. \/ l = logs /\ "log" \in sending
        \/ \E i \in DOMAIN s : s[i].type = "log" /\ s[i].n = l
        \/ \E i \in DOMAIN v : v[i] = l
    BY <1>6, <1>8 DEF ConnectionInv, LogsOnTheirWay, LogAt
  <2>2. CASE \E i \in DOMAIN s : s[i].type = "log" /\ s[i].n = l
    BY <1>1, <1>4, <1>10, <2>2
  <2>3. CASE \E i \in DOMAIN v : v[i] = l
    BY <1>10, <2>3
  <2>4. QED
    BY <2>1, <2>2, <2>3
<1>15. QED
  BY <1>11, <1>12, <1>13, <1>14 DEF ConnectionInv

-----------------------------------------------------------------------------
(***************************************************************************)
(* The invariant, and what follows.                                        *)
(***************************************************************************)
LEMMA InitIInv == StreamInit => StreamInv
<1> SUFFICES ASSUME StreamInit PROVE StreamInv
  OBVIOUS
<1>1. StreamTypeOK
  <2>1. fetchers \subseteq Clients /\ Capacity \in Nat
    BY StreamAssumption DEF StreamInit
  <2>2. <<>> \in Seq(Event) /\ <<>> \in Seq(Nat) /\ Len(<<>>) = 0
    OBVIOUS
  <2>3. chan \in [Clients -> Seq(Event)] /\ \A c \in Clients : Len(chan[c]) <= Capacity
    BY <2>1, <2>2 DEF StreamInit
  <2>4. snap \in [Snaps -> [at : {"none", "begin", "status", "ready"}, status : Nat, logs : Nat]]
    BY DEF StreamInit, NoSnap
  <2>5. view \in [Clients -> [status : Nat, logs : Seq(Nat)]]
    BY <2>2 DEF StreamInit
  <2>6. QED
    BY <2>1, <2>3, <2>4, <2>5 DEF StreamInit, StreamTypeOK
<1>2. ASSUME NEW c \in Clients PROVE ConnectionInv(c)
  <2>1. \A k \in 0 .. MaxFetches : snap[<<c, k>>] = NoSnap
    BY <1>2, OwnSnap DEF StreamInit
  <2>2. Own(c).at = "none" /\ \A k \in 0 .. MaxFetches : snap[<<c, k>>].at = "none" /\ snap[<<c, k>>].logs <= 0
    BY <1>1, <1>2, <2>1, OwnType DEF Own, NoSnap
  <2>3. Places(c)
    <3>1. /\ closes[c] = 0 /\ c \notin clients /\ chan[c] = <<>> /\ handler[c] = "none"
          /\ (c \notin fetchers => ~due[c])
      BY <1>2 DEF StreamInit
    <3>2. \A k \in 1 .. MaxFetches : snap[<<c, k>>].at = "none"
      BY <1>1, <1>2, <2>2, OwnType
    <3>3. QED
      BY <2>2, <3>1, <3>2 DEF Places
  <2>4. LogsExist(c)
    BY <1>2, <2>2 DEF StreamInit, LogsExist, LogAt
  <2>5. QED
    BY <2>3, <2>4 DEF StreamInit, ConnectionInv, StatusOnItsWay, LogsOnTheirWay
<1>3. QED
  BY <1>1, <1>2 DEF StreamInit, StreamInv

LEMMA IInvStep == StreamInv /\ [StreamNext]_streamVars => StreamInv'
<1> SUFFICES ASSUME StreamInv, [StreamNext]_streamVars PROVE StreamInv'
  OBVIOUS
<1>0. StreamTypeOK /\ \A c \in Clients : ConnectionInv(c)
  BY DEF StreamInv
<1>1. CASE ServerMoves
  <2>1. "log" \in sending' => logs' >= 1
    <3>1. logs \in Nat
      BY <1>0 DEF StreamTypeOK
    <3>2. QED
      BY <1>1, <3>1 DEF StreamInv, ServerMoves, SetStatus, BroadcastStatus, OnLog, BroadcastLog, OnActions,
                        Unregister, CloseAll, Shutdown, serverVars
  <2>2. QED
    BY <1>0, <1>1, <2>1, ServerType, ServerKeeps DEF StreamInv
<1>2. CASE UNCHANGED streamVars
  <2>1. UNCHANGED <<fetchers, stageStatus, logs, sending, refreshes, stop, clients, chan, closes, handler, snap, view, due, lost>>
    BY <1>2 DEF streamVars, serverVars, connVars, pageVars
  <2>2. StreamTypeOK'
    BY <1>0, <2>1 DEF StreamTypeOK
  <2>3. \A c \in Clients : Same(c)
    BY <2>1 DEF Same
  <2>4. \A c \in Clients : ConnectionInv(c)'
    BY <1>0, <2>1, <2>3, SameKept
  <2>5. QED
    BY <2>1, <2>2, <2>4 DEF StreamInv
<1>3. ASSUME NEW c \in Clients, PageMoves(c) PROVE StreamInv'
  <2>1. StreamTypeOK' /\ UNCHANGED <<serverVars, stop, fetchers, lost>>
    BY <1>0, <1>3, PagesType
  <2>2. ConnectionInv(c)'
    BY <1>0, <1>3, PageKeeps, ForwardKeeps
  <2>3. \A d \in Clients : d # c => Same(d)
    BY <1>0, <1>3, OthersSame
  <2>4. \A d \in Clients : d # c => ConnectionInv(d)'
    BY <1>0, <2>1, <2>3, SameKept DEF serverVars
  <2>5. QED
    BY <2>1, <2>2, <2>4 DEF StreamInv, serverVars
<1>4. ASSUME NEW x \in Snaps, SnapMoves(x) PROVE StreamInv'
  <2>1. StreamTypeOK' /\ UNCHANGED <<serverVars, fetchers, lost>>
    BY <1>0, <1>4, SnapsType
  <2>2. PICK c \in Clients, k \in 0 .. MaxFetches : x = <<c, k>>
    BY <1>4 DEF Snaps
  <2>3. ConnectionInv(c)'
    BY <1>0, <1>4, <2>2, SnapKeeps
  <2>4. \A d \in Clients : d # c => Same(d)
    BY <1>0, <1>4, <2>2, OtherSnapsSame
  <2>5. \A d \in Clients : d # c => ConnectionInv(d)'
    BY <1>0, <2>1, <2>4, SameKept DEF serverVars
  <2>6. QED
    BY <2>1, <2>3, <2>5 DEF StreamInv, serverVars
<1>5. QED
  BY <1>1, <1>2, <1>3, <1>4, NextForm

\* What the server, the connections, the snapshots and the pages hold is of its type in
\* every state, and no channel holds more events than its capacity.
THEOREM StreamTypes == StreamSpec => []StreamTypeOK
<1>1. StreamInv => StreamTypeOK
  BY DEF StreamInv
<1>2. QED
  BY <1>1, InitIInv, IInvStep, PTL DEF StreamSpec

\* What a page has not yet received is on its way: a client that streams and lost no
\* event finds the current status, and each log, in its channel, in its snapshot or in
\* what its page shows, unless the server is just about to broadcast it.
THEOREM Inductive == StreamSpec => []StreamInv
BY InitIInv, IInvStep, PTL DEF StreamSpec

\* However Stop, disconnecting pages and broadcasts interleave, no channel is closed
\* twice, and none that is in s.clients has been closed: neither close nor the send of
\* broadcast can panic.
THEOREM ChannelsSafe == StreamSpec => []ChannelsAreSafe
<1>1. StreamInv => ChannelsAreSafe
  BY DEF StreamInv, ConnectionInv, Places, ChannelsAreSafe
<1>2. QED
  BY <1>1, Inductive, PTL

\* Registering before the snapshot is read is enough: whatever falls between a
\* registration, the two reads of its snapshot and its stream, once nothing is under way
\* the page shows the current status, unless the last status event was dropped, and
\* every log, unless one was dropped.
THEOREM NothingIsMissed == StreamSpec => []NothingMissed
<1>1. StreamInv => NothingMissed
  <2> SUFFICES ASSUME StreamInv, NEW c \in Clients \ fetchers, Quiet(c)
               PROVE  /\ "stage" \notin lost[c] => view[c].status = stageStatus
                      /\ "log" \notin lost[c] => ToSet(view[c].logs) = 1 .. logs
    BY DEF NothingMissed
  <2>1. StreamTypeOK /\ ConnectionInv(c) /\ c \in Clients /\ c \notin fetchers
    BY DEF StreamInv
  <2>2. Own(c).at = "none" /\ handler[c] = "stream" /\ c \in clients /\ DOMAIN chan[c] = {} /\ sending = {}
    <3>1. <<c, 0>> \in Snaps /\ <<c, 0>>[1] = c
      BY <2>1, OwnSnap
    <3>2. DOMAIN <<>> = {}
      OBVIOUS
    <3>3. QED
      BY <3>1, <3>2 DEF Quiet, Own
  <2>3. "stage" \notin lost[c] => view[c].status = stageStatus
    BY <2>1, <2>2 DEF ConnectionInv, StatusOnItsWay, HasStatus
  <2>4. "log" \notin lost[c] => \A l \in 1 .. logs : \E i \in DOMAIN view[c].logs : view[c].logs[i] = l
    BY <2>1, <2>2 DEF ConnectionInv, LogsOnTheirWay, HasLog
  <2>5. \A i \in DOMAIN view[c].logs : view[c].logs[i] \in 1 .. logs
    BY <2>1 DEF ConnectionInv, LogsExist
  <2>6. QED
    BY <2>3, <2>4, <2>5 DEF ToSet
<1>2. QED
  BY <1>1, Inductive, PTL
=============================================================================
