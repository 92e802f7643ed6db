---------------------------- MODULE TesterProofs ----------------------------
(***************************************************************************)
(* Theorems about Tester, for every set of testers, callers and stages,    *)
(* and about the command mode that drives one.                             *)
(***************************************************************************)
EXTENDS Tester, CliSession, TLAPS

-----------------------------------------------------------------------------
\* The jobs the three calls create, and the one a return leaves, are jobs.
LEMMA JobTypes ==
  /\ NoJob \in Job
  /\ \A t \in Testers, n \in Stages : RealJob(t, n) \in Job
  /\ \A t \in Testers, i \in Nat : stages[t][i] \in Stages => DryJob(t, i) \in Job
BY DEF NoJob, Job, RealJob, DryJob, Mode

\* Initially the state has its type and no caller is in a call.
LEMMA TypeInit == Init => TypeOK /\ JobInv
<1> SUFFICES ASSUME Init PROVE TypeOK /\ JobInv
  OBVIOUS
<1>1. /\ stages \in [Testers -> Seq(Stages)]
      /\ stageActions \in [Stages -> Seq(Entry)]
  BY DEF Init
<1>2. /\ pc \in [Callers -> Place]
      /\ job \in [Callers -> Job]
  BY JobTypes DEF Init, Place
<1>3. JobInv
  BY DEF Init, JobInv, JobFits
<1>4. QED
  BY <1>1, <1>2, <1>3 DEF Init, TypeOK

\* Every step keeps the type: a recorded action names a stage because a caller
\* in a call has one, and a dry run moves only to a registered stage.
LEMMA TypeStep == TypeOK /\ JobInv /\ [Next]_vars => TypeOK'
<1> SUFFICES ASSUME TypeOK, JobInv, [Next]_vars PROVE TypeOK'
  OBVIOUS
<1> USE ConstantsAssumption DEF TypeOK, lockVars, flagVars
<1>1. ASSUME NEW t \in Testers, NEW n \in Stages, Stage(t, n) PROVE TypeOK'
  BY <1>1 DEF Stage
<1>2. ASSUME NEW c \in Callers, Call(c) PROVE TypeOK'
  <2>1. ASSUME NEW t \in Testers, NEW n \in Stages,
               RunStageByName(c, t, n) \/ TryRunStageByName(c, t, n)
        PROVE  TypeOK'
    <3>1. RealJob(t, n) \in Job
      BY JobTypes
    <3>2. CASE RunStageByName(c, t, n)
      BY <3>1, <3>2 DEF RunStageByName, Place
    <3>3. CASE TryRunStageByName(c, t, n)
      BY <3>1, <3>3 DEF TryRunStageByName, Place
    <3>4. QED
      BY <2>1, <3>2, <3>3
  <2>2. ASSUME NEW t \in Testers, DryRunAll(c, t) PROVE TypeOK'
    <3>1. stages[t][1] \in Stages
      BY <2>2 DEF DryRunAll
    <3>2. QED
      BY <2>2, <3>1, JobTypes DEF DryRunAll, Place
  <2>3. QED
    BY <1>2, <2>1, <2>2 DEF Call
<1>3. ASSUME NEW c \in Callers, Locks(c) PROVE TypeOK'
  <2>1. CASE LockRun(c)
    BY <2>1 DEF LockRun, Place
  <2>2. CASE RLock(c)
    BY <2>2 DEF RLock, Place
  <2>3. CASE RWake(c) \/ WLock(c) \/ WDrained(c)
    BY <2>3 DEF RWake, WLock, WDrained, Place
  <2>4. QED
    BY <1>3, <2>1, <2>2, <2>3 DEF Locks
<1>4. ASSUME NEW c \in Callers, Executes(c) PROVE TypeOK'
  <2>1. CASE RecordAction(c)
    <3> DEFINE e == [by |-> c, stage |-> job[c].stage, mode |-> job[c].mode]
    <3>1. e \in Entry
      BY <2>1 DEF RecordAction, JobInv, JobFits, Entry, Job
    <3>2. stageActions' \in [Stages -> Seq(Entry)]
      <4>1. CASE UNCHANGED stageActions
        BY <4>1
      <4>2. CASE /\ currentStage # NoStage
                 /\ stageActions' =
                      [stageActions EXCEPT ![currentStage] = Append(@, e)]
        <5> HIDE DEF e
        <5>1. Append(stageActions[currentStage], e) \in Seq(Entry)
          BY <3>1, <4>2
        <5>2. QED
          BY <4>2, <5>1
      <4>3. QED
        BY <2>1, <4>1, <4>2 DEF RecordAction
    <3>3. QED
      BY <2>1, <3>2 DEF RecordAction, Place
  <2>2. CASE Begin(c)
    <3>1. job[c].stage \in Stages \cup {NoStage}
      BY DEF Job
    <3>2. stageActions' \in [Stages -> Seq(Entry)]
      <4>1. <<>> \in Seq(Entry)
        OBVIOUS
      <4>2. stageActions' = [stageActions EXCEPT ![job[c].stage] = <<>>]
        BY <2>2 DEF Begin
      <4>3. QED
        BY <4>1, <4>2
    <3>3. QED
      BY <2>2, <3>1, <3>2 DEF Begin, Place
  <2>3. CASE StageFuncEnds(c)
    <3>1. PICK g \in BOOLEAN : job' = [job EXCEPT ![c].goexit = g]
      BY <2>3 DEF StageFuncEnds
    <3>2. job' \in [Callers -> Job]
      BY <3>1 DEF Job
    <3>3. QED
      BY <2>3, <3>2 DEF StageFuncEnds, Place
  <2>4. CASE StageNotFound(c) \/ IsDryRun(c) \/ SideEffectDone(c) \/ Clear(c)
    BY <2>4 DEF StageNotFound, IsDryRun, SideEffectDone, Clear, Place
  <2>5. QED
    BY <1>4, <2>1, <2>2, <2>3, <2>4 DEF Executes
<1>5. ASSUME NEW c \in Callers, Unlocks(c) PROVE TypeOK'
  <2>1. CASE RUnlock(c)
    BY <2>1 DEF RUnlock, Place
  <2>2. CASE UnlockRun(c)
    BY <2>2, JobTypes DEF UnlockRun, Leave, Place
  <2>3. CASE WUnlock(c)
    <3>1. job' \in [Callers -> Job] /\ pc' \in [Callers -> Place]
      <4>1. CASE Leave(c)
        BY <4>1, JobTypes DEF Leave, Place
      <4>2. CASE /\ job[c].idx < Len(stages[job[c].tester])
                 /\ pc' = [pc EXCEPT ![c] = "wLock"]
                 /\ job' = [job EXCEPT ![c] = DryJob(job[c].tester, job[c].idx + 1)]
        <5>1. job[c].tester \in Testers /\ job[c].idx \in Nat
          BY <2>3 DEF WUnlock, JobInv, JobFits, Job
        <5>2. stages[job[c].tester][job[c].idx + 1] \in Stages
          BY <4>2, <5>1
        <5>3. DryJob(job[c].tester, job[c].idx + 1) \in Job
          BY <5>1, <5>2, JobTypes
        <5>4. QED
          BY <4>2, <5>3 DEF Place
      <4>3. QED
        BY <2>3, <4>1, <4>2 DEF WUnlock
    <3>2. QED
      BY <2>3, <3>1 DEF WUnlock
  <2>4. QED
    BY <1>5, <2>1, <2>2, <2>3 DEF Unlocks
<1>6. CASE UNCHANGED vars
  BY <1>6 DEF vars
<1>7. QED
  BY <1>1, <1>2, <1>3, <1>4, <1>5, <1>6 DEF Next

\* Every step keeps the call of each caller in line with its place.
LEMMA JobStep == TypeOK /\ JobInv /\ [Next]_vars => JobInv'
<1> SUFFICES ASSUME TypeOK, JobInv, [Next]_vars, NEW d \in Callers
             PROVE  JobFits(d)'
  BY DEF JobInv
<1> USE DEF TypeOK, JobInv, JobFits, lockVars, flagVars
<1>1. ASSUME NEW t \in Testers, NEW n \in Stages, Stage(t, n) PROVE JobFits(d)'
  BY <1>1 DEF Stage
<1>2. ASSUME NEW c \in Callers, Call(c) PROVE JobFits(d)'
  <2>1. ASSUME NEW t \in Testers, NEW n \in Stages,
               RunStageByName(c, t, n) \/ TryRunStageByName(c, t, n)
        PROVE  JobFits(d)'
    <3>1. CASE RunStageByName(c, t, n)
      BY <3>1 DEF RunStageByName, RealJob
    <3>2. CASE TryRunStageByName(c, t, n)
      BY <3>2 DEF TryRunStageByName, RealJob
    <3>3. QED
      BY <2>1, <3>1, <3>2
  <2>2. ASSUME NEW t \in Testers, DryRunAll(c, t) PROVE JobFits(d)'
    BY <2>2 DEF DryRunAll, DryJob
  <2>3. QED
    BY <1>2, <2>1, <2>2 DEF Call
<1>3. ASSUME NEW c \in Callers, Locks(c) PROVE JobFits(d)'
  <2>1. CASE LockRun(c) \/ RLock(c) \/ RWake(c)
    BY <2>1 DEF LockRun, RLock, RWake
  <2>2. CASE WLock(c) \/ WDrained(c)
    BY <2>2 DEF WLock, WDrained
  <2>3. QED
    BY <1>3, <2>1, <2>2 DEF Locks
<1>4. ASSUME NEW c \in Callers, Executes(c) PROVE JobFits(d)'
  <2>1. CASE StageFuncEnds(c)
    BY <2>1 DEF StageFuncEnds, Job
  <2>2. CASE ~StageFuncEnds(c)
    BY <1>4, <2>2 DEF Executes, Begin, StageNotFound, RecordAction, IsDryRun,
                      SideEffectDone, Clear, Job, Mode
  <2>3. QED
    BY <2>1, <2>2
<1>5. ASSUME NEW c \in Callers, Unlocks(c) PROVE JobFits(d)'
  <2>1. CASE RUnlock(c) \/ UnlockRun(c)
    BY <2>1 DEF RUnlock, UnlockRun, Leave, NoJob
  <2>2. CASE WUnlock(c)
    <3>1. CASE Leave(c)
      BY <2>2, <3>1 DEF WUnlock, Leave, NoJob
    <3>2. CASE /\ job[c].idx < Len(stages[job[c].tester])
               /\ pc' = [pc EXCEPT ![c] = "wLock"]
               /\ job' = [job EXCEPT ![c] = DryJob(job[c].tester, job[c].idx + 1)]
      <4>1. job[c].tester \in Testers /\ job[c].idx \in Nat
        BY <2>2 DEF WUnlock, Job
      <4>2. stages[job[c].tester][job[c].idx + 1] \in Stages
        BY <3>2, <4>1
      <4>3. QED
        BY <2>2, <3>2, <4>1, <4>2 DEF DryJob
    <3>3. QED
      BY <2>2, <3>1, <3>2 DEF WUnlock
  <2>3. QED
    BY <1>5, <2>1, <2>2 DEF Unlocks
<1>6. CASE UNCHANGED vars
  BY <1>6 DEF vars
<1>7. QED
  BY <1>1, <1>2, <1>3, <1>4, <1>5, <1>6 DEF Next

\* The state of Tester has its type, in every behaviour.
THEOREM TypeCorrect == Spec => [](TypeOK /\ JobInv)
BY TypeInit, TypeStep, JobStep, PTL DEF Spec
-----------------------------------------------------------------------------
IInv == TypeOK /\ JobInv /\ LockInv

\* Initially no lock is held and no place claims one.
LEMMA LockInit == Init => LockInv
BY ConstantsAssumption
   DEF Init, LockInv, RunMuInv, ReadersInv, WriterInv, QueueInv, HoldsRun,
       HoldsRead, HoldsWrite, InSection

\* Every step keeps the locks in line with the places: each lock operation
\* moves exactly one caller into or out of its places, but for WUnlock, which
\* makes readers of the queued callers.
LEMMA LockStep == IInv /\ [Next]_vars => LockInv'
<1> SUFFICES ASSUME IInv, [Next]_vars PROVE LockInv'
  OBVIOUS
<1> USE ConstantsAssumption
    DEF IInv, TypeOK, JobInv, JobFits, LockInv, RunMuInv, ReadersInv, WriterInv,
        QueueInv, HoldsRun, HoldsRead, HoldsWrite, InSection, lockVars
<1>1. ASSUME NEW t \in Testers, NEW n \in Stages, Stage(t, n) PROVE LockInv'
  BY <1>1 DEF Stage
<1>2. ASSUME NEW c \in Callers, Call(c) PROVE LockInv'
  <2>1. ASSUME NEW t \in Testers, NEW n \in Stages, RunStageByName(c, t, n)
        PROVE  LockInv'
    BY <2>1 DEF RunStageByName, RealJob
  <2>2. ASSUME NEW t \in Testers, NEW n \in Stages, TryRunStageByName(c, t, n)
        PROVE  LockInv'
    BY <2>2 DEF TryRunStageByName, RealJob
  <2>3. ASSUME NEW t \in Testers, DryRunAll(c, t) PROVE LockInv'
    BY <2>3 DEF DryRunAll, DryJob
  <2>4. QED
    BY <1>2, <2>1, <2>2, <2>3 DEF Call
<1>3. ASSUME NEW c \in Callers, Locks(c) PROVE LockInv'
  <2>1. CASE LockRun(c)
    BY <2>1 DEF LockRun
  <2>2. CASE RLock(c)
    BY <2>2 DEF RLock
  <2>3. CASE RWake(c)
    <3> USE <2>3 DEF RWake
    <3>1. RunMuInv' /\ QueueInv'
      OBVIOUS
    <3>2. ReadersInv'
      OBVIOUS
    <3>3. WriterInv'
      OBVIOUS
    <3>4. QED
      BY <3>1, <3>2, <3>3
  <2>4. CASE WLock(c)
    BY <2>4 DEF WLock
  <2>5. CASE WDrained(c)
    BY <2>5 DEF WDrained
  <2>6. QED
    BY <1>3, <2>1, <2>2, <2>3, <2>4, <2>5 DEF Locks
<1>4. ASSUME NEW c \in Callers, Executes(c) PROVE LockInv'
  <2>1. CASE StageFuncEnds(c)
    BY <2>1 DEF StageFuncEnds, Job
  <2>2. CASE Begin(c) \/ StageNotFound(c)
    BY <2>2 DEF Begin, StageNotFound
  <2>3. CASE RecordAction(c)
    BY <2>3 DEF RecordAction
  <2>4. CASE IsDryRun(c)
    BY <2>4 DEF IsDryRun
  <2>5. CASE SideEffectDone(c)
    BY <2>5 DEF SideEffectDone
  <2>6. CASE Clear(c)
    BY <2>6 DEF Clear, Job, Mode
  <2>7. QED
    BY <1>4, <2>1, <2>2, <2>3, <2>4, <2>5, <2>6 DEF Executes
<1>5. ASSUME NEW c \in Callers, Unlocks(c) PROVE LockInv'
  <2>1. CASE RUnlock(c)
    BY <2>1 DEF RUnlock
  <2>2. CASE UnlockRun(c)
    BY <2>2 DEF UnlockRun, Leave, NoJob
  <2>3. CASE WUnlock(c)
    <3>1. /\ pc[c] = "wUnlock" /\ job[c].mode = "dry" /\ writer = c /\ readers = {}
          /\ writer' = NoCaller /\ readers' = queued /\ queued' = {}
          /\ runMu' = runMu
      <4>1. pc[c] = "wUnlock" /\ job[c].mode = "dry"
        BY <2>3 DEF WUnlock
      <4>2. writer = c /\ readers = {}
        BY <4>1
      <4>3. QED
        BY <2>3, <4>1, <4>2 DEF WUnlock
    <3>2. /\ \A d \in Callers : d # c => pc'[d] = pc[d] /\ job'[d] = job[d]
          /\ pc'[c] \in {"idle", "wLock"}
          /\ pc'[c] = "wLock" => job'[c].mode = "dry"
      BY <2>3 DEF WUnlock, Leave, DryJob
    <3>3. \A d \in Callers : ~HoldsRead(d)
      BY <3>1
    <3>4. RunMuInv'
      BY <3>1, <3>2
    <3>5. ReadersInv'
      BY <3>1, <3>2, <3>3
    <3>6. WriterInv' /\ QueueInv'
      BY <3>1, <3>2
    <3>7. QED
      BY <3>4, <3>5, <3>6
  <2>4. QED
    BY <1>5, <2>1, <2>2, <2>3 DEF Unlocks
<1>6. CASE UNCHANGED vars
  BY <1>6 DEF vars
<1>7. QED
  BY <1>1, <1>2, <1>3, <1>4, <1>5, <1>6 DEF Next

\* The inductive invariant: types, jobs and locks.
THEOREM LocksCorrect == Spec => []IInv
<1>1. Init => IInv
  BY TypeInit, LockInit DEF IInv
<1>2. IInv /\ [Next]_vars => IInv'
  BY TypeStep, JobStep, LockStep DEF IInv
<1>3. QED
  BY <1>1, <1>2, PTL DEF Spec
-----------------------------------------------------------------------------
\* Two callers between their lookup and their Clear are runs on different
\* Testers: the same Tester would need runMu twice, and a dry run in its
\* section has dryRunMu for itself.
LEMMA SectionsExclude ==
  ASSUME IInv, NEW c \in Callers, NEW d \in Callers, c # d,
         InSection(c), InSection(d)
  PROVE  /\ job[c].mode = "real" /\ job[d].mode = "real"
         /\ job[c].tester # job[d].tester
<1> USE DEF IInv, TypeOK, JobInv, JobFits, LockInv, RunMuInv, ReadersInv, WriterInv,
            HoldsRun, HoldsRead, HoldsWrite, InSection
<1>1. ASSUME NEW x \in Callers, NEW y \in Callers, InSection(x), InSection(y),
             x # y, job[x].mode = "dry"
      PROVE  FALSE
  <2>1. writer = x /\ readers = {}
    BY <1>1
  <2>2. CASE job[y].mode = "dry"
    BY <1>1, <2>1, <2>2
  <2>3. CASE job[y].mode = "real"
    BY <1>1, <2>1, <2>3
  <2>4. QED
    BY <2>2, <2>3 DEF Job, Mode
<1>2. job[c].mode = "real" /\ job[d].mode = "real"
  BY <1>1 DEF Job, Mode
<1>3. job[c].tester # job[d].tester
  BY <1>2
<1>4. QED
  BY <1>2, <1>3

\* Runs on one Tester never overlap, and a dry run overlaps nothing, for any
\* number of Testers, callers and stages (tester.go:97-101, 41-42).
THEOREM ExclusionPerTester == Spec => []RunsExcludePerTester
<1>1. IInv => RunsExcludePerTester
  BY SectionsExclude DEF RunsExcludePerTester, Executing, InSection
<1>2. QED
  BY <1>1, LocksCorrect, PTL

\* Past runMu no call waits for a run on the same Tester, so a call of
\* TryRunStageByName that is not refused never waits for a stage.
THEOREM AdmittedCalls == Spec => []AdmittedCallsWaitForNoRun
<1>1. IInv => AdmittedCallsWaitForNoRun
  BY DEF IInv, TypeOK, JobInv, JobFits, LockInv, RunMuInv, HoldsRun, InSection,
         Executing, AdmittedCallsWaitForNoRun
<1>2. QED
  BY <1>1, LocksCorrect, PTL
-----------------------------------------------------------------------------
\* From here on the process has one Tester.
SingleTester == \A t, u \in Testers : t = u

LEMMA OneInSection ==
  ASSUME SingleTester, IInv, NEW c \in Callers, NEW d \in Callers,
         InSection(c), InSection(d)
  PROVE  c = d
<1> SUFFICES ASSUME c # d PROVE FALSE
  OBVIOUS
<1>1. job[c].tester # job[d].tester
  BY SectionsExclude
<1>2. job[c].tester \in Testers /\ job[d].tester \in Testers
  BY DEF IInv, JobInv, JobFits, InSection
<1>3. QED
  BY <1>1, <1>2 DEF SingleTester

\* With one Tester at most one stage function executes at any time.
THEOREM MutualExclusion ==
  ASSUME SingleTester
  PROVE  Spec => []OneStageAtATime
<1>1. IInv => OneStageAtATime
  BY OneInSection DEF OneStageAtATime, Executing, InSection
<1>2. QED
  BY <1>1, LocksCorrect, PTL

\* What an execution shows of itself to the others is unchanged.
KeepsExecutions ==
  /\ UNCHANGED flagVars
  /\ \A d \in Callers :
       /\ Executing(d)' <=> Executing(d)
       /\ Executing(d) => /\ job'[d].stage = job[d].stage
                          /\ job'[d].mode = job[d].mode

\* Only Begin and Clear change the flags or who executes, and only Begin and
\* RecordAction change a list.
LEMMA StepShapes ==
  ASSUME IInv, [Next]_vars
  PROVE  \/ KeepsExecutions /\ UNCHANGED stageActions
         \/ \E c \in Callers : Begin(c) \/ Clear(c)
         \/ KeepsExecutions /\ \E c \in Callers : RecordAction(c)
<1> DEFINE Kept == KeepsExecutions /\ UNCHANGED stageActions
<1> USE DEF IInv, TypeOK, Executing, flagVars, KeepsExecutions
<1>1. ASSUME NEW t \in Testers, NEW n \in Stages, Stage(t, n) PROVE Kept
  BY <1>1 DEF Stage
<1>2. ASSUME NEW c \in Callers, Call(c) PROVE Kept
  BY <1>2 DEF Call, RunStageByName, TryRunStageByName, DryRunAll
<1>3. ASSUME NEW c \in Callers, Locks(c) PROVE Kept
  BY <1>3 DEF Locks, LockRun, RLock, RWake, WLock, WDrained
<1>4. ASSUME NEW c \in Callers, StageFuncEnds(c) PROVE Kept
  BY <1>4 DEF StageFuncEnds, Job
<1>5. ASSUME NEW c \in Callers, StageNotFound(c) \/ IsDryRun(c) \/ SideEffectDone(c)
      PROVE  Kept
  BY <1>5 DEF StageNotFound, IsDryRun, SideEffectDone
<1>6. ASSUME NEW c \in Callers, RecordAction(c) PROVE KeepsExecutions
  BY <1>6 DEF RecordAction
<1>7. ASSUME NEW c \in Callers, Unlocks(c) PROVE Kept
  BY <1>7 DEF Unlocks, RUnlock, UnlockRun, WUnlock, Leave
<1>8. CASE UNCHANGED vars
  BY <1>8 DEF vars
<1>9. QED
  <2> HIDE DEF KeepsExecutions
  <2>1. QED
    BY <1>1, <1>2, <1>3, <1>4, <1>5, <1>6, <1>7, <1>8 DEF Next, Executes

\* A Begin finds nobody executing, and leaves its caller as the only one.
LEMMA BeginAlone ==
  ASSUME SingleTester, IInv, NEW c \in Callers, Begin(c)
  PROVE  /\ \A d \in Callers : ~Executing(d)
         /\ \A d \in Callers : Executing(d)' <=> d = c
         /\ job' = job /\ job[c].stage \in Stages
<1>1. InSection(c) /\ ~Executing(c)
  BY DEF Begin, InSection, Executing
<1>2. \A d \in Callers : ~Executing(d)
  BY <1>1, OneInSection DEF InSection, Executing
<1>3. \A d \in Callers : Executing(d)' <=> d = c
  BY <1>2 DEF Begin, Executing, IInv, TypeOK
<1>4. QED
  BY <1>2, <1>3 DEF Begin, IInv, JobInv, JobFits

\* A Clear leaves nobody executing.
LEMMA ClearLast ==
  ASSUME SingleTester, IInv, NEW c \in Callers, Clear(c)
  PROVE  Executing(c) /\ \A d \in Callers : ~Executing(d)'
<1>1. InSection(c) /\ Executing(c)
  BY DEF Clear, InSection, Executing
<1>2. \A d \in Callers : Executing(d) => d = c
  BY <1>1, OneInSection DEF InSection, Executing
<1>3. QED
  BY <1>1, <1>2 DEF Clear, Executing, IInv, TypeOK

LEMMA FlagStep ==
  ASSUME SingleTester, IInv, RecordingIsTheExecutions, [Next]_vars
  PROVE  RecordingIsTheExecutions'
<1>1. CASE KeepsExecutions
  BY <1>1 DEF KeepsExecutions, RecordingIsTheExecutions, flagVars
<1>2. ASSUME NEW c \in Callers, Begin(c) PROVE RecordingIsTheExecutions'
  BY <1>2, BeginAlone DEF Begin, RecordingIsTheExecutions, IInv, TypeOK
<1>3. ASSUME NEW c \in Callers, Clear(c) PROVE RecordingIsTheExecutions'
  BY <1>3, ClearLast DEF Clear, RecordingIsTheExecutions, IInv, TypeOK, Job, Mode
<1>4. QED
  BY <1>1, <1>2, <1>3, StepShapes

\* While the execution of c records, its entry goes to its own stage's list.
LEMMA RecordsOwnStage ==
  ASSUME IInv, RecordingIsTheExecutions, NEW c \in Callers, RecordAction(c)
  PROVE  /\ Executing(c) /\ job[c].stage \in Stages
         /\ stageActions' = [stageActions EXCEPT ![job[c].stage] =
              Append(@, [by |-> c, stage |-> job[c].stage, mode |-> job[c].mode])]
<1>1. Executing(c)
  BY DEF RecordAction, Executing
<1>2. job[c].stage \in Stages
  BY <1>1 DEF Executing, IInv, JobInv, JobFits
<1>3. isRecording /\ currentStage = job[c].stage /\ currentStage # NoStage
  BY <1>1, <1>2, ConstantsAssumption DEF RecordingIsTheExecutions
<1>4. QED
  BY <1>1, <1>2, <1>3 DEF RecordAction

Filed == ActionsAreFiledUnderTheirStage

LEMMA FiledStep ==
  ASSUME SingleTester, IInv, RecordingIsTheExecutions, Filed, [Next]_vars
  PROVE  Filed'
<1> USE DEF Filed, ActionsAreFiledUnderTheirStage, IInv, TypeOK
<1>1. CASE KeepsExecutions /\ UNCHANGED stageActions
  <2>1. \A d \in Callers : Executing(d)' =>
          /\ Executing(d)
          /\ job'[d].stage = job[d].stage /\ job'[d].mode = job[d].mode
    BY <1>1 DEF KeepsExecutions
  <2>2. \A n \in Stages : stageActions'[n] = stageActions[n]
    BY <1>1
  <2>3. ASSUME NEW d \in Callers, Executing(d)'
        PROVE  \A i \in DOMAIN stageActions'[job'[d].stage] :
                 /\ stageActions'[job'[d].stage][i].by = d
                 /\ stageActions'[job'[d].stage][i].mode = job'[d].mode
    <3>1. \A i \in DOMAIN stageActions[job[d].stage] :
            /\ stageActions[job[d].stage][i].by = d
            /\ stageActions[job[d].stage][i].mode = job[d].mode
      BY <2>1, <2>3
    <3>2. stageActions' = stageActions
      BY <1>1
    <3>3. job'[d].stage = job[d].stage /\ job'[d].mode = job[d].mode
      BY <2>1, <2>3
    <3>4. QED
      BY <3>1, <3>2, <3>3
  <2>4. \A n \in Stages : \A i \in DOMAIN stageActions'[n] : stageActions'[n][i].stage = n
    BY <2>2
  <2>5. QED
    BY <2>3, <2>4
<1>2. ASSUME NEW c \in Callers, Begin(c) PROVE Filed'
  <2>1. stageActions' = [stageActions EXCEPT ![job[c].stage] = <<>>]
    BY <1>2 DEF Begin
  <2>2. /\ \A d \in Callers : Executing(d)' => d = c
        /\ job' = job
    BY <1>2, BeginAlone DEF Begin
  <2>3. \A n \in Stages : \A i \in DOMAIN stageActions'[n] :
          i \in DOMAIN stageActions[n] /\ stageActions'[n][i] = stageActions[n][i]
    BY <2>1
  <2>4. DOMAIN stageActions'[job'[c].stage] = {}
    BY <1>2, <2>1, BeginAlone
  <2>5. \A n \in Stages : \A i \in DOMAIN stageActions'[n] : stageActions'[n][i].stage = n
    BY <2>3
  <2>6. \A d \in Callers : Executing(d)' =>
          \A i \in DOMAIN stageActions'[job'[d].stage] :
            /\ stageActions'[job'[d].stage][i].by = d
            /\ stageActions'[job'[d].stage][i].mode = job'[d].mode
    BY ONLY <2>2, <2>4
  <2>7. QED
    BY ONLY <2>5, <2>6 DEF Filed, ActionsAreFiledUnderTheirStage
<1>3. ASSUME NEW c \in Callers, Clear(c) PROVE Filed'
  <2>1. stageActions' = stageActions
    BY <1>3 DEF Clear
  <2>2. \A d \in Callers : ~Executing(d)'
    BY <1>3, ClearLast
  <2>3. QED
    BY <2>1, <2>2
<1>4. ASSUME NEW c \in Callers, RecordAction(c), KeepsExecutions PROVE Filed'
  <2> DEFINE e == [by |-> c, stage |-> job[c].stage, mode |-> job[c].mode]
             n0 == job[c].stage
  <2>1. /\ Executing(c) /\ n0 \in Stages /\ job' = job
        /\ stageActions' = [stageActions EXCEPT ![n0] = Append(@, e)]
    BY <1>4, RecordsOwnStage DEF RecordAction
  <2>2. \A d \in Callers : Executing(d)' => d = c
    BY <1>4, <2>1, OneInSection DEF KeepsExecutions, Executing, InSection
  <2>3. e.by = c /\ e.stage = n0 /\ e.mode = job[c].mode
    OBVIOUS
  <2>4. \A n \in Stages : \A i \in DOMAIN stageActions'[n] :
          \/ i \in DOMAIN stageActions[n] /\ stageActions'[n][i] = stageActions[n][i]
          \/ n = n0 /\ stageActions'[n][i] = e
    <3> HIDE DEF e, n0
    <3>1. QED
      BY <2>1
  <2>5. QED
    BY <2>1, <2>2, <2>3, <2>4
<1>5. QED
  BY <1>1, <1>2, <1>3, <1>4, StepShapes

\* With one Tester the recording state is that of the one execution in
\* progress: two calls never interleave their Begin and Clear.
THEOREM RecordingStateIsOwned ==
  ASSUME SingleTester
  PROVE  Spec => []RecordingIsTheExecutions
<1>1. Init => RecordingIsTheExecutions
  BY DEF Init, RecordingIsTheExecutions, Executing
<1>2. IInv /\ RecordingIsTheExecutions /\ [Next]_vars => RecordingIsTheExecutions'
  BY FlagStep
<1>3. QED
  BY <1>1, <1>2, LocksCorrect, PTL DEF Spec

\* With one Tester every action is filed under the stage that performed it, and
\* an executing stage's list holds actions of this execution only.
THEOREM ActionsFiled ==
  ASSUME SingleTester
  PROVE  Spec => []ActionsAreFiledUnderTheirStage
<1>1. Init => Filed
  BY DEF Init, Filed, ActionsAreFiledUnderTheirStage, Executing
<1>2. IInv /\ RecordingIsTheExecutions /\ Filed /\ [Next]_vars => Filed'
  BY FiledStep
<1>3. QED
  BY <1>1, <1>2, LocksCorrect, RecordingStateIsOwned, PTL DEF Spec, Filed

\* With one Tester a helper's IsDryRun answers for the call it is part of.
THEOREM DryRunAnswer ==
  ASSUME SingleTester
  PROVE  Spec => IsDryRunAnswersForTheCaller
<1> DEFINE Answers == \A c \in Callers : pc[c] = "check" /\ pc'[c] # "check" =>
                        (pc'[c] = "act" <=> job[c].mode = "real")
<1>1. IInv /\ RecordingIsTheExecutions /\ [Next]_vars => [Answers]_vars
  <2> SUFFICES ASSUME IInv, RecordingIsTheExecutions, [Next]_vars,
                      NEW c \in Callers, pc[c] = "check", pc'[c] # "check"
               PROVE  pc'[c] = "act" <=> job[c].mode = "real"
    OBVIOUS
  <2>1. isDryRun <=> job[c].mode = "dry"
    BY DEF RecordingIsTheExecutions, Executing
  <2>2. IsDryRun(c)
    <3> USE DEF IInv, TypeOK
    <3>1. ~UNCHANGED vars
      BY DEF vars
    <3>2. ~\E t \in Testers, n \in Stages : Stage(t, n)
      BY DEF Stage
    <3>3. ASSUME NEW d \in Callers, Call(d) \/ Locks(d) \/ Unlocks(d) PROVE FALSE
      BY <3>3 DEF Call, RunStageByName, TryRunStageByName, DryRunAll, Locks, LockRun,
                  RLock, RWake, WLock, WDrained, Unlocks, RUnlock, UnlockRun,
                  WUnlock, Leave
    <3>4. ASSUME NEW d \in Callers, Executes(d) PROVE d = c /\ IsDryRun(d)
      BY <3>4 DEF Executes, Begin, StageNotFound, RecordAction, IsDryRun,
                  SideEffectDone, StageFuncEnds, Clear
    <3>5. QED
      BY <3>1, <3>2, <3>3, <3>4 DEF Next
  <2>3. QED
    BY <2>1, <2>2 DEF IsDryRun, IInv, TypeOK, Job, Mode
<1>2. QED
  BY <1>1, LocksCorrect, RecordingStateIsOwned, PTL DEF Spec, IsDryRunAnswersForTheCaller
-----------------------------------------------------------------------------
\* Refinement: with one Tester, Tester implements StageRunner.

ExecutionOf(c) == [by |-> c, stage |-> job[c].stage, mode |-> job[c].mode]

\* Active is the one execution in progress, now and after a step.
LEMMA ActiveNow ==
  ASSUME NEW c \in Callers, \A d \in Callers : Executing(d) <=> d = c
  PROVE  Active = ExecutionOf(c)
<1>1. (CHOOSE d \in Callers : Executing(d)) = c
  OBVIOUS
<1>2. QED
  BY <1>1 DEF Active, ExecutionOf

LEMMA ActiveNext ==
  ASSUME NEW c \in Callers, \A d \in Callers : Executing(d)' <=> d = c
  PROVE  Active' = ExecutionOf(c)'
<1>1. (CHOOSE d \in Callers : Executing(d)') = c
  OBVIOUS
<1>2. QED
  BY <1>1 DEF Active, ExecutionOf

LEMMA ExecutionTyped ==
  ASSUME IInv, NEW c \in Callers, InSection(c)
  PROVE  ExecutionOf(c) \in Serial!Execution
BY DEF IInv, TypeOK, JobInv, JobFits, InSection, ExecutionOf,
       Serial!Execution, Job, Mode

\* A step that keeps the executions keeps Active.
LEMMA ActiveKept ==
  ASSUME SingleTester, IInv, KeepsExecutions
  PROVE  Active' = Active
<1>1. CASE \A c \in Callers : ~Executing(c)
  BY <1>1 DEF KeepsExecutions, Active
<1>2. ASSUME NEW c \in Callers, Executing(c) PROVE Active' = Active
  <2>1. \A d \in Callers : Executing(d) <=> d = c
    BY <1>2, OneInSection DEF Executing, InSection
  <2>2. \A d \in Callers : Executing(d)' <=> d = c
    BY <2>1 DEF KeepsExecutions
  <2>3. ExecutionOf(c)' = ExecutionOf(c)
    BY <1>2 DEF KeepsExecutions, ExecutionOf
  <2>4. QED
    BY <2>1, <2>2, <2>3, ActiveNow, ActiveNext
<1>3. QED
  BY <1>1, <1>2

\* Every step of the runner is a step of the serial runner, or leaves it alone.
LEMMA SerialStep ==
  ASSUME SingleTester, IInv, RecordingIsTheExecutions, [Next]_vars
  PROVE  [Serial!Next]_(Serial!vars)
<1>1. CASE KeepsExecutions /\ UNCHANGED stageActions
  BY <1>1, ActiveKept DEF Serial!vars
<1>2. ASSUME NEW c \in Callers, Begin(c) PROVE Serial!Next
  <2>1. Active = NoCaller
    BY <1>2, BeginAlone DEF Active
  <2>2. Active' = ExecutionOf(c)
    <3>1. Active' = ExecutionOf(c)'
      BY <1>2, BeginAlone, ActiveNext
    <3>2. QED
      BY <1>2, <3>1, BeginAlone DEF ExecutionOf
  <2>3. ExecutionOf(c) \in Serial!Execution
    BY <1>2, ExecutionTyped DEF Begin, InSection
  <2>4. stageActions' = [stageActions EXCEPT ![ExecutionOf(c).stage] = <<>>]
    BY <1>2 DEF Begin, ExecutionOf
  <2>5. QED
    BY <2>1, <2>2, <2>3, <2>4 DEF Serial!Next, Serial!Start
<1>3. ASSUME NEW c \in Callers, Executing(c)
      PROVE  Active = ExecutionOf(c) /\ Active \in Serial!Execution
  <2>1. \A d \in Callers : Executing(d) <=> d = c
    BY <1>3, OneInSection DEF Executing, InSection
  <2>2. Active = ExecutionOf(c)
    BY <2>1, ActiveNow
  <2>3. QED
    BY <1>3, <2>2, ExecutionTyped DEF Executing, InSection
<1>4. ASSUME NEW c \in Callers, Clear(c) PROVE Serial!Next
  <2>1. Active' = NoCaller
    BY <1>4, ClearLast DEF Active
  <2>2. Active \in Serial!Execution
    BY <1>3, <1>4, ClearLast
  <2>3. QED
    BY <1>4, <2>1, <2>2 DEF Clear, Serial!Next, Serial!Finish
<1>5. ASSUME NEW c \in Callers, RecordAction(c), KeepsExecutions PROVE Serial!Next
  <2>1. Active = ExecutionOf(c) /\ Active \in Serial!Execution
    BY <1>3, <1>5, RecordsOwnStage
  <2>2. stageActions' = [stageActions EXCEPT ![Active.stage] = Append(@, Active)]
    BY <1>5, <2>1, RecordsOwnStage DEF ExecutionOf
  <2>3. QED
    BY <1>5, <2>1, <2>2, ActiveKept DEF Serial!Next, Serial!Record
<1>6. QED
  BY <1>1, <1>2, <1>4, <1>5, StepShapes

\* With one Tester the runner implements the serial runner: one execution at a
\* time, its list emptied at its start, filled by it alone, and kept after it.
THEOREM ImplementsSerial ==
  ASSUME SingleTester
  PROVE  Spec => SerialSpec
<1>1. Init => Serial!Init
  BY DEF Init, Serial!Init, Active, Executing
<1>2. IInv /\ RecordingIsTheExecutions /\ [Next]_vars => [Serial!Next]_(Serial!vars)
  BY SerialStep
<1>3. QED
  BY <1>1, <1>2, LocksCorrect, RecordingStateIsOwned, PTL
     DEF Spec, SerialSpec, Serial!Spec

\* When no call is in progress the locks are free and nothing is recorded.
THEOREM Quiescence ==
  ASSUME SingleTester
  PROVE  Spec => []NothingIsLeftBehind
<1>1. IInv /\ RecordingIsTheExecutions => NothingIsLeftBehind
  <2> SUFFICES ASSUME IInv, RecordingIsTheExecutions,
                      \A c \in Callers : pc[c] = "idle"
               PROVE  /\ \A t \in Testers : runMu[t] = NoCaller
                      /\ readers = {} /\ queued = {} /\ writer = NoCaller
                      /\ ~isRecording /\ ~isDryRun /\ currentStage = NoStage
    BY DEF NothingIsLeftBehind
  <2> USE DEF IInv, TypeOK, LockInv, HoldsRun, HoldsRead, HoldsWrite, InSection
  <2>1. \A t \in Testers : runMu[t] = NoCaller
    <3>1. \A c \in Callers : ~HoldsRun(c)
      OBVIOUS
    <3>2. ASSUME NEW t \in Testers, NEW c \in Callers, runMu[t] = c PROVE FALSE
      <4> HIDE DEF HoldsRun
      <4>1. QED
        BY <3>1, <3>2 DEF RunMuInv
    <3>3. QED
      BY <3>2
  <2>2. readers = {} /\ queued = {}
    BY DEF ReadersInv
  <2>3. writer = NoCaller
    BY DEF WriterInv
  <2>4. ~isRecording /\ ~isDryRun /\ currentStage = NoStage
    BY DEF RecordingIsTheExecutions, Executing
  <2>5. QED
    BY <2>1, <2>2, <2>3, <2>4
<1>2. QED
  BY <1>1, LocksCorrect, RecordingStateIsOwned, PTL
-----------------------------------------------------------------------------
(***************************************************************************)
(* The command mode, for any number of runs, commands and ticks, with or   *)
(* without a timeout.                                                      *)
(***************************************************************************)

LEMMA RunFacts == NoRun \notin Runs /\ \A r \in Runs : r \in Nat
BY SessionAssumption DEF Runs, NoRun

\* Initially nothing runs.
LEMMA InitInv == SessionInit => SessionTypeOK /\ SessionInv
<1> SUFFICES ASSUME SessionInit PROVE SessionTypeOK /\ SessionInv
  OBVIOUS
<1>1. PlainLine("LINES", NoRun) \in Line
  BY DEF PlainLine, Line, Kind
<1>2. SessionTypeOK
  <2>1. out \in Seq(Line) /\ reply \in Line
    BY <1>1 DEF SessionInit
  <2>2. last \in [run : Runs \cup {NoRun}, result : Result \cup {"none"}]
    BY DEF SessionInit
  <2>3. /\ exec \in [Runs -> {"none", "accepted", "running", "stopping",
                              "aborting", "respond", "done"}]
        /\ stage \in [Runs -> {"none", "executing", "gone"} \cup Result]
        /\ beats \in [Runs -> Nat]
    BY DEF SessionInit
  <2>4. QED
    BY <2>1, <2>2, <2>3 DEF SessionInit, SessionTypeOK, NoRun
<1>3. SessionInv
  BY RunFacts DEF SessionInit, SessionInv, Occupies
<1>4. QED
  BY <1>2, <1>3

\* Lines the session writes are lines.
LEMMA LineTypes ==
  ASSUME SessionTypeOK
  PROVE  /\ \A k \in Kind, r \in Runs \cup {NoRun} : PlainLine(k, r) \in Line
         /\ StatusLine \in Line
         /\ \A r \in Runs : stage[r] \in Result =>
              [kind |-> "RESULT", run |-> r, result |-> stage[r]] \in Line
<1>1. \A k \in Kind, r \in Runs \cup {NoRun} : PlainLine(k, r) \in Line
  BY DEF PlainLine, Line
<1>2. StatusLine \in Line
  BY <1>1 DEF StatusLine, Line, SessionTypeOK, Kind
<1>3. QED
  BY <1>1, <1>2 DEF Line, Kind

LEMMA EmitTyped ==
  ASSUME out \in Seq(Line), NEW l \in Line, Emit(l)
  PROVE  out' \in Seq(Line)
BY DEF Emit

\* Only the run that occupies the session can be published, and only a free
\* session accepts: so the session's record and its goroutines stay in line.
LEMMA SessionStep == SessionTypeOK /\ SessionInv /\ [SessionNext]_sessionVars => SessionInv'
<1> SUFFICES ASSUME SessionTypeOK, SessionInv, [SessionNext]_sessionVars PROVE SessionInv'
  OBVIOUS
<1> USE SessionAssumption DEF SessionTypeOK, SessionInv, Occupies, Runs, NoRun, Result,
        sharedVars, mainVars
<1>0. ASSUME UNCHANGED <<accepted, runningStage, exec, stage>>,
             main' \in {main, "read", "reply", "exitNote", "waitIdle", "waitIdleEOF"}
      PROVE  SessionInv'
  BY <1>0
<1>1. ASSUME ReadsCommand PROVE SessionInv'
  <2>1. CASE HandleRun
    BY <2>1 DEF HandleRun, ReadLine
  <2>2. CASE HandleOther \/ HandleStatus \/ HandleRunBusy
    <3>1. Respond(reply')
      BY <2>2 DEF HandleOther, HandleStatus, HandleRunBusy, Respond
    <3> QED BY <1>0, <3>1 DEF Respond
  <2>3. CASE HandleExit
    BY <2>3 DEF HandleExit, ReadLine
  <2>4. CASE ReadEOF
    BY <2>4 DEF ReadEOF
  <2>5. QED
    BY <1>1, <2>1, <2>2, <2>3, <2>4 DEF ReadsCommand
<1>2. ASSUME MainGoesOn PROVE SessionInv'
  <2>1. CASE GoExecute
    BY <2>1 DEF GoExecute
  <2>2. CASE EmitRunning
    BY <2>2 DEF EmitRunning
  <2>3. CASE WriteReply
    BY <2>3 DEF WriteReply
  <2>4. CASE EmitExit
    BY <2>4 DEF EmitExit
  <2>5. CASE WaitIdle \/ EmitBye
    BY <2>5 DEF WaitIdle, EmitBye
  <2>6. QED
    BY <1>2, <2>1, <2>2, <2>3, <2>4, <2>5 DEF MainGoesOn
<1>3. CASE ProcessReturns
  BY <1>3 DEF ProcessReturns
<1>4. ASSUME NEW r \in Runs, Executor(r) PROVE SessionInv'
  <2>1. CASE StageReturned(r)
    BY <2>1 DEF StageReturned
  <2>2. CASE HeartbeatStops(r)
    BY <2>2 DEF HeartbeatStops
  <2>3. CASE Publish(r)
    BY <2>3 DEF Publish
  <2>4. CASE EmitResult(r)
    BY <2>4 DEF EmitResult
  <2>5. QED
    BY <1>4, <2>1, <2>2, <2>3, <2>4 DEF Executor
<1>5. ASSUME NEW r \in Runs, StageEnds(r) PROVE SessionInv'
  <2>1. /\ UNCHANGED <<mainVars, sharedVars, exec>> /\ stage[r] = "executing"
        /\ \E to \in {"gone"} \cup Result : stage' = [stage EXCEPT ![r] = to]
    BY <1>5 DEF StageEnds
  <2>2. exec[r] \in {"running", "aborting"} /\ r <= accepted
    BY <2>1
  <2>3. stage'[r] \in {"gone"} \cup Result /\ \A q \in Runs \ {r} : stage'[q] = stage[q]
    BY <2>1
  <2> QED BY <2>1, <2>2, <2>3
<1>6. ASSUME NEW r \in Runs, Heartbeat(r) \/ Exit2(r) PROVE SessionInv'
  <2>1. UNCHANGED <<mainVars, sharedVars, exec, stage>>
    BY <1>6 DEF Heartbeat, Exit2
  <2>2. QED
    BY <2>1
<1>7. ASSUME NEW r \in Runs, Timeout(r) PROVE SessionInv'
  BY <1>7 DEF Timeout
<1>8. CASE UNCHANGED sessionVars
  BY <1>8 DEF sessionVars
<1>9. QED
  BY <1>1, <1>2, <1>3, <1>4, <1>5, <1>6, <1>7, <1>8 DEF SessionNext

\* Every step keeps the type.
LEMMA SessionTypeStep == SessionTypeOK /\ SessionInv /\ [SessionNext]_sessionVars => SessionTypeOK'
<1> SUFFICES ASSUME SessionTypeOK, SessionInv, [SessionNext]_sessionVars PROVE SessionTypeOK'
  OBVIOUS
<1> USE DEF SessionTypeOK, sharedVars, mainVars
<1>1. ASSUME ReadsCommand PROVE SessionTypeOK'
  <2>1. CASE HandleRun
    <3>1. accepted + 1 \in Runs
      BY <2>1, SessionAssumption DEF HandleRun, Runs, NoRun
    <3>2. QED
      BY <2>1, <3>1 DEF HandleRun, ReadLine
  <2>2. ASSUME NEW l \in Line, ReadLine, Respond(l) PROVE SessionTypeOK'
    BY <2>2 DEF ReadLine, Respond
  <2>3. CASE HandleOther \/ HandleStatus \/ HandleRunBusy
    <3>1. /\ PlainLine("LINES", NoRun) \in Line /\ StatusLine \in Line
          /\ PlainLine("BUSY", runningStage) \in Line
      BY LineTypes DEF Kind
    <3>2. QED
      BY <2>2, <2>3, <3>1 DEF HandleOther, HandleStatus, HandleRunBusy
  <2>4. CASE HandleExit
    <3>1. PlainLine("EXIT", runningStage) \in Line
      BY LineTypes DEF Kind
    <3>2. QED
      BY <2>4, <3>1 DEF HandleExit, ReadLine
  <2>5. CASE ReadEOF
    BY <2>5 DEF ReadEOF
  <2>6. QED
    BY <1>1, <2>1, <2>3, <2>4, <2>5 DEF ReadsCommand
<1>2. ASSUME MainGoesOn PROVE SessionTypeOK'
  <2>1. CASE GoExecute
    BY <2>1 DEF GoExecute, SessionInv
  <2>2. CASE EmitRunning
    <3>1. PlainLine("RUNNING", accepted) \in Line
      BY LineTypes DEF Kind
    <3>2. out' \in Seq(Line)
      BY <2>2, <3>1, EmitTyped DEF EmitRunning
    <3>3. QED
      BY <2>2, <3>2 DEF EmitRunning
  <2>3. CASE WriteReply \/ EmitExit
    <3>1. out' \in Seq(Line)
      BY <2>3, EmitTyped DEF WriteReply, EmitExit
    <3>2. QED
      BY <2>3, <3>1 DEF WriteReply, EmitExit
  <2>4. CASE WaitIdle
    BY <2>4 DEF WaitIdle
  <2>5. CASE EmitBye
    <3>1. PlainLine("BYE", NoRun) \in Line
      BY LineTypes DEF Kind
    <3>2. out' \in Seq(Line)
      BY <2>5, <3>1, EmitTyped DEF EmitBye
    <3>3. QED
      BY <2>5, <3>2 DEF EmitBye
  <2>6. QED
    BY <1>2, <2>1, <2>2, <2>3, <2>4, <2>5 DEF MainGoesOn
<1>3. CASE ProcessReturns
  BY <1>3 DEF ProcessReturns
<1>4. ASSUME NEW r \in Runs, Executor(r) PROVE SessionTypeOK'
  <2>1. CASE StageReturned(r)
    BY <2>1 DEF StageReturned
  <2>2. CASE HeartbeatStops(r)
    BY <2>2 DEF HeartbeatStops
  <2>3. CASE Publish(r)
    <3>1. stage[r] \in Result
      BY <2>3 DEF Publish, SessionInv
    <3>2. QED
      BY <2>3, <3>1 DEF Publish
  <2>4. CASE EmitResult(r)
    <3>1. stage[r] \in Result
      BY <2>4 DEF EmitResult, SessionInv
    <3>2. [kind |-> "RESULT", run |-> r, result |-> stage[r]] \in Line
      BY <3>1, LineTypes
    <3>3. out' \in Seq(Line)
      BY <2>4, <3>2, EmitTyped DEF EmitResult
    <3>4. QED
      BY <2>4, <3>3 DEF EmitResult
  <2>5. QED
    BY <1>4, <2>1, <2>2, <2>3, <2>4 DEF Executor
<1>5. ASSUME NEW r \in Runs, StageEnds(r) PROVE SessionTypeOK'
  <2>1. PICK res \in Result \cup {"gone"} : stage' = [stage EXCEPT ![r] = res]
    BY <1>5 DEF StageEnds
  <2>2. stage' \in [Runs -> {"none", "executing", "gone"} \cup Result]
    BY <2>1
  <2>3. QED
    BY <1>5, <2>2 DEF StageEnds
<1>6. ASSUME NEW r \in Runs, Heartbeat(r) \/ Timeout(r) PROVE SessionTypeOK'
  <2>1. PlainLine("HEARTBEAT", r) \in Line /\ PlainLine("TIMEOUT", r) \in Line
    BY LineTypes DEF Kind
  <2>2. out' \in Seq(Line)
    BY <1>6, <2>1, EmitTyped DEF Heartbeat, Timeout
  <2>3. CASE Heartbeat(r)
    BY <2>2, <2>3 DEF Heartbeat
  <2>4. CASE Timeout(r)
    BY <2>2, <2>4 DEF Timeout
  <2>5. QED
    BY <1>6, <2>3, <2>4
<1>7. ASSUME NEW r \in Runs, Exit2(r) PROVE SessionTypeOK'
  BY <1>7 DEF Exit2
<1>8. CASE UNCHANGED sessionVars
  BY <1>8 DEF sessionVars
<1>9. QED
  BY <1>1, <1>2, <1>3, <1>4, <1>5, <1>6, <1>7, <1>8 DEF SessionNext
-----------------------------------------------------------------------------
\* The inductive invariant of the session, and its type.
THEOREM SessionCorrect == SessionSpec => [](SessionTypeOK /\ SessionInv)
BY InitInv, SessionTypeStep, SessionStep, PTL DEF SessionSpec

\* No two stages execute at once: a run is accepted only by a free session, and
\* a run whose stage still executes keeps it, a timeout's included.
THEOREM OneStage == SessionSpec => []OneStageExecutes
<1>1. SessionTypeOK /\ SessionInv => OneStageExecutes
  BY DEF SessionInv, OneStageExecutes, Occupies
<1>2. QED
  BY <1>1, SessionCorrect, PTL

\* The session says "Bye." or returns only when no stage executes, nor ever
\* could have been abandoned.
THEOREM EndWaits == SessionSpec => []EndWaitsForStages
<1>1. SessionTypeOK /\ SessionInv => EndWaitsForStages
  BY RunFacts DEF SessionInv, EndWaitsForStages, Occupies
<1>2. QED
  BY <1>1, SessionCorrect, PTL
-----------------------------------------------------------------------------
(***************************************************************************)
(* The lines.                                                              *)
(***************************************************************************)

\* Writing a line adds it after the others.
LEMMA EmitForm ==
  ASSUME out \in Seq(Line), NEW l \in Line, Emit(l)
  PROVE  \E n \in Nat : /\ DOMAIN out' = (DOMAIN out) \cup {n} /\ out'[n] = l /\ n \in 1 .. n
                        /\ \A i \in DOMAIN out : out'[i] = out[i] /\ i \in 1 .. n /\ i < n
<1>1. /\ Len(out) + 1 \in Nat /\ DOMAIN out' = (DOMAIN out) \cup {Len(out) + 1}
      /\ out'[Len(out) + 1] = l /\ Len(out) + 1 \in 1 .. (Len(out) + 1)
      /\ \A i \in DOMAIN out : /\ out'[i] = out[i] /\ i \in 1 .. (Len(out) + 1)
                              /\ i < Len(out) + 1
  BY DEF Emit
<1>2. QED
  BY <1>1

\* What a run has reached, it keeps: that it was announced, its end and its result.
LEMMA Kept ==
  ASSUME SessionTypeOK, SessionInv, [SessionNext]_sessionVars, NEW q \in Runs
  PROVE  /\ Announced(q) => Announced(q)'
         /\ exec[q] \in {"respond", "done"} => /\ exec'[q] \in {"respond", "done"}
                                               /\ stage'[q] = stage[q]
         /\ exec[q] = "done" => exec'[q] = "done"
<1> DEFINE G == /\ Announced(q) => Announced(q)'
                /\ exec[q] \in {"respond", "done"} => /\ exec'[q] \in {"respond", "done"}
                                                      /\ stage'[q] = stage[q]
                /\ exec[q] = "done" => exec'[q] = "done"
<1>0. q \in Nat /\ accepted \in Nat /\ q # NoRun
  BY RunFacts DEF SessionTypeOK, Runs, NoRun
<1> USE DEF SessionTypeOK, SessionInv, Announced, sharedVars, mainVars
<1>1. CASE ReadsCommand
  <2>1. CASE HandleRun
    <3>1. accepted' = accepted + 1 /\ exec' = [exec EXCEPT ![accepted + 1] = "accepted"] /\ stage' = stage
          /\ main = "read"
      BY <2>1 DEF HandleRun, ReadLine
    <3>2. Announced(q) => Announced(q)'
      BY <1>0, <3>1
    <3>3. exec[q] # "none" => exec'[q] = exec[q]
      <4>1. exec[q] # "none" => q # accepted + 1
        BY <1>0
      <4>2. QED
        BY <3>1, <4>1
    <3>4. QED
      BY <3>1, <3>2, <3>3
  <2>2. CASE HandleOther \/ HandleStatus \/ HandleRunBusy
    BY <2>2 DEF HandleOther, HandleStatus, HandleRunBusy, ReadLine, Respond
  <2>3. CASE HandleExit \/ ReadEOF
    BY <2>3 DEF HandleExit, ReadLine, ReadEOF
  <2>4. QED
    BY <1>1, <2>1, <2>2, <2>3 DEF ReadsCommand
<1>2. CASE MainGoesOn
  <2>1. CASE GoExecute
    BY <2>1 DEF GoExecute
  <2>2. CASE EmitRunning \/ WriteReply \/ EmitExit \/ WaitIdle \/ EmitBye
    BY <2>2 DEF EmitRunning, WriteReply, EmitExit, WaitIdle, EmitBye
  <2>3. QED
    BY <1>2, <2>1, <2>2 DEF MainGoesOn
<1>3. ASSUME NEW r \in Runs, Executor(r) PROVE G
  BY <1>3 DEF Executor, StageReturned, HeartbeatStops, Publish, EmitResult
<1>4. ASSUME NEW r \in Runs, StageEnds(r) \/ Timeout(r) PROVE G
  BY <1>4 DEF StageEnds, Timeout
<1>5. ASSUME NEW r \in Runs, Heartbeat(r) \/ Exit2(r) PROVE G
  BY <1>5 DEF Heartbeat, Exit2
<1>6. CASE ProcessReturns \/ UNCHANGED sessionVars
  BY <1>6 DEF ProcessReturns, sessionVars
<1>7. QED
  BY <1>1, <1>2, <1>3, <1>4, <1>5, <1>6 DEF SessionNext
LEMMA FitsKept ==
  ASSUME SessionTypeOK, SessionInv, [SessionNext]_sessionVars, NEW l \in Line, Fits(l)
  PROVE  Fits(l)'
BY Kept DEF Fits

\* A run that executes, ends or has ended was announced.
LEMMA StartedIsAnnounced ==
  ASSUME SessionTypeOK, SessionInv, NEW r \in Runs, exec[r] \notin {"none", "accepted"}
  PROVE  Announced(r)
<1>1. r \in Nat /\ accepted \in Nat
  BY RunFacts DEF SessionTypeOK, Runs, NoRun
<1>2. QED
  BY <1>1 DEF SessionInv, Announced

\* What may follow the lines that there are.
MayFollow(l) ==
  /\ l.kind \in {"RUNNING", "HEARTBEAT", "RESULT", "TIMEOUT"} =>
       \A i \in DOMAIN out : out[i].kind = "RESULT" => out[i].run # l.run
  /\ l.kind \in {"RUNNING", "HEARTBEAT", "TIMEOUT"} =>
       \A i \in DOMAIN out : out[i].kind = "STATUS IDLE" => out[i].run # l.run
  /\ l.kind = "RUNNING" => \A i \in DOMAIN out : out[i].run # l.run
  /\ l.kind \in {"BUSY", "STATUS RUNNING", "EXIT", "RESULT"} => Written("RUNNING", l.run)
  /\ l.kind = "EXIT" => l.run \in Runs

\* Every line that is written fits, and may follow those before it.
LEMMA WrittenFits ==
  ASSUME SessionTypeOK, SessionInv, LinesInv, [SessionNext]_sessionVars
  PROVE  \/ out' = out
         \/ \E l \in Line : Emit(l) /\ Fits(l)' /\ MayFollow(l)
<1>0. /\ out \in Seq(Line) /\ accepted \in Nat /\ NoRun \notin Runs
      /\ \A i \in DOMAIN out : out[i] \in Line /\ Fits(out[i])
  <2>1. out \in Seq(Line) /\ \A i \in DOMAIN out : Fits(out[i])
    BY DEF SessionTypeOK, LinesInv
  <2>2. accepted \in Nat /\ NoRun \notin Runs
    BY RunFacts DEF SessionTypeOK, Runs, NoRun
  <2>3. QED
    BY <2>1, <2>2
<1> DEFINE G == \E l \in Line : Emit(l) /\ Fits(l)' /\ MayFollow(l)
<1> USE DEF sharedVars, mainVars
<1>1. CASE EmitRunning
  <2>1. accepted \in Runs /\ main = "announce" /\ main' = "go" /\ accepted' = accepted
        /\ Emit(PlainLine("RUNNING", accepted))
    BY <1>1 DEF EmitRunning, SessionInv
  <2>2. PICK l \in Line : l = PlainLine("RUNNING", accepted)
    BY <2>1, LineTypes DEF Kind
  <2>3. l.kind = "RUNNING" /\ l.run = accepted /\ l.result = "none" /\ Emit(l)
    BY <2>1, <2>2 DEF PlainLine
  <2>4. Fits(l)'
    <3>1. l.run <= accepted' /\ main' # "announce"
      BY <1>0, <2>1, <2>3
    <3>2. Announced(l.run)' /\ l.run \in Runs
      BY <2>1, <2>3, <3>1 DEF Announced
    <3>3. QED
      BY <2>3, <3>2 DEF Fits
  <2>5. \A i \in DOMAIN out : out[i].run # accepted
    BY <1>0, <2>1 DEF Fits, Announced
  <2>6. MayFollow(l)
    BY <2>3, <2>5 DEF MayFollow
  <2>7. QED
    BY <2>3, <2>4, <2>6
<1>2. CASE WriteReply \/ EmitExit
  <2>1. main \in {"reply", "exitNote"} /\ Emit(reply) /\ reply \in Line
    BY <1>2 DEF WriteReply, EmitExit, SessionTypeOK
  <2>2. Fits(reply) /\ reply.kind \in {"LINES", "BUSY", "STATUS RUNNING", "STATUS IDLE", "EXIT"}
        /\ (reply.kind = "EXIT" => reply.run \in Runs)
    BY <2>1 DEF LinesInv
  <2>3. PICK l \in Line : l = reply
    BY <2>1
  <2>4. Emit(l) /\ Fits(l) /\ l.kind \in {"LINES", "BUSY", "STATUS RUNNING", "STATUS IDLE", "EXIT"}
        /\ (l.kind = "EXIT" => l.run \in Runs)
    BY <2>1, <2>2, <2>3
  <2>5. Fits(l)'
    BY <2>4, FitsKept
  <2>6. MayFollow(l)
    BY <2>4 DEF MayFollow, Fits, LinesInv
  <2>7. QED
    BY <2>4, <2>5, <2>6
<1>3. CASE EmitBye
  <2> DEFINE l == PlainLine("BYE", NoRun)
  <2>1. l \in Line /\ l.kind = "BYE" /\ l.run = NoRun /\ l.result = "none" /\ Emit(l)
    BY <1>3, LineTypes DEF Kind, PlainLine, EmitBye
  <2> HIDE DEF l
  <2>2. Fits(l)' /\ MayFollow(l)
    BY <1>0, <2>1 DEF Fits, MayFollow
  <2>3. QED
    BY <2>1, <2>2
<1>4. ASSUME NEW r \in Runs, Heartbeat(r) \/ Timeout(r) PROVE G
  <2>1. exec[r] \in {"running", "stopping", "aborting"}
    BY <1>4 DEF Heartbeat, Timeout, LinesInv
  <2>2. PICK k \in {"HEARTBEAT", "TIMEOUT"} : Emit(PlainLine(k, r))
    BY <1>4 DEF Heartbeat, Timeout
  <2> DEFINE l == PlainLine(k, r)
  <2>3. l \in Line /\ l.kind = k /\ l.run = r /\ l.result = "none"
    BY LineTypes DEF Kind, PlainLine
  <2>4. Announced(r)'
    BY <2>1, StartedIsAnnounced, Kept
  <2> HIDE DEF l
  <2>5. Fits(l)'
    BY <2>3, <2>4 DEF Fits
  <2>6. MayFollow(l)
    BY <1>0, <2>1, <2>3 DEF MayFollow, Fits
  <2>7. QED
    BY <2>2, <2>3, <2>5, <2>6 DEF l
<1>5. ASSUME NEW r \in Runs, EmitResult(r) PROVE G
  <2> DEFINE l == [kind |-> "RESULT", run |-> r, result |-> stage[r]]
  <2>1. exec[r] = "respond" /\ stage[r] \in Result /\ exec'[r] = "done" /\ stage'[r] = stage[r] /\ Emit(l)
    BY <1>5 DEF EmitResult, SessionInv, SessionTypeOK
  <2>2. PICK k \in Line : k = l
    BY <2>1, LineTypes
  <2>3. k.kind = "RESULT" /\ k.run = r /\ k.result = stage[r] /\ Emit(k)
    BY <2>1, <2>2
  <2>4. Announced(r) /\ Announced(r)'
    BY <2>1, StartedIsAnnounced, Kept
  <2> HIDE DEF l
  <2>5. Fits(k)'
    BY <2>1, <2>3, <2>4 DEF Fits
  <2>6. MayFollow(k)
    BY <1>0, <2>1, <2>3, <2>4 DEF MayFollow, Fits, LinesInv
  <2>7. QED
    BY <2>3, <2>5, <2>6
<1>6. ASSUME ~EmitRunning, ~WriteReply, ~EmitExit, ~EmitBye,
             \A r \in Runs : ~Heartbeat(r) /\ ~Timeout(r) /\ ~EmitResult(r)
      PROVE  out' = out
  BY <1>6 DEF SessionNext, ReadsCommand, MainGoesOn, Executor, HandleOther, HandleStatus, HandleRunBusy, Respond, HandleRun,
       HandleExit, ReadEOF, GoExecute, WaitIdle, ProcessReturns, StageReturned, HeartbeatStops, Publish, StageEnds,
       Exit2, sessionVars
<1>7. QED
  BY <1>1, <1>2, <1>3, <1>4, <1>5, <1>6
\* A line stays written.
LEMMA StaysWritten ==
  ASSUME SessionTypeOK, SessionInv, LinesInv, [SessionNext]_sessionVars, NEW r, NEW k
  PROVE  Written(k, r) => Written(k, r)'
<1>1. CASE out' = out
  BY <1>1 DEF Written, IsLine
<1>2. ASSUME NEW l \in Line, Emit(l) PROVE Written(k, r) => Written(k, r)'
  <2>1. PICK n \in Nat : /\ DOMAIN out' = (DOMAIN out) \cup {n}
                         /\ \A i \in DOMAIN out : out'[i] = out[i]
    BY <1>2, EmitForm DEF SessionTypeOK
  <2>2. QED
    BY <2>1 DEF Written, IsLine
<1>3. QED
  BY <1>1, <1>2, WrittenFits

\* What the reading goroutine composes fits.
LEMMA ReplyFits ==
  ASSUME SessionTypeOK, SessionInv, LinesInv, [SessionNext]_sessionVars, main' \in {"reply", "exitNote"}
  PROVE  /\ Fits(reply)'
         /\ reply'.kind \in {"LINES", "BUSY", "STATUS RUNNING", "STATUS IDLE", "EXIT"}
         /\ reply'.kind = "EXIT" => reply'.run \in Runs
<1> DEFINE G == /\ Fits(reply)'
                /\ reply'.kind \in {"LINES", "BUSY", "STATUS RUNNING", "STATUS IDLE", "EXIT"}
                /\ reply'.kind = "EXIT" => reply'.run \in Runs
<1>0. NoRun \notin Runs /\ accepted \in Nat /\ reply \in Line /\ \A r \in Runs : r \in Nat
  <2>1. reply \in Line
    BY DEF SessionTypeOK
  <2>2. QED
    BY <2>1, RunFacts DEF SessionTypeOK, Runs, NoRun
<1>1. ASSUME NEW l, l = reply', Fits(l)' PROVE Fits(reply)'
  BY <1>1 DEF Fits
<1>2. CASE main \in {"reply", "exitNote"} /\ reply' = reply
  <2>1. PICK l \in Line : l = reply /\ l = reply'
    BY <1>0, <1>2
  <2>2. Fits(l)
    BY <1>2, <2>1 DEF LinesInv
  <2>3. Fits(l)'
    BY <2>2, FitsKept
  <2>4. QED
    BY <1>1, <1>2, <2>1, <2>3 DEF LinesInv
<1>3. ASSUME main = "read", UNCHANGED <<accepted, exec, stage>>,
             NEW l \in Line, l = reply', l.run \in Runs => l.run <= accepted,
             l.kind \in {"LINES", "BUSY", "STATUS RUNNING", "STATUS IDLE", "EXIT"},
             l.kind \in {"BUSY", "STATUS RUNNING", "EXIT"} => l.run \in Runs,
             l.kind = "STATUS IDLE" /\ l.run \in Runs => exec[l.run] \in {"respond", "done"},
             l.result # "none" => /\ l.run \in Runs /\ exec[l.run] \in {"respond", "done"}
                                  /\ stage[l.run] = l.result
      PROVE  G
  <2>1. Announced(l.run)' \/ l.run \notin Runs
    <3>1. main' # "announce" /\ accepted' = accepted
      BY <1>3
    <3>2. QED
      BY <1>3, <3>1 DEF Announced
  <2>2. Fits(l)'
    BY <1>3, <2>1 DEF Fits
  <2>3. QED
    BY <1>1, <1>3, <2>2
<1>4. \A r \in Runs : runningStage = r => r <= accepted
  BY <1>0 DEF SessionInv, Occupies
<1> USE DEF ReadLine, Respond, sharedVars
<1>5. CASE HandleOther
  <2>1. PICK l \in Line : l = PlainLine("LINES", NoRun)
    BY LineTypes DEF Kind
  <2>2. l.kind = "LINES" /\ l.run = NoRun /\ l.result = "none"
    BY <2>1 DEF PlainLine
  <2>3. main = "read" /\ reply' = l /\ UNCHANGED <<accepted, exec, stage>>
    BY <1>5, <2>1 DEF HandleOther
  <2>4. QED
    BY <1>0, <1>3, <2>2, <2>3
<1>6. CASE HandleRunBusy
  <2>1. PICK l \in Line : l = PlainLine("BUSY", runningStage)
    BY LineTypes DEF Kind, SessionTypeOK
  <2>2. l.kind = "BUSY" /\ l.run = runningStage /\ l.result = "none"
    BY <2>1 DEF PlainLine
  <2>3. main = "read" /\ reply' = l /\ UNCHANGED <<accepted, exec, stage>> /\ runningStage \in Runs
    BY <1>6, <2>1 DEF HandleRunBusy, SessionTypeOK
  <2>4. QED
    BY <1>3, <1>4, <2>2, <2>3
<1>7. CASE HandleExit
  <2>1. PICK l \in Line : l = PlainLine("EXIT", runningStage)
    BY LineTypes DEF Kind, SessionTypeOK
  <2>2. l.kind = "EXIT" /\ l.run = runningStage /\ l.result = "none"
    BY <2>1 DEF PlainLine
  <2>3. main = "read" /\ reply' = l /\ UNCHANGED <<accepted, exec, stage>> /\ runningStage \in Runs
    BY <1>7, <2>1 DEF HandleExit, SessionTypeOK
  <2>4. QED
    BY <1>3, <1>4, <2>2, <2>3
<1>8. CASE HandleStatus
  <2>1. PICK l \in Line : l = StatusLine
    BY LineTypes
  <2>2. main = "read" /\ reply' = l /\ UNCHANGED <<accepted, exec, stage>>
    BY <1>8, <2>1 DEF HandleStatus
  <2>3. CASE runningStage # NoRun
    <3>1. l.kind = "STATUS RUNNING" /\ l.run = runningStage /\ l.result = "none" /\ runningStage \in Runs
      BY <2>1, <2>3 DEF StatusLine, PlainLine, SessionTypeOK
    <3>2. QED
      BY <1>3, <1>4, <2>2, <3>1
  <2>4. CASE runningStage = NoRun
    <3>1. l.kind = "STATUS IDLE" /\ l.run = last.run /\ l.result = last.result
      BY <2>1, <2>4 DEF StatusLine
    <3>2. last.run \in Runs \/ last.run = NoRun
      BY DEF SessionTypeOK
    <3>3. CASE last.run \in Runs
      <4>1. exec[last.run] \in {"respond", "done"} /\ last.result = stage[last.run]
        BY <3>3 DEF LinesInv
      <4>2. last.run <= accepted
        BY <1>0, <3>3, <4>1 DEF SessionInv
      <4>3. QED
        BY <1>3, <2>2, <3>1, <3>3, <4>1, <4>2
    <3>4. CASE last.run = NoRun
      <4>1. last.result = "none"
        BY <3>4 DEF LinesInv
      <4>2. QED
        BY <1>0, <1>3, <2>2, <3>1, <3>4, <4>1
    <3>5. QED
      BY <3>2, <3>3, <3>4
  <2>5. QED
    BY <2>3, <2>4
<1>9. ASSUME ~HandleOther, ~HandleRunBusy, ~HandleExit, ~HandleStatus
      PROVE  main' = main /\ reply' = reply
  BY <1>9 DEF SessionNext, ReadsCommand, MainGoesOn, Executor, HandleRun, ReadEOF, GoExecute, EmitRunning, WriteReply, EmitExit,
       EmitBye, WaitIdle, ProcessReturns, StageReturned, HeartbeatStops, Publish, EmitResult, StageEnds, Heartbeat,
       Timeout, Exit2, sessionVars, mainVars
<1>10. QED
  BY <1>2, <1>5, <1>6, <1>7, <1>8, <1>9

\* Announced runs have their line.
LEMMA AnnouncedStep ==
  ASSUME SessionTypeOK, SessionInv, LinesInv, [SessionNext]_sessionVars, NEW q \in Runs, Announced(q)'
  PROVE  Written("RUNNING", q)'
<1>0. accepted \in Nat /\ q \in Nat
  BY RunFacts DEF SessionTypeOK, Runs, NoRun
<1>1. CASE Announced(q)
  BY <1>1, StaysWritten DEF LinesInv
<1>2. CASE EmitRunning /\ q = accepted
  <2>1. Emit(PlainLine("RUNNING", accepted)) /\ PlainLine("RUNNING", accepted) \in Line
    BY <1>2, LineTypes DEF EmitRunning, Kind, SessionTypeOK
  <2>2. PICK n \in DOMAIN out' : out'[n] = PlainLine("RUNNING", accepted)
    BY <2>1, EmitForm DEF SessionTypeOK
  <2>3. out'[n].kind = "RUNNING" /\ out'[n].run = q
    BY <1>2, <2>2 DEF PlainLine
  <2>4. QED
    BY <2>3 DEF Written, IsLine
<1>3. ASSUME ~Announced(q), ~(EmitRunning /\ q = accepted) PROVE FALSE
  <2>1. CASE HandleRun
    <3>1. accepted' = accepted + 1 /\ main' = "announce" /\ main = "read"
      BY <2>1 DEF HandleRun, ReadLine
    <3>2. QED
      BY <1>0, <1>3, <3>1 DEF Announced
  <2>2. CASE EmitRunning
    <3>1. accepted' = accepted
      BY <2>2 DEF EmitRunning
    <3>2. QED
      BY <1>0, <1>3, <2>2, <3>1 DEF Announced
  <2>3. CASE ~HandleRun /\ ~EmitRunning
    <3>1. accepted' = accepted /\ (main = "announce" => main' = "announce")
      BY <2>3 DEF SessionNext, ReadsCommand, MainGoesOn, Executor, HandleOther, HandleStatus, HandleRunBusy, Respond, HandleExit,
           ReadLine, ReadEOF, GoExecute, WriteReply, EmitExit, EmitBye, WaitIdle, ProcessReturns, StageReturned,
           HeartbeatStops, Publish, EmitResult, StageEnds, Heartbeat, Timeout, Exit2, sessionVars, mainVars
    <3>2. QED
      BY <1>3, <3>1 DEF Announced
  <2>4. QED
    BY <2>1, <2>2, <2>3
<1>4. QED
  BY <1>1, <1>2, <1>3
\* Who may still write about a run, and the last result.
LEMMA LastStep ==
  ASSUME SessionTypeOK, SessionInv, LinesInv, [SessionNext]_sessionVars
  PROVE  /\ last'.run \in Runs =>
              exec'[last'.run] \in {"respond", "done"} /\ last'.result = stage'[last'.run]
         /\ last'.run = NoRun => last'.result = "none"
         /\ \A r \in beating' : exec'[r] \in {"running", "stopping", "aborting"}
<1> USE DEF sharedVars, mainVars
<1>1. ASSUME NEW r \in Runs, Publish(r)
      PROVE  /\ last'.run = r /\ last'.result = stage[r] /\ stage' = stage /\ exec'[r] = "respond"
             /\ \A q \in Runs \ {r} : exec'[q] = exec[q]
             /\ beating' = beating /\ r \notin beating
  BY <1>1 DEF Publish, SessionTypeOK
<1>2. (\A r \in Runs : ~Publish(r)) => last' = last
  BY DEF SessionNext, ReadsCommand, MainGoesOn, Executor, HandleOther, HandleStatus, HandleRunBusy, Respond, HandleRun,
       HandleExit, ReadLine, ReadEOF, GoExecute, EmitRunning, WriteReply, EmitExit, EmitBye, WaitIdle, ProcessReturns,
       StageReturned, HeartbeatStops, EmitResult, StageEnds, Heartbeat, Timeout, Exit2, sessionVars
<1>3. last'.run \in Runs => exec'[last'.run] \in {"respond", "done"} /\ last'.result = stage'[last'.run]
  BY <1>1, <1>2, Kept DEF LinesInv
<1>4. last'.run = NoRun => last'.result = "none"
  <2>1. NoRun \notin Runs /\ (last.run = NoRun => last.result = "none")
    BY RunFacts DEF LinesInv
  <2>2. CASE \E r \in Runs : Publish(r)
    BY <1>1, <2>1, <2>2
  <2>3. CASE \A r \in Runs : ~Publish(r)
    BY <1>2, <2>1, <2>3
  <2>4. QED
    BY <2>2, <2>3
<1>5. \A r \in beating' : exec'[r] \in {"running", "stopping", "aborting"}
  <2>0. \A r \in beating : r \in Runs /\ exec[r] \in {"running", "stopping", "aborting"}
    BY DEF LinesInv, SessionTypeOK
  <2>1. CASE GoExecute
    <3>1. main = "go" /\ accepted \in Runs /\ exec' = [exec EXCEPT ![accepted] = "running"]
          /\ beating' = beating \cup {accepted}
      BY <2>1 DEF GoExecute, SessionInv
    <3>2. QED
      BY <2>0, <3>1 DEF SessionTypeOK
  <2>2. CASE HandleRun
    <3>1. exec' = [exec EXCEPT ![accepted + 1] = "accepted"] /\ beating' = beating
      BY <2>2 DEF HandleRun
    <3>2. accepted + 1 \notin beating
      <4>1. accepted \in Nat /\ \A r \in Runs : r \in Nat
        BY RunFacts DEF SessionTypeOK, Runs, NoRun
      <4>2. QED
        BY <2>0, <4>1 DEF SessionInv
    <3>3. QED
      BY <2>0, <3>1, <3>2 DEF SessionTypeOK
  <2>3. ASSUME NEW r \in Runs, StageReturned(r) \/ Timeout(r) PROVE \A q \in beating' : exec'[q] \in {"running", "stopping", "aborting"}
    BY <2>0, <2>3 DEF StageReturned, Timeout, SessionTypeOK
  <2>4. ASSUME NEW r \in Runs, EmitResult(r) PROVE \A q \in beating' : exec'[q] \in {"running", "stopping", "aborting"}
    BY <2>0, <2>4 DEF EmitResult, SessionTypeOK
  <2>5. ASSUME NEW r \in Runs, Publish(r) PROVE \A q \in beating' : exec'[q] \in {"running", "stopping", "aborting"}
    BY <1>1, <2>0, <2>5
  <2>6. ASSUME ~GoExecute, ~HandleRun, \A r \in Runs : ~StageReturned(r) /\ ~Timeout(r) /\ ~EmitResult(r) /\ ~Publish(r)
        PROVE  exec' = exec /\ beating' \subseteq beating
    BY <2>6 DEF SessionNext, ReadsCommand, MainGoesOn, Executor, HandleOther, HandleStatus, HandleRunBusy, Respond,
         HandleExit, ReadLine, ReadEOF, EmitRunning, WriteReply, EmitExit, EmitBye, WaitIdle, ProcessReturns,
         HeartbeatStops, StageEnds, Heartbeat, Exit2, sessionVars
  <2>7. QED
    BY <2>0, <2>1, <2>2, <2>3, <2>4, <2>5, <2>6
<1>6. QED
  BY <1>3, <1>4, <1>5

LEMMA LinesStep ==
  ASSUME SessionTypeOK, SessionInv, LinesInv, [SessionNext]_sessionVars
  PROVE  LinesInv'
<1>1. ASSUME NEW i, NEW l \in Line, l = out'[i], Fits(l)'
      PROVE  Fits(out[i])'
  BY <1>1 DEF Fits
<1>2. \A i \in DOMAIN out : out[i] \in Line /\ Fits(out[i]) /\ (out[i].kind = "EXIT" => out[i].run \in Runs)
  <2>1. out \in Seq(Line)
    BY DEF SessionTypeOK
  <2>2. \A i \in DOMAIN out : out[i] \in Line
    BY <2>1
  <2>3. QED
    BY <2>2 DEF LinesInv
<1>3. \A l \in Line : Fits(l) => Fits(l)'
  BY FitsKept
<1>4. (\A i \in DOMAIN out : Fits(out[i]) /\ (out[i].kind = "EXIT" => out[i].run \in Runs))'
  <2>1. CASE out' = out
    <3>1. ASSUME NEW i \in DOMAIN out' PROVE Fits(out[i])' /\ (out'[i].kind = "EXIT" => out'[i].run \in Runs)
      <4>1. PICK l \in Line : l = out[i]
        BY <1>2, <2>1
      <4>2. Fits(l)' /\ l = out'[i]
        BY <1>2, <1>3, <2>1, <4>1
      <4>3. QED
        BY <1>1, <1>2, <2>1, <4>2
    <3>2. QED
      BY <3>1
  <2>2. ASSUME NEW k \in Line, Emit(k), Fits(k)', MayFollow(k)
        PROVE  (\A i \in DOMAIN out : Fits(out[i]) /\ (out[i].kind = "EXIT" => out[i].run \in Runs))'
    <3>1. PICK n \in Nat : /\ DOMAIN out' = (DOMAIN out) \cup {n} /\ out'[n] = k
                           /\ \A i \in DOMAIN out : out'[i] = out[i]
      BY <2>2, EmitForm DEF SessionTypeOK
    <3>2. ASSUME NEW i \in DOMAIN out' PROVE Fits(out[i])' /\ (out'[i].kind = "EXIT" => out'[i].run \in Runs)
      <4>1. CASE i \in DOMAIN out
        <5>1. PICK l \in Line : l = out[i]
          BY <1>2, <4>1
        <5>2. Fits(l)' /\ l = out'[i]
          BY <1>2, <1>3, <3>1, <4>1, <5>1
        <5>3. QED
          BY <1>1, <1>2, <3>1, <4>1, <5>2
      <4>2. CASE i = n
        <5>1. k = out'[i]
          BY <3>1, <4>2
        <5>2. QED
          BY <1>1, <2>2, <5>1 DEF MayFollow
      <4>3. QED
        BY <3>1, <4>1, <4>2
    <3>3. QED
      BY <3>2
  <2>3. QED
    BY <2>1, <2>2, WrittenFits
<1>5. QED
  BY <1>4, AnnouncedStep, ReplyFits, LastStep DEF LinesInv

\* The order of the lines, and their truth, are kept by a line that may follow.
LEMMA OrderStep ==
  ASSUME SessionTypeOK, SessionInv, LinesInv, LinesInv', [SessionNext]_sessionVars, LinesOfARunAreOrdered, ReportsAreTrue
  PROVE  LinesOfARunAreOrdered' /\ ReportsAreTrue'
<1>1. \A i \in DOMAIN out' : out'[i].result # "none" => stage'[out'[i].run] = out'[i].result
  BY DEF LinesInv, Fits
<1>2. CASE out' = out
  BY <1>1, <1>2 DEF LinesOfARunAreOrdered, ReportsAreTrue, IsLine
<1>3. ASSUME NEW l \in Line, Emit(l), MayFollow(l)
      PROVE  LinesOfARunAreOrdered' /\ ReportsAreTrue'
  <2>1. PICK n \in Nat : /\ DOMAIN out' = (DOMAIN out) \cup {n} /\ out'[n] = l /\ n \in 1 .. n
                         /\ \A i \in DOMAIN out : out'[i] = out[i] /\ i \in 1 .. n /\ i < n
    BY <1>3, EmitForm DEF SessionTypeOK
  <2>2. \A i \in DOMAIN out : i \in Nat
    BY <2>1
  <2>3. LinesOfARunAreOrdered'
    <3>1. ASSUME NEW i \in DOMAIN out', NEW j \in DOMAIN out', i < j
          PROVE  /\ out'[i].kind = "RESULT" /\ out'[i].run = out'[j].run =>
                      out'[j].kind \notin {"RUNNING", "HEARTBEAT", "RESULT", "TIMEOUT"}
                 /\ out'[i].kind = "STATUS IDLE" /\ out'[i].run = out'[j].run =>
                      out'[j].kind \notin {"RUNNING", "HEARTBEAT", "TIMEOUT"}
                 /\ out'[j].kind = "RUNNING" => out'[i].run # out'[j].run
      <4>1. i \in DOMAIN out
        <5>1. j \in Nat /\ j <= n
          BY <2>1, <2>2
        <5>2. QED
          BY <2>1, <3>1, <5>1
      <4>2. CASE j \in DOMAIN out
        BY <2>1, <3>1, <4>1, <4>2 DEF LinesOfARunAreOrdered
      <4>3. CASE j = n
        BY <1>3, <2>1, <4>1, <4>3 DEF MayFollow
      <4>4. QED
        BY <2>1, <4>2, <4>3
    <3>2. QED
      BY <3>1 DEF LinesOfARunAreOrdered
  <2>4. ReportsAreTrue'
    <3>1. ASSUME NEW i \in DOMAIN out', out'[i].kind \in {"BUSY", "STATUS RUNNING", "EXIT", "RESULT"}
          PROVE  \E j \in 1 .. i : out'[j].kind = "RUNNING" /\ out'[j].run = out'[i].run
      <4>1. CASE i \in DOMAIN out
        <5>1. PICK j \in 1 .. i : out[j].kind = "RUNNING" /\ out[j].run = out[i].run
          BY <2>1, <3>1, <4>1 DEF ReportsAreTrue, IsLine
        <5>2. j \in DOMAIN out
          BY <4>1 DEF SessionTypeOK
        <5>3. QED
          BY <2>1, <4>1, <5>1, <5>2
      <4>2. CASE i = n
        <5>1. PICK j \in DOMAIN out : out[j].kind = "RUNNING" /\ out[j].run = l.run
          BY <1>3, <2>1, <3>1, <4>2 DEF MayFollow, Written, IsLine
        <5>2. QED
          BY <2>1, <4>2, <5>1
      <4>3. QED
        BY <2>1, <4>1, <4>2
    <3>2. QED
      BY <1>1, <3>1 DEF ReportsAreTrue, IsLine
  <2>5. QED
    BY <2>3, <2>4
<1>4. QED
  BY <1>2, <1>3, WrittenFits

LEMMA InitLines == SessionInit => LinesInv /\ LinesOfARunAreOrdered /\ ReportsAreTrue
<1> SUFFICES ASSUME SessionInit PROVE LinesInv /\ LinesOfARunAreOrdered /\ ReportsAreTrue
  OBVIOUS
<1>1. DOMAIN out = {} /\ main = "read" /\ beating = {} /\ last = [run |-> NoRun, result |-> "none"]
  BY DEF SessionInit
<1>2. \A r \in Runs : ~Announced(r)
  <2>1. accepted = 0 /\ \A r \in Runs : r \in Nat /\ r >= 1
    BY SessionAssumption DEF SessionInit, Runs
  <2>2. QED
    BY <2>1 DEF Announced
<1>3. QED
  BY <1>1, <1>2, RunFacts DEF LinesInv, LinesOfARunAreOrdered, ReportsAreTrue

\* Every line fits where it stands, and every run that may be told of was announced.
THEOREM LinesCorrect == SessionSpec => [](LinesInv /\ LinesOfARunAreOrdered /\ ReportsAreTrue)
<1> DEFINE I == SessionTypeOK /\ SessionInv /\ LinesInv /\ LinesOfARunAreOrdered /\ ReportsAreTrue
<1>1. SessionInit => I
  BY InitInv, InitLines
<1>2. I /\ [SessionNext]_sessionVars => I'
  BY SessionTypeStep, SessionStep, LinesStep, OrderStep
<1>3. I => LinesInv /\ LinesOfARunAreOrdered /\ ReportsAreTrue
  OBVIOUS
<1> HIDE DEF I
<1>4. QED
  BY <1>1, <1>2, <1>3, PTL DEF SessionSpec

\* Whatever the four kinds of goroutines write, and whenever: a run's RUNNING line comes
\* before all other lines about it, and none of its progress follows its result or a
\* STATUS IDLE that names it.
THEOREM LinesOrdered == SessionSpec => []LinesOfARunAreOrdered
BY LinesCorrect, PTL

\* A driver may believe what it reads: outcomes are those of the stages, and a run that
\* is named was announced before.
THEOREM ReportsTrue == SessionSpec => []ReportsAreTrue
BY LinesCorrect, PTL
=============================================================================
