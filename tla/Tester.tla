------------------------------- MODULE Tester -------------------------------
(***************************************************************************)
(* The stage runner of pkg/v1/tester.go: goroutines ("callers") that call  *)
(* RunStageByName, TryRunStageByName and DryRunAll on Tester values, the   *)
(* locks these take (runMu of each Tester, the package's dryRunMu), and    *)
(* the package-global recording state every stage body writes through      *)
(* RecordAction and reads through IsDryRun.                                *)
(*                                                                         *)
(* One action is one critical section, or one lock operation, of the code. *)
(* The sections under actionMu and t.mu are single actions: nothing in     *)
(* them waits.                                                             *)
(***************************************************************************)
EXTENDS Naturals, Sequences

CONSTANTS Testers,      \* the Tester values of the process
          Callers,      \* the goroutines that call them
          Stages,       \* the stage names
          NoStage,      \* the empty name ""
          NoTester,     \* the tester of a caller that is in no call
          NoCaller,     \* the owner of a free lock
          MaxActions,   \* bound: recorded actions of one stage
          MaxStages     \* bound: stages registered with one Tester

ASSUME ConstantsAssumption ==
  /\ NoStage \notin Stages
  /\ NoTester \notin Testers
  /\ NoCaller \notin Callers
  /\ MaxActions \in Nat
  /\ MaxStages \in Nat

VARIABLES
  stages,        \* Tester.Stages: per tester, the registered names in order
  runMu,         \* Tester.runMu: per tester, its holder or NoCaller
  readers,       \* dryRunMu: the callers that hold it for reading
  queued,        \* dryRunMu: readers that arrived after a writer, and wait
  writer,        \* dryRunMu: the caller in or past Lock, or NoCaller
  currentStage,  \* the package's currentStage
  isRecording,   \* the package's isRecording
  isDryRun,      \* the package's isDryRun
  stageActions,  \* the package's stageActions: per stage, who recorded what
  pc,            \* where each caller is
  job            \* the call each caller is executing

lockVars == <<runMu, readers, queued, writer>>
flagVars == <<currentStage, isRecording, isDryRun>>
vars == <<stages, lockVars, flagVars, stageActions, pc, job>>

Mode == {"real", "dry"}

\* A recorded Action, reduced to the execution that recorded it.
Entry == [by : Callers, stage : Stages, mode : Mode]

Job == [tester : Testers \cup {NoTester}, stage : Stages \cup {NoStage},
        mode : Mode, idx : Nat, goexit : BOOLEAN]

NoJob == [tester |-> NoTester, stage |-> NoStage, mode |-> "real", idx |-> 0,
          goexit |-> FALSE]

Place == {"idle", "runLock", "rLock", "rWait", "wLock", "drain", "begin",
          "body", "check", "act", "clear", "rUnlock", "wUnlock", "unlock"}

Init ==
  /\ stages = [t \in Testers |-> <<>>]
  /\ runMu = [t \in Testers |-> NoCaller]
  /\ readers = {}
  /\ queued = {}
  /\ writer = NoCaller
  /\ currentStage = NoStage
  /\ isRecording = FALSE
  /\ isDryRun = FALSE
  /\ stageActions = [n \in Stages |-> <<>>]
  /\ pc = [c \in Callers |-> "idle"]
  /\ job = [c \in Callers |-> NoJob]

-----------------------------------------------------------------------------
\* Calls into the package.  Stages are registered before anything runs: every
\* main of the repository does so, and DryRunAll reads t.Stages without t.mu.

Stage(t, n) ==
  /\ \A c \in Callers : pc[c] = "idle"
  /\ Len(stages[t]) < MaxStages
  /\ stages' = [stages EXCEPT ![t] = Append(@, n)]
  /\ UNCHANGED <<lockVars, flagVars, stageActions, pc, job>>

RealJob(t, n) ==
  [tester |-> t, stage |-> n, mode |-> "real", idx |-> 0, goexit |-> FALSE]

DryJob(t, i) ==
  [tester |-> t, stage |-> stages[t][i], mode |-> "dry", idx |-> i,
   goexit |-> FALSE]

RunStageByName(c, t, n) ==
  /\ pc[c] = "idle"
  /\ pc' = [pc EXCEPT ![c] = "runLock"]
  /\ job' = [job EXCEPT ![c] = RealJob(t, n)]
  /\ UNCHANGED <<stages, lockVars, flagVars, stageActions>>

\* Mutant: no runMu.
LockRunFree(c) ==
  /\ pc[c] = "runLock"
  /\ runMu' = [runMu EXCEPT ![job[c].tester] = c]
  /\ pc' = [pc EXCEPT ![c] = "rLock"]
  /\ UNCHANGED <<stages, readers, queued, writer, flagVars, stageActions, job>>

LockRun(c) ==
  /\ pc[c] = "runLock"
  /\ runMu[job[c].tester] = NoCaller
  /\ runMu' = [runMu EXCEPT ![job[c].tester] = c]
  /\ pc' = [pc EXCEPT ![c] = "rLock"]
  /\ UNCHANGED <<stages, readers, queued, writer, flagVars, stageActions, job>>

\* Mutant: the result of TryLock is ignored.
TryRunUnchecked(c, t, n) ==
  /\ pc[c] = "idle"
  /\ pc' = [pc EXCEPT ![c] = "rLock"]
  /\ job' = [job EXCEPT ![c] = RealJob(t, n)]
  /\ UNCHANGED <<stages, lockVars, flagVars, stageActions>>

\* TryLock fails, and the call returns ErrStageRunning with nothing changed,
\* when runMu is held or is being handed to a waiter; that is a stuttering step.
TryRunStageByName(c, t, n) ==
  /\ pc[c] = "idle"
  /\ runMu[t] = NoCaller
  /\ runMu' = [runMu EXCEPT ![t] = c]
  /\ pc' = [pc EXCEPT ![c] = "rLock"]
  /\ job' = [job EXCEPT ![c] = RealJob(t, n)]
  /\ UNCHANGED <<stages, readers, queued, writer, flagVars, stageActions>>

DryRunAll(c, t) ==
  /\ pc[c] = "idle"
  /\ stages[t] # <<>>
  /\ pc' = [pc EXCEPT ![c] = "wLock"]
  /\ job' = [job EXCEPT ![c] = DryJob(t, 1)]
  /\ UNCHANGED <<stages, lockVars, flagVars, stageActions>>
-----------------------------------------------------------------------------
\* dryRunMu, a sync.RWMutex: a reader that finds a writer waits until that
\* writer unlocks and then holds the lock at once; a writer first keeps other
\* writers and new readers out, then waits for the readers to leave.

RLock(c) ==
  /\ pc[c] = "rLock"
  /\ \/ /\ writer = NoCaller
        /\ readers' = readers \cup {c}
        /\ pc' = [pc EXCEPT ![c] = "begin"]
        /\ UNCHANGED queued
     \/ /\ writer # NoCaller
        /\ queued' = queued \cup {c}
        /\ pc' = [pc EXCEPT ![c] = "rWait"]
        /\ UNCHANGED readers
  /\ UNCHANGED <<stages, runMu, writer, flagVars, stageActions, job>>

RWake(c) ==
  /\ pc[c] = "rWait"
  /\ c \in readers
  /\ pc' = [pc EXCEPT ![c] = "begin"]
  /\ UNCHANGED <<stages, lockVars, flagVars, stageActions, job>>

WLock(c) ==
  /\ pc[c] = "wLock"
  /\ writer = NoCaller
  /\ writer' = c
  /\ pc' = [pc EXCEPT ![c] = "drain"]
  /\ UNCHANGED <<stages, runMu, readers, queued, flagVars, stageActions, job>>

\* Mutant: a dry run does not wait for the runs.
WDrainedAtOnce(c) ==
  /\ pc[c] = "drain"
  /\ pc' = [pc EXCEPT ![c] = "begin"]
  /\ UNCHANGED <<stages, lockVars, flagVars, stageActions, job>>

WDrained(c) ==
  /\ pc[c] = "drain"
  /\ readers = {}
  /\ pc' = [pc EXCEPT ![c] = "begin"]
  /\ UNCHANGED <<stages, lockVars, flagVars, stageActions, job>>
-----------------------------------------------------------------------------
\* Executing one stage, in a run or in a dry run.

IsRegistered(t, n) == \E i \in DOMAIN stages[t] : stages[t][i] = n

\* The first section under actionMu; in a run, after the lookup by name.
Begin(c) ==
  LET j == job[c] IN
  /\ pc[c] = "begin"
  /\ j.mode = "real" => IsRegistered(j.tester, j.stage)
  /\ currentStage' = j.stage
  /\ isRecording' = TRUE
  /\ isDryRun' = (isDryRun \/ j.mode = "dry")
  /\ stageActions' = [stageActions EXCEPT ![j.stage] = <<>>]
  /\ pc' = [pc EXCEPT ![c] = "body"]
  /\ UNCHANGED <<stages, lockVars, job>>

StageNotFound(c) ==
  /\ pc[c] = "begin"
  /\ job[c].mode = "real"
  /\ ~IsRegistered(job[c].tester, job[c].stage)
  /\ pc' = [pc EXCEPT ![c] = "rUnlock"]
  /\ UNCHANGED <<stages, lockVars, flagVars, stageActions, job>>

\* A helper called by the stage function, or by the helper in progress
\* (SetupTable calls DropTable), records itself...
RecordAction(c) ==
  /\ pc[c] \in {"body", "act"}
  /\ \/ /\ isRecording
        /\ currentStage # NoStage
        /\ Len(stageActions[currentStage]) < MaxActions
        /\ stageActions' = [stageActions EXCEPT ![currentStage] =
             Append(@, [by |-> c, stage |-> job[c].stage, mode |-> job[c].mode])]
     \/ /\ ~isRecording \/ currentStage = NoStage
        /\ UNCHANGED stageActions
  /\ pc' = [pc EXCEPT ![c] = "check"]
  /\ UNCHANGED <<stages, lockVars, flagVars, job>>

\* ...asks IsDryRun, and only in a real run goes on to its side effect.
IsDryRun(c) ==
  /\ pc[c] = "check"
  /\ pc' = [pc EXCEPT ![c] = IF isDryRun THEN "body" ELSE "act"]
  /\ UNCHANGED <<stages, lockVars, flagVars, stageActions, job>>

SideEffectDone(c) ==
  /\ pc[c] = "act"
  /\ pc' = [pc EXCEPT ![c] = "body"]
  /\ UNCHANGED <<stages, lockVars, flagVars, stageActions, job>>

\* The stage function returns or panics (both recovered), or its goroutine
\* ends in runtime.Goexit, which runs the deferred calls and does not return.
StageFuncEnds(c) ==
  /\ pc[c] \in {"body", "act"}
  /\ pc' = [pc EXCEPT ![c] = "clear"]
  /\ \E g \in BOOLEAN : job' = [job EXCEPT ![c].goexit = g]
  /\ UNCHANGED <<stages, lockVars, flagVars, stageActions>>

\* The deferred section under actionMu.
Clear(c) ==
  /\ pc[c] = "clear"
  /\ isRecording' = FALSE
  /\ currentStage' = NoStage
  /\ isDryRun' = (isDryRun /\ job[c].mode # "dry")
  /\ pc' = [pc EXCEPT ![c] = IF job[c].mode = "dry" THEN "wUnlock" ELSE "rUnlock"]
  /\ UNCHANGED <<stages, lockVars, stageActions, job>>
-----------------------------------------------------------------------------
\* The deferred unlocks, and the return (or, after Goexit, the end of the
\* goroutine: the idle caller then stands for the next one).

Leave(c) ==
  /\ pc' = [pc EXCEPT ![c] = "idle"]
  /\ job' = [job EXCEPT ![c] = NoJob]

RUnlock(c) ==
  /\ pc[c] = "rUnlock"
  /\ readers' = readers \ {c}
  /\ pc' = [pc EXCEPT ![c] = "unlock"]
  /\ UNCHANGED <<stages, runMu, queued, writer, flagVars, stageActions, job>>

\* Mutant: Unlock is not deferred, so Goexit leaves runMu locked.
UnlockRunOnReturn(c) ==
  /\ pc[c] = "unlock"
  /\ runMu' = [runMu EXCEPT ![job[c].tester] =
                 IF job[c].goexit THEN @ ELSE NoCaller]
  /\ Leave(c)
  /\ UNCHANGED <<stages, readers, queued, writer, flagVars, stageActions>>

UnlockRun(c) ==
  /\ pc[c] = "unlock"
  /\ runMu' = [runMu EXCEPT ![job[c].tester] = NoCaller]
  /\ Leave(c)
  /\ UNCHANGED <<stages, readers, queued, writer, flagVars, stageActions>>

\* Unlock hands the lock to every queued reader; DryRunAll then goes on to the
\* next registered stage, if there is one.
WUnlock(c) ==
  LET j == job[c] IN
  /\ pc[c] = "wUnlock"
  /\ writer' = NoCaller
  /\ readers' = readers \cup queued
  /\ queued' = {}
  /\ \/ /\ ~j.goexit
        /\ j.idx < Len(stages[j.tester])
        /\ pc' = [pc EXCEPT ![c] = "wLock"]
        /\ job' = [job EXCEPT ![c] = DryJob(j.tester, j.idx + 1)]
     \/ /\ j.goexit \/ j.idx >= Len(stages[j.tester])
        /\ Leave(c)
  /\ UNCHANGED <<stages, runMu, flagVars, stageActions>>
-----------------------------------------------------------------------------
Call(c) ==
  \E t \in Testers :
    \/ \E n \in Stages : RunStageByName(c, t, n) \/ TryRunStageByName(c, t, n)
    \/ DryRunAll(c, t)

Locks(c) == LockRun(c) \/ RLock(c) \/ RWake(c) \/ WLock(c) \/ WDrained(c)

Executes(c) ==
  \/ Begin(c) \/ StageNotFound(c) \/ RecordAction(c) \/ IsDryRun(c)
  \/ SideEffectDone(c) \/ StageFuncEnds(c) \/ Clear(c)

Unlocks(c) == RUnlock(c) \/ UnlockRun(c) \/ WUnlock(c)

Next ==
  \/ \E t \in Testers, n \in Stages : Stage(t, n)
  \/ \E c \in Callers : Call(c) \/ Locks(c) \/ Executes(c) \/ Unlocks(c)

Spec == Init /\ [][Next]_vars

\* A goroutine that can take a step is scheduled; a stage function ends, whatever
\* helpers it calls before; and a contended sync.Mutex (runMu, the writers' mutex
\* inside dryRunMu) passes to the longest waiter after 1 ms, so no waiter is
\* overtaken for ever.
Fairness ==
  \A c \in Callers :
    /\ WF_vars(RLock(c) \/ RWake(c) \/ WDrained(c))
    /\ WF_vars(Begin(c) \/ StageNotFound(c) \/ IsDryRun(c) \/ Clear(c))
    /\ SF_vars(StageFuncEnds(c))
    /\ WF_vars(Unlocks(c))
    /\ SF_vars(LockRun(c))
    /\ SF_vars(WLock(c))

FairSpec == Spec /\ Fairness
-----------------------------------------------------------------------------
\* Between its Begin and its Clear, a caller is executing a stage.
Executing(c) == pc[c] \in {"body", "check", "act", "clear"}

\* Type invariant of the runner.
TypeOK ==
  /\ stages \in [Testers -> Seq(Stages)]
  /\ runMu \in [Testers -> Callers \cup {NoCaller}]
  /\ readers \subseteq Callers
  /\ queued \subseteq Callers
  /\ writer \in Callers \cup {NoCaller}
  /\ currentStage \in Stages \cup {NoStage}
  /\ isRecording \in BOOLEAN
  /\ isDryRun \in BOOLEAN
  /\ stageActions \in [Stages -> Seq(Entry)]
  /\ pc \in [Callers -> Place]
  /\ job \in [Callers -> Job]

\* Who holds what, by place.
InSection(c) == pc[c] \in {"begin", "body", "check", "act", "clear"}

HoldsRun(c) ==
  /\ job[c].mode = "real"
  /\ InSection(c) \/ pc[c] \in {"rLock", "rWait", "rUnlock", "unlock"}

HoldsRead(c) == job[c].mode = "real" /\ (InSection(c) \/ pc[c] = "rUnlock")

HoldsWrite(c) ==
  job[c].mode = "dry" /\ (InSection(c) \/ pc[c] \in {"drain", "wUnlock"})

\* The call a caller is in fits the place it is at.
JobFits(c) ==
  /\ pc[c] # "idle" => job[c].tester \in Testers /\ job[c].stage \in Stages
  /\ pc[c] \in {"runLock", "rLock", "rWait", "rUnlock", "unlock"} =>
       job[c].mode = "real"
  /\ pc[c] \in {"wLock", "drain", "wUnlock"} => job[c].mode = "dry"

JobInv == \A c \in Callers : JobFits(c)

RunMuInv ==
  \A c \in Callers, t \in Testers :
    runMu[t] = c <=> HoldsRun(c) /\ job[c].tester = t

ReadersInv ==
  \A c \in Callers :
    /\ HoldsRead(c) => c \in readers
    /\ c \in readers => HoldsRead(c) \/ pc[c] = "rWait"
    /\ c \in queued => pc[c] = "rWait" /\ c \notin readers

WriterInv ==
  \A c \in Callers :
    /\ writer = c <=> HoldsWrite(c)
    /\ HoldsWrite(c) /\ pc[c] # "drain" => readers = {}

QueueInv == writer = NoCaller => queued = {}

\* The locks are held by those, and only those, whose place in the code says so.
LockInv == RunMuInv /\ ReadersInv /\ WriterInv /\ QueueInv
\* At most one stage function executes at any time, in a run or in a dry run,
\* whoever called: what runMu and dryRunMu are for (tester.go:97-101, 41-42).
\* It needs a single Tester: runMu is per Tester, dryRunMu is held for reading.
OneStageAtATime ==
  \A c, d \in Callers : Executing(c) /\ Executing(d) => c = d

\* The part of it that holds for any number of Testers: runs on one Tester never
\* overlap, and a dry run overlaps nothing at all.
RunsExcludePerTester ==
  \A c, d \in Callers :
    c # d /\ Executing(c) /\ Executing(d) =>
      /\ job[c].mode = "real" /\ job[d].mode = "real"
      /\ job[c].tester # job[d].tester

\* While a stage executes, the package's recording state is its own; otherwise
\* nothing records: Begin and Clear of different calls never interleave.
RecordingIsTheExecutions ==
  /\ isRecording <=> \E c \in Callers : Executing(c)
  /\ ~isRecording => currentStage = NoStage /\ ~isDryRun
  /\ \A c \in Callers : Executing(c) =>
       /\ currentStage = job[c].stage
       /\ isDryRun <=> job[c].mode = "dry"

\* Every recorded action is filed under the stage that performed it, and the
\* list of an executing stage holds actions of this execution only.
ActionsAreFiledUnderTheirStage ==
  /\ \A n \in Stages : \A i \in DOMAIN stageActions[n] :
       stageActions[n][i].stage = n
  /\ \A c \in Callers : Executing(c) =>
       \A i \in DOMAIN stageActions[job[c].stage] :
         /\ stageActions[job[c].stage][i].by = c
         /\ stageActions[job[c].stage][i].mode = job[c].mode

\* A call that got past runMu (TryRunStageByName above all, which must not wait
\* for a running stage) is held up by no run on the same Tester.
AdmittedCallsWaitForNoRun ==
  \A c, d \in Callers :
    /\ c # d
    /\ pc[c] \in {"rLock", "rWait", "begin"} /\ job[c].mode = "real"
    /\ Executing(d) /\ job[d].mode = "real"
    => job[c].tester # job[d].tester

\* When no call is in progress every lock is free and nothing is recorded,
\* whatever the calls before did: panic, Goexit, unknown stage.
NothingIsLeftBehind ==
  (\A c \in Callers : pc[c] = "idle") =>
    /\ \A t \in Testers : runMu[t] = NoCaller
    /\ readers = {} /\ queued = {} /\ writer = NoCaller
    /\ ~isRecording /\ ~isDryRun /\ currentStage = NoStage

\* A helper goes on to its side effect exactly in a real run: the answer of
\* IsDryRun, read by a lock operation of its own, is never another call's.
IsDryRunAnswersForTheCaller ==
  [][\A c \in Callers : pc[c] = "check" /\ pc'[c] # "check" =>
       (pc'[c] = "act" <=> job[c].mode = "real")]_vars

\* Every call returns: no run waits for ever behind others or behind dry runs,
\* and no dry run behind runs.
EveryCallReturns ==
  \A c \in Callers : pc[c] # "idle" ~> pc[c] = "idle"
-----------------------------------------------------------------------------
\* With one Tester the runner implements the abstract, serial one.
Active ==
  IF \E c \in Callers : Executing(c)
  THEN LET c == CHOOSE c \in Callers : Executing(c)
       IN  [by |-> c, stage |-> job[c].stage, mode |-> job[c].mode]
  ELSE NoCaller

Serial == INSTANCE StageRunner WITH Idle <- NoCaller, active <- Active

\* The abstract specification the runner implements.
SerialSpec == Serial!Spec
=============================================================================
