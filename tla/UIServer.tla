------------------------------ MODULE UIServer ------------------------------
(***************************************************************************)
(* The jobs of the UI server (pkg/v1/serve.go).  Each accepted POST starts *)
(* a goroutine that queues on s.runMu and then runs one stage with its     *)
(* prerequisites, all stages, a dry run of all stages, or one recorded     *)
(* action.  The goroutines share the status map; the Tester they call is   *)
(* the serial runner that Tester implements (StageRunner).                 *)
(*                                                                         *)
(* What clients see of it, the event stream, is the module EventStream.    *)
(***************************************************************************)
EXTENDS Naturals, Sequences, SequencesExt

CONSTANTS Requests,    \* the accepted requests, and their goroutines
          Registrable, \* names that stages may be registered under
          Unregistered,\* names a request may carry and no stage has
          NoRequest,   \* the holder of a free lock; no execution
          MaxStages,   \* bound: registered stages
          MaxActions   \* bound: recorded actions of one stage

ASSUME ConstantsAssumption ==
  /\ NoRequest \notin Requests
  /\ Registrable \cap Unregistered = {}
  /\ MaxStages \in Nat /\ MaxActions \in Nat

VARIABLES
  order,         \* tester.Stages: the registered names, in order
  status,        \* s.status; "" where the map has no entry
  runMu,         \* s.runMu: its holder or NoRequest
  pc,            \* where each goroutine is
  job,           \* the request it serves
  todo,          \* the stages it has still to consider
  result,        \* what its last RunStageByName returned
  active,        \* the Tester's execution in progress
  stageActions,  \* the Tester's recorded actions
  outcome,       \* history: per name, how its last RunStageByName ended
  ran            \* history: per goroutine, the stages it ran, in order

jobVars == <<pc, job, todo, result>>
runnerVars == <<active, stageActions>>
history == <<outcome, ran>>
vars == <<order, status, runMu, jobVars, runnerVars, history>>

Names == Registrable \cup Unregistered
Status == {"Not Run", "Running...", "PASSED", "FAILED"}
Outcome == {"PASSED", "FAILED"}

Job == [kind : {"none", "stage", "action", "all", "discover"},
        name : Names \cup {""}, prereq : BOOLEAN]

NoJob == [kind |-> "none", name |-> "", prereq |-> FALSE]

Runner == INSTANCE StageRunner WITH
            Callers <- Requests, Stages <- Names, Idle <- NoRequest

\* NewUIServer, for a Tester whose stages are registered (twice under one name,
\* possibly: nothing forbids it).
Init ==
  /\ order \in UNION {[1 .. k -> Registrable] : k \in 1 .. MaxStages}
  /\ status = [n \in Names |-> IF n \in ToSet(order) THEN "Not Run" ELSE ""]
  /\ runMu = NoRequest
  /\ pc = [r \in Requests |-> "idle"]
  /\ job = [r \in Requests |-> NoJob]
  /\ todo = [r \in Requests |-> <<>>]
  /\ result = [r \in Requests |-> "none"]
  /\ Runner!Init
  /\ outcome = [n \in Names |-> "none"]
  /\ ran = [r \in Requests |-> <<>>]
-----------------------------------------------------------------------------
\* The handlers: validate, start the goroutine, answer 202.

\* The stages before the first one named n; all of them if there is none.
Before(n) ==
  SubSeq(order, 1, Cardinality({i \in DOMAIN order : \A j \in 1 .. i : order[j] # n}))

\* What a request for stage n considers: its prerequisites, if they are asked for, and n.
Plan(n, p) == (IF p THEN Before(n) ELSE <<>>) \o <<n>>

Accept(r, j, plan, place) ==
  /\ pc[r] = "idle"
  /\ pc' = [pc EXCEPT ![r] = place]
  /\ job' = [job EXCEPT ![r] = j]
  /\ todo' = [todo EXCEPT ![r] = plan]
  /\ UNCHANGED <<order, status, runMu, result, runnerVars, history>>

HandleRunStage(r) ==
  \E n \in Names, p \in BOOLEAN :
    Accept(r, [kind |-> "stage", name |-> n, prereq |-> p], Plan(n, p), "queued")

\* Mutant: the action runs in the handler, outside s.runMu.
HandleRunActionAtOnce(r) ==
  \E n \in Names :
    /\ stageActions[n] # <<>>
    /\ Accept(r, [kind |-> "action", name |-> n, prereq |-> FALSE], <<>>, "act")

\* The action is looked up now, and is run, as captured, when its turn comes.
HandleRunAction(r) ==
  \E n \in Names :
    /\ stageActions[n] # <<>>
    /\ Accept(r, [kind |-> "action", name |-> n, prereq |-> FALSE], <<>>, "queued")

HandleRunAll(r) ==
  Accept(r, [kind |-> "all", name |-> "", prereq |-> FALSE], order, "queued")

HandleDiscover(r) ==
  Accept(r, [kind |-> "discover", name |-> "", prereq |-> FALSE], order, "queued")
-----------------------------------------------------------------------------
\* The goroutine of request r.

\* Mutant: no s.runMu.
TakeFree(r) ==
  /\ pc[r] = "queued"
  /\ runMu' = r
  /\ pc' = [pc EXCEPT ![r] = IF job[r].kind = "action" THEN "act" ELSE "next"]
  /\ UNCHANGED <<order, status, job, todo, result, runnerVars, history>>

Take(r) ==
  /\ pc[r] = "queued"
  /\ runMu = NoRequest
  /\ runMu' = r
  /\ pc' = [pc EXCEPT ![r] = IF job[r].kind = "action" THEN "act" ELSE "next"]
  /\ UNCHANGED <<order, status, job, todo, result, runnerVars, history>>

\* The goroutine ends; s.runMu is released by a deferred call.
Release(r) ==
  /\ pc' = [pc EXCEPT ![r] = "done"]
  /\ runMu' = NoRequest

\* A stage that the request does not name is there as a prerequisite.
IsPrerequisite(r) == job[r].kind = "stage" /\ Len(todo[r]) > 1

SkipPassed(r) ==
  /\ pc[r] = "next"
  /\ IsPrerequisite(r)
  /\ status[Head(todo[r])] = "PASSED"
  /\ todo' = [todo EXCEPT ![r] = Tail(@)]
  /\ UNCHANGED <<order, status, runMu, pc, job, result, runnerVars, history>>

SetRunning(r) ==
  /\ pc[r] = "next"
  /\ todo[r] # <<>>
  /\ job[r].kind # "discover"
  /\ ~(IsPrerequisite(r) /\ status[Head(todo[r])] = "PASSED")
  /\ status' = [status EXCEPT ![Head(todo[r])] = "Running..."]
  /\ pc' = [pc EXCEPT ![r] = "run"]
  /\ UNCHANGED <<order, runMu, job, todo, result, runnerVars, history>>

\* What r executes now: a run of the stage, or a dry run of it.
Execution(r) ==
  [by |-> r, stage |-> Head(todo[r]),
   mode |-> IF job[r].kind = "discover" THEN "dry" ELSE "real"]

StartStage(r) ==
  /\ \/ pc[r] = "run" /\ Head(todo[r]) \in ToSet(order)
     \/ pc[r] = "next" /\ job[r].kind = "discover" /\ todo[r] # <<>>
  /\ Runner!Start(Execution(r))
  /\ pc' = [pc EXCEPT ![r] = "exec"]
  /\ UNCHANGED <<order, status, runMu, job, todo, result, history>>

Returned(r, res) ==
  /\ result' = [result EXCEPT ![r] = res]
  /\ outcome' = [outcome EXCEPT ![Head(todo[r])] = res]
  /\ ran' = [ran EXCEPT ![r] = Append(@, Head(todo[r]))]
  /\ pc' = [pc EXCEPT ![r] = "returned"]

StageNotFound(r) ==
  /\ pc[r] = "run"
  /\ Head(todo[r]) \notin ToSet(order)
  /\ Returned(r, "FAILED")
  /\ UNCHANGED <<order, status, runMu, job, todo, runnerVars>>

RecordAction(r) ==
  /\ pc[r] = "exec"
  /\ Len(stageActions[Head(todo[r])]) < MaxActions
  /\ Runner!Record
  /\ UNCHANGED <<order, status, runMu, jobVars, history>>

StageEnds(r) ==
  /\ pc[r] = "exec"
  /\ job[r].kind # "discover"
  /\ Runner!Finish
  /\ \E res \in Outcome : Returned(r, res)
  /\ UNCHANGED <<order, status, runMu, job, todo>>

DryRunEnds(r) ==
  /\ pc[r] = "exec"
  /\ job[r].kind = "discover"
  /\ Runner!Finish
  /\ todo' = [todo EXCEPT ![r] = Tail(@)]
  /\ pc' = [pc EXCEPT ![r] = "next"]
  /\ UNCHANGED <<order, status, runMu, job, result, history>>

\* A function calls runtime.Goexit: a stage, in a run or a dry run, or an action.
Dies(r) ==
  /\ pc[r] \in {"exec", "act"}
  /\ pc' = [pc EXCEPT ![r] = "dead"]
  /\ IF pc[r] = "exec" THEN Runner!Finish ELSE UNCHANGED runnerVars
  /\ outcome' = IF pc[r] = "exec" /\ job[r].kind # "discover"
                THEN [outcome EXCEPT ![Head(todo[r])] = "goexit"] ELSE outcome

\* Mutant: s.runMu is not released by a deferred call.
GoexitKeepsLock(r) ==
  /\ Dies(r)
  /\ UNCHANGED <<order, status, runMu, job, todo, result, ran>>

\* The function ends the goroutine: only deferred calls are left to run.
Goexit(r) ==
  /\ Dies(r)
  /\ runMu' = NoRequest
  /\ UNCHANGED <<order, status, job, todo, result, ran>>

\* Mutants: a failed prerequisite is ignored; run-all stops at a failure.
SetResultGoOn(r) ==
  /\ pc[r] = "returned"
  /\ status' = [status EXCEPT ![Head(todo[r])] = result[r]]
  /\ todo' = [todo EXCEPT ![r] = Tail(@)]
  /\ pc' = [pc EXCEPT ![r] = "next"]
  /\ UNCHANGED <<order, runMu, job, result, runnerVars, history>>

SetResultStop(r) ==
  /\ pc[r] = "returned"
  /\ status' = [status EXCEPT ![Head(todo[r])] = result[r]]
  /\ todo' = [todo EXCEPT ![r] = Tail(@)]
  /\ IF result[r] = "FAILED"
     THEN Release(r)
     ELSE pc' = [pc EXCEPT ![r] = "next"] /\ UNCHANGED runMu
  /\ UNCHANGED <<order, job, result, runnerVars, history>>

\* The status is set; a failed prerequisite ends the job, a failed stage of a
\* run-all does not.
SetResult(r) ==
  /\ pc[r] = "returned"
  /\ status' = [status EXCEPT ![Head(todo[r])] = result[r]]
  /\ todo' = [todo EXCEPT ![r] = Tail(@)]
  /\ IF result[r] = "FAILED" /\ IsPrerequisite(r)
     THEN Release(r)
     ELSE pc' = [pc EXCEPT ![r] = "next"] /\ UNCHANGED runMu
  /\ UNCHANGED <<order, job, result, runnerVars, history>>

JobDone(r) ==
  /\ pc[r] = "next"
  /\ todo[r] = <<>>
  /\ Release(r)
  /\ UNCHANGED <<order, status, job, todo, result, runnerVars, history>>

\* A manual action returns or panics (recovered and logged).
ActionDone(r) ==
  /\ pc[r] = "act"
  /\ Release(r)
  /\ UNCHANGED <<order, status, job, todo, result, runnerVars, history>>
-----------------------------------------------------------------------------
Handle(r) ==
  HandleRunStage(r) \/ HandleRunAction(r) \/ HandleRunAll(r) \/ HandleDiscover(r)

FunctionEnds(r) == StageEnds(r) \/ DryRunEnds(r) \/ Goexit(r) \/ ActionDone(r)

GoesOn(r) ==
  \/ SkipPassed(r) \/ SetRunning(r) \/ StartStage(r) \/ StageNotFound(r)
  \/ SetResult(r) \/ JobDone(r)

Next ==
  \E r \in Requests :
    Handle(r) \/ Take(r) \/ GoesOn(r) \/ RecordAction(r) \/ FunctionEnds(r)

Spec == Init /\ [][Next]_vars

\* Goroutines that can go on do, functions end, and a Go mutex passes to its
\* longest waiter; nothing makes a client send a request.
Fairness ==
  \A r \in Requests :
    SF_vars(Take(r)) /\ WF_vars(GoesOn(r)) /\ WF_vars(FunctionEnds(r))

FairSpec == Spec /\ Fairness
-----------------------------------------------------------------------------
\* Type invariant of the server's jobs.
TypeOK ==
  /\ order \in Seq(Registrable)
  /\ status \in [Names -> Status \cup {""}]
  /\ runMu \in Requests \cup {NoRequest}
  /\ pc \in [Requests -> {"idle", "queued", "next", "run", "exec", "returned",
                          "act", "done", "dead"}]
  /\ job \in [Requests -> Job]
  /\ todo \in [Requests -> Seq(Names)]
  /\ result \in [Requests -> Outcome \cup {"none"}]
  /\ active \in Runner!Execution \cup {NoRequest}
  /\ stageActions \in [Names -> Seq(Runner!Execution)]
  /\ outcome \in [Names -> Outcome \cup {"none", "goexit"}]
  /\ ran \in [Requests -> Seq(Names)]

\* r is running stage n for its request.
IsRunning(r, n) ==
  pc[r] \in {"run", "exec", "returned"} /\ job[r].kind # "discover" /\ Head(todo[r]) = n

\* The goroutine that holds s.runMu is the one past Take.
Working(r) == pc[r] \in {"next", "run", "exec", "returned", "act"}

MutexInv == \A r \in Requests : runMu = r <=> Working(r)

ActiveInv ==
  /\ \A r \in Requests : pc[r] = "exec" =>
       todo[r] # <<>> /\ active = Execution(r)
  /\ active # NoRequest => pc[active.by] = "exec"

TodoInv ==
  \A r \in Requests :
    /\ pc[r] \in {"run", "exec", "returned"} => todo[r] # <<>>
    /\ pc[r] \in {"run", "returned"} => job[r].kind # "discover"
    /\ pc[r] = "returned" => outcome[Head(todo[r])] = result[r] /\ result[r] \in Outcome
    /\ pc[r] = "act" => job[r].kind = "action"

JobsInv == MutexInv /\ ActiveInv /\ TodoInv

\* How far a request is: what is left of its plan, what passed of its prerequisites,
\* and what a run-all has run.
PlanOf(r) == IF job[r].kind = "stage" THEN Plan(job[r].name, job[r].prereq) ELSE order
Considered(r) == Len(PlanOf(r)) - Len(todo[r])

PlanInv ==
  \A r \in Requests : pc[r] # "idle" =>
    /\ Len(todo[r]) <= Len(PlanOf(r))
    /\ \A k \in DOMAIN todo[r] : todo[r][k] = PlanOf(r)[Considered(r) + k]
    /\ pc[r] = "queued" /\ job[r].kind = "stage" => Considered(r) = 0

PassedInv ==
  \A r \in Requests : Working(r) /\ job[r].kind = "stage" /\ job[r].prereq =>
    \A i \in DOMAIN Before(job[r].name) : i <= Considered(r) =>
      \/ outcome[Before(job[r].name)[i]] = "PASSED"
      \/ pc[r] = "returned" /\ result[r] = "FAILED" /\ IsPrerequisite(r)

RanInv ==
  \A r \in Requests :
    /\ pc[r] = "idle" => ran[r] = <<>> /\ job[r].kind = "none"
    /\ job[r].kind = "all" =>
         /\ Len(ran[r]) + Len(todo[r]) = Len(order) + (IF pc[r] = "returned" THEN 1 ELSE 0)
         /\ \A k \in DOMAIN ran[r] : ran[r][k] = order[k]
         /\ pc[r] = "done" => todo[r] = <<>>

ProgressInv == PlanInv /\ PassedInv /\ RanInv

\* The status of a stage is the result of its last run, and "Running..." while,
\* and only while, a request is running it: no request overwrites the status
\* another one is responsible for.  A run that ended in Goexit has no result, and
\* leaves "Running..." behind until the next one.
StatusTellsOutcome ==
  \A n \in Names :
    /\ status[n] \in Outcome => outcome[n] = status[n]
    /\ (\E r \in Requests : IsRunning(r, n)) => status[n] = "Running..."
    /\ status[n] = "Running..." =>
         outcome[n] = "goexit" \/ \E r \in Requests : IsRunning(r, n)
    /\ status[n] \in {"Not Run", ""} => outcome[n] = "none"

\* When a stage executes for a request with prerequisites, the last run of every
\* stage registered before it passed: none failed, none is still to run, and no
\* other request has run one of them again in between.
PrerequisitesPassed ==
  \A r \in Requests :
    pc[r] = "exec" /\ job[r].kind = "stage" /\ job[r].prereq /\ Len(todo[r]) = 1 =>
      \A i \in DOMAIN Before(job[r].name) : outcome[Before(job[r].name)[i]] = "PASSED"

\* A finished run-all has run every stage, in order, whatever failed.
RunAllRunsEverything ==
  \A r \in Requests : pc[r] = "done" /\ job[r].kind = "all" => ran[r] = order

\* A manual action overlaps no stage and no dry run: in particular IsDryRun does
\* not make it skip its effect, and it is not recorded into a stage's list.
ManualActionsRunAlone ==
  \A r \in Requests : pc[r] = "act" =>
    active = NoRequest /\ \A q \in Requests \ {r} : pc[q] # "act"

\* Every accepted request comes to an end, even behind one that died in Goexit.
RequestComesToAnEnd ==
  \A r \in Requests : pc[r] = "queued" ~> pc[r] \in {"done", "dead"}

\* A stage does not stay "Running..." for ever, unless its run ended in Goexit:
\* its result arrives (pkg/v1/docs/08-run-modes.md:95).
StatusSettles ==
  \A n \in Names :
    status[n] = "Running..." ~> status[n] # "Running..." \/ outcome[n] = "goexit"

\* Behind stages that may end in Goexit, every accepted request comes to an end, and the
\* stage of one that did not die has its result.
EveryRequestEnds == RequestComesToAnEnd /\ StatusSettles
=============================================================================
