----------------------------- MODULE StageRunner -----------------------------
(***************************************************************************)
(* What tester.go promises of stage execution: one execution at a time,    *)
(* each starting with an empty list of actions for its stage, each action  *)
(* appended to the list of the stage being executed, lists otherwise kept. *)
(* No lock, no flag and no waiting appear here; Tester implements it.      *)
(***************************************************************************)
EXTENDS Naturals, Sequences

CONSTANTS Callers, Stages, Idle

VARIABLES active,        \* the execution in progress, or Idle
          stageActions   \* per stage, the executions that recorded its actions

vars == <<active, stageActions>>

Execution == [by : Callers, stage : Stages, mode : {"real", "dry"}]

Init ==
  /\ active = Idle
  /\ stageActions = [n \in Stages |-> <<>>]

Start(e) ==
  /\ active = Idle
  /\ active' = e
  /\ stageActions' = [stageActions EXCEPT ![e.stage] = <<>>]

Record ==
  /\ active \in Execution
  /\ stageActions' = [stageActions EXCEPT ![active.stage] = Append(@, active)]
  /\ UNCHANGED active

Finish ==
  /\ active \in Execution
  /\ active' = Idle
  /\ UNCHANGED stageActions

Next == (\E e \in Execution : Start(e)) \/ Record \/ Finish

Spec == Init /\ [][Next]_vars
=============================================================================
