----------------------------- MODULE CliSession -----------------------------
(***************************************************************************)
(* Command mode (pkg/v1/cli.go): the main goroutine reads command lines;   *)
(* each accepted "run" has an executor goroutine, a heartbeat goroutine    *)
(* and, when a Timeout is set, a goroutine of its own for the stage.  They *)
(* share the session record under s.mu, and the output under the mutex of  *)
(* lockedWriter, so a line (or a response of several) is one write.        *)
(*                                                                         *)
(* A run is named by its number and stands for its stage name too; the     *)
(* stage itself is RunStageByName, of which only the end is visible here.  *)
(***************************************************************************)
EXTENDS Naturals, Sequences

CONSTANTS MaxRuns,     \* bound: accepted "run" commands
          MaxCommands, \* bound: command lines read
          MaxBeats,    \* bound: progress lines of one run
          HasTimeout   \* whether opts.Timeout > 0

ASSUME SessionAssumption ==
  /\ MaxRuns \in Nat /\ MaxCommands \in Nat /\ MaxBeats \in Nat
  /\ HasTimeout \in BOOLEAN

VARIABLES
  main,          \* where the reading goroutine is
  reply,         \* the line it has composed and not yet written
  commands,      \* how many lines it has read
  accepted,      \* how many runs it has accepted
  runningStage,  \* s.runningStage: a run, or NoRun for ""
  last,          \* s.lastStage and s.lastResult
  exec,          \* per run, where its executor goroutine is
  stage,         \* per run, what became of its RunStageByName
  beating,       \* the runs whose heartbeat goroutine lives
  beats,         \* per run, the progress lines it wrote
  out,           \* the lines written
  exited         \* the process has ended

sharedVars == <<runningStage, last>>
sessionVars == <<main, reply, commands, accepted, sharedVars, exec, stage, beating,
          beats, out, exited>>

Runs == 1 .. MaxRuns
NoRun == 0
Result == {"PASSED", "FAILED"}

\* HEARTBEAT stands for SLOW as well; LINES for a response about no run.
Kind == {"LINES", "RUNNING", "HEARTBEAT", "BUSY", "STATUS RUNNING",
         "STATUS IDLE", "RESULT", "TIMEOUT", "EXIT", "BYE"}

Line == [kind : Kind, run : Runs \cup {NoRun}, result : Result \cup {"none"}]

PlainLine(k, r) == [kind |-> k, run |-> r, result |-> "none"]

SessionInit ==
  /\ main = "read"
  /\ reply = PlainLine("LINES", NoRun)
  /\ commands = 0
  /\ accepted = 0
  /\ runningStage = NoRun
  /\ last = [run |-> NoRun, result |-> "none"]
  /\ exec = [r \in Runs |-> "none"]
  /\ stage = [r \in Runs |-> "none"]
  /\ beating = {}
  /\ beats = [r \in Runs |-> 0]
  /\ out = <<>>
  /\ exited = FALSE

\* fmt.Fprintln or fmt.Fprint on the lockedWriter.
Emit(line) == out' = Append(out, line)
-----------------------------------------------------------------------------
\* The reading goroutine.

ReadLine ==
  /\ main = "read"
  /\ commands < MaxCommands
  /\ commands' = commands + 1

\* Compose a response now; it is written in a step of its own.
Respond(line) ==
  /\ main' = "reply"
  /\ reply' = line
  /\ UNCHANGED <<accepted, sharedVars, exec, stage, beating, beats, out, exited>>

\* list, an unknown command, a missing or unknown stage name.
HandleOther == ReadLine /\ Respond(PlainLine("LINES", NoRun))

StatusLine ==
  IF runningStage # NoRun THEN PlainLine("STATUS RUNNING", runningStage)
  ELSE [kind |-> "STATUS IDLE", run |-> last.run, result |-> last.result]

HandleStatus == ReadLine /\ Respond(StatusLine)

HandleRunBusy ==
  /\ ReadLine
  /\ runningStage # NoRun
  /\ Respond(PlainLine("BUSY", runningStage))

\* Mutant: the session is not checked.
HandleRunUnchecked ==
  /\ ReadLine
  /\ accepted < MaxRuns
  /\ accepted' = accepted + 1
  /\ runningStage' = accepted + 1
  /\ exec' = [exec EXCEPT ![accepted + 1] = "accepted"]
  /\ main' = "announce"
  /\ UNCHANGED <<reply, last, stage, beating, beats, out, exited>>

\* handleRun accepts: it claims the session under s.mu...
HandleRun ==
  /\ ReadLine
  /\ runningStage = NoRun
  /\ accepted < MaxRuns
  /\ accepted' = accepted + 1
  /\ runningStage' = accepted + 1
  /\ exec' = [exec EXCEPT ![accepted + 1] = "accepted"]
  /\ main' = "announce"
  /\ UNCHANGED <<reply, last, stage, beating, beats, out, exited>>

\* ...writes RUNNING...
EmitRunning ==
  /\ main = "announce"
  /\ Emit(PlainLine("RUNNING", accepted))
  /\ main' = "go"
  /\ UNCHANGED <<reply, commands, accepted, sharedVars, exec, stage, beating,
                 beats, exited>>

\* ...and starts execute, with its heartbeat and its stage.
GoExecute ==
  /\ main = "go"
  /\ exec' = [exec EXCEPT ![accepted] = "running"]
  /\ stage' = [stage EXCEPT ![accepted] = "executing"]
  /\ beating' = beating \cup {accepted}
  /\ main' = "read"
  /\ UNCHANGED <<reply, commands, accepted, sharedVars, beats, out, exited>>

WriteReply ==
  /\ main = "reply"
  /\ Emit(reply)
  /\ main' = "read"
  /\ UNCHANGED <<reply, commands, accepted, sharedVars, exec, stage, beating,
                 beats, exited>>

HandleExit ==
  /\ ReadLine
  /\ main' = IF runningStage = NoRun THEN "waitIdle" ELSE "exitNote"
  /\ reply' = PlainLine("EXIT", runningStage)
  /\ UNCHANGED <<accepted, sharedVars, exec, stage, beating, beats, out, exited>>

EmitExit ==
  /\ main = "exitNote"
  /\ Emit(reply)
  /\ main' = "waitIdle"
  /\ UNCHANGED <<reply, commands, accepted, sharedVars, exec, stage, beating,
                 beats, exited>>

\* stdin is closed.
ReadEOF ==
  /\ main = "read"
  /\ main' = "waitIdleEOF"
  /\ UNCHANGED <<reply, commands, accepted, sharedVars, exec, stage, beating,
                 beats, out, exited>>

\* Mutant: exit does not wait.
WaitIdleNot ==
  /\ main \in {"waitIdle", "waitIdleEOF"}
  /\ main' = IF main = "waitIdle" THEN "bye" ELSE "returned"
  /\ UNCHANGED <<reply, commands, accepted, sharedVars, exec, stage, beating,
                 beats, out, exited>>

\* waitIdle polls runningStage every 20 ms.
WaitIdle ==
  /\ main \in {"waitIdle", "waitIdleEOF"}
  /\ runningStage = NoRun
  /\ main' = IF main = "waitIdle" THEN "bye" ELSE "returned"
  /\ UNCHANGED <<reply, commands, accepted, sharedVars, exec, stage, beating,
                 beats, out, exited>>

EmitBye ==
  /\ main = "bye"
  /\ Emit(PlainLine("BYE", NoRun))
  /\ main' = "returned"
  /\ UNCHANGED <<reply, commands, accepted, sharedVars, exec, stage, beating,
                 beats, exited>>

\* RunCLICommand returns to main, and the process with it (an embedding program
\* may go on instead).
ProcessReturns ==
  /\ main = "returned"
  /\ exited' = TRUE
  /\ UNCHANGED <<main, reply, commands, accepted, sharedVars, exec, stage,
                 beating, beats, out>>
-----------------------------------------------------------------------------
\* The goroutines of run r.

mainVars == <<main, reply, commands, accepted>>

\* RunStageByName returns, or its goroutine ends without returning.
StageEnds(r) ==
  /\ stage[r] = "executing"
  /\ \/ \E res \in Result : stage' = [stage EXCEPT ![r] = res]
     \/ stage' = [stage EXCEPT ![r] = "gone"]
  /\ UNCHANGED <<mainVars, sharedVars, exec, beating, beats, out, exited>>

\* runWithTimeout has the error; execute closes the stop channel.
StageReturned(r) ==
  /\ exec[r] = "running"
  /\ stage[r] \in Result
  /\ exec' = [exec EXCEPT ![r] = "stopping"]
  /\ UNCHANGED <<mainVars, sharedVars, stage, beating, beats, out, exited>>

\* A tick: also possible once after the stop channel is closed, since select
\* may take a ready ticker before a closed channel.
Heartbeat(r) ==
  /\ r \in beating
  /\ beats[r] < MaxBeats
  /\ beats' = [beats EXCEPT ![r] = @ + 1]
  /\ Emit(PlainLine("HEARTBEAT", r))
  /\ UNCHANGED <<mainVars, sharedVars, exec, stage, beating, exited>>

HeartbeatStops(r) ==
  /\ r \in beating
  /\ exec[r] = "stopping"
  /\ beating' = beating \ {r}
  /\ UNCHANGED <<mainVars, sharedVars, exec, stage, beats, out, exited>>

\* Mutants: heartbeat.Wait is missing; the last result is not updated.
PublishWithoutWait(r) ==
  /\ exec[r] = "stopping"
  /\ runningStage' = NoRun
  /\ last' = [run |-> r, result |-> stage[r]]
  /\ exec' = [exec EXCEPT ![r] = "respond"]
  /\ UNCHANGED <<mainVars, stage, beating, beats, out, exited>>

PublishOldResult(r) ==
  /\ exec[r] = "stopping"
  /\ r \notin beating
  /\ runningStage' = NoRun
  /\ last' = [run |-> r, result |-> IF last.run = NoRun THEN stage[r] ELSE last.result]
  /\ exec' = [exec EXCEPT ![r] = "respond"]
  /\ UNCHANGED <<mainVars, stage, beating, beats, out, exited>>

\* After heartbeat.Wait, the section under s.mu...
Publish(r) ==
  /\ exec[r] = "stopping"
  /\ r \notin beating
  /\ runningStage' = NoRun
  /\ last' = [run |-> r, result |-> stage[r]]
  /\ exec' = [exec EXCEPT ![r] = "respond"]
  /\ UNCHANGED <<mainVars, stage, beating, beats, out, exited>>

\* Mutant: only a success is reported.
EmitResultPassed(r) ==
  /\ exec[r] = "respond"
  /\ IF stage[r] = "PASSED"
     THEN Emit([kind |-> "RESULT", run |-> r, result |-> stage[r]])
     ELSE UNCHANGED out
  /\ exec' = [exec EXCEPT ![r] = "done"]
  /\ UNCHANGED <<mainVars, sharedVars, stage, beating, beats, exited>>

\* ...and only then the PASSED or FAILED line.
EmitResult(r) ==
  /\ exec[r] = "respond"
  /\ Emit([kind |-> "RESULT", run |-> r, result |-> stage[r]])
  /\ exec' = [exec EXCEPT ![r] = "done"]
  /\ UNCHANGED <<mainVars, sharedVars, stage, beating, beats, exited>>

\* The timer wins the select, perhaps against a result that is ready too.
Timeout(r) ==
  /\ HasTimeout
  /\ exec[r] = "running"
  /\ exec' = [exec EXCEPT ![r] = "aborting"]
  /\ Emit(PlainLine("TIMEOUT", r))
  /\ UNCHANGED <<mainVars, sharedVars, stage, beating, beats, exited>>

\* Mutant: os.Exit is missing.
NoExit2(r) == FALSE /\ UNCHANGED sessionVars

\* os.Exit(2).
Exit2(r) ==
  /\ exec[r] = "aborting"
  /\ exited' = TRUE
  /\ UNCHANGED <<mainVars, sharedVars, exec, stage, beating, beats, out>>
-----------------------------------------------------------------------------
ReadsCommand ==
  HandleOther \/ HandleStatus \/ HandleRunBusy \/ HandleRun \/ HandleExit \/ ReadEOF

MainGoesOn == EmitRunning \/ GoExecute \/ WriteReply \/ EmitExit \/ WaitIdle \/ EmitBye

Executor(r) == StageReturned(r) \/ HeartbeatStops(r) \/ Publish(r) \/ EmitResult(r)

SessionNext ==
  /\ ~exited
  /\ \/ ReadsCommand \/ MainGoesOn \/ ProcessReturns
     \/ \E r \in Runs :
          \/ Executor(r) \/ StageEnds(r) \/ Heartbeat(r)
          \/ Timeout(r) \/ Exit2(r)

SessionSpec == SessionInit /\ [][SessionNext]_sessionVars

\* Goroutines that can go on do, and an armed timer fires; nothing makes the
\* driver send a command, a returned session's process end, a stage function end,
\* or a tick come.
SessionFairness ==
  /\ WF_sessionVars(~exited /\ MainGoesOn)
  /\ \A r \in Runs : /\ WF_sessionVars(~exited /\ Executor(r))
                     /\ WF_sessionVars(~exited /\ (Timeout(r) \/ Exit2(r)))

FairSessionSpec == SessionSpec /\ SessionFairness
-----------------------------------------------------------------------------
\* The lines of one kind about one run, and their order.
IsLine(i, k, r) == out[i].kind = k /\ out[i].run = r
Written(k, r) == \E i \in DOMAIN out : IsLine(i, k, r)

\* Run r occupies the session: from its acceptance until it is published.
Occupies(r) == exec[r] \in {"accepted", "running", "stopping", "aborting"}

\* Type invariant of the session.
SessionTypeOK ==
  /\ main \in {"read", "reply", "announce", "go", "exitNote", "waitIdle",
               "waitIdleEOF", "bye", "returned"}
  /\ reply \in Line
  /\ commands \in Nat
  /\ accepted \in Runs \cup {NoRun}
  /\ runningStage \in Runs \cup {NoRun}
  /\ last \in [run : Runs \cup {NoRun}, result : Result \cup {"none"}]
  /\ exec \in [Runs -> {"none", "accepted", "running", "stopping", "aborting",
                        "respond", "done"}]
  /\ stage \in [Runs -> {"none", "executing", "gone"} \cup Result]
  /\ beating \subseteq Runs
  /\ beats \in [Runs -> Nat]
  /\ out \in Seq(Line)
  /\ exited \in BOOLEAN

\* The session is taken by the run that occupies it and by no other, and what a
\* run's stage and the reading goroutine are doing fits.
SessionInv ==
  /\ \A r \in Runs : Occupies(r) <=> runningStage = r
  /\ \A r \in Runs : stage[r] \in {"executing", "gone"} =>
                       exec[r] \in {"running", "aborting"}
  /\ \A r \in Runs : exec[r] \in {"stopping", "respond", "done"} => stage[r] \in Result
  /\ \A r \in Runs : r > accepted => exec[r] = "none" /\ stage[r] = "none"
  /\ main \in {"announce", "go"} =>
       accepted \in Runs /\ exec[accepted] = "accepted"
  /\ main \in {"bye", "returned"} => runningStage = NoRun

\* Run r has its RUNNING line: only the last accepted one may still be without.
Announced(r) == r <= accepted /\ (main = "announce" => r # accepted)

\* Line l may be written, or wait to be: its run was announced, and what it says of
\* an outcome is so.
Fits(l) ==
  /\ l.run \in Runs => Announced(l.run)
  /\ l.kind \in {"RUNNING", "HEARTBEAT", "TIMEOUT", "RESULT", "BUSY", "STATUS RUNNING"} =>
       l.run \in Runs
  /\ l.kind = "STATUS IDLE" /\ l.run \in Runs => exec[l.run] \in {"respond", "done"}
  /\ l.kind = "RESULT" => exec[l.run] = "done"
  /\ l.result # "none" => /\ l.run \in Runs /\ exec[l.run] \in {"respond", "done"}
                          /\ stage[l.run] = l.result

\* What has been written, what is about to be, and who may still write.
LinesInv ==
  /\ \A i \in DOMAIN out : Fits(out[i]) /\ (out[i].kind = "EXIT" => out[i].run \in Runs)
  /\ \A r \in Runs : Announced(r) => Written("RUNNING", r)
  /\ main \in {"reply", "exitNote"} =>
       /\ Fits(reply)
       /\ reply.kind \in {"LINES", "BUSY", "STATUS RUNNING", "STATUS IDLE", "EXIT"}
       /\ reply.kind = "EXIT" => reply.run \in Runs
  /\ last.run \in Runs =>
       exec[last.run] \in {"respond", "done"} /\ last.result = stage[last.run]
  /\ last.run = NoRun => last.result = "none"
  /\ \A r \in beating : exec[r] \in {"running", "stopping", "aborting"}

\* No two stages execute at once, whether or not the tester would serialize
\* them: the BUSY answer and the exit on a timeout both serve this (cli.go:60,
\* 295-297).  It includes a stage abandoned by a timeout, until os.Exit.
OneStageExecutes ==
  \A r, q \in Runs : stage[r] = "executing" /\ stage[q] = "executing" => r = q

\* The lines about a run come in order: RUNNING, progress, at most one result.
\* No progress line follows the result, nor a STATUS IDLE that names the run.
LinesOfARunAreOrdered ==
  \A i, j \in DOMAIN out :
    /\ i < j /\ out[i].kind = "RESULT" /\ out[i].run = out[j].run =>
         out[j].kind \notin {"RUNNING", "HEARTBEAT", "RESULT", "TIMEOUT"}
    /\ i < j /\ out[i].kind = "STATUS IDLE" /\ out[i].run = out[j].run =>
         out[j].kind \notin {"RUNNING", "HEARTBEAT", "TIMEOUT"}
    /\ i < j /\ out[j].kind = "RUNNING" => out[i].run # out[j].run

\* Every outcome reported, by a result line or a STATUS IDLE, is the outcome of
\* the stage of that run, and BUSY and STATUS RUNNING name a run that was announced.
ReportsAreTrue ==
  \A i \in DOMAIN out :
    /\ out[i].result # "none" => stage[out[i].run] = out[i].result
    /\ out[i].kind \in {"BUSY", "STATUS RUNNING", "EXIT", "RESULT"} =>
         \E j \in 1 .. i : IsLine(j, "RUNNING", out[i].run)

\* "Bye.", and the return on end of input, wait for every stage (cli.go:75, 136).
EndWaitsForStages ==
  main \in {"bye", "returned"} => \A r \in Runs : stage[r] \notin {"executing", "gone"}

\* Every announced run is answered by its result, or the process is over: for a
\* hung stage and for one that never returns, thanks to the timeout.
ResultArrives ==
  \A r \in Runs : Written("RUNNING", r) ~> Written("RESULT", r) \/ exited

\* A command is always read again, or the session ends: it never hangs.
SessionGoesOn == main # "read" ~> main = "read" \/ main = "returned" \/ exited

\* Whatever the order of commands, stages and timeouts, a run is answered and the loop
\* comes back for the next command, or the process is over.
RunIsAnswered == ResultArrives /\ SessionGoesOn
-----------------------------------------------------------------------------
\* What a test says and the code does not do (a violation run).

\* The session says "Bye." only after the result of every run.
ResultBeforeBye ==
  \A i \in DOMAIN out : out[i].kind = "BYE" =>
    \A r \in Runs : Written("RUNNING", r) => Written("RESULT", r)
=============================================================================
