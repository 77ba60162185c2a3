------------------------------ MODULE StepLoop ------------------------------
(***************************************************************************)
(* runSteps of execution-engine/internal/server/server.go: what a run does *)
(* between its two status writes.  The steps of the workflow run in order  *)
(* until one fails; each leaves a step log and a "step_done" event, and    *)
(* the run ends with a status write, a "finished" event and its answer.    *)
(* A run whose loads fail, or whose engine dies, ends without all that.    *)
(* Every write and every event is an action of its own, and runs of one    *)
(* execution interleave between them.                                      *)
(*                                                                         *)
(* Implements Engine, which has one action from the first status write to  *)
(* the last.  Events go to the Redis channel of the workflow; who listens  *)
(* is the business of EventStream.                                         *)
(***************************************************************************)
EXTENDS Models, Naturals, Sequences

CONSTANTS
    Runs,        \* slots for RunExecution calls in flight (a bound)
    NumSteps,    \* length of the workflow's steps; 0 also stands for malformed steps
    MaxRuns      \* bound on the calls made for one execution

ASSUME NumStepsAssumption == NumSteps \in Nat
ASSUME MaxRunsAssumption == MaxRuns \in Nat

VARIABLES
    status,     \* status column of executions
    logs,       \* step logs of each execution, as pairs of step and status
    run,        \* the runs: phase, execution, current step and its outcome
    hurt,       \* history: executions with a failed status write or a killed run and no end
                \* written since
    unlogged,   \* history: executions with a failed log write
    started     \* history: how many runs of each execution have been called

loopVars == <<status, logs, run, hurt, unlogged, started>>

\* "start" is before the first status write; a step goes through step, log and event,
\* the end through finish and announce.  "reset": the engine died under the caller.
LoopPhases ==
    {"idle", "load", "start", "step", "log", "event", "finish", "announce", "reply", "reset"}
\* Between the two writes of the status.
Midway == {"step", "log", "event", "finish"}
Idle == [pc |-> "idle", exec |-> NoExec, at |-> 0, outcome |-> "none"]

LoopInit ==
    /\ status = [e \in Executions |-> "pending"]
    /\ logs = [e \in Executions |-> {}]
    /\ run = [r \in Runs |-> Idle]
    /\ hurt = {}
    /\ unlogged = {}
    /\ started = [e \in Executions |-> 0]

\* The error of an update is ignored, and the row is left as it is.
WriteStatus(e, s, written) ==
    /\ written \/ "write" \in Faults
    /\ hurt' = StillHurt(hurt, e, s, written)
    /\ status' = IF written THEN [status EXCEPT ![e] = s] ELSE status

Accept(r, e) ==
    /\ run[r] = Idle
    /\ started[e] < MaxRuns
    /\ run' = [run EXCEPT ![r] = [Idle EXCEPT !.pc = "load", !.exec = e]]
    /\ started' = [started EXCEPT ![e] = @ + 1]
    /\ UNCHANGED <<status, logs, hurt, unlogged>>

\* Both rows are read.
Load(r) ==
    /\ run[r].pc = "load"
    /\ WorkflowOf[run[r].exec] \notin Owned
    /\ run' = [run EXCEPT ![r].pc = "start"]
    /\ UNCHANGED <<status, logs, hurt, unlogged, started>>

\* Either read fails, or the row of the workflow cannot be scanned: the caller gets an
\* error, and nothing is written or published.  So ends the run of a deleted workflow,
\* which only Engine tells apart.
LoadFails(r) ==
    /\ run[r].pc = "load"
    /\ "query" \in Faults \/ WorkflowOf[run[r].exec] \in Owned
    /\ run' = [run EXCEPT ![r].pc = "reply", ![r].outcome = "error"]
    /\ UNCHANGED <<status, logs, hurt, unlogged, started>>

\* The first status write; a workflow without steps has succeeded already.
Start(r, written) ==
    /\ run[r].pc = "start"
    /\ WriteStatus(run[r].exec, "running", written)
    /\ run' = [run EXCEPT ![r].pc = IF NumSteps = 0 THEN "finish" ELSE "step",
                          ![r].at = 1,
                          ![r].outcome = IF NumSteps = 0 THEN "success" ELSE "none"]
    /\ UNCHANGED <<logs, unlogged, started>>

\* The factory knows no such type, or the runner returns an error: the step failed.
RunStep(r, outcome) ==
    /\ run[r].pc = "step"
    /\ run' = [run EXCEPT ![r].pc = "log", ![r].outcome = outcome]
    /\ UNCHANGED <<status, logs, hurt, unlogged, started>>

\* Mutant of WriteLog: a failed step leaves no log.
WriteLogOfSuccess(r, written) ==
    /\ run[r].pc = "log" /\ written
    /\ logs' = IF run[r].outcome = "success"
               THEN [logs EXCEPT ![run[r].exec] = @ \cup {<<run[r].at, run[r].outcome>>}]
               ELSE logs
    /\ run' = [run EXCEPT ![r].pc = "event"]
    /\ UNCHANGED <<status, hurt, unlogged, started>>

\* writeStepLog.
WriteLog(r, written) ==
    /\ run[r].pc = "log"
    /\ written \/ "write" \in Faults
    /\ unlogged' = IF written THEN unlogged ELSE unlogged \cup {run[r].exec}
    /\ logs' = IF written
               THEN [logs EXCEPT ![run[r].exec] = @ \cup {<<run[r].at, run[r].outcome>>}]
               ELSE logs
    /\ run' = [run EXCEPT ![r].pc = "event"]
    /\ UNCHANGED <<status, hurt, started>>

\* Mutant of LastStep: one step too many.
LastStepLate(r) == run[r].outcome = "failed" \/ run[r].at > NumSteps

LastStep(r) == run[r].outcome = "failed" \/ run[r].at = NumSteps

\* Mutant of StepDone: a failed step does not end the run.
StepDoneGoesOn(r) ==
    /\ run[r].pc = "event"
    /\ run' = [run EXCEPT ![r] = IF run[r].at = NumSteps
                                 THEN [@ EXCEPT !.pc = "finish"]
                                 ELSE [@ EXCEPT !.pc = "step", !.at = run[r].at + 1]]
    /\ UNCHANGED <<status, logs, hurt, unlogged, started>>

\* The event "step_done", and on to the next step or the end.
StepDone(r) ==
    /\ run[r].pc = "event"
    /\ run' = [run EXCEPT ![r] = IF LastStep(r)
                                 THEN [@ EXCEPT !.pc = "finish"]
                                 ELSE [@ EXCEPT !.pc = "step", !.at = run[r].at + 1]]
    /\ UNCHANGED <<status, logs, hurt, unlogged, started>>

\* Mutant of Finish: the row is written after the event has gone out, when the run returns.
FinishLate(r, written) ==
    \/ /\ run[r].pc = "finish" /\ written
       /\ run' = [run EXCEPT ![r].pc = "announce"]
       /\ UNCHANGED <<status, logs, hurt, unlogged, started>>
    \/ /\ run[r].pc = "reply" /\ run[r].outcome \in Terminal
       /\ WriteStatus(run[r].exec, run[r].outcome, written)
       /\ run' = [run EXCEPT ![r] = Idle]
       /\ UNCHANGED <<logs, unlogged, started>>

\* finishExecution: the last status write ...
Finish(r, written) ==
    /\ run[r].pc = "finish"
    /\ WriteStatus(run[r].exec, run[r].outcome, written)
    /\ run' = [run EXCEPT ![r].pc = "announce"]
    /\ UNCHANGED <<logs, unlogged, started>>

\* ... and the event "finished".
Announce(r) ==
    /\ run[r].pc = "announce"
    /\ run' = [run EXCEPT ![r].pc = "reply"]
    /\ UNCHANGED <<status, logs, hurt, unlogged, started>>

\* The caller gets its answer, or an error when its connection is reset.
Collect(r) ==
    /\ run[r].pc \in {"reply", "reset"}
    /\ run' = [run EXCEPT ![r] = Idle]
    /\ UNCHANGED <<status, logs, hurt, unlogged, started>>

\* The engine process dies with all its runs, and is started again.
Died(x) == IF x.pc = "idle" THEN x ELSE [Idle EXCEPT !.pc = "reset", !.exec = x.exec]
Crash ==
    /\ "engine" \in Faults
    /\ \E r \in Runs : run[r].pc \notin {"idle", "reset"}
    /\ run' = [r \in Runs |-> Died(run[r])]
    /\ hurt' = hurt \cup {run[r].exec : r \in {q \in Runs : run[q].pc \in Midway}}
    /\ UNCHANGED <<status, logs, unlogged, started>>

\* The reads and writes of a run, which neither publish nor answer.
Silent(r) ==
    \/ Load(r) \/ LoadFails(r)
    \/ \E written \in BOOLEAN : Start(r, written) \/ WriteLog(r, written) \/ Finish(r, written)
-----------------------------------------------------------------------------
LoopRun == [pc : LoopPhases, exec : Executions \cup {NoExec}, at : 0..NumSteps + 1,
            outcome : Terminal \cup {"none", "error"}]

LoopTypeOK ==
    /\ status \in [Executions -> Statuses]
    /\ logs \in [Executions -> SUBSET ((1..NumSteps) \X Terminal)]
    /\ run \in [Runs -> LoopRun]
    /\ hurt \cup unlogged \subseteq Executions

\* The step logs account for the status, also when runs of the execution overlap, are killed
\* or lose a status write: a success has a successful log of every step, a failure a failed
\* log of some step and successful ones of the steps before it.
LogsExplainStatus ==
    \A e \in Executions \ unlogged :
        /\ status[e] = "success" => \A i \in 1..NumSteps : <<i, "success">> \in logs[e]
        /\ status[e] = "failed" =>
             \E i \in 1..NumSteps :
                 /\ <<i, "failed">> \in logs[e]
                 /\ \A j \in 1..(i - 1) : <<j, "success">> \in logs[e]

\* A run seen by Engine: from the first status write to the last it is in "steps".
EngineRun(x) ==
    [pc |-> CASE x.pc \in Midway -> "steps"
              [] x.pc = "announce" -> "reply"
              [] OTHER -> x.pc,
     exec |-> x.exec,
     result |-> IF x.pc \in {"announce", "reply"} THEN x.outcome ELSE "none",
     attached |-> x.pc # "idle"]
=============================================================================
