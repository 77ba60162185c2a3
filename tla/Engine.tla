------------------------------- MODULE Engine -------------------------------
(***************************************************************************)
(* execution-engine: the gRPC handler RunExecution, one slot of Runs per   *)
(* call in flight, over the rows it shares with api-gateway: the status of *)
(* each execution and whether its workflow is deleted (soft delete).       *)
(*                                                                         *)
(* A run is load -> start -> steps -> reply.  Nothing locks the rows, so   *)
(* two runs of one execution interleave freely.  The handler ignores the   *)
(* error of both status updates; `written' = FALSE is such an error.  The  *)
(* caller's context reaches only the step runners, so a run whose caller   *)
(* has gone goes on to its end; a cancelled step is one that failed.       *)
(* What happens between `start' and the last step is in StepLoop.          *)
(***************************************************************************)
EXTENDS Naturals, FiniteSets, Models

CONSTANT
    Runs       \* slots for RunExecution calls in flight (a bound)

VARIABLES
    status,    \* status column of executions; "none": no such row
    alive,     \* workflows whose deleted_at IS NULL
    run,       \* the RunExecution handlers
    hurt       \* history: executions with a failed status write or a killed run and no end
               \* written since

engineVars == <<status, alive, run, hurt>>

\* What the caller gets: a status, or an error (workflow row missing, or DB error).
Results == Terminal \cup {"none", "missing", "error"}
\* "reset": the engine died under a caller that has not noticed yet.
Phases == {"idle", "load", "start", "steps", "reply", "reset"}

RunRecord == [pc : Phases, exec : Executions \cup {NoExec},
              result : Results, attached : BOOLEAN]

Idle == [pc |-> "idle", exec |-> NoExec, result |-> "none", attached |-> FALSE]

EngineInit ==
    /\ alive = Workflows
    /\ run = [r \in Runs |-> Idle]
    /\ hurt = {}

\* Runs of e that still have work to do.
Active(e) == {r \in Runs : run[r].exec = e /\ run[r].pc \in {"load", "start", "steps"}}
\* Runs of e between their two status writes.
Working(e) == {r \in Runs : run[r].exec = e /\ run[r].pc = "steps"}

\* A run has its answer: keep it for the caller, or drop it if there is none.
Answered(r, result) ==
    IF run[r].attached
    THEN [run[r] EXCEPT !.pc = "reply", !.result = result]
    ELSE Idle

\* UPDATE executions SET status = s; the error of the update is ignored.
WriteStatus(e, s, written) ==
    /\ written \/ "write" \in Faults
    /\ status' = IF written THEN [status EXCEPT ![e] = s] ELSE status
    /\ hurt' = StillHurt(hurt, e, s, written)

\* The engine receives a call.
Accept(r, e) ==
    /\ run[r] = Idle
    /\ run' = [run EXCEPT ![r] = [pc |-> "load", exec |-> e,
                                  result |-> "none", attached |-> TRUE]]
    /\ UNCHANGED <<status, alive, hurt>>

\* Both rows are read.  The execution row was committed before its message was
\* published and no code deletes it.  The engine's Workflow declares UserID as a
\* uint, so the row of an owned workflow cannot be scanned.
Load(r) ==
    /\ run[r].pc = "load"
    /\ WorkflowOf[run[r].exec] \in alive \ Owned
    /\ run' = [run EXCEPT ![r].pc = "start"]
    /\ UNCHANGED <<status, alive, hurt>>

\* The workflow was deleted: an error, and the execution row is left as it is.
LoadMissing(r) ==
    /\ run[r].pc = "load"
    /\ WorkflowOf[run[r].exec] \notin alive
    /\ run' = [run EXCEPT ![r] = Answered(r, "missing")]
    /\ UNCHANGED <<status, alive, hurt>>

\* Either read fails, or the workflow row cannot be scanned.
LoadError(r) ==
    /\ run[r].pc = "load"
    /\ "query" \in Faults \/ WorkflowOf[run[r].exec] \in alive \cap Owned
    /\ run' = [run EXCEPT ![r] = Answered(r, "error")]
    /\ UNCHANGED <<status, alive, hurt>>

\* "Transition pending -> running": the update does not look at the old status.
Start(r, written) ==
    /\ run[r].pc = "start"
    /\ WriteStatus(run[r].exec, "running", written)
    /\ run' = [run EXCEPT ![r].pc = "steps"]
    /\ UNCHANGED alive

\* Mutant of Finish: the row is not updated when the run failed.
FinishOnSuccess(r, result, written) ==
    /\ run[r].pc = "steps"
    /\ IF result = "success"
       THEN WriteStatus(run[r].exec, result, written)
       ELSE UNCHANGED <<status, hurt>>
    /\ run' = [run EXCEPT ![r] = Answered(r, result)]
    /\ UNCHANGED alive

\* Mutant of Finish: no return after a failed step, so the loop goes on.
FinishGoesOn(r, result, written) ==
    /\ run[r].pc = "steps"
    /\ WriteStatus(run[r].exec, result, written)
    /\ run' = IF result = "failed" THEN run ELSE [run EXCEPT ![r] = Answered(r, result)]
    /\ UNCHANGED alive

\* All steps succeeded, or one failed; finishExecution writes the outcome.
Finish(r, result, written) ==
    /\ run[r].pc = "steps"
    /\ WriteStatus(run[r].exec, result, written)
    /\ run' = [run EXCEPT ![r] = Answered(r, result)]
    /\ UNCHANGED alive

RunStep(r) ==
    \/ Load(r) \/ LoadMissing(r) \/ LoadError(r)
    \/ \E written \in BOOLEAN : Start(r, written)
    \/ \E result \in Terminal, written \in BOOLEAN : Finish(r, result, written)

\* What becomes of a run whose caller stops waiting: it goes on unless it is over.
WithoutCaller(r) ==
    IF run[r].pc \in {"reply", "reset"} THEN Idle ELSE [run[r] EXCEPT !.attached = FALSE]

\* The caller's connection breaks, or its process dies.
Detach(r) ==
    /\ run[r].attached
    /\ run' = [run EXCEPT ![r] = WithoutCaller(r)]
    /\ UNCHANGED <<status, alive, hurt>>

\* The caller reads the answer.
Collect(r) ==
    /\ run[r].pc = "reply"
    /\ run' = [run EXCEPT ![r] = Idle]
    /\ UNCHANGED <<status, alive, hurt>>

\* The engine process dies with all its runs; compose restarts it.  Callers that
\* wait get Unavailable.
EngineCrash ==
    /\ "engine" \in Faults
    /\ \E r \in Runs : run[r].pc \notin {"idle", "reset"}
    /\ run' = [r \in Runs |->
                 IF run[r].attached
                 THEN [run[r] EXCEPT !.pc = "reset", !.result = "none"]
                 ELSE Idle]
    /\ hurt' = hurt \cup {e \in Executions : Working(e) # {}}
    /\ UNCHANGED <<status, alive>>

\* DELETE /workflows/:id sets deleted_at.
DeleteWorkflow(f) ==
    /\ f \in alive
    /\ alive' = alive \ {f}
    /\ UNCHANGED <<status, run, hurt>>

EngineTypeOK ==
    /\ status \in [Executions -> Statuses]
    /\ alive \subseteq Workflows
    /\ run \in [Runs -> RunRecord]
    /\ hurt \subseteq Executions
-----------------------------------------------------------------------------
\* The engine by itself, called for rows that exist: what StepLoop implements.
EngineNext ==
    \/ \E r \in Runs :
         \/ \E e \in Executions : status[e] # "none" /\ Accept(r, e)
         \/ RunStep(r) \/ Detach(r) \/ Collect(r)
    \/ EngineCrash
    \/ \E f \in Workflows : DeleteWorkflow(f)

EngineSpec ==
    /\ status = [e \in Executions |-> "pending"]
    /\ EngineInit
    /\ [][EngineNext]_engineVars
=============================================================================
