------------------------------- MODULE Models -------------------------------
(***************************************************************************)
(* The rows the services share in PostgreSQL, as model/models.go declares  *)
(* them: which executions and workflows there are, the workflow_id of each *)
(* execution and the values of its status column.                          *)
(***************************************************************************)
CONSTANTS
    Executions,   \* ids the executions table will hand out
    Workflows,    \* ids of workflows that exist at the start
    WorkflowOf,   \* workflow_id of each execution
    Owned,        \* workflows whose user_id holds a Keycloak subject (not NULL)
    NoExec,       \* no execution
    Faults        \* what may go wrong in a run of the model, among FaultKinds

ASSUME WorkflowOfAssumption == WorkflowOf \in [Executions -> Workflows]
ASSUME OwnedAssumption == Owned \subseteq Workflows
ASSUME NoExecAssumption == NoExec \notin Executions

FaultKinds == {"query",       \* a statement whose error is checked fails
               "write",       \* an update whose error is ignored fails
               "rpc",         \* a gRPC call breaks, or the engine is unreachable
               "publish",     \* a publish fails, in the broker or in Redis, or is never stored
               "connection",  \* the consumers' AMQP connection, or a channel of it, is lost or refused
               "gateway", "engine", "scheduler"}   \* the process dies

ASSUME FaultsAssumption == Faults \subseteq FaultKinds

Terminal == {"success", "failed"}

\* The memory of a status write (history).  One whose error was ignored hurts its execution,
\* and a later one that writes an end mends it.
StillHurt(victims, e, s, written) ==
    IF ~written THEN victims \cup {e} ELSE IF s \in Terminal THEN victims \ {e} ELSE victims

\* "none": the row has not been created.
Statuses == {"none", "pending", "running"} \cup Terminal
=============================================================================
