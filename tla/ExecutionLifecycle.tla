------------------------- MODULE ExecutionLifecycle -------------------------
(***************************************************************************)
(* What the system promises about the status column of an execution,       *)
(* without queues, workers or calls.  An execution is owed work from its   *)
(* creation until the system is through with it.  Its status moves only    *)
(* while it is owed, never back to "pending"; once it is settled nothing   *)
(* changes it any more.                                                    *)
(*                                                                         *)
(* The promise is at-least-once: a status may go from "success" back to    *)
(* "running" while the execution is still owed.                            *)
(***************************************************************************)
CONSTANTS Executions

VARIABLES
    status,   \* the status column; "none": no row yet
    owed      \* executions some actor will still work on

vars == <<status, owed>>

Init ==
    /\ status = [e \in Executions |-> "none"]
    /\ owed = {}

\* A trigger inserts the row.
Create(e) ==
    /\ status[e] = "none"
    /\ status' = [status EXCEPT ![e] = "pending"]
    /\ owed' = owed \cup {e}

\* A run writes the status; with its last write it may be the last actor.
Work(e) ==
    /\ e \in owed
    /\ \E s \in {"running", "success", "failed"} : status' = [status EXCEPT ![e] = s]
    /\ owed' \in {owed, owed \ {e}}

\* The last actors of some executions are through, with or without success.
Settle ==
    /\ owed' \in SUBSET owed
    /\ UNCHANGED status

Next == (\E e \in Executions : Create(e) \/ Work(e)) \/ Settle

Spec == Init /\ [][Next]_vars
=============================================================================
