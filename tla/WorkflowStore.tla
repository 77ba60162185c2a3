--------------------------- MODULE WorkflowStore ----------------------------
(***************************************************************************)
(* What the CRUD of a workflow promises, without cache and statements: a   *)
(* request is checked and carried out in one step.  Only those who may     *)
(* access the row write it or are handed it, and nobody who may is turned  *)
(* away.  A get may hand out any version the row has had; a list hands out *)
(* the current one, though not of rows whose owner is NULL.                *)
(***************************************************************************)
EXTENDS Naturals

CONSTANTS Tokens, Requests, Null, Empty, Nobody

VARIABLES
    row,      \* the row, as in WorkflowCache
    ask       \* the requests: asked or done, by whom, and the version handed out

vars == <<row, ask>>

Ops == {"list", "get", "update", "delete"}
Free == [state |-> "free", op |-> "get", by |-> Nobody, item |-> 0]

Init ==
    /\ row \in {[version |-> v, owner |-> Null, deleted |-> FALSE] : v \in {0, 1}}
    /\ ask = [q \in Requests |-> Free]

MayAccess(t) == t.admin \/ row.owner \in {Null, Empty, t.sub}
Visible == row.version > 0 /\ ~row.deleted

Create(t) ==
    /\ t.valid /\ row.version = 0
    /\ row' = [version |-> 1, owner |-> t.sub, deleted |-> FALSE]
    /\ UNCHANGED ask

Becomes(q, x) == ask' = [ask EXCEPT ![q] = x]
Done(q, item) ==
    Becomes(q, [state |-> "done", op |-> ask[q].op, by |-> ask[q].by, item |-> item])
Asked(q, ops) == ask[q].state = "asked" /\ ask[q].op \in ops

Ask(q) ==
    /\ ask[q].state = "free"
    /\ \E t \in Tokens, op \in Ops :
          t.valid /\ Becomes(q, [state |-> "asked", op |-> op, by |-> t, item |-> 0])
    /\ UNCHANGED row

Serve(q) ==
    /\ Asked(q, {"get", "list"}) /\ MayAccess(ask[q].by)
    /\ IF ask[q].op = "get"
       THEN \E v \in 1..row.version : Done(q, v)
       ELSE Visible /\ Done(q, row.version)
    /\ UNCHANGED row

Refuse(q) ==
    /\ ask[q].state = "asked"
    /\ \/ ~Visible \/ ~MayAccess(ask[q].by)
       \/ ask[q].op = "list" /\ row.owner = Null
    /\ Done(q, 0)
    /\ UNCHANGED row

\* An update of a row that has been deleted meanwhile does nothing.
Update(q) ==
    /\ Asked(q, {"update"}) /\ MayAccess(ask[q].by)
    /\ row' = IF Visible THEN [row EXCEPT !.version = @ + 1] ELSE row
    /\ Done(q, 0)

Delete(q) ==
    /\ Asked(q, {"delete"}) /\ MayAccess(ask[q].by)
    /\ row' = [row EXCEPT !.deleted = TRUE]
    /\ Done(q, 0)

\* The answer, or an error, has reached the caller.
Leave(q) ==
    /\ ask[q].state # "free"
    /\ Becomes(q, Free)
    /\ UNCHANGED row

Next ==
    \/ \E t \in Tokens : Create(t)
    \/ \E q \in Requests : Ask(q) \/ Serve(q) \/ Refuse(q) \/ Update(q) \/ Delete(q) \/ Leave(q)

Spec == Init /\ [][Next]_vars
=============================================================================
