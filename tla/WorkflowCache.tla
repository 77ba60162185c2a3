--------------------------- MODULE WorkflowCache ----------------------------
(***************************************************************************)
(* api-gateway/internal/logic/workflowlogic.go: the CRUD of one workflow   *)
(* through the Redis cache entry "workflow:<id>".  Each statement against  *)
(* PostgreSQL or Redis is an action of its own, so requests interleave     *)
(* between them.  Workflows do not share entries, so one is enough.        *)
(*                                                                         *)
(* The content of the workflow is a version number that every update       *)
(* advances.  A cached item carries no owner: ownership is checked against *)
(* the row.  A list reads the table past the cache.                        *)
(***************************************************************************)
EXTENDS Naturals, FiniteSets

CONSTANTS
    Subjects,       \* what the claim "sub" of a token may be
    Empty,          \* the empty string, which stands for a missing "sub"
    Null,           \* the user_id of a row that is older than the column
    Tokens,         \* the bearer tokens that callers present
    Requests,       \* slots for requests in flight (a bound)
    MaxVersion,     \* bound on the number of updates
    CacheFaults     \* whether Redis commands may fail and api-gateway may die

ASSUME TokensAssumption == Tokens \subseteq [valid : BOOLEAN, sub : Subjects, admin : BOOLEAN]
ASSUME NullAssumption == Null \notin Subjects \cup {Empty}
ASSUME RequestsAssumption == IsFiniteSet(Requests)
ASSUME MaxVersionAssumption == MaxVersion \in Nat \ {0}
ASSUME CacheFaultsAssumption == CacheFaults \in BOOLEAN

VARIABLES
    row,        \* the row: none yet, or its owner, version and deleted_at
    cache,      \* the version in the entry, or NoEntry
    req,        \* the requests
    settled     \* history: the last version whose update answered Ok and deleted the entry

vars == <<row, cache, req, settled>>

NoEntry == 0
NoRow == [version |-> 0, owner |-> Null, deleted |-> FALSE]
Ops == {"list", "get", "update", "delete"}
Nobody == [valid |-> FALSE, sub |-> Null, admin |-> FALSE]

\* What a request has left to do; "found" and "refused" are its answers.
Phases == {"free", "list", "cache", "recheck", "read", "fill", "write", "del", "found", "refused"}
Free == [pc |-> "free", op |-> "get", by |-> Nobody, item |-> 0,
         floor |-> 0, gone |-> FALSE]

Init ==
    /\ row \in {NoRow, [NoRow EXCEPT !.version = 1]}
    /\ cache = NoEntry
    /\ req = [q \in Requests |-> Free]
    /\ settled = 0

Exists == row.version > 0
Visible == Exists /\ ~row.deleted

\* Mutant of Admitted: the result of the parser is not looked at.
AdmittedAnyway(t) == TRUE

\* JWTMiddleware: RS256, signed with a key of Keycloak's (which are there) and unexpired.
Admitted(t) == t.valid

\* ownerCheck, and the bypass for admins in front of it.  A NULL is scanned as "".
MayAccess(t) == t.admin \/ row.owner \in {Null, Empty, t.sub}

\* WHERE user_id = ? OR user_id = '', which no NULL satisfies; no condition for admins.
InList(t) == t.admin \/ row.owner \in {Empty, t.sub}

Goto(q, pc) == req' = [req EXCEPT ![q].pc = pc]
At(q, op, pc) == req[q].op = op /\ req[q].pc = pc
-----------------------------------------------------------------------------
\* POST /workflows.
Create(t) ==
    /\ Admitted(t)
    /\ ~Exists
    /\ row' = [version |-> 1, owner |-> t.sub, deleted |-> FALSE]
    /\ UNCHANGED <<cache, req, settled>>

\* The bound: an update arrives only if its version is in range.
RoomFor(op) ==
    op = "update" =>
        row.version + Cardinality({q \in Requests : req[q].op = "update"}) < MaxVersion

FirstPhase(op) == CASE op = "list" -> "list" [] op = "get" -> "cache" [] OTHER -> "read"

\* A request that the middleware lets through arrives, with the subject and the role it
\* puts into the context; `floor' and `gone' remember what the answer must not miss.
Arrive(q, t, op) ==
    /\ Admitted(t)
    /\ req[q] = Free
    /\ Exists /\ RoomFor(op)
    /\ req' = [req EXCEPT ![q] = [Free EXCEPT !.pc = FirstPhase(op), !.op = op, !.by = t,
                                             !.floor = settled, !.gone = row.deleted]]
    /\ UNCHANGED <<row, cache, settled>>

\* One SELECT: the workflow is among the rows, or it is not.
List(q) ==
    /\ At(q, "list", "list")
    /\ IF Visible /\ InList(req[q].by)
       THEN req' = [req EXCEPT ![q].item = row.version, ![q].pc = "found"]
       ELSE Goto(q, "refused")
    /\ UNCHANGED <<row, cache, settled>>

\* Mutant of CacheHit: "no such key" is taken for a value.
HitWithoutEntry(q) ==
    /\ At(q, "get", "cache")
    /\ req' = [req EXCEPT ![q].item = cache, ![q].pc = "found"]
    /\ UNCHANGED <<row, cache, settled>>

\* Redis GET finds the entry.  The item is the answer, once the caller is checked.
CacheHit(q) ==
    /\ At(q, "get", "cache")
    /\ cache # NoEntry
    /\ req' = [req EXCEPT ![q].item = cache,
                          ![q].pc = IF req[q].by.admin THEN "found" ELSE "recheck"]
    /\ UNCHANGED <<row, cache, settled>>

\* No entry, or Redis failed.
CacheMiss(q) ==
    /\ At(q, "get", "cache")
    /\ cache = NoEntry \/ CacheFaults
    /\ Goto(q, "read")
    /\ UNCHANGED <<row, cache, settled>>

\* Mutant of Recheck: the cached item is served to anybody.
RecheckNothing(q) ==
    /\ At(q, "get", "recheck")
    /\ Goto(q, "found")
    /\ UNCHANGED <<row, cache, settled>>

\* checkOwnership: the row is read again, for its owner only.
Recheck(q) ==
    /\ At(q, "get", "recheck")
    /\ Goto(q, IF Visible /\ MayAccess(req[q].by) THEN "found" ELSE "refused")
    /\ UNCHANGED <<row, cache, settled>>

\* Mutant of Read: update and delete do not check the owner.
ReadUnchecked(q) ==
    /\ req[q].pc = "read"
    /\ IF Visible /\ (req[q].op # "get" \/ MayAccess(req[q].by))
       THEN req' = [req EXCEPT ![q].item = row.version,
                               ![q].pc = IF req[q].op = "get" THEN "fill" ELSE "write"]
       ELSE Goto(q, "refused")
    /\ UNCHANGED <<row, cache, settled>>

\* DB.First and checkOwnershipModel, in all three operations.
Read(q) ==
    /\ req[q].pc = "read"
    /\ IF Visible /\ MayAccess(req[q].by)
       THEN req' = [req EXCEPT ![q].item = row.version,
                               ![q].pc = IF req[q].op = "get" THEN "fill" ELSE "write"]
       ELSE Goto(q, "refused")
    /\ UNCHANGED <<row, cache, settled>>

\* SETEX with what was read, however long ago; its error is ignored.
Fill(q) ==
    /\ At(q, "get", "fill")
    /\ cache' = req[q].item
    /\ Goto(q, "found")
    /\ UNCHANGED <<row, settled>>

FillFails(q) ==
    /\ CacheFaults
    /\ At(q, "get", "fill")
    /\ Goto(q, "found")
    /\ UNCHANGED <<row, cache, settled>>

\* UPDATE ... WHERE id = ? AND deleted_at IS NULL: no row matched is no error.
WriteUpdate(q) ==
    /\ At(q, "update", "write")
    /\ IF Visible
       THEN /\ row' = [row EXCEPT !.version = @ + 1]
            /\ req' = [req EXCEPT ![q].pc = "del", ![q].item = row.version + 1]
       ELSE Goto(q, "del") /\ UNCHANGED row
    /\ UNCHANGED <<cache, settled>>

\* UPDATE ... SET deleted_at.
WriteDelete(q) ==
    /\ At(q, "delete", "write")
    /\ row' = [row EXCEPT !.deleted = TRUE]
    /\ Goto(q, "del")
    /\ UNCHANGED <<cache, settled>>

MaxOf(m, n) == IF m > n THEN m ELSE n

\* Redis DEL, and Ok.
Invalidate(q) ==
    /\ req[q].pc = "del"
    /\ cache' = NoEntry
    /\ settled' = MaxOf(settled, req[q].item)
    /\ Goto(q, "found")
    /\ UNCHANGED row

\* DEL fails, or the process dies before it: the error, if any, is ignored.
InvalidateFails(q) ==
    /\ CacheFaults
    /\ req[q].pc = "del"
    /\ Goto(q, "found")
    /\ UNCHANGED <<row, cache, settled>>

Answered(q) == req[q].pc \in {"found", "refused"}

\* The client has its answer, or a query failed and the client got the error.  (Whatever the
\* error is, checkOwnership words it "workflow not found": no refusal, and not told from one.)
Leave(q) ==
    /\ Answered(q) \/ (req[q].pc \in {"list", "recheck", "read", "write"} /\ CacheFaults)
    /\ req' = [req EXCEPT ![q] = Free]
    /\ UNCHANGED <<row, cache, settled>>

\* Mutant of Expire: an entry without a time to live.
ExpireNever == FALSE /\ UNCHANGED vars

\* The 5 minutes of SETEX are over.
Expire ==
    /\ cache # NoEntry
    /\ cache' = NoEntry
    /\ UNCHANGED <<row, req, settled>>

RequestStep(q) ==
    \/ List(q) \/ CacheHit(q) \/ CacheMiss(q) \/ Recheck(q) \/ Read(q) \/ Fill(q) \/ FillFails(q)
    \/ WriteUpdate(q) \/ WriteDelete(q) \/ Invalidate(q) \/ InvalidateFails(q) \/ Leave(q)

Next ==
    \/ \E t \in Tokens : Create(t) \/ \E q \in Requests, op \in Ops : Arrive(q, t, op)
    \/ \E q \in Requests : RequestStep(q)
    \/ Expire

Spec == Init /\ [][Next]_vars

\* Redis expires entries, and handlers run to their end.
FairSpec == Spec /\ WF_vars(Expire) /\ \A q \in Requests : WF_vars(RequestStep(q))
-----------------------------------------------------------------------------
RequestRecord ==
    [pc : Phases, op : Ops, by : Tokens \cup {Nobody}, item : 0..MaxVersion,
     floor : 0..MaxVersion, gone : BOOLEAN]

\* The caller was handed the workflow.
Served(q) == req[q].op \in {"list", "get"} /\ req[q].pc = "found"

\* Types; and an item that is served is a version the row has had.
TypeOK ==
    /\ row \in [version : 0..MaxVersion, owner : Subjects \cup {Null}, deleted : BOOLEAN]
    /\ cache \in 0..MaxVersion
    /\ req \in [Requests -> RequestRecord]
    /\ settled \in 0..MaxVersion
    /\ \A q \in Requests : Served(q) => req[q].item \in 1..row.version

\* A get, from the cache or not, and a list hand the workflow only to holders of a valid
\* token: to its owner, to admins, and to others only if it has no owner.
ServedToOwner ==
    \A q \in Requests :
        Served(q) => /\ req[q].by.valid
                     /\ req[q].by.admin \/ row.owner \in {Null, Empty, req[q].by.sub}

\* A workflow that was deleted before the request arrived is served to admins at most,
\* from an entry that outlived it, and is listed to nobody.
DeletedIsHidden ==
    \A q \in Requests :
        Served(q) /\ req[q].gone => req[q].op = "get" /\ req[q].by.admin

\* The statements of a request act like one: ownership checked at the SELECT still holds
\* at the UPDATE or at the answer, a write happens once at most, and nobody who may
\* access the workflow is turned away (WorkflowStore).
Seen(q) ==
    [state |-> CASE req[q].pc = "free" -> "free"
                 [] req[q].pc \in {"del", "found", "refused"} -> "done"
                 [] OTHER -> "asked",
     op |-> req[q].op, by |-> req[q].by, item |-> IF Served(q) THEN req[q].item ELSE 0]
Store == INSTANCE WorkflowStore WITH ask <- [q \in Requests |-> Seen(q)]
ImplementsStore == Store!Spec

\* Staleness has an end: when the last update or delete is through, the entry sooner
\* or later holds the current version or nothing (nothing, for a deleted workflow),
\* whatever fills and failures raced.
NoWriters == \A q \in Requests : req[q].op \in {"list", "get"}
Fresh == cache = NoEntry \/ (cache = row.version /\ ~row.deleted)
StaleEnds == <>[]NoWriters => <>[]Fresh

\* stage-4-walkthrough: after an update or delete the old key is gone and the next
\* request reads the database: a get that arrives after an update answered Ok, its
\* DEL done, does not return an older version.
UpdateIsSeen ==
    \A q \in Requests :
        At(q, "get", "found") => req[q].item >= req[q].floor

\* stage-5-walkthrough: "user_id = ''" in the list lets users reach the workflows that
\* were created before authentication: a list passes over no workflow its caller may get.
AccessibleIsListed ==
    [][\A q \in Requests :
          At(q, "list", "list") /\ At(q, "list", "refused")' /\ Visible
             => ~MayAccess(req[q].by)]_vars
=============================================================================
