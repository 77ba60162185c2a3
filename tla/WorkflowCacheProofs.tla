------------------------ MODULE WorkflowCacheProofs -------------------------
(***************************************************************************)
(* WorkflowCache: TypeOK, ServedToOwner and DeletedIsHidden hold for any   *)
(* number of requests, callers and updates.                                *)
(*                                                                         *)
(* IInv adds what the invariants rest on: which phases an operation goes   *)
(* through, that a row once created keeps its owner and once deleted stays *)
(* deleted, so that a check of the row made earlier still counts when the  *)
(* answer goes out, and that the entry is never ahead of the row.          *)
(***************************************************************************)
EXTENDS WorkflowCache, FiniteSetTheorems, TLAPS

\* The updates that have still to write their version, and the room left for them.
Pending == {q \in Requests : req[q].op = "update" /\ req[q].pc \in {"read", "write"}}
Room == row.version + Cardinality(Pending) <= MaxVersion

Types ==
    /\ row \in [version : 0..MaxVersion, owner : Subjects \cup {Null}, deleted : BOOLEAN]
    /\ cache \in 0..MaxVersion
    /\ req \in [Requests -> RequestRecord]
    /\ settled \in 0..MaxVersion

\* Each phase belongs to one operation or two.
PhaseInv(q) ==
    /\ req[q].pc # "free" => req[q].by \in Tokens /\ req[q].by.valid /\ row.version > 0
    /\ req[q].pc \in {"cache", "recheck", "fill"} => req[q].op = "get"
    /\ req[q].op = "list" => req[q].pc \in {"list", "found", "refused"}
    /\ req[q].pc = "list" => req[q].op = "list"
    /\ req[q].pc \in {"write", "del"} => req[q].op \in {"update", "delete"}
    /\ req[q].pc = "free" => ~req[q].gone

\* What has been read is a version that there was.
ItemInv(q) ==
    /\ req[q].item <= row.version
    /\ Served(q) \/ req[q].pc \in {"recheck", "fill"} => req[q].item > 0

\* What is on its way to the caller is his to see, and what is to be written his to write.
AccessInv(q) ==
    /\ Served(q) \/ req[q].pc \in {"fill", "write"} => MayAccess(req[q].by)
    /\ req[q].gone => /\ row.deleted
                      /\ req[q].pc # "fill"
                      /\ Served(q) => req[q].op = "get" /\ req[q].by.admin

RequestInv == \A q \in Requests : PhaseInv(q) /\ ItemInv(q) /\ AccessInv(q)

IInv == Types /\ Room /\ cache <= row.version /\ RequestInv
-----------------------------------------------------------------------------
USE MaxVersionAssumption, CacheFaultsAssumption

\* It holds at the start: one row or none, no entry and no request.
LEMMA InitEstablishes == Init => IInv
<1> SUFFICES ASSUME Init PROVE IInv
    OBVIOUS
<1>1. Pending = {}
    BY DEF Init, Pending, Free
<1>2. Cardinality(Pending) = 0
    BY <1>1, FS_EmptySet
<1>3. row \in [version : 0..MaxVersion, owner : Subjects \cup {Null}, deleted : BOOLEAN]
    <2>1. CASE row = NoRow
        BY <2>1 DEF NoRow
    <2>2. CASE row = [NoRow EXCEPT !.version = 1]
        <3>1. row = [version |-> 1, owner |-> Null, deleted |-> FALSE]
            BY <2>2, Zenon DEF NoRow
        <3> QED
            BY <3>1
    <2> QED
        BY <2>1, <2>2 DEF Init
<1>4. Free \in RequestRecord
    BY DEF Free, RequestRecord, Phases, Ops
<1>5. Types
    BY <1>3, <1>4 DEF Init, Types, NoEntry
<1> QED
    BY <1>2, <1>3, <1>5 DEF Init, IInv, Room, NoRow, NoEntry, RequestInv, PhaseInv, ItemInv,
       AccessInv, Served, Free
-----------------------------------------------------------------------------
(* A step of a request that leaves the row alone.                            *)

\* Where no update comes in and none is written, the room for versions stays.
LEMMA RoomKept ==
    ASSUME IInv, row' = row, Pending' \subseteq Pending
    PROVE  Room'
<1>1. IsFiniteSet(Pending)
    BY RequestsAssumption, FS_Subset DEF Pending
<1>2. Cardinality(Pending') <= Cardinality(Pending) /\ Cardinality(Pending) \in Nat
         /\ Cardinality(Pending') \in Nat
    BY <1>1, FS_Subset, FS_CardinalityType
<1> QED
    BY <1>2 DEF IInv, Types, Room

\* The invariant survives if request q becomes x and the facts about q hold of x.
LEMMA RequestMoves ==
    ASSUME IInv, NEW q \in Requests, NEW x \in RequestRecord,
           req' = [req EXCEPT ![q] = x], row' = row,
           cache' \in 0..MaxVersion, cache' <= row.version, settled' \in 0..MaxVersion,
           x.op = "update" /\ x.pc \in {"read", "write"} => q \in Pending,
           PhaseInv(q)', ItemInv(q)', AccessInv(q)'
    PROVE  IInv'
<1>1. Types'
    BY DEF IInv, Types
<1>2. Pending' \subseteq Pending
    BY DEF IInv, Types, Pending
<1>3. Room'
    BY <1>2, RoomKept
<1>4. ASSUME NEW p \in Requests, p # q
      PROVE  PhaseInv(p)' /\ ItemInv(p)' /\ AccessInv(p)'
    <2>1. req'[p] = req[p]
        BY <1>4 DEF IInv, Types
    <2>2. PhaseInv(p) /\ ItemInv(p) /\ AccessInv(p)
        BY DEF IInv, RequestInv
    <2> QED
        BY <2>1, <2>2 DEF PhaseInv, ItemInv, AccessInv, Served, MayAccess
<1> QED
    BY <1>1, <1>3, <1>4 DEF IInv, RequestInv

\* What is known of a request at each of its steps.
LEMMA RequestFacts ==
    ASSUME IInv, NEW q \in Requests
    PROVE  /\ req[q] \in RequestRecord /\ PhaseInv(q) /\ ItemInv(q) /\ AccessInv(q)
           /\ row.version \in 0..MaxVersion /\ cache \in 0..MaxVersion /\ cache <= row.version
           /\ settled \in 0..MaxVersion
BY DEF IInv, Types, RequestInv

\* List reads the rows of a page and stores nothing.
LEMMA ListPreserves ==
    ASSUME IInv, NEW q \in Requests, List(q)
    PROVE  IInv'
<1> DEFINE x == req'[q]
<1>1. x \in RequestRecord /\ req' = [req EXCEPT ![q] = x] /\ row' = row
    BY RequestFacts DEF List, At, Goto, IInv, Types, RequestRecord, Phases, Ops, Free, NoEntry
<1>2. /\ cache' \in 0..MaxVersion /\ cache' <= row.version /\ settled' \in 0..MaxVersion
      /\ x.op = "update" /\ x.pc \in {"read", "write"} => q \in Pending
    BY RequestFacts, <1>1 DEF List, At, Goto, IInv, Types, Pending, RequestRecord, Free, MaxOf, NoEntry
<1>3. PhaseInv(q)' /\ ItemInv(q)' /\ AccessInv(q)'
    BY RequestFacts, <1>1 DEF List, At, Goto, PhaseInv, ItemInv, AccessInv, Served, MayAccess, InList,
       Visible, Exists, RequestRecord, Free, NoEntry, IInv, Types
<1> QED
    BY <1>1, <1>2, <1>3, RequestMoves

\* Get finds an entry; whose it is comes next, except for an admin.
LEMMA CacheHitPreserves ==
    ASSUME IInv, NEW q \in Requests, CacheHit(q)
    PROVE  IInv'
<1> DEFINE x == req'[q]
<1>1. x \in RequestRecord /\ req' = [req EXCEPT ![q] = x] /\ row' = row
    BY RequestFacts DEF CacheHit, At, Goto, IInv, Types, RequestRecord, Phases, Ops, Free, NoEntry
<1>2. /\ cache' \in 0..MaxVersion /\ cache' <= row.version /\ settled' \in 0..MaxVersion
      /\ x.op = "update" /\ x.pc \in {"read", "write"} => q \in Pending
    BY RequestFacts, <1>1 DEF CacheHit, At, Goto, IInv, Types, Pending, RequestRecord, Free, MaxOf, NoEntry
<1>3. PhaseInv(q)' /\ ItemInv(q)' /\ AccessInv(q)'
    BY RequestFacts, <1>1 DEF CacheHit, At, Goto, PhaseInv, ItemInv, AccessInv, Served, MayAccess, InList,
       Visible, Exists, RequestRecord, Free, NoEntry, IInv, Types
<1> QED
    BY <1>1, <1>2, <1>3, RequestMoves

\* Get finds no entry and goes on to the row.
LEMMA CacheMissPreserves ==
    ASSUME IInv, NEW q \in Requests, CacheMiss(q)
    PROVE  IInv'
<1> DEFINE x == req'[q]
<1>1. x \in RequestRecord /\ req' = [req EXCEPT ![q] = x] /\ row' = row
    BY RequestFacts DEF CacheMiss, At, Goto, IInv, Types, RequestRecord, Phases, Ops, Free, NoEntry
<1>2. /\ cache' \in 0..MaxVersion /\ cache' <= row.version /\ settled' \in 0..MaxVersion
      /\ x.op = "update" /\ x.pc \in {"read", "write"} => q \in Pending
    BY RequestFacts, <1>1 DEF CacheMiss, At, Goto, IInv, Types, Pending, RequestRecord, Free, MaxOf, NoEntry
<1>3. PhaseInv(q)' /\ ItemInv(q)' /\ AccessInv(q)'
    BY RequestFacts, <1>1 DEF CacheMiss, At, Goto, PhaseInv, ItemInv, AccessInv, Served, MayAccess, InList,
       Visible, Exists, RequestRecord, Free, NoEntry, IInv, Types
<1> QED
    BY <1>1, <1>2, <1>3, RequestMoves

\* After a hit the owner is read from the row.
LEMMA RecheckPreserves ==
    ASSUME IInv, NEW q \in Requests, Recheck(q)
    PROVE  IInv'
<1> DEFINE x == req'[q]
<1>1. x \in RequestRecord /\ req' = [req EXCEPT ![q] = x] /\ row' = row
    BY RequestFacts DEF Recheck, At, Goto, IInv, Types, RequestRecord, Phases, Ops, Free, NoEntry
<1>2. /\ cache' \in 0..MaxVersion /\ cache' <= row.version /\ settled' \in 0..MaxVersion
      /\ x.op = "update" /\ x.pc \in {"read", "write"} => q \in Pending
    BY RequestFacts, <1>1 DEF Recheck, At, Goto, IInv, Types, Pending, RequestRecord, Free, MaxOf, NoEntry
<1>3. PhaseInv(q)' /\ ItemInv(q)' /\ AccessInv(q)'
    BY RequestFacts, <1>1 DEF Recheck, At, Goto, PhaseInv, ItemInv, AccessInv, Served, MayAccess, InList,
       Visible, Exists, RequestRecord, Free, NoEntry, IInv, Types
<1> QED
    BY <1>1, <1>2, <1>3, RequestMoves

\* The row is read, and refused to those it does not belong to.
LEMMA ReadPreserves ==
    ASSUME IInv, NEW q \in Requests, Read(q)
    PROVE  IInv'
<1> DEFINE x == req'[q]
<1>1. x \in RequestRecord /\ req' = [req EXCEPT ![q] = x] /\ row' = row
    BY RequestFacts DEF Read, At, Goto, IInv, Types, RequestRecord, Phases, Ops, Free, NoEntry
<1>2. /\ cache' \in 0..MaxVersion /\ cache' <= row.version /\ settled' \in 0..MaxVersion
      /\ x.op = "update" /\ x.pc \in {"read", "write"} => q \in Pending
    BY RequestFacts, <1>1 DEF Read, At, Goto, IInv, Types, Pending, RequestRecord, Free, MaxOf, NoEntry
<1>3. PhaseInv(q)' /\ ItemInv(q)' /\ AccessInv(q)'
    BY RequestFacts, <1>1 DEF Read, At, Goto, PhaseInv, ItemInv, AccessInv, Served, MayAccess, InList,
       Visible, Exists, RequestRecord, Free, NoEntry, IInv, Types
<1> QED
    BY <1>1, <1>2, <1>3, RequestMoves

\* Get stores the version it has read.
LEMMA FillPreserves ==
    ASSUME IInv, NEW q \in Requests, Fill(q)
    PROVE  IInv'
<1> DEFINE x == req'[q]
<1>1. x \in RequestRecord /\ req' = [req EXCEPT ![q] = x] /\ row' = row
    BY RequestFacts DEF Fill, At, Goto, IInv, Types, RequestRecord, Phases, Ops, Free, NoEntry
<1>2. /\ cache' \in 0..MaxVersion /\ cache' <= row.version /\ settled' \in 0..MaxVersion
      /\ x.op = "update" /\ x.pc \in {"read", "write"} => q \in Pending
    BY RequestFacts, <1>1 DEF Fill, At, Goto, IInv, Types, ItemInv, Pending, RequestRecord
<1>3. PhaseInv(q)' /\ ItemInv(q)' /\ AccessInv(q)'
    BY RequestFacts, <1>1 DEF Fill, At, Goto, PhaseInv, ItemInv, AccessInv, Served, MayAccess, InList,
       Visible, Exists, RequestRecord, Free, NoEntry, IInv, Types
<1> QED
    BY <1>1, <1>2, <1>3, RequestMoves

\* Redis fails and get answers all the same.
LEMMA FillFailsPreserves ==
    ASSUME IInv, NEW q \in Requests, FillFails(q)
    PROVE  IInv'
<1> DEFINE x == req'[q]
<1>1. x \in RequestRecord /\ req' = [req EXCEPT ![q] = x] /\ row' = row
    BY RequestFacts DEF FillFails, At, Goto, IInv, Types, RequestRecord, Phases, Ops, Free, NoEntry
<1>2. /\ cache' \in 0..MaxVersion /\ cache' <= row.version /\ settled' \in 0..MaxVersion
      /\ x.op = "update" /\ x.pc \in {"read", "write"} => q \in Pending
    BY RequestFacts, <1>1 DEF FillFails, At, Goto, IInv, Types, Pending, RequestRecord, Free, MaxOf, NoEntry
<1>3. PhaseInv(q)' /\ ItemInv(q)' /\ AccessInv(q)'
    BY RequestFacts, <1>1 DEF FillFails, At, Goto, PhaseInv, ItemInv, AccessInv, Served, MayAccess, InList,
       Visible, Exists, RequestRecord, Free, NoEntry, IInv, Types
<1> QED
    BY <1>1, <1>2, <1>3, RequestMoves

\* DEL after an update or a delete.
LEMMA InvalidatePreserves ==
    ASSUME IInv, NEW q \in Requests, Invalidate(q)
    PROVE  IInv'
<1> DEFINE x == req'[q]
<1>1. x \in RequestRecord /\ req' = [req EXCEPT ![q] = x] /\ row' = row
    BY RequestFacts DEF Invalidate, At, Goto, IInv, Types, RequestRecord, Phases, Ops, Free, NoEntry
<1>2. /\ cache' \in 0..MaxVersion /\ cache' <= row.version /\ settled' \in 0..MaxVersion
      /\ x.op = "update" /\ x.pc \in {"read", "write"} => q \in Pending
    BY RequestFacts, <1>1 DEF Invalidate, At, Goto, IInv, Types, Pending, RequestRecord, Free, MaxOf, NoEntry
<1>3. PhaseInv(q)' /\ ItemInv(q)' /\ AccessInv(q)'
    BY RequestFacts, <1>1 DEF Invalidate, At, Goto, PhaseInv, ItemInv, AccessInv, Served, MayAccess, InList,
       Visible, Exists, RequestRecord, Free, NoEntry, IInv, Types
<1> QED
    BY <1>1, <1>2, <1>3, RequestMoves

\* Redis fails and the old entry stays.
LEMMA InvalidateFailsPreserves ==
    ASSUME IInv, NEW q \in Requests, InvalidateFails(q)
    PROVE  IInv'
<1> DEFINE x == req'[q]
<1>1. x \in RequestRecord /\ req' = [req EXCEPT ![q] = x] /\ row' = row
    BY RequestFacts DEF InvalidateFails, At, Goto, IInv, Types, RequestRecord, Phases, Ops, Free, NoEntry
<1>2. /\ cache' \in 0..MaxVersion /\ cache' <= row.version /\ settled' \in 0..MaxVersion
      /\ x.op = "update" /\ x.pc \in {"read", "write"} => q \in Pending
    BY RequestFacts, <1>1 DEF InvalidateFails, At, Goto, IInv, Types, Pending, RequestRecord, Free, MaxOf, NoEntry
<1>3. PhaseInv(q)' /\ ItemInv(q)' /\ AccessInv(q)'
    BY RequestFacts, <1>1 DEF InvalidateFails, At, Goto, PhaseInv, ItemInv, AccessInv, Served, MayAccess, InList,
       Visible, Exists, RequestRecord, Free, NoEntry, IInv, Types
<1> QED
    BY <1>1, <1>2, <1>3, RequestMoves

\* A request is answered, or ends with an error of the database.
LEMMA LeavePreserves ==
    ASSUME IInv, NEW q \in Requests, Leave(q)
    PROVE  IInv'
<1> DEFINE x == req'[q]
<1>1. x \in RequestRecord /\ req' = [req EXCEPT ![q] = x] /\ row' = row
    BY RequestFacts DEF Leave, At, Goto, IInv, Types, RequestRecord, Phases, Ops, Free, NoEntry
<1>2. /\ cache' \in 0..MaxVersion /\ cache' <= row.version /\ settled' \in 0..MaxVersion
      /\ x.op = "update" /\ x.pc \in {"read", "write"} => q \in Pending
    BY RequestFacts, <1>1 DEF Leave, At, Goto, IInv, Types, Pending, RequestRecord, Free, MaxOf, NoEntry
<1>3. PhaseInv(q)' /\ ItemInv(q)' /\ AccessInv(q)'
    BY RequestFacts, <1>1 DEF Leave, At, Goto, PhaseInv, ItemInv, AccessInv, Served, MayAccess, InList,
       Visible, Exists, RequestRecord, Free, NoEntry, IInv, Types
<1> QED
    BY <1>1, <1>2, <1>3, RequestMoves

-----------------------------------------------------------------------------
(* The steps that write the row, and the arrival of a request.               *)

\* Facts about a request that is served, or about to be, outlast a change of the row that
\* keeps its owner and lowers neither its version nor deleted_at.
LEMMA RequestKept ==
    ASSUME IInv, NEW p \in Requests, req'[p] = req[p], row.version <= row'.version,
           row'.version \in Nat, row'.owner = row.owner, row.deleted => row'.deleted
    PROVE  PhaseInv(p)' /\ ItemInv(p)' /\ AccessInv(p)'
BY RequestFacts DEF PhaseInv, ItemInv, AccessInv, Served, MayAccess, RequestRecord

\* There are finitely many updates under way.
LEMMA PendingFacts ==
    ASSUME Types
    PROVE  IsFiniteSet(Pending) /\ Cardinality(Pending) \in Nat
BY RequestsAssumption, FS_Subset, FS_CardinalityType DEF Pending

\* A row is inserted with the subject of the token.
LEMMA CreatePreserves ==
    ASSUME IInv, NEW t \in Tokens, Create(t)
    PROVE  IInv'
<1>1. \A q \in Requests : req[q].pc = "free"
    BY RequestFacts DEF Create, Exists, PhaseInv, IInv, Types
<1>2. Types'
    BY TokensAssumption DEF Create, IInv, Types
<1>3. Room'
    <2>1. Pending' = {}
        BY <1>1 DEF Create, Pending
    <2> QED
        BY <2>1, FS_EmptySet DEF Create, Room
<1>4. cache' <= row'.version
    BY DEF Create, IInv, Types, Exists
<1>5. ASSUME NEW q \in Requests
      PROVE  PhaseInv(q)' /\ ItemInv(q)' /\ AccessInv(q)'
    <2>1. /\ req'[q] = req[q] /\ req[q].pc = "free" /\ ~req[q].gone
          /\ req[q].item <= row'.version
        BY <1>1, RequestFacts DEF Create, PhaseInv, ItemInv, RequestRecord, Exists
    <2> QED
        BY <2>1, RequestFacts DEF PhaseInv, ItemInv, AccessInv, Served
<1> QED
    BY <1>2, <1>3, <1>4, <1>5 DEF IInv, RequestInv

\* A request comes in with a token that verifies.
LEMMA ArrivePreserves ==
    ASSUME IInv, NEW q \in Requests, NEW t \in Tokens, NEW op \in Ops, Arrive(q, t, op)
    PROVE  IInv'
<1> DEFINE x == req'[q]
<1>1. x \in RequestRecord /\ req' = [req EXCEPT ![q] = x] /\ row' = row
    BY DEF Arrive, FirstPhase, IInv, Types, RequestRecord, Phases, Ops, Free
<1>2. PhaseInv(q)' /\ ItemInv(q)' /\ AccessInv(q)'
    BY <1>1 DEF Arrive, FirstPhase, Admitted, Exists, PhaseInv, ItemInv, AccessInv, Served, Ops, Free,
       IInv, Types
<1>3. Types' /\ cache' <= row'.version
    BY <1>1 DEF Arrive, IInv, Types
<1>4. \A p \in Requests : PhaseInv(p)' /\ ItemInv(p)' /\ AccessInv(p)'
    BY <1>1, <1>2, RequestKept DEF IInv, Types
<1>5. Room'
    <2>1. CASE op # "update"
        BY <2>1, <1>1, RoomKept DEF Arrive, Pending, Free, IInv, Types
    <2>2. CASE op = "update"
        <3> DEFINE U == {p \in Requests : req[p].op = "update"}
        <3>1. IsFiniteSet(U) /\ Cardinality(U) \in Nat
            BY RequestsAssumption, FS_Subset, FS_CardinalityType
        <3>2. Pending \subseteq U
            BY DEF Pending
        <3>3. Pending' \subseteq Pending \cup {q}
            BY <1>1 DEF Pending, IInv, Types
        <3>4. IsFiniteSet(Pending \cup {q}) /\ Cardinality(Pending \cup {q}) <= Cardinality(Pending) + 1
              /\ Cardinality(Pending \cup {q}) \in Nat
            <4>1. IsFiniteSet(Pending) /\ Cardinality(Pending) \in Nat
                BY PendingFacts DEF IInv
            <4>2. /\ IsFiniteSet(Pending \cup {q})
                  /\ \/ Cardinality(Pending \cup {q}) = Cardinality(Pending)
                     \/ Cardinality(Pending \cup {q}) = Cardinality(Pending) + 1
                BY <4>1, FS_AddElement
            <4> QED
                BY <4>1, <4>2
        <3>5. Cardinality(Pending') <= Cardinality(U) + 1 /\ Cardinality(Pending') \in Nat
            BY <3>1, <3>2, <3>3, <3>4, FS_Subset, FS_CardinalityType, PendingFacts DEF IInv
        <3>6. row.version + Cardinality(U) < MaxVersion
            BY <2>2 DEF Arrive, RoomFor
        <3> QED
            BY <1>1, <3>1, <3>5, <3>6 DEF Room, IInv, Types
    <2> QED
        BY <2>1, <2>2
<1> QED
    BY <1>3, <1>4, <1>5 DEF IInv, RequestInv

\* An update writes the next version; its owner stays.
LEMMA WriteUpdatePreserves ==
    ASSUME IInv, NEW q \in Requests, WriteUpdate(q)
    PROVE  IInv'
<1> DEFINE x == req'[q]
<1>1. q \in Pending
    BY DEF WriteUpdate, At, Pending
<1>2. Pending' = Pending \ {q}
    BY DEF WriteUpdate, At, Goto, Pending, IInv, Types, RequestRecord
<1>3. Cardinality(Pending') = Cardinality(Pending) - 1 /\ Cardinality(Pending) \in Nat
      /\ Cardinality(Pending') \in Nat
    BY <1>1, <1>2, PendingFacts, FS_RemoveElement, FS_CardinalityType DEF IInv
<1>4. /\ row'.version \in {row.version, row.version + 1} /\ row.version \in Nat
      /\ row'.owner = row.owner /\ row'.deleted = row.deleted
    BY DEF WriteUpdate, IInv, Types
<1>5. Room' /\ row'.version \in 0..MaxVersion
    BY <1>3, <1>4 DEF IInv, Room
<1>6. row' \in [version : 0..MaxVersion, owner : Subjects \cup {Null}, deleted : BOOLEAN]
    BY <1>5 DEF WriteUpdate, IInv, Types
<1>7. x \in RequestRecord /\ req' = [req EXCEPT ![q] = x]
    BY <1>5, RequestFacts DEF WriteUpdate, At, Goto, IInv, Types, RequestRecord, Phases
<1>8. Types' /\ cache' <= row'.version
    BY <1>4, <1>6, <1>7 DEF WriteUpdate, IInv, Types
<1>9. PhaseInv(q)' /\ ItemInv(q)' /\ AccessInv(q)'
    BY <1>4, <1>7, RequestFacts DEF WriteUpdate, At, Goto, PhaseInv, ItemInv, AccessInv, Served, Visible,
       RequestRecord, IInv, Types
<1> QED
    BY <1>4, <1>5, <1>7, <1>8, <1>9, RequestKept DEF IInv, RequestInv, Types

\* A delete marks the row.
LEMMA WriteDeletePreserves ==
    ASSUME IInv, NEW q \in Requests, WriteDelete(q)
    PROVE  IInv'
<1> DEFINE x == req'[q]
<1>1. /\ row'.version = row.version /\ row.version \in Nat
      /\ row'.owner = row.owner /\ row'.deleted
      /\ row' \in [version : 0..MaxVersion, owner : Subjects \cup {Null}, deleted : BOOLEAN]
    <2>1. row \in [version : 0..MaxVersion, owner : Subjects \cup {Null}, deleted : BOOLEAN]
        BY DEF IInv, Types
    <2>2. row' = [version |-> row.version, owner |-> row.owner, deleted |-> TRUE]
        BY <2>1 DEF WriteDelete
    <2> QED
        BY <2>1, <2>2
<1>2. x \in RequestRecord /\ req' = [req EXCEPT ![q] = x]
    BY RequestFacts DEF WriteDelete, At, Goto, IInv, Types, RequestRecord, Phases
<1>3. Types' /\ cache' <= row'.version
    BY <1>1, <1>2 DEF WriteDelete, IInv, Types
<1>4. PhaseInv(q)' /\ ItemInv(q)' /\ AccessInv(q)'
    BY <1>1, <1>2, RequestFacts DEF WriteDelete, At, Goto, PhaseInv, ItemInv, AccessInv, Served,
       RequestRecord, IInv, Types
<1>5. Room'
    <2>1. Pending' \subseteq Pending
        BY DEF WriteDelete, At, Goto, Pending, IInv, Types, RequestRecord
    <2>2. Cardinality(Pending') <= Cardinality(Pending)
        BY <2>1, PendingFacts, FS_Subset DEF IInv
    <2>3. Cardinality(Pending) \in Nat /\ Cardinality(Pending') \in Nat
        BY <2>1, PendingFacts, FS_Subset, FS_CardinalityType DEF IInv
    <2> QED
        BY <1>1, <2>2, <2>3 DEF IInv, Room
<1> QED
    BY <1>1, <1>2, <1>3, <1>4, <1>5, RequestKept DEF IInv, RequestInv, Types

\* The entry reaches its TTL.
LEMMA ExpirePreserves ==
    ASSUME IInv, Expire
    PROVE  IInv'
<1>1. Types' /\ cache' <= row'.version
    BY DEF Expire, IInv, Types, NoEntry
<1>2. Room'
    BY RoomKept DEF Expire, Pending
<1>3. RequestInv'
    BY RequestKept DEF Expire, IInv, Types, RequestInv
<1> QED
    BY <1>1, <1>2, <1>3 DEF IInv

\* Nothing happens.
LEMMA StutterPreserves ==
    ASSUME IInv, UNCHANGED vars
    PROVE  IInv'
BY DEF vars, IInv, Types, Room, Pending, RequestInv, PhaseInv, ItemInv, AccessInv, Served, MayAccess
-----------------------------------------------------------------------------
\* The inductive invariant holds in every state.
THEOREM Invariance == Spec => []IInv
<1>1. Init => IInv
    BY InitEstablishes
<1>2. IInv /\ [Next]_vars => IInv'
    <2> SUFFICES ASSUME IInv, [Next]_vars PROVE IInv'
        OBVIOUS
    <2>1. CASE \E t \in Tokens : Create(t)
        BY <2>1, CreatePreserves
    <2>2. CASE \E t \in Tokens, q \in Requests, op \in Ops : Arrive(q, t, op)
        BY <2>2, ArrivePreserves
    <2>3. CASE \E q \in Requests : RequestStep(q)
        BY <2>3, ListPreserves, CacheHitPreserves, CacheMissPreserves, RecheckPreserves, ReadPreserves,
           FillPreserves, FillFailsPreserves, WriteUpdatePreserves, WriteDeletePreserves,
           InvalidatePreserves, InvalidateFailsPreserves, LeavePreserves DEF RequestStep
    <2>4. CASE Expire
        BY <2>4, ExpirePreserves
    <2>5. CASE UNCHANGED vars
        BY <2>5, StutterPreserves
    <2> QED
        BY <2>1, <2>2, <2>3, <2>4, <2>5 DEF Next
<1> QED
    BY <1>1, <1>2, PTL DEF Spec

\* TypeOK, for any number of requests: every item that is served is a version that the
\* row has had, never the marker of an empty cache.
THEOREM TypeCorrect == Spec => []TypeOK
<1>1. IInv => TypeOK
    BY DEF IInv, Types, TypeOK, RequestInv, ItemInv, RequestRecord
<1> QED
    BY <1>1, Invariance, PTL

\* Get and list hand the workflow out only to those who may see it (ServedToOwner), also
\* when the check of the owner is made long before the answer.
THEOREM OwnershipKept == Spec => []ServedToOwner
<1>1. IInv => ServedToOwner
    <2> SUFFICES ASSUME IInv, NEW q \in Requests, Served(q)
                 PROVE  /\ req[q].by.valid
                        /\ req[q].by.admin \/ row.owner \in {Null, Empty, req[q].by.sub}
        BY DEF ServedToOwner
    <2> QED
        BY RequestFacts DEF PhaseInv, AccessInv, Served, MayAccess
<1> QED
    BY <1>1, Invariance, PTL

\* A deleted workflow is served to no user and listed to nobody (DeletedIsHidden).
THEOREM DeletionKept == Spec => []DeletedIsHidden
<1>1. IInv => DeletedIsHidden
    BY RequestFacts DEF DeletedIsHidden, AccessInv
<1> QED
    BY <1>1, Invariance, PTL
-----------------------------------------------------------------------------
(* The cache and the statements implement WorkflowStore.                     *)

\* What WorkflowStore sees of the requests.
View == [q \in Requests |-> Seen(q)]

\* A step of one request is seen of that request only.
LEMMA ViewOfStep ==
    ASSUME NEW q \in Requests, IInv, \A p \in Requests \ {q} : req'[p] = req[p]
    PROVE  /\ View' = [View EXCEPT ![q] = Seen(q)']
           /\ View[q] = Seen(q)
           /\ Seen(q)' = Seen(q) => View' = View
<1>1. \A p \in Requests \ {q} : Seen(p)' = Seen(p)
    BY DEF Seen, Served
<1> QED
    BY <1>1 DEF View

\* What each request step changes in the view; the others change nothing in it.
LEMMA SeenFields ==
    ASSUME NEW q \in Requests
    PROVE  /\ Seen(q).op = req[q].op /\ Seen(q).by = req[q].by
           /\ Seen(q).state = "asked" <=> req[q].pc \notin {"free", "del", "found", "refused"}
           /\ Seen(q).state # "free" <=> req[q].pc # "free"
BY DEF Seen

\* A get that goes on, and a write whose DEL is still to come, look as before.
LEMMA InnerStep ==
    ASSUME IInv, NEW q \in Requests,
           CacheHit(q) \/ CacheMiss(q) \/ Recheck(q) \/ Read(q) \/ Invalidate(q) \/ InvalidateFails(q),
           req'[q].pc \notin {"found", "refused"} \/ req[q].pc = "del"
    PROVE  row' = row /\ View' = View
<1>1. /\ req[q] \in RequestRecord /\ PhaseInv(q)
      /\ \A p \in Requests \ {q} : req'[p] = req[p]
    BY RequestFacts DEF CacheHit, CacheMiss, Recheck, Read, Invalidate, InvalidateFails, Goto,
                        IInv, Types
<1>2. Seen(q)' = Seen(q)
    BY <1>1 DEF CacheHit, CacheMiss, Recheck, Read, Invalidate, InvalidateFails, Goto, At, Seen,
                Served, PhaseInv, IInv, Types, RequestRecord
<1> QED
    BY <1>1, <1>2, ViewOfStep DEF CacheHit, CacheMiss, Recheck, Read, Invalidate, InvalidateFails

\* A get or a list answers with a version of the row, to a caller who may access it.
LEMMA ServeStep ==
    ASSUME IInv, NEW q \in Requests,
           List(q) \/ CacheHit(q) \/ Recheck(q) \/ Fill(q) \/ FillFails(q),
           req'[q].pc = "found"
    PROVE  Store!Serve(q)
<1>1. /\ req[q] \in RequestRecord /\ PhaseInv(q) /\ ItemInv(q) /\ AccessInv(q)
      /\ \A p \in Requests \ {q} : req'[p] = req[p]
      /\ row.version \in Nat /\ cache \in Nat /\ cache <= row.version
      /\ row' = row
    BY RequestFacts DEF List, CacheHit, Recheck, Fill, FillFails, Goto, IInv, Types
<1>2. /\ req'[q].by = req[q].by /\ req'[q].op = req[q].op /\ req[q].op \in {"get", "list"}
      /\ req[q].pc \notin {"free", "del", "found", "refused"}
      /\ MayAccess(req[q].by)
      /\ req[q].op = "get" => req'[q].item \in 1..row.version
      /\ req[q].op = "list" => Visible /\ req'[q].item = row.version
    BY <1>1 DEF List, CacheHit, Recheck, Fill, FillFails, Goto, At, PhaseInv, ItemInv, AccessInv,
                Served, MayAccess, InList, NoEntry, Visible, Exists, IInv, Types, RequestRecord
<1>3. Seen(q)' = [state |-> "done", op |-> req[q].op, by |-> req[q].by, item |-> req'[q].item]
    BY <1>2 DEF Seen, Served
<1>4. View' = [View EXCEPT ![q] = [state |-> "done", op |-> View[q].op, by |-> View[q].by,
                                     item |-> req'[q].item]]
    BY <1>1, <1>3, ViewOfStep, SeenFields
<1> QED
    BY <1>1, <1>2, <1>4, ViewOfStep, SeenFields
       DEF Store!Serve, Store!Asked, Store!Done, Store!Becomes, Store!MayAccess, Store!Visible, View,
           MayAccess, Visible, Exists

\* A request is refused because the row is not there for its caller.
LEMMA RefuseStep ==
    ASSUME IInv, NEW q \in Requests,
           List(q) \/ CacheHit(q) \/ Recheck(q) \/ Read(q),
           req'[q].pc = "refused"
    PROVE  Store!Refuse(q)
<1>1. /\ req[q] \in RequestRecord /\ PhaseInv(q)
      /\ \A p \in Requests \ {q} : req'[p] = req[p]
      /\ row' = row
    BY RequestFacts DEF List, CacheHit, Recheck, Read, Goto, IInv, Types
<1>2. /\ req'[q].by = req[q].by /\ req'[q].op = req[q].op
      /\ req[q].pc \notin {"free", "del", "found", "refused"}
      /\ ~Visible \/ ~MayAccess(req[q].by) \/ (req[q].op = "list" /\ row.owner = Null)
    BY <1>1 DEF List, CacheHit, Recheck, Read, Goto, At, MayAccess, InList, IInv, Types, RequestRecord
<1>3. Seen(q)' = [state |-> "done", op |-> req[q].op, by |-> req[q].by, item |-> 0]
    BY <1>2 DEF Seen, Served
<1>4. View' = [View EXCEPT ![q] = [state |-> "done", op |-> View[q].op, by |-> View[q].by,
                                     item |-> 0]]
    BY <1>1, <1>3, ViewOfStep, SeenFields
<1> QED
    BY <1>1, <1>2, <1>4, ViewOfStep, SeenFields
       DEF Store!Refuse, Store!Done, Store!Becomes, Store!MayAccess, Store!Visible, View,
           MayAccess, Visible, Exists

\* The write of an update or a delete, by a caller whose access was checked before and
\* still holds.
LEMMA WriteStep ==
    ASSUME IInv, NEW q \in Requests, WriteUpdate(q) \/ WriteDelete(q)
    PROVE  Store!Update(q) \/ Store!Delete(q)
<1>1. /\ req[q] \in RequestRecord /\ AccessInv(q)
      /\ \A p \in Requests \ {q} : req'[p] = req[p]
    BY RequestFacts DEF WriteUpdate, WriteDelete, Goto, IInv, Types
<1>2. /\ req'[q].by = req[q].by /\ req'[q].op = req[q].op /\ req'[q].pc = "del"
      /\ req[q].pc = "write" /\ MayAccess(req[q].by) /\ req[q].op \in {"update", "delete"}
    BY <1>1 DEF WriteUpdate, WriteDelete, Goto, At, AccessInv, IInv, Types, RequestRecord
<1>3. Seen(q)' = [state |-> "done", op |-> req[q].op, by |-> req[q].by, item |-> 0]
    BY <1>2 DEF Seen, Served
<1>4. View' = [View EXCEPT ![q] = [state |-> "done", op |-> View[q].op, by |-> View[q].by,
                                     item |-> 0]]
    BY <1>1, <1>3, ViewOfStep, SeenFields
<1>5. CASE WriteUpdate(q)
    BY <1>2, <1>4, <1>5, ViewOfStep, SeenFields
       DEF WriteUpdate, At, Store!Update, Store!Asked, Store!Done, Store!Becomes, Store!MayAccess,
           Store!Visible, View, MayAccess, Visible, Exists
<1>6. CASE WriteDelete(q)
    BY <1>2, <1>4, <1>6, ViewOfStep, SeenFields
       DEF WriteDelete, At, Store!Delete, Store!Asked, Store!Done, Store!Becomes, Store!MayAccess,
           View, MayAccess
<1> QED
    BY <1>5, <1>6

\* A request comes or goes.
LEMMA ComesAndGoes ==
    ASSUME IInv, NEW q \in Requests,
           Leave(q) \/ \E t \in Tokens, op \in Ops : Arrive(q, t, op)
    PROVE  Store!Ask(q) \/ Store!Leave(q)
<1>1. /\ req[q] \in RequestRecord
      /\ \A p \in Requests \ {q} : req'[p] = req[p]
      /\ row' = row
    BY RequestFacts DEF Leave, Arrive, IInv, Types
<1>2. CASE Leave(q)
    <2>1. req[q].pc # "free" /\ req'[q] = Free
        BY <1>2 DEF Leave, Answered, IInv, Types
    <2>2. Seen(q)' = Store!Free
        BY <2>1 DEF Seen, Served, Free, Store!Free
    <2> QED
        BY <1>1, <2>1, <2>2, ViewOfStep, SeenFields DEF Store!Leave, Store!Becomes, View
<1>3. ASSUME NEW t \in Tokens, NEW op \in Ops, Arrive(q, t, op)
      PROVE  Store!Ask(q)
    <2>1. /\ req[q].pc = "free" /\ t.valid
          /\ req'[q].pc \in {"list", "cache", "read"} /\ req'[q].op = op /\ req'[q].by = t
        <3>1. FirstPhase(op) \in {"list", "cache", "read"}
            BY DEF FirstPhase
        <3>2. /\ req[q] = Free
              /\ req'[q] = [Free EXCEPT !.pc = FirstPhase(op), !.op = op, !.by = t,
                                        !.floor = settled, !.gone = row.deleted]
            BY <1>3 DEF Arrive, IInv, Types
        <3>3. /\ req[q].pc = "free"
              /\ req'[q].pc = FirstPhase(op) /\ req'[q].op = op /\ req'[q].by = t
            BY <3>2, <1>1 DEF RequestRecord, Free
        <3>4. t.valid
            BY <1>3 DEF Arrive, Admitted
        <3> QED
            BY <3>1, <3>3, <3>4
    <2>2. Seen(q)' = [state |-> "asked", op |-> op, by |-> t, item |-> 0]
        BY <2>1 DEF Seen, Served
    <2>3. View' = [View EXCEPT ![q] = [state |-> "asked", op |-> op, by |-> t, item |-> 0]]
        BY <1>1, <2>2, ViewOfStep
    <2>4. View[q].state = "free"
        BY <1>1, <2>1, ViewOfStep, SeenFields
    <2>5. op \in Store!Ops
        BY DEF Store!Ops, Ops
    <2> QED
        BY <1>1, <2>1, <2>3, <2>4, <2>5 DEF Store!Ask, Store!Becomes, View
<1> QED
    BY <1>2, <1>3

\* Update, delete, get and list act as if checked and carried out in one step: whatever
\* happens between their statements, and whatever the entry holds, only those who may
\* access the row write it or are handed it, and nobody else is turned away.
THEOREM ActsAtomically == Spec => ImplementsStore
<1>1. Init => Store!Init
    <2> SUFFICES ASSUME Init PROVE Store!Init
        OBVIOUS
    <2>1. row \in {[version |-> v, owner |-> Null, deleted |-> FALSE] : v \in {0, 1}}
        <3>1. CASE row = NoRow
            BY <3>1 DEF NoRow
        <3>2. CASE row = [NoRow EXCEPT !.version = 1]
            <4>1. row = [version |-> 1, owner |-> Null, deleted |-> FALSE]
                BY <3>2, Zenon DEF NoRow
            <4> QED
                BY <4>1
        <3> QED
            BY <3>1, <3>2 DEF Init
    <2>2. \A q \in Requests : Seen(q) = Store!Free
        BY DEF Init, Seen, Served, Free, Store!Free
    <2> QED
        BY <2>1, <2>2 DEF Store!Init
<1>2. ASSUME IInv, [Next]_vars
      PROVE  [Store!Next]_(Store!vars)
    <2>1. ASSUME NEW q \in Requests, RequestStep(q)
          PROVE  [Store!Next]_(Store!vars)
        <3>1. CASE Leave(q)
            BY <3>1, <1>2, ComesAndGoes DEF Store!Next
        <3>2. CASE WriteUpdate(q) \/ WriteDelete(q)
            BY <3>2, <1>2, WriteStep DEF Store!Next
        <3>3. CASE List(q) \/ Fill(q) \/ FillFails(q)
            <4>1. req'[q].pc \in {"found", "refused"} /\ (~List(q) => req'[q].pc = "found")
                BY <3>3, <1>2 DEF List, Fill, FillFails, Goto, At, IInv, Types, RequestRecord
            <4> QED
                BY <4>1, <3>3, <1>2, ServeStep, RefuseStep DEF Store!Next
        <3>4. CASE \/ CacheHit(q) \/ CacheMiss(q) \/ Recheck(q) \/ Read(q) \/ Invalidate(q)
                   \/ InvalidateFails(q)
            <4>1. CASE req'[q].pc \notin {"found", "refused"} \/ req[q].pc = "del"
                BY <4>1, <3>4, <1>2, InnerStep DEF Store!vars, View
            <4>2. CASE req'[q].pc = "found" /\ req[q].pc # "del"
                <5>1. CacheHit(q) \/ Recheck(q)
                    BY <4>2, <3>4, <1>2 DEF CacheMiss, Read, Invalidate, InvalidateFails, Goto, IInv, Types,
                                            RequestRecord
                <5> QED
                    BY <5>1, <4>2, <1>2, ServeStep DEF Store!Next
            <4>3. CASE req'[q].pc = "refused" /\ req[q].pc # "del"
                <5>1. CacheHit(q) \/ Recheck(q) \/ Read(q)
                    BY <4>3, <3>4, <1>2 DEF CacheMiss, Invalidate, InvalidateFails, Goto, IInv, Types,
                                            RequestRecord
                <5> QED
                    BY <5>1, <4>3, <1>2, RefuseStep DEF Store!Next
            <4> QED
                BY <4>1, <4>2, <4>3
        <3> QED
            BY <2>1, <3>1, <3>2, <3>3, <3>4 DEF RequestStep
    <2>2. ASSUME NEW t \in Tokens, Create(t)
          PROVE  Store!Next
        <3>1. View' = View
            BY <2>2 DEF Create, View, Seen, Served
        <3>2. row.version = 0
            BY <2>2, <1>2 DEF Create, Exists, IInv, Types
        <3>3. Store!Create(t)
            BY <2>2, <3>1, <3>2 DEF Create, Admitted, Store!Create, View
        <3> QED
            BY <3>3 DEF Store!Next
    <2>3. ASSUME NEW q \in Requests, NEW t \in Tokens, NEW op \in Ops, Arrive(q, t, op)
          PROVE  Store!Next
        BY <2>3, <1>2, ComesAndGoes DEF Store!Next
    <2>4. CASE Expire \/ UNCHANGED vars
        BY <2>4 DEF Expire, vars, Store!vars, Seen, Served
    <2> QED
        BY <1>2, <2>1, <2>2, <2>3, <2>4 DEF Next
<1> QED
    BY <1>1, <1>2, Invariance, PTL DEF Spec, ImplementsStore, Store!Spec
-----------------------------------------------------------------------------
(* Where the documented freshness holds (finding cache_update_seen): with one *)
(* request at a time and a Redis that answers.                               *)

Alone == ~CacheFaults /\ \A p, q \in Requests : p = q

\* The entry is behind the row only between a write and its DEL; what a request has read
\* is no older than the updates that were answered before it arrived.
FreshInv ==
    /\ cache # NoEntry => cache = row.version \/ \E q \in Requests : req[q].pc = "del"
    /\ settled <= row.version
    /\ \A q \in Requests :
          /\ req[q].floor <= settled
          /\ req[q].pc = "fill" => req[q].item = row.version
          /\ req[q].op = "get" /\ req[q].pc \in {"recheck", "found"} => req[q].item >= req[q].floor

\* The only request there is takes a step.
LEMMA FreshStep ==
    ASSUME IInv, IInv', FreshInv, Alone, NEW q \in Requests, RequestStep(q)
    PROVE  FreshInv'
<1>1. /\ req[q] \in RequestRecord /\ req'[q] \in RequestRecord /\ PhaseInv(q) /\ ItemInv(q)
      /\ ItemInv(q)' /\ \A p \in Requests : p = q
      /\ req \in [Requests -> RequestRecord]
      /\ row.version \in Nat /\ cache \in Nat /\ settled \in Nat
    BY RequestFacts DEF IInv, Types, RequestInv, Alone
<1>2. /\ cache # NoEntry => cache = row.version \/ req[q].pc = "del"
      /\ settled <= row.version /\ req[q].floor <= settled
      /\ req[q].pc = "fill" => req[q].item = row.version
      /\ req[q].op = "get" /\ req[q].pc \in {"recheck", "found"} => req[q].item >= req[q].floor
    BY <1>1 DEF FreshInv
<1> SUFFICES /\ cache' # NoEntry => cache' = row'.version \/ req'[q].pc = "del"
             /\ settled' <= row'.version /\ req'[q].floor <= settled'
             /\ req'[q].pc = "fill" => req'[q].item = row'.version
             /\ req'[q].op = "get" /\ req'[q].pc \in {"recheck", "found"}
                   => req'[q].item >= req'[q].floor
    BY <1>1 DEF FreshInv
<1>3. CASE List(q) \/ CacheHit(q) \/ CacheMiss(q)
    BY <1>1, <1>2, <1>3 DEF List, CacheHit, CacheMiss, At, Goto, RequestRecord, NoEntry, PhaseInv
<1>4. CASE Recheck(q) \/ Read(q)
    BY <1>1, <1>2, <1>4 DEF Recheck, Read, At, Goto, RequestRecord, PhaseInv
<1>5. CASE Fill(q)
    BY <1>1, <1>2, <1>5 DEF Fill, At, Goto, RequestRecord
<1>6. CASE WriteUpdate(q) \/ WriteDelete(q)
    BY <1>1, <1>2, <1>6 DEF WriteUpdate, WriteDelete, At, Goto, RequestRecord, IInv, Types
<1>7. CASE Invalidate(q)
    BY <1>1, <1>2, <1>7 DEF Invalidate, Goto, MaxOf, RequestRecord, PhaseInv, ItemInv
<1>8. CASE Leave(q)
    BY <1>1, <1>2, <1>8 DEF Leave, Answered, Alone, Free
<1> QED
    BY <1>3, <1>4, <1>5, <1>6, <1>7, <1>8 DEF RequestStep, FillFails, InvalidateFails, Alone

\* A request arrives, the row is created, or the entry expires.
LEMMA FreshNext ==
    ASSUME IInv, IInv', FreshInv, Alone, [Next]_vars
    PROVE  FreshInv'
<1>1. ASSUME NEW t \in Tokens, Create(t)
      PROVE  FreshInv'
    BY <1>1 DEF Create, Exists, FreshInv, NoEntry, IInv, Types, RequestInv, PhaseInv, RequestRecord
<1>2. ASSUME NEW q \in Requests, NEW t \in Tokens, NEW op \in Ops, Arrive(q, t, op)
      PROVE  FreshInv'
    <2>1. /\ req[q] = Free /\ \A p \in Requests : p = q
          /\ FirstPhase(op) \in {"list", "cache", "read"}
          /\ UNCHANGED <<row, cache, settled>>
        BY <1>2 DEF Arrive, FirstPhase, Alone
    <2>2. req'[q].pc = FirstPhase(op) /\ req'[q].floor = settled
        BY <1>2 DEF Arrive, Free, IInv, Types
    <2> QED
        BY <2>1, <2>2 DEF FreshInv, Free, IInv, Types
<1>3. CASE Expire
    BY <1>3 DEF Expire, FreshInv
<1>4. CASE UNCHANGED vars
    BY <1>4 DEF vars, FreshInv
<1> QED
    BY <1>1, <1>2, <1>3, <1>4, FreshStep DEF Next

\* UpdateIsSeen, which the code violates, holds of requests one after the other while Redis
\* answers: only an overlap or a fault lets a get return less than the last update.
THEOREM SeenAlone == ASSUME Alone PROVE Spec => []UpdateIsSeen
<1>1. Init => FreshInv
    <2> SUFFICES ASSUME Init PROVE FreshInv
        OBVIOUS
    <2>1. row.version \in Nat
        BY InitEstablishes DEF IInv, Types
    <2> QED
        BY <2>1 DEF Init, FreshInv, Free, NoEntry
<1>2. IInv /\ IInv' /\ FreshInv /\ [Next]_vars => FreshInv'
    BY FreshNext
<1>3. FreshInv => UpdateIsSeen
    BY DEF FreshInv, UpdateIsSeen, At
<1> QED
    BY <1>1, <1>2, <1>3, Invariance, PTL DEF Spec
=============================================================================
