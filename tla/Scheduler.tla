----------------------------- MODULE Scheduler ------------------------------
(***************************************************************************)
(* scheduler-service/cron/scheduler.go in time: a check at the start, then *)
(* one per tick of a one-minute ticker.  A check goes through the          *)
(* scheduled workflows one after the other; what it creates goes on in     *)
(* Dispatch.                                                               *)
(*                                                                         *)
(* Time is a number of ticks of the model, MinuteLen of them a minute.     *)
(* Database latency and scheduling delays are the time that passes while a *)
(* check is under way, MaxBusy at most.                                    *)
(***************************************************************************)
EXTENDS Naturals

CONSTANTS
    MinuteLen,      \* length of a minute
    Horizon,        \* bound on the clock
    MaxBusy,        \* the longest a check takes
    MaxRestarts,    \* bound on crashes
    Workflows,      \* the workflows of type schedule
    Parsed,         \* those whose configuration has a cron expression that parses
    CronOf,         \* the minutes the expression of each names ({} for "30 February")
    None

Minutes == 1..(Horizon \div MinuteLen)
ASSUME TimeAssumption ==
    /\ MinuteLen \in Nat \ {0} /\ Horizon \in Nat /\ MinuteLen <= Horizon
    /\ MaxBusy \in Nat /\ MaxRestarts \in Nat
ASSUME NoneAssumption == None \notin Nat
\* An expression has a next minute at any time of the model, or it never has one.
ASSUME CronAssumption ==
    /\ CronOf \in [Workflows -> SUBSET (Nat \ {0})]
    /\ \A w \in Workflows :
         CronOf[w] = {} \/ \E n \in CronOf[w] : n > Horizon \div MinuteLen

VARIABLES
    clock,      \* time.Now()
    pc,         \* "down", "wait", or where the check is
    ticker,     \* when the ticker fires next; None before it is created
    due,        \* a tick waits in the ticker's channel, which holds one
    active,     \* the workflows whose row is active and not deleted
    todo,       \* the workflows this check has read and not yet dealt with
    minute,     \* the minute of the last decision of this process
    fired,      \* executions created for each workflow and minute
    busy,       \* how long the check has been under way
    failed,     \* history: how many queries have failed since the last decision
    checks,     \* history: checks begun by the ticker
    born,       \* history: when the ticker was created
    restarts,   \* history: crashes so far
    steady      \* history: the workflows active all along that no failure has met

vars == <<clock, pc, ticker, due, active, todo, minute, fired, busy, failed,
          checks, born, restarts, steady>>
history == <<checks, born, restarts, steady>>

\* Mutant of MinuteOf: time.Now() without Truncate.
MinuteUntruncated(t) == t
MinuteOf(t) == t \div MinuteLen
Checking == pc \in {"query", "decide", "trigger"}

Init ==
    /\ clock = MinuteLen
    /\ pc = "down" /\ ticker = None /\ due = FALSE
    /\ active \in SUBSET Workflows /\ todo = {} /\ minute = None
    /\ fired = [w \in Workflows |-> [m \in Minutes |-> 0]]
    /\ busy = 0 /\ failed = 0 /\ checks = 0 /\ born = None /\ restarts = 0
    /\ steady = active

\* sched.Next(t) of robfig/cron (external): the first minute after t, or the zero time
\* if the expression names none.
NextOf(w, t) ==
    IF \E n \in CronOf[w] : n > t
    THEN CHOOSE n \in CronOf[w] : n > t /\ \A k \in CronOf[w] : k > t => n <= k
    ELSE 0

\* Mutant of Fires: the window [minuteAgo, now) that the code's comment states.
FiresBefore(w, m) == w \in Parsed /\ m - 1 \in CronOf[w]

\* next := sched.Next(minuteAgo); next.Before(now.Add(time.Second)), at minute m.
Fires(w, m) == w \in Parsed /\ NextOf(w, m - 1) <= m

Start ==
    /\ pc = "down"
    /\ pc' = "query" /\ busy' = 0
    /\ UNCHANGED <<clock, ticker, due, active, todo, minute, fired, failed, history>>

\* SELECT the active, scheduled, undeleted workflows.
Query ==
    /\ pc = "query"
    /\ pc' = "decide" /\ todo' = active
    /\ UNCHANGED <<clock, ticker, due, active, minute, fired, busy, failed, history>>

\* Mutant of EndCheck: every check creates the ticker anew, so checks push it back.
EndCheckResetting ==
    /\ pc' = "wait"
    /\ ticker' = clock + MinuteLen
    /\ born' = IF ticker = None THEN clock ELSE born

\* checkAndTrigger returns; after the first one Run creates the ticker.
EndCheck ==
    /\ pc' = "wait"
    /\ ticker' = IF ticker = None THEN clock + MinuteLen ELSE ticker
    /\ born' = IF ticker = None THEN clock ELSE born

\* The query fails: the check is over, and this minute is not looked at again.
QueryFails ==
    /\ pc = "query"
    /\ EndCheck /\ failed' = failed + 1 /\ steady' = {}
    /\ UNCHANGED <<clock, due, active, todo, minute, fired, busy, checks, restarts>>

\* now := time.Now().Truncate(time.Minute), after the query has returned and once for all
\* workflows; those that are not due are passed over.
Decide ==
    /\ pc = "decide"
    /\ minute' = MinuteOf(clock) /\ failed' = 0
    /\ todo' = {w \in todo : Fires(w, MinuteOf(clock))}
    /\ IF todo' = {} THEN EndCheck ELSE pc' = "trigger" /\ UNCHANGED <<ticker, born>>
    /\ UNCHANGED <<clock, due, active, fired, busy, checks, restarts, steady>>

\* trigger has returned, and the loop goes on to the next workflow.
Done(w) ==
    /\ pc = "trigger" /\ w \in todo
    /\ todo' = todo \ {w}
    /\ IF todo' = {} THEN EndCheck ELSE UNCHANGED <<pc, ticker, born>>
    /\ UNCHANGED <<clock, due, active, minute, busy, failed, checks, restarts>>

\* The execution is created, though the workflow may have changed meanwhile.
Trigger(w) ==
    /\ Done(w)
    /\ fired' = [fired EXCEPT ![w][minute] = @ + 1]
    /\ UNCHANGED steady

\* Mutant of TriggerFails: the error ends the loop over the workflows.
FailsAndReturns(w) ==
    /\ pc = "trigger" /\ w \in todo
    /\ todo' = {} /\ EndCheck /\ steady' = steady \ {w}
    /\ UNCHANGED <<clock, due, active, minute, fired, busy, failed, checks, restarts>>

\* The INSERT fails: this workflow has to do without, the others do not.
TriggerFails(w) == Done(w) /\ steady' = steady \ {w} /\ UNCHANGED fired

\* Mutant of Wake: the tick stays in the channel.
WakeKeepingTick ==
    /\ pc = "wait" /\ due
    /\ pc' = "query" /\ busy' = 0 /\ checks' = checks + 1
    /\ UNCHANGED <<clock, ticker, due, active, todo, minute, fired, failed, born, restarts,
                   steady>>

Wake ==
    /\ pc = "wait" /\ due
    /\ pc' = "query" /\ due' = FALSE /\ busy' = 0 /\ checks' = checks + 1
    /\ UNCHANGED <<clock, ticker, active, todo, minute, fired, failed, born, restarts,
                   steady>>

\* Time passes.  A tick that finds the channel full is dropped.
Tick ==
    /\ clock < Horizon
    /\ ~(pc = "wait" /\ due)
    /\ Checking => busy < MaxBusy
    /\ clock' = clock + 1
    /\ busy' = IF Checking THEN busy + 1 ELSE busy
    /\ IF ticker = clock + 1
       THEN due' = TRUE /\ ticker' = ticker + MinuteLen
       ELSE UNCHANGED <<due, ticker>>
    /\ UNCHANGED <<pc, active, todo, minute, fired, failed, history>>

\* The process dies and is started again.
Crash ==
    /\ restarts < MaxRestarts
    /\ pc # "down"
    /\ pc' = "down" /\ ticker' = None /\ due' = FALSE /\ minute' = None
    /\ todo' = {} /\ busy' = 0 /\ failed' = 0
    /\ checks' = 0 /\ born' = None /\ restarts' = restarts + 1 /\ steady' = {}
    /\ UNCHANGED <<clock, active, fired>>

\* A workflow is updated, deleted or created through api-gateway.
Edit(w) ==
    /\ active' = IF w \in active THEN active \ {w} ELSE active \cup {w}
    /\ steady' = steady \ {w}
    /\ UNCHANGED <<clock, pc, ticker, due, todo, minute, fired, busy, failed, checks, born,
                   restarts>>

Next ==
    \/ Start \/ Query \/ QueryFails \/ Decide \/ Wake \/ Tick \/ Crash
    \/ \E w \in Workflows : Trigger(w) \/ TriggerFails(w) \/ Edit(w)

Spec == Init /\ [][Next]_vars
-----------------------------------------------------------------------------
TypeOK ==
    /\ clock \in MinuteLen..Horizon
    /\ pc \in {"down", "wait", "query", "decide", "trigger"}
    /\ ticker \in Nat \cup {None} /\ born \in Nat \cup {None}
    /\ due \in BOOLEAN /\ failed \in Nat
    /\ active \subseteq Workflows /\ todo \subseteq Workflows /\ steady \subseteq Workflows
    /\ minute \in Minutes \cup {None}
    /\ fired \in [Workflows -> [Minutes -> Nat]]
    /\ busy \in 0..MaxBusy /\ checks \in Nat /\ restarts \in 0..MaxRestarts

\* An expression that is triggered is due in the current minute: of a check in minute m the
\* window is (m - 1, m].  So says stage-6-walkthrough; the comment beside the test, "within
\* [minuteAgo, now)", says m - 1 and no other, which is the mutant FiresBefore.
FiredWhenDue ==
    \A w \in Workflows, m \in Minutes :
        fired[w][m] > 0 => w \in Parsed /\ m \in CronOf[w]

\* The checks keep the pace of the clock: as long as a check takes less than a minute,
\* no tick is lost and none is added, however the delays vary.
Pace == (clock - born) \div MinuteLen = checks + (IF due THEN 1 ELSE 0)
TicksKept == ticker # None => Pace

\* Delays can move two checks into one minute, never three: without restarts a minute
\* is triggered at most twice.
NeverThrice == restarts = 0 => \A w \in Workflows, m \in Minutes : fired[w][m] <= 2

\* Nor do they ever lose two minutes in a row: a process decides about every second minute
\* at least, and a query that fails costs one minute more and no other.  Only after its
\* first check, whose end starts the ticker, it may lose one more.
NoLongGap ==
    [][(pc = "decide" /\ pc' \in {"wait", "trigger"} /\ minute # None)
          => minute' \in minute..(minute + failed + (IF checks = failed + 1 THEN 3 ELSE 2))]_vars

\* A workflow that stays active and meets no failure is never passed over for long: of two
\* minutes in a row that its expression names, one at least is triggered, from the minute
\* after the ticker was created on.
NeverTwoMissed ==
    \A w \in steady \cap Parsed : \A m, n \in CronOf[w] :
        /\ born # None /\ minute # None
        /\ MinuteOf(born) < m /\ n = m + 1 /\ n < minute
        => fired[w][m] + fired[w][n] > 0
=============================================================================
