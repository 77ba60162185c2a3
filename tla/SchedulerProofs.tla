-------------------------- MODULE SchedulerProofs ---------------------------
(***************************************************************************)
(* The theorems about the scheduler's timing, for every length of a minute *)
(* and every delay of a check that is shorter than a minute.  The argument *)
(* is arithmetic: the checks of the ticker begin at born + MinuteLen,      *)
(* born + 2 * MinuteLen and so on, exactly, and every decision falls       *)
(* within MaxBusy of the beginning of its check.                           *)
(***************************************************************************)
EXTENDS Scheduler, TLAPS, WellFoundedInduction

\* A check is over before the next tick.
Quick == MaxBusy < MinuteLen

InTick == IF due THEN 1 ELSE 0

\* The ticker and where the check is.
Timing ==
    /\ pc = "down" => ticker = None
    /\ ticker = None => born = None /\ ~due /\ checks = 0 /\ pc # "wait"
    /\ ticker # None =>
         /\ born # None
         /\ ticker = born + (checks + InTick + 1) * MinuteLen
         /\ Checking => ~due /\ ticker + busy = clock + MinuteLen
         /\ pc = "wait" => /\ clock < ticker /\ ticker <= clock + MinuteLen
                           /\ due => ticker = clock + MinuteLen

\* The checks since the last decision: those whose query failed, and the one under way.
Since == failed + (IF pc \in {"query", "decide"} THEN 1 ELSE 0)

\* The last decision was made during check `checks - Since', which began at
\* born + (checks - Since) * MinuteLen, or for the first check ended at born.
Decided ==
    minute # None =>
        /\ pc # "down" /\ (pc = "trigger" => failed = 0)
        /\ Since <= checks
        /\ minute * MinuteLen <= clock
        /\ ticker = None => pc = "trigger" /\ clock < minute * MinuteLen + MinuteLen + busy
        /\ ticker # None =>
             /\ minute * MinuteLen + Since * MinuteLen <= born + checks * MinuteLen + MaxBusy
             /\ Since < checks =>
                  born + checks * MinuteLen < minute * MinuteLen + MinuteLen + Since * MinuteLen
             /\ Since = checks => born < minute * MinuteLen + MinuteLen + MinuteLen

\* Executions created in the minute of the last decision, and still to be created.
Pending(w) == fired[w][minute] + (IF pc = "trigger" /\ w \in todo THEN 1 ELSE 0)

\* It was not the first decision of its minute.
Second == ticker # None /\ minute * MinuteLen + Since * MinuteLen < born + checks * MinuteLen

Counted ==
    restarts = 0 =>
        /\ \A w \in Workflows, m \in Minutes :
             /\ fired[w][m] <= 2
             /\ minute = None \/ minute < m => fired[w][m] = 0
        /\ minute # None =>
             \A w \in Workflows : Pending(w) <= 2 /\ (Pending(w) = 2 => Second)

Typed == TypeOK /\ (pc = "trigger" => minute # None)

\* What is left to do is due.
TodoIsDue == pc = "trigger" => \A w \in todo : Fires(w, minute)
-----------------------------------------------------------------------------
USE TimeAssumption, NoneAssumption

\* A moment lies in its minute, whose number is one of Minutes after the first.
LEMMA MinuteFacts ==
    ASSUME NEW t \in Nat
    PROVE  /\ MinuteOf(t) \in Nat
           /\ MinuteOf(t) * MinuteLen <= t
           /\ t < MinuteOf(t) * MinuteLen + MinuteLen
           /\ t \in MinuteLen..Horizon => MinuteOf(t) \in Minutes
<1> DEFINE q == t \div MinuteLen
<1>1. q \in Nat /\ q * MinuteLen <= t /\ t < (q + 1) * MinuteLen
    OBVIOUS
<1>2. (q + 1) * MinuteLen = q * MinuteLen + MinuteLen
    BY <1>1
<1>3. ASSUME t \in MinuteLen..Horizon PROVE q \in Minutes
    <2> DEFINE h == Horizon \div MinuteLen
    <2>1. h \in Nat /\ Horizon < (h + 1) * MinuteLen
        OBVIOUS
    <2>2. q * MinuteLen < (h + 1) * MinuteLen
        BY <1>1, <1>3, <2>1
    <2>3. q <= h
        BY <1>1, <2>1, <2>2
    <2>4. q # 0
        BY <1>1, <1>3
    <2> QED
        BY <1>1, <2>1, <2>3, <2>4 DEF Minutes
<1> QED
    BY <1>1, <1>2, <1>3 DEF MinuteOf

\* Minutes are positive numbers; None is not one.
LEMMA MinutesAreNat == Minutes \subseteq Nat \ {0} /\ None \notin Minutes
BY DEF Minutes

\* Division, by the interval that the dividend lies in.
LEMMA Quotient ==
    ASSUME NEW d \in Nat, NEW k \in Nat, NEW n \in Nat \ {0}, k * n <= d, d < (k + 1) * n
    PROVE  d \div n = k
OBVIOUS

\* Multiples of a minute.
LEMMA Times ==
    ASSUME NEW a \in Nat, NEW b \in Nat
    PROVE  /\ a * MinuteLen \in Nat
           /\ (a + 1) * MinuteLen = a * MinuteLen + MinuteLen
           /\ a * MinuteLen < b * MinuteLen + MinuteLen => a <= b
OBVIOUS
-----------------------------------------------------------------------------
(* Types.                                                                   *)

\* Types hold at the start.
LEMMA InitTyped == Init => Typed
<1> SUFFICES ASSUME Init PROVE Typed
    OBVIOUS
<1>1. clock \in MinuteLen..Horizon /\ busy \in 0..MaxBusy /\ restarts \in 0..MaxRestarts
    BY DEF Init
<1>2. fired \in [Workflows -> [Minutes -> Nat]]
    BY DEF Init
<1>3. active \subseteq Workflows /\ todo \subseteq Workflows
    BY DEF Init
<1> QED
    BY <1>1, <1>2, <1>3 DEF Init, Typed, TypeOK

\* The end of a check leaves a ticker and the time it was made, both numbers.
LEMMA EndCheckTyped ==
    ASSUME TypeOK, EndCheck
    PROVE  pc' = "wait" /\ ticker' \in Nat \cup {None} /\ born' \in Nat \cup {None}
BY DEF TypeOK, EndCheck

\* Every step keeps the types, and triggers only after a decision.
LEMMA NextTyped == Typed /\ [Next]_vars => Typed'
<1> SUFFICES ASSUME Typed, [Next]_vars PROVE Typed'
    OBVIOUS
<1>1. clock \in Nat
    BY DEF Typed, TypeOK
<1>2. CASE Start
    BY <1>2 DEF Start, Typed, TypeOK, history
<1>3. CASE Query
    BY <1>3 DEF Query, Typed, TypeOK, history
<1>4. CASE QueryFails
    BY <1>4, EndCheckTyped DEF QueryFails, Typed, TypeOK
<1>5. CASE Decide
    <2>1. minute' \in Minutes
        BY <1>1, <1>5, MinuteFacts DEF Decide, Typed, TypeOK
    <2>2. todo' \subseteq Workflows
        BY <1>5 DEF Decide, Typed, TypeOK
    <2>3. minute' # None
        BY <2>1, MinutesAreNat
    <2>4. CASE todo' = {}
        BY <1>5, <2>1, <2>2, <2>3, <2>4, EndCheckTyped DEF Decide, Typed, TypeOK
    <2>5. CASE todo' # {}
        BY <1>5, <2>1, <2>2, <2>3, <2>5 DEF Decide, Typed, TypeOK
    <2> QED
        BY <2>4, <2>5
<1>6. CASE \E w \in Workflows : Trigger(w) \/ TriggerFails(w)
    <2> PICK w \in Workflows : Trigger(w) \/ TriggerFails(w)
        BY <1>6
    <2>1. Done(w)
        BY DEF Trigger, TriggerFails
    <2>2. fired' \in [Workflows -> [Minutes -> Nat]]
        <3>1. minute \in Minutes /\ fired[w] \in [Minutes -> Nat]
            BY <2>1 DEF Done, Typed, TypeOK
        <3>2. fired[w][minute] + 1 \in Nat
            BY <3>1
        <3>3. [fired[w] EXCEPT ![minute] = fired[w][minute] + 1] \in [Minutes -> Nat]
            BY <3>1, <3>2
        <3>4. CASE Trigger(w)
            BY <3>3, <3>4 DEF Trigger, Typed, TypeOK
        <3>5. CASE TriggerFails(w)
            BY <3>5 DEF TriggerFails, Typed, TypeOK
        <3> QED
            BY <3>4, <3>5
    <2>5. steady' \subseteq Workflows
        BY DEF Trigger, TriggerFails, Typed, TypeOK
    <2>3. CASE todo' = {}
        BY <2>1, <2>2, <2>3, <2>5, EndCheckTyped DEF Done, Typed, TypeOK
    <2>4. CASE todo' # {}
        BY <2>1, <2>2, <2>4, <2>5 DEF Done, Typed, TypeOK
    <2> QED
        BY <2>3, <2>4
<1>7. CASE Wake
    <2>1. checks' \in Nat /\ busy' \in 0..MaxBusy
        BY <1>7 DEF Wake, Typed, TypeOK
    <2>2. due' \in BOOLEAN
        BY <1>7, Zenon DEF Wake
    <2> QED
        BY <1>7, <2>1, <2>2 DEF Wake, Typed, TypeOK
<1>8. CASE Tick
    <2>1. clock' \in MinuteLen..Horizon /\ busy' \in 0..MaxBusy
        BY <1>8 DEF Tick, Typed, TypeOK
    <2>2. ticker' \in Nat \cup {None} /\ due' \in BOOLEAN
        <3>1. CASE ticker = clock + 1
            <4>1. ticker + MinuteLen \in Nat
                BY <1>1, <3>1
            <4> QED
                BY <1>8, <3>1, <4>1 DEF Tick
        <3>2. CASE ticker # clock + 1
            BY <1>8, <3>2 DEF Tick, Typed, TypeOK
        <3> QED
            BY <3>1, <3>2
    <2> QED
        BY <1>8, <2>1, <2>2 DEF Tick, Typed, TypeOK, history
<1>9. CASE Crash
    <2>1. busy' \in 0..MaxBusy /\ restarts' \in 0..MaxRestarts /\ checks' \in Nat
          /\ failed' \in Nat /\ todo' \subseteq Workflows
        BY <1>9 DEF Crash, Typed, TypeOK
    <2>2. due' \in BOOLEAN
        BY <1>9, Zenon DEF Crash
    <2> QED
        BY <1>9, <2>1, <2>2 DEF Crash, Typed, TypeOK
<1>10. CASE \E w \in Workflows : Edit(w)
    <2>1. active' \subseteq Workflows
        BY <1>10 DEF Edit, Typed, TypeOK
    <2> QED
        BY <1>10, <2>1 DEF Edit, Typed, TypeOK, history
<1>11. CASE UNCHANGED vars
    BY <1>11 DEF vars, Typed, TypeOK
<1> QED
    BY <1>2, <1>3, <1>4, <1>5, <1>6, <1>7, <1>8, <1>9, <1>10, <1>11 DEF Next

\* Every variable of the scheduler keeps its type (TypeOK).
THEOREM TypeCorrect == Spec => []TypeOK
<1>1. Typed => TypeOK
    BY DEF Typed
<1> QED
    BY <1>1, InitTyped, NextTyped, PTL DEF Spec
-----------------------------------------------------------------------------
(* What is triggered is due.                                                *)

\* The earliest minute after t, which exists.
LEMMA NextOfIsLeast ==
    ASSUME NEW w \in Workflows, CronOf[w] # {}, NEW t \in 0..(Horizon \div MinuteLen)
    PROVE  /\ NextOf(w, t) \in CronOf[w] /\ NextOf(w, t) > t
           /\ \A k \in CronOf[w] : k > t => NextOf(w, t) <= k
<1> DEFINE T == {n \in CronOf[w] : n > t}
           IsNext(n) == n \in CronOf[w] /\ n > t /\ \A k \in CronOf[w] : k > t => n <= k
<1>1. CronOf[w] \subseteq Nat
    BY CronAssumption
<1>2. \E n \in CronOf[w] : n > t
    <2>1. PICK n \in CronOf[w] : n > Horizon \div MinuteLen
        BY CronAssumption
    <2>2. Horizon \div MinuteLen \in Nat /\ n \in Nat
        BY <1>1
    <2> QED
        BY <2>1, <2>2
<1>3. \E n \in T : \A k \in T : ~ (<<k, n>> \in OpToRel(<, Nat))
    <2>1. T \subseteq Nat /\ T # {}
        BY <1>1, <1>2
    <2> QED
        BY <2>1, NatLessThanWellFounded, WFMin
<1>4. PICK n \in T : \A k \in T : ~ (<<k, n>> \in OpToRel(<, Nat))
    BY <1>3
<1>5. \A k \in T : ~ (k < n)
    BY <1>1, <1>4 DEF OpToRel
<1>6. IsNext(n)
    <2>1. n \in CronOf[w] /\ n > t
        BY <1>4
    <2>2. ASSUME NEW k \in CronOf[w], k > t PROVE n <= k
        <3>1. k \in T /\ k \in Nat /\ n \in Nat
            BY <1>1, <2>1, <2>2
        <3> QED
            BY <1>5, <3>1
    <2> QED
        BY <2>1, <2>2
<1>7. NextOf(w, t) = CHOOSE n0 \in CronOf[w] : n0 > t /\ \A k \in CronOf[w] : k > t => n0 <= k
    BY <1>2 DEF NextOf
<1> QED
    BY <1>6, <1>7

\* isDue is true of a parsed expression that names a minute only in such a minute.
LEMMA FiresWhenDue ==
    ASSUME NEW w \in Workflows, CronOf[w] # {}, NEW m \in Minutes, Fires(w, m)
    PROVE  w \in Parsed /\ m \in CronOf[w]
<1>1. m \in Nat \ {0} /\ m - 1 \in 0..(Horizon \div MinuteLen)
    <2>1. Horizon \div MinuteLen \in Nat
        OBVIOUS
    <2> QED
        BY <2>1 DEF Minutes
<1>2. NextOf(w, m - 1) \in CronOf[w] /\ NextOf(w, m - 1) > m - 1 /\ NextOf(w, m - 1) <= m
    BY <1>1, NextOfIsLeast DEF Fires
<1>3. NextOf(w, m - 1) \in Nat
    BY <1>2, CronAssumption
<1>4. NextOf(w, m - 1) = m
    BY <1>1, <1>2, <1>3
<1> QED
    BY <1>2, <1>4 DEF Fires

\* What the check has left to trigger is due; nothing else has been triggered.
DueInv == Typed /\ TodoIsDue /\ FiredWhenDue

\* Every step keeps what the check has to trigger, and has triggered, due.
LEMMA NextDue ==
    ASSUME \A w \in Workflows : CronOf[w] # {}
    PROVE  DueInv /\ [Next]_vars => DueInv'
<1> SUFFICES ASSUME DueInv, [Next]_vars PROVE DueInv'
    OBVIOUS
<1>1. Typed /\ Typed'
    BY NextTyped DEF DueInv
<1>2. CASE Decide
    <2>1. FiredWhenDue'
        BY <1>2 DEF Decide, DueInv, FiredWhenDue
    <2>2. TodoIsDue'
        <3> SUFFICES ASSUME NEW w \in todo' PROVE Fires(w, minute')
            BY DEF TodoIsDue, Fires
        <3> QED
            BY <1>2 DEF Decide
    <2> QED
        BY <1>1, <2>1, <2>2 DEF DueInv
<1>3. CASE \E w \in Workflows : Trigger(w) \/ TriggerFails(w)
    <2> PICK w \in Workflows : Trigger(w) \/ TriggerFails(w)
        BY <1>3
    <2>1. Done(w) /\ minute \in Minutes /\ minute' = minute
        BY <1>1 DEF Trigger, TriggerFails, Done, Typed, TypeOK
    <2>2. Fires(w, minute)
        BY <2>1 DEF Done, DueInv, TodoIsDue
    <2>3. w \in Parsed /\ minute \in CronOf[w]
        BY <2>1, <2>2, FiresWhenDue
    <2>4. TodoIsDue'
        <3> SUFFICES ASSUME NEW v \in todo' PROVE Fires(v, minute')
            BY DEF TodoIsDue, Fires
        <3> QED
            BY <2>1 DEF Done, DueInv, TodoIsDue
    <2>5. FiredWhenDue'
        <3> SUFFICES ASSUME NEW v \in Workflows, NEW m \in Minutes, fired'[v][m] > 0
                     PROVE  v \in Parsed /\ m \in CronOf[v]
            BY DEF FiredWhenDue
        <3>1. CASE v = w /\ m = minute
            BY <2>3, <3>1
        <3>2. CASE ~ (v = w /\ m = minute)
            <4>1. fired'[v][m] = fired[v][m]
                BY <1>1, <3>2 DEF Trigger, TriggerFails, Typed, TypeOK
            <4> QED
                BY <4>1 DEF DueInv, FiredWhenDue
        <3> QED
            BY <3>1, <3>2
    <2> QED
        BY <1>1, <2>4, <2>5 DEF DueInv
<1>4. CASE Start \/ Query \/ QueryFails \/ Wake \/ Crash
    <2>1. pc' # "trigger" /\ fired' = fired
        BY <1>4 DEF Start, Query, QueryFails, EndCheck, Wake, Crash
    <2> QED
        BY <1>1, <2>1 DEF DueInv, TodoIsDue, FiredWhenDue
<1>5. CASE Tick \/ (\E w \in Workflows : Edit(w)) \/ UNCHANGED vars
    <2>1. UNCHANGED <<pc, todo, minute, fired>>
        BY <1>5 DEF Tick, Edit, vars
    <2> QED
        BY <1>1, <2>1 DEF DueInv, TodoIsDue, FiredWhenDue, Fires
<1> QED
    BY <1>2, <1>3, <1>4, <1>5 DEF Next

\* If every expression names some minute, a minute in which a workflow was triggered is one
\* that its expression names (FiredWhenDue).
THEOREM DueOnly ==
    ASSUME \A w \in Workflows : CronOf[w] # {}
    PROVE  Spec => []FiredWhenDue
<1>1. Init => DueInv
    <2> SUFFICES ASSUME Init PROVE DueInv
        OBVIOUS
    <2>1. FiredWhenDue
        BY DEF Init, FiredWhenDue
    <2> QED
        BY <2>1, InitTyped DEF Init, DueInv, TodoIsDue
<1>2. DueInv => FiredWhenDue
    BY DEF DueInv
<1> QED
    BY <1>1, <1>2, NextDue, PTL DEF Spec
-----------------------------------------------------------------------------
(* The pace of the ticker.                                                  *)

TimingInv == Typed /\ Timing

\* At the start there is no ticker.
LEMMA InitTiming == Init => TimingInv
BY InitTyped DEF Init, TimingInv, Timing, Checking

\* The end of a check, by whichever action.
LEMMA EndCheckTiming ==
    ASSUME TimingInv, Typed', Quick, Checking, EndCheck, UNCHANGED <<clock, due, checks>>
    PROVE  Timing'
<1>1. clock \in Nat /\ busy \in 0..MaxBusy /\ MaxBusy < MinuteLen
    BY DEF TimingInv, Typed, TypeOK, Quick
<1>2. pc' = "wait" /\ pc # "wait"
    BY DEF EndCheck, Checking
<1>3. CASE ticker = None
    <2>1. checks = 0 /\ ~due
        BY <1>3 DEF TimingInv, Timing
    <2>2. ticker' = clock + MinuteLen /\ born' = clock
        BY <1>3 DEF EndCheck
    <2>3. InTick' = 0
        BY <2>1 DEF InTick
    <2>4. ticker' = born' + (checks' + InTick' + 1) * MinuteLen
        BY <1>1, <2>1, <2>2, <2>3
    <2> QED
        BY <1>1, <1>2, <2>1, <2>2, <2>4 DEF Timing, Checking
<1>4. CASE ticker # None
    <2>1. ticker' = ticker /\ born' = born /\ ticker \in Nat
        BY <1>4 DEF EndCheck, TimingInv, Typed, TypeOK
    <2>2. ~due /\ ticker + busy = clock + MinuteLen
        BY <1>4 DEF TimingInv, Timing
    <2>3. clock < ticker /\ ticker <= clock + MinuteLen
        BY <1>1, <2>1, <2>2
    <2> QED
        BY <1>2, <1>4, <2>1, <2>2, <2>3 DEF TimingInv, Timing, InTick, Checking
<1> QED
    BY <1>3, <1>4

\* A quarter of a minute passes: a tick may fall into the channel.
LEMMA TickTiming ==
    ASSUME TimingInv, Quick, Tick
    PROVE  Timing'
<1>1. /\ clock \in Nat /\ busy \in 0..MaxBusy /\ MaxBusy < MinuteLen
      /\ checks \in Nat /\ clock' = clock + 1
    BY DEF TimingInv, Typed, TypeOK, Quick, Tick
<1>2. UNCHANGED <<pc, checks, born>> /\ Checking' = Checking
    BY DEF Tick, history, Checking
<1>3. CASE ticker = None
    <2>1. ticker' = None /\ due' = due
        BY <1>1, <1>3 DEF Tick
    <2> QED
        BY <1>2, <1>3, <2>1 DEF TimingInv, Timing
<1>4. CASE ticker # None /\ ticker # clock + 1
    <2>1. ticker' = ticker /\ due' = due /\ ticker \in Nat
        BY <1>4 DEF Tick, TimingInv, Typed, TypeOK
    <2>2. Checking => busy' = busy + 1
        BY DEF Tick
    <2>3. pc = "wait" => ~due
        BY DEF Tick
    <2>4. Checking => ticker' + busy' = clock' + MinuteLen
        BY <1>1, <1>4, <2>1, <2>2 DEF TimingInv, Timing
    <2>5. pc = "wait" => clock' < ticker' /\ ticker' <= clock' + MinuteLen
        BY <1>1, <1>4, <2>1 DEF TimingInv, Timing
    <2> QED
        BY <1>2, <1>4, <2>1, <2>3, <2>4, <2>5 DEF TimingInv, Timing, InTick
<1>5. CASE ticker = clock + 1
    <2>1. ticker # None /\ ticker \in Nat
        BY <1>1, <1>5
    <2>2. ~ Checking
        BY <1>1, <1>5, <2>1 DEF TimingInv, Timing, Tick
    <2>3. pc = "wait" /\ ~due
        BY <2>1, <2>2 DEF TimingInv, Timing, Tick, Typed, TypeOK, Checking
    <2>4. ticker' = ticker + MinuteLen /\ due'
        BY <1>5 DEF Tick
    <2>5. ticker = born + (checks + 1) * MinuteLen /\ born \in Nat
        <3>1. InTick = 0
            BY <2>3 DEF InTick
        <3>2. ticker = born + (checks + InTick + 1) * MinuteLen /\ born # None
            BY <2>1 DEF TimingInv, Timing
        <3> QED
            BY <1>1, <3>1, <3>2 DEF TimingInv, Typed, TypeOK
    <2>6. ticker' = born' + (checks' + InTick' + 1) * MinuteLen
        <3>1. InTick' = 1
            BY <2>4 DEF InTick
        <3>2. (checks + 1 + 1) * MinuteLen = (checks + 1) * MinuteLen + MinuteLen
            BY <1>1, Times
        <3>3. (checks + 1) * MinuteLen \in Nat
            BY <1>1, Times
        <3> QED
            BY <1>1, <1>2, <2>4, <2>5, <3>1, <3>2, <3>3
    <2>7. ticker' = clock' + MinuteLen /\ clock' < ticker'
        BY <1>1, <1>5, <2>4
    <2> QED
        BY <1>1, <1>2, <2>1, <2>2, <2>3, <2>4, <2>5, <2>6, <2>7 DEF Timing
<1> QED
    BY <1>3, <1>4, <1>5

\* Every step keeps the times of the ticker, if checks are shorter than a minute.
LEMMA NextTiming ==
    ASSUME Quick
    PROVE  TimingInv /\ [Next]_vars => TimingInv'
<1> SUFFICES ASSUME TimingInv, [Next]_vars PROVE TimingInv'
    OBVIOUS
<1>1. Typed /\ Typed'
    BY NextTyped DEF TimingInv
<1>2. CASE Start
    <2>1. pc' = "query" /\ ticker = None /\ UNCHANGED <<ticker, due, checks, born>>
        BY <1>2 DEF Start, TimingInv, Timing, history
    <2> QED
        BY <1>1, <2>1 DEF TimingInv, Timing
<1>3. CASE Query
    <2>1. pc = "query" /\ pc' = "decide" /\ UNCHANGED <<clock, ticker, due, busy, checks, born>>
        BY <1>3 DEF Query, history
    <2> QED
        BY <1>1, <2>1 DEF TimingInv, Timing, InTick, Checking
<1>4. CASE QueryFails
    <2>1. Checking
        BY <1>4 DEF QueryFails, Checking
    <2> QED
        BY <1>1, <1>4, <2>1, EndCheckTiming DEF QueryFails, TimingInv
<1>5. CASE Decide
    <2>1. Checking
        BY <1>5 DEF Decide, Checking
    <2>2. CASE todo' = {}
        BY <1>1, <1>5, <2>1, <2>2, EndCheckTiming DEF Decide, TimingInv
    <2>3. CASE todo' # {}
        <3>1. pc = "decide" /\ pc' = "trigger" /\ UNCHANGED <<clock, ticker, due, busy, checks, born>>
            BY <1>5, <2>3 DEF Decide
        <3> QED
            BY <1>1, <3>1 DEF TimingInv, Timing, InTick, Checking
    <2> QED
        BY <2>2, <2>3
<1>6. CASE \E w \in Workflows : Trigger(w) \/ TriggerFails(w)
    <2> PICK w \in Workflows : Done(w)
        BY <1>6 DEF Trigger, TriggerFails
    <2>1. Checking
        BY DEF Done, Checking
    <2>2. CASE todo' = {}
        BY <1>1, <2>1, <2>2, EndCheckTiming DEF Done, TimingInv
    <2>3. CASE todo' # {}
        <3>1. UNCHANGED <<pc, clock, ticker, due, busy, checks, born>>
            BY <2>3 DEF Done
        <3> QED
            BY <1>1, <3>1 DEF TimingInv, Timing, InTick, Checking
    <2> QED
        BY <2>2, <2>3
<1>7. CASE Wake
    <2>1. /\ pc = "wait" /\ due /\ pc' = "query" /\ ~due' /\ busy' = 0 /\ checks' = checks + 1
          /\ UNCHANGED <<clock, ticker, born>>
        BY <1>7 DEF Wake
    <2>2. ticker # None /\ ticker = clock + MinuteLen /\ born # None
        BY <2>1 DEF TimingInv, Timing
    <2>3. ticker = born + (checks' + InTick' + 1) * MinuteLen
        <3>1. InTick = 1 /\ InTick' = 0 /\ checks \in Nat
            BY <1>1, <2>1 DEF InTick, Typed, TypeOK
        <3>2. checks + InTick + 1 = checks' + InTick' + 1
            BY <2>1, <3>1
        <3> QED
            BY <2>2, <3>2 DEF TimingInv, Timing
    <2>4. ticker + 0 = clock + MinuteLen
        BY <1>1, <2>2 DEF Typed, TypeOK
    <2> QED
        BY <1>1, <2>1, <2>2, <2>3, <2>4 DEF TimingInv, Timing
<1>8. CASE Tick
    BY <1>1, <1>8, TickTiming DEF TimingInv
<1>9. CASE Crash
    <2>1. pc' = "down" /\ ticker' = None /\ ~due' /\ checks' = 0 /\ born' = None
        BY <1>9 DEF Crash
    <2> QED
        BY <1>1, <2>1 DEF TimingInv, Timing
<1>10. CASE (\E w \in Workflows : Edit(w)) \/ UNCHANGED vars
    <2>1. UNCHANGED <<pc, clock, ticker, due, busy, checks, born>>
        BY <1>10 DEF Edit, vars, history
    <2> QED
        BY <1>1, <2>1 DEF TimingInv, Timing, InTick, Checking
<1> QED
    BY <1>2, <1>3, <1>4, <1>5, <1>6, <1>7, <1>8, <1>9, <1>10 DEF Next

\* As long as a check is over before the next tick, the checks keep the pace of the clock
\* (TicksKept).
THEOREM PaceKept == ASSUME Quick PROVE Spec => []TicksKept
<1>1. TimingInv => TicksKept
    <2> SUFFICES ASSUME TimingInv, ticker # None PROVE Pace
        BY DEF TicksKept
    <2> DEFINE k == checks + InTick
    <2>1. k \in Nat /\ k + 1 \in Nat /\ clock \in Nat /\ born \in Nat /\ ticker \in Nat
          /\ busy \in 0..MaxBusy
        BY DEF TimingInv, Timing, Typed, TypeOK, InTick
    <2>2. ticker = born + (k + 1) * MinuteLen
        BY DEF TimingInv, Timing
    <2>3. clock < ticker /\ ticker <= clock + MinuteLen
        <3>1. pc # "down"
            BY DEF TimingInv, Timing
        <3>2. CASE pc = "wait"
            BY <3>2 DEF TimingInv, Timing
        <3>3. CASE pc # "wait"
            <4>1. Checking
                BY <3>1, <3>3 DEF Checking, TimingInv, Typed, TypeOK
            <4>2. ticker + busy = clock + MinuteLen /\ busy < MinuteLen
                BY <2>1, <4>1 DEF TimingInv, Timing, Quick
            <4> QED
                BY <2>1, <4>2
        <3> QED
            BY <3>2, <3>3
    <2>4. (k + 1) * MinuteLen = k * MinuteLen + MinuteLen /\ k * MinuteLen \in Nat
        BY <2>1, Times
    <2>5. clock - born \in Nat /\ k * MinuteLen <= clock - born /\ clock - born < (k + 1) * MinuteLen
        BY <2>1, <2>2, <2>3, <2>4
    <2>6. (clock - born) \div MinuteLen = k
        <3> HIDE DEF k
        <3> QED
            BY <2>1, <2>5, Quotient
    <2> QED
        BY <2>6 DEF Pace, InTick
<1> QED
    BY <1>1, InitTiming, NextTiming, PTL DEF Spec
-----------------------------------------------------------------------------
(* Decisions and their minutes.                                             *)

DecidedInv == TimingInv /\ Decided

\* The end of a check keeps when its minute was decided.
LEMMA EndCheckDecided ==
    ASSUME DecidedInv, TimingInv', Quick, Checking, EndCheck, minute # None,
           UNCHANGED <<clock, minute, checks>>, pc = "trigger", failed' = failed
    PROVE  Decided'
<1>1. clock \in Nat /\ busy \in 0..MaxBusy /\ MaxBusy < MinuteLen /\ minute \in Nat
    BY MinutesAreNat DEF DecidedInv, TimingInv, Typed, TypeOK, Quick
<1>2. pc' = "wait" /\ failed = 0 /\ Since = 0 /\ Since' = 0
    BY DEF EndCheck, DecidedInv, Decided, Since
<1>3. minute * MinuteLen <= clock /\ minute * MinuteLen \in Nat
    BY <1>1, Times DEF DecidedInv, Decided
<1>4. CASE ticker = None
    <2>1. checks = 0 /\ ticker' # None /\ born' = clock
        <3>1. ticker' = clock + MinuteLen /\ born' = clock
            BY <1>4 DEF EndCheck
        <3> QED
            BY <1>1, <1>4, <3>1 DEF DecidedInv, TimingInv, Timing
    <2>2. clock < minute * MinuteLen + MinuteLen + busy
        BY <1>4 DEF DecidedInv, Decided
    <2>3. born' < minute * MinuteLen + MinuteLen + MinuteLen
        BY <1>1, <1>3, <2>1, <2>2
    <2>4. minute * MinuteLen + 0 * MinuteLen <= born' + 0 * MinuteLen + MaxBusy
        BY <1>1, <1>3, <2>1
    <2> QED
        BY <1>2, <1>3, <2>1, <2>3, <2>4 DEF Decided
<1>5. CASE ticker # None
    <2>1. ticker' = ticker /\ born' = born
        BY <1>5 DEF EndCheck
    <2> QED
        BY <1>2, <1>3, <1>5, <2>1 DEF DecidedInv, Decided
<1> QED
    BY <1>4, <1>5

\* A decision, at a clock within the check.
LEMMA DecideDecided ==
    ASSUME DecidedInv, TimingInv', Quick, Decide
    PROVE  Decided'
<1>1. /\ clock \in Nat /\ busy \in 0..MaxBusy /\ MaxBusy < MinuteLen /\ checks \in Nat
      /\ clock' = clock /\ busy' = busy /\ checks' = checks /\ failed' = 0 /\ pc = "decide"
    BY DEF Decide, DecidedInv, TimingInv, Typed, TypeOK, Quick
<1>2. /\ minute' * MinuteLen \in Nat /\ minute' * MinuteLen <= clock
      /\ clock < minute' * MinuteLen + MinuteLen
    BY <1>1, MinuteFacts, Times DEF Decide
<1> DEFINE start == minute' * MinuteLen
<1>7. /\ start \in Nat /\ start <= clock /\ clock < start + MinuteLen
      /\ start + 0 * MinuteLen = start
    BY <1>2
<1> HIDE DEF start
<1>3. pc' \in {"wait", "trigger"} /\ Since' = 0
    BY <1>1 DEF Decide, EndCheck, Since
<1>4. checks * MinuteLen \in Nat
    BY <1>1, Times
<1>5. CASE ticker = None
    <2>1. checks = 0
        BY <1>5 DEF DecidedInv, TimingInv, Timing
    <2>2. ticker' = None => pc' = "trigger"
        BY <1>3 DEF TimingInv, Timing
    <2>3. ticker' # None => born' = clock
        BY <1>5 DEF Decide, EndCheck
    <2>4. clock < start + MinuteLen + busy
        BY <1>1, <1>7
    <2>5. ticker' # None => /\ start + 0 * MinuteLen <= born' + 0 * MinuteLen + MaxBusy
                            /\ born' < start + MinuteLen + MinuteLen
        BY <1>1, <1>7, <2>3
    <2> QED
        BY <1>1, <1>3, <1>7, <2>1, <2>2, <2>4, <2>5 DEF Decided, start
<1>6. CASE ticker # None
    <2>1. ticker' = ticker /\ born' = born
        BY <1>6 DEF Decide, EndCheck
    <2>2. ~due /\ ticker + busy = clock + MinuteLen /\ born # None
          /\ ticker = born + (checks + InTick + 1) * MinuteLen
        BY <1>1, <1>6 DEF DecidedInv, TimingInv, Timing, Checking
    <2>3. born \in Nat /\ ticker \in Nat
        BY <1>6, <2>2 DEF DecidedInv, TimingInv, Typed, TypeOK
    <2>4. clock = born + checks * MinuteLen + busy
        <3>1. InTick = 0
            BY <2>2 DEF InTick
        <3>2. (checks + InTick + 1) * MinuteLen = checks * MinuteLen + MinuteLen
            BY <1>1, <3>1, Times
        <3> QED
            BY <1>1, <1>4, <2>2, <2>3, <3>2
    <2>5. start + 0 * MinuteLen <= born + checks * MinuteLen + MaxBusy
        BY <1>1, <1>4, <1>7, <2>3, <2>4
    <2>6. /\ born + checks * MinuteLen < start + MinuteLen + 0 * MinuteLen
          /\ born < start + MinuteLen + MinuteLen
        BY <1>1, <1>4, <1>7, <2>3, <2>4
    <2> QED
        BY <1>1, <1>3, <1>6, <1>7, <2>1, <2>5, <2>6 DEF Decided, start
<1> QED
    BY <1>5, <1>6

\* Every step keeps when the last minute was decided.
LEMMA NextDecided ==
    ASSUME Quick
    PROVE  DecidedInv /\ [Next]_vars => DecidedInv'
<1> SUFFICES ASSUME DecidedInv, [Next]_vars PROVE DecidedInv'
    OBVIOUS
<1>1. TimingInv /\ TimingInv'
    BY NextTiming DEF DecidedInv
<1>2. CASE Start \/ Crash
    <2>1. minute' = None
        BY <1>2 DEF Start, Crash, DecidedInv, Decided
    <2> QED
        BY <1>1, <2>1 DEF DecidedInv, Decided
<1>3. CASE Query
    <2>1. pc = "query" /\ pc' = "decide"
          /\ UNCHANGED <<clock, ticker, minute, busy, failed, checks, born>>
        BY <1>3 DEF Query, history
    <2>2. Since' = Since
        BY <2>1 DEF Since
    <2> QED
        BY <1>1, <2>1, <2>2 DEF DecidedInv, Decided
<1>4. CASE QueryFails
    <2>1. pc = "query" /\ pc' = "wait" /\ failed' = failed + 1
          /\ UNCHANGED <<clock, minute, checks>>
        BY <1>4 DEF QueryFails, EndCheck
    <2>2. failed \in Nat
        BY <1>1 DEF TimingInv, Typed, TypeOK
    <2>3. Since' = Since
        BY <2>1, <2>2 DEF Since
    <2>4. minute # None => ticker # None /\ ticker' = ticker /\ born' = born
        BY <1>4, <2>1 DEF DecidedInv, Decided, QueryFails, EndCheck
    <2> QED
        BY <1>1, <2>1, <2>3, <2>4 DEF DecidedInv, Decided
<1>5. CASE Decide
    BY <1>1, <1>5, DecideDecided DEF DecidedInv
<1>6. CASE \E w \in Workflows : Trigger(w) \/ TriggerFails(w)
    <2> PICK w \in Workflows : Done(w)
        BY <1>6 DEF Trigger, TriggerFails
    <2>1. pc = "trigger" /\ minute # None /\ Checking
        BY <1>1 DEF Done, TimingInv, Typed, Checking
    <2>2. CASE todo' = {}
        BY <1>1, <2>1, <2>2, EndCheckDecided DEF Done, DecidedInv
    <2>3. CASE todo' # {}
        <3>1. UNCHANGED <<pc, clock, ticker, minute, busy, failed, checks, born>>
            BY <2>3 DEF Done
        <3> QED
            BY <1>1, <3>1 DEF DecidedInv, Decided, Since
    <2> QED
        BY <2>2, <2>3
<1>7. CASE Wake
    <2>1. pc = "wait" /\ pc' = "query" /\ checks' = checks + 1
          /\ UNCHANGED <<clock, ticker, minute, failed, born>>
        BY <1>7 DEF Wake
    <2>2. failed \in Nat /\ checks \in Nat
        BY <1>1 DEF TimingInv, Typed, TypeOK
    <2>3. Since = failed /\ Since' = failed + 1
        BY <2>1, <2>2 DEF Since
    <2>4. /\ (failed + 1) * MinuteLen = failed * MinuteLen + MinuteLen
          /\ (checks + 1) * MinuteLen = checks * MinuteLen + MinuteLen
          /\ failed * MinuteLen \in Nat /\ checks * MinuteLen \in Nat
        BY <2>2, Times
    <2> SUFFICES ASSUME minute # None PROVE Decided'
        BY <1>1, <2>1 DEF DecidedInv, Decided
    <2>5. minute \in Nat /\ minute * MinuteLen \in Nat
        BY <1>1, MinutesAreNat, Times DEF TimingInv, Typed, TypeOK
    <2>6. ticker # None /\ born \in Nat
        BY <1>1, <2>1 DEF TimingInv, Timing, Typed, TypeOK
    <2>7. failed <= checks /\ minute * MinuteLen <= clock
        BY <2>3 DEF DecidedInv, Decided
    <2>8. minute * MinuteLen + (failed + 1) * MinuteLen <= born + (checks + 1) * MinuteLen + MaxBusy
        <3>1. minute * MinuteLen + failed * MinuteLen <= born + checks * MinuteLen + MaxBusy
            BY <2>3, <2>6 DEF DecidedInv, Decided
        <3> QED
            BY <2>4, <2>5, <2>6, <3>1
    <2>9. failed < checks => born + (checks + 1) * MinuteLen
                               < minute * MinuteLen + MinuteLen + (failed + 1) * MinuteLen
        <3> SUFFICES ASSUME failed < checks
                     PROVE  born + (checks + 1) * MinuteLen
                               < minute * MinuteLen + MinuteLen + (failed + 1) * MinuteLen
            OBVIOUS
        <3>1. born + checks * MinuteLen < minute * MinuteLen + MinuteLen + failed * MinuteLen
            BY <2>3, <2>6 DEF DecidedInv, Decided
        <3> QED
            BY <2>4, <2>5, <2>6, <3>1
    <2>10. failed = checks => born < minute * MinuteLen + MinuteLen + MinuteLen
        BY <2>3, <2>6 DEF DecidedInv, Decided
    <2>11. failed + 1 <= checks + 1 /\ (failed + 1 < checks + 1 => failed < checks)
           /\ (failed + 1 = checks + 1 => failed = checks)
        BY <2>2, <2>7
    <2> QED
        BY <2>1, <2>3, <2>6, <2>7, <2>8, <2>9, <2>10, <2>11 DEF Decided
<1>8. CASE Tick
    <2>1. clock' = clock + 1 /\ UNCHANGED <<pc, minute, failed, checks, born>>
        BY <1>8 DEF Tick, history
    <2>2. Since' = Since /\ clock \in Nat /\ busy \in Nat /\ (ticker' = None <=> ticker = None)
        <3>1. clock \in Nat /\ busy \in Nat
            BY <1>1 DEF TimingInv, Typed, TypeOK
        <3>2. ticker' = None <=> ticker = None
            <4>1. CASE ticker = clock + 1
                <5>1. ticker' = ticker + MinuteLen /\ ticker \in Nat
                    BY <1>8, <3>1, <4>1 DEF Tick
                <5> QED
                    BY <5>1
            <4>2. CASE ticker # clock + 1
                BY <1>8, <4>2 DEF Tick
            <4> QED
                BY <4>1, <4>2
        <3> QED
            BY <2>1, <3>1, <3>2 DEF Since
    <2> SUFFICES ASSUME minute # None PROVE Decided'
        BY <1>1, <2>1 DEF DecidedInv, Decided
    <2>3. minute \in Nat /\ minute * MinuteLen \in Nat
        BY <1>1, MinutesAreNat, Times DEF TimingInv, Typed, TypeOK
    <2>4. minute * MinuteLen <= clock'
        BY <2>1, <2>2, <2>3 DEF DecidedInv, Decided
    <2>5. ticker' = None => pc = "trigger" /\ clock' < minute * MinuteLen + MinuteLen + busy'
        <3> SUFFICES ASSUME ticker' = None
                     PROVE  pc = "trigger" /\ clock' < minute * MinuteLen + MinuteLen + busy'
            OBVIOUS
        <3>1. pc = "trigger" /\ clock < minute * MinuteLen + MinuteLen + busy
            BY <2>2 DEF DecidedInv, Decided
        <3>2. busy' = busy + 1
            BY <1>8, <3>1 DEF Tick, Checking
        <3> QED
            BY <2>1, <2>2, <2>3, <3>1, <3>2
    <2> QED
        BY <2>1, <2>2, <2>4, <2>5 DEF DecidedInv, Decided
<1>9. CASE (\E w \in Workflows : Edit(w)) \/ UNCHANGED vars
    <2>1. UNCHANGED <<pc, clock, ticker, minute, busy, failed, checks, born>>
        BY <1>9 DEF Edit, vars, history
    <2> QED
        BY <1>1, <2>1 DEF DecidedInv, Decided, Since
<1> QED
    BY <1>2, <1>3, <1>4, <1>5, <1>6, <1>7, <1>8, <1>9 DEF Next

\* Where a decision falls that is not the first.
LEMMA AtDecision ==
    ASSUME DecidedInv, Quick, pc = "decide", minute # None
    PROVE  /\ minute \in Nat /\ failed \in Nat /\ checks \in Nat /\ born \in Nat /\ clock \in Nat
           /\ ticker # None /\ Since = failed + 1 /\ failed + 1 <= checks
           /\ minute * MinuteLen \in Nat /\ failed * MinuteLen \in Nat /\ checks * MinuteLen \in Nat
           /\ Since * MinuteLen = failed * MinuteLen + MinuteLen
           /\ minute * MinuteLen <= clock
           /\ born + checks * MinuteLen <= clock /\ clock < born + checks * MinuteLen + MinuteLen
<1>1. /\ minute \in Nat /\ failed \in Nat /\ checks \in Nat /\ clock \in Nat
      /\ busy \in 0..MaxBusy /\ MaxBusy < MinuteLen
    BY MinutesAreNat DEF DecidedInv, TimingInv, Typed, TypeOK, Quick
<1>2. Since = failed + 1 /\ ticker # None /\ failed + 1 <= checks /\ minute * MinuteLen <= clock
    BY DEF DecidedInv, Decided, Since
<1>3. minute * MinuteLen \in Nat /\ failed * MinuteLen \in Nat /\ checks * MinuteLen \in Nat
      /\ (failed + 1) * MinuteLen = failed * MinuteLen + MinuteLen
    BY <1>1, Times
<1>4. ~due /\ ticker + busy = clock + MinuteLen /\ born # None
      /\ ticker = born + (checks + InTick + 1) * MinuteLen
    BY <1>2 DEF DecidedInv, TimingInv, Timing, Checking
<1>5. born \in Nat /\ ticker \in Nat
    BY <1>2, <1>4 DEF DecidedInv, TimingInv, Typed, TypeOK
<1>6. clock = born + checks * MinuteLen + busy
    <2>1. InTick = 0
        BY <1>4 DEF InTick
    <2>2. (checks + InTick + 1) * MinuteLen = checks * MinuteLen + MinuteLen
        BY <1>1, <2>1, Times
    <2> QED
        BY <1>1, <1>3, <1>4, <1>5, <2>2
<1>7. born + checks * MinuteLen <= clock /\ clock < born + checks * MinuteLen + MinuteLen
    <2> DEFINE x == born + checks * MinuteLen
    <2>1. x \in Nat /\ clock = x + busy
        BY <1>3, <1>5, <1>6
    <2> HIDE DEF x
    <2>2. x <= clock /\ clock < x + MinuteLen
        BY <1>1, <2>1
    <2> QED
        BY <2>2 DEF x
<1> QED
    BY <1>1, <1>2, <1>3, <1>5, <1>7

\* What NoLongGap says of a decision.
LEMMA NextDecision ==
    ASSUME DecidedInv, Quick, Decide, minute # None
    PROVE  minute' \in minute..(minute + failed + (IF checks = failed + 1 THEN 3 ELSE 2))
<1> DEFINE m == MinuteOf(clock)
           last == minute * MinuteLen
           lost == failed * MinuteLen
           at == born + checks * MinuteLen
<1>1. /\ minute \in Nat /\ failed \in Nat /\ checks \in Nat /\ born \in Nat /\ clock \in Nat
      /\ ticker # None /\ Since = failed + 1 /\ failed + 1 <= checks
      /\ last \in Nat /\ lost \in Nat /\ at \in Nat
      /\ Since * MinuteLen = lost + MinuteLen /\ last <= clock
      /\ at <= clock /\ clock < at + MinuteLen
    BY AtDecision DEF Decide
<1>2. m \in Nat /\ m * MinuteLen <= clock /\ clock < m * MinuteLen + MinuteLen /\ minute' = m
    BY <1>1, MinuteFacts DEF Decide
<1>3. /\ (minute + failed + 2) * MinuteLen = last + lost + MinuteLen + MinuteLen
      /\ (minute + failed + 3) * MinuteLen = last + lost + MinuteLen + MinuteLen + MinuteLen
    <2>1. (minute + failed) * MinuteLen = last + lost
        BY <1>1
    <2>2. \A k \in Nat : (k + 2) * MinuteLen = k * MinuteLen + MinuteLen + MinuteLen
        OBVIOUS
    <2>3. \A k \in Nat : (k + 3) * MinuteLen = k * MinuteLen + MinuteLen + MinuteLen + MinuteLen
        OBVIOUS
    <2>4. minute + failed \in Nat
        BY <1>1
    <2> QED
        BY <2>1, <2>2, <2>3, <2>4
<1>4. minute <= m
    <2>1. last < m * MinuteLen + MinuteLen
        BY <1>1, <1>2
    <2> QED
        BY <1>1, <1>2, <2>1, Times
<1>5. CASE failed + 1 < checks
    <2>1. at < last + MinuteLen + (lost + MinuteLen)
        BY <1>1, <1>5 DEF DecidedInv, Decided
    <2>2. m * MinuteLen < (minute + failed + 2) * MinuteLen + MinuteLen
        <3>1. PICK x \in Nat, y \in Nat, z \in Nat, p \in Nat :
                   x = last /\ y = lost /\ z = at /\ p = m * MinuteLen
            BY <1>1, <1>2, Times
        <3>2. p < x + y + MinuteLen + MinuteLen + MinuteLen
            BY <1>1, <1>2, <2>1, <3>1
        <3> QED
            BY <1>3, <3>1, <3>2
    <2>3. m <= minute + failed + 2
        BY <1>1, <1>2, <2>2, Times
    <2> QED
        BY <1>1, <1>2, <1>4, <1>5, <2>3
<1>6. CASE failed + 1 = checks
    <2>1. born < last + MinuteLen + MinuteLen
        BY <1>1, <1>6 DEF DecidedInv, Decided
    <2>2. at = born + (lost + MinuteLen)
        BY <1>1, <1>6
    <2>3. m * MinuteLen < (minute + failed + 3) * MinuteLen + MinuteLen
        <3>1. PICK x \in Nat, y \in Nat, z \in Nat, p \in Nat :
                   x = last /\ y = lost /\ z = at /\ p = m * MinuteLen
            BY <1>1, <1>2, Times
        <3>2. z < x + y + MinuteLen + MinuteLen + MinuteLen
            BY <1>1, <2>1, <2>2, <3>1
        <3>3. p < x + y + MinuteLen + MinuteLen + MinuteLen + MinuteLen
            BY <1>1, <1>2, <3>1, <3>2
        <3> QED
            BY <1>3, <3>1, <3>3
    <2>4. m <= minute + failed + 3
        BY <1>1, <1>2, <2>3, Times
    <2> QED
        BY <1>1, <1>2, <1>4, <1>6, <2>4
<1> QED
    BY <1>1, <1>5, <1>6

\* At the start no minute has been decided.
LEMMA InitDecided == Init => DecidedInv
BY InitTiming DEF Init, DecidedInv, Decided

\* The decisions of a process follow each other closely (NoLongGap): one minute is passed
\* over at most, and one for each query that fails.
THEOREM GapsBounded == ASSUME Quick PROVE Spec => NoLongGap
<1> DEFINE A == (pc = "decide" /\ pc' \in {"wait", "trigger"} /\ minute # None)
          => minute' \in minute..(minute + failed + (IF checks = failed + 1 THEN 3 ELSE 2))
<1>1. DecidedInv /\ [Next]_vars => [A]_vars
    <2> SUFFICES ASSUME DecidedInv, Next, pc = "decide", pc' \in {"wait", "trigger"}, minute # None
                 PROVE  A
        OBVIOUS
    <2>1. CASE Decide
        BY <2>1, NextDecision
    <2>2. CASE ~ Decide
        BY <2>2 DEF Next, Start, Query, QueryFails, Wake, Tick, Crash, Trigger, TriggerFails, Done,
                    Edit, history
    <2> QED
        BY <2>1, <2>2
<1> QED
    BY <1>1, InitDecided, NextDecided, PTL DEF Spec, NoLongGap
-----------------------------------------------------------------------------
(* How often a minute is triggered.                                         *)

CountInv == DecidedInv /\ Counted

\* What is created changes nothing else, and what is not created counts no more.
LEMMA SameCount ==
    ASSUME CountInv, DecidedInv', UNCHANGED <<fired, minute>>, restarts' = 0 => restarts = 0,
           minute # None => \A w \in Workflows :
               (pc' = "trigger" /\ w \in todo') => (pc = "trigger" /\ w \in todo),
           minute # None /\ Second => Second'
    PROVE  Counted'
<1> SUFFICES ASSUME restarts' = 0 PROVE Counted'
    BY DEF Counted
<1>1. restarts = 0
    OBVIOUS
<1>2. \A w \in Workflows, m \in Minutes :
        fired'[w][m] <= 2 /\ (minute' = None \/ minute' < m => fired'[w][m] = 0)
    BY <1>1 DEF CountInv, Counted
<1>3. ASSUME minute # None, NEW w \in Workflows
      PROVE  Pending(w)' <= 2 /\ (Pending(w)' = 2 => Second')
    <2>1. Pending(w) <= 2 /\ (Pending(w) = 2 => Second)
        BY <1>1, <1>3 DEF CountInv, Counted
    <2>2. fired[w][minute] \in Nat
        BY <1>3 DEF CountInv, DecidedInv, TimingInv, Typed, TypeOK
    <2>3. CASE pc' = "trigger" /\ w \in todo'
        <3>1. Pending(w)' = Pending(w)
            BY <1>3, <2>3 DEF Pending
        <3> QED
            BY <1>3, <2>1, <3>1
    <2>4. CASE ~ (pc' = "trigger" /\ w \in todo')
        <3>1. Pending(w)' = fired[w][minute]
            BY <2>2, <2>4 DEF Pending
        <3>2. CASE pc = "trigger" /\ w \in todo
            <4>1. Pending(w) = fired[w][minute] + 1
                BY <3>2 DEF Pending
            <4> QED
                BY <2>1, <2>2, <3>1, <4>1
        <3>3. CASE ~ (pc = "trigger" /\ w \in todo)
            <4>1. Pending(w) = fired[w][minute]
                BY <2>2, <3>3 DEF Pending
            <4> QED
                BY <1>3, <2>1, <3>1, <4>1
        <3> QED
            BY <3>2, <3>3
    <2> QED
        BY <2>3, <2>4
<1> QED
    BY <1>2, <1>3 DEF Counted

\* A decision adds one trigger at most to a minute that has had one at most.
LEMMA DecideCounted ==
    ASSUME CountInv, DecidedInv', Quick, Decide
    PROVE  Counted'
<1> SUFFICES ASSUME restarts' = 0 PROVE Counted'
    BY DEF Counted
<1>1. restarts = 0 /\ fired' = fired /\ pc = "decide" /\ todo' \subseteq todo
    BY DEF Decide
<1>2. /\ clock \in Nat /\ fired \in [Workflows -> [Minutes -> Nat]]
      /\ minute' = MinuteOf(clock) /\ minute' \in Minutes /\ minute' \in Nat
      /\ clock < minute' * MinuteLen + MinuteLen /\ minute' * MinuteLen <= clock
    BY MinuteFacts DEF Decide, CountInv, DecidedInv, TimingInv, Typed, TypeOK
<1>3. Minutes \subseteq Nat /\ None \notin Minutes
    BY MinutesAreNat
<1>4. minute # None => minute \in Nat /\ minute <= minute'
    <2> SUFFICES ASSUME minute # None PROVE minute \in Nat /\ minute <= minute'
        OBVIOUS
    <2>1. minute \in Nat /\ minute * MinuteLen \in Nat /\ minute * MinuteLen <= clock
        BY <1>1, AtDecision DEF CountInv
    <2>2. minute' * MinuteLen \in Nat
        BY <1>2, Times
    <2>3. minute * MinuteLen < minute' * MinuteLen + MinuteLen
        BY <1>2, <2>1, <2>2
    <2> QED
        BY <1>2, <2>1, <2>3, Times
<1>5. \A w \in Workflows, m \in Minutes :
        fired'[w][m] <= 2 /\ (minute' = None \/ minute' < m => fired'[w][m] = 0)
    <2> SUFFICES ASSUME NEW w \in Workflows, NEW m \in Minutes
                 PROVE  fired[w][m] <= 2 /\ (minute' < m => fired[w][m] = 0)
        BY <1>1, <1>2, <1>3
    <2>1. fired[w][m] <= 2 /\ (minute = None \/ minute < m => fired[w][m] = 0)
        BY <1>1 DEF CountInv, Counted
    <2>2. minute' < m => minute = None \/ minute < m
        BY <1>2, <1>3, <1>4
    <2> QED
        BY <2>1, <2>2
<1>6. ASSUME NEW w \in Workflows
      PROVE  Pending(w)' <= 2 /\ (Pending(w)' = 2 => Second')
    <2>1. fired[w][minute'] \in Nat
        BY <1>2
    <2>2. Pending(w)' <= fired[w][minute'] + 1 /\ Pending(w)' \in Nat
        BY <1>1, <2>1 DEF Pending
    <2>3. CASE minute = None \/ minute # minute'
        <3>1. fired[w][minute'] = 0
            <4>1. minute = None \/ minute < minute'
                BY <1>2, <1>4, <2>3
            <4> QED
                BY <1>1, <1>2, <4>1 DEF CountInv, Counted
        <3> QED
            BY <2>2, <3>1
    <2>4. CASE minute # None /\ minute = minute'
        <3> DEFINE last == minute * MinuteLen
                   lost == failed * MinuteLen
                   at == born + checks * MinuteLen
        <3>1. /\ last \in Nat /\ lost \in Nat /\ at \in Nat /\ ticker # None
              /\ Since * MinuteLen = lost + MinuteLen /\ at <= clock /\ clock < last + MinuteLen
            BY <1>1, <1>2, <2>4, AtDecision DEF CountInv
        <3>2. last + (lost + MinuteLen) <= at + MaxBusy
            BY <1>1, <2>4, <3>1 DEF CountInv, DecidedInv, Decided
        <3>3. ~ Second
            <4>1. Second => last + (lost + MinuteLen) < at
                BY <3>1 DEF Second
            <4> HIDE DEF last, lost, at
            <4> QED
                BY <1>2, <3>1, <4>1
        <3>4. fired[w][minute] <= 1
            <4>1. Pending(w) = fired[w][minute]
                BY <1>1, <2>1, <2>4 DEF Pending
            <4>2. Pending(w) <= 2 /\ Pending(w) # 2
                BY <1>1, <2>4, <3>3 DEF CountInv, Counted
            <4> QED
                BY <2>1, <2>4, <4>1, <4>2
        <3>5. Second'
            <4>1. ticker' = ticker /\ born' = born /\ checks' = checks
                BY <3>1 DEF Decide, EndCheck
            <4>2. Since' = 0
                <5>1. pc' \in {"wait", "trigger"} /\ failed' = 0
                    BY DEF Decide, EndCheck
                <5> QED
                    BY <5>1 DEF Since
            <4>3. last + 0 * MinuteLen < at
                <5>1. MaxBusy < MinuteLen /\ 0 * MinuteLen = 0
                    BY DEF Quick
                <5> HIDE DEF last, lost, at
                <5> QED
                    BY <3>1, <3>2, <5>1
            <4> QED
                BY <2>4, <3>1, <4>1, <4>2, <4>3 DEF Second
        <3> QED
            BY <2>1, <2>2, <2>4, <3>4, <3>5
    <2> QED
        BY <2>3, <2>4
<1> QED
    BY <1>5, <1>6 DEF Counted

\* A trigger creates an execution that the decision had counted already.
LEMMA TriggerCounted ==
    ASSUME CountInv, DecidedInv', NEW w \in Workflows, Trigger(w)
    PROVE  Counted'
<1> SUFFICES ASSUME restarts' = 0 PROVE Counted'
    BY DEF Counted
<1>1. /\ restarts = 0 /\ pc = "trigger" /\ w \in todo /\ todo' = todo \ {w} /\ minute' = minute
      /\ fired' = [fired EXCEPT ![w][minute] = @ + 1]
    BY DEF Trigger, Done
<1>2. /\ fired \in [Workflows -> [Minutes -> Nat]] /\ minute \in Minutes /\ minute # None
      /\ minute \in Nat
    BY <1>1, MinutesAreNat DEF CountInv, DecidedInv, TimingInv, Typed, TypeOK
<1>3. \A v \in Workflows, m \in Minutes :
        fired'[v][m] = IF v = w /\ m = minute THEN fired[v][m] + 1 ELSE fired[v][m]
    BY <1>1, <1>2
<1>4. Pending(w) = fired[w][minute] + 1 /\ Pending(w) <= 2 /\ (Pending(w) = 2 => Second)
    BY <1>1, <1>2 DEF CountInv, Counted, Pending
<1>5. Second => Second'
    <2>1. Second => UNCHANGED <<ticker, born, checks, failed>>
        BY DEF Trigger, Done, EndCheck, Second
    <2>2. pc' \in {"trigger", "wait"}
        BY <1>1 DEF Trigger, Done, EndCheck
    <2>3. Second => Since' = Since
        BY <1>1, <2>1, <2>2 DEF Since
    <2> QED
        BY <1>1, <2>1, <2>3 DEF Second
<1>6. ASSUME NEW v \in Workflows, NEW m \in Minutes
      PROVE  fired'[v][m] <= 2 /\ (minute' = None \/ minute' < m => fired'[v][m] = 0)
    <2>1. fired[v][m] \in Nat /\ fired[v][m] <= 2 /\ (minute < m => fired[v][m] = 0)
        BY <1>1, <1>2 DEF CountInv, Counted
    <2>2. CASE v = w /\ m = minute
        BY <1>1, <1>2, <1>3, <1>4, <2>2
    <2>3. CASE ~ (v = w /\ m = minute)
        BY <1>1, <1>2, <1>3, <2>1, <2>3
    <2> QED
        BY <2>2, <2>3
<1>7. ASSUME NEW v \in Workflows
      PROVE  Pending(v)' <= 2 /\ (Pending(v)' = 2 => Second')
    <2>1. fired[v][minute] \in Nat
        BY <1>2
    <2>2. CASE v = w
        <3>1. Pending(v)' = fired[w][minute] + 1
            BY <1>1, <1>2, <1>3, <2>1, <2>2 DEF Pending
        <3> QED
            BY <1>4, <1>5, <3>1
    <2>3. CASE v # w
        <3>1. Pending(v) <= 2 /\ (Pending(v) = 2 => Second)
            BY <1>1, <1>2 DEF CountInv, Counted
        <3>2. fired'[v][minute'] = fired[v][minute]
            BY <1>1, <1>2, <1>3, <2>3
        <3>3. CASE v \in todo /\ pc' = "trigger"
            <4>1. Pending(v)' = Pending(v)
                BY <1>1, <2>3, <3>2, <3>3 DEF Pending
            <4> QED
                BY <1>5, <3>1, <4>1
        <3>4. CASE ~ (v \in todo /\ pc' = "trigger")
            <4>1. Pending(v)' = fired[v][minute]
                BY <1>1, <2>1, <3>2, <3>4 DEF Pending
            <4>2. Pending(v) = fired[v][minute] \/ Pending(v) = fired[v][minute] + 1
                BY <2>1 DEF Pending
            <4> QED
                BY <1>5, <2>1, <3>1, <4>1, <4>2
        <3> QED
            BY <3>3, <3>4
    <2> QED
        BY <2>2, <2>3
<1> QED
    BY <1>6, <1>7 DEF Counted

\* Every step keeps the count of executions of each minute at two.
LEMMA NextCounted ==
    ASSUME Quick
    PROVE  CountInv /\ [Next]_vars => CountInv'
<1> SUFFICES ASSUME CountInv, [Next]_vars PROVE CountInv'
    OBVIOUS
<1>1. DecidedInv /\ DecidedInv'
    BY NextDecided DEF CountInv
<1>2. failed \in Nat /\ checks \in Nat
    BY <1>1 DEF DecidedInv, TimingInv, Typed, TypeOK
<1>3. CASE Start
    <2>1. minute = None /\ pc' = "query" /\ UNCHANGED <<fired, minute, restarts>>
        BY <1>1, <1>3 DEF Start, DecidedInv, Decided, history
    <2> QED
        BY <1>1, <2>1, SameCount DEF CountInv
<1>4. CASE Query
    <2>1. pc = "query" /\ pc' = "decide"
          /\ UNCHANGED <<fired, minute, restarts, ticker, born, checks, failed>>
        BY <1>4 DEF Query, history
    <2>2. Since' = Since
        BY <2>1 DEF Since
    <2> QED
        BY <1>1, <2>1, <2>2, SameCount DEF CountInv, Second
<1>5. CASE QueryFails
    <2>1. pc = "query" /\ pc' = "wait" /\ failed' = failed + 1
          /\ UNCHANGED <<fired, minute, restarts, checks>>
        BY <1>5 DEF QueryFails, EndCheck
    <2>2. Since' = Since
        BY <1>2, <2>1 DEF Since
    <2>3. Second => UNCHANGED <<ticker, born>>
        BY <1>5 DEF QueryFails, EndCheck, Second
    <2> QED
        BY <1>1, <2>1, <2>2, <2>3, SameCount DEF CountInv, Second
<1>6. CASE Decide
    BY <1>1, <1>6, DecideCounted DEF CountInv
<1>7. CASE \E w \in Workflows : Trigger(w)
    BY <1>1, <1>7, TriggerCounted DEF CountInv
<1>8. CASE \E w \in Workflows : TriggerFails(w)
    <2> PICK w \in Workflows : TriggerFails(w)
        BY <1>8
    <2>1. /\ pc = "trigger" /\ todo' = todo \ {w} /\ pc' \in {"trigger", "wait"}
          /\ UNCHANGED <<fired, minute, restarts, failed, checks>>
        BY DEF TriggerFails, Done, EndCheck
    <2>2. Since' = Since
        BY <2>1 DEF Since
    <2>3. Second => UNCHANGED <<ticker, born>>
        BY DEF TriggerFails, Done, EndCheck, Second
    <2> QED
        BY <1>1, <2>1, <2>2, <2>3, SameCount DEF CountInv, Second
<1>9. CASE Wake
    <2>1. pc = "wait" /\ pc' = "query" /\ checks' = checks + 1
          /\ UNCHANGED <<fired, minute, restarts, ticker, born, failed>>
        BY <1>9 DEF Wake
    <2>2. Since = failed /\ Since' = failed + 1
        BY <1>2, <2>1 DEF Since
    <2>3. minute # None /\ Second => Second'
        <3> SUFFICES ASSUME minute # None, Second PROVE Second'
            OBVIOUS
        <3>1. /\ (failed + 1) * MinuteLen = failed * MinuteLen + MinuteLen
              /\ (checks + 1) * MinuteLen = checks * MinuteLen + MinuteLen
              /\ failed * MinuteLen \in Nat /\ checks * MinuteLen \in Nat
            BY <1>2, Times
        <3>2. minute \in Nat /\ minute * MinuteLen \in Nat
            BY <1>1, MinutesAreNat, Times DEF DecidedInv, TimingInv, Typed, TypeOK
        <3>3. ticker # None /\ born \in Nat
            BY <1>1 DEF Second, DecidedInv, TimingInv, Timing, Typed, TypeOK
        <3>4. minute * MinuteLen + failed * MinuteLen < born + checks * MinuteLen
            BY <2>2 DEF Second
        <3>5. minute * MinuteLen + (failed + 1) * MinuteLen < born + (checks + 1) * MinuteLen
            BY <3>1, <3>2, <3>3, <3>4
        <3> QED
            BY <2>1, <2>2, <3>3, <3>5 DEF Second
    <2> QED
        BY <1>1, <2>1, <2>3, SameCount DEF CountInv
<1>10. CASE Tick
    <2>1. UNCHANGED <<pc, todo, fired, minute, restarts, born, checks, failed>>
        BY <1>10 DEF Tick, history
    <2>2. Since' = Since
        BY <2>1 DEF Since
    <2>3. ticker # None => ticker' # None
        <3> SUFFICES ASSUME ticker # None PROVE ticker' # None
            OBVIOUS
        <3>1. ticker \in Nat
            BY <1>1 DEF DecidedInv, TimingInv, Typed, TypeOK
        <3>2. ticker' = ticker \/ ticker' = ticker + MinuteLen
            BY <1>10 DEF Tick
        <3> QED
            BY <3>1, <3>2
    <2> QED
        BY <1>1, <2>1, <2>2, <2>3, SameCount DEF CountInv, Second
<1>11. CASE Crash
    <2>1. restarts \in Nat /\ restarts' = restarts + 1
        BY <1>1, <1>11 DEF Crash, DecidedInv, TimingInv, Typed, TypeOK
    <2> QED
        BY <1>1, <2>1 DEF CountInv, Counted
<1>12. CASE (\E w \in Workflows : Edit(w)) \/ UNCHANGED vars
    <2>1. UNCHANGED <<pc, todo, fired, minute, restarts, ticker, born, checks, failed>>
        BY <1>12 DEF Edit, vars, history
    <2>2. Since' = Since
        BY <2>1 DEF Since
    <2> QED
        BY <1>1, <2>1, <2>2, SameCount DEF CountInv, Second
<1> QED
    BY <1>3, <1>4, <1>5, <1>6, <1>7, <1>8, <1>9, <1>10, <1>11, <1>12 DEF Next

\* Unless the process is restarted, a minute is triggered at most twice (NeverThrice).
THEOREM AtMostTwice == ASSUME Quick PROVE Spec => []NeverThrice
<1>1. Init => CountInv
    <2> SUFFICES ASSUME Init PROVE CountInv
        OBVIOUS
    <2>1. \A w \in Workflows, m \in Minutes : fired[w][m] = 0
        BY DEF Init
    <2> QED
        BY <2>1, InitDecided DEF Init, CountInv, Counted
<1>2. CountInv => NeverThrice
    BY DEF CountInv, Counted, NeverThrice
<1> QED
    BY <1>1, <1>2, NextCounted, PTL DEF Spec
-----------------------------------------------------------------------------
(* Who is passed over.                                                      *)

\* What the minutes decided so far have brought the steady workflows, and what the check
\* under way still owes them.
Served ==
    /\ steady \subseteq active
    /\ steady # {} => failed = 0 /\ (minute = None => ticker = None)
    /\ pc = "decide" => steady \subseteq todo
    /\ minute # None =>
         \A w \in steady \cap Parsed :
             minute \in CronOf[w] => fired[w][minute] > 0 \/ (pc = "trigger" /\ w \in todo)

ServedInv == DecidedInv /\ Served /\ NeverTwoMissed

\* A parsed expression fires in every minute that it names.
LEMMA NamedFires ==
    ASSUME NEW w \in Workflows \cap Parsed, NEW m \in Minutes, m \in CronOf[w]
    PROVE  Fires(w, m)
<1>1. m \in Nat \ {0} /\ m - 1 \in 0..(Horizon \div MinuteLen)
    <2>1. Horizon \div MinuteLen \in Nat
        OBVIOUS
    <2> QED
        BY <2>1 DEF Minutes
<1>2. m > m - 1
    BY <1>1
<1> QED
    BY <1>1, <1>2, NextOfIsLeast DEF Fires

\* A number that lies between two minutes is a minute.
LEMMA Between ==
    ASSUME NEW k \in Nat, NEW m \in Nat, NEW n \in Minutes, k < m, m < n
    PROVE  m \in Minutes
BY DEF Minutes

\* When the ticker is created no minute between then and the last decision is left.
LEMMA TickerServed ==
    ASSUME DecidedInv, DecidedInv', minute' = minute, born' = clock
    PROVE  NeverTwoMissed'
<1> SUFFICES ASSUME minute # None, NEW w \in Workflows, NEW m \in CronOf[w], NEW n \in CronOf[w],
                    MinuteOf(clock) < m, n = m + 1, n < minute
             PROVE  FALSE
    BY DEF NeverTwoMissed, DecidedInv, TimingInv, Typed, TypeOK, MinuteOf
<1>1. clock \in Nat /\ minute \in Nat /\ minute * MinuteLen <= clock
    BY MinutesAreNat DEF DecidedInv, TimingInv, Typed, TypeOK, Decided
<1>2. MinuteOf(clock) \in Nat /\ clock < MinuteOf(clock) * MinuteLen + MinuteLen
    BY <1>1, MinuteFacts
<1>3. minute * MinuteLen \in Nat /\ MinuteOf(clock) * MinuteLen \in Nat
    BY <1>1, <1>2, Times
<1>4. minute * MinuteLen < MinuteOf(clock) * MinuteLen + MinuteLen
    BY <1>1, <1>2, <1>3
<1>5. minute <= MinuteOf(clock)
    BY <1>1, <1>2, <1>4, Times
<1>6. m \in Nat /\ n \in Nat
    BY CronAssumption
<1> QED
    BY <1>1, <1>2, <1>5, <1>6

\* A step that decides and creates nothing, and owes no steady workflow less.
LEMMA SameServed ==
    ASSUME ServedInv, DecidedInv', UNCHANGED <<fired, minute, failed>>,
           steady' \subseteq steady, steady' \subseteq active',
           pc' = "decide" => steady' \subseteq todo',
           pc = "trigger" => \A w \in steady' \cap todo : pc' = "trigger" /\ w \in todo',
           ticker' = ticker \/ minute # None \/ ticker' = None,
           born' = born \/ born' = clock
    PROVE  ServedInv'
<1>1. Served'
    BY DEF ServedInv, Served
<1>2. NeverTwoMissed'
    <2>1. CASE born' = clock
        BY <2>1, TickerServed DEF ServedInv
    <2>2. CASE born' = born
        BY <2>2 DEF ServedInv, NeverTwoMissed, MinuteOf
    <2> QED
        BY <2>1, <2>2
<1> QED
    BY <1>1, <1>2 DEF ServedInv

\* The first check of the ticker decides two minutes after the ticker was created at most.
LEMMA FirstOfTicker ==
    ASSUME DecidedInv, Quick, Decide, minute # None, failed = 0, checks = 1
    PROVE  minute' <= MinuteOf(born) + 2
<1> DEFINE b == MinuteOf(born)
<1>1. /\ born \in Nat /\ clock \in Nat /\ clock < born + checks * MinuteLen + MinuteLen
    BY AtDecision DEF Decide
<1>2. clock < born + MinuteLen + MinuteLen
    BY <1>1
<1>3. b \in Nat /\ born < b * MinuteLen + MinuteLen /\ b * MinuteLen \in Nat
    BY <1>1, MinuteFacts, Times
<1>4. minute' \in Nat /\ minute' * MinuteLen <= clock /\ minute' * MinuteLen \in Nat
    BY <1>1, MinuteFacts, Times DEF Decide
<1> HIDE DEF b
<1>5. (b + 2) * MinuteLen = b * MinuteLen + MinuteLen + MinuteLen
    BY <1>3
<1>6. minute' * MinuteLen < (b + 2) * MinuteLen + MinuteLen
    <2>1. PICK x \in Nat, y \in Nat : x = b * MinuteLen /\ y = minute' * MinuteLen
        BY <1>3, <1>4
    <2>2. y < x + MinuteLen + MinuteLen + MinuteLen
        <3>1. y <= clock /\ born < x + MinuteLen
            BY <1>3, <1>4, <2>1
        <3>2. born \in Nat /\ clock \in Nat
            BY <1>1
        <3> QED
            BY <1>2, <3>1, <3>2
    <2> QED
        BY <1>5, <2>1, <2>2
<1>7. b + 2 \in Nat
    BY <1>3
<1> QED
    BY <1>4, <1>6, <1>7, Times DEF b

\* A decision: the minutes it leaves behind are none, or come after one that was served.
LEMMA DecideServed ==
    ASSUME ServedInv, DecidedInv', Quick, Decide
    PROVE  ServedInv'
<1>1. /\ pc = "decide" /\ UNCHANGED <<fired, steady, active, clock>> /\ failed' = 0
      /\ todo' = {w \in todo : Fires(w, minute')} /\ pc' \in {"wait", "trigger"}
      /\ todo' # {} => pc' = "trigger"
    BY DEF Decide, EndCheck
<1>2. minute' \in Minutes /\ minute' # None /\ minute' \in Nat
    BY <1>1, MinuteFacts, MinutesAreNat DEF Decide, ServedInv, DecidedInv, TimingInv, Typed, TypeOK
<1>3. steady \subseteq Workflows /\ steady \subseteq todo
    BY <1>1 DEF ServedInv, Served, DecidedInv, TimingInv, Typed, TypeOK
<1>4. Served'
    <2>1. ASSUME NEW w \in steady \cap Parsed, minute' \in CronOf[w]
          PROVE  pc' = "trigger" /\ w \in todo'
        <3>1. Fires(w, minute')
            BY <1>2, <1>3, <2>1, NamedFires
        <3> QED
            BY <1>1, <1>3, <3>1
    <2> QED
        BY <1>1, <1>2, <2>1 DEF ServedInv, Served
<1>5. NeverTwoMissed'
    <2>1. CASE minute = None
        <3> SUFFICES ASSUME steady # {} PROVE NeverTwoMissed'
            BY <1>1 DEF NeverTwoMissed
        <3>1. ticker = None /\ born = None
            BY <2>1 DEF ServedInv, Served, DecidedInv, TimingInv, Timing
        <3>2. born' = None \/ (born' = clock /\ minute' = MinuteOf(clock))
            BY <3>1 DEF Decide, EndCheck
        <3> SUFFICES ASSUME NEW w \in steady, NEW m \in CronOf[w], NEW n \in CronOf[w],
                            MinuteOf(clock) < m, n = m + 1, n < minute', minute' = MinuteOf(clock)
                     PROVE  FALSE
            BY <1>1, <3>2 DEF NeverTwoMissed, MinuteOf
        <3>3. m \in Nat /\ n \in Nat
            BY <1>3, CronAssumption
        <3> QED
            BY <1>2, <3>3
    <2>2. CASE minute # None
        <3> SUFFICES ASSUME NEW w \in steady \cap Parsed, NEW m \in CronOf[w], NEW n \in CronOf[w],
                            born' # None, MinuteOf(born') < m, n = m + 1, n < minute'
                     PROVE  fired[w][m] + fired[w][n] > 0
            BY <1>1 DEF NeverTwoMissed, MinuteOf
        <3>1. /\ minute \in Nat /\ failed = 0 /\ checks \in Nat /\ checks # 0 /\ born \in Nat
              /\ ticker # None
            <4>1. failed = 0
                BY DEF ServedInv, Served
            <4> QED
                BY <1>1, <2>2, <4>1, AtDecision DEF ServedInv
        <3>2. born' = born /\ ticker' = ticker
            BY <3>1 DEF Decide, EndCheck
        <3>3. MinuteOf(born) \in Nat
            BY <3>1, MinuteFacts
        <3>4. m \in Nat /\ n \in Nat /\ w \in Workflows
            BY <1>3, CronAssumption
        <3>5. m \in Minutes /\ n \in Minutes
            BY <1>2, <3>2, <3>3, <3>4, Between
        <3>6. fired[w][m] \in Nat /\ fired[w][n] \in Nat
            BY <3>4, <3>5 DEF ServedInv, DecidedInv, TimingInv, Typed, TypeOK
        <3>7. minute \in CronOf[w] => fired[w][minute] > 0
            BY <1>1, <2>2 DEF ServedInv, Served
        <3>8. minute' <= minute + 2
            <4>1. CASE checks = 1
                <5>1. minute' <= MinuteOf(born) + 2
                    BY <2>2, <3>1, <4>1, FirstOfTicker DEF ServedInv
                <5> QED
                    BY <1>2, <3>2, <3>3, <3>4, <5>1
            <4>2. CASE checks # 1
                BY <2>2, <3>1, <4>2, NextDecision DEF ServedInv
            <4> QED
                BY <4>1, <4>2
        <3>9. CASE n < minute
            BY <2>2, <3>2, <3>9 DEF ServedInv, NeverTwoMissed, MinuteOf
        <3>10. CASE ~ (n < minute)
            <4>1. n = minute \/ m = minute
                BY <1>2, <3>1, <3>4, <3>8, <3>10
            <4> QED
                BY <3>6, <3>7, <4>1
        <3> QED
            BY <3>9, <3>10
    <2> QED
        BY <2>1, <2>2
<1> QED
    BY <1>4, <1>5 DEF ServedInv

\* A trigger pays what was owed to its workflow.
LEMMA TriggerServed ==
    ASSUME ServedInv, DecidedInv', NEW w \in Workflows, Trigger(w)
    PROVE  ServedInv'
<1>1. /\ pc = "trigger" /\ w \in todo /\ todo' = todo \ {w} /\ pc' \in {"trigger", "wait"}
      /\ todo' # {} => pc' = "trigger"
      /\ UNCHANGED <<minute, failed, steady, active>>
      /\ fired' = [fired EXCEPT ![w][minute] = @ + 1]
    BY DEF Trigger, Done, EndCheck
<1>2. /\ fired \in [Workflows -> [Minutes -> Nat]] /\ minute \in Minutes /\ minute # None
      /\ minute \in Nat /\ steady \subseteq Workflows
    BY <1>1, MinutesAreNat DEF ServedInv, DecidedInv, TimingInv, Typed, TypeOK
<1>3. \A v \in Workflows, m \in Minutes :
        /\ fired[v][m] \in Nat
        /\ fired'[v][m] = IF v = w /\ m = minute THEN fired[v][m] + 1 ELSE fired[v][m]
    BY <1>1, <1>2
<1>4. Served'
    <2>1. ASSUME NEW v \in steady \cap Parsed, minute \in CronOf[v]
          PROVE  fired'[v][minute] > 0 \/ (pc' = "trigger" /\ v \in todo')
        <3>1. fired[v][minute] > 0 \/ v \in todo
            BY <1>2, <2>1 DEF ServedInv, Served
        <3>2. v \in Workflows
            BY <1>2
        <3>3. CASE v = w
            BY <1>2, <1>3, <3>3
        <3>4. CASE v # w
            BY <1>1, <1>2, <1>3, <3>1, <3>2, <3>4
        <3> QED
            BY <3>3, <3>4
    <2> QED
        BY <1>1, <1>2, <2>1 DEF ServedInv, Served
<1>5. NeverTwoMissed'
    <2>1. born' = born \/ born' = clock
        BY DEF Trigger, Done, EndCheck
    <2>2. CASE born' = clock
        BY <1>1, <2>2, TickerServed DEF ServedInv
    <2>3. CASE born' = born
        <3> SUFFICES ASSUME NEW v \in steady \cap Parsed, NEW m \in CronOf[v], NEW n \in CronOf[v],
                            born # None, MinuteOf(born) < m, n = m + 1, n < minute
                     PROVE  fired'[v][m] + fired'[v][n] > 0
            BY <1>1, <2>3 DEF NeverTwoMissed, MinuteOf
        <3>1. fired[v][m] + fired[v][n] > 0
            BY <1>2 DEF ServedInv, NeverTwoMissed
        <3>2. v \in Workflows /\ m \in Nat /\ n \in Nat /\ MinuteOf(born) \in Nat
            BY <1>2, CronAssumption, MinuteFacts DEF ServedInv, DecidedInv, TimingInv, Typed, TypeOK
        <3>3. m < n /\ m < minute
            BY <1>2, <3>2
        <3>4. m \in Minutes /\ n \in Minutes
            BY <1>2, <3>2, <3>3, Between
        <3>5. fired'[v][m] >= fired[v][m] /\ fired'[v][n] >= fired[v][n]
              /\ fired[v][m] \in Nat /\ fired[v][n] \in Nat
              /\ fired'[v][m] \in Nat /\ fired'[v][n] \in Nat
            BY <1>3, <3>2, <3>4
        <3> QED
            BY <3>1, <3>5
    <2> QED
        BY <2>1, <2>2, <2>3
<1> QED
    BY <1>4, <1>5 DEF ServedInv

\* Every step keeps what the steady workflows have got and are owed.
LEMMA NextServed ==
    ASSUME Quick
    PROVE  ServedInv /\ [Next]_vars => ServedInv'
<1> SUFFICES ASSUME ServedInv, [Next]_vars PROVE ServedInv'
    OBVIOUS
<1>1. DecidedInv /\ DecidedInv'
    BY NextDecided DEF ServedInv
<1>2. steady \subseteq active
    BY DEF ServedInv, Served
<1>3. CASE Start
    BY <1>1, <1>2, <1>3, SameServed DEF Start, history
<1>4. CASE Query
    BY <1>1, <1>2, <1>4, SameServed DEF Query, history
<1>5. CASE QueryFails \/ Crash
    <2>1. steady' = {} /\ ((pc' = "wait" /\ minute' = minute) \/ minute' = None)
        BY <1>5 DEF QueryFails, Crash, EndCheck
    <2> QED
        BY <1>1, <2>1 DEF ServedInv, Served, NeverTwoMissed
<1>6. CASE Decide
    BY <1>1, <1>6, DecideServed
<1>7. CASE \E w \in Workflows : Trigger(w)
    BY <1>1, <1>7, TriggerServed
<1>8. CASE \E w \in Workflows : TriggerFails(w)
    <2> PICK w \in Workflows : TriggerFails(w)
        BY <1>8
    <2>1. /\ pc = "trigger" /\ todo' = todo \ {w} /\ pc' \in {"trigger", "wait"}
          /\ todo' # {} => pc' = "trigger"
          /\ steady' = steady \ {w} /\ UNCHANGED <<fired, minute, failed, active>>
          /\ born' = born \/ born' = clock
        BY DEF TriggerFails, Done, EndCheck
    <2>2. minute # None
        BY <1>1, <2>1 DEF DecidedInv, TimingInv, Typed
    <2> QED
        BY <1>1, <1>2, <2>1, <2>2, SameServed
<1>9. CASE Wake
    BY <1>1, <1>2, <1>9, SameServed DEF Wake
<1>10. CASE Tick
    <2>1. UNCHANGED <<pc, todo, active, fired, minute, failed, born, steady>>
        BY <1>10 DEF Tick, history
    <2>2. ticker = None => ticker' = None
        BY <1>1, <1>10 DEF Tick, DecidedInv, TimingInv, Typed, TypeOK
    <2>3. minute = None /\ steady # {} => ticker = None
        BY DEF ServedInv, Served
    <2> QED
        BY <2>1, <2>2, <2>3, <1>1 DEF ServedInv, Served, NeverTwoMissed, MinuteOf
<1>11. CASE (\E w \in Workflows : Edit(w)) \/ UNCHANGED vars
    <2>1. /\ UNCHANGED <<pc, todo, fired, minute, failed, ticker, born>>
          /\ steady' \subseteq steady /\ steady' \subseteq active'
        BY <1>2, <1>11 DEF Edit, vars
    <2>2. pc = "decide" => steady \subseteq todo
        BY DEF ServedInv, Served
    <2> QED
        BY <1>1, <2>1, <2>2, SameServed
<1> QED
    BY <1>3, <1>4, <1>5, <1>6, <1>7, <1>8, <1>9, <1>10, <1>11 DEF Next

\* A workflow that stays active and meets no failure gets one execution at least out of two
\* minutes in a row that its expression names (NeverTwoMissed).
THEOREM SomeMinuteServed == ASSUME Quick PROVE Spec => []NeverTwoMissed
<1>1. Init => ServedInv
    BY InitDecided DEF Init, ServedInv, Served, NeverTwoMissed
<1>2. ServedInv => NeverTwoMissed
    BY DEF ServedInv
<1> QED
    BY <1>1, <1>2, NextServed, PTL DEF Spec
=============================================================================
