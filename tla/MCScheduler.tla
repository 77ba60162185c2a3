---------------------------- MODULE MCScheduler -----------------------------
\* Small instances of Scheduler: minutes 1, 2, ... of MinuteLen ticks.
EXTENDS Scheduler

CONSTANTS w1, w2

\* Every other minute and every minute, and one after the end of the model.
Minute == 1..(MinuteOf(Horizon) + 2)
Often == [w \in Workflows |-> IF w = w1 THEN {n \in Minute : n % 2 = 0} ELSE Minute]

\* What the expression of 30 February names.
Never == [w \in Workflows |-> {}]
=============================================================================
