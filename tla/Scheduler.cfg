CONSTANTS
    None = None
    w1 = w1
    w2 = w2
    Workflows = {w1, w2}
    Parsed = {w1, w2}
    MinuteLen = 4
    Horizon = 23
    MaxBusy = 3
    MaxRestarts = 1
    CronOf <- Often

SPECIFICATION Spec
INVARIANT TypeOK
INVARIANT FiredWhenDue
INVARIANT TicksKept
INVARIANT NeverThrice
INVARIANT NeverTwoMissed
PROPERTY NoLongGap
