CONSTANTS
    None = None
    w1 = w1
    w2 = w2
    Workflows = {w1, w2}
    Parsed = {w1}
    MinuteLen = 4
    Horizon = 23
    MaxBusy = 3
    MaxRestarts = 1
    CronOf <- Never

SPECIFICATION Spec
INVARIANT FiredWhenDue
