CONSTANTS
    e1 = e1
    e2 = e2
    f1 = f1
    w1 = w1
    w2 = w2
    r1 = r1
    r2 = r2
    NoExec = NoExec
    NoRun = NoRun
    Executions = {e1, e2}
    Scheduled = {e2}
    Workflows = {f1}
    WorkflowOf <- OneWorkflow
    Owned = {}
    Workers = {w1, w2}
    Runs = {r1, r2}
    MaxRetries = 1
    MaxOutages = 1
    Faults = {"connection", "gateway", "engine"}

SPECIFICATION FairSpec

PROPERTY Settles
CHECK_DEADLOCK FALSE
