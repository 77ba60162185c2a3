CONSTANTS
    e1 = e1
    e2 = e2
    f1 = f1
    w1 = w1
    w2 = w2
    r1 = r1
    r2 = r2
    NoExec = NoExec
    NoRun = NoRun
    Executions = {e1}
    Scheduled = {}
    Workflows = {f1}
    WorkflowOf <- OneWorkflow
    Owned = {}
    Workers = {w1, w2}
    Runs = {r1, r2}
    MaxRetries = 1
    MaxOutages = 1
    Faults = {"query", "write", "rpc", "publish", "connection", "gateway", "engine", "scheduler"}

SPECIFICATION Spec

PROPERTY TerminalIsFinal
CHECK_DEADLOCK FALSE
