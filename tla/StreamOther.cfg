CONSTANTS
    e1 = e1
    e2 = e2
    f1 = f1
    r1 = r1
    r2 = r2
    c1 = c1
    NoExec = NoExec
    Executions = {e1, e2}
    Workflows = {f1}
    WorkflowOf <- OneWorkflow
    Owned = {}
    Runs = {r1, r2}
    Clients = {c1}
    NumSteps = 2
    AiSteps = {}
    MaxRuns = 1
    Faults = {}

SPECIFICATION Spec
CHECK_DEADLOCK FALSE
INVARIANT EndedByOwnExecution
