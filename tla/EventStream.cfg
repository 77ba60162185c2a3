CONSTANTS
    e1 = e1
    e2 = e2
    f1 = f1
    r1 = r1
    r2 = r2
    c1 = c1
    NoExec = NoExec
    Executions = {e1}
    Workflows = {f1}
    WorkflowOf <- OneWorkflow
    Owned = {}
    Runs = {r1, r2}
    Clients = {c1}
    NumSteps = 2
    AiSteps = {1}
    MaxRuns = 2
    Faults = {"publish", "query", "engine"}

SPECIFICATION Spec
INVARIANT TypeOK
INVARIANT LogsExplainStatus
INVARIANT FinishedIsStored
INVARIANT StepIsLogged
INVARIANT EventsFollow
INVARIANT EndHasCause
PROPERTY ImplementsEngine
PROPERTY StreamEnds
CHECK_DEADLOCK FALSE
