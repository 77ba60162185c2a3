CONSTANTS
    e1 = e1
    f1 = f1
    r1 = r1
    r2 = r2
    NoExec = NoExec
    Executions = {e1}
    Workflows = {f1}
    WorkflowOf <- OneWorkflow
    Owned = {}
    Runs = {r1, r2}
    NumSteps = 2
    MaxRuns = 2
    Faults = {"query", "engine"}
    Texts = {"5", "5.0", "x"}
    NumberOf <- Numbers
    Plans <- Pairs

SPECIFICATION Spec
SYMMETRY Symmetry
INVARIANT TypeOK
INVARIANT RowsChain
 
CHECK_DEADLOCK FALSE
