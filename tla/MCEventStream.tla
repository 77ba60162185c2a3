--------------------------- MODULE MCEventStream ----------------------------
\* Small instances of EventStream: executions of one workflow.
EXTENDS EventStream

CONSTANTS e1, e2, f1, r1, r2, c1

OneWorkflow == [e \in Executions |-> f1]
=============================================================================
