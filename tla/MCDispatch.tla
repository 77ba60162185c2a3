----------------------------- MODULE MCDispatch -----------------------------
\* Small instances of Dispatch.
EXTENDS DispatchInv, TLC

CONSTANTS e1, e2, f1, w1, w2, r1, r2

\* Both executions belong to one workflow.
OneWorkflow == [e \in Executions |-> f1]

NoFaults == {}

\* Workers and runs are interchangeable.
Symmetry == Permutations(Workers) \cup Permutations(Runs)
=============================================================================
