-------------------------- MODULE MCWorkflowCache ---------------------------
\* Small instances of WorkflowCache: a user, a token without a subject, an administrator
\* and a token that does not verify, and two requests at a time.
EXTENDS WorkflowCache

CONSTANTS alice, root, empty, q1, q2

Token(valid, sub, admin) == [valid |-> valid, sub |-> sub, admin |-> admin]
Presented ==
    {Token(TRUE, alice, FALSE), Token(TRUE, empty, FALSE), Token(TRUE, root, TRUE),
     Token(FALSE, alice, FALSE)}
=============================================================================
