CONSTANTS
    alice = alice
    root = root
    empty = empty
    q1 = q1
    q2 = q2
    Subjects = {alice, root, empty}
    Empty = empty
    Null = Null
    Tokens <- Presented
    Requests = {q1, q2}
    MaxVersion = 3
    CacheFaults = FALSE

SPECIFICATION Spec
INVARIANT UpdateIsSeen
