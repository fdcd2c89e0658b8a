SPECIFICATION Spec
CONSTANTS
    a = a
    b = b
    c = c
    d = d
    s1 = s1
    s2 = s2
    s3 = s3
    Threads = {t1, t2, t3}
    Sources = {s1, s2, s3}
    Entries = {a, b, c, d}
    NodesOf <- MCNodesOf
    MaxSyncsPerNode = 1
    None = None
CHECK_DEADLOCK FALSE
SYMMETRY Symmetry
INVARIANTS TypeOK LimitIsKept QueueIsEmptied AllSynchronized
