\* One list, used as a queue, by adds and lookups without a lock, and by two
\* threads that register buffers.
CONSTANTS
    Node = {n1, n2, n3}
    NULL = NULL
    Data <- MCData
    Key = {k1, k2}
    Val = {1, 2}
    Uses = {"queue", "itop", "mr"}
    Walkers = {event, cq}
    Thread = {application, poller}
    MaxTry = 1
SPECIFICATION TablesSpec
CHECK_DEADLOCK FALSE
INVARIANTS ListInOrder GetFinds MrCacheOK
PROPERTY ActsAsList
