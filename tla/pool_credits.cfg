\* A process with two connections that answers one peer while it hears from
\* the other.
CONSTANTS
    t1 = t1
    s1 = s1
    r1 = r1  r2 = r2
    None = None
    FMI_ANY_TAG = FMI_ANY_TAG
    NumConn = 2
    Tag = {t1}
    SendCall = {s1}
    RecvCall = {r1, r2}
    PendingRecvs = 1
    MaxQueries = 8
    MaxArrivals = 2
SPECIFICATION FairSpec
CHECK_DEADLOCK FALSE
PROPERTIES RecvsComplete
