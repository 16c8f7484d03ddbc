\* A process with one connection, as every client: who holds a query, and its
\* receive credits.
CONSTANTS
    t1 = t1
    s1 = s1
    r1 = r1  r2 = r2
    None = None
    FMI_ANY_TAG = FMI_ANY_TAG
    NumConn = 1
    Tag = {t1}
    SendCall = {s1}
    RecvCall = {r1, r2}
    PendingRecvs = 1
    MaxQueries = 10
    MaxArrivals = 2
SPECIFICATION FairSpec
CHECK_DEADLOCK FALSE
INVARIANTS TypeOK OneOwner PostedIsRegistered CreditsKept
PROPERTIES RecvsComplete
