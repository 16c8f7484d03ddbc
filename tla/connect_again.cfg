\* Two clients of one server, one of them calls twice.
CONSTANTS
    a = a  b = b  s = s  t = t
    a1 = a1  a2 = a2  a3 = a3  b1 = b1
    None = None
    Proc = {a, b, s}
    Listener = {s}
    Call = {a1, a3, b1}
    Caller <- ClientsCaller
    CallRank <- ClientsRank
    CallHost <- ClientsHost
    fdmi_size = 3
    PendingRecvs = 1
    MaxBreaks = 0
SPECIFICATION FairSpec
CHECK_DEADLOCK FALSE
PROPERTIES ConnectReturns CallerIsHeard
