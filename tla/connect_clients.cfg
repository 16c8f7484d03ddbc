\* Two clients and two servers; a connection may be lost.
CONSTANTS
    a = a  b = b  s = s  t = t
    a1 = a1  a2 = a2  a3 = a3  b1 = b1
    None = None
    Proc = {a, b, s, t}
    Listener = {s}
    Call = {a1, a2, b1}
    Caller <- ClientsCaller
    CallRank <- ClientsRank
    CallHost <- ClientsHost
    fdmi_size = 3
    PendingRecvs = 2
    MaxBreaks = 1
SPECIFICATION Spec
CHECK_DEADLOCK FALSE
INVARIANTS TypeOK LockIsFree SourceNamesClient ConnectedIsUsable RankNamesHost DisconnectedNamesLost
