\* Overlapping sends between two processes, two tags and the wildcards.
CONSTANTS
    p1 = p1  p2 = p2 
    s1 = s1  s2 = s2
    r1 = r1  r2 = r2
    t1 = t1  t2 = t2
    c1 = c1
    None = None
    FMI_ANY_SOURCE = FMI_ANY_SOURCE
    FMI_ANY_TAG = FMI_ANY_TAG
    Proc = {p1, p2}
    Traffic <- AllPairs
    Send = {s1, s2}
    Recv = {r1, r2}
    Tag = {t1, t2}
    Comm = {c1}
    Opcode = {"EAGER", "RDMA_READ"}
    Op = {1}
    SerialSends = FALSE
    MaxBreaks = 0
SYMMETRY OpSymmetry
SPECIFICATION Spec
CHECK_DEADLOCK FALSE
INVARIANTS TypeOK NoLostMatch NotOvertaken FinFindsRequest
