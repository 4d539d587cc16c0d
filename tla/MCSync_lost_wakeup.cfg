\* Signals break the sleep of one of the processes waiting for an event.
SPECIFICATION Spec
CONSTANTS
    p1 = p1
    p2 = p2
    p3 = p3
    l1 = l1
    l2 = l2
    s1 = s1
    e1 = e1
    e2 = e2
    b0 = b0
    b1 = b1
    Proc = {p1, p2, p3}
    Lock = {}
    Sema = {}
    Event = {e1}
    Bucket = {b0}
    PHASH <- MCPHASHOne
    CallPri <- MCCallPri
    Rank <- MCRank
    SemaCount <- MCSemaCount
    MaxPri = 2
    PUSER = 1
    PLIMIT = 2
    Signals = {"CATCH"}
    NHIST = 2
    PREEMPT = FALSE
    NOVOID = NOVOID
    Idle = Idle
    Killers = {}
    CLOCK = TRUE
INVARIANT
    EventWakesAll
CHECK_DEADLOCK FALSE
