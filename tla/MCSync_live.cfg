\* A lock and an event under the fairness of the scheduler, no signals.
SPECIFICATION FairSpec
CONSTANTS
    p1 = p1
    p2 = p2
    p3 = p3
    l1 = l1
    l2 = l2
    s1 = s1
    e1 = e1
    e2 = e2
    b0 = b0
    b1 = b1
    Proc = {p1, p2, p3}
    Lock = {l1}
    Sema = {}
    Event = {e2}
    Bucket = {b0}
    PHASH <- MCPHASHOne
    CallPri <- MCAllHigh
    Rank <- MCRank
    SemaCount <- MCSemaCount
    MaxPri = 2
    PUSER = 1
    PLIMIT = 2
    Signals = {}
    NHIST = 2
    PREEMPT = FALSE
    NOVOID = NOVOID
    Idle = Idle
    Killers = {}
    CLOCK = TRUE
INVARIANT
    EventWakesAll

    
    
CHECK_DEADLOCK FALSE
