\* Three processes, preemption in the kernel, sleeps on both sides of PLIMIT.
SPECIFICATION FairSpec
CONSTANTS
    p1 = p1
    p2 = p2
    p3 = p3
    Proc = {p1, p2, p3}
    MINPRI <- MCMinPri
    MAXPRI = 2
    PUSER = 1
    PLIMIT = 2
    SleepPri <- MCSleepPri
    Signals = {"KILL"}
    PREEMPT = TRUE
    NOUPROC = NOUPROC
INVARIANTS
    TypeOK
    ReadyListExact
PROPERTY
    ComputingIsShared
CHECK_DEADLOCK FALSE
