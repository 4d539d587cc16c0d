\* Two users, the swapper and umount over four entries, two of them kept by the mount; or two
\* or three processes that lock regions of a file of three bytes with a table of three entries;
\* or a user, the swapper and umount beside a process that locks a region of the file.
SPECIFICATION Spec
CONSTANTS
    u1 = u1
    u2 = u2
    sw = sw
    um = um
    l1 = l1
    l2 = l2
    l3 = l3
    R = R
    D = D
    root = root
    dir = dir
    dev = dev
    f = f
    g = g
    User = {u1, u2}
    Swapper = {sw}
    Umounter = {um}
    Locker = {l1, l2, l3}
    Companies <- MCCompanies
    NLOCKF = 3
    MAXSZ = 3
    NINODE = 4
    Root = R
    Mounted = D
    RootIno = root
    DirIno = dir
    DevIno = dev
    Opens <- MCOpens
    LockedFile <- MCLockedFile
    FailIno = {f}
    NULL = NULL
SYMMETRY MCSymmetry
INVARIANTS
    TypeOK
    CountsExact
    OneEntry
    ChangedInUse
    UmountSafe
    RegionsExact
    SleepsOnConflict
    NoCircularWait
PROPERTY
    ImplementsRegions
