\* Two users, a umount and the periodic update; four blocks, three buffers; one block
\* is read with errors.
SPECIFICATION Spec
CONSTANTS
    u1 = u1
    u2 = u2
    v1 = v1
    v2 = v2
    um = um
    sw = sw
    x1 = x1
    x2 = x2
    x3 = x3
    a1 = a1
    a2 = a2
    b1 = b1
    b2 = b2
    A = A
    B = B
    User = {u1, u2, v1, v2}
    Umounter = {um}
    Swapper = {sw}
    Buf <- MCBuf3
    Block = {a1, a2, b1, b2}
    Dev <- MCDev
    RootDev = {A}
    Bucket <- MCBucket
    Work <- MCWorkAll
    Company = {{u1, u2}, {v1, v2, um, sw}}
    FailBlock = {b2}
    MINFREE = 2
    MaxWrites = 1
    NULL = NULL
SYMMETRY MCSymmetry
INVARIANTS
    TypeOK
    ReadsLatest
    HashExact
    DirtyCountExact
    OneTransfer
    NothingLost
