\* A user, a umount and the periodic update.
SPECIFICATION Spec
CONSTANTS
    u1 = u1
    u2 = u2
    v1 = v1
    v2 = v2
    um = um
    sw = sw
    x1 = x1
    x2 = x2
    x3 = x3
    a1 = a1
    a2 = a2
    b1 = b1
    b2 = b2
    A = A
    B = B
    User = {u1}
    Umounter = {um}
    Swapper = {sw}
    Buf <- MCBuf3
    Block = {a1, b1, b2}
    Dev <- MCDev
    RootDev = {A}
    Bucket <- MCBucket
    Work <- MCWorkModify
    Company = {{u1, um, sw}}
    FailBlock = {}
    MINFREE = 1
    MaxWrites = 1
    NULL = NULL
PROPERTY
    UmountSaves
CHECK_DEADLOCK FALSE
