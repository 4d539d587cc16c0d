\* INIT and two more entries of the table with a pipe of two bytes; or three more, and no pipe.
SPECIFICATION Spec
CONSTANTS
    NPROC = 4
    Sizes <- MCSizes
    PIPESZ = 2
    b1 = b1
    b2 = b2
    Byte <- MCByte
    NDELAYS <- MCNDelays
    MaxCount = 2
    SUPER = TRUE
    MaxLost = 1
    NULL = NULL
SYMMETRY MCSymmetry
INVARIANTS
    TypeOK
    FamilyExact
    EntriesExact
    NoZombieForgotten
    FileCountExact
    NoLostWakeup
PROPERTY
    ImplementsChannel
CHECK_DEADLOCK FALSE
