------------------------------- MODULE MCSync -------------------------------
(* Small instances of Sync for TLC. *)
EXTENDS Sync

CONSTANTS p1, p2, p3, l1, l2, s1, e1, e2, b0, b1

MCPHASHOne == [o \in Obj \cup {NOVOID} |-> b0]
MCPHASHTwo == [o \in Obj \cup {NOVOID} |-> IF o \in {l2, e2} THEN b1 ELSE b0]

\* l1, s1 and e1 are slept for at interruptible priorities, l2 and e2 are not.
MCCallPri == [o \in Obj |-> IF o \in {l1, s1, e1} THEN PUSER ELSE PLIMIT]
MCAllHigh == [o \in Obj |-> PLIMIT]

\* l2 may be taken while l1 or s1 is held, and e2 waited for.
MCRank == [o \in Obj |-> IF o \in {l2, e2} THEN 2 ELSE 1]
MCSemaCount == [o \in Sema |-> 1]

MCSymmetry == Permutations(Proc)
=============================================================================
