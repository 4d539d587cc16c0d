------------------------------- MODULE Files --------------------------------
(***************************************************************************)
(* Inodes and locks of regions together: users open and close files while  *)
(* the swapper updates and umount goes on, and processes lock regions of a *)
(* file that they keep open.  The lists of regions depend on an inode only *)
(* by its lock.                                                            *)
(***************************************************************************)
EXTENDS RecordLock

CONSTANT Companies      \* which processes there are, and the calls of the lockers

ASSUME CompaniesAssumption ==
    \A company \in Companies :
        /\ company.who \subseteq Proc
        /\ company.calls \subseteq [mode : Mode, begin : 0 .. MAXSZ, end : 0 .. MAXSZ]
        /\ \A call \in company.calls : call.begin < call.end

vars == <<inodeVars, lockfVars>>

Init == \E company \in Companies : inodeinit(company.who) /\ lfinit(company.calls)

Next ==
    \/ \E p \in Proc \ Locker : UseInode(p) /\ UNCHANGED lockfVars
    \/ \E p \in Locker : UseRegion(p)

Spec == Init /\ [][Next]_vars

-----------------------------------------------------------------------------
(* Properties *)

Label == {"absent", "user", "again", "found", "read", "locked", "iput", "iputend", "iputfree",
          "visit", "visited", "test", "undir", "unlink", "undev", "iumerase", "done",
          "call", "lockf", "waiting", "transfer"}

\* Types.
TypeOK ==
    /\ inode \in [Entry -> [dev : Device \cup {NULL}, ino : Ino \cup {NULL}, count : Nat,
                            sb : Device \cup {NULL}, mode : BOOLEAN, nlink : BOOLEAN,
                            chg : BOOLEAN, mount : BOOLEAN]]
    /\ lock \in [Entry -> Seq(Proc)]
    /\ lru \in Seq(Entry) /\ Len(lru) = NINODE /\ IsInjective(lru)
    /\ hash \subseteq Entry
    /\ sb \in [Device -> [mounted : BOOLEAN, mcount : Nat, mbusy : BOOLEAN]]
    /\ updlock \in Proc \cup {NULL} /\ cpu \in Proc \cup {NULL}
    /\ \A p \in Proc : proc[p].pc \in Label /\ proc[p].e \in Entry \cup {NULL}
    /\ i_lockf \in [Entry -> Seq([id : LockEntry, uproc : Locker, begin : 0 .. MAXSZ, end : 0 .. MAXSZ])]
    /\ lffreelist \subseteq LockEntry /\ k_free \subseteq LockEntry
    /\ u_sema \in [Locker -> LockEntry \cup {NULL}]
    /\ ask \in [Locker -> calls \cup {Nothing}]

\* The bytes of the file that Lockers have open.
Offset == 0 .. MAXSZ - 1
FileList == i_lockf[3]

\* The owner of each byte, and the processes in a transfer.
ByteOwner ==
    [b \in Offset |->
        LET has == { k \in ToSet(FileList) : k.begin <= b /\ b < k.end }
        IN IF has = {} THEN NULL ELSE (CHOOSE k \in has : TRUE).uproc]

Moving == { p \in Locker : proc[p].pc = "transfer" }

Regions == INSTANCE Regions WITH Proc <- Locker, owner <- ByteOwner, asked <- ask, moving <- Moving

\* lockf.c: the lists of regions implement the owners of the bytes: each lock, unlock, close and
\* transfer does what Regions says, in one step and for the bytes asked for.
ImplementsRegions == Regions!Spec
=============================================================================
