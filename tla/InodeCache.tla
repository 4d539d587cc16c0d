----------------------------- MODULE InodeCache -----------------------------
(***************************************************************************)
(* The table of inodes in memory (fio/inode.c): iget, iput, iinc and       *)
(* iumerase, with the update of the inodes (sys/sysfio.c) and umount       *)
(* (sys/systree.c).  As in BlockCache, processes are not preempted in the  *)
(* kernel, an action is a stretch of code, and "cpu" keeps the processor   *)
(* until it may sleep.  A sleep lock is the sequence of its owner and      *)
(* waiters, as promised by module Handoff.  Lockers, which lock regions of *)
(* a file, are in module RecordLock.                                       *)
(***************************************************************************)
EXTENDS Integers, Sequences, FiniteSets, SequencesExt, FiniteSetsExt

CONSTANTS
    User,           \* processes that open and close files
    Swapper,        \* processes that call update (NODEV)
    Umounter,       \* processes in umount of Mounted
    Locker,         \* processes that have the same file open all the time
    NINODE,         \* entries of the table
    Root, Mounted,  \* the devices
    RootIno,        \* the inode of the root of Mounted
    DirIno, DevIno, \* inodes of Root: where Mounted is mounted, and its device file
    Opens,          \* the inodes that users open, as <<device, inode>>
    FailIno,        \* inodes that may be read with error
    LockedFile,     \* the one that Lockers have open
    NULL

Proc == User \cup Swapper \cup Umounter \cup Locker
Entry == 1 .. NINODE
Device == {Root, Mounted}
Ino == {RootIno, DirIno, DevIno} \cup { id[2] : id \in Opens }

ASSUME InodeAssumption ==
    /\ IsFiniteSet(Proc) /\ NULL \notin Proc \cup Device \cup Ino \cup Entry
    /\ User \cap (Swapper \cup Umounter \cup Locker) = {} /\ Swapper \cap Umounter = {}
    /\ Locker \cap (Swapper \cup Umounter) = {} /\ LockedFile \in Opens
    /\ NINODE \in Nat \ {0, 1, 2} /\ Root # Mounted /\ DirIno # DevIno
    /\ \A id \in Opens : Len(id) = 2 /\ id[1] \in Device
    /\ ~(LockedFile[1] = Root /\ LockedFile[2] \in {DirIno, DevIno})

VARIABLES
    inode,      \* the INODEs; i_sb is the device of the SB that it points to
    lock,       \* i_lock
    lru,
    hash,       \* the entries in their hash queue
    sb,         \* the SBs: "mounted", sb_mcount, sb_mbusy
    updlock,
    cpu,        \* the process that holds the processor, or NULL
    proc        \* the processes: pc and locals

inodeVars == <<inode, lock, lru, hash, sb, updlock, cpu, proc>>

Free == [dev |-> NULL, ino |-> NULL, count |-> 0, sb |-> NULL, mode |-> FALSE,
         nlink |-> TRUE, chg |-> FALSE, mount |-> FALSE]

Fresh(dev, ino) == [Free EXCEPT !.dev = dev, !.ino = ino, !.count = 1, !.sb = dev]

\* A process in user mode that has no file open; its locals are gone.
Idle == [pc |-> "user", dev |-> NULL, ino |-> NULL, e |-> NULL, i |-> 1, then |-> "user"]

\* The references of mount: the directory and the device file; and the file open by a company.
inodeinit(company) ==
    /\ inode = [e \in Entry |->
                   CASE e = 1 -> [Fresh(Root, DirIno) EXCEPT !.mode = TRUE, !.mount = TRUE]
                     [] e = 2 -> [Fresh(Root, DevIno) EXCEPT !.mode = TRUE]
                     [] e = 3 /\ company \cap Locker # {} ->
                           [Fresh(LockedFile[1], LockedFile[2]) EXCEPT !.mode = TRUE, !.count = Cardinality(company \cap Locker)]
                     [] OTHER -> Free]
    /\ lock = [e \in Entry |-> <<>>]
    /\ lru = [e \in Entry |-> e]
    /\ hash = { e \in Entry : inode[e].ino # NULL }
    /\ sb = [d \in Device |->
                [mounted |-> TRUE, mbusy |-> FALSE,
                 mcount |-> (IF d = Root THEN 2 ELSE 0)
                            + (IF d = LockedFile[1] THEN Cardinality(company \cap Locker) ELSE 0)]]
    /\ updlock = NULL /\ cpu = NULL
    /\ proc = [p \in Proc |-> [Idle EXCEPT !.pc = IF p \in company THEN "user" ELSE "absent",
                                           !.e = IF p \in company \cap Locker THEN 3 ELSE NULL]]

-----------------------------------------------------------------------------
(* Locks, counts and lists *)

At(p, pc) == proc[p].pc = pc /\ cpu \in {p, NULL}

Owns(p) == proc[p].e # NULL /\ lock[proc[p].e] # <<>> /\ Head(lock[proc[p].e]) = p

\* At a point of the code, with the entry locked.
Locked(p, pc) == At(p, pc) /\ Owns(p)

Goto(p, pc) == proc' = [proc EXCEPT ![p].pc = pc]
Back(p) == proc' = [proc EXCEPT ![p] = Idle]

\* The process runs on; or it sleeps, or is back in user mode.
Keeps(p) == cpu' = p
Leaves == cpu' = NULL

\* SLEEPLOCK, and on to a point of the code.
SleepLock(p, e, pc) ==
    /\ lock' = [lock EXCEPT ![e] = Append(@, p)]
    /\ proc' = [proc EXCEPT ![p].pc = pc, ![p].e = e]
    /\ cpu' = IF lock[e] = <<>> THEN p ELSE NULL

SleepFree(e) == lock' = [lock EXCEPT ![e] = Tail(@)]

Mcount(d, n) == sb' = [sb EXCEPT ![d].mcount = @ + n]

PutEndLru(e) == lru' = Append(RemoveFirst(lru, e), e)

\* The elements of a sequence that are in a set, in its order.
Kept(s, T) == FlattenSeq([i \in DOMAIN s |-> IF s[i] \in T THEN <<s[i]>> ELSE <<>>])

Is(e, dev, ino) == inode[e].dev = dev /\ inode[e].ino = ino

-----------------------------------------------------------------------------
(* iget *)

\* A device not mounted (ENODEV) or in umount (EBUSY) is refused at once.
Admits(d) == sb[d].mounted /\ ~sb[d].mbusy

Get(p, dev, ino) ==
    /\ p \in User /\ At(p, "user") /\ proc[p].e = NULL
    /\ Admits(dev)
    /\ Mcount(dev, 1)
    /\ proc' = [proc EXCEPT ![p].pc = "again", ![p].dev = dev, ![p].ino = ino]
    /\ Keeps(p)
    /\ UNCHANGED <<inode, lock, lru, hash, updlock>>

Hits(p) == { e \in hash : Is(e, proc[p].dev, proc[p].ino) }

Hit(p) ==
    /\ At(p, "again")
    /\ \E e \in Hits(p) : SleepLock(p, e, "found")
    /\ UNCHANGED <<inode, lru, hash, sb, updlock>>

\* Locked, and no longer the inode it was.
FoundOther(p) ==
    /\ Locked(p, "found") /\ ~Is(proc[p].e, proc[p].dev, proc[p].ino)
    /\ SleepFree(proc[p].e)
    /\ proc' = [proc EXCEPT ![p].pc = "again", ![p].e = NULL]
    /\ Keeps(p)
    /\ UNCHANGED <<inode, lru, hash, sb, updlock>>

\* Mutant: the identity is not tested again.
FoundAny(p) ==
    /\ Locked(p, "found") /\ ~inode[proc[p].e].mount
    /\ inode' = [inode EXCEPT ![proc[p].e].count = @ + 1]
    /\ PutEndLru(proc[p].e)
    /\ Goto(p, "locked") /\ Leaves
    /\ UNCHANGED <<lock, hash, sb, updlock>>

Found(p) ==
    LET e == proc[p].e IN
    /\ Locked(p, "found") /\ Is(e, proc[p].dev, proc[p].ino) /\ ~inode[e].mount
    /\ inode' = [inode EXCEPT ![e].count = @ + 1]
    /\ PutEndLru(e)
    /\ Goto(p, "locked") /\ Leaves
    /\ UNCHANGED <<lock, hash, sb, updlock>>

\* The directory of a mount: it is put, and the search goes on at the root of the other
\* device, unless this is in umount.
FoundMount(p) ==
    LET e == proc[p].e IN
    /\ Locked(p, "found") /\ Is(e, proc[p].dev, proc[p].ino) /\ inode[e].mount
    /\ SleepFree(e)
    /\ IF Admits(Mounted)
       THEN /\ sb' = [sb EXCEPT ![Root].mcount = @ - 1, ![Mounted].mcount = @ + 1]
            /\ proc' = [proc EXCEPT ![p].pc = "again", ![p].dev = Mounted, ![p].ino = RootIno, ![p].e = NULL]
            /\ Keeps(p)
       ELSE /\ Mcount(Root, -1)
            /\ Back(p) /\ Leaves
    /\ UNCHANGED <<inode, lru, hash, updlock>>

\* The places in the LRU list of the entries that may be reused.
Reusable == { i \in DOMAIN lru : lock[lru[i]] = <<>> /\ inode[lru[i]].count = 0 }

\* The first of them leaves its hash queue and becomes the inode wanted, to be read.
Reuse(p) ==
    LET e == lru[Min(Reusable)] IN
    /\ At(p, "again") /\ Hits(p) = {} /\ Reusable # {}
    /\ lock' = [lock EXCEPT ![e] = <<p>>]
    /\ hash' = hash \cup {e}
    /\ inode' = [inode EXCEPT ![e] = [Fresh(proc[p].dev, proc[p].ino) EXCEPT !.mode = inode[e].mode]]
    /\ proc' = [proc EXCEPT ![p].pc = "read", ![p].e = e]
    /\ Leaves
    /\ UNCHANGED <<lru, sb, updlock>>

\* Mutant: the SB still counts the search.
TableFullCounted(p) ==
    /\ At(p, "again") /\ Hits(p) = {} /\ Reusable = {}
    /\ Back(p) /\ Leaves
    /\ UNCHANGED <<inode, lock, lru, hash, sb, updlock>>

\* ENFILE.
TableFull(p) ==
    /\ At(p, "again") /\ Hits(p) = {} /\ Reusable = {}
    /\ Mcount(proc[p].dev, -1)
    /\ Back(p) /\ Leaves
    /\ UNCHANGED <<inode, lock, lru, hash, updlock>>

ReadInode(p) ==
    /\ Locked(p, "read")
    /\ inode' = [inode EXCEPT ![proc[p].e].mode = TRUE]
    /\ PutEndLru(proc[p].e)
    /\ Goto(p, "locked") /\ Leaves
    /\ UNCHANGED <<lock, hash, sb, updlock>>

\* The entry keeps its device, out of the hash queue.
ReadFails(p) ==
    LET e == proc[p].e IN
    /\ Locked(p, "read") /\ proc[p].ino \in FailIno
    /\ hash' = hash \ {e}
    /\ inode' = [inode EXCEPT ![e].count = 0, ![e].ino = NULL, ![e].chg = FALSE]
    /\ SleepFree(e)
    /\ Mcount(proc[p].dev, -1)
    /\ Back(p) /\ Leaves
    /\ UNCHANGED <<lru, updlock>>

-----------------------------------------------------------------------------
(* What users do with an inode *)

\* The inode changes, and the system call goes on with it locked.
Modify(p) ==
    /\ Locked(p, "locked") /\ inode[proc[p].e].mode /\ ~inode[proc[p].e].chg
    /\ inode' = [inode EXCEPT ![proc[p].e].chg = TRUE]
    /\ Leaves
    /\ UNCHANGED <<lock, lru, hash, sb, updlock, proc>>

\* The inode was freed: it becomes a new file.
Create(p) ==
    /\ Locked(p, "locked") /\ ~inode[proc[p].e].mode
    /\ inode' = [inode EXCEPT ![proc[p].e].mode = TRUE, ![proc[p].e].nlink = TRUE, ![proc[p].e].chg = TRUE]
    /\ Leaves
    /\ UNCHANGED <<lock, lru, hash, sb, updlock, proc>>

\* The last link goes; the root of a file system keeps its own.
Erase(p) ==
    LET e == proc[p].e IN
    /\ Locked(p, "locked") /\ inode[e].mode /\ inode[e].nlink
    /\ inode[e].ino \notin {RootIno, DirIno, DevIno}
    /\ inode' = [inode EXCEPT ![e].nlink = FALSE, ![e].chg = TRUE]
    /\ Leaves
    /\ UNCHANGED <<lock, lru, hash, sb, updlock, proc>>

\* The file stays open, its inode unlocked.
Open(p) ==
    /\ Locked(p, "locked")
    /\ SleepFree(proc[p].e)
    /\ Goto(p, "user") /\ Leaves
    /\ UNCHANGED <<inode, lru, hash, sb, updlock>>

Again(p) ==
    /\ p \in User /\ At(p, "user") /\ proc[p].e # NULL
    /\ SleepLock(p, proc[p].e, "locked")
    /\ UNCHANGED <<inode, lru, hash, sb, updlock>>

Close(p) ==
    /\ Locked(p, "locked")
    /\ proc' = [proc EXCEPT ![p].pc = "iput", ![p].then = "user"]
    /\ Keeps(p)
    /\ UNCHANGED <<inode, lock, lru, hash, sb, updlock>>

-----------------------------------------------------------------------------
(* iput *)

LastUse(p) == inode[proc[p].e].count = 1

\* The last reference writes the inode, if it changed; the flag is cleared before the
\* block is read.
PutWrite(p) ==
    LET e == proc[p].e IN
    /\ Locked(p, "iput") /\ LastUse(p) /\ inode[e].nlink /\ inode[e].chg
    /\ inode' = [inode EXCEPT ![e].chg = FALSE]
    /\ Goto(p, "iputend") /\ Leaves
    /\ UNCHANGED <<lock, lru, hash, sb, updlock>>

\* Without links the file is truncated, its inode freed and written.
PutFree(p) ==
    LET e == proc[p].e IN
    /\ Locked(p, "iput") /\ LastUse(p) /\ ~inode[e].nlink /\ inode[e].mode
    /\ inode' = [inode EXCEPT ![e].chg = TRUE]
    /\ Goto(p, "iputfree") /\ Leaves
    /\ UNCHANGED <<lock, lru, hash, sb, updlock>>

PutFreed(p) ==
    /\ Locked(p, "iputfree")
    /\ inode' = [inode EXCEPT ![proc[p].e].mode = FALSE, ![proc[p].e].chg = FALSE]
    /\ Goto(p, "iputend") /\ Keeps(p)
    /\ UNCHANGED <<lock, lru, hash, sb, updlock>>

\* Mutant: the last use of a file with links does not write its inode.
NothingToWriteLinked(e) == inode[e].nlink \/ ~inode[e].mode

NothingToWrite(e) == IF inode[e].nlink THEN ~inode[e].chg ELSE ~inode[e].mode

PutEnd(p) ==
    LET e == proc[p].e IN
    /\ \/ Locked(p, "iput") /\ (~LastUse(p) \/ NothingToWrite(e))
       \/ Locked(p, "iputend")
    /\ Mcount(inode[e].sb, -1)
    /\ inode' = [inode EXCEPT ![e].count = @ - 1]
    /\ SleepFree(e)
    /\ proc' = [proc EXCEPT ![p] = [Idle EXCEPT !.pc = proc[p].then, !.i = proc[p].i]]
    /\ cpu' = IF proc[p].then = "user" THEN NULL ELSE p
    /\ UNCHANGED <<lru, hash, updlock>>

-----------------------------------------------------------------------------
(* update *)

\* Where a process goes after update.
AfterUpdate(p) == IF p \in Umounter THEN "test" ELSE "user"

UpdateBegin(p) ==
    /\ p \in Swapper /\ At(p, "user") /\ updlock = NULL
    /\ updlock' = p
    /\ proc' = [proc EXCEPT ![p].pc = "visit", ![p].i = 1]
    /\ Keeps(p)
    /\ UNCHANGED <<inode, lock, lru, hash, sb>>

\* The entries from the current one on that look as if they had to be written.
ToVisit(p) ==
    { e \in proc[p].i .. NINODE :
        /\ inode[e].mode /\ inode[e].chg
        /\ p \in Umounter => inode[e].dev = Mounted }

Visit(p) ==
    /\ At(p, "visit") /\ ToVisit(p) # {}
    /\ LET e == Min(ToVisit(p)) IN
       /\ lock' = [lock EXCEPT ![e] = Append(@, p)]
       /\ proc' = [proc EXCEPT ![p].pc = "visited", ![p].e = e, ![p].i = e + 1]
       /\ cpu' = IF lock[e] = <<>> THEN p ELSE NULL
    /\ UNCHANGED <<inode, lru, hash, sb, updlock>>

\* Nobody uses it: its last user wrote it.
VisitUnused(p) ==
    /\ Locked(p, "visited") /\ inode[proc[p].e].count = 0
    /\ SleepFree(proc[p].e)
    /\ proc' = [proc EXCEPT ![p].pc = "visit", ![p].e = NULL]
    /\ Keeps(p)
    /\ UNCHANGED <<inode, lru, hash, sb, updlock>>

\* iinc, the write, which sleeps if the inode is still changed, and iput.
VisitUsed(p) ==
    LET e == proc[p].e IN
    /\ Locked(p, "visited") /\ inode[e].count # 0
    /\ Mcount(inode[e].sb, 1)
    /\ inode' = [inode EXCEPT ![e].count = @ + 1, ![e].chg = FALSE]
    /\ proc' = [proc EXCEPT ![p].pc = "iput", ![p].then = "visit"]
    /\ cpu' = IF inode[e].chg THEN NULL ELSE p
    /\ UNCHANGED <<lock, lru, hash, updlock>>

UpdateEnd(p) ==
    /\ At(p, "visit") /\ ToVisit(p) = {}
    /\ updlock' = NULL
    /\ proc' = [proc EXCEPT ![p] = [Idle EXCEPT !.pc = AfterUpdate(p)]]
    /\ cpu' = IF p \in Umounter THEN p ELSE NULL
    /\ UNCHANGED <<inode, lock, lru, hash, sb>>

-----------------------------------------------------------------------------
(* umount *)

\* Another update in progress is not waited for.
Umount(p) ==
    /\ p \in Umounter /\ At(p, "user") /\ Admits(Mounted)
    /\ sb' = [sb EXCEPT ![Mounted].mbusy = TRUE]
    /\ IF updlock = NULL
       THEN updlock' = p /\ proc' = [proc EXCEPT ![p].pc = "visit", ![p].i = 1]
       ELSE Goto(p, "test") /\ UNCHANGED updlock
    /\ Keeps(p)
    /\ UNCHANGED <<inode, lock, lru, hash>>

\* EBUSY.
UmountBusy(p) ==
    /\ At(p, "test") /\ sb[Mounted].mcount # 0
    /\ sb' = [sb EXCEPT ![Mounted].mbusy = FALSE]
    /\ Goto(p, "user") /\ Leaves
    /\ UNCHANGED <<inode, lock, lru, hash, updlock>>

\* Mutant: the references are not looked at.
UmountTestBlind(p) ==
    /\ At(p, "test")
    /\ SleepLock(p, 1, "undir")
    /\ UNCHANGED <<inode, lru, hash, sb, updlock>>

\* sb_inode and the inode of the device file are the ones that mount left referenced.
UmountTest(p) ==
    /\ At(p, "test") /\ sb[Mounted].mcount = 0
    /\ SleepLock(p, 1, "undir")
    /\ UNCHANGED <<inode, lru, hash, sb, updlock>>

Undir(p) ==
    /\ Locked(p, "undir")
    /\ inode' = [inode EXCEPT ![proc[p].e].mount = FALSE]
    /\ proc' = [proc EXCEPT ![p].pc = "iput", ![p].then = "unlink"]
    /\ Keeps(p)
    /\ UNCHANGED <<lock, lru, hash, sb, updlock>>

\* The SB leaves the list and its memory is given back.
Unlink(p) ==
    /\ At(p, "unlink")
    /\ sb' = [sb EXCEPT ![Mounted].mounted = FALSE, ![Mounted].mbusy = FALSE]
    /\ SleepLock(p, 2, "undev")
    /\ UNCHANGED <<inode, lru, hash, updlock>>

\* The device is closed, which may sleep.
Undev(p) ==
    /\ Locked(p, "undev")
    /\ proc' = [proc EXCEPT ![p].pc = "iput", ![p].then = "iumerase"]
    /\ Leaves
    /\ UNCHANGED <<inode, lock, lru, hash, sb, updlock>>

Residual == { e \in Entry : inode[e].dev = Mounted /\ (lock[e] # <<>> \/ inode[e].count # 0) }

\* Mutant: the entries are not taken from the LRU list before they go to its head.
iumeraseLinked(p) ==
    LET gone == { e \in Entry : inode[e].dev = Mounted } \ Residual IN
    /\ At(p, "iumerase")
    /\ hash' = hash \ gone
    /\ inode' = [e \in Entry |->
                    IF e \in gone THEN [inode[e] EXCEPT !.ino = NULL, !.dev = NULL, !.mode = FALSE]
                    ELSE inode[e]]
    /\ lru' = Kept([i \in 1 .. NINODE |-> NINODE + 1 - i], gone) \o lru
    /\ Goto(p, "done") /\ Leaves
    /\ UNCHANGED <<lock, sb, updlock>>

\* What is locked or in use stays ("INODE Residual"); the others go to the head of
\* the LRU list.
iumerase(p) ==
    LET gone == { e \in Entry : inode[e].dev = Mounted } \ Residual IN
    /\ At(p, "iumerase")
    /\ hash' = hash \ gone
    /\ inode' = [e \in Entry |->
                    IF e \in gone THEN [inode[e] EXCEPT !.ino = NULL, !.dev = NULL, !.mode = FALSE]
                    ELSE inode[e]]
    /\ lru' = Kept([i \in 1 .. NINODE |-> NINODE + 1 - i], gone) \o Kept(lru, Entry \ gone)
    /\ Goto(p, "done") /\ Leaves
    /\ UNCHANGED <<lock, sb, updlock>>

-----------------------------------------------------------------------------
iget(p) ==
    \/ \E id \in Opens : Get(p, id[1], id[2])
    \/ Hit(p) \/ FoundOther(p) \/ Found(p) \/ FoundMount(p)
    \/ Reuse(p) \/ TableFull(p) \/ ReadInode(p) \/ ReadFails(p)

Use(p) == Modify(p) \/ Create(p) \/ Erase(p) \/ Open(p) \/ Again(p) \/ Close(p)

iput(p) == PutWrite(p) \/ PutFree(p) \/ PutFreed(p) \/ PutEnd(p)

Update(p) == UpdateBegin(p) \/ Visit(p) \/ VisitUnused(p) \/ VisitUsed(p) \/ UpdateEnd(p)

umount(p) ==
    \/ Umount(p) \/ UmountBusy(p) \/ UmountTest(p)
    \/ Undir(p) \/ Unlink(p) \/ Undev(p) \/ iumerase(p)

UseInode(p) == iget(p) \/ Use(p) \/ iput(p) \/ Update(p) \/ umount(p)

-----------------------------------------------------------------------------
(* Properties *)

\* The references that processes and mount have to the entries.
Holds(p) ==
    /\ proc[p].e # NULL
    /\ IF p \in User \cup Locker THEN proc[p].pc # "found"
       ELSE proc[p].pc = "iput" /\ proc[p].then = "visit"

Holders == { p \in Proc : Holds(p) }

MountHolds(e) ==
    /\ e \in {1, 2}
    /\ \A p \in Umounter :
          \/ e = 1 /\ proc[p].pc \notin {"unlink", "undev", "iumerase", "done"} /\ proc[p].then # "iumerase"
          \/ e = 2 /\ proc[p].pc \notin {"iumerase", "done"}

\* The searches of iget that are counted in the SB and have no entry yet.
Searches(d) == { p \in User : proc[p].pc \in {"again", "found"} /\ proc[p].dev = d }

\* inode.c: i_count is the number of references, so an entry is reused only when nobody
\* has it; sb_mcount is the number of those to its inodes and of the searches, so umount
\* sees them all.
CountsExact ==
    LET holders == Holders IN
    /\ \A e \in Entry :
          inode[e].count = Cardinality({ p \in holders : proc[p].e = e }) + (IF MountHolds(e) THEN 1 ELSE 0)
    /\ \A d \in Device :
          sb[d].mcount = Cardinality(Searches(d))
                         + Cardinality({ p \in holders : inode[proc[p].e].sb = d })
                         + Cardinality({ e \in Entry : inode[e].sb = d /\ MountHolds(e) })

\* inode.c: an inode has one entry, which is in its hash queue, and it is the one that
\* was asked for as long as the process has it.
OneEntry ==
    /\ hash = { e \in Entry : inode[e].ino # NULL }
    /\ \A d, e \in hash : Is(d, inode[e].dev, inode[e].ino) => d = e
    /\ \A p \in User : Holds(p) => Is(proc[p].e, proc[p].dev, proc[p].ino)

\* inode.c, sysfio.c: an inode changed and not yet written has a reference; update does
\* not look at the others, and their entries are reused.
ChangedInUse == \A e \in Entry : inode[e].chg => inode[e].count > 0

\* systree.c, inode.c: an SB outlives the references to its inodes and the searches in it;
\* a directory marked as a mount has its SB; and iumerase leaves behind, with a pointer to
\* the SB that is gone, only what a process in update has locked.
UmountSafe ==
    /\ \A e \in Entry : inode[e].count > 0 => sb[inode[e].sb].mounted
    /\ \A d \in Device : Searches(d) # {} => sb[d].mounted
    /\ \A e \in Entry : inode[e].mount => sb[Mounted].mounted /\ inode[e].count > 0
    /\ \A p \in Umounter, e \in Entry :
          proc[p].pc = "iumerase" /\ inode[e].dev = Mounted =>
              inode[e].count = 0 /\ \A q \in ToSet(lock[e]) : proc[q].pc = "visited"
=============================================================================
