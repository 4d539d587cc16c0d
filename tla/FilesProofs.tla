----------------------------- MODULE FilesProofs ----------------------------
(***************************************************************************)
(* Theorems about Files.                                                   *)
(***************************************************************************)
EXTENDS Files, QueueLemmas

-----------------------------------------------------------------------------
(* The inductive invariant: inodes *)

InodeType == [dev : Device \cup {NULL}, ino : Ino \cup {NULL}, count : Nat,
              sb : Device \cup {NULL}, mode : BOOLEAN, nlink : BOOLEAN,
              chg : BOOLEAN, mount : BOOLEAN]

SbType == [mounted : BOOLEAN, mcount : Nat, mbusy : BOOLEAN]

ProcType == [pc : Label, dev : Device \cup {NULL}, ino : Ino \cup {NULL}, e : Entry \cup {NULL},
             i : Nat \ {0}, then : {"user", "visit", "unlink", "iumerase"}]

Types ==
    /\ inode \in [Entry -> InodeType]
    /\ lock \in [Entry -> Seq(Proc)]
    /\ lru \in Seq(Entry) /\ NoRepeat(lru) /\ ToSet(lru) = Entry
    /\ hash \subseteq Entry
    /\ sb \in [Device -> SbType]
    /\ updlock \in Proc \cup {NULL} /\ cpu \in Proc \cup {NULL}
    /\ proc \in [Proc -> ProcType]

Putting == {"iput", "iputend", "iputfree"}
UserPc == {"again", "found", "read", "locked"} \cup Putting

\* Who runs which code, and with which locals.
LocalsOf(p) ==
    /\ proc[p].pc \notin Putting => proc[p].then = "user"
    /\ proc[p].pc = "absent" => proc[p].e = NULL
    /\ p \in User =>
          /\ proc[p].pc \in UserPc \cup {"absent", "user"} /\ proc[p].then = "user"
          /\ proc[p].pc = "again" => proc[p].e = NULL
          /\ proc[p].pc \in UserPc \ {"again"} => proc[p].e # NULL
          /\ proc[p].e # NULL \/ proc[p].pc = "again" => proc[p].dev \in Device /\ proc[p].ino \in Ino
    /\ p \in Locker =>
          /\ proc[p].pc \in {"absent", "user", "call", "lockf", "waiting", "transfer"}
          /\ proc[p].pc # "absent" => proc[p].e = 3
    /\ p \in Swapper =>
          /\ proc[p].pc \in {"absent", "user", "visit", "visited", "iput"}
          /\ proc[p].pc = "iput" => proc[p].then = "visit"
    /\ p \in Umounter =>
          /\ proc[p].pc \in Putting \cup {"absent", "user", "visit", "visited", "test", "undir",
                                          "unlink", "undev", "iumerase", "done"}
          /\ proc[p].pc \in Putting => proc[p].then # "user"
          /\ proc[p].pc \in {"iputend", "iputfree"} => proc[p].then # "visit"
          /\ proc[p].pc = "undir" \/ proc[p].then = "unlink" => proc[p].e = 1
          /\ proc[p].pc = "undev" \/ proc[p].then = "iumerase" => proc[p].e = 2
    /\ p \in Swapper \cup Umounter =>
          (proc[p].e # NULL <=> proc[p].pc \in Putting \cup {"visited", "undir", "undev"})

Locals == \A p \in Proc : LocalsOf(p)

Owning == {"read", "transfer"} \cup Putting
Queueing == {"found", "locked", "visited", "undir", "undev", "call", "lockf"}

\* A process is once in the queue of the entry that it has or waits for, and in no other.
LockOf(e) ==
    /\ NoRepeat(lock[e])
    /\ ToSet(lock[e]) = { p \in Proc : proc[p].e = e /\ proc[p].pc \in Owning \cup Queueing }
    /\ \A p \in Proc : proc[p].e = e /\ proc[p].pc \in Owning => Head(lock[e]) = p

Locks == \A e \in Entry : LockOf(e)

\* How far an umount is.
Busy(p) == proc[p].pc \notin {"absent", "user"}
Tested(p) == proc[p].pc \in {"undir", "unlink", "undev", "iumerase", "done"} \/ proc[p].then \in {"unlink", "iumerase"}
Unlinked(p) == proc[p].pc \in {"undev", "iumerase", "done"} \/ proc[p].then = "iumerase"

Umounts ==
    /\ \A p, q \in Umounter : Busy(p) /\ Busy(q) => p = q
    /\ sb[Root].mounted
    /\ sb[Mounted].mounted <=> \A p \in Umounter : ~Unlinked(p)
    /\ \A p \in Umounter : Busy(p) => Unlinked(p) \/ sb[Mounted].mbusy
    /\ \A p \in Umounter : Tested(p) => sb[Mounted].mcount = 0

EntryOf(e) ==
    /\ inode[e].dev # NULL => inode[e].sb = inode[e].dev
    /\ inode[e].ino # NULL => inode[e].dev # NULL
    /\ inode[e].count > 0 => inode[e].ino # NULL
    /\ inode[e].chg => inode[e].mode /\ inode[e].count > 0
    /\ inode[e].mount => e = 1 /\ \A p \in Umounter :
          proc[p].then \notin {"unlink", "iumerase"} /\ proc[p].pc \notin {"unlink", "undev", "iumerase", "done"}
    /\ e = 1 /\ MountHolds(e) => Is(e, Root, DirIno)
    /\ e = 2 /\ MountHolds(e) => Is(e, Root, DevIno)

Entries == \A e \in Entry : EntryOf(e)

\* What a process knows of its entry.
HandOf(p) ==
    /\ proc[p].pc = "found" => inode[proc[p].e].dev = proc[p].dev
    /\ p \in User /\ Holds(p) => Is(proc[p].e, proc[p].dev, proc[p].ino)
    /\ proc[p].pc \in {"read", "iputfree"} => inode[proc[p].e].count = 1
    /\ proc[p].pc = "iputend" => ~inode[proc[p].e].chg
    /\ proc[p].pc = "iput" /\ proc[p].then = "visit" => inode[proc[p].e].count > 1
    /\ p \in Locker /\ proc[p].pc # "absent" => inode[3].mode

Hands == \A p \in Proc : HandOf(p)

HashExact ==
    /\ hash = { e \in Entry : inode[e].ino # NULL }
    /\ \A d, e \in hash : Is(d, inode[e].dev, inode[e].ino) => d = e

InodeInv == Types /\ Locals /\ Locks /\ Umounts /\ Entries /\ Hands /\ HashExact /\ CountsExact

-----------------------------------------------------------------------------
(* What follows from the assumptions on the constants *)

\* What the proofs use of the assumptions on the constants: four kinds of processes, and the
\* entries 1 and 2 (the mount point and the device) and 3 (the file of the lockers).
LEMMA Constants ==
    /\ NINODE \in Nat /\ NINODE > 2 /\ 1 \in Entry /\ 2 \in Entry /\ 3 \in Entry /\ Entry \subseteq Nat
    /\ NULL \notin Proc /\ NULL \notin Device /\ NULL \notin Ino /\ NULL \notin Entry
    /\ Root \in Device /\ Mounted \in Device /\ Root # Mounted /\ Device = {Root, Mounted}
    /\ RootIno \in Ino /\ DirIno \in Ino /\ DevIno \in Ino /\ DirIno # DevIno
    /\ \A id \in Opens : id[1] \in Device /\ id[2] \in Ino
    /\ LockedFile[1] \in Device /\ LockedFile[2] \in Ino
    /\ ~(LockedFile[1] = Root /\ LockedFile[2] \in {DirIno, DevIno})
    /\ IsFiniteSet(Proc) /\ IsFiniteSet(Entry)
    /\ User \subseteq Proc /\ Swapper \subseteq Proc /\ Umounter \subseteq Proc /\ Locker \subseteq Proc
    /\ \A p \in Proc : p \in User \/ p \in Swapper \/ p \in Umounter \/ p \in Locker
    /\ \A p \in User : p \notin Swapper /\ p \notin Umounter /\ p \notin Locker
    /\ \A p \in Swapper : p \notin Umounter /\ p \notin Locker
    /\ \A p \in Umounter : p \notin Locker
<1>1. IsFiniteSet(Entry)
  BY InodeAssumption, FS_Interval DEF InodeAssumption, Entry
<1> QED BY <1>1, InodeAssumption DEF InodeAssumption, Entry, Device, Ino, Proc

\* A set that changes at one element at most.
Unit(b) == IF b THEN 1 ELSE 0

\* A set that gains or loses one element.
LEMMA CardStep ==
    ASSUME NEW A, NEW B, NEW x, IsFiniteSet(A), A \ {x} = B \ {x}
    PROVE  /\ IsFiniteSet(B) /\ Cardinality(A) \in Nat /\ Cardinality(B) \in Nat
           /\ Cardinality(B) = Cardinality(A) + Unit(x \in B) - Unit(x \in A)
<1> DEFINE C == A \ {x}
<1>1. IsFiniteSet(C) /\ Cardinality(C) = IF x \in A THEN Cardinality(A) - 1 ELSE Cardinality(A)
  BY FS_RemoveElement
<1>2. Cardinality(A) \in Nat /\ Cardinality(C) \in Nat
  BY <1>1, FS_CardinalityType
<1>3. IsFiniteSet(C \cup {x}) /\ Cardinality(C \cup {x}) = Cardinality(C) + 1
  BY <1>1, FS_AddElement
<1>4. CASE x \in B
  <2>1. B = C \cup {x}
    BY <1>4
  <2> HIDE DEF C
  <2> QED BY <1>1, <1>2, <1>3, <1>4, <2>1 DEF Unit
<1>5. CASE x \notin B
  <2>1. B = C
    BY <1>5
  <2> HIDE DEF C
  <2> QED BY <1>1, <1>2, <1>5, <2>1 DEF Unit
<1> QED BY <1>4, <1>5

-----------------------------------------------------------------------------
(* Steps of one process *)

Others(p) == \A q \in Proc \ {p} : proc'[q] = proc[q]

\* A step of a process leaves the locals of the others alone.
LEMMA LocalsKeep ==
    ASSUME Locals, NEW p \in Proc, Others(p), LocalsOf(p)'
    PROVE  Locals'
<1>1. ASSUME NEW q \in Proc, q # p PROVE LocalsOf(q)'
  BY <1>1 DEF Locals, LocalsOf, Others
<1> QED BY <1>1 DEF Locals

InQueue(p) == proc[p].pc \in Owning \cup Queueing

\* Neither the queues nor the place of the process in them change.
LEMMA LocksSame ==
    ASSUME Locks, NEW p \in Proc, Others(p), lock' = lock,
           InQueue(p)' <=> InQueue(p), InQueue(p) => proc'[p].e = proc[p].e,
           proc'[p].pc \in Owning => Owns(p)
    PROVE  Locks'
<1> SUFFICES ASSUME NEW e \in Entry PROVE LockOf(e)'
  BY DEF Locks
<1>1. LockOf(e)
  BY DEF Locks
<1>2. \A q \in Proc : (proc'[q].e = e /\ InQueue(q)') <=> (proc[q].e = e /\ InQueue(q))
  BY DEF Others, InQueue
<1>3. ToSet(lock'[e]) = { q \in Proc : proc'[q].e = e /\ proc'[q].pc \in Owning \cup Queueing }
  BY <1>1, <1>2 DEF LockOf, InQueue
<1>4. ASSUME NEW q \in Proc, proc'[q].e = e, proc'[q].pc \in Owning PROVE Head(lock'[e]) = q
  <2>1. CASE q = p
    BY <2>1, <1>4 DEF Owns, InQueue
  <2>2. CASE q # p
    BY <2>2, <1>4, <1>1 DEF LockOf, Others
  <2> QED BY <2>1, <2>2
<1> QED BY <1>1, <1>3, <1>4 DEF LockOf

\* The process joins a queue, and has the lock at once if that is empty.
LEMMA LocksTake ==
    ASSUME Types, Locks, NEW p \in Proc, Others(p), NEW e \in Entry,
           lock' = [lock EXCEPT ![e] = Append(@, p)],
           ~InQueue(p), InQueue(p)', proc'[p].e = e,
           proc'[p].pc \in Owning => lock[e] = <<>>
    PROVE  Locks'
<1> SUFFICES ASSUME NEW d \in Entry PROVE LockOf(d)'
  BY DEF Locks
<1>1. LockOf(d) /\ LockOf(e) /\ lock \in [Entry -> Seq(Proc)]
  BY DEF Locks, Types
<1>2. CASE d # e
  <2>1. lock'[d] = lock[d]
    BY <1>2, <1>1
  <2>2. \A q \in Proc : (proc'[q].e = d /\ InQueue(q)') <=> (proc[q].e = d /\ InQueue(q))
    BY <1>2 DEF Others, InQueue
  <2>3. ToSet(lock'[d]) = { q \in Proc : proc'[q].e = d /\ proc'[q].pc \in Owning \cup Queueing }
    BY <2>1, <1>1, <2>2 DEF LockOf, InQueue
  <2>4. \A q \in Proc : proc'[q].e = d /\ proc'[q].pc \in Owning => Head(lock'[d]) = q
    BY <1>2, <2>1, <1>1 DEF LockOf, Others
  <2> QED BY <2>1, <2>3, <2>4, <1>1 DEF LockOf
<1>3. CASE d = e
  <2>1. lock'[e] = Append(lock[e], p) /\ lock[e] \in Seq(Proc)
    BY <1>1
  <2>2. p \notin ToSet(lock[e])
    BY <1>1 DEF LockOf, InQueue
  <2>3. ToSet(lock'[e]) = ToSet(lock[e]) \cup {p} /\ NoRepeat(lock'[e])
    BY <2>1, <2>2, <1>1, AppendElements DEF LockOf
  <2>4. \A q \in Proc : (proc'[q].e = e /\ InQueue(q)') <=> (q = p \/ (proc[q].e = e /\ InQueue(q)))
    BY DEF Others, InQueue
  <2>5. ToSet(lock'[e]) = { q \in Proc : proc'[q].e = e /\ proc'[q].pc \in Owning \cup Queueing }
    BY <2>3, <1>1, <2>4 DEF LockOf, InQueue
  <2>6. ASSUME NEW q \in Proc, proc'[q].e = e, proc'[q].pc \in Owning PROVE Head(lock'[e]) = q
    <3>1. CASE q = p
      <4>1. lock[e] = <<>>
        BY <3>1, <2>6
      <4> QED BY <4>1, <2>1, <3>1
    <3>2. CASE q # p
      <4>1. Head(lock[e]) = q /\ q \in ToSet(lock[e])
        BY <3>2, <2>6, <1>1 DEF LockOf, Others
      <4>2. lock[e] # <<>>
        BY <4>1 DEF ToSet
      <4> QED BY <4>1, <4>2, <2>1
    <3> QED BY <3>1, <3>2
  <2> QED BY <2>3, <2>5, <2>6, <1>3 DEF LockOf
<1> QED BY <1>2, <1>3

\* Only one process has the lock of an entry.
LEMMA OneOwner ==
    ASSUME Types, Locks, NEW p \in Proc, Owns(p), NEW q \in Proc, proc[q].e = proc[p].e, proc[q].pc \in Owning
    PROVE  q = p
<1>1. proc[p].e \in Entry
  BY DEF Types, ProcType, Owns
<1> QED BY <1>1 DEF Locks, LockOf, Owns

\* The owner of a lock frees it.
LEMMA LocksFree ==
    ASSUME Types, Locks, NEW p \in Proc, Others(p), Owns(p),
           lock' = [lock EXCEPT ![proc[p].e] = Tail(@)], ~InQueue(p)'
    PROVE  Locks'
<1> DEFINE e == proc[p].e
<1>0. e \in Entry /\ lock \in [Entry -> Seq(Proc)] /\ lock[e] # <<>> /\ Head(lock[e]) = p
  BY DEF Types, ProcType, Owns
<1> SUFFICES ASSUME NEW d \in Entry PROVE LockOf(d)'
  BY DEF Locks
<1>1. LockOf(d) /\ LockOf(e)
  BY <1>0 DEF Locks
<1> HIDE DEF e
<1>p. p \in ToSet(lock[e])
  BY <1>0 DEF ToSet
<1>i. InQueue(p) /\ proc[p].e = e
  BY <1>p, <1>1 DEF LockOf, InQueue, e
<1>2. CASE d # e
  <2>1. lock'[d] = lock[d]
    BY <1>2, <1>0 DEF e
  <2>2. \A q \in Proc : (proc'[q].e = d /\ InQueue(q)') <=> (proc[q].e = d /\ InQueue(q))
    BY <1>2, <1>i DEF Others, InQueue
  <2>3. ToSet(lock'[d]) = { q \in Proc : proc'[q].e = d /\ proc'[q].pc \in Owning \cup Queueing }
    BY <2>1, <1>1, <2>2 DEF LockOf, InQueue
  <2>4. \A q \in Proc : proc'[q].e = d /\ proc'[q].pc \in Owning => Head(lock'[d]) = q
    BY <1>2, <2>1, <1>1, <1>i DEF LockOf, Others, InQueue
  <2> QED BY <2>1, <2>3, <2>4, <1>1 DEF LockOf
<1>3. CASE d = e
  <2>1. lock'[e] = Tail(lock[e]) /\ lock[e] \in Seq(Proc)
    BY <1>0 DEF e
  <2>2. Len(lock[e]) > 0
    BY <1>0
  <2>3. ToSet(lock'[e]) = ToSet(lock[e]) \ {p} /\ NoRepeat(lock'[e])
    BY <2>1, <2>2, <1>1, <1>0, TailElements DEF LockOf
  <2>4. \A q \in Proc : (proc'[q].e = e /\ InQueue(q)') <=> (q # p /\ proc[q].e = e /\ InQueue(q))
    BY DEF Others, InQueue
  <2>5. ToSet(lock'[e]) = { q \in Proc : proc'[q].e = e /\ proc'[q].pc \in Owning \cup Queueing }
    BY <2>3, <1>1, <2>4 DEF LockOf, InQueue
  <2>6. ASSUME NEW q \in Proc, proc'[q].e = e, proc'[q].pc \in Owning PROVE FALSE
    <3>1. q # p
      BY <2>6 DEF InQueue
    <3>2. Head(lock[e]) = q
      BY <3>1, <2>6, <1>1 DEF LockOf, Others
    <3> QED BY <3>1, <3>2, <1>0
  <2> QED BY <2>3, <2>5, <2>6, <1>3 DEF LockOf
<1> QED BY <1>2, <1>3

-----------------------------------------------------------------------------
(* Counts *)

HoldsOn(p, e) == Holds(p) /\ proc[p].e = e
HoldsIn(p, d) == Holds(p) /\ inode[proc[p].e].sb = d
SearchesIn(p, d) == p \in User /\ proc[p].pc \in {"again", "found"} /\ proc[p].dev = d
MountsIn(e, d) == inode[e].sb = d /\ MountHolds(e)

\* CountsExact, with the sets of those that are counted.
HoldersOn(e) == { p \in Proc : HoldsOn(p, e) }
HoldersIn(d) == { p \in Proc : HoldsIn(p, d) }
SearchersIn(d) == { p \in Proc : SearchesIn(p, d) }
MountedIn(d) == { e \in Entry : MountsIn(e, d) }

Counts ==
    /\ \A e \in Entry : inode[e].count = Cardinality(HoldersOn(e)) + Unit(MountHolds(e))
    /\ \A d \in Device : sb[d].mcount = Cardinality(SearchersIn(d)) + Cardinality(HoldersIn(d)) + Cardinality(MountedIn(d))

\* CountsExact, with the sets of references named.
LEMMA CountsSame == CountsExact <=> Counts
<1>1. \A e \in Entry : { p \in Holders : proc[p].e = e } = HoldersOn(e)
  BY DEF Holders, HoldersOn, HoldsOn
<1>2. \A d \in Device : { p \in Holders : inode[proc[p].e].sb = d } = HoldersIn(d)
  BY DEF Holders, HoldersIn, HoldsIn
<1>3. \A d \in Device : Searches(d) = SearchersIn(d)
  BY Constants DEF Searches, SearchersIn, SearchesIn
<1>4. \A d \in Device : { e \in Entry : inode[e].sb = d /\ MountHolds(e) } = MountedIn(d)
  BY DEF MountedIn, MountsIn
<1>5. \A e \in Entry : (IF MountHolds(e) THEN 1 ELSE 0) = Unit(MountHolds(e))
  BY DEF Unit
<1> QED BY <1>1, <1>2, <1>3, <1>4, <1>5 DEF CountsExact, Counts

\* The sets counted are finite.
LEMMA CountedFinite ==
    /\ \A e \in Entry : IsFiniteSet(HoldersOn(e)) /\ Cardinality(HoldersOn(e)) \in Nat
    /\ \A d \in Device : IsFiniteSet(HoldersIn(d)) /\ Cardinality(HoldersIn(d)) \in Nat
    /\ \A d \in Device : IsFiniteSet(SearchersIn(d)) /\ Cardinality(SearchersIn(d)) \in Nat
    /\ \A d \in Device : IsFiniteSet(MountedIn(d)) /\ Cardinality(MountedIn(d)) \in Nat
<1>1. \A A \in SUBSET Proc : IsFiniteSet(A) /\ Cardinality(A) \in Nat
  BY Constants, FS_Subset, FS_CardinalityType
<1>2. \A A \in SUBSET Entry : IsFiniteSet(A) /\ Cardinality(A) \in Nat
  BY Constants, FS_Subset, FS_CardinalityType
<1>3. \A e \in Entry : HoldersOn(e) \in SUBSET Proc
  BY DEF HoldersOn
<1>4. \A d \in Device : HoldersIn(d) \in SUBSET Proc /\ SearchersIn(d) \in SUBSET Proc /\ MountedIn(d) \in SUBSET Entry
  BY DEF HoldersIn, SearchersIn, MountedIn
<1> QED BY <1>1, <1>2, <1>3, <1>4

\* A set with an element, and one with two, count.
LEMMA CardSome ==
    ASSUME NEW A, IsFiniteSet(A), NEW x \in A
    PROVE  Cardinality(A) > 0 /\ \A y \in A : y # x => Cardinality(A) > 1
<1>1. Cardinality(A) \in Nat
  BY FS_CardinalityType
<1>2. Cardinality(A) # 0
  BY FS_EmptySet
<1>3. ASSUME NEW y \in A, y # x PROVE Cardinality(A) # 1
  BY <1>3, FS_Singleton
<1> QED BY <1>1, <1>2, <1>3

\* An entry that somebody refers to is counted, and one with two references counts two.
LEMMA Counted ==
    ASSUME Types, Counts
    PROVE  /\ \A q \in Proc : Holds(q) => proc[q].e \in Entry /\ inode[proc[q].e].count > 0
           /\ \A e \in Entry : MountHolds(e) => inode[e].count > 0
           /\ \A q, r \in Proc : Holds(q) /\ Holds(r) /\ q # r /\ proc[q].e = proc[r].e => inode[proc[q].e].count > 1
           /\ \A q \in Proc : Holds(q) /\ MountHolds(proc[q].e) => inode[proc[q].e].count > 1
<1>1. \A e \in Entry : /\ inode[e].count = Cardinality(HoldersOn(e)) + Unit(MountHolds(e))
                       /\ Cardinality(HoldersOn(e)) \in Nat /\ IsFiniteSet(HoldersOn(e))
  BY CountedFinite DEF Counts
<1>2. \A q \in Proc : Holds(q) => proc[q].e \in Entry /\ q \in HoldersOn(proc[q].e)
  BY DEF Holds, HoldersOn, HoldsOn, Types, ProcType
<1>3. ASSUME NEW q \in Proc, Holds(q)
      PROVE  /\ proc[q].e \in Entry /\ inode[proc[q].e].count > 0
             /\ \A r \in Proc : Holds(r) /\ q # r /\ proc[q].e = proc[r].e => inode[proc[q].e].count > 1
             /\ MountHolds(proc[q].e) => inode[proc[q].e].count > 1
  <2> DEFINE e == proc[q].e
  <2>1. e \in Entry /\ q \in HoldersOn(e)
    BY <1>2, <1>3
  <2>2. \A r \in Proc : Holds(r) /\ q # r /\ e = proc[r].e => r \in HoldersOn(e)
    BY <1>2
  <2> HIDE DEF e
  <2>3. Cardinality(HoldersOn(e)) > 0 /\ \A r \in HoldersOn(e) : r # q => Cardinality(HoldersOn(e)) > 1
    BY <2>1, <1>1, CardSome
  <2>4. inode[e].count > 0 /\ (MountHolds(e) => inode[e].count > 1)
    BY <2>1, <2>3, <1>1 DEF Unit
  <2>5. Cardinality(HoldersOn(e)) > 1 => inode[e].count > 1
    BY <2>1, <1>1 DEF Unit
  <2>6. \A r \in Proc : Holds(r) /\ q # r /\ e = proc[r].e => inode[e].count > 1
    BY <2>2, <2>3, <2>5
  <2> QED BY <2>1, <2>4, <2>6 DEF e
<1>4. \A e \in Entry : MountHolds(e) => inode[e].count > 0
  BY <1>1 DEF Unit
<1> QED BY <1>3, <1>4

\* Nobody searches or has an inode in a file system that counts nobody.
LEMMA CountedIn ==
    ASSUME Types, Counts, NEW d \in Device, sb[d].mcount = 0
    PROVE  /\ \A q \in Proc : ~SearchesIn(q, d) /\ ~HoldsIn(q, d)
           /\ \A e \in Entry : inode[e].sb = d => inode[e].count = 0
<1>1. Cardinality(SearchersIn(d)) = 0 /\ Cardinality(HoldersIn(d)) = 0 /\ Cardinality(MountedIn(d)) = 0
  BY CountedFinite DEF Counts
<1>2. SearchersIn(d) = {} /\ HoldersIn(d) = {} /\ MountedIn(d) = {}
  BY <1>1, CountedFinite, FS_EmptySet
<1>3. ASSUME NEW e \in Entry, inode[e].sb = d PROVE inode[e].count = 0
  <2>1. HoldersOn(e) = {} /\ ~MountHolds(e)
    BY <1>2, <1>3 DEF HoldersOn, HoldsOn, HoldersIn, HoldsIn, MountedIn, MountsIn
  <2>2. Cardinality(HoldersOn(e)) = 0 /\ Unit(MountHolds(e)) = 0
    BY <2>1, FS_EmptySet DEF Unit
  <2> QED BY <2>2 DEF Counts
<1> QED BY <1>2, <1>3 DEF SearchersIn, HoldersIn

\* A step of one process, in which a reference of mount may change too.
LEMMA CountsStep ==
    ASSUME Types, Counts, NEW p \in Proc, Others(p), NEW e0 \in Entry,
           \A e \in Entry : inode[e].count > 0 => inode'[e].sb = inode[e].sb,
           \A e \in Entry \ {e0} : MountHolds(e)' <=> MountHolds(e),
           \A e \in Entry : inode'[e].count = inode[e].count + Unit(HoldsOn(p, e)') - Unit(HoldsOn(p, e))
                                              + Unit(MountHolds(e)') - Unit(MountHolds(e)),
           \A d \in Device : sb'[d].mcount = sb[d].mcount + Unit(SearchesIn(p, d)') - Unit(SearchesIn(p, d))
                                             + Unit(HoldsIn(p, d)') - Unit(HoldsIn(p, d))
                                             + Unit(MountsIn(e0, d)') - Unit(MountsIn(e0, d))
    PROVE  Counts'
<1>1. ASSUME NEW e \in Entry
      PROVE  inode'[e].count = Cardinality(HoldersOn(e)') + Unit(MountHolds(e)')
  <2>1. HoldersOn(e)' \ {p} = HoldersOn(e) \ {p}
    BY DEF HoldersOn, HoldsOn, Holds, Others
  <2>2. Cardinality(HoldersOn(e)') = Cardinality(HoldersOn(e)) + Unit(p \in HoldersOn(e)') - Unit(p \in HoldersOn(e))
    <3> DEFINE A == HoldersOn(e)
               B == HoldersOn(e)'
    <3>1. A \ {p} = B \ {p} /\ IsFiniteSet(A)
      BY <2>1, CountedFinite
    <3> HIDE DEF A, B
    <3>2. Cardinality(B) = Cardinality(A) + Unit(p \in B) - Unit(p \in A)
      BY <3>1, CardStep
    <3> QED BY <3>2 DEF A, B
  <2>3. (p \in HoldersOn(e) <=> HoldsOn(p, e)) /\ (p \in HoldersOn(e)' <=> HoldsOn(p, e)')
    BY DEF HoldersOn
  <2>4. Unit(p \in HoldersOn(e)) = Unit(HoldsOn(p, e)) /\ Unit(p \in HoldersOn(e)') = Unit(HoldsOn(p, e)')
    BY <2>3 DEF Unit
  <2>5. inode[e].count = Cardinality(HoldersOn(e)) + Unit(MountHolds(e))
    BY DEF Counts
  <2>6. /\ Unit(MountHolds(e)) \in Int /\ Unit(MountHolds(e)') \in Int /\ Cardinality(HoldersOn(e)) \in Int
        /\ Unit(HoldsOn(p, e)) \in Int /\ Unit(HoldsOn(p, e)') \in Int
    BY CountedFinite DEF Unit
  <2> QED BY <2>2, <2>4, <2>5, <2>6
<1>2. ASSUME NEW d \in Device
      PROVE  sb'[d].mcount = Cardinality(SearchersIn(d)') + Cardinality(HoldersIn(d)') + Cardinality(MountedIn(d)')
  <2>1. Cardinality(SearchersIn(d)') = Cardinality(SearchersIn(d)) + Unit(SearchesIn(p, d)') - Unit(SearchesIn(p, d))
    <3> DEFINE A == SearchersIn(d)
               B == SearchersIn(d)'
    <3>1. A \ {p} = B \ {p} /\ IsFiniteSet(A)
      BY CountedFinite DEF SearchersIn, SearchesIn, Others
    <3>2. (p \in A <=> SearchesIn(p, d)) /\ (p \in B <=> SearchesIn(p, d)')
      BY DEF SearchersIn
    <3> HIDE DEF A, B
    <3>3. Cardinality(B) = Cardinality(A) + Unit(p \in B) - Unit(p \in A)
      BY <3>1, CardStep
    <3>4. Unit(p \in A) = Unit(SearchesIn(p, d)) /\ Unit(p \in B) = Unit(SearchesIn(p, d)')
      BY <3>2 DEF Unit
    <3> QED BY <3>3, <3>4 DEF A, B
  <2>2. Cardinality(HoldersIn(d)') = Cardinality(HoldersIn(d)) + Unit(HoldsIn(p, d)') - Unit(HoldsIn(p, d))
    <3> DEFINE A == HoldersIn(d)
               B == HoldersIn(d)'
    <3>0. ASSUME NEW q \in Proc, q # p PROVE HoldsIn(q, d)' <=> HoldsIn(q, d)
      <4>1. Holds(q)' <=> Holds(q)
        BY <3>0 DEF Holds, Others
      <4>2. Holds(q) => proc'[q].e = proc[q].e /\ inode'[proc[q].e].sb = inode[proc[q].e].sb
        BY <3>0, Counted DEF Others
      <4> QED BY <4>1, <4>2 DEF HoldsIn
    <3>1. A \ {p} = B \ {p} /\ IsFiniteSet(A)
      BY CountedFinite, <3>0 DEF HoldersIn
    <3>2. (p \in A <=> HoldsIn(p, d)) /\ (p \in B <=> HoldsIn(p, d)')
      BY DEF HoldersIn
    <3> HIDE DEF A, B
    <3>3. Cardinality(B) = Cardinality(A) + Unit(p \in B) - Unit(p \in A)
      BY <3>1, CardStep
    <3>4. Unit(p \in A) = Unit(HoldsIn(p, d)) /\ Unit(p \in B) = Unit(HoldsIn(p, d)')
      BY <3>2 DEF Unit
    <3> QED BY <3>3, <3>4 DEF A, B
  <2>3. Cardinality(MountedIn(d)') = Cardinality(MountedIn(d)) + Unit(MountsIn(e0, d)') - Unit(MountsIn(e0, d))
    <3> DEFINE A == MountedIn(d)
               B == MountedIn(d)'
    <3>0. ASSUME NEW e \in Entry, e # e0 PROVE MountsIn(e, d)' <=> MountsIn(e, d)
      <4>1. MountHolds(e)' <=> MountHolds(e)
        BY <3>0
      <4>2. MountHolds(e) => inode'[e].sb = inode[e].sb
        BY Counted
      <4> QED BY <4>1, <4>2 DEF MountsIn
    <3>1. A \ {e0} = B \ {e0} /\ IsFiniteSet(A)
      BY CountedFinite, <3>0 DEF MountedIn
    <3>2. (e0 \in A <=> MountsIn(e0, d)) /\ (e0 \in B <=> MountsIn(e0, d)')
      BY DEF MountedIn
    <3> HIDE DEF A, B
    <3>3. Cardinality(B) = Cardinality(A) + Unit(e0 \in B) - Unit(e0 \in A)
      BY <3>1, CardStep
    <3>4. Unit(e0 \in A) = Unit(MountsIn(e0, d)) /\ Unit(e0 \in B) = Unit(MountsIn(e0, d)')
      BY <3>2 DEF Unit
    <3> QED BY <3>3, <3>4 DEF A, B
  <2>4. sb[d].mcount = Cardinality(SearchersIn(d)) + Cardinality(HoldersIn(d)) + Cardinality(MountedIn(d))
    BY DEF Counts
  <2>5. /\ Unit(SearchesIn(p, d)') \in Int /\ Unit(SearchesIn(p, d)) \in Int /\ Unit(HoldsIn(p, d)') \in Int
        /\ Unit(HoldsIn(p, d)) \in Int /\ Unit(MountsIn(e0, d)') \in Int /\ Unit(MountsIn(e0, d)) \in Int
        /\ Cardinality(SearchersIn(d)) \in Int /\ Cardinality(HoldersIn(d)) \in Int /\ Cardinality(MountedIn(d)) \in Int
    BY CountedFinite DEF Unit
  <2> QED BY <2>1, <2>2, <2>3, <2>4, <2>5
<1> QED BY <1>1, <1>2 DEF Counts

-----------------------------------------------------------------------------
(* What a step of one process leaves alone *)

\* The umount has not begun to give back the directory; it has the reference of mount to the
\* directory, or to the device file.
Marks(p) == proc[p].then \notin {"unlink", "iumerase"} /\ proc[p].pc \notin {"unlink", "undev", "iumerase", "done"}
Keeps1(p) == proc[p].then # "iumerase" /\ proc[p].pc \notin {"unlink", "undev", "iumerase", "done"}
Keeps2(p) == proc[p].pc \notin {"iumerase", "done"}

SamePhase(p) ==
    p \in Umounter =>
        /\ Busy(p)' <=> Busy(p)
        /\ Tested(p)' <=> Tested(p)
        /\ Unlinked(p)' <=> Unlinked(p)
        /\ Marks(p)' <=> Marks(p)
        /\ Keeps1(p)' <=> Keeps1(p)
        /\ Keeps2(p)' <=> Keeps2(p)

\* The references that a mount keeps, by how far each umount is.
LEMMA MountHoldsIs ==
    \A e : MountHolds(e) <=> \/ e = 1 /\ \A p \in Umounter : Keeps1(p)
                             \/ e = 2 /\ \A p \in Umounter : Keeps2(p)
BY DEF MountHolds, Keeps1, Keeps2

\* A step that is not one of umount leaves what umount does, and what the mount keeps, alone.
LEMMA PhaseKeeps ==
    ASSUME NEW p \in Proc, Others(p), SamePhase(p)
    PROVE  /\ \A e : MountHolds(e)' <=> MountHolds(e)
           /\ \A q \in Umounter : /\ Busy(q)' <=> Busy(q)
                                  /\ Tested(q)' <=> Tested(q)
                                  /\ Unlinked(q)' <=> Unlinked(q)
                                  /\ Marks(q)' <=> Marks(q)
<1>1. ASSUME NEW q \in Umounter
      PROVE  /\ Busy(q)' <=> Busy(q)
             /\ Tested(q)' <=> Tested(q)
             /\ Unlinked(q)' <=> Unlinked(q)
             /\ Marks(q)' <=> Marks(q)
             /\ Keeps1(q)' <=> Keeps1(q)
             /\ Keeps2(q)' <=> Keeps2(q)
  <2>1. CASE q = p
    BY <2>1 DEF SamePhase
  <2>2. CASE q # p
    <3>1. proc'[q] = proc[q]
      BY <2>2, Constants DEF Others
    <3> QED BY <3>1 DEF Busy, Tested, Unlinked, Marks, Keeps1, Keeps2
  <2> QED BY <2>1, <2>2
<1>2. ASSUME NEW e PROVE MountHolds(e)' <=> MountHolds(e)
  <2>1. MountHolds(e)' <=> \/ e = 1 /\ \A q \in Umounter : Keeps1(q)'
                           \/ e = 2 /\ \A q \in Umounter : Keeps2(q)'
    BY DEF MountHolds, Keeps1, Keeps2
  <2> QED BY <2>1, <1>1, MountHoldsIs
<1> QED BY <1>1, <1>2

\* An entry that does not change, while mount keeps its references.
LEMMA EntryKeeps ==
    ASSUME NEW e \in Entry, EntryOf(e), inode'[e] = inode[e], MountHolds(e)' => MountHolds(e),
           inode[e].mount => \A q \in Umounter : Marks(q) => Marks(q)'
    PROVE  EntryOf(e)'
<1>1. inode[e].mount => \A q \in Umounter : Marks(q)
  BY DEF EntryOf, Marks
<1>2. inode[e].mount => \A q \in Umounter : Marks(q)'
  BY <1>1
<1>3. inode'[e].mount => e = 1 /\ \A q \in Umounter :
          proc'[q].then \notin {"unlink", "iumerase"} /\ proc'[q].pc \notin {"unlink", "undev", "iumerase", "done"}
  BY <1>2 DEF Marks, EntryOf
<1> QED BY <1>3 DEF EntryOf, Is

\* What other processes know of the entry that changes.
Apart(p, e) ==
    \A q \in Proc \ {p} : proc[q].e = e =>
        /\ proc[q].pc \notin Owning
        /\ proc[q].pc = "found" => inode'[e].dev = inode[e].dev
        /\ q \in User /\ Holds(q) => inode'[e].dev = inode[e].dev /\ inode'[e].ino = inode[e].ino
        /\ q \in Locker => inode'[e].mode

\* A step that changes one entry, of which the other processes know nothing, leaves what they know.
LEMMA HandsKeep ==
    ASSUME Types, Locals, Hands, NEW p \in Proc, Others(p), HandOf(p)', NEW e \in Entry, Apart(p, e),
           \A d \in Entry \ {e} : inode'[d] = inode[d]
    PROVE  Hands'
<1> SUFFICES ASSUME NEW q \in Proc, q # p PROVE HandOf(q)'
  BY DEF Hands
<1>0. HandOf(q) /\ LocalsOf(q) /\ proc'[q] = proc[q] /\ proc[q].e \in Entry \cup {NULL}
  BY DEF Hands, Locals, Others, Types, ProcType
<1>1. proc[q].pc \in {"found", "read", "iput", "iputend", "iputfree"} => proc[q].e \in Entry
  BY <1>0, Constants DEF LocalsOf, UserPc, Putting
<1>2. proc[q].e \in Entry /\ proc[q].e # e => inode'[proc[q].e] = inode[proc[q].e]
  OBVIOUS
<1>3. (Holds(q)' <=> Holds(q)) /\ (Holds(q) => proc[q].e \in Entry)
  BY <1>0 DEF Holds
<1>4. proc[q].e = e =>
        /\ proc[q].pc \notin Owning
        /\ proc[q].pc = "found" => inode'[e].dev = inode[e].dev
        /\ q \in User /\ Holds(q) => inode'[e].dev = inode[e].dev /\ inode'[e].ino = inode[e].ino
        /\ q \in Locker => inode'[e].mode
  BY DEF Apart
<1>5. q \in Locker /\ proc[q].pc # "absent" => inode'[3].mode
  BY <1>0, <1>2, <1>4, Constants DEF LocalsOf, HandOf
<1>6. proc[q].pc = "found" => inode'[proc[q].e].dev = proc[q].dev
  BY <1>0, <1>1, <1>2, <1>4 DEF HandOf
<1>7. q \in User /\ Holds(q) => inode'[proc[q].e].dev = proc[q].dev /\ inode'[proc[q].e].ino = proc[q].ino
  BY <1>0, <1>2, <1>3, <1>4 DEF HandOf, Is
<1>8. proc[q].pc \in {"read", "iput", "iputend", "iputfree"} => inode'[proc[q].e] = inode[proc[q].e]
  BY <1>1, <1>2, <1>4 DEF Owning, Putting
<1> QED BY <1>0, <1>3, <1>5, <1>6, <1>7, <1>8 DEF HandOf, Is

\* Umounts depends on the processes in umount and on the SBs only.
LEMMA UmountsKeep ==
    ASSUME Umounts, NEW p \in Proc, Others(p), SamePhase(p),
           \A d \in Device : sb'[d].mounted = sb[d].mounted /\ sb'[d].mbusy = sb[d].mbusy,
           sb[Mounted].mcount = 0 /\ (\E q \in Umounter : Tested(q)) => sb'[Mounted].mcount = 0
    PROVE  Umounts'
<1>1. \A q \in Umounter : /\ Busy(q)' <=> Busy(q)
                          /\ Tested(q)' <=> Tested(q)
                          /\ Unlinked(q)' <=> Unlinked(q)
  BY PhaseKeeps
<1>2. Root \in Device /\ Mounted \in Device
  BY Constants
<1> QED BY <1>1, <1>2 DEF Umounts

\* While an umount is in progress, and after it, nobody is admitted.
LEMMA Refused ==
    ASSUME Umounts, Locals, NEW q \in Umounter, Busy(q) \/ Tested(q)
    PROVE  ~Admits(Mounted) /\ Busy(q)
<1>1. LocalsOf(q)
  BY Constants DEF Locals
<1>2. Busy(q)
  BY <1>1 DEF Busy, Tested, LocalsOf, Putting
<1> QED BY <1>2 DEF Umounts, Admits

\* The parts of the invariant.
LEMMA StepKeeps ==
    ASSUME InodeInv, NEW p \in Proc, NEW e \in Entry, Others(p),
           \A d \in Entry \ {e} : inode'[d] = inode[d],
           SamePhase(p), inode' = inode \/ (Apart(p, e) /\ EntryOf(e)'),
           LocalsOf(p)', HandOf(p)', Types', Locks', Counts', Umounts', HashExact'
    PROVE  InodeInv'
<1>1. Locals'
  BY LocalsKeep DEF InodeInv
<1>2. \A d \in Entry : EntryOf(d)
  BY DEF InodeInv, Entries
<1>3. \A d : MountHolds(d)' <=> MountHolds(d)
  BY PhaseKeeps
<1>4. \A q \in Umounter : Marks(q)' <=> Marks(q)
  BY PhaseKeeps
<1>5. \A d \in Entry : inode'[d] = inode[d] => EntryOf(d)'
  BY <1>2, <1>3, <1>4, EntryKeeps
<1>6. Entries'
  BY <1>5 DEF Entries
<1>7. Hands'
  <2>1. CASE inode' = inode
    <3>1. ASSUME NEW q \in Proc, q # p PROVE HandOf(q)'
      BY <3>1, <2>1 DEF InodeInv, Hands, HandOf, Others, Holds, Is
    <3> QED BY <3>1 DEF Hands
  <2>2. CASE Apart(p, e)
    BY <2>2, HandsKeep DEF InodeInv
  <2> QED BY <2>1, <2>2
<1>8. CountsExact'
  <2>1. CountsExact' <=> Counts'
    BY CountsSame, PTL
  <2> QED BY <2>1
<1> QED BY <1>1, <1>6, <1>7, <1>8 DEF InodeInv

\* The same references and searches.
SameRefs(p) ==
    /\ Holds(p)' <=> Holds(p)
    /\ Holds(p) => proc'[p].e = proc[p].e
    /\ \A d \in Device : SearchesIn(p, d)' <=> SearchesIn(p, d)

\* The counts and the references both stay.
LEMMA CountsKeep ==
    ASSUME Types, Counts, NEW p \in Proc, Others(p), SamePhase(p), SameRefs(p),
           \A e \in Entry : inode'[e].count = inode[e].count /\ inode'[e].sb = inode[e].sb,
           \A d \in Device : sb'[d].mcount = sb[d].mcount
    PROVE  Counts'
<1>0. 1 \in Entry
  BY Constants
<1>1. \A e : MountHolds(e)' <=> MountHolds(e)
  BY PhaseKeeps
<1>2. ASSUME NEW e \in Entry
      PROVE  inode'[e].count = inode[e].count + Unit(HoldsOn(p, e)') - Unit(HoldsOn(p, e))
                               + Unit(MountHolds(e)') - Unit(MountHolds(e))
  <2>1. (HoldsOn(p, e)' <=> HoldsOn(p, e)) /\ (MountHolds(e)' <=> MountHolds(e))
    BY <1>1 DEF HoldsOn, SameRefs
  <2>2. /\ Unit(HoldsOn(p, e)') = Unit(HoldsOn(p, e)) /\ Unit(MountHolds(e)') = Unit(MountHolds(e))
        /\ Unit(HoldsOn(p, e)) \in Int /\ Unit(MountHolds(e)) \in Int /\ inode[e].count \in Int
    BY <2>1 DEF Unit, Types, InodeType
  <2> QED BY <2>2
<1>3. ASSUME NEW d \in Device
      PROVE  sb'[d].mcount = sb[d].mcount + Unit(SearchesIn(p, d)') - Unit(SearchesIn(p, d))
                             + Unit(HoldsIn(p, d)') - Unit(HoldsIn(p, d))
                             + Unit(MountsIn(1, d)') - Unit(MountsIn(1, d))
  <2>1. HoldsIn(p, d)' <=> HoldsIn(p, d)
    BY DEF HoldsIn, SameRefs, Types, ProcType, Holds
  <2>2. MountsIn(1, d)' <=> MountsIn(1, d)
    BY <1>0, <1>1 DEF MountsIn
  <2>3. SearchesIn(p, d)' <=> SearchesIn(p, d)
    BY DEF SameRefs
  <2>4. /\ Unit(HoldsIn(p, d)') = Unit(HoldsIn(p, d)) /\ Unit(MountsIn(1, d)') = Unit(MountsIn(1, d))
        /\ Unit(SearchesIn(p, d)') = Unit(SearchesIn(p, d))
        /\ Unit(HoldsIn(p, d)) \in Int /\ Unit(MountsIn(1, d)) \in Int /\ Unit(SearchesIn(p, d)) \in Int
        /\ sb[d].mcount \in Int
    BY <2>1, <2>2, <2>3 DEF Unit, Types, SbType
  <2> QED BY <2>4
<1>4. \A e \in Entry : inode[e].count > 0 => inode'[e].sb = inode[e].sb
  OBVIOUS
<1>5. \A e \in Entry \ {1} : MountHolds(e)' <=> MountHolds(e)
  BY <1>1
<1> QED BY <1>0, <1>2, <1>3, <1>4, <1>5, CountsStep

\* The hash queues stay when no entry gets another inode.
LEMMA HashKeeps ==
    ASSUME HashExact, hash' = hash, \A e \in Entry : inode'[e].dev = inode[e].dev /\ inode'[e].ino = inode[e].ino
    PROVE  HashExact'
BY DEF HashExact, Is

\* A step that changes no entry.
LEMMA WalkKeeps ==
    ASSUME InodeInv, NEW p \in Proc, Others(p), inode' = inode, hash' = hash, sb' = sb,
           SamePhase(p), SameRefs(p), LocalsOf(p)', HandOf(p)', Types', Locks'
    PROVE  InodeInv'
<1>1. Counts
  BY CountsSame DEF InodeInv
<1>2. Counts'
  BY <1>1, CountsKeep DEF InodeInv
<1>3. Umounts'
  BY UmountsKeep DEF InodeInv
<1>4. HashExact'
  BY HashKeeps DEF InodeInv
<1>5. 1 \in Entry
  BY Constants
<1> QED BY <1>2, <1>3, <1>4, <1>5, StepKeeps

\* The entry is still in order when it keeps its identity, is not marked as a mount now, and
\* is changed only with a reference.
LEMMA EntrySame ==
    ASSUME NEW p \in Proc, Others(p), SamePhase(p), NEW e \in Entry, EntryOf(e),
           inode'[e].dev = inode[e].dev, inode'[e].ino = inode[e].ino, inode'[e].sb = inode[e].sb,
           inode'[e].count > 0 => inode[e].ino # NULL,
           inode'[e].chg => inode'[e].mode /\ inode'[e].count > 0,
           inode'[e].mount => inode[e].mount
    PROVE  EntryOf(e)'
<1>1. \A d : MountHolds(d)' <=> MountHolds(d)
  BY PhaseKeeps
<1>2. \A q \in Umounter : Marks(q)' <=> Marks(q)
  BY PhaseKeeps
<1>3. inode'[e].mount => e = 1 /\ \A q \in Umounter : Marks(q)'
  BY <1>2 DEF EntryOf, Marks
<1>4. inode'[e].mount => e = 1 /\ \A q \in Umounter :
          proc'[q].then \notin {"unlink", "iumerase"} /\ proc'[q].pc \notin {"unlink", "undev", "iumerase", "done"}
  BY <1>3 DEF Marks
<1>5. (e = 1 /\ MountHolds(e)' => Is(e, Root, DirIno)') /\ (e = 2 /\ MountHolds(e)' => Is(e, Root, DevIno)')
  BY <1>1 DEF EntryOf, Is
<1> QED BY <1>4, <1>5 DEF EntryOf

\* What is another's stays as it was when the owner of the lock keeps the identity of the entry.
LEMMA OwnerApart ==
    ASSUME Types, Locals, Locks, Hands, NEW p \in Proc, NEW e \in Entry, Owns(p), proc[p].e = e,
           inode'[e].dev = inode[e].dev, inode'[e].ino = inode[e].ino,
           inode[e].mode /\ (\E q \in Locker \ {p} : proc[q].e = e) => inode'[e].mode
    PROVE  Apart(p, e)
<1> SUFFICES ASSUME NEW q \in Proc, q # p, proc[q].e = e
             PROVE  /\ proc[q].pc \notin Owning
                    /\ q \in Locker => inode'[e].mode
  BY DEF Apart
<1>1. proc[q].pc \notin Owning
  BY OneOwner
<1>2. LocalsOf(q) /\ HandOf(q)
  BY DEF Locals, Hands
<1>3. q \in Locker => inode'[e].mode
  BY <1>2, Constants DEF LocalsOf, HandOf
<1> QED BY <1>1, <1>3

\* The owner of the lock changes the inode, not the references.
LEMMA ChangeKeeps ==
    ASSUME InodeInv, NEW p \in Proc, Others(p), NEW e \in Entry, Owns(p), proc[p].e = e,
           \A d \in Entry \ {e} : inode'[d] = inode[d],
           inode'[e].dev = inode[e].dev, inode'[e].ino = inode[e].ino,
           inode'[e].count = inode[e].count, inode'[e].sb = inode[e].sb,
           inode[e].mode /\ (\E q \in Locker \ {p} : proc[q].e = e) => inode'[e].mode,
           EntryOf(e)', hash' = hash, sb' = sb,
           SamePhase(p), SameRefs(p), LocalsOf(p)', HandOf(p)', Types', Locks'
    PROVE  InodeInv'
<1>1. Counts
  BY CountsSame DEF InodeInv
<1>2. \A d \in Entry : /\ inode'[d].dev = inode[d].dev /\ inode'[d].ino = inode[d].ino
                       /\ inode'[d].count = inode[d].count /\ inode'[d].sb = inode[d].sb
  OBVIOUS
<1>3. Counts'
  BY <1>1, <1>2, CountsKeep DEF InodeInv
<1>4. Umounts'
  BY UmountsKeep DEF InodeInv
<1>5. HashExact'
  BY <1>2, HashKeeps DEF InodeInv
<1>6. Apart(p, e)
  BY OwnerApart DEF InodeInv
<1> QED BY <1>3, <1>4, <1>5, <1>6, StepKeeps

\* A step of one process that changes its references; mount keeps its own.
LEMMA CountsRefs ==
    ASSUME Types, Counts, NEW p \in Proc, Others(p), SamePhase(p),
           \A e \in Entry : inode[e].count > 0 => inode'[e].sb = inode[e].sb,
           \A e \in Entry : inode'[e].count = inode[e].count + Unit(HoldsOn(p, e)') - Unit(HoldsOn(p, e)),
           \A d \in Device : sb'[d].mcount = sb[d].mcount + Unit(SearchesIn(p, d)') - Unit(SearchesIn(p, d))
                                             + Unit(HoldsIn(p, d)') - Unit(HoldsIn(p, d))
    PROVE  Counts'
<1>0. 1 \in Entry
  BY Constants
<1>1. \A e : MountHolds(e)' <=> MountHolds(e)
  BY PhaseKeeps
<1>2. ASSUME NEW e \in Entry
      PROVE  inode'[e].count = inode[e].count + Unit(HoldsOn(p, e)') - Unit(HoldsOn(p, e))
                               + Unit(MountHolds(e)') - Unit(MountHolds(e))
  <2>1. MountHolds(e)' <=> MountHolds(e)
    BY <1>1
  <2>2. /\ Unit(MountHolds(e)') = Unit(MountHolds(e)) /\ Unit(MountHolds(e)) \in Int
        /\ Unit(HoldsOn(p, e)) \in Int /\ Unit(HoldsOn(p, e)') \in Int /\ inode[e].count \in Int
    BY <2>1 DEF Unit, Types, InodeType
  <2> QED BY <2>2
<1>3. ASSUME NEW d \in Device
      PROVE  sb'[d].mcount = sb[d].mcount + Unit(SearchesIn(p, d)') - Unit(SearchesIn(p, d))
                             + Unit(HoldsIn(p, d)') - Unit(HoldsIn(p, d))
                             + Unit(MountsIn(1, d)') - Unit(MountsIn(1, d))
  <2>1. MountHolds(1) => inode'[1].sb = inode[1].sb
    BY <1>0, Counted
  <2>2. MountsIn(1, d)' <=> MountsIn(1, d)
    BY <1>0, <1>1, <2>1 DEF MountsIn
  <2>3. /\ Unit(MountsIn(1, d)') = Unit(MountsIn(1, d)) /\ Unit(MountsIn(1, d)) \in Int
        /\ Unit(HoldsIn(p, d)) \in Int /\ Unit(HoldsIn(p, d)') \in Int
        /\ Unit(SearchesIn(p, d)) \in Int /\ Unit(SearchesIn(p, d)') \in Int /\ sb[d].mcount \in Int
    BY <2>2 DEF Unit, Types, SbType
  <2> QED BY <2>3
<1>4. \A e \in Entry \ {1} : MountHolds(e)' <=> MountHolds(e)
  BY <1>1
<1> QED BY <1>0, <1>2, <1>3, <1>4, CountsStep
-----------------------------------------------------------------------------
(* Types *)

\* A step gives one process other locals.
LEMMA ProcUpdate ==
    ASSUME Types, NEW p \in Proc, NEW r \in ProcType, proc' = [proc EXCEPT ![p] = r]
    PROVE  proc' \in [Proc -> ProcType] /\ proc'[p] = r /\ Others(p)
BY DEF Types, Others

\* The process goes on, with another entry, or with another inode to look for.
LEMMA GotoIs ==
    ASSUME Types, NEW p \in Proc, NEW pc \in Label, proc' = [proc EXCEPT ![p].pc = pc]
    PROVE  /\ proc' \in [Proc -> ProcType] /\ Others(p)
           /\ proc'[p].pc = pc /\ proc'[p].e = proc[p].e /\ proc'[p].dev = proc[p].dev /\ proc'[p].ino = proc[p].ino
           /\ proc'[p].then = proc[p].then /\ proc'[p].i = proc[p].i
<1> DEFINE r == [proc[p] EXCEPT !.pc = pc]
<1>1. proc[p] \in ProcType
  BY DEF Types
<1>2. /\ r \in ProcType /\ r.pc = pc /\ r.e = proc[p].e /\ r.dev = proc[p].dev /\ r.ino = proc[p].ino
      /\ r.then = proc[p].then /\ r.i = proc[p].i
  BY <1>1 DEF ProcType
<1>3. proc' = [proc EXCEPT ![p] = r]
  OBVIOUS
<1> HIDE DEF r
<1> QED BY <1>2, <1>3, ProcUpdate

\* The same with another entry.
LEMMA GotoEntryIs ==
    ASSUME Types, NEW p \in Proc, NEW pc \in Label, NEW e \in Entry \cup {NULL},
           proc' = [proc EXCEPT ![p].pc = pc, ![p].e = e]
    PROVE  /\ proc' \in [Proc -> ProcType] /\ Others(p)
           /\ proc'[p].pc = pc /\ proc'[p].e = e /\ proc'[p].dev = proc[p].dev /\ proc'[p].ino = proc[p].ino
           /\ proc'[p].then = proc[p].then /\ proc'[p].i = proc[p].i
<1> DEFINE r == [proc[p] EXCEPT !.pc = pc, !.e = e]
<1>1. proc[p] \in ProcType
  BY DEF Types
<1>2. /\ r \in ProcType /\ r.pc = pc /\ r.e = e /\ r.dev = proc[p].dev /\ r.ino = proc[p].ino
      /\ r.then = proc[p].then /\ r.i = proc[p].i
  BY <1>1 DEF ProcType
<1>3. proc' = [proc EXCEPT ![p] = r]
  OBVIOUS
<1> HIDE DEF r
<1> QED BY <1>2, <1>3, ProcUpdate

\* The process looks for an inode.
LEMMA SearchIs ==
    ASSUME Types, NEW p \in Proc, NEW pc \in Label, NEW dev \in Device, NEW ino \in Ino,
           proc' = [proc EXCEPT ![p].pc = pc, ![p].dev = dev, ![p].ino = ino]
    PROVE  /\ proc' \in [Proc -> ProcType] /\ Others(p)
           /\ proc'[p].pc = pc /\ proc'[p].e = proc[p].e /\ proc'[p].dev = dev /\ proc'[p].ino = ino
           /\ proc'[p].then = proc[p].then
<1> DEFINE r == [proc[p] EXCEPT !.pc = pc, !.dev = dev, !.ino = ino]
<1>1. proc[p] \in ProcType
  BY DEF Types
<1>2. /\ r \in ProcType /\ r.pc = pc /\ r.e = proc[p].e /\ r.dev = dev /\ r.ino = ino
      /\ r.then = proc[p].then
  BY <1>1 DEF ProcType
<1>3. proc' = [proc EXCEPT ![p] = r]
  OBVIOUS
<1> HIDE DEF r
<1> QED BY <1>2, <1>3, ProcUpdate

\* The same with an entry found.
LEMMA SearchEntryIs ==
    ASSUME Types, NEW p \in Proc, NEW pc \in Label, NEW dev \in Device, NEW ino \in Ino,
           NEW e \in Entry \cup {NULL},
           proc' = [proc EXCEPT ![p].pc = pc, ![p].dev = dev, ![p].ino = ino, ![p].e = e]
    PROVE  /\ proc' \in [Proc -> ProcType] /\ Others(p)
           /\ proc'[p].pc = pc /\ proc'[p].e = e /\ proc'[p].dev = dev /\ proc'[p].ino = ino
           /\ proc'[p].then = proc[p].then
<1> DEFINE r == [proc[p] EXCEPT !.pc = pc, !.dev = dev, !.ino = ino, !.e = e]
<1>1. proc[p] \in ProcType
  BY DEF Types
<1>2. /\ r \in ProcType /\ r.pc = pc /\ r.e = e /\ r.dev = dev /\ r.ino = ino
      /\ r.then = proc[p].then
  BY <1>1 DEF ProcType
<1>3. proc' = [proc EXCEPT ![p] = r]
  OBVIOUS
<1> HIDE DEF r
<1> QED BY <1>2, <1>3, ProcUpdate

\* The process puts its inode, and knows then what to do next.
LEMMA ThenIs ==
    ASSUME Types, NEW p \in Proc, NEW pc \in Label, NEW then \in {"user", "visit", "unlink", "iumerase"},
           proc' = [proc EXCEPT ![p].pc = pc, ![p].then = then]
    PROVE  /\ proc' \in [Proc -> ProcType] /\ Others(p)
           /\ proc'[p].pc = pc /\ proc'[p].e = proc[p].e /\ proc'[p].dev = proc[p].dev /\ proc'[p].ino = proc[p].ino
           /\ proc'[p].then = then
<1> DEFINE r == [proc[p] EXCEPT !.pc = pc, !.then = then]
<1>1. proc[p] \in ProcType
  BY DEF Types
<1>2. /\ r \in ProcType /\ r.pc = pc /\ r.e = proc[p].e /\ r.dev = proc[p].dev /\ r.ino = proc[p].ino
      /\ r.then = then
  BY <1>1 DEF ProcType
<1>3. proc' = [proc EXCEPT ![p] = r]
  OBVIOUS
<1> HIDE DEF r
<1> QED BY <1>2, <1>3, ProcUpdate

\* The place in the table from which an update goes on.
LEMMA PlaceIs ==
    ASSUME Types, NEW p \in Proc, NEW pc \in Label, NEW i \in Nat \ {0}
    PROVE  /\ proc' = [proc EXCEPT ![p].pc = pc, ![p].i = i] =>
                /\ proc' \in [Proc -> ProcType] /\ Others(p)
                /\ proc'[p].pc = pc /\ proc'[p].e = proc[p].e /\ proc'[p].then = proc[p].then
           /\ \A e \in Entry : proc' = [proc EXCEPT ![p].pc = pc, ![p].e = e, ![p].i = i] =>
                /\ proc' \in [Proc -> ProcType] /\ Others(p)
                /\ proc'[p].pc = pc /\ proc'[p].e = e /\ proc'[p].then = proc[p].then
<1>1. proc[p] \in ProcType
  BY DEF Types
<1>2. ASSUME proc' = [proc EXCEPT ![p].pc = pc, ![p].i = i]
      PROVE  /\ proc' \in [Proc -> ProcType] /\ Others(p)
             /\ proc'[p].pc = pc /\ proc'[p].e = proc[p].e /\ proc'[p].then = proc[p].then
  <2> DEFINE r == [proc[p] EXCEPT !.pc = pc, !.i = i]
  <2>1. r \in ProcType /\ r.pc = pc /\ r.e = proc[p].e /\ r.then = proc[p].then
    BY <1>1 DEF ProcType
  <2>2. proc' = [proc EXCEPT ![p] = r]
    BY <1>2
  <2> HIDE DEF r
  <2> QED BY <2>1, <2>2, ProcUpdate
<1>3. ASSUME NEW e \in Entry, proc' = [proc EXCEPT ![p].pc = pc, ![p].e = e, ![p].i = i]
      PROVE  /\ proc' \in [Proc -> ProcType] /\ Others(p)
             /\ proc'[p].pc = pc /\ proc'[p].e = e /\ proc'[p].then = proc[p].then
  <2> DEFINE r == [proc[p] EXCEPT !.pc = pc, !.e = e, !.i = i]
  <2>1. r \in ProcType /\ r.pc = pc /\ r.e = e /\ r.then = proc[p].then
    BY <1>1 DEF ProcType
  <2>2. proc' = [proc EXCEPT ![p] = r]
    BY <1>3
  <2> HIDE DEF r
  <2> QED BY <2>1, <2>2, ProcUpdate
<1> QED BY <1>2, <1>3

\* The process leaves its call without an inode.
LEMMA BackIs ==
    ASSUME Types, NEW p \in Proc, Back(p)
    PROVE  /\ proc' \in [Proc -> ProcType] /\ Others(p)
           /\ proc'[p].pc = "user" /\ proc'[p].e = NULL /\ proc'[p].then = "user"
<1>1. Idle \in ProcType /\ Idle.pc = "user" /\ Idle.e = NULL /\ Idle.then = "user"
  BY DEF Idle, ProcType, Label
<1> QED BY <1>1, ProcUpdate DEF Back

\* A step changes one entry.
LEMMA InodeUpdate ==
    ASSUME Types, NEW e \in Entry, NEW r \in InodeType, inode' = [inode EXCEPT ![e] = r]
    PROVE  inode' \in [Entry -> InodeType] /\ inode'[e] = r /\ \A d \in Entry \ {e} : inode'[d] = inode[d]
BY DEF Types

\* A step changes the count of one SB.
LEMMA McountIs ==
    ASSUME Types, NEW d \in Device, NEW n \in Int, sb[d].mcount + n \in Nat, Mcount(d, n)
    PROVE  /\ sb' \in [Device -> SbType]
           /\ \A c \in Device : /\ sb'[c].mounted = sb[c].mounted /\ sb'[c].mbusy = sb[c].mbusy
                                 /\ sb'[c].mcount = IF c = d THEN sb[c].mcount + n ELSE sb[c].mcount
<1> DEFINE r == [sb[d] EXCEPT !.mcount = @ + n]
<1>1. sb[d] \in SbType /\ sb \in [Device -> SbType]
  BY DEF Types
<1>2. r \in SbType /\ r.mounted = sb[d].mounted /\ r.mbusy = sb[d].mbusy /\ r.mcount = sb[d].mcount + n
  BY <1>1 DEF SbType
<1>3. sb' = [sb EXCEPT ![d] = r]
  BY DEF Mcount
<1> HIDE DEF r
<1> QED BY <1>1, <1>2, <1>3

\* The counts are numbers.
LEMMA NumbersAre ==
    ASSUME Types
    PROVE  /\ \A e \in Entry : inode[e] \in InodeType /\ inode[e].count \in Nat
           /\ \A d \in Device : sb[d] \in SbType /\ sb[d].mcount \in Nat
BY DEF Types, InodeType, SbType

\* An entry goes to the end of the LRU list.
LEMMA LruUpdate ==
    ASSUME Types, NEW e \in Entry, PutEndLru(e)
    PROVE  lru' \in Seq(Entry) /\ NoRepeat(lru') /\ ToSet(lru') = Entry
<1>1. lru \in Seq(Entry) /\ NoRepeat(lru) /\ ToSet(lru) = Entry
  BY DEF Types
<1> DEFINE s == RemoveFirst(lru, e)
<1>2. s \in Seq(Entry) /\ ToSet(s) = Entry \ {e} /\ NoRepeat(s)
  BY <1>1, RemoveFirstElements
<1> HIDE DEF s
<1>3. Append(s, e) \in Seq(Entry) /\ ToSet(Append(s, e)) = Entry /\ NoRepeat(Append(s, e))
  <2>1. /\ Append(s, e) \in Seq(Entry) /\ ToSet(Append(s, e)) = ToSet(s) \cup {e}
        /\ NoRepeat(s) /\ e \notin ToSet(s) => NoRepeat(Append(s, e))
    BY <1>2, AppendElements
  <2>2. e \notin ToSet(s) /\ ToSet(s) \cup {e} = Entry
    BY <1>2
  <2> QED BY <1>2, <2>1, <2>2
<1> QED BY <1>3 DEF PutEndLru, s

\* A queue gets one more process at the end, or loses the first.
LEMMA LockUpdate ==
    ASSUME Types, NEW p \in Proc, NEW e \in Entry
    PROVE  /\ [lock EXCEPT ![e] = Append(@, p)] \in [Entry -> Seq(Proc)]
           /\ lock[e] # <<>> => [lock EXCEPT ![e] = Tail(@)] \in [Entry -> Seq(Proc)]
BY DEF Types

\* The parts of the invariant, and what the owner of a lock has.
LEMMA Parts ==
    ASSUME InodeInv, NEW p \in Proc
    PROVE  /\ Types /\ Locals /\ Locks /\ Umounts /\ Entries /\ Hands /\ HashExact /\ Counts
           /\ LocalsOf(p) /\ HandOf(p) /\ proc[p] \in ProcType
BY CountsSame DEF InodeInv, Locals, Hands, Types

\* The owner of a lock has an entry.
LEMMA OwnedEntry ==
    ASSUME InodeInv, NEW p \in Proc, Owns(p)
    PROVE  /\ proc[p].e \in Entry /\ inode[proc[p].e] \in InodeType /\ EntryOf(proc[p].e)
           /\ lock[proc[p].e] # <<>> /\ lock[proc[p].e] \in Seq(Proc) /\ InQueue(p)
<1>1. Types /\ Locks /\ Entries
  BY Parts
<1>2. proc[p].e \in Entry /\ lock[proc[p].e] # <<>> /\ Head(lock[proc[p].e]) = p
  BY <1>1 DEF Types, ProcType, Owns
<1>3. lock[proc[p].e] \in Seq(Proc) /\ inode[proc[p].e] \in InodeType /\ EntryOf(proc[p].e)
  BY <1>1, <1>2 DEF Types, Entries
<1>4. p \in ToSet(lock[proc[p].e])
  BY <1>2, <1>3 DEF ToSet
<1>5. InQueue(p)
  BY <1>1, <1>2, <1>4 DEF Locks, LockOf, InQueue
<1> QED BY <1>2, <1>3, <1>5

-----------------------------------------------------------------------------
(* iget *)

\* The entry is found in its hash queue: iget waits for it.
LEMMA HitKeeps ==
    ASSUME InodeInv, NEW p \in Proc, Hit(p)
    PROVE  InodeInv'
<1>1. PICK e \in Hits(p) : SleepLock(p, e, "found")
  BY DEF Hit
<1>2. e \in Entry /\ Is(e, proc[p].dev, proc[p].ino) /\ proc[p].pc = "again"
  BY <1>1 DEF Hit, Hits, InodeInv, Types, At
<1>3. /\ lock' = [lock EXCEPT ![e] = Append(@, p)]
      /\ proc' = [proc EXCEPT ![p].pc = "found", ![p].e = e]
      /\ cpu' \in Proc \cup {NULL}
      /\ UNCHANGED <<inode, lru, hash, sb, updlock>>
  BY <1>1 DEF SleepLock, Hit
<1>4. LocalsOf(p) /\ Types /\ Locks /\ HandOf(p)
  BY DEF InodeInv, Locals, Hands
<1>5. p \in User /\ p \notin Locker \cup Swapper \cup Umounter
  BY <1>2, <1>4, Constants DEF LocalsOf, Putting
<1>6. /\ proc' \in [Proc -> ProcType] /\ Others(p)
      /\ proc'[p].pc = "found" /\ proc'[p].e = e /\ proc'[p].dev = proc[p].dev /\ proc'[p].ino = proc[p].ino
      /\ proc'[p].then = proc[p].then
  BY <1>2, <1>3, <1>4, GotoEntryIs, ZenonT(60) DEF Label
<1>7. Types'
  BY <1>2, <1>3, <1>4, <1>6, LockUpdate DEF Types
<1>8. LocalsOf(p)'
  BY <1>2, <1>4, <1>5, <1>6, Constants DEF LocalsOf, UserPc, Putting
<1>9. Locks'
  <2>1. ~InQueue(p) /\ InQueue(p)' /\ proc'[p].pc \notin Owning
    BY <1>2, <1>6 DEF InQueue, Owning, Queueing, Putting
  <2> QED BY <1>2, <1>3, <1>4, <1>6, <2>1, LocksTake
<1>10. HandOf(p)'
  BY <1>2, <1>3, <1>5, <1>6 DEF HandOf, Is, Holds
<1>11. SamePhase(p)
  BY <1>5 DEF SamePhase
<1>12. SameRefs(p)
  BY <1>2, <1>4, <1>5, <1>6, Constants DEF SameRefs, Holds, SearchesIn, LocalsOf
<1> QED BY <1>3, <1>6, <1>7, <1>8, <1>9, <1>10, <1>11, <1>12, WalkKeeps

\* The search of iget begins, for a file of the user.
LEMMA GetKeeps ==
    ASSUME InodeInv, NEW p \in Proc, NEW id \in Opens, Get(p, id[1], id[2])
    PROVE  InodeInv'
<1> DEFINE dev == id[1]
           ino == id[2]
<1>1. /\ p \in User /\ proc[p].pc = "user" /\ proc[p].e = NULL /\ Admits(dev) /\ Mcount(dev, 1)
      /\ proc' = [proc EXCEPT ![p].pc = "again", ![p].dev = dev, ![p].ino = ino]
      /\ cpu' = p /\ UNCHANGED <<inode, lock, lru, hash, updlock>>
  BY DEF Get, At, Keeps
<1>2. dev \in Device /\ ino \in Ino
  BY Constants
<1> HIDE DEF dev, ino
<1>3. LocalsOf(p) /\ Types /\ Locks /\ HandOf(p) /\ HashExact /\ Umounts /\ Locals /\ Counts
  BY CountsSame DEF InodeInv, Locals, Hands
<1>4. p \notin Locker \cup Swapper \cup Umounter
  BY <1>1, Constants
<1>5. /\ proc' \in [Proc -> ProcType] /\ Others(p)
      /\ proc'[p].pc = "again" /\ proc'[p].e = NULL /\ proc'[p].dev = dev /\ proc'[p].ino = ino
      /\ proc'[p].then = proc[p].then
  <2>1. "again" \in Label
    BY DEF Label
  <2>2. Types /\ proc' = [proc EXCEPT ![p].pc = "again", ![p].dev = dev, ![p].ino = ino]
    BY <1>1, <1>3
  <2>3. /\ proc' \in [Proc -> ProcType] /\ Others(p)
        /\ proc'[p].pc = "again" /\ proc'[p].e = proc[p].e /\ proc'[p].dev = dev /\ proc'[p].ino = ino
        /\ proc'[p].then = proc[p].then
    BY <1>2, <2>1, <2>2, SearchIs
  <2> QED BY <1>1, <2>3
<1>6. /\ sb' \in [Device -> SbType]
      /\ \A c \in Device : /\ sb'[c].mounted = sb[c].mounted /\ sb'[c].mbusy = sb[c].mbusy
                           /\ sb'[c].mcount = IF c = dev THEN sb[c].mcount + 1 ELSE sb[c].mcount
  <2>1. sb[dev].mcount + 1 \in Nat
    BY <1>2, <1>3, NumbersAre
  <2> QED BY <1>1, <1>2, <1>3, <2>1, McountIs
<1>7. Types'
  BY <1>1, <1>3, <1>5, <1>6 DEF Types
<1>8. LocalsOf(p)'
  BY <1>1, <1>2, <1>3, <1>4, <1>5 DEF LocalsOf, UserPc, Putting
<1>9. Locks'
  <2>1. ~InQueue(p) /\ ~InQueue(p)' /\ proc'[p].pc \notin Owning
    BY <1>1, <1>5 DEF InQueue, Owning, Queueing, Putting
  <2> QED BY <1>1, <1>3, <1>5, <2>1, LocksSame
<1>10. HandOf(p)'
  BY <1>4, <1>5 DEF HandOf, Holds
<1>11. SamePhase(p)
  BY <1>4 DEF SamePhase
<1>12. Counts'
  <2>1. /\ \A e \in Entry : Unit(HoldsOn(p, e)') = 0 /\ Unit(HoldsOn(p, e)) = 0
        /\ \A d \in Device : Unit(HoldsIn(p, d)') = 0 /\ Unit(HoldsIn(p, d)) = 0
    BY <1>1, <1>5 DEF Unit, HoldsOn, HoldsIn, Holds
  <2>2. \A d \in Device : Unit(SearchesIn(p, d)') = (IF d = dev THEN 1 ELSE 0) /\ Unit(SearchesIn(p, d)) = 0
    BY <1>1, <1>5 DEF Unit, SearchesIn
  <2>3. \A e \in Entry : inode'[e].count = inode[e].count + Unit(HoldsOn(p, e)') - Unit(HoldsOn(p, e))
    BY <1>1, <1>3, <2>1, NumbersAre
  <2>4. \A d \in Device : sb'[d].mcount = sb[d].mcount + Unit(SearchesIn(p, d)') - Unit(SearchesIn(p, d))
                                          + Unit(HoldsIn(p, d)') - Unit(HoldsIn(p, d))
    BY <1>3, <1>6, <2>1, <2>2, NumbersAre
  <2>5. \A e \in Entry : inode'[e].sb = inode[e].sb
    BY <1>1
  <2> QED BY <1>3, <1>5, <1>11, <2>3, <2>4, <2>5, CountsRefs
<1>13. Umounts'
  <2>1. (\E q \in Umounter : Tested(q)) => dev # Mounted
    BY <1>1, <1>3, Refused
  <2> QED BY <1>3, <1>5, <1>6, <1>11, <2>1, Constants, UmountsKeep
<1>14. HashExact'
  BY <1>1, <1>3, HashKeeps
<1>15. 1 \in Entry /\ inode' = inode
  BY <1>1, Constants
<1> QED BY <1>5, <1>7, <1>8, <1>9, <1>10, <1>11, <1>12, <1>13, <1>14, <1>15, StepKeeps

\* The entry has another inode when its lock is got: the search begins again.
LEMMA FoundOtherKeeps ==
    ASSUME InodeInv, NEW p \in Proc, FoundOther(p)
    PROVE  InodeInv'
<1> DEFINE e == proc[p].e
<1>1. /\ proc[p].pc = "found" /\ Owns(p) /\ lock' = [lock EXCEPT ![e] = Tail(@)]
      /\ proc' = [proc EXCEPT ![p].pc = "again", ![p].e = NULL]
      /\ cpu' = p /\ UNCHANGED <<inode, lru, hash, sb, updlock>>
  BY DEF FoundOther, Locked, At, SleepFree, Keeps
<1>2. LocalsOf(p) /\ Types /\ Locks /\ HandOf(p)
  BY DEF InodeInv, Locals, Hands
<1>3. p \in User /\ p \notin Locker \cup Swapper \cup Umounter
  BY <1>1, <1>2, Constants DEF LocalsOf, Putting
<1>4. e \in Entry /\ lock[e] # <<>>
  BY <1>1, <1>2, SMTT(40) DEF Owns, Types, ProcType
<1>5. /\ proc' \in [Proc -> ProcType] /\ Others(p)
      /\ proc'[p].pc = "again" /\ proc'[p].e = NULL /\ proc'[p].dev = proc[p].dev /\ proc'[p].ino = proc[p].ino
      /\ proc'[p].then = proc[p].then
  BY <1>1, <1>2, GotoEntryIs, ZenonT(60) DEF Label
<1> HIDE DEF e
<1>6. Types'
  BY <1>1, <1>2, <1>4, <1>5, LockUpdate DEF Types
<1>7. LocalsOf(p)'
  BY <1>1, <1>2, <1>3, <1>4, <1>5, Constants DEF LocalsOf, UserPc, Putting, e
<1>8. Locks'
  <2>1. ~InQueue(p)'
    BY <1>5 DEF InQueue, Owning, Queueing, Putting
  <2> QED BY <1>1, <1>2, <1>5, <2>1, LocksFree DEF e
<1>9. HandOf(p)'
  BY <1>3, <1>5 DEF HandOf, Holds
<1>10. SamePhase(p)
  BY <1>3 DEF SamePhase
<1>11. SameRefs(p)
  BY <1>1, <1>3, <1>5 DEF SameRefs, Holds, SearchesIn
<1> QED BY <1>1, <1>5, <1>6, <1>7, <1>8, <1>9, <1>10, <1>11, WalkKeeps

\* The entry found is the right one: its count goes up.
LEMMA FoundKeeps ==
    ASSUME InodeInv, NEW p \in Proc, Found(p)
    PROVE  InodeInv'
<1>0. /\ proc[p].pc = "found" /\ Owns(p) /\ Is(proc[p].e, proc[p].dev, proc[p].ino)
      /\ inode' = [inode EXCEPT ![proc[p].e].count = @ + 1] /\ PutEndLru(proc[p].e)
      /\ proc' = [proc EXCEPT ![p].pc = "locked"]
      /\ cpu' = NULL /\ UNCHANGED <<lock, hash, sb, updlock>>
  BY DEF Found, Locked, At, Goto, Leaves
<1>e. PICK e \in Entry : proc[p].e = e
  BY <1>0, OwnedEntry
<1> DEFINE r == [inode[e] EXCEPT !.count = @ + 1]
<1>1. /\ proc[p].pc = "found" /\ Owns(p) /\ Is(e, proc[p].dev, proc[p].ino)
      /\ inode' = [inode EXCEPT ![e] = r] /\ PutEndLru(e)
      /\ proc' = [proc EXCEPT ![p].pc = "locked"]
      /\ cpu' = NULL /\ UNCHANGED <<lock, hash, sb, updlock>>
  BY <1>0, <1>e
<1>2. LocalsOf(p) /\ Types /\ Locks /\ HandOf(p) /\ HashExact /\ Umounts /\ Locals /\ Counts /\ Hands /\ Entries
  BY Parts
<1>3. p \in User /\ p \notin Locker \cup Swapper \cup Umounter
  BY <1>1, <1>2, Constants DEF LocalsOf, Putting
<1>4. e \in Entry /\ inode[e] \in InodeType /\ EntryOf(e) /\ proc[p].dev \in Device /\ proc[p].ino \in Ino
  BY <1>e, <1>1, <1>2, <1>3, Constants, OwnedEntry DEF LocalsOf, UserPc
<1>5. /\ r \in InodeType /\ r.count = inode[e].count + 1 /\ r.dev = inode[e].dev /\ r.ino = inode[e].ino
      /\ r.sb = inode[e].sb /\ r.mode = inode[e].mode /\ r.nlink = inode[e].nlink /\ r.chg = inode[e].chg
      /\ r.mount = inode[e].mount
  BY <1>4, SMTT(40) DEF InodeType
<1>6. /\ proc' \in [Proc -> ProcType] /\ Others(p)
      /\ proc'[p].pc = "locked" /\ proc'[p].e = e /\ proc'[p].dev = proc[p].dev /\ proc'[p].ino = proc[p].ino
      /\ proc'[p].then = proc[p].then
  BY <1>e, <1>1, <1>2, GotoIs DEF Label
<1> HIDE DEF r
<1>7. inode' \in [Entry -> InodeType] /\ inode'[e] = r /\ \A d \in Entry \ {e} : inode'[d] = inode[d]
  BY <1>1, <1>2, <1>4, <1>5, InodeUpdate
<1>9. Types'
  BY <1>1, <1>2, <1>4, <1>6, <1>7, LruUpdate DEF Types
<1>10. LocalsOf(p)'
  BY <1>1, <1>2, <1>3, <1>4, <1>6, <1>e DEF LocalsOf, UserPc, Putting
<1>11. Locks'
  <2>1. InQueue(p) /\ InQueue(p)' /\ proc'[p].pc \notin Owning
    BY <1>1, <1>6 DEF InQueue, Owning, Queueing, Putting
  <2> QED BY <1>1, <1>2, <1>6, <1>e, <2>1, LocksSame
<1>12. SamePhase(p)
  BY <1>3 DEF SamePhase
<1>13. Counts'
  <2>0. inode[e].sb = proc[p].dev
    BY <1>1, <1>4, Constants DEF EntryOf, Is
  <2>1. /\ \A d \in Entry : Unit(HoldsOn(p, d)') = (IF d = e THEN 1 ELSE 0) /\ Unit(HoldsOn(p, d)) = 0
        /\ \A d \in Device : Unit(HoldsIn(p, d)') = (IF d = proc[p].dev THEN 1 ELSE 0) /\ Unit(HoldsIn(p, d)) = 0
    BY <1>1, <1>3, <1>4, <1>5, <1>6, <1>7, <1>e, <2>0, Constants DEF Unit, HoldsOn, HoldsIn, Holds
  <2>2. \A d \in Device : /\ Unit(SearchesIn(p, d)) = (IF d = proc[p].dev THEN 1 ELSE 0)
                          /\ Unit(SearchesIn(p, d)') = 0
    BY <1>1, <1>3, <1>6 DEF Unit, SearchesIn
  <2>3. \A d \in Entry : inode'[d].count = inode[d].count + Unit(HoldsOn(p, d)') - Unit(HoldsOn(p, d))
    BY <1>2, <1>5, <1>7, <2>1, NumbersAre
  <2>4. \A d \in Device : sb'[d].mcount = sb[d].mcount + Unit(SearchesIn(p, d)') - Unit(SearchesIn(p, d))
                                          + Unit(HoldsIn(p, d)') - Unit(HoldsIn(p, d))
    BY <1>1, <1>2, <2>1, <2>2, NumbersAre
  <2>5. \A d \in Entry : inode'[d].sb = inode[d].sb
    BY <1>5, <1>7
  <2> QED BY <1>2, <1>6, <1>12, <2>3, <2>4, <2>5, CountsRefs
<1>14. Umounts'
  BY <1>1, <1>2, <1>6, <1>12, UmountsKeep
<1>15. HashExact'
  <2>1. \A d \in Entry : inode'[d].dev = inode[d].dev /\ inode'[d].ino = inode[d].ino
    BY <1>5, <1>7
  <2> QED BY <1>1, <1>2, <2>1, HashKeeps
<1>16. HandOf(p)'
  BY <1>1, <1>3, <1>5, <1>6, <1>7 DEF HandOf, Holds, Is
<1>17. Apart(p, e)
  BY <1>1, <1>2, <1>4, <1>5, <1>7, <1>e, OwnerApart
<1>18. EntryOf(e)'
  <2>1. inode[e].ino # NULL /\ inode[e].count + 1 > 0
    BY <1>1, <1>4, Constants, NumbersAre, <1>2 DEF Is
  <2>2. inode[e].chg => inode[e].mode
    BY <1>4 DEF EntryOf
  <2>3. inode'[e].dev = inode[e].dev /\ inode'[e].ino = inode[e].ino /\ inode'[e].sb = inode[e].sb
    BY <1>5, <1>7
  <2>4. inode'[e].count > 0 /\ (inode'[e].count > 0 => inode[e].ino # NULL)
    BY <1>5, <1>7, <2>1
  <2>5. inode'[e].chg => inode'[e].mode /\ inode'[e].count > 0
    BY <1>5, <1>7, <2>2, <2>4
  <2>6. inode'[e].mount => inode[e].mount
    BY <1>5, <1>7
  <2>7. e \in Entry /\ EntryOf(e) /\ Others(p)
    BY <1>4, <1>6
  <2> QED BY <1>12, <2>3, <2>4, <2>5, <2>6, <2>7, EntrySame
<1>19. inode' = inode \/ (Apart(p, e) /\ EntryOf(e)')
  BY <1>17, <1>18
<1>20. e \in Entry /\ Others(p) /\ \A d \in Entry \ {e} : inode'[d] = inode[d]
  BY <1>4, <1>6, <1>7
<1> QED BY <1>9, <1>10, <1>11, <1>12, <1>13, <1>14, <1>15, <1>16, <1>19, <1>20, StepKeeps

\* The owner of the lock of an inode, or a search, is counted in its SB.
LEMMA CountedMore ==
    ASSUME Types, Counts, NEW d \in Device, NEW q \in Proc, SearchesIn(q, d) \/ HoldsIn(q, d)
    PROVE  sb[d].mcount + (-1) \in Nat
<1>1. sb[d].mcount \in Nat
  BY NumbersAre
<1>2. sb[d].mcount # 0
  BY CountedIn
<1> QED BY <1>1, <1>2

\* A step that changes no entry, and the counts of the SBs.
LEMMA SearchKeeps ==
    ASSUME InodeInv, NEW p \in Proc, Others(p), inode' = inode, hash' = hash, SamePhase(p),
           \A e \in Entry : HoldsOn(p, e)' <=> HoldsOn(p, e),
           \A d \in Device : /\ sb'[d].mounted = sb[d].mounted /\ sb'[d].mbusy = sb[d].mbusy
                             /\ sb'[d].mcount = sb[d].mcount + Unit(SearchesIn(p, d)') - Unit(SearchesIn(p, d))
                                                + Unit(HoldsIn(p, d)') - Unit(HoldsIn(p, d)),
           sb[Mounted].mcount = 0 /\ (\E q \in Umounter : Tested(q)) => sb'[Mounted].mcount = 0,
           LocalsOf(p)', HandOf(p)', Types', Locks'
    PROVE  InodeInv'
<1>1. Types /\ Counts /\ Umounts /\ HashExact
  BY Parts
<1>2. Counts'
  <2>1. ASSUME NEW e \in Entry
        PROVE  inode'[e].count = inode[e].count + Unit(HoldsOn(p, e)') - Unit(HoldsOn(p, e))
    <3>1. Unit(HoldsOn(p, e)') = Unit(HoldsOn(p, e)) /\ Unit(HoldsOn(p, e)) \in Int /\ inode[e].count \in Int
      BY <1>1, NumbersAre DEF Unit
    <3> QED BY <3>1
  <2>2. \A e \in Entry : inode'[e].sb = inode[e].sb
    OBVIOUS
  <2> QED BY <1>1, <2>1, <2>2, CountsRefs
<1>3. Umounts'
  BY <1>1, UmountsKeep
<1>4. HashExact'
  BY <1>1, HashKeeps
<1>5. 1 \in Entry /\ (inode' = inode \/ (Apart(p, 1) /\ EntryOf(1)'))
  BY Constants
<1> QED BY <1>2, <1>3, <1>4, <1>5, StepKeeps

\* No entry is unused: iget fails.
LEMMA TableFullKeeps ==
    ASSUME InodeInv, NEW p \in Proc, TableFull(p)
    PROVE  InodeInv'
<1>0. /\ proc[p].pc = "again" /\ Mcount(proc[p].dev, -1) /\ Back(p) /\ cpu' = NULL
      /\ UNCHANGED <<inode, lock, lru, hash, updlock>>
  BY DEF TableFull, At, Leaves
<1>1. LocalsOf(p) /\ Types /\ Locks /\ HandOf(p) /\ Umounts /\ Locals /\ Counts
  BY Parts
<1>2. p \in User /\ p \notin Locker \cup Swapper \cup Umounter
  BY <1>0, <1>1, Constants DEF LocalsOf, Putting
<1>d. PICK dev \in Device : proc[p].dev = dev
  BY <1>0, <1>1, <1>2 DEF LocalsOf
<1>e. proc[p].e = NULL
  BY <1>0, <1>1, <1>2 DEF LocalsOf
<1>3. /\ proc' \in [Proc -> ProcType] /\ Others(p)
      /\ proc'[p].pc = "user" /\ proc'[p].e = NULL /\ proc'[p].then = "user"
  BY <1>0, <1>1, BackIs
<1>4. SearchesIn(p, dev)
  BY <1>0, <1>2, <1>d DEF SearchesIn
<1>5. sb[dev].mcount + (-1) \in Nat /\ Mcount(dev, -1) /\ -1 \in Int
  BY <1>0, <1>1, <1>d, <1>4, CountedMore
<1>6. /\ sb' \in [Device -> SbType]
      /\ \A c \in Device : /\ sb'[c].mounted = sb[c].mounted /\ sb'[c].mbusy = sb[c].mbusy
                           /\ sb'[c].mcount = IF c = dev THEN sb[c].mcount + (-1) ELSE sb[c].mcount
  BY <1>1, <1>5, McountIs
<1>7. Types'
  BY <1>0, <1>1, <1>3, <1>6 DEF Types
<1>8. LocalsOf(p)'
  BY <1>2, <1>3, Constants DEF LocalsOf, UserPc, Putting
<1>9. Locks'
  <2>1. ~InQueue(p) /\ ~InQueue(p)' /\ proc'[p].pc \notin Owning
    BY <1>0, <1>3 DEF InQueue, Owning, Queueing, Putting
  <2> QED BY <1>0, <1>1, <1>3, <2>1, LocksSame
<1>10. HandOf(p)'
  BY <1>2, <1>3 DEF HandOf, Holds
<1>11. SamePhase(p)
  BY <1>2 DEF SamePhase
<1>12. /\ \A e \in Entry : ~HoldsOn(p, e) /\ ~HoldsOn(p, e)'
       /\ \A d \in Device : ~HoldsIn(p, d) /\ ~HoldsIn(p, d)' /\ ~SearchesIn(p, d)' /\ (SearchesIn(p, d) <=> d = dev)
  BY <1>0, <1>2, <1>3, <1>d, <1>e DEF HoldsOn, HoldsIn, Holds, SearchesIn
<1>13. ASSUME NEW d \in Device
       PROVE  /\ sb'[d].mounted = sb[d].mounted /\ sb'[d].mbusy = sb[d].mbusy
              /\ sb'[d].mcount = sb[d].mcount + Unit(SearchesIn(p, d)') - Unit(SearchesIn(p, d))
                                 + Unit(HoldsIn(p, d)') - Unit(HoldsIn(p, d))
  <2>1. /\ Unit(SearchesIn(p, d)') = 0 /\ Unit(HoldsIn(p, d)') = 0 /\ Unit(HoldsIn(p, d)) = 0
        /\ Unit(SearchesIn(p, d)) = (IF d = dev THEN 1 ELSE 0)
    BY <1>12 DEF Unit
  <2> QED BY <1>1, <1>6, <2>1, NumbersAre
<1>14. sb[Mounted].mcount = 0 /\ (\E q \in Umounter : Tested(q)) => sb'[Mounted].mcount = 0
  <2>1. sb[Mounted].mcount = 0 => dev # Mounted
    BY <1>1, <1>4, CountedIn
  <2> QED BY <1>6, <2>1, Constants
<1>15. \A e \in Entry : HoldsOn(p, e)' <=> HoldsOn(p, e)
  BY <1>12
<1> QED BY <1>0, <1>3, <1>7, <1>8, <1>9, <1>10, <1>11, <1>13, <1>14, <1>15, SearchKeeps

\* The inode is a mount point: the search goes on in the mounted file system.
LEMMA FoundMountKeeps ==
    ASSUME InodeInv, NEW p \in Proc, FoundMount(p)
    PROVE  InodeInv'
<1>0. /\ proc[p].pc = "found" /\ Owns(p) /\ Is(proc[p].e, proc[p].dev, proc[p].ino) /\ inode[proc[p].e].mount
      /\ lock' = [lock EXCEPT ![proc[p].e] = Tail(@)]
      /\ \/ /\ Admits(Mounted)
            /\ sb' = [sb EXCEPT ![Root].mcount = @ - 1, ![Mounted].mcount = @ + 1]
            /\ proc' = [proc EXCEPT ![p].pc = "again", ![p].dev = Mounted, ![p].ino = RootIno, ![p].e = NULL]
            /\ cpu' = p
         \/ Mcount(Root, -1) /\ Back(p) /\ cpu' = NULL
      /\ UNCHANGED <<inode, lru, hash, updlock>>
  BY DEF FoundMount, Locked, At, SleepFree, Keeps, Leaves
<1>1. LocalsOf(p) /\ Types /\ Locks /\ HandOf(p) /\ Umounts /\ Locals /\ Counts
  BY Parts
<1>2. p \in User /\ p \notin Locker \cup Swapper \cup Umounter
  BY <1>0, <1>1, Constants DEF LocalsOf, Putting
<1>3. /\ proc[p].e \in Entry /\ lock[proc[p].e] # <<>> /\ EntryOf(proc[p].e)
  BY <1>0, OwnedEntry
<1>4. proc[p].dev = Root
  <2>1. proc[p].e = 1 /\ MountHolds(1)
    BY <1>0, <1>3 DEF EntryOf, MountHolds
  <2> QED BY <1>0, <1>3, <2>1 DEF EntryOf, Is
<1>5. SearchesIn(p, Root)
  BY <1>0, <1>2, <1>4 DEF SearchesIn
<1>6. sb[Root].mcount + (-1) \in Nat /\ -1 \in Int
  BY <1>1, <1>5, CountedMore, Constants
<1>7. \A e \in Entry : ~HoldsOn(p, e)
  BY <1>0, <1>2 DEF HoldsOn, Holds
<1>8. \A d \in Device : ~HoldsIn(p, d) /\ (SearchesIn(p, d) <=> d = Root)
  BY <1>0, <1>2, <1>4 DEF HoldsIn, Holds, SearchesIn
<1>9. SamePhase(p)
  BY <1>2 DEF SamePhase
<1>10. lock' \in [Entry -> Seq(Proc)]
  BY <1>0, <1>1, <1>3, LockUpdate
<1>a. CASE /\ Admits(Mounted)
           /\ sb' = [sb EXCEPT ![Root].mcount = @ - 1, ![Mounted].mcount = @ + 1]
           /\ proc' = [proc EXCEPT ![p].pc = "again", ![p].dev = Mounted, ![p].ino = RootIno, ![p].e = NULL]
           /\ cpu' = p
  <2>1. /\ proc' \in [Proc -> ProcType] /\ Others(p)
        /\ proc'[p].pc = "again" /\ proc'[p].e = NULL /\ proc'[p].dev = Mounted /\ proc'[p].ino = RootIno
        /\ proc'[p].then = proc[p].then
    <3>1. "again" \in Label /\ Mounted \in Device /\ RootIno \in Ino /\ NULL \in Entry \cup {NULL}
      BY Constants DEF Label
    <3> QED BY <1>a, <1>1, <3>1, SearchEntryIs
  <2>2. /\ sb' \in [Device -> SbType]
        /\ \A c \in Device : /\ sb'[c].mounted = sb[c].mounted /\ sb'[c].mbusy = sb[c].mbusy
                             /\ sb'[c].mcount = IF c = Root THEN sb[c].mcount - 1 ELSE sb[c].mcount + 1
    <3> DEFINE r == [sb[Root] EXCEPT !.mcount = @ - 1]
               m == [sb[Mounted] EXCEPT !.mcount = @ + 1]
    <3>1. sb[Root] \in SbType /\ sb[Mounted] \in SbType /\ sb \in [Device -> SbType]
      BY <1>1, Constants DEF Types
    <3>2. r \in SbType /\ r.mounted = sb[Root].mounted /\ r.mbusy = sb[Root].mbusy /\ r.mcount = sb[Root].mcount - 1
      BY <1>6, <3>1 DEF SbType
    <3>3. m \in SbType /\ m.mounted = sb[Mounted].mounted /\ m.mbusy = sb[Mounted].mbusy /\ m.mcount = sb[Mounted].mcount + 1
      BY <3>1 DEF SbType
    <3>4. sb' = [sb EXCEPT ![Root] = r, ![Mounted] = m]
      BY <1>a, Constants
    <3> HIDE DEF r, m
    <3> QED BY <3>1, <3>2, <3>3, <3>4, Constants
  <2>3. Types'
    BY <1>0, <1>a, <1>1, <1>10, <2>1, <2>2 DEF Types
  <2>4. LocalsOf(p)'
    BY <1>0, <1>1, <1>2, <2>1, Constants DEF LocalsOf, UserPc, Putting
  <2>5. Locks'
    <3>1. ~InQueue(p)'
      BY <2>1 DEF InQueue, Owning, Queueing, Putting
    <3> QED BY <1>0, <1>1, <2>1, <3>1, LocksFree
  <2>6. HandOf(p)'
    BY <1>2, <2>1 DEF HandOf, Holds
  <2>7. ASSUME NEW d \in Device
        PROVE  /\ sb'[d].mounted = sb[d].mounted /\ sb'[d].mbusy = sb[d].mbusy
               /\ sb'[d].mcount = sb[d].mcount + Unit(SearchesIn(p, d)') - Unit(SearchesIn(p, d))
                                  + Unit(HoldsIn(p, d)') - Unit(HoldsIn(p, d))
    <3>1. ~HoldsIn(p, d)' /\ (SearchesIn(p, d)' <=> d = Mounted)
      BY <1>2, <2>1 DEF HoldsIn, Holds, SearchesIn
    <3>2. /\ Unit(HoldsIn(p, d)') = 0 /\ Unit(HoldsIn(p, d)) = 0
          /\ Unit(SearchesIn(p, d)) = (IF d = Root THEN 1 ELSE 0)
          /\ Unit(SearchesIn(p, d)') = (IF d = Root THEN 0 ELSE 1)
      BY <1>8, <3>1, Constants DEF Unit
    <3>3. sb[d].mcount \in Nat
      BY <1>1, NumbersAre
    <3> QED BY <2>2, <3>2, <3>3
  <2>8. ~ \E q \in Umounter : Tested(q)
    BY <1>a, <1>1, Refused
  <2>9. \A e \in Entry : HoldsOn(p, e)' <=> HoldsOn(p, e)
    BY <1>7, <2>1 DEF HoldsOn, Holds
  <2> QED BY <1>0, <1>9, <2>1, <2>3, <2>4, <2>5, <2>6, <2>7, <2>8, <2>9, SearchKeeps
<1>b. CASE Mcount(Root, -1) /\ Back(p) /\ cpu' = NULL
  <2>1. /\ proc' \in [Proc -> ProcType] /\ Others(p)
        /\ proc'[p].pc = "user" /\ proc'[p].e = NULL /\ proc'[p].then = "user"
    BY <1>b, <1>1, BackIs
  <2>2. /\ sb' \in [Device -> SbType]
        /\ \A c \in Device : /\ sb'[c].mounted = sb[c].mounted /\ sb'[c].mbusy = sb[c].mbusy
                             /\ sb'[c].mcount = IF c = Root THEN sb[c].mcount + (-1) ELSE sb[c].mcount
    <3>1. Root \in Device /\ Mcount(Root, -1)
      BY <1>b, Constants
    <3> QED BY <1>1, <1>6, <3>1, McountIs
  <2>3. Types'
    BY <1>0, <1>b, <1>1, <1>10, <2>1, <2>2 DEF Types
  <2>4. LocalsOf(p)'
    BY <1>2, <2>1, Constants DEF LocalsOf, UserPc, Putting
  <2>5. Locks'
    <3>1. ~InQueue(p)'
      BY <2>1 DEF InQueue, Owning, Queueing, Putting
    <3> QED BY <1>0, <1>1, <2>1, <3>1, LocksFree
  <2>6. HandOf(p)'
    BY <1>2, <2>1 DEF HandOf, Holds
  <2>7. ASSUME NEW d \in Device
        PROVE  /\ sb'[d].mounted = sb[d].mounted /\ sb'[d].mbusy = sb[d].mbusy
               /\ sb'[d].mcount = sb[d].mcount + Unit(SearchesIn(p, d)') - Unit(SearchesIn(p, d))
                                  + Unit(HoldsIn(p, d)') - Unit(HoldsIn(p, d))
    <3>1. ~HoldsIn(p, d)' /\ ~SearchesIn(p, d)'
      BY <1>2, <2>1 DEF HoldsIn, Holds, SearchesIn
    <3>2. /\ Unit(HoldsIn(p, d)') = 0 /\ Unit(HoldsIn(p, d)) = 0 /\ Unit(SearchesIn(p, d)') = 0
          /\ Unit(SearchesIn(p, d)) = (IF d = Root THEN 1 ELSE 0)
      BY <1>8, <3>1 DEF Unit
    <3>3. sb[d].mcount \in Nat
      BY <1>1, NumbersAre
    <3> QED BY <2>2, <3>2, <3>3
  <2>8. sb[Mounted].mcount = 0 => sb'[Mounted].mcount = 0
    BY <2>2, Constants
  <2>9. \A e \in Entry : HoldsOn(p, e)' <=> HoldsOn(p, e)
    BY <1>7, <2>1 DEF HoldsOn, Holds
  <2> QED BY <1>0, <1>9, <2>1, <2>3, <2>4, <2>5, <2>6, <2>7, <2>8, <2>9, SearchKeeps
<1> QED BY <1>0, <1>a, <1>b

\* The first unused entry of the LRU list gets the inode.
LEMMA ReuseKeeps ==
    ASSUME InodeInv, NEW p \in Proc, Reuse(p)
    PROVE  InodeInv'
<1>1. LocalsOf(p) /\ Types /\ Locks /\ HandOf(p) /\ HashExact /\ Umounts /\ Locals /\ Counts /\ Hands /\ Entries
  BY Parts
<1>2. proc[p].pc = "again" /\ Hits(p) = {} /\ Reusable # {} /\ cpu' = NULL /\ UNCHANGED <<lru, sb, updlock>>
  BY DEF Reuse, At, Leaves
<1>3. p \in User /\ p \notin Locker \cup Swapper \cup Umounter /\ proc[p].e = NULL
      /\ proc[p].dev \in Device /\ proc[p].ino \in Ino
  BY <1>1, <1>2, Constants DEF LocalsOf, Putting
<1>e. PICK e \in Entry : /\ e = lru[Min(Reusable)] /\ lock[e] = <<>> /\ inode[e].count = 0
  <2>1. Reusable \subseteq DOMAIN lru /\ DOMAIN lru = 1 .. Len(lru) /\ lru \in Seq(Entry)
    BY <1>1 DEF Reusable, Types
  <2>2. Reusable \in SUBSET Nat
    BY <2>1
  <2>3. Min(Reusable) \in Reusable
    BY <1>2, <2>2, MinIsLeast
  <2>4. lock[lru[Min(Reusable)]] = <<>> /\ inode[lru[Min(Reusable)]].count = 0 /\ Min(Reusable) \in DOMAIN lru
    BY <2>3 DEF Reusable
  <2> QED BY <2>1, <2>4
<1> DEFINE r == [Fresh(proc[p].dev, proc[p].ino) EXCEPT !.mode = inode[e].mode]
<1>4. /\ lock' = [lock EXCEPT ![e] = <<p>>]
      /\ hash' = hash \cup {e}
      /\ inode' = [inode EXCEPT ![e] = r]
      /\ proc' = [proc EXCEPT ![p].pc = "read", ![p].e = e]
  BY <1>e DEF Reuse
<1>5. inode[e] \in InodeType /\ EntryOf(e)
  BY <1>1 DEF Types, Entries
<1>6. /\ r \in InodeType /\ r.count = 1 /\ r.dev = proc[p].dev /\ r.ino = proc[p].ino
      /\ r.sb = proc[p].dev /\ r.chg = FALSE /\ r.mount = FALSE
  BY <1>3, <1>5 DEF InodeType, Fresh, Free
<1>7. /\ proc' \in [Proc -> ProcType] /\ Others(p)
      /\ proc'[p].pc = "read" /\ proc'[p].e = e /\ proc'[p].dev = proc[p].dev /\ proc'[p].ino = proc[p].ino
      /\ proc'[p].then = proc[p].then
  <2> DEFINE s == [proc[p] EXCEPT !.pc = "read", !.e = e]
  <2>1. proc[p] \in ProcType
    BY <1>1 DEF Types
  <2>2. /\ s \in ProcType /\ s.pc = "read" /\ s.e = e /\ s.dev = proc[p].dev /\ s.ino = proc[p].ino
        /\ s.then = proc[p].then
    BY ONLY <2>1, p \in Proc, e \in Entry DEF ProcType, Label
  <2>3. proc' = [proc EXCEPT ![p] = s]
    BY <1>4
  <2> HIDE DEF s
  <2> QED BY <1>1, <2>2, <2>3, ProcUpdate
<1> HIDE DEF r
<1>8. inode' \in [Entry -> InodeType] /\ inode'[e] = r /\ \A d \in Entry \ {e} : inode'[d] = inode[d]
  BY <1>1, <1>4, <1>6, InodeUpdate
<1>9. lock' = [lock EXCEPT ![e] = Append(@, p)]
  <2>1. Append(lock[e], p) = <<p>>
    BY <1>e
  <2> QED BY <1>4, <2>1
<1>10. Types'
  <2>1. lock' \in [Entry -> Seq(Proc)]
    BY <1>1, <1>9, LockUpdate
  <2> QED BY <1>1, <1>2, <1>4, <1>7, <1>8, <2>1, Constants DEF Types
<1>11. LocalsOf(p)'
  BY <1>1, <1>2, <1>3, <1>7, Constants DEF LocalsOf, UserPc, Putting
<1>12. Locks'
  <2>1. ~InQueue(p) /\ InQueue(p)'
    BY <1>2, <1>7 DEF InQueue, Owning, Queueing, Putting
  <2> QED BY <1>1, <1>e, <1>7, <1>9, <2>1, LocksTake
<1>13. SamePhase(p)
  BY <1>3 DEF SamePhase
<1>14. \A q \in Proc : proc[q].e = e => ~InQueue(q) /\ ~Holds(q)
  <2>1. ToSet(lock[e]) = {}
    BY <1>e DEF ToSet
  <2>2. \A q \in Proc : proc[q].e = e => ~InQueue(q)
    BY <1>1, <2>1 DEF Locks, LockOf, InQueue
  <2>3. \A q \in Proc : proc[q].e = e => ~Holds(q)
    BY <1>1, <1>e, Counted
  <2> QED BY <2>2, <2>3
<1>15. ~MountHolds(e)
  BY <1>1, <1>e, Counted
<1>16. Apart(p, e)
  <2>1. ASSUME NEW q \in Proc, proc[q].e = e
        PROVE  proc[q].pc \notin Owning /\ proc[q].pc # "found" /\ ~(q \in User /\ Holds(q)) /\ q \notin Locker
    <3>1. ~InQueue(q) /\ ~Holds(q)
      BY <2>1, <1>14
    <3>2. q \notin Locker
      BY <2>1, <3>1, Constants, <1>1 DEF Holds, Locals, LocalsOf
    <3> QED BY <3>1, <3>2 DEF InQueue, Queueing
  <2> QED BY <2>1 DEF Apart
<1>17. EntryOf(e)'
  <2>1. ~MountHolds(e)'
    BY <1>7, <1>13, <1>15, PhaseKeeps
  <2>2. /\ inode'[e].sb = inode'[e].dev /\ inode'[e].dev # NULL /\ inode'[e].ino # NULL
        /\ ~inode'[e].chg /\ ~inode'[e].mount
    BY <1>3, <1>6, <1>8, Constants
  <2> QED BY <2>1, <2>2 DEF EntryOf
<1>18. Counts'
  <2>1. /\ \A d \in Entry : (HoldsOn(p, d)' <=> d = e) /\ ~HoldsOn(p, d)
        /\ \A d \in Device : (HoldsIn(p, d)' <=> d = proc[p].dev) /\ ~HoldsIn(p, d)
        /\ \A d \in Device : (SearchesIn(p, d) <=> d = proc[p].dev) /\ ~SearchesIn(p, d)'
    BY <1>2, <1>3, <1>6, <1>7, <1>8, Constants DEF HoldsOn, HoldsIn, Holds, SearchesIn
  <2>3. ASSUME NEW d \in Entry
        PROVE  inode'[d].count = inode[d].count + Unit(HoldsOn(p, d)') - Unit(HoldsOn(p, d))
    <3>1. Unit(HoldsOn(p, d)') = (IF d = e THEN 1 ELSE 0) /\ Unit(HoldsOn(p, d)) = 0 /\ inode[d].count \in Nat
      BY <1>1, <2>1, NumbersAre DEF Unit
    <3> QED BY <1>e, <1>6, <1>8, <3>1
  <2>4. ASSUME NEW d \in Device
        PROVE  sb'[d].mcount = sb[d].mcount + Unit(SearchesIn(p, d)') - Unit(SearchesIn(p, d))
                               + Unit(HoldsIn(p, d)') - Unit(HoldsIn(p, d))
    <3>1. /\ Unit(HoldsIn(p, d)') = (IF d = proc[p].dev THEN 1 ELSE 0) /\ Unit(HoldsIn(p, d)) = 0
          /\ Unit(SearchesIn(p, d)) = (IF d = proc[p].dev THEN 1 ELSE 0) /\ Unit(SearchesIn(p, d)') = 0
          /\ sb[d].mcount \in Nat
      BY <1>1, <2>1, NumbersAre DEF Unit
    <3> QED BY <1>2, <3>1
  <2>5. \A d \in Entry : inode[d].count > 0 => inode'[d].sb = inode[d].sb
    BY <1>e, <1>8
  <2> QED BY <1>1, <1>7, <1>13, <2>3, <2>4, <2>5, CountsRefs
<1>19. Umounts'
  BY <1>1, <1>2, <1>7, <1>13, UmountsKeep
<1>20. HashExact'
  <2>1. hash' = { d \in Entry : inode'[d].ino # NULL }
    BY <1>1, <1>3, <1>4, <1>6, <1>8, Constants DEF HashExact
  <2>2. \A d \in hash : d # e => ~(inode[d].dev = proc[p].dev /\ inode[d].ino = proc[p].ino)
    BY <1>2 DEF Hits, Is
  <2>3. \A d \in hash : d \in Entry
    BY <1>1 DEF Types
  <2>4. ASSUME NEW d \in hash', NEW c \in hash', inode'[d].dev = inode'[c].dev, inode'[d].ino = inode'[c].ino
        PROVE  d = c
    <3>1. CASE d # e /\ c # e
      <4>1. d \in hash /\ c \in hash /\ inode'[d] = inode[d] /\ inode'[c] = inode[c]
        BY <3>1, <1>4, <1>8, <2>3
      <4> QED BY <4>1, <2>4, <1>1 DEF HashExact, Is
    <3>2. CASE d # e /\ c = e
      <4>1. d \in hash /\ inode'[d] = inode[d]
        BY <3>2, <1>4, <1>8, <2>3
      <4> QED BY <4>1, <2>4, <2>2, <3>2, <1>6, <1>8
    <3>3. CASE d = e /\ c # e
      <4>1. c \in hash /\ inode'[c] = inode[c]
        BY <3>3, <1>4, <1>8, <2>3
      <4> QED BY <4>1, <2>4, <2>2, <3>3, <1>6, <1>8
    <3> QED BY <3>1, <3>2, <3>3
  <2> QED BY <2>1, <2>4 DEF HashExact, Is
<1>21. HandOf(p)'
  BY <1>3, <1>6, <1>7, <1>8 DEF HandOf, Holds, Is
<1>22. /\ \A d \in Entry \ {e} : inode'[d] = inode[d]
       /\ inode' = inode \/ (Apart(p, e) /\ EntryOf(e)')
  BY <1>8, <1>16, <1>17
<1> QED BY <1>7, <1>10, <1>11, <1>12, <1>13, <1>18, <1>19, <1>20, <1>21, <1>22, StepKeeps

\* The inode is read from the disk.
LEMMA ReadInodeKeeps ==
    ASSUME InodeInv, NEW p \in Proc, ReadInode(p)
    PROVE  InodeInv'
<1>0. /\ proc[p].pc = "read" /\ Owns(p)
      /\ inode' = [inode EXCEPT ![proc[p].e].mode = TRUE] /\ PutEndLru(proc[p].e)
      /\ proc' = [proc EXCEPT ![p].pc = "locked"] /\ cpu' = NULL /\ UNCHANGED <<lock, hash, sb, updlock>>
  BY DEF ReadInode, Locked, At, Goto, Leaves
<1>e. PICK e \in Entry : proc[p].e = e
  BY <1>0, OwnedEntry
<1> DEFINE r == [inode[e] EXCEPT !.mode = TRUE]
<1>1. LocalsOf(p) /\ Types /\ Locks /\ HandOf(p) /\ Hands
  BY Parts
<1>2. p \in User /\ p \notin Locker \cup Swapper \cup Umounter
  BY <1>0, <1>1, Constants DEF LocalsOf, Putting
<1>3. inode[e] \in InodeType /\ EntryOf(e)
  BY <1>0, <1>e, OwnedEntry
<1>4. /\ r \in InodeType /\ r.count = inode[e].count /\ r.dev = inode[e].dev /\ r.ino = inode[e].ino
      /\ r.sb = inode[e].sb /\ r.mode /\ r.chg = inode[e].chg /\ r.mount = inode[e].mount
  BY <1>3 DEF InodeType
<1>5. /\ proc' \in [Proc -> ProcType] /\ Others(p)
      /\ proc'[p].pc = "locked" /\ proc'[p].e = e /\ proc'[p].dev = proc[p].dev /\ proc'[p].ino = proc[p].ino
      /\ proc'[p].then = proc[p].then
  BY <1>0, <1>e, <1>1, GotoIs DEF Label
<1>6. inode' = [inode EXCEPT ![e] = r]
  BY <1>0, <1>e
<1> HIDE DEF r
<1>7. inode' \in [Entry -> InodeType] /\ inode'[e] = r /\ \A d \in Entry \ {e} : inode'[d] = inode[d]
  BY <1>1, <1>4, <1>6, InodeUpdate
<1>8. Types'
  BY <1>0, <1>e, <1>1, <1>5, <1>7, LruUpdate DEF Types
<1>9. LocalsOf(p)'
  BY <1>0, <1>1, <1>2, <1>5, <1>e DEF LocalsOf, UserPc, Putting
<1>10. Locks'
  <2>1. InQueue(p) /\ InQueue(p)' /\ proc'[p].pc \notin Owning
    BY <1>0, <1>5 DEF InQueue, Owning, Queueing, Putting
  <2> QED BY <1>0, <1>1, <1>5, <1>e, <2>1, LocksSame
<1>11. SamePhase(p)
  BY <1>2 DEF SamePhase
<1>12. SameRefs(p)
  BY <1>0, <1>2, <1>5, <1>e DEF SameRefs, Holds, SearchesIn
<1>13. HandOf(p)'
  BY <1>0, <1>1, <1>2, <1>4, <1>5, <1>7, <1>e DEF HandOf, Holds, Is
<1>14. /\ inode'[e].dev = inode[e].dev /\ inode'[e].ino = inode[e].ino
       /\ inode'[e].count = inode[e].count /\ inode'[e].sb = inode[e].sb
       /\ inode[e].mode /\ (\E q \in Locker \ {p} : proc[q].e = e) => inode'[e].mode
  BY <1>4, <1>7
<1>15. EntryOf(e)'
  <2>1. inode'[e].count > 0 => inode[e].ino # NULL
    BY <1>3, <1>14 DEF EntryOf
  <2>2. inode'[e].chg => inode'[e].mode /\ inode'[e].count > 0
    BY <1>3, <1>4, <1>7 DEF EntryOf
  <2>3. inode'[e].mount => inode[e].mount
    BY <1>4, <1>7
  <2> QED BY <1>3, <1>5, <1>11, <1>14, <2>1, <2>2, <2>3, EntrySame
<1> QED BY <1>0, <1>e, <1>5, <1>7, <1>8, <1>9, <1>10, <1>11, <1>12, <1>13, <1>14, <1>15, ChangeKeeps

\* The inode cannot be read: the entry is given back.
LEMMA ReadFailsKeeps ==
    ASSUME InodeInv, NEW p \in Proc, ReadFails(p)
    PROVE  InodeInv'
<1>0. /\ proc[p].pc = "read" /\ Owns(p) /\ hash' = hash \ {proc[p].e}
      /\ inode' = [inode EXCEPT ![proc[p].e].count = 0, ![proc[p].e].ino = NULL, ![proc[p].e].chg = FALSE]
      /\ lock' = [lock EXCEPT ![proc[p].e] = Tail(@)] /\ Mcount(proc[p].dev, -1)
      /\ Back(p) /\ cpu' = NULL /\ UNCHANGED <<lru, updlock>>
  BY DEF ReadFails, Locked, At, SleepFree, Leaves
<1>e. PICK e \in Entry : proc[p].e = e
  BY <1>0, OwnedEntry
<1> DEFINE r == [inode[e] EXCEPT !.count = 0, !.ino = NULL, !.chg = FALSE]
<1>1. LocalsOf(p) /\ Types /\ Locks /\ HandOf(p) /\ HashExact /\ Umounts /\ Locals /\ Counts /\ Hands /\ Entries
  BY Parts
<1>2. p \in User /\ p \notin Locker \cup Swapper \cup Umounter
  BY <1>0, <1>1, Constants DEF LocalsOf, Putting
<1>3. inode[e] \in InodeType /\ EntryOf(e) /\ lock[e] # <<>> /\ proc[p].dev \in Device
  BY <1>0, <1>e, <1>1, <1>2, Constants, OwnedEntry DEF LocalsOf
<1>4. /\ r \in InodeType /\ r.count = 0 /\ r.dev = inode[e].dev /\ r.ino = NULL
      /\ r.sb = inode[e].sb /\ r.mode = inode[e].mode /\ r.chg = FALSE /\ r.mount = inode[e].mount
  BY <1>3 DEF InodeType
<1>5. /\ proc' \in [Proc -> ProcType] /\ Others(p)
      /\ proc'[p].pc = "user" /\ proc'[p].e = NULL /\ proc'[p].then = "user"
  BY <1>0, <1>1, BackIs
<1>6. inode' = [inode EXCEPT ![e] = r]
  BY <1>0, <1>e
<1> HIDE DEF r
<1>7. inode' \in [Entry -> InodeType] /\ inode'[e] = r /\ \A d \in Entry \ {e} : inode'[d] = inode[d]
  BY <1>1, <1>4, <1>6, InodeUpdate
<1>8. /\ Holds(p) /\ inode[e].count = 1 /\ inode[e].dev = proc[p].dev /\ inode[e].sb = proc[p].dev
  <2>1. Holds(p)
    BY <1>0, <1>2, <1>e, Constants DEF Holds
  <2>2. inode[e].count = 1 /\ inode[e].dev = proc[p].dev
    BY <1>0, <1>1, <1>2, <1>e, <2>1 DEF HandOf, Is
  <2> QED BY <2>1, <2>2, <1>3, Constants DEF EntryOf
<1>9. ~MountHolds(e) /\ \A q \in Proc : q # p /\ proc[q].e = e => ~Holds(q)
  BY <1>1, <1>8, <1>e, Counted
<1>10. HoldsIn(p, proc[p].dev)
  BY <1>8, <1>e DEF HoldsIn
<1>11. sb[proc[p].dev].mcount + (-1) \in Nat /\ -1 \in Int
  BY <1>1, <1>3, <1>10, CountedMore
<1>12. /\ sb' \in [Device -> SbType]
       /\ \A c \in Device : /\ sb'[c].mounted = sb[c].mounted /\ sb'[c].mbusy = sb[c].mbusy
                            /\ sb'[c].mcount = IF c = proc[p].dev THEN sb[c].mcount + (-1) ELSE sb[c].mcount
  BY <1>0, <1>1, <1>3, <1>11, McountIs
<1>13. Types'
  <2>1. lock' \in [Entry -> Seq(Proc)]
    BY <1>0, <1>1, <1>3, <1>e, LockUpdate
  <2> QED BY <1>0, <1>1, <1>5, <1>7, <1>12, <2>1, Constants DEF Types
<1>14. LocalsOf(p)'
  BY <1>2, <1>5, Constants DEF LocalsOf, UserPc, Putting
<1>15. Locks'
  <2>1. ~InQueue(p)'
    BY <1>5 DEF InQueue, Owning, Queueing, Putting
  <2> QED BY <1>0, <1>1, <1>5, <2>1, LocksFree
<1>16. HandOf(p)'
  BY <1>2, <1>5 DEF HandOf, Holds
<1>17. SamePhase(p)
  BY <1>2 DEF SamePhase
<1>18. Apart(p, e)
  <2>1. ASSUME NEW q \in Proc, q # p, proc[q].e = e
        PROVE  proc[q].pc \notin Owning /\ ~(q \in User /\ Holds(q)) /\ q \notin Locker
    <3>1. ~Holds(q) /\ proc[q].pc \notin Owning
      BY <2>1, <1>0, <1>1, <1>9, <1>e, OneOwner
    <3>2. q \notin Locker
      BY <2>1, <3>1, Constants, <1>1 DEF Holds, Locals, LocalsOf
    <3> QED BY <3>1, <3>2
  <2>2. inode'[e].dev = inode[e].dev
    BY <1>4, <1>7
  <2> QED BY <2>1, <2>2 DEF Apart
<1>19. EntryOf(e)'
  <2>1. ~MountHolds(e)'
    BY <1>5, <1>17, <1>9, PhaseKeeps
  <2>2. ~inode[e].mount
    <3>1. inode[e].mount => e = 1 /\ MountHolds(1)
      BY <1>3 DEF EntryOf, MountHolds
    <3> QED BY <3>1, <1>9
  <2>3. /\ inode'[e].dev # NULL => inode'[e].sb = inode'[e].dev
        /\ inode'[e].ino = NULL /\ inode'[e].count = 0 /\ ~inode'[e].chg /\ ~inode'[e].mount
    BY <1>3, <1>4, <1>7, <2>2 DEF EntryOf
  <2> QED BY <2>1, <2>3 DEF EntryOf
<1>20. Counts'
  <2>1. /\ \A d \in Entry : (HoldsOn(p, d) <=> d = e) /\ ~HoldsOn(p, d)'
        /\ \A d \in Device : (HoldsIn(p, d) <=> d = proc[p].dev) /\ ~HoldsIn(p, d)'
        /\ \A d \in Device : ~SearchesIn(p, d) /\ ~SearchesIn(p, d)'
    BY <1>0, <1>2, <1>5, <1>8, <1>e DEF HoldsOn, HoldsIn, Holds, SearchesIn
  <2>3. ASSUME NEW d \in Entry
        PROVE  inode'[d].count = inode[d].count + Unit(HoldsOn(p, d)') - Unit(HoldsOn(p, d))
    <3>1. Unit(HoldsOn(p, d)) = (IF d = e THEN 1 ELSE 0) /\ Unit(HoldsOn(p, d)') = 0 /\ inode[d].count \in Nat
      BY <1>1, <2>1, NumbersAre DEF Unit
    <3> QED BY <1>8, <1>4, <1>7, <3>1
  <2>4. ASSUME NEW d \in Device
        PROVE  sb'[d].mcount = sb[d].mcount + Unit(SearchesIn(p, d)') - Unit(SearchesIn(p, d))
                               + Unit(HoldsIn(p, d)') - Unit(HoldsIn(p, d))
    <3>1. /\ Unit(HoldsIn(p, d)) = (IF d = proc[p].dev THEN 1 ELSE 0) /\ Unit(HoldsIn(p, d)') = 0
          /\ Unit(SearchesIn(p, d)) = 0 /\ Unit(SearchesIn(p, d)') = 0
          /\ sb[d].mcount \in Nat
      BY <1>1, <2>1, NumbersAre DEF Unit
    <3> QED BY <1>12, <3>1
  <2>5. \A d \in Entry : inode[d].count > 0 => inode'[d].sb = inode[d].sb
    BY <1>4, <1>7
  <2> QED BY <1>1, <1>5, <1>17, <2>3, <2>4, <2>5, CountsRefs
<1>21. Umounts'
  <2>1. sb[Mounted].mcount = 0 => proc[p].dev # Mounted
    BY <1>1, <1>10, CountedIn, Constants
  <2>2. sb[Mounted].mcount = 0 => sb'[Mounted].mcount = 0
    BY <1>12, <2>1, Constants
  <2> QED BY <1>1, <1>5, <1>12, <1>17, <2>2, UmountsKeep
<1>22. HashExact'
  <2>1. hash' = { d \in Entry : inode'[d].ino # NULL }
    BY <1>0, <1>1, <1>e, <1>4, <1>7 DEF HashExact
  <2>2. \A d \in hash' : d \in hash /\ inode'[d] = inode[d]
    BY <1>0, <1>1, <1>e, <1>7 DEF Types
  <2> QED BY <1>1, <2>1, <2>2 DEF HashExact, Is
<1>23. /\ \A d \in Entry \ {e} : inode'[d] = inode[d]
       /\ inode' = inode \/ (Apart(p, e) /\ EntryOf(e)')
  BY <1>7, <1>18, <1>19
<1> QED BY <1>5, <1>13, <1>14, <1>15, <1>16, <1>17, <1>20, <1>21, <1>22, <1>23, StepKeeps

-----------------------------------------------------------------------------
(* The use of an inode *)

\* A user that has an inode locked changes it.
LEMMA UsedKeeps ==
    ASSUME InodeInv, NEW p \in Proc, proc[p].pc = "locked", Owns(p), NEW e \in Entry, proc[p].e = e,
           NEW r \in InodeType, r.mode, r.count = inode[e].count, r.dev = inode[e].dev, r.ino = inode[e].ino,
           r.sb = inode[e].sb, r.mount = inode[e].mount, inode' = [inode EXCEPT ![e] = r], cpu' = NULL,
           UNCHANGED <<lock, lru, hash, sb, updlock, proc>>
    PROVE  InodeInv'
<1>1. LocalsOf(p) /\ Types /\ Locks /\ HandOf(p) /\ Hands /\ Counts
  BY Parts
<1>2. p \in User /\ p \notin Locker \cup Swapper \cup Umounter
  BY <1>1, Constants DEF LocalsOf, Putting
<1>3. inode[e] \in InodeType /\ EntryOf(e)
  BY OwnedEntry
<1>4. inode' \in [Entry -> InodeType] /\ inode'[e] = r /\ \A d \in Entry \ {e} : inode'[d] = inode[d]
  BY <1>1, InodeUpdate
<1>5. Types'
  BY <1>1, <1>4 DEF Types
<1>6. LocalsOf(p)' /\ Others(p) /\ SamePhase(p) /\ SameRefs(p)
  BY <1>1, <1>2 DEF LocalsOf, Others, SamePhase, SameRefs, Holds, SearchesIn
<1>7. Locks'
  BY <1>1 DEF Locks, LockOf
<1>8. HandOf(p)'
  BY <1>1, <1>2, <1>4 DEF HandOf, Holds, Is
<1>9. Holds(p) /\ inode[e].count > 0
  <2>1. Holds(p)
    BY <1>2, Constants DEF Holds
  <2> QED BY <1>1, <2>1, Counted
<1>10. /\ inode'[e].dev = inode[e].dev /\ inode'[e].ino = inode[e].ino
       /\ inode'[e].count = inode[e].count /\ inode'[e].sb = inode[e].sb
       /\ inode[e].mode /\ (\E q \in Locker \ {p} : proc[q].e = e) => inode'[e].mode
  BY <1>4
<1>11. EntryOf(e)'
  <2>1. inode'[e].count > 0 => inode[e].ino # NULL
    BY <1>3, <1>10 DEF EntryOf
  <2>2. inode'[e].chg => inode'[e].mode /\ inode'[e].count > 0
    BY <1>4, <1>9
  <2>3. inode'[e].mount => inode[e].mount
    BY <1>4
  <2> QED BY <1>3, <1>6, <1>10, <2>1, <2>2, <2>3, EntrySame
<1> QED BY <1>4, <1>5, <1>6, <1>7, <1>8, <1>10, <1>11, ChangeKeeps

\* The user changes, links or removes its inode.
LEMMA UseKeeps ==
    ASSUME InodeInv, NEW p \in Proc, Modify(p) \/ Create(p) \/ Erase(p)
    PROVE  InodeInv'
<1>1. proc[p].pc = "locked" /\ Owns(p) /\ cpu' = NULL /\ UNCHANGED <<lock, lru, hash, sb, updlock, proc>>
  BY DEF Modify, Create, Erase, Locked, At, Leaves
<1>e. PICK e \in Entry : proc[p].e = e /\ inode[e] \in InodeType
  BY <1>1, OwnedEntry
<1>2. \E n \in BOOLEAN : inode' = [inode EXCEPT ![e] = [inode[e] EXCEPT !.mode = TRUE, !.nlink = n, !.chg = TRUE]]
  <2>0. inode \in [Entry -> InodeType]
    BY Parts DEF Types
  <2>1. CASE Modify(p)
    <3>1. inode[e].mode = TRUE /\ inode' = [inode EXCEPT ![e] = [inode[e] EXCEPT !.chg = TRUE]]
      BY <1>e, <2>1 DEF Modify, InodeType
    <3>2. [inode[e] EXCEPT !.chg = TRUE] = [inode[e] EXCEPT !.mode = TRUE, !.nlink = inode[e].nlink, !.chg = TRUE]
      BY <1>e, <3>1 DEF InodeType
    <3> QED BY <1>e, <3>1, <3>2 DEF InodeType
  <2>2. CASE Create(p)
    BY <1>e, <2>2 DEF Create
  <2>3. CASE Erase(p)
    <3>1. inode[e].mode = TRUE /\ inode' = [inode EXCEPT ![e] = [inode[e] EXCEPT !.nlink = FALSE, !.chg = TRUE]]
      BY <1>e, <2>3 DEF Erase, InodeType
    <3>2. [inode[e] EXCEPT !.nlink = FALSE, !.chg = TRUE] = [inode[e] EXCEPT !.mode = TRUE, !.nlink = FALSE, !.chg = TRUE]
      BY <1>e, <3>1 DEF InodeType
    <3> QED BY <3>1, <3>2
  <2> QED BY <2>1, <2>2, <2>3
<1>n. PICK n \in BOOLEAN : inode' = [inode EXCEPT ![e] = [inode[e] EXCEPT !.mode = TRUE, !.nlink = n, !.chg = TRUE]]
  BY <1>2
<1> DEFINE r == [inode[e] EXCEPT !.mode = TRUE, !.nlink = n, !.chg = TRUE]
<1>3. /\ r \in InodeType /\ r.mode /\ r.count = inode[e].count /\ r.dev = inode[e].dev /\ r.ino = inode[e].ino
      /\ r.sb = inode[e].sb /\ r.mount = inode[e].mount
  BY <1>e DEF InodeType
<1>4. inode' = [inode EXCEPT ![e] = r]
  BY <1>n
<1> HIDE DEF r
<1> QED BY <1>1, <1>e, <1>3, <1>4, UsedKeeps

\* The user keeps its inode, unlocked.
LEMMA OpenKeeps ==
    ASSUME InodeInv, NEW p \in Proc, Open(p)
    PROVE  InodeInv'
<1>1. /\ proc[p].pc = "locked" /\ Owns(p) /\ lock' = [lock EXCEPT ![proc[p].e] = Tail(@)]
      /\ proc' = [proc EXCEPT ![p].pc = "user"] /\ cpu' = NULL
      /\ UNCHANGED <<inode, lru, hash, sb, updlock>>
  BY DEF Open, Locked, At, SleepFree, Goto, Leaves
<1>2. LocalsOf(p) /\ Types /\ Locks /\ HandOf(p)
  BY Parts
<1>3. p \in User /\ p \notin Locker \cup Swapper \cup Umounter
  BY <1>1, <1>2, Constants DEF LocalsOf, Putting
<1>4. proc[p].e \in Entry /\ lock[proc[p].e] # <<>>
  BY <1>1, OwnedEntry, SMTT(40)
<1>5. /\ proc' \in [Proc -> ProcType] /\ Others(p)
      /\ proc'[p].pc = "user" /\ proc'[p].e = proc[p].e /\ proc'[p].dev = proc[p].dev /\ proc'[p].ino = proc[p].ino
      /\ proc'[p].then = proc[p].then
  BY <1>1, <1>2, GotoIs DEF Label
<1>6. Types'
  BY <1>1, <1>2, <1>4, <1>5, LockUpdate, Constants DEF Types
<1>7. LocalsOf(p)'
  BY <1>1, <1>2, <1>3, <1>5 DEF LocalsOf, UserPc, Putting
<1>8. Locks'
  <2>1. ~InQueue(p)'
    BY <1>5 DEF InQueue, Owning, Queueing, Putting
  <2> QED BY <1>1, <1>2, <1>5, <2>1, LocksFree
<1>9. HandOf(p)'
  BY <1>1, <1>2, <1>3, <1>5 DEF HandOf, Holds, Is
<1>10. SamePhase(p)
  BY <1>3 DEF SamePhase
<1>11. SameRefs(p)
  BY <1>1, <1>3, <1>5 DEF SameRefs, Holds, SearchesIn
<1> QED BY <1>1, <1>5, <1>6, <1>7, <1>8, <1>9, <1>10, <1>11, WalkKeeps

\* The user waits for an inode that it has open, to use it again.
LEMMA AgainKeeps ==
    ASSUME InodeInv, NEW p \in Proc, Again(p)
    PROVE  InodeInv'
<1>0. p \in User /\ proc[p].pc = "user" /\ proc[p].e # NULL /\ Again(p)
  BY DEF Again, At
<1>2. LocalsOf(p) /\ Types /\ Locks /\ HandOf(p)
  BY Parts
<1>e. PICK e \in Entry : proc[p].e = e
  BY <1>0, <1>2 DEF Types, ProcType
<1>1. /\ lock' = [lock EXCEPT ![e] = Append(@, p)]
      /\ proc' = [proc EXCEPT ![p].pc = "locked", ![p].e = e] /\ cpu' \in Proc \cup {NULL}
      /\ UNCHANGED <<inode, lru, hash, sb, updlock>>
  BY <1>e, <1>0 DEF Again, SleepLock
<1>3. p \notin Locker \cup Swapper \cup Umounter
  BY <1>0, Constants, SMTT(40)
<1>5. /\ proc' \in [Proc -> ProcType] /\ Others(p)
      /\ proc'[p].pc = "locked" /\ proc'[p].e = e /\ proc'[p].dev = proc[p].dev /\ proc'[p].ino = proc[p].ino
      /\ proc'[p].then = proc[p].then
  BY <1>1, <1>2, GotoEntryIs, ZenonT(60) DEF Label
<1>6. Types'
  BY <1>1, <1>2, <1>5, LockUpdate DEF Types
<1>7. LocalsOf(p)'
  BY <1>0, <1>e, <1>2, <1>3, <1>5, Constants DEF LocalsOf, UserPc, Putting
<1>8. Locks'
  <2>1. ~InQueue(p) /\ InQueue(p)' /\ proc'[p].pc \notin Owning
    BY <1>0, <1>5 DEF InQueue, Owning, Queueing, Putting
  <2> QED BY <1>1, <1>2, <1>5, <2>1, LocksTake
<1>9. HandOf(p)'
  BY <1>0, <1>1, <1>e, <1>2, <1>3, <1>5 DEF HandOf, Holds, Is
<1>10. SamePhase(p)
  BY <1>3 DEF SamePhase
<1>11. SameRefs(p)
  BY <1>0, <1>e, <1>5, Constants DEF SameRefs, Holds, SearchesIn
<1> QED BY <1>1, <1>5, <1>6, <1>7, <1>8, <1>9, <1>10, <1>11, WalkKeeps

\* The user gives back the inode that it has locked.
LEMMA CloseKeeps ==
    ASSUME InodeInv, NEW p \in Proc, Close(p)
    PROVE  InodeInv'
<1>1. /\ proc[p].pc = "locked" /\ Owns(p) /\ proc' = [proc EXCEPT ![p].pc = "iput", ![p].then = "user"]
      /\ cpu' = p /\ UNCHANGED <<inode, lock, lru, hash, sb, updlock>>
  BY DEF Close, Locked, At, Keeps
<1>2. LocalsOf(p) /\ Types /\ Locks /\ HandOf(p)
  BY Parts
<1>3. p \in User /\ p \notin Locker \cup Swapper \cup Umounter
  BY <1>1, <1>2, Constants DEF LocalsOf, Putting
<1>5. /\ proc' \in [Proc -> ProcType] /\ Others(p)
      /\ proc'[p].pc = "iput" /\ proc'[p].e = proc[p].e /\ proc'[p].dev = proc[p].dev /\ proc'[p].ino = proc[p].ino
      /\ proc'[p].then = "user"
  BY <1>1, <1>2, ThenIs DEF Label
<1>6. Types'
  BY <1>1, <1>2, <1>5, Constants DEF Types
<1>7. LocalsOf(p)'
  BY <1>1, <1>2, <1>3, <1>5 DEF LocalsOf, UserPc, Putting
<1>8. Locks'
  <2>1. InQueue(p)' /\ InQueue(p)
    BY <1>1, <1>5 DEF InQueue, Owning, Queueing, Putting
  <2> QED BY <1>1, <1>2, <1>5, <2>1, LocksSame
<1>9. HandOf(p)'
  BY <1>1, <1>2, <1>3, <1>5 DEF HandOf, Holds, Is
<1>10. SamePhase(p)
  BY <1>3 DEF SamePhase
<1>11. SameRefs(p)
  BY <1>1, <1>3, <1>5 DEF SameRefs, Holds, SearchesIn
<1> QED BY <1>1, <1>5, <1>6, <1>7, <1>8, <1>9, <1>10, <1>11, WalkKeeps

-----------------------------------------------------------------------------
(* iput *)

\* The last use of an inode changes it.
LEMMA PutKeeps ==
    ASSUME InodeInv, NEW p \in Proc, proc[p].pc \in Putting, Owns(p), NEW e \in Entry, proc[p].e = e,
           inode[e].count = 1,
           NEW r \in InodeType, r.chg => r.mode, r.count = inode[e].count, r.dev = inode[e].dev, r.ino = inode[e].ino,
           r.sb = inode[e].sb, r.mount = inode[e].mount, inode' = [inode EXCEPT ![e] = r],
           NEW pc \in {"iputend", "iputfree"}, pc = "iputend" => ~r.chg,
           proc' = [proc EXCEPT ![p].pc = pc], cpu' \in Proc \cup {NULL},
           UNCHANGED <<lock, lru, hash, sb, updlock>>
    PROVE  InodeInv'
<1>1. LocalsOf(p) /\ Types /\ Locks /\ HandOf(p) /\ Hands /\ Locals /\ Counts
  BY Parts
<1>2. proc[p].then # "visit" /\ p \notin Locker /\ p \notin Swapper
  BY <1>1, Constants DEF LocalsOf, HandOf, Putting
<1>3. inode[e] \in InodeType /\ EntryOf(e)
  BY OwnedEntry
<1>4. inode' \in [Entry -> InodeType] /\ inode'[e] = r /\ \A d \in Entry \ {e} : inode'[d] = inode[d]
  BY <1>1, InodeUpdate
<1>5. /\ proc' \in [Proc -> ProcType] /\ Others(p)
      /\ proc'[p].pc = pc /\ proc'[p].e = e /\ proc'[p].dev = proc[p].dev /\ proc'[p].ino = proc[p].ino
      /\ proc'[p].then = proc[p].then
  BY <1>1, GotoIs DEF Label
<1>6. Types'
  BY <1>1, <1>4, <1>5 DEF Types
<1>7. LocalsOf(p)'
  <2>1. p \in User \/ p \in Umounter
    BY <1>2, Constants
  <2>2. CASE p \in User
    BY <2>2, <1>1, <1>5, Constants DEF LocalsOf, UserPc, Putting
  <2>3. CASE p \in Umounter
    BY <2>3, <1>1, <1>2, <1>5, Constants DEF LocalsOf, UserPc, Putting
  <2> QED BY <2>1, <2>2, <2>3
<1>8. Locks'
  <2>1. InQueue(p)' /\ InQueue(p)
    BY <1>5 DEF InQueue, Owning, Queueing, Putting
  <2> QED BY <1>1, <1>5, <2>1, LocksSame
<1>9. HandOf(p)'
  BY <1>1, <1>2, <1>4, <1>5 DEF HandOf, Holds, Is, Putting
<1>10. SamePhase(p)
  BY <1>5 DEF SamePhase, Busy, Tested, Unlinked, Marks, Keeps1, Keeps2, Putting
<1>11. SameRefs(p)
  BY <1>2, <1>5 DEF SameRefs, Holds, SearchesIn, Putting
<1>12. ~ \E q \in Locker \ {p} : proc[q].e = e
  <2> SUFFICES ASSUME NEW q \in Locker, q # p, proc[q].e = e PROVE FALSE
    OBVIOUS
  <2>1. q \in Proc /\ LocalsOf(q) /\ q \notin User /\ q \notin Swapper /\ q \notin Umounter /\ e # NULL
    BY <1>1, Constants DEF Locals
  <2>2. Holds(q)
    BY <2>1 DEF Holds, LocalsOf
  <2>3. CASE p \in User
    <3>1. Holds(p)
      BY <2>3, <2>1 DEF Holds, Putting
    <3> QED BY <3>1, <2>1, <2>2, <1>1, Counted
  <2>4. CASE p \in Umounter
    <3>1. proc[p].then \in {"unlink", "iumerase"}
      BY <2>4, <1>1, <1>2 DEF LocalsOf, Types, ProcType
    <3>2. e = 1 \/ e = 2
      BY <2>4, <3>1, <1>1 DEF LocalsOf
    <3>3. e = 3
      BY <2>1 DEF LocalsOf
    <3> QED BY <3>2, <3>3
  <2> QED BY <2>3, <2>4, <1>2, Constants
<1>13. /\ inode'[e].dev = inode[e].dev /\ inode'[e].ino = inode[e].ino
       /\ inode'[e].count = inode[e].count /\ inode'[e].sb = inode[e].sb
       /\ inode[e].mode /\ (\E q \in Locker \ {p} : proc[q].e = e) => inode'[e].mode
  BY <1>4, <1>12
<1>14. EntryOf(e)'
  <2>1. inode'[e].count > 0 => inode[e].ino # NULL
    BY <1>3, <1>13 DEF EntryOf
  <2>2. inode'[e].chg => inode'[e].mode /\ inode'[e].count > 0
    BY <1>4
  <2>3. inode'[e].mount => inode[e].mount
    BY <1>4
  <2> QED BY <1>3, <1>5, <1>10, <1>13, <2>1, <2>2, <2>3, EntrySame
<1> QED BY <1>4, <1>5, <1>6, <1>7, <1>8, <1>9, <1>10, <1>11, <1>13, <1>14, ChangeKeeps

\* iput of a changed inode: the mark is cleared, and it is written.
LEMMA PutWriteKeeps ==
    ASSUME InodeInv, NEW p \in Proc, PutWrite(p)
    PROVE  InodeInv'
<1>1. /\ proc[p].pc = "iput" /\ Owns(p) /\ inode[proc[p].e].count = 1
      /\ inode' = [inode EXCEPT ![proc[p].e].chg = FALSE]
      /\ proc' = [proc EXCEPT ![p].pc = "iputend"] /\ cpu' = NULL
      /\ UNCHANGED <<lock, lru, hash, sb, updlock>>
  BY DEF PutWrite, Locked, At, LastUse, Goto, Leaves
<1>e. PICK e \in Entry : proc[p].e = e /\ inode[e] \in InodeType
  BY <1>1, OwnedEntry
<1> DEFINE r == [inode[e] EXCEPT !.chg = FALSE]
<1>2. /\ r \in InodeType /\ r.chg = FALSE /\ r.count = inode[e].count /\ r.dev = inode[e].dev /\ r.ino = inode[e].ino
      /\ r.sb = inode[e].sb /\ r.mount = inode[e].mount
  BY <1>e DEF InodeType
<1>3. inode' = [inode EXCEPT ![e] = r] /\ inode[e].count = 1
  BY <1>1, <1>e
<1> HIDE DEF r
<1>4. (r.chg => r.mode) /\ ~r.chg /\ proc[p].pc \in Putting /\ cpu' \in Proc \cup {NULL}
  BY <1>1, <1>2 DEF Putting
<1> QED BY <1>1, <1>e, <1>2, <1>3, <1>4, PutKeeps

\* iput of the last reference to a removed inode: its blocks are given back.
LEMMA PutFreeKeeps ==
    ASSUME InodeInv, NEW p \in Proc, PutFree(p)
    PROVE  InodeInv'
<1>1. /\ proc[p].pc = "iput" /\ Owns(p) /\ inode[proc[p].e].count = 1 /\ inode[proc[p].e].mode
      /\ inode' = [inode EXCEPT ![proc[p].e].chg = TRUE]
      /\ proc' = [proc EXCEPT ![p].pc = "iputfree"] /\ cpu' = NULL
      /\ UNCHANGED <<lock, lru, hash, sb, updlock>>
  BY DEF PutFree, Locked, At, LastUse, Goto, Leaves
<1>e. PICK e \in Entry : proc[p].e = e /\ inode[e] \in InodeType
  BY <1>1, OwnedEntry
<1> DEFINE r == [inode[e] EXCEPT !.chg = TRUE]
<1>2. /\ r \in InodeType /\ r.mode /\ r.count = inode[e].count /\ r.dev = inode[e].dev /\ r.ino = inode[e].ino
      /\ r.sb = inode[e].sb /\ r.mount = inode[e].mount
  BY <1>1, <1>e DEF InodeType
<1>3. inode' = [inode EXCEPT ![e] = r] /\ inode[e].count = 1
  BY <1>1, <1>e
<1> HIDE DEF r
<1>4. (r.chg => r.mode) /\ proc[p].pc \in Putting /\ cpu' \in Proc \cup {NULL}
  BY <1>1, <1>2 DEF Putting
<1> QED BY <1>1, <1>e, <1>2, <1>3, <1>4, PutKeeps

\* The blocks are given back, and the inode is written.
LEMMA PutFreedKeeps ==
    ASSUME InodeInv, NEW p \in Proc, PutFreed(p)
    PROVE  InodeInv'
<1>1. /\ proc[p].pc = "iputfree" /\ Owns(p)
      /\ inode' = [inode EXCEPT ![proc[p].e].mode = FALSE, ![proc[p].e].chg = FALSE]
      /\ proc' = [proc EXCEPT ![p].pc = "iputend"] /\ cpu' = p
      /\ UNCHANGED <<lock, lru, hash, sb, updlock>>
  BY DEF PutFreed, Locked, At, Goto, Keeps
<1>e. PICK e \in Entry : proc[p].e = e /\ inode[e] \in InodeType
  BY <1>1, OwnedEntry
<1> DEFINE r == [inode[e] EXCEPT !.mode = FALSE, !.chg = FALSE]
<1>2. /\ r \in InodeType /\ r.chg = FALSE /\ r.count = inode[e].count /\ r.dev = inode[e].dev /\ r.ino = inode[e].ino
      /\ r.sb = inode[e].sb /\ r.mount = inode[e].mount
  BY <1>e DEF InodeType
<1>3. inode' = [inode EXCEPT ![e] = r] /\ inode[e].count = 1
  BY <1>1, <1>e, Parts DEF HandOf
<1> HIDE DEF r
<1>4. (r.chg => r.mode) /\ ~r.chg /\ proc[p].pc \in Putting /\ cpu' \in Proc \cup {NULL}
  BY <1>1, <1>2 DEF Putting
<1> QED BY <1>1, <1>e, <1>2, <1>3, <1>4, PutKeeps

\* The parts of the invariant, when the umount goes on to another phase.
LEMMA PhaseStep ==
    ASSUME InodeInv, NEW p \in Proc, NEW e \in Entry, Others(p),
           \A d \in Entry \ {e} : inode'[d] = inode[d],
           \A d \in Entry : MountHolds(d)' => MountHolds(d),
           inode' = inode \/ (Apart(p, e) /\ EntryOf(e)'),
           \A d \in Entry : inode[d].mount /\ (d # e \/ inode' = inode) => \A q \in Umounter : Marks(q) => Marks(q)',
           LocalsOf(p)', HandOf(p)', Types', Locks', Counts', Umounts', HashExact'
    PROVE  InodeInv'
<1>1. Locals'
  BY LocalsKeep DEF InodeInv
<1>2. \A d \in Entry : EntryOf(d)
  BY DEF InodeInv, Entries
<1>3. ASSUME NEW d \in Entry, inode'[d] = inode[d], d # e \/ inode' = inode PROVE EntryOf(d)'
  BY <1>2, <1>3, EntryKeeps
<1>6. ASSUME NEW d \in Entry PROVE EntryOf(d)'
  <2>1. CASE inode' = inode
    BY <2>1, <1>3
  <2>2. CASE d # e
    BY <2>2, <1>3
  <2>3. CASE d = e /\ Apart(p, e) /\ EntryOf(e)'
    BY <2>3
  <2> QED BY <2>1, <2>2, <2>3
<1>7. Hands'
  <2>1. CASE inode' = inode
    <3>1. ASSUME NEW q \in Proc, q # p PROVE HandOf(q)'
      BY <3>1, <2>1 DEF InodeInv, Hands, HandOf, Others, Holds, Is
    <3> QED BY <3>1 DEF Hands
  <2>2. CASE Apart(p, e)
    BY <2>2, HandsKeep DEF InodeInv
  <2> QED BY <2>1, <2>2
<1>8. CountsExact'
  <2>1. CountsExact' <=> Counts'
    BY CountsSame, PTL
  <2> QED BY <2>1
<1> QED BY <1>1, <1>6, <1>7, <1>8 DEF InodeInv, Entries

\* An inode with references has an SB, which counts them.
LEMMA CountedSb ==
    ASSUME Types, Counts, NEW e \in Entry, EntryOf(e), inode[e].count > 0
    PROVE  /\ inode[e].sb \in Device /\ inode[e].sb = inode[e].dev
           /\ sb[inode[e].sb].mcount # 0 /\ sb[inode[e].sb].mcount + (-1) \in Nat
<1>1. inode[e].dev \in Device /\ inode[e].sb = inode[e].dev
  <2>1. inode[e].dev \in Device \cup {NULL}
    BY DEF Types, InodeType
  <2> QED BY <2>1 DEF EntryOf
<1>2. sb[inode[e].sb].mcount \in Nat
  BY <1>1, NumbersAre
<1>3. sb[inode[e].sb].mcount # 0
  BY <1>1, CountedIn
<1> QED BY <1>1, <1>2, <1>3

\* EntryOf after a step of umount that keeps the identity of the entry.
LEMMA EntryPhase ==
    ASSUME NEW e \in Entry, EntryOf(e), MountHolds(e)' => MountHolds(e), \A q \in Umounter : Marks(q) => Marks(q)',
           inode'[e].dev = inode[e].dev, inode'[e].ino = inode[e].ino, inode'[e].sb = inode[e].sb,
           inode'[e].count > 0 => inode[e].ino # NULL,
           inode'[e].chg => inode'[e].mode /\ inode'[e].count > 0,
           inode'[e].mount => inode[e].mount
    PROVE  EntryOf(e)'
<1>3. inode'[e].mount => e = 1 /\ \A q \in Umounter : Marks(q)'
  BY DEF EntryOf, Marks
<1>4. inode'[e].mount => e = 1 /\ \A q \in Umounter :
          proc'[q].then \notin {"unlink", "iumerase"} /\ proc'[q].pc \notin {"unlink", "undev", "iumerase", "done"}
  BY <1>3 DEF Marks
<1>5. (e = 1 /\ MountHolds(e)' => Is(e, Root, DirIno)') /\ (e = 2 /\ MountHolds(e)' => Is(e, Root, DevIno)')
  BY DEF EntryOf, Is
<1> QED BY <1>4, <1>5 DEF EntryOf

\* Umounts after a step of umount that does not pass one of its tests.
LEMMA UmountsPhase ==
    ASSUME Umounts,
           \A q \in Umounter : /\ Busy(q)' <=> Busy(q)
                               /\ Tested(q)' <=> Tested(q)
                               /\ Unlinked(q)' <=> Unlinked(q),
           \A d \in Device : sb'[d].mounted = sb[d].mounted /\ sb'[d].mbusy = sb[d].mbusy,
           sb[Mounted].mcount = 0 => sb'[Mounted].mcount = 0
    PROVE  Umounts'
<1>1. Root \in Device /\ Mounted \in Device
  BY Constants
<1> QED BY <1>1 DEF Umounts

\* Only one process is in umount.
LEMMA OthersIdle ==
    ASSUME InodeInv, NEW p \in Umounter, Busy(p), NEW q \in Umounter, q # p
    PROVE  ~Busy(q) /\ ~Tested(q) /\ ~Unlinked(q) /\ Marks(q) /\ Keeps1(q) /\ Keeps2(q)
<1>1. Umounts /\ LocalsOf(q)
  BY Parts, Constants
<1>2. ~Busy(q)
  BY <1>1 DEF Umounts
<1> QED BY <1>1, <1>2 DEF Busy, Tested, Unlinked, Marks, Keeps1, Keeps2, LocalsOf, Putting

\* The step of the umount, for the phases of all.
LEMMA OnePhase ==
    ASSUME InodeInv, NEW p \in Umounter, Busy(p), Others(p)
    PROVE  /\ \A e : MountHolds(e) <=> (e = 1 /\ Keeps1(p)) \/ (e = 2 /\ Keeps2(p))
           /\ \A e : MountHolds(e)' <=> (e = 1 /\ Keeps1(p)') \/ (e = 2 /\ Keeps2(p)')
           /\ \A q \in Umounter : q # p => /\ Busy(q)' <=> Busy(q)
                                           /\ Tested(q)' <=> Tested(q)
                                           /\ Unlinked(q)' <=> Unlinked(q)
                                           /\ Marks(q)' <=> Marks(q)
<1>1. ASSUME NEW q \in Umounter, q # p
      PROVE  /\ Busy(q)' <=> Busy(q)
             /\ Tested(q)' <=> Tested(q)
             /\ Unlinked(q)' <=> Unlinked(q)
             /\ Marks(q)' <=> Marks(q)
             /\ Keeps1(q)' /\ Keeps2(q)' /\ Keeps1(q) /\ Keeps2(q)
  <2>1. proc'[q] = proc[q]
    BY <1>1, Constants DEF Others
  <2>2. Keeps1(q) /\ Keeps2(q)
    BY <1>1, OthersIdle
  <2> QED BY <2>1, <2>2 DEF Busy, Tested, Unlinked, Marks, Keeps1, Keeps2
<1>2. \A e : MountHolds(e)' <=> \/ e = 1 /\ \A q \in Umounter : Keeps1(q)'
                                \/ e = 2 /\ \A q \in Umounter : Keeps2(q)'
  BY DEF MountHolds, Keeps1, Keeps2
<1> QED BY <1>1, <1>2, MountHoldsIs

\* The end of iput: the counts go down.
LEMMA PutEndKeeps ==
    ASSUME InodeInv, NEW p \in Proc, PutEnd(p)
    PROVE  InodeInv'
<1>0. /\ Owns(p)
      /\ \/ proc[p].pc = "iput" /\ (inode[proc[p].e].count # 1 \/ NothingToWrite(proc[p].e))
         \/ proc[p].pc = "iputend"
      /\ Mcount(inode[proc[p].e].sb, -1)
      /\ inode' = [inode EXCEPT ![proc[p].e].count = @ - 1]
      /\ lock' = [lock EXCEPT ![proc[p].e] = Tail(@)]
      /\ proc' = [proc EXCEPT ![p] = [Idle EXCEPT !.pc = proc[p].then, !.i = proc[p].i]]
      /\ cpu' \in Proc \cup {NULL} /\ UNCHANGED <<lru, hash, updlock>>
  BY DEF PutEnd, Locked, At, LastUse, SleepFree
<1>e. PICK e \in Entry : proc[p].e = e
  BY <1>0, OwnedEntry
<1>t. PICK then \in {"user", "visit", "unlink", "iumerase"} : proc[p].then = then
  BY Parts DEF ProcType
<1>p. proc[p].pc \in Putting
  BY <1>0 DEF Putting
<1>1. LocalsOf(p) /\ Types /\ Locks /\ HandOf(p) /\ HashExact /\ Umounts /\ Locals /\ Counts /\ Hands /\ Entries
  BY Parts
<1>2. inode[e] \in InodeType /\ EntryOf(e) /\ lock[e] # <<>>
  BY <1>0, <1>e, OwnedEntry
<1>3. /\ p \notin Locker
      /\ p \in User => then = "user"
      /\ p \in Swapper => then = "visit"
      /\ p \in Umounter => then # "user" /\ Busy(p)
      /\ then = "unlink" => p \in Umounter /\ e = 1
      /\ then = "iumerase" => p \in Umounter /\ e = 2
  BY <1>0, <1>p, <1>1, <1>t, <1>e, Constants DEF LocalsOf, Putting, Busy
<1>4. /\ proc' \in [Proc -> ProcType] /\ Others(p)
      /\ proc'[p].pc = then /\ proc'[p].e = NULL /\ proc'[p].then = "user"
  <2> DEFINE r == [Idle EXCEPT !.pc = then, !.i = proc[p].i]
  <2>1. r \in ProcType /\ r.pc = then /\ r.e = NULL /\ r.then = "user"
    BY Parts DEF Idle, ProcType, Label
  <2>2. proc' = [proc EXCEPT ![p] = r]
    BY <1>0, <1>t
  <2> HIDE DEF r
  <2> QED BY <1>1, <2>1, <2>2, ProcUpdate
<1>5. inode[e].count > 0
  <2>1. CASE then \in {"user", "visit"}
    <3>1. Holds(p)
      <4>1. CASE p \in User
        BY <4>1, <1>p, <1>e, Constants DEF Holds, Putting
      <4>2. CASE p \notin User
        <5>1. then = "visit" /\ proc[p].pc = "iput"
          BY <4>2, <2>1, <1>3, <1>1, <1>t, <1>p, Constants DEF LocalsOf, Putting
        <5> QED BY <4>2, <5>1, <1>3, <1>t, <1>e, Constants DEF Holds
      <4> QED BY <4>1, <4>2
    <3> QED BY <3>1, <1>1, <1>e, Counted
  <2>2. CASE then \in {"unlink", "iumerase"}
    <3>1. p \in Umounter /\ Busy(p)
      BY <2>2, <1>3
    <3>2. (then = "unlink" => Keeps1(p)) /\ Keeps2(p)
      BY <1>p, <1>t DEF Keeps1, Keeps2, Putting
    <3>3. MountHolds(e)
      BY <2>2, <3>1, <3>2, <1>3, <1>4, OnePhase
    <3> QED BY <3>3, <1>1, Counted
  <2> QED BY <2>1, <2>2
<1> DEFINE r == [inode[e] EXCEPT !.count = @ - 1]
<1>6. /\ r \in InodeType /\ r.count = inode[e].count - 1 /\ r.dev = inode[e].dev /\ r.ino = inode[e].ino
      /\ r.sb = inode[e].sb /\ r.mode = inode[e].mode /\ r.chg = inode[e].chg /\ r.mount = inode[e].mount
  BY <1>2, <1>5 DEF InodeType
<1>7. inode' = [inode EXCEPT ![e] = r]
  BY <1>0, <1>e
<1> HIDE DEF r
<1>8. inode' \in [Entry -> InodeType] /\ inode'[e] = r /\ \A d \in Entry \ {e} : inode'[d] = inode[d]
  BY <1>1, <1>6, <1>7, InodeUpdate
<1>d. PICK dev \in Device : /\ inode[e].sb = dev
                            /\ sb[dev].mcount # 0 /\ sb[dev].mcount + (-1) \in Nat
  BY <1>1, <1>2, <1>5, CountedSb
<1>9. /\ sb' \in [Device -> SbType]
      /\ \A c \in Device : /\ sb'[c].mounted = sb[c].mounted /\ sb'[c].mbusy = sb[c].mbusy
                           /\ sb'[c].mcount = IF c = dev THEN sb[c].mcount + (-1) ELSE sb[c].mcount
  <2>1. Mcount(dev, -1) /\ -1 \in Int
    BY <1>0, <1>e, <1>d
  <2> QED BY <1>1, <1>d, <2>1, McountIs
<1>10. Types'
  <2>1. lock' \in [Entry -> Seq(Proc)]
    BY <1>0, <1>1, <1>2, <1>e, LockUpdate
  <2> QED BY <1>0, <1>1, <1>4, <1>8, <1>9, <2>1 DEF Types
<1>11. LocalsOf(p)'
  BY <1>3, <1>4, Constants DEF LocalsOf, UserPc, Putting
<1>12. Locks'
  <2>1. ~InQueue(p)'
    BY <1>4 DEF InQueue, Owning, Queueing, Putting
  <2> QED BY <1>0, <1>1, <1>4, <2>1, LocksFree
<1>13. HandOf(p)' /\ ~Holds(p)'
  BY <1>3, <1>4 DEF HandOf, Holds
<1>14. Apart(p, e)
  <2>1. /\ inode'[e].dev = inode[e].dev /\ inode'[e].ino = inode[e].ino
        /\ inode[e].mode /\ (\E q \in Locker \ {p} : proc[q].e = e) => inode'[e].mode
    BY <1>6, <1>8
  <2> QED BY <1>0, <1>1, <1>e, <2>1, OwnerApart
<1>15. /\ \A d \in Entry : MountHolds(d)' => MountHolds(d)
       /\ \A q \in Umounter : Marks(q) => Marks(q)'
       /\ \A q \in Umounter : /\ Busy(q)' <=> Busy(q)
                              /\ Tested(q)' <=> Tested(q)
                              /\ Unlinked(q)' <=> Unlinked(q)
  <2>1. CASE p \in Umounter
    <3>1. Busy(p)
      BY <2>1, <1>3
    <3>2. /\ Busy(p)' <=> Busy(p)
          /\ Tested(p)' <=> Tested(p)
          /\ Unlinked(p)' <=> Unlinked(p)
          /\ Marks(p) => Marks(p)'
          /\ Keeps1(p)' => Keeps1(p)
          /\ Keeps2(p)' => Keeps2(p)
      BY <2>1, <1>3, <1>4, <1>t, <1>p, <1>1 DEF Busy, Tested, Unlinked, Marks, Keeps1, Keeps2, Putting
    <3> QED BY <2>1, <3>1, <3>2, <1>4, OnePhase
  <2>2. CASE p \notin Umounter
    <3>1. SamePhase(p)
      BY <2>2 DEF SamePhase
    <3> QED BY <3>1, <1>4, PhaseKeeps
  <2> QED BY <2>1, <2>2
<1>16. EntryOf(e)'
  <2>1. inode[e].chg => inode[e].mode /\ inode[e].count > 1
    <3> SUFFICES ASSUME inode[e].chg PROVE inode[e].mode /\ inode[e].count > 1
      OBVIOUS
    <3>1. inode[e].mode /\ proc[p].pc # "iputend"
      BY <1>1, <1>2, <1>e DEF EntryOf, HandOf
    <3>2. ~NothingToWrite(e)
      BY <3>1 DEF NothingToWrite
    <3>3. inode[e].count # 1 /\ inode[e].count \in Nat
      BY <1>0, <1>e, <3>1, <3>2, <1>1, NumbersAre
    <3> QED BY <3>1, <3>3, <1>5
  <2>2. inode'[e].dev = inode[e].dev /\ inode'[e].ino = inode[e].ino /\ inode'[e].sb = inode[e].sb
    BY <1>6, <1>8
  <2>3. inode'[e].count > 0 => inode[e].ino # NULL
    BY <1>2, <1>5 DEF EntryOf
  <2>4. inode[e].count \in Nat
    BY <1>1, NumbersAre
  <2>5. inode'[e].chg => inode'[e].mode /\ inode'[e].count > 0
    BY <2>1, <2>4, <1>6, <1>8
  <2>6. inode'[e].mount => inode[e].mount
    BY <1>6, <1>8
  <2> QED BY <1>2, <1>15, <2>2, <2>3, <2>5, <2>6, EntryPhase
<1>17. Umounts'
  <2>1. sb[Mounted].mcount = 0 => sb'[Mounted].mcount = 0
    BY <1>9, <1>d, Constants
  <2> QED BY <1>1, <1>9, <1>15, <2>1, UmountsPhase
<1>18. HashExact'
  <2>1. \A d \in Entry : inode'[d].dev = inode[d].dev /\ inode'[d].ino = inode[d].ino
    BY <1>6, <1>8
  <2> QED BY <1>0, <1>1, <2>1, HashKeeps
<1>19. Counts'
  <2>0. /\ \A d \in Entry : ~HoldsOn(p, d)'
        /\ \A d \in Device : ~HoldsIn(p, d)' /\ ~SearchesIn(p, d)' /\ ~SearchesIn(p, d)
    BY <1>13, <1>4, <1>p DEF HoldsOn, HoldsIn, SearchesIn, Putting
  <2>a. \A d \in Entry : inode[d].count > 0 => inode'[d].sb = inode[d].sb
    BY <1>6, <1>8
  <2>1. CASE then \in {"user", "visit"}
    <3>1. Holds(p)
      <4>1. CASE p \in User
        BY <4>1, <1>p, <1>e, Constants DEF Holds, Putting
      <4>2. CASE p \notin User
        <5>1. then = "visit" /\ proc[p].pc = "iput"
          BY <4>2, <2>1, <1>3, <1>1, <1>t, <1>p, Constants DEF LocalsOf, Putting
        <5> QED BY <4>2, <5>1, <1>3, <1>t, <1>e, Constants DEF Holds
      <4> QED BY <4>1, <4>2
    <3>2. /\ \A d \in Entry : HoldsOn(p, d) <=> d = e
          /\ \A d \in Device : HoldsIn(p, d) <=> d = dev
      BY <3>1, <1>e, <1>d DEF HoldsOn, HoldsIn
    <3>3. SamePhase(p)
      BY <2>1, <1>3, <1>4, <1>t, <1>p, <1>1 DEF SamePhase, Busy, Tested, Unlinked, Marks, Keeps1, Keeps2, Putting
    <3>4. ASSUME NEW d \in Entry
          PROVE  inode'[d].count = inode[d].count + Unit(HoldsOn(p, d)') - Unit(HoldsOn(p, d))
      <4>1. Unit(HoldsOn(p, d)) = (IF d = e THEN 1 ELSE 0) /\ Unit(HoldsOn(p, d)') = 0 /\ inode[d].count \in Nat
        BY <1>1, <2>0, <3>2, NumbersAre DEF Unit
      <4> QED BY <1>6, <1>8, <4>1
    <3>5. ASSUME NEW d \in Device
          PROVE  sb'[d].mcount = sb[d].mcount + Unit(SearchesIn(p, d)') - Unit(SearchesIn(p, d))
                                 + Unit(HoldsIn(p, d)') - Unit(HoldsIn(p, d))
      <4>1. /\ Unit(HoldsIn(p, d)) = (IF d = dev THEN 1 ELSE 0) /\ Unit(HoldsIn(p, d)') = 0
            /\ Unit(SearchesIn(p, d)) = 0 /\ Unit(SearchesIn(p, d)') = 0
            /\ sb[d].mcount \in Nat
        BY <1>1, <2>0, <3>2, NumbersAre DEF Unit
      <4> QED BY <1>9, <4>1
    <3> QED BY <1>1, <1>4, <2>a, <3>3, <3>4, <3>5, CountsRefs
  <2>2. CASE then \in {"unlink", "iumerase"}
    <3>1. p \in Umounter /\ Busy(p) /\ p \notin User
      BY <2>2, <1>3, Constants
    <3>2. ~Holds(p)
      BY <2>2, <3>1, <1>t, Constants DEF Holds
    <3>3. /\ then = "unlink" => Keeps1(p) /\ ~Keeps1(p)' /\ Keeps2(p)'
          /\ then = "iumerase" => ~Keeps1(p) /\ ~Keeps1(p)' /\ ~Keeps2(p)'
          /\ Keeps2(p)
      BY <1>p, <1>t, <1>4 DEF Keeps1, Keeps2, Putting
    <3>4. MountHolds(e) /\ ~MountHolds(e)' /\ \A d \in Entry \ {e} : MountHolds(d)' <=> MountHolds(d)
      BY <2>2, <3>1, <3>3, <1>3, <1>4, OnePhase
    <3>5. ASSUME NEW d \in Entry
          PROVE  inode'[d].count = inode[d].count + Unit(HoldsOn(p, d)') - Unit(HoldsOn(p, d))
                                   + Unit(MountHolds(d)') - Unit(MountHolds(d))
      <4>1. /\ Unit(HoldsOn(p, d)) = 0 /\ Unit(HoldsOn(p, d)') = 0 /\ inode[d].count \in Nat
            /\ Unit(MountHolds(d)) \in Int /\ Unit(MountHolds(d)') \in Int
        BY <1>1, <2>0, <3>2, NumbersAre DEF Unit, HoldsOn
      <4>2. d = e => Unit(MountHolds(d)) = 1 /\ Unit(MountHolds(d)') = 0
        BY <3>4 DEF Unit
      <4>3. d # e => Unit(MountHolds(d)) = Unit(MountHolds(d)')
        BY <3>4 DEF Unit
      <4> QED BY <1>6, <1>8, <4>1, <4>2, <4>3
    <3>6. ASSUME NEW d \in Device
          PROVE  sb'[d].mcount = sb[d].mcount + Unit(SearchesIn(p, d)') - Unit(SearchesIn(p, d))
                                 + Unit(HoldsIn(p, d)') - Unit(HoldsIn(p, d))
                                 + Unit(MountsIn(e, d)') - Unit(MountsIn(e, d))
      <4>1. /\ Unit(HoldsIn(p, d)) = 0 /\ Unit(HoldsIn(p, d)') = 0
            /\ Unit(SearchesIn(p, d)) = 0 /\ Unit(SearchesIn(p, d)') = 0
            /\ sb[d].mcount \in Nat
        BY <1>1, <2>0, <3>2, NumbersAre DEF Unit, HoldsIn
      <4>2. (MountsIn(e, d) <=> d = dev) /\ ~MountsIn(e, d)'
        BY <3>4, <1>d DEF MountsIn
      <4>3. Unit(MountsIn(e, d)) = (IF d = dev THEN 1 ELSE 0) /\ Unit(MountsIn(e, d)') = 0
        BY <4>2 DEF Unit
      <4> QED BY <1>9, <4>1, <4>3
    <3> QED BY <1>1, <1>4, <2>a, <3>4, <3>5, <3>6, CountsStep
  <2> QED BY <2>1, <2>2
<1>20. /\ \A d \in Entry \ {e} : inode'[d] = inode[d]
       /\ inode' = inode \/ (Apart(p, e) /\ EntryOf(e)')
       /\ \A d \in Entry : inode[d].mount /\ (d # e \/ inode' = inode) => \A q \in Umounter : Marks(q) => Marks(q)'
       /\ \A d \in Entry : MountHolds(d)' => MountHolds(d)
  BY <1>8, <1>14, <1>15, <1>16
<1> QED BY <1>4, <1>10, <1>11, <1>12, <1>13, <1>17, <1>18, <1>19, <1>20, PhaseStep

-----------------------------------------------------------------------------
(* update *)

\* update begins, unless another one is going on.
LEMMA UpdateBeginKeeps ==
    ASSUME InodeInv, NEW p \in Proc, UpdateBegin(p)
    PROVE  InodeInv'
<1>1. /\ p \in Swapper /\ proc[p].pc = "user" /\ updlock' = p
      /\ proc' = [proc EXCEPT ![p].pc = "visit", ![p].i = 1] /\ cpu' = p
      /\ UNCHANGED <<inode, lock, lru, hash, sb>>
  BY DEF UpdateBegin, At, Keeps
<1>2. LocalsOf(p) /\ Types /\ Locks /\ HandOf(p)
  BY Parts
<1>3. p \notin User /\ p \notin Umounter /\ p \notin Locker
  BY <1>1, Constants
<1>4. proc[p].e = NULL /\ proc[p].then = "user"
  BY <1>1, <1>2 DEF LocalsOf, Putting
<1>5. /\ proc' \in [Proc -> ProcType] /\ Others(p)
      /\ proc'[p].pc = "visit" /\ proc'[p].e = proc[p].e /\ proc'[p].then = proc[p].then
  <2>1. "visit" \in Label /\ 1 \in Nat \ {0}
    BY DEF Label
  <2> QED BY <1>1, <1>2, <2>1, PlaceIs
<1>6. Types'
  BY <1>1, <1>2, <1>5 DEF Types
<1>7. LocalsOf(p)'
  BY <1>1, <1>3, <1>4, <1>5 DEF LocalsOf, Putting
<1>8. Locks'
  <2>1. ~InQueue(p) /\ ~InQueue(p)' /\ proc'[p].pc \notin Owning
    BY <1>1, <1>5 DEF InQueue, Owning, Queueing, Putting
  <2> QED BY <1>1, <1>2, <1>5, <2>1, LocksSame
<1>9. HandOf(p)'
  BY <1>3, <1>5 DEF HandOf
<1>10. SamePhase(p)
  BY <1>3 DEF SamePhase
<1>11. SameRefs(p)
  BY <1>3, <1>4, <1>5 DEF SameRefs, Holds, SearchesIn
<1> QED BY <1>1, <1>5, <1>6, <1>7, <1>8, <1>9, <1>10, <1>11, WalkKeeps

\* Who visits entries.
LEMMA Visitor ==
    ASSUME InodeInv, NEW p \in Proc, proc[p].pc \in {"visit", "visited"}
    PROVE  /\ p \in Swapper \cup Umounter /\ p \notin User /\ p \notin Locker
           /\ proc[p].then = "user" /\ (proc[p].pc = "visit" => proc[p].e = NULL)
<1>1. LocalsOf(p)
  BY Parts
<1> QED BY <1>1, Constants DEF LocalsOf, UserPc, Putting

\* update waits for an entry.
LEMMA VisitKeeps ==
    ASSUME InodeInv, NEW p \in Proc, Visit(p)
    PROVE  InodeInv'
<1>1. proc[p].pc = "visit" /\ ToVisit(p) # {} /\ UNCHANGED <<inode, lru, hash, sb, updlock>>
  BY DEF Visit, At
<1>2. LocalsOf(p) /\ Types /\ Locks /\ HandOf(p) /\ proc[p] \in ProcType
  BY Parts
<1>3. p \in Swapper \cup Umounter /\ p \notin User /\ p \notin Locker /\ proc[p].then = "user" /\ proc[p].e = NULL
  BY <1>1, Visitor
<1>e. PICK e \in Entry : e = Min(ToVisit(p))
  <2>1. proc[p].i \in Nat \ {0} /\ NINODE \in Nat
    BY <1>2, Constants DEF ProcType
  <2>2. ToVisit(p) \in SUBSET Nat /\ ToVisit(p) \subseteq Entry
    BY <2>1 DEF ToVisit, Entry
  <2>3. Min(ToVisit(p)) \in ToVisit(p)
    BY <1>1, <2>2, MinIsLeast
  <2> QED BY <2>2, <2>3
<1>4. /\ lock' = [lock EXCEPT ![e] = Append(@, p)]
      /\ proc' = [proc EXCEPT ![p].pc = "visited", ![p].e = e, ![p].i = e + 1]
      /\ cpu' \in Proc \cup {NULL}
  BY <1>e DEF Visit
<1>5. /\ proc' \in [Proc -> ProcType] /\ Others(p)
      /\ proc'[p].pc = "visited" /\ proc'[p].e = e /\ proc'[p].then = proc[p].then
  <2>1. "visited" \in Label /\ e + 1 \in Nat \ {0}
    BY Constants DEF Label
  <2> QED BY <1>4, <1>2, <2>1, PlaceIs
<1>6. Types'
  BY <1>1, <1>2, <1>4, <1>5, LockUpdate DEF Types
<1>7. LocalsOf(p)'
  BY <1>3, <1>5, Constants DEF LocalsOf, Putting
<1>8. Locks'
  <2>1. ~InQueue(p) /\ InQueue(p)' /\ proc'[p].pc \notin Owning
    BY <1>1, <1>5 DEF InQueue, Owning, Queueing, Putting
  <2> QED BY <1>2, <1>4, <1>5, <2>1, LocksTake
<1>9. HandOf(p)'
  BY <1>3, <1>5 DEF HandOf
<1>10. SamePhase(p)
  BY <1>1, <1>3, <1>5 DEF SamePhase, Busy, Tested, Unlinked, Marks, Keeps1, Keeps2
<1>11. SameRefs(p)
  BY <1>1, <1>3, <1>5 DEF SameRefs, Holds, SearchesIn
<1> QED BY <1>1, <1>5, <1>6, <1>7, <1>8, <1>9, <1>10, <1>11, WalkKeeps

\* update passes an entry that needs no writing.
LEMMA VisitUnusedKeeps ==
    ASSUME InodeInv, NEW p \in Proc, VisitUnused(p)
    PROVE  InodeInv'
<1>1. /\ proc[p].pc = "visited" /\ Owns(p) /\ lock' = [lock EXCEPT ![proc[p].e] = Tail(@)]
      /\ proc' = [proc EXCEPT ![p].pc = "visit", ![p].e = NULL] /\ cpu' = p
      /\ UNCHANGED <<inode, lru, hash, sb, updlock>>
  BY DEF VisitUnused, Locked, At, SleepFree, Keeps
<1>2. LocalsOf(p) /\ Types /\ Locks /\ HandOf(p)
  BY Parts
<1>3. p \in Swapper \cup Umounter /\ p \notin User /\ p \notin Locker /\ proc[p].then = "user"
  BY <1>1, Visitor
<1>4. proc[p].e \in Entry /\ lock[proc[p].e] # <<>>
  BY <1>1, OwnedEntry, SMTT(40)
<1>5. /\ proc' \in [Proc -> ProcType] /\ Others(p)
      /\ proc'[p].pc = "visit" /\ proc'[p].e = NULL /\ proc'[p].then = proc[p].then
  BY <1>1, <1>2, GotoEntryIs, ZenonT(60) DEF Label
<1>6. Types'
  BY <1>1, <1>2, <1>4, <1>5, LockUpdate DEF Types
<1>7. LocalsOf(p)'
  BY <1>3, <1>5 DEF LocalsOf, Putting
<1>8. Locks'
  <2>1. ~InQueue(p)'
    BY <1>5 DEF InQueue, Owning, Queueing, Putting
  <2> QED BY <1>1, <1>2, <1>5, <2>1, LocksFree
<1>9. HandOf(p)'
  BY <1>3, <1>5 DEF HandOf
<1>10. SamePhase(p)
  BY <1>1, <1>3, <1>5 DEF SamePhase, Busy, Tested, Unlinked, Marks, Keeps1, Keeps2
<1>11. SameRefs(p)
  BY <1>1, <1>3, <1>5 DEF SameRefs, Holds, SearchesIn
<1> QED BY <1>1, <1>5, <1>6, <1>7, <1>8, <1>9, <1>10, <1>11, WalkKeeps

\* update takes a reference to a changed inode, to give it back by iput.
LEMMA VisitUsedKeeps ==
    ASSUME InodeInv, NEW p \in Proc, VisitUsed(p)
    PROVE  InodeInv'
<1>0. /\ proc[p].pc = "visited" /\ Owns(p) /\ inode[proc[p].e].count # 0
      /\ Mcount(inode[proc[p].e].sb, 1)
      /\ inode' = [inode EXCEPT ![proc[p].e].count = @ + 1, ![proc[p].e].chg = FALSE]
      /\ proc' = [proc EXCEPT ![p].pc = "iput", ![p].then = "visit"]
      /\ cpu' \in Proc \cup {NULL} /\ UNCHANGED <<lock, lru, hash, updlock>>
  BY DEF VisitUsed, Locked, At
<1>e. PICK e \in Entry : proc[p].e = e
  BY <1>0, OwnedEntry
<1>1. LocalsOf(p) /\ Types /\ Locks /\ HandOf(p) /\ HashExact /\ Umounts /\ Locals /\ Counts /\ Hands /\ Entries
  BY Parts
<1>2. p \in Swapper \cup Umounter /\ p \notin User /\ p \notin Locker /\ proc[p].then = "user"
  BY <1>0, Visitor
<1>3. inode[e] \in InodeType /\ EntryOf(e) /\ inode[e].count \in Nat /\ inode[e].count > 0
  BY <1>0, <1>e, <1>1, OwnedEntry, NumbersAre
<1> DEFINE r == [inode[e] EXCEPT !.count = @ + 1, !.chg = FALSE]
<1>4. /\ r \in InodeType /\ r.count = inode[e].count + 1 /\ r.dev = inode[e].dev /\ r.ino = inode[e].ino
      /\ r.sb = inode[e].sb /\ r.mode = inode[e].mode /\ r.chg = FALSE /\ r.mount = inode[e].mount
  <2> DEFINE n == inode[e].count + 1
  <2>1. n \in Nat /\ r = [inode[e] EXCEPT !.count = n, !.chg = FALSE]
    BY <1>3 DEF InodeType
  <2> HIDE DEF n, r
  <2> QED BY <1>3, <2>1 DEF InodeType, n
<1>5. /\ proc' \in [Proc -> ProcType] /\ Others(p)
      /\ proc'[p].pc = "iput" /\ proc'[p].e = e /\ proc'[p].dev = proc[p].dev /\ proc'[p].ino = proc[p].ino
      /\ proc'[p].then = "visit"
  BY <1>0, <1>1, <1>e, ThenIs DEF Label
<1>6. inode' = [inode EXCEPT ![e] = r]
  BY <1>0, <1>e
<1> HIDE DEF r
<1>7. inode' \in [Entry -> InodeType] /\ inode'[e] = r /\ \A d \in Entry \ {e} : inode'[d] = inode[d]
  BY <1>1, <1>4, <1>6, InodeUpdate
<1>d. PICK dev \in Device : inode[e].sb = dev /\ sb[dev].mcount # 0
  BY <1>1, <1>3, CountedSb
<1>9. /\ sb' \in [Device -> SbType]
      /\ \A c \in Device : /\ sb'[c].mounted = sb[c].mounted /\ sb'[c].mbusy = sb[c].mbusy
                           /\ sb'[c].mcount = IF c = dev THEN sb[c].mcount + 1 ELSE sb[c].mcount
  <2>1. Mcount(dev, 1) /\ sb[dev].mcount + 1 \in Nat
    BY <1>0, <1>e, <1>d, <1>1, NumbersAre
  <2> QED BY <1>1, <1>d, <2>1, McountIs
<1>10. Types'
  BY <1>0, <1>1, <1>5, <1>7, <1>9 DEF Types
<1>11. LocalsOf(p)'
  BY <1>2, <1>5, <1>e, Constants DEF LocalsOf, Putting
<1>12. Locks'
  <2>1. InQueue(p) /\ InQueue(p)'
    BY <1>0, <1>5 DEF InQueue, Owning, Queueing, Putting
  <2> QED BY <1>0, <1>1, <1>5, <1>e, <2>1, LocksSame
<1>13. HandOf(p)'
  BY <1>2, <1>3, <1>4, <1>5, <1>7 DEF HandOf
<1>14. SamePhase(p)
  BY <1>0, <1>2, <1>5 DEF SamePhase, Busy, Tested, Unlinked, Marks, Keeps1, Keeps2
<1>15. Apart(p, e)
  <2>1. /\ inode'[e].dev = inode[e].dev /\ inode'[e].ino = inode[e].ino
        /\ inode[e].mode /\ (\E q \in Locker \ {p} : proc[q].e = e) => inode'[e].mode
    BY <1>4, <1>7
  <2> QED BY <1>0, <1>1, <1>e, <2>1, OwnerApart
<1>16. EntryOf(e)'
  <2>1. inode'[e].dev = inode[e].dev /\ inode'[e].ino = inode[e].ino /\ inode'[e].sb = inode[e].sb
    BY <1>4, <1>7
  <2>2. inode'[e].count > 0 => inode[e].ino # NULL
    BY <1>3 DEF EntryOf
  <2>3. inode'[e].chg => inode'[e].mode /\ inode'[e].count > 0
    BY <1>4, <1>7
  <2>4. inode'[e].mount => inode[e].mount
    BY <1>4, <1>7
  <2> QED BY <1>3, <1>5, <1>14, <2>1, <2>2, <2>3, <2>4, EntrySame
<1>17. Umounts'
  <2>1. sb[Mounted].mcount = 0 => sb'[Mounted].mcount = 0
    BY <1>9, <1>d, Constants, SMTT(40)
  <2> QED BY <1>1, <1>5, <1>9, <1>14, <2>1, UmountsKeep
<1>18. HashExact'
  <2>1. \A d \in Entry : inode'[d].dev = inode[d].dev /\ inode'[d].ino = inode[d].ino
    BY <1>4, <1>7
  <2> QED BY <1>0, <1>1, <2>1, HashKeeps
<1>19. Counts'
  <2>1. ~Holds(p) /\ Holds(p)'
    BY <1>0, <1>2, <1>5, Constants DEF Holds
  <2>2. /\ \A d \in Entry : ~HoldsOn(p, d) /\ (HoldsOn(p, d)' <=> d = e)
        /\ \A d \in Device : ~HoldsIn(p, d) /\ (HoldsIn(p, d)' <=> d = dev)
        /\ \A d \in Device : ~SearchesIn(p, d) /\ ~SearchesIn(p, d)'
    BY <1>2, <1>4, <1>5, <1>7, <1>d, <2>1 DEF HoldsOn, HoldsIn, SearchesIn
  <2>3. ASSUME NEW d \in Entry
        PROVE  inode'[d].count = inode[d].count + Unit(HoldsOn(p, d)') - Unit(HoldsOn(p, d))
    <3>1. Unit(HoldsOn(p, d)') = (IF d = e THEN 1 ELSE 0) /\ Unit(HoldsOn(p, d)) = 0 /\ inode[d].count \in Nat
      BY <1>1, <2>2, NumbersAre DEF Unit
    <3> QED BY <1>4, <1>7, <3>1
  <2>4. ASSUME NEW d \in Device
        PROVE  sb'[d].mcount = sb[d].mcount + Unit(SearchesIn(p, d)') - Unit(SearchesIn(p, d))
                               + Unit(HoldsIn(p, d)') - Unit(HoldsIn(p, d))
    <3>1. /\ Unit(HoldsIn(p, d)') = (IF d = dev THEN 1 ELSE 0) /\ Unit(HoldsIn(p, d)) = 0
          /\ Unit(SearchesIn(p, d)) = 0 /\ Unit(SearchesIn(p, d)') = 0
          /\ sb[d].mcount \in Nat
      BY <1>1, <2>2, NumbersAre DEF Unit
    <3> QED BY <1>9, <3>1
  <2>5. \A d \in Entry : inode[d].count > 0 => inode'[d].sb = inode[d].sb
    BY <1>4, <1>7
  <2> QED BY <1>1, <1>5, <1>14, <2>3, <2>4, <2>5, CountsRefs
<1>20. /\ \A d \in Entry \ {e} : inode'[d] = inode[d]
       /\ inode' = inode \/ (Apart(p, e) /\ EntryOf(e)')
  BY <1>7, <1>15, <1>16
<1> QED BY <1>5, <1>10, <1>11, <1>12, <1>13, <1>14, <1>17, <1>18, <1>19, <1>20, StepKeeps

\* update ends, in the swapper or in umount.
LEMMA UpdateEndKeeps ==
    ASSUME InodeInv, NEW p \in Proc, UpdateEnd(p)
    PROVE  InodeInv'
<1>1. /\ proc[p].pc = "visit" /\ updlock' = NULL /\ cpu' \in Proc \cup {NULL}
      /\ proc' = [proc EXCEPT ![p] = [Idle EXCEPT !.pc = AfterUpdate(p)]]
      /\ UNCHANGED <<inode, lock, lru, hash, sb>>
  BY DEF UpdateEnd, At
<1>2. LocalsOf(p) /\ Types /\ Locks /\ HandOf(p)
  BY Parts
<1>3. /\ p \in Swapper \cup Umounter /\ p \notin User /\ p \notin Locker /\ proc[p].then = "user" /\ proc[p].e = NULL
      /\ ~(p \in Swapper /\ p \in Umounter)
  BY <1>1, Visitor, Constants
<1>5. /\ proc' \in [Proc -> ProcType] /\ Others(p)
      /\ proc'[p].pc = (IF p \in Umounter THEN "test" ELSE "user") /\ proc'[p].e = NULL /\ proc'[p].then = "user"
  <2> DEFINE r == [Idle EXCEPT !.pc = AfterUpdate(p)]
  <2>1. /\ r \in ProcType /\ r.pc = (IF p \in Umounter THEN "test" ELSE "user") /\ r.e = NULL /\ r.then = "user"
    BY DEF Idle, ProcType, Label, AfterUpdate
  <2> HIDE DEF r
  <2> QED BY <1>1, <1>2, <2>1, ProcUpdate DEF r
<1>6. Types'
  BY <1>1, <1>2, <1>5 DEF Types
<1>7. LocalsOf(p)'
  BY <1>3, <1>5 DEF LocalsOf, Putting
<1>8. Locks'
  <2>1. ~InQueue(p) /\ ~InQueue(p)' /\ proc'[p].pc \notin Owning
    BY <1>1, <1>5 DEF InQueue, Owning, Queueing, Putting
  <2> QED BY <1>1, <1>2, <1>5, <2>1, LocksSame
<1>9. HandOf(p)'
  BY <1>3, <1>5 DEF HandOf
<1>10. SamePhase(p)
  BY <1>1, <1>3, <1>5 DEF SamePhase, Busy, Tested, Unlinked, Marks, Keeps1, Keeps2
<1>11. SameRefs(p)
  BY <1>3, <1>5 DEF SameRefs, Holds, SearchesIn
<1> QED BY <1>1, <1>5, <1>6, <1>7, <1>8, <1>9, <1>10, <1>11, WalkKeeps

-----------------------------------------------------------------------------
(* umount *)

\* Kept is the subsequence of the elements of a set.
LEMMA KeptElements ==
    ASSUME NEW S, NEW s \in Seq(S), NEW T
    PROVE  /\ Kept(s, T) \in Seq(S)
           /\ ToSet(Kept(s, T)) = ToSet(s) \cap T
           /\ NoRepeat(s) => NoRepeat(Kept(s, T))
<1> DEFINE t == [i \in DOMAIN s |-> IF s[i] \in T THEN <<s[i]>> ELSE <<>>]
<1>0. DOMAIN s = 1 .. Len(s) /\ Len(s) \in Nat /\ \A i \in DOMAIN s : s[i] \in S
  OBVIOUS
<1>1. ASSUME NEW i \in DOMAIN s
      PROVE  /\ t[i] \in Seq(S) /\ NoRepeat(t[i])
             /\ \A x : x \in ToSet(t[i]) <=> x = s[i] /\ x \in T
  <2>1. CASE s[i] \in T
    <3>1. t[i] = <<s[i]>>
      BY <2>1
    <3>2. <<s[i]>> \in Seq(S) /\ ToSet(<<s[i]>>) = {s[i]} /\ NoRepeat(<<s[i]>>)
      BY <1>0, SingleElement
    <3> HIDE DEF t
    <3> QED BY <2>1, <3>1, <3>2
  <2>2. CASE s[i] \notin T
    <3>1. t[i] = <<>>
      BY <2>2
    <3> HIDE DEF t
    <3> QED BY <2>2, <3>1 DEF ToSet, NoRepeat
  <2> QED BY <2>1, <2>2
<1>2. DOMAIN t = 1 .. Len(s)
  BY <1>0
<1>k. Kept(s, T) = FlattenSeq(t)
  BY DEF Kept
<1>t. t = [i \in 1 .. Len(s) |-> t[i]]
  BY <1>0
<1> HIDE DEF t
<1>3. t \in Seq(Seq(S))
  BY <1>0, <1>1, <1>t
<1>4. /\ FlattenSeq(t) \in Seq(S)
      /\ \A x : x \in ToSet(FlattenSeq(t)) <=> \E i \in DOMAIN t : x \in ToSet(t[i])
      /\ (\A i \in DOMAIN t : NoRepeat(t[i])) /\ (\A i, j \in DOMAIN t : i # j => ToSet(t[i]) \cap ToSet(t[j]) = {})
           => NoRepeat(FlattenSeq(t))
  BY <1>3, FlattenElements
<1>5. ASSUME NoRepeat(s) PROVE NoRepeat(FlattenSeq(t))
  <2>1. ASSUME NEW i \in DOMAIN t, NEW j \in DOMAIN t, i # j PROVE ToSet(t[i]) \cap ToSet(t[j]) = {}
    <3>1. s[i] # s[j]
      BY <1>0, <1>2, <1>5, <2>1 DEF NoRepeat
    <3> QED BY <3>1, <1>0, <1>1, <1>2
  <2> QED BY <1>0, <1>1, <1>2, <1>4, <2>1
<1>6. ASSUME NEW x PROVE x \in ToSet(FlattenSeq(t)) <=> x \in ToSet(s) /\ x \in T
  <2>1. x \in ToSet(FlattenSeq(t)) <=> \E i \in DOMAIN s : x \in ToSet(t[i])
    BY <1>0, <1>2, <1>4
  <2>2. \A i \in DOMAIN s : x \in ToSet(t[i]) <=> x = s[i] /\ x \in T
    BY <1>1
  <2>3. x \in ToSet(s) <=> \E i \in DOMAIN s : x = s[i]
    BY DEF ToSet
  <2> QED BY <2>1, <2>2, <2>3
<1> QED BY <1>4, <1>5, <1>6, <1>k

\* As CountsKeep, for a step of umount.
LEMMA CountsPhase ==
    ASSUME Types, Counts, NEW p \in Proc, Others(p), \A d \in Entry : MountHolds(d)' <=> MountHolds(d), SameRefs(p),
           \A e \in Entry : inode'[e].count = inode[e].count /\ inode'[e].sb = inode[e].sb,
           \A d \in Device : sb'[d].mcount = sb[d].mcount
    PROVE  Counts'
<1>0. 1 \in Entry
  BY Constants
<1>2. ASSUME NEW e \in Entry
      PROVE  inode'[e].count = inode[e].count + Unit(HoldsOn(p, e)') - Unit(HoldsOn(p, e))
                               + Unit(MountHolds(e)') - Unit(MountHolds(e))
  <2>1. (HoldsOn(p, e)' <=> HoldsOn(p, e)) /\ (MountHolds(e)' <=> MountHolds(e))
    BY DEF HoldsOn, SameRefs
  <2>2. /\ Unit(HoldsOn(p, e)') = Unit(HoldsOn(p, e)) /\ Unit(MountHolds(e)') = Unit(MountHolds(e))
        /\ Unit(HoldsOn(p, e)) \in Int /\ Unit(MountHolds(e)) \in Int /\ inode[e].count \in Int
    BY <2>1 DEF Unit, Types, InodeType
  <2> QED BY <2>2
<1>3. ASSUME NEW d \in Device
      PROVE  sb'[d].mcount = sb[d].mcount + Unit(SearchesIn(p, d)') - Unit(SearchesIn(p, d))
                             + Unit(HoldsIn(p, d)') - Unit(HoldsIn(p, d))
                             + Unit(MountsIn(1, d)') - Unit(MountsIn(1, d))
  <2>1. HoldsIn(p, d)' <=> HoldsIn(p, d)
    BY DEF HoldsIn, SameRefs, Types, ProcType, Holds
  <2>2. MountsIn(1, d)' <=> MountsIn(1, d)
    BY <1>0 DEF MountsIn
  <2>3. SearchesIn(p, d)' <=> SearchesIn(p, d)
    BY DEF SameRefs
  <2>4. /\ Unit(HoldsIn(p, d)') = Unit(HoldsIn(p, d)) /\ Unit(MountsIn(1, d)') = Unit(MountsIn(1, d))
        /\ Unit(SearchesIn(p, d)') = Unit(SearchesIn(p, d))
        /\ Unit(HoldsIn(p, d)) \in Int /\ Unit(MountsIn(1, d)) \in Int /\ Unit(SearchesIn(p, d)) \in Int
        /\ sb[d].mcount \in Int
    BY <2>1, <2>2, <2>3 DEF Unit, Types, SbType
  <2> QED BY <2>4
<1>4. \A e \in Entry : inode[e].count > 0 => inode'[e].sb = inode[e].sb
  OBVIOUS
<1>5. \A e \in Entry \ {1} : MountHolds(e)' <=> MountHolds(e)
  OBVIOUS
<1> QED BY <1>0, <1>2, <1>3, <1>4, <1>5, CountsStep

\* A step of the umount that changes no entry and no count.
LEMMA WalkPhase ==
    ASSUME InodeInv, NEW p \in Proc, Others(p), inode' = inode, hash' = hash,
           \A d \in Entry : MountHolds(d)' <=> MountHolds(d), \A q \in Umounter : Marks(q) => Marks(q)',
           \A d \in Device : sb'[d].mcount = sb[d].mcount, SameRefs(p),
           LocalsOf(p)', HandOf(p)', Types', Locks', Umounts'
    PROVE  InodeInv'
<1>1. Types /\ Counts /\ HashExact
  BY Parts
<1>2. Counts'
  BY <1>1, CountsPhase
<1>3. HashExact'
  BY <1>1, HashKeeps
<1>4. /\ 1 \in Entry /\ \A d \in Entry : MountHolds(d)' => MountHolds(d)
      /\ inode' = inode \/ (Apart(p, 1) /\ EntryOf(1)')
      /\ \A d \in Entry : inode[d].mount /\ (d # 1 \/ inode' = inode) => \A q \in Umounter : Marks(q) => Marks(q)'
  BY Constants
<1> QED BY <1>2, <1>3, <1>4, PhaseStep

\* umount begins.
LEMMA UmountKeeps ==
    ASSUME InodeInv, NEW p \in Proc, Umount(p)
    PROVE  InodeInv'
<1>1. /\ p \in Umounter /\ proc[p].pc = "user" /\ Admits(Mounted) /\ cpu' = p
      /\ sb' = [sb EXCEPT ![Mounted].mbusy = TRUE]
      /\ \/ updlock' = p /\ proc' = [proc EXCEPT ![p].pc = "visit", ![p].i = 1]
         \/ proc' = [proc EXCEPT ![p].pc = "test"] /\ updlock' = updlock
      /\ UNCHANGED <<inode, lock, lru, hash>>
  BY DEF Umount, At, Keeps, Goto
<1>2. LocalsOf(p) /\ Types /\ Locks /\ HandOf(p) /\ Umounts
  BY Parts
<1>3. p \notin User /\ p \notin Swapper /\ p \notin Locker /\ proc[p].then = "user" /\ proc[p].e = NULL
  BY <1>1, <1>2, Constants DEF LocalsOf, Putting
<1>4. /\ proc' \in [Proc -> ProcType] /\ Others(p)
      /\ proc'[p].pc \in {"visit", "test"} /\ proc'[p].e = NULL /\ proc'[p].then = "user"
  <2>1. "visit" \in Label /\ "test" \in Label /\ 1 \in Nat \ {0}
    BY DEF Label
  <2>2. CASE proc' = [proc EXCEPT ![p].pc = "visit", ![p].i = 1]
    <3>1. /\ proc' \in [Proc -> ProcType] /\ Others(p)
          /\ proc'[p].pc = "visit" /\ proc'[p].e = proc[p].e /\ proc'[p].then = proc[p].then
      BY <1>2, <2>1, <2>2, PlaceIs
    <3> QED BY <3>1, <1>3
  <2>3. CASE proc' = [proc EXCEPT ![p].pc = "test"]
    <3>1. /\ proc' \in [Proc -> ProcType] /\ Others(p)
          /\ proc'[p].pc = "test" /\ proc'[p].e = proc[p].e /\ proc'[p].then = proc[p].then
      BY <1>2, <2>1, <2>3, GotoIs
    <3> QED BY <3>1, <1>3
  <2> QED BY <1>1, <2>2, <2>3
<1>5. /\ sb' \in [Device -> SbType] /\ sb'[Mounted].mbusy /\ sb'[Root].mounted = sb[Root].mounted
      /\ sb'[Mounted].mounted = sb[Mounted].mounted /\ \A d \in Device : sb'[d].mcount = sb[d].mcount
  <2> DEFINE r == [sb[Mounted] EXCEPT !.mbusy = TRUE]
  <2>1. sb[Mounted] \in SbType /\ sb \in [Device -> SbType]
    BY <1>2, Constants DEF Types
  <2>2. r \in SbType /\ r.mbusy /\ r.mounted = sb[Mounted].mounted /\ r.mcount = sb[Mounted].mcount
    BY <2>1 DEF SbType
  <2>3. sb' = [sb EXCEPT ![Mounted] = r]
    BY <1>1
  <2> HIDE DEF r
  <2> QED BY <2>1, <2>2, <2>3, Constants
<1>6. Types'
  BY <1>1, <1>2, <1>4, <1>5 DEF Types
<1>7. LocalsOf(p)'
  BY <1>1, <1>3, <1>4 DEF LocalsOf, Putting
<1>8. Locks'
  <2>1. ~InQueue(p) /\ ~InQueue(p)' /\ proc'[p].pc \notin Owning
    BY <1>1, <1>4 DEF InQueue, Owning, Queueing, Putting
  <2> QED BY <1>1, <1>2, <1>4, <2>1, LocksSame
<1>9. HandOf(p)'
  BY <1>3, <1>4 DEF HandOf
<1>10. \A q \in Umounter : ~Busy(q) /\ ~Unlinked(q) /\ ~Tested(q)
  <2>1. ASSUME NEW q \in Umounter PROVE ~Busy(q) /\ ~Tested(q)
    BY <1>1, <1>2, Refused, Parts
  <2>2. \A q \in Umounter : Unlinked(q) => Tested(q)
    BY DEF Unlinked, Tested
  <2> QED BY <2>1, <2>2
<1>11. \A q \in Umounter : /\ Busy(q)' => q = p
                           /\ ~Unlinked(q)' /\ ~Tested(q)' /\ (Marks(q) => Marks(q)')
                           /\ (Keeps1(q)' <=> Keeps1(q)) /\ (Keeps2(q)' <=> Keeps2(q))
  <2>1. ASSUME NEW q \in Umounter, q # p
        PROVE  /\ ~Busy(q)' /\ ~Unlinked(q)' /\ ~Tested(q)' /\ (Marks(q) => Marks(q)')
               /\ (Keeps1(q)' <=> Keeps1(q)) /\ (Keeps2(q)' <=> Keeps2(q))
    <3>1. proc'[q] = proc[q]
      BY <1>4, <2>1, Constants DEF Others
    <3> QED BY <3>1, <1>10 DEF Busy, Unlinked, Tested, Marks, Keeps1, Keeps2
  <2>2. /\ ~Unlinked(p)' /\ ~Tested(p)' /\ Marks(p)'
        /\ Keeps1(p)' /\ Keeps1(p) /\ Keeps2(p)' /\ Keeps2(p)
    BY <1>1, <1>3, <1>4 DEF Unlinked, Tested, Marks, Keeps1, Keeps2
  <2> QED BY <2>1, <2>2
<1>12. \A d \in Entry : MountHolds(d)' <=> MountHolds(d)
  <2>1. \A d : MountHolds(d)' <=> \/ d = 1 /\ \A q \in Umounter : Keeps1(q)'
                                  \/ d = 2 /\ \A q \in Umounter : Keeps2(q)'
    BY DEF MountHolds, Keeps1, Keeps2
  <2> QED BY <2>1, <1>11, MountHoldsIs
<1>13. Umounts'
  <2>1. sb[Root].mounted /\ sb[Mounted].mounted
    BY <1>1, <1>2 DEF Umounts, Admits
  <2> QED BY <2>1, <1>5, <1>11 DEF Umounts
<1>14. SameRefs(p)
  BY <1>1, <1>3, <1>4 DEF SameRefs, Holds, SearchesIn
<1> QED BY <1>1, <1>4, <1>5, <1>6, <1>7, <1>8, <1>9, <1>11, <1>12, <1>13, <1>14, WalkPhase

\* What the process is in the later phases of umount.
LEMMA InPhase ==
    ASSUME InodeInv, NEW p \in Proc, proc[p].pc \in {"test", "undir", "unlink", "undev", "iumerase"}
    PROVE  /\ p \in Umounter /\ p \notin User /\ p \notin Swapper /\ p \notin Locker /\ Busy(p)
           /\ proc[p].then = "user"
           /\ proc[p].pc \in {"test", "unlink", "iumerase"} => proc[p].e = NULL
           /\ proc[p].pc = "undir" => proc[p].e = 1
           /\ proc[p].pc = "undev" => proc[p].e = 2
<1>1. LocalsOf(p)
  BY Parts
<1>2. p \in Umounter
  BY <1>1, Constants DEF LocalsOf, UserPc, Putting, Proc
<1> QED BY <1>1, <1>2, Constants DEF LocalsOf, Putting, Busy

\* umount finds the file system in use.
LEMMA UmountBusyKeeps ==
    ASSUME InodeInv, NEW p \in Proc, UmountBusy(p)
    PROVE  InodeInv'
<1>1. /\ proc[p].pc = "test" /\ sb' = [sb EXCEPT ![Mounted].mbusy = FALSE]
      /\ proc' = [proc EXCEPT ![p].pc = "user"] /\ cpu' = NULL
      /\ UNCHANGED <<inode, lock, lru, hash, updlock>>
  BY DEF UmountBusy, At, Goto, Leaves
<1>2. Types /\ Locks /\ Umounts
  BY Parts
<1>3. p \in Umounter /\ p \notin User /\ p \notin Swapper /\ p \notin Locker /\ Busy(p) /\ proc[p].then = "user" /\ proc[p].e = NULL
  BY <1>1, InPhase
<1>4. /\ proc' \in [Proc -> ProcType] /\ Others(p)
      /\ proc'[p].pc = "user" /\ proc'[p].e = NULL /\ proc'[p].then = "user"
  <2>1. "user" \in Label
    BY DEF Label
  <2> QED BY <1>1, <1>2, <1>3, <2>1, GotoIs
<1>5. /\ sb' \in [Device -> SbType] /\ sb'[Root].mounted = sb[Root].mounted
      /\ sb'[Mounted].mounted = sb[Mounted].mounted /\ \A d \in Device : sb'[d].mcount = sb[d].mcount
  <2> DEFINE r == [sb[Mounted] EXCEPT !.mbusy = FALSE]
  <2>1. sb[Mounted] \in SbType /\ sb \in [Device -> SbType]
    BY <1>2, Constants DEF Types
  <2>2. r \in SbType /\ r.mounted = sb[Mounted].mounted /\ r.mcount = sb[Mounted].mcount
    BY <2>1 DEF SbType
  <2>3. sb' = [sb EXCEPT ![Mounted] = r]
    BY <1>1
  <2> HIDE DEF r
  <2> QED BY <2>1, <2>2, <2>3, Constants
<1>6. Types'
  BY <1>1, <1>2, <1>4, <1>5 DEF Types
<1>7. LocalsOf(p)'
  BY <1>1, <1>3, <1>4 DEF LocalsOf, Putting
<1>8. Locks'
  <2>1. ~InQueue(p) /\ ~InQueue(p)' /\ proc'[p].pc \notin Owning
    BY <1>1, <1>4 DEF InQueue, Owning, Queueing, Putting
  <2> QED BY <1>1, <1>2, <1>4, <2>1, LocksSame
<1>9. HandOf(p)'
  BY <1>3, <1>4 DEF HandOf
<1>10. /\ ~Busy(p)' /\ ~Tested(p)' /\ ~Unlinked(p)' /\ Marks(p)' /\ Keeps1(p)' /\ Keeps2(p)'
       /\ ~Tested(p) /\ ~Unlinked(p) /\ Marks(p) /\ Keeps1(p) /\ Keeps2(p)
  BY <1>1, <1>3, <1>4 DEF Busy, Tested, Unlinked, Marks, Keeps1, Keeps2
<1>11. /\ \A d \in Entry : MountHolds(d)' <=> MountHolds(d)
       /\ \A q \in Umounter : /\ ~Busy(q)' /\ ~Tested(q)' /\ (Unlinked(q)' <=> Unlinked(q))
                              /\ (Marks(q) => Marks(q)')
  BY <1>3, <1>4, <1>10, OnePhase, OthersIdle
<1>12. Umounts'
  BY <1>2, <1>5, <1>11 DEF Umounts
<1>13. SameRefs(p)
  BY <1>1, <1>3, <1>4 DEF SameRefs, Holds, SearchesIn
<1> QED BY <1>1, <1>4, <1>5, <1>6, <1>7, <1>8, <1>9, <1>11, <1>12, <1>13, WalkPhase

\* umount finds the file system unused.
LEMMA UmountTestKeeps ==
    ASSUME InodeInv, NEW p \in Proc, UmountTest(p)
    PROVE  InodeInv'
<1>1. /\ proc[p].pc = "test" /\ sb[Mounted].mcount = 0 /\ lock' = [lock EXCEPT ![1] = Append(@, p)]
      /\ proc' = [proc EXCEPT ![p].pc = "undir", ![p].e = 1] /\ cpu' \in Proc \cup {NULL}
      /\ UNCHANGED <<inode, lru, hash, sb, updlock>>
  BY DEF UmountTest, At, SleepLock
<1>2. Types /\ Locks /\ Umounts
  BY Parts
<1>3. p \in Umounter /\ p \notin User /\ p \notin Swapper /\ p \notin Locker /\ Busy(p) /\ proc[p].then = "user" /\ proc[p].e = NULL
  BY <1>1, InPhase
<1>4. /\ proc' \in [Proc -> ProcType] /\ Others(p) /\ 1 \in Entry
      /\ proc'[p].pc = "undir" /\ proc'[p].e = 1 /\ proc'[p].then = "user"
  <2>1. "undir" \in Label /\ 1 \in Entry
    BY Constants DEF Label
  <2>2. PICK e \in Entry : e = 1
    BY <2>1
  <2>3. proc' = [proc EXCEPT ![p].pc = "undir", ![p].e = e]
    BY <1>1, <2>2, SMTT(40)
  <2>4. /\ proc' \in [Proc -> ProcType] /\ Others(p)
        /\ proc'[p].pc = "undir" /\ proc'[p].e = e /\ proc'[p].then = proc[p].then
    BY <1>2, <2>3, GotoEntryIs, ZenonT(60) DEF Label
  <2> QED BY <1>3, <2>1, <2>2, <2>4
<1>6. Types'
  <2>1. lock' \in [Entry -> Seq(Proc)]
    BY <1>1, <1>2, <1>4, LockUpdate
  <2> QED BY <1>1, <1>2, <1>4, <2>1 DEF Types
<1>7. LocalsOf(p)'
  BY <1>1, <1>3, <1>4, Constants DEF LocalsOf, Putting
<1>8. Locks'
  <2>1. ~InQueue(p) /\ InQueue(p)' /\ proc'[p].pc \notin Owning
    BY <1>1, <1>4 DEF InQueue, Owning, Queueing, Putting
  <2> QED BY <1>1, <1>2, <1>4, <2>1, LocksTake
<1>9. HandOf(p)'
  BY <1>3, <1>4 DEF HandOf
<1>10. /\ Busy(p)' /\ Tested(p)' /\ ~Unlinked(p)' /\ Marks(p)' /\ Keeps1(p)' /\ Keeps2(p)'
       /\ ~Unlinked(p) /\ Marks(p) /\ Keeps1(p) /\ Keeps2(p)
  BY <1>1, <1>3, <1>4 DEF Busy, Tested, Unlinked, Marks, Keeps1, Keeps2
<1>11. /\ \A d \in Entry : MountHolds(d)' <=> MountHolds(d)
       /\ \A q \in Umounter : /\ (Busy(q)' <=> Busy(q)) /\ (Unlinked(q)' <=> Unlinked(q))
                              /\ (Marks(q) => Marks(q)')
  BY <1>3, <1>4, <1>10, OnePhase
<1>12. Umounts'
  BY <1>1, <1>2, <1>11 DEF Umounts
<1>13. SameRefs(p)
  BY <1>1, <1>3, <1>4 DEF SameRefs, Holds, SearchesIn
<1> QED BY <1>1, <1>4, <1>6, <1>7, <1>8, <1>9, <1>11, <1>12, <1>13, WalkPhase

\* umount unmarks the directory under the mount, and gives it back.
LEMMA UndirKeeps ==
    ASSUME InodeInv, NEW p \in Proc, Undir(p)
    PROVE  InodeInv'
<1>0. proc[p].pc = "undir" /\ Owns(p)
  BY DEF Undir, Locked, At
<1>3. p \in Umounter /\ p \notin User /\ p \notin Swapper /\ p \notin Locker /\ Busy(p) /\ proc[p].then = "user" /\ proc[p].e = 1
  BY <1>0, InPhase
<1>1. /\ inode' = [inode EXCEPT ![1].mount = FALSE]
      /\ proc' = [proc EXCEPT ![p].pc = "iput", ![p].then = "unlink"] /\ cpu' = p
      /\ UNCHANGED <<lock, lru, hash, sb, updlock>>
  BY <1>3 DEF Undir, Keeps
<1>2. Types /\ Locals /\ Locks /\ Hands /\ Umounts /\ HashExact /\ Counts
  BY Parts
<1>e. 1 \in Entry /\ inode[1] \in InodeType /\ \A d \in Entry : EntryOf(d)
  BY Parts, Constants DEF Types, Entries
<1>4. /\ proc' \in [Proc -> ProcType] /\ Others(p)
      /\ proc'[p].pc = "iput" /\ proc'[p].e = 1 /\ proc'[p].then = "unlink"
  <2>1. "iput" \in Label
    BY DEF Label
  <2> QED BY <1>1, <1>2, <1>3, <2>1, ThenIs
<1> DEFINE r == [inode[1] EXCEPT !.mount = FALSE]
<1>5. /\ r \in InodeType /\ r.count = inode[1].count /\ r.dev = inode[1].dev /\ r.ino = inode[1].ino
      /\ r.sb = inode[1].sb /\ r.mode = inode[1].mode /\ r.chg = inode[1].chg /\ ~r.mount
  BY <1>e DEF InodeType
<1>r. inode' = [inode EXCEPT ![1] = r]
  BY <1>1
<1> HIDE DEF r
<1>s. inode' \in [Entry -> InodeType] /\ inode'[1] = r /\ \A d \in Entry \ {1} : inode'[d] = inode[d]
  BY <1>2, <1>e, <1>5, <1>r, InodeUpdate
<1>6. Types'
  BY <1>1, <1>2, <1>4, <1>s DEF Types
<1>7. LocalsOf(p)'
  BY <1>1, <1>3, <1>4, Constants DEF LocalsOf, Putting
<1>8. Locks'
  <2>1. InQueue(p) /\ InQueue(p)'
    BY <1>0, <1>4 DEF InQueue, Owning, Queueing, Putting
  <2> QED BY <1>0, <1>1, <1>2, <1>3, <1>4, <2>1, LocksSame
<1>9. HandOf(p)'
  BY <1>3, <1>4 DEF HandOf
<1>10. /\ Busy(p)' /\ Tested(p)' /\ ~Unlinked(p)' /\ Keeps1(p)' /\ Keeps2(p)'
       /\ ~Unlinked(p) /\ Tested(p) /\ Keeps1(p) /\ Keeps2(p)
  BY <1>0, <1>3, <1>4 DEF Busy, Tested, Unlinked, Keeps1, Keeps2
<1>11. /\ \A d \in Entry : MountHolds(d)' <=> MountHolds(d)
       /\ \A q \in Umounter : /\ (Busy(q)' <=> Busy(q)) /\ (Tested(q)' <=> Tested(q)) /\ (Unlinked(q)' <=> Unlinked(q))
  BY <1>3, <1>4, <1>10, OnePhase
<1>12. Umounts'
  BY <1>1, <1>2, <1>11, UmountsPhase
<1>13. SameRefs(p)
  BY <1>0, <1>3, <1>4 DEF SameRefs, Holds, SearchesIn
<1>14. \A d \in Entry : /\ inode'[d].dev = inode[d].dev /\ inode'[d].ino = inode[d].ino
                        /\ inode'[d].count = inode[d].count /\ inode'[d].sb = inode[d].sb
  BY <1>5, <1>s
<1>15. Counts'
  BY <1>1, <1>2, <1>4, <1>11, <1>13, <1>14, CountsPhase
<1>16. HashExact'
  BY <1>1, <1>2, <1>14, HashKeeps
<1>17. Apart(p, 1)
  <2>1. inode[1].mode /\ (\E q \in Locker \ {p} : proc[q].e = 1) => inode'[1].mode
    BY <1>5, <1>s
  <2> QED BY <1>0, <1>2, <1>3, <1>e, <1>14, <2>1, OwnerApart
<1>18. EntryOf(1)'
  <2>1. EntryOf(1) /\ inode'[1].mode = inode[1].mode /\ inode'[1].chg = inode[1].chg /\ ~inode'[1].mount
    BY <1>e, <1>5, <1>s
  <2> QED BY <1>e, <1>11, <1>14, <2>1 DEF EntryOf, Is
<1>19. /\ \A d \in Entry : MountHolds(d)' => MountHolds(d)
       /\ inode' = inode \/ (Apart(p, 1) /\ EntryOf(1)')
       /\ \A d \in Entry : inode[d].mount /\ d # 1 => FALSE
  BY <1>e, <1>11, <1>17, <1>18 DEF EntryOf
<1>20. \A d \in Entry : inode[d].mount /\ (d # 1 \/ inode' = inode) => \A q \in Umounter : Marks(q) => Marks(q)'
  <2>1. ASSUME inode' = inode PROVE ~inode[1].mount
    BY <2>1, <1>5, <1>s
  <2> QED BY <1>19, <2>1
<1> QED BY <1>4, <1>e, <1>s, <1>6, <1>7, <1>8, <1>9, <1>12, <1>15, <1>16, <1>19, <1>20, PhaseStep

\* The SB leaves the list of SBs; umount waits for the inode of the device.
LEMMA UnlinkKeeps ==
    ASSUME InodeInv, NEW p \in Proc, Unlink(p)
    PROVE  InodeInv'
<1>1. /\ proc[p].pc = "unlink" /\ sb' = [sb EXCEPT ![Mounted].mounted = FALSE, ![Mounted].mbusy = FALSE]
      /\ lock' = [lock EXCEPT ![2] = Append(@, p)]
      /\ proc' = [proc EXCEPT ![p].pc = "undev", ![p].e = 2] /\ cpu' \in Proc \cup {NULL}
      /\ UNCHANGED <<inode, lru, hash, updlock>>
  BY DEF Unlink, At, SleepLock
<1>2. Types /\ Locks /\ Umounts
  BY Parts
<1>3. p \in Umounter /\ p \notin User /\ p \notin Swapper /\ p \notin Locker /\ Busy(p) /\ proc[p].then = "user" /\ proc[p].e = NULL
  BY <1>1, InPhase
<1>4. /\ proc' \in [Proc -> ProcType] /\ Others(p) /\ 2 \in Entry
      /\ proc'[p].pc = "undev" /\ proc'[p].e = 2 /\ proc'[p].then = "user"
  <2>1. "undev" \in Label /\ 2 \in Entry
    BY Constants DEF Label
  <2>2. PICK e \in Entry : e = 2
    BY <2>1
  <2>3. proc' = [proc EXCEPT ![p].pc = "undev", ![p].e = e]
    BY <1>1, <2>2, SMTT(40)
  <2>4. /\ proc' \in [Proc -> ProcType] /\ Others(p)
        /\ proc'[p].pc = "undev" /\ proc'[p].e = e /\ proc'[p].then = proc[p].then
    BY <1>2, <2>3, GotoEntryIs, ZenonT(60) DEF Label
  <2> QED BY <1>3, <2>1, <2>2, <2>4
<1>5. /\ sb' \in [Device -> SbType] /\ sb'[Root].mounted = sb[Root].mounted
      /\ ~sb'[Mounted].mounted /\ \A d \in Device : sb'[d].mcount = sb[d].mcount
  <2> DEFINE r == [sb[Mounted] EXCEPT !.mounted = FALSE, !.mbusy = FALSE]
  <2>1. sb[Mounted] \in SbType /\ sb \in [Device -> SbType]
    BY <1>2, Constants DEF Types
  <2>2. r \in SbType /\ ~r.mounted /\ r.mcount = sb[Mounted].mcount
    BY <2>1 DEF SbType
  <2>3. sb' = [sb EXCEPT ![Mounted] = r]
    BY <1>1
  <2> HIDE DEF r
  <2> QED BY <2>1, <2>2, <2>3, Constants
<1>6. Types'
  <2>1. lock' \in [Entry -> Seq(Proc)]
    BY <1>1, <1>2, <1>4, LockUpdate
  <2> QED BY <1>1, <1>2, <1>4, <1>5, <2>1 DEF Types
<1>7. LocalsOf(p)'
  BY <1>1, <1>3, <1>4, Constants DEF LocalsOf, Putting
<1>8. Locks'
  <2>1. ~InQueue(p) /\ InQueue(p)' /\ proc'[p].pc \notin Owning
    BY <1>1, <1>4 DEF InQueue, Owning, Queueing, Putting
  <2> QED BY <1>1, <1>2, <1>4, <2>1, LocksTake
<1>9. HandOf(p)'
  BY <1>3, <1>4 DEF HandOf
<1>10. /\ Busy(p)' /\ Tested(p)' /\ Unlinked(p)' /\ ~Keeps1(p)' /\ Keeps2(p)'
       /\ Tested(p) /\ ~Marks(p) /\ ~Keeps1(p) /\ Keeps2(p)
  BY <1>1, <1>3, <1>4 DEF Busy, Tested, Unlinked, Marks, Keeps1, Keeps2
<1>11. /\ \A d \in Entry : MountHolds(d)' <=> MountHolds(d)
       /\ \A q \in Umounter : /\ (Busy(q)' <=> Busy(q)) /\ (Tested(q)' <=> Tested(q))
                              /\ (Marks(q) => Marks(q)')
       /\ \A q \in Umounter : Busy(q)' => q = p
  BY <1>2, <1>3, <1>4, <1>10, OnePhase, OthersIdle
<1>12. Umounts'
  BY <1>2, <1>3, <1>5, <1>10, <1>11, Constants DEF Umounts
<1>13. SameRefs(p)
  BY <1>1, <1>3, <1>4 DEF SameRefs, Holds, SearchesIn
<1> QED BY <1>1, <1>4, <1>5, <1>6, <1>7, <1>8, <1>9, <1>11, <1>12, <1>13, WalkPhase

\* umount gives the inode of the device back.
LEMMA UndevKeeps ==
    ASSUME InodeInv, NEW p \in Proc, Undev(p)
    PROVE  InodeInv'
<1>1. /\ proc[p].pc = "undev" /\ Owns(p)
      /\ proc' = [proc EXCEPT ![p].pc = "iput", ![p].then = "iumerase"] /\ cpu' = NULL
      /\ UNCHANGED <<inode, lock, lru, hash, sb, updlock>>
  BY DEF Undev, Locked, At, Leaves
<1>2. Types /\ Locks
  BY Parts
<1>3. p \in Umounter /\ p \notin User /\ p \notin Swapper /\ p \notin Locker /\ Busy(p) /\ proc[p].then = "user" /\ proc[p].e = 2
  BY <1>1, InPhase
<1>4. /\ proc' \in [Proc -> ProcType] /\ Others(p)
      /\ proc'[p].pc = "iput" /\ proc'[p].e = 2 /\ proc'[p].then = "iumerase"
  <2>1. "iput" \in Label
    BY DEF Label
  <2> QED BY <1>1, <1>2, <1>3, <2>1, ThenIs, ZenonT(60)
<1>6. Types'
  BY <1>1, <1>2, <1>4 DEF Types
<1>7. LocalsOf(p)'
  BY <1>1, <1>3, <1>4, Constants DEF LocalsOf, Putting
<1>8. Locks'
  <2>1. InQueue(p) /\ InQueue(p)'
    BY <1>1, <1>4 DEF InQueue, Owning, Queueing, Putting
  <2> QED BY <1>1, <1>2, <1>3, <1>4, <2>1, LocksSame
<1>9. HandOf(p)'
  BY <1>3, <1>4 DEF HandOf
<1>10. SamePhase(p)
  BY <1>1, <1>3, <1>4 DEF SamePhase, Busy, Tested, Unlinked, Marks, Keeps1, Keeps2
<1>13. SameRefs(p)
  BY <1>1, <1>3, <1>4 DEF SameRefs, Holds, SearchesIn
<1> QED BY <1>1, <1>4, <1>6, <1>7, <1>8, <1>9, <1>10, <1>13, WalkKeeps

\* The entries of the file system lose their inodes.
LEMMA iumeraseKeeps ==
    ASSUME InodeInv, NEW p \in Proc, iumerase(p)
    PROVE  InodeInv'
<1> DEFINE gone == { d \in Entry : inode[d].dev = Mounted } \ Residual
           down == [i \in 1 .. NINODE |-> NINODE + 1 - i]
<1>1. /\ proc[p].pc = "iumerase" /\ hash' = hash \ gone
      /\ inode' = [d \in Entry |-> IF d \in gone THEN [inode[d] EXCEPT !.ino = NULL, !.dev = NULL, !.mode = FALSE]
                                   ELSE inode[d]]
      /\ lru' = Kept(down, gone) \o Kept(lru, Entry \ gone)
      /\ proc' = [proc EXCEPT ![p].pc = "done"] /\ cpu' = NULL
      /\ UNCHANGED <<lock, sb, updlock>>
  BY DEF iumerase, At, Goto, Leaves
<1>2. Types /\ Locals /\ Locks /\ Hands /\ Umounts /\ HashExact /\ Counts /\ \A d \in Entry : EntryOf(d)
  BY Parts DEF Entries
<1>3. p \in Umounter /\ p \notin User /\ p \notin Swapper /\ p \notin Locker /\ Busy(p) /\ proc[p].then = "user" /\ proc[p].e = NULL
  BY <1>1, InPhase
<1>4. /\ proc' \in [Proc -> ProcType] /\ Others(p)
      /\ proc'[p].pc = "done" /\ proc'[p].e = NULL /\ proc'[p].then = "user"
  <2>1. "done" \in Label
    BY DEF Label
  <2> QED BY <1>1, <1>2, <1>3, <2>1, GotoIs
<1>5. \A d \in gone : d \in Entry /\ inode[d].count = 0 /\ lock[d] = <<>>
  BY DEF Residual
<1>g. gone \subseteq Entry
  OBVIOUS
<1>l. lru' \in Seq(Entry) /\ NoRepeat(lru') /\ ToSet(lru') = Entry
  <2>1. down \in Seq(Entry) /\ NoRepeat(down) /\ ToSet(down) = Entry
    <3>1. NINODE \in Nat /\ Entry = 1 .. NINODE
      BY Constants DEF Entry
    <3>2. DOMAIN down = 1 .. NINODE /\ \A i \in 1 .. NINODE : down[i] = NINODE + 1 - i /\ NINODE + 1 - i \in 1 .. NINODE
      BY <3>1
    <3>3. down \in Seq(Entry)
      BY <3>1, <3>2
    <3>d. DOMAIN down = 1 .. NINODE /\ \A i \in 1 .. NINODE : down[i] = NINODE + 1 - i
      BY <3>2
    <3> HIDE DEF down
    <3>4. NoRepeat(down)
      BY <3>1, <3>d DEF NoRepeat
    <3>5. ASSUME NEW x \in 1 .. NINODE PROVE x \in ToSet(down)
      <4>1. NINODE + 1 - x \in 1 .. NINODE /\ NINODE + 1 - (NINODE + 1 - x) = x
        BY <3>1
      <4>2. NINODE + 1 - x \in DOMAIN down /\ down[NINODE + 1 - x] = x
        BY <3>d, <4>1
      <4> QED BY <4>2 DEF ToSet
    <3>6. ToSet(down) \subseteq 1 .. NINODE
      BY <3>2 DEF ToSet
    <3> QED BY <3>1, <3>3, <3>4, <3>5, <3>6
  <2> HIDE DEF gone, down
  <2>2. /\ Kept(down, gone) \in Seq(Entry) /\ ToSet(Kept(down, gone)) = Entry \cap gone /\ NoRepeat(Kept(down, gone))
    BY <2>1, KeptElements
  <2>3. /\ Kept(lru, Entry \ gone) \in Seq(Entry) /\ ToSet(Kept(lru, Entry \ gone)) = Entry \cap (Entry \ gone)
        /\ NoRepeat(Kept(lru, Entry \ gone))
    BY <1>2, KeptElements DEF Types
  <2> DEFINE s == Kept(down, gone)
             t == Kept(lru, Entry \ gone)
  <2>4. /\ s \in Seq(Entry) /\ t \in Seq(Entry) /\ NoRepeat(s) /\ NoRepeat(t) /\ ToSet(s) \cap ToSet(t) = {}
        /\ ToSet(s) \cup ToSet(t) = Entry /\ lru' = s \o t
    BY <1>1, <1>g, <2>2, <2>3
  <2> HIDE DEF s, t
  <2>5. /\ s \o t \in Seq(Entry) /\ ToSet(s \o t) = ToSet(s) \cup ToSet(t)
        /\ NoRepeat(s) /\ NoRepeat(t) /\ ToSet(s) \cap ToSet(t) = {} => NoRepeat(s \o t)
    BY <2>4, ConcatElements
  <2> QED BY <2>4, <2>5
<1>6. /\ inode' \in [Entry -> InodeType]
      /\ \A d \in Entry \ gone : inode'[d] = inode[d]
      /\ \A d \in gone : /\ inode'[d].dev = NULL /\ inode'[d].ino = NULL /\ inode'[d].count = inode[d].count
                         /\ inode'[d].sb = inode[d].sb /\ inode'[d].chg = inode[d].chg /\ inode'[d].mount = inode[d].mount
  <2>1. inode \in [Entry -> InodeType]
    BY <1>2 DEF Types
  <2> DEFINE r(d) == [inode[d] EXCEPT !.ino = NULL, !.dev = NULL, !.mode = FALSE]
  <2>2. ASSUME NEW d \in Entry
        PROVE  /\ r(d) \in InodeType /\ r(d).dev = NULL /\ r(d).ino = NULL /\ r(d).count = inode[d].count
               /\ r(d).sb = inode[d].sb /\ r(d).chg = inode[d].chg /\ r(d).mount = inode[d].mount
    BY <2>1 DEF InodeType
  <2>3. inode' = [d \in Entry |-> IF d \in gone THEN r(d) ELSE inode[d]]
    BY <1>1
  <2> HIDE DEF r, gone
  <2> QED BY <1>g, <2>1, <2>2, <2>3
<1> HIDE DEF gone, down
<1>7. Types'
  <2>1. hash' \subseteq Entry
    BY <1>1, <1>2 DEF Types
  <2> QED BY <1>1, <1>2, <1>4, <1>6, <1>l, <2>1 DEF Types
<1>8. Locals'
  <2>1. LocalsOf(p)'
    BY <1>1, <1>3, <1>4 DEF LocalsOf, Putting
  <2> QED BY <1>2, <1>4, <2>1, LocalsKeep
<1>9. Locks'
  <2>1. ~InQueue(p) /\ ~InQueue(p)' /\ proc'[p].pc \notin Owning
    BY <1>1, <1>4 DEF InQueue, Owning, Queueing, Putting
  <2> QED BY <1>1, <1>2, <1>4, <2>1, LocksSame
<1>10. SamePhase(p)
  BY <1>1, <1>3, <1>4 DEF SamePhase, Busy, Tested, Unlinked, Marks, Keeps1, Keeps2
<1>11. Umounts'
  <2>1. sb' = sb
    BY <1>1
  <2> QED BY <1>2, <1>4, <1>10, <2>1, UmountsKeep
<1>12. /\ \A d \in Entry : ~MountHolds(d)' /\ ~MountHolds(d)
       /\ \A q \in Umounter : Marks(q)' <=> Marks(q)
  <2>1. ~Keeps1(p)' /\ ~Keeps2(p)' /\ ~Keeps1(p) /\ ~Keeps2(p)
    BY <1>1, <1>4 DEF Keeps1, Keeps2
  <2>2. \A q \in Umounter : Marks(q)' <=> Marks(q)
    BY <1>4, <1>10, PhaseKeeps
  <2> QED BY <1>3, <1>4, <2>1, <2>2, OnePhase
<1>13. Entries'
  <2>1. ASSUME NEW d \in Entry \ gone PROVE EntryOf(d)'
    BY <1>2, <1>6, <1>12, EntryKeeps
  <2>2. ASSUME NEW d \in gone PROVE EntryOf(d)'
    <3>1. EntryOf(d) /\ inode[d].count = 0 /\ d \in Entry
      BY <1>2, <1>5, <1>g
    <3>2. ~inode[d].mount
      BY <1>1, <1>3, <3>1 DEF EntryOf
    <3>3. ~inode[d].chg
      BY <3>1 DEF EntryOf
    <3> QED BY <1>6, <1>12, <3>1, <3>2, <3>3 DEF EntryOf
  <2> QED BY <2>1, <2>2 DEF Entries
<1>14. SameRefs(p)
  BY <1>1, <1>3, <1>4 DEF SameRefs, Holds, SearchesIn
<1>15. CountsExact'
  <2>0. \A d \in Entry : inode'[d].count = inode[d].count /\ inode'[d].sb = inode[d].sb
    BY <1>6
  <2>1. \A d \in Device : sb'[d].mcount = sb[d].mcount
    BY <1>1
  <2>2. Counts'
    BY <1>2, <1>4, <1>12, <1>14, <2>0, <2>1, CountsPhase
  <2>3. CountsExact' <=> Counts'
    BY CountsSame, PTL
  <2> QED BY <2>2, <2>3
<1>16. ASSUME NEW q \in Proc, InQueue(q) \/ Holds(q), proc[q].e \in Entry
       PROVE  inode'[proc[q].e] = inode[proc[q].e]
  <2>1. CASE InQueue(q)
    <3>1. q \in ToSet(lock[proc[q].e])
      BY <2>1, <1>2, <1>16 DEF Locks, LockOf, InQueue
    <3>2. lock[proc[q].e] # <<>>
      BY <3>1 DEF ToSet
    <3> QED BY <1>5, <1>6, <1>16, <3>2
  <2>2. CASE Holds(q)
    <3>1. inode[proc[q].e].count > 0
      BY <2>2, <1>2, Counted
    <3>2. proc[q].e \notin gone
      <4>1. inode[proc[q].e].count # 0
        BY <3>1
      <4> QED BY <4>1, <1>5
    <3> QED BY <1>6, <1>16, <3>2
  <2> QED BY <1>16, <2>1, <2>2
<1>17. Hands'
  <2> SUFFICES ASSUME NEW q \in Proc PROVE HandOf(q)'
    BY DEF Hands
  <2>1. CASE q = p
    BY <2>1, <1>3, <1>4 DEF HandOf
  <2>2. CASE q # p
    <3>1. proc'[q] = proc[q] /\ HandOf(q) /\ LocalsOf(q) /\ proc[q].e \in Entry \cup {NULL} /\ (Holds(q)' <=> Holds(q))
      BY <2>2, <1>2, <1>4 DEF Others, Hands, Locals, Types, ProcType, Holds
    <3>2. proc[q].pc \in {"found", "read", "iput", "iputend", "iputfree"} => proc[q].e \in Entry /\ InQueue(q)
      BY <3>1, Constants DEF LocalsOf, UserPc, Putting, InQueue, Owning, Queueing
    <3>3. Holds(q) => proc[q].e \in Entry
      BY <3>1 DEF Holds
    <3>4. q \in Locker /\ proc[q].pc # "absent" => Holds(q) /\ proc[q].e = 3
      BY <3>1, Constants DEF LocalsOf, Holds
    <3>5. proc[q].pc \in {"found", "read", "iput", "iputend", "iputfree"} => inode'[proc[q].e] = inode[proc[q].e]
      BY <1>16, <3>2
    <3>6. Holds(q) => inode'[proc[q].e] = inode[proc[q].e]
      BY <1>16, <3>3
    <3>7. q \in Locker /\ proc[q].pc # "absent" => inode'[3] = inode[3]
      BY <3>4, <3>6
    <3> QED BY <3>1, <3>5, <3>6, <3>7 DEF HandOf, Is
  <2> QED BY <2>1, <2>2
<1>18. HashExact'
  <2>1. \A d \in Entry : inode'[d].ino # NULL <=> d \notin gone /\ inode[d].ino # NULL
    BY <1>6
  <2>2. hash' = { d \in Entry : inode'[d].ino # NULL }
    BY <1>1, <1>2, <2>1 DEF HashExact
  <2>3. \A d \in hash' : d \in hash /\ d \in Entry /\ inode'[d] = inode[d]
    BY <1>1, <1>2, <1>6 DEF HashExact
  <2> QED BY <1>2, <2>2, <2>3 DEF HashExact, Is
<1> QED BY <1>7, <1>8, <1>9, <1>11, <1>13, <1>15, <1>17, <1>18 DEF InodeInv

-----------------------------------------------------------------------------
(* Lockers *)

\* What a step of a locker does with the inode: it takes a place in the queue, goes on, frees
\* the inode, or goes to the end of the queue.
Takes(p) == proc[p].pc \in {"user", "waiting"} /\ inode' = inode
            /\ \E pc \in {"call", "lockf"} : SleepLock(p, proc[p].e, pc)
Stays(p) == proc[p].pc \in {"call", "lockf"} /\ Owns(p) /\ lock' = lock /\ (inode' = inode \/ Dates(p))
            /\ \E pc \in {"lockf", "transfer"} : Goto(p, pc)
Frees(p) == proc[p].pc \in {"lockf", "transfer"} /\ Owns(p) /\ SleepFree(proc[p].e) /\ (inode' = inode \/ Dates(p))
            /\ \E pc \in {"user", "waiting"} : Goto(p, pc)
Turns(p) == proc[p].pc = "lockf" /\ Owns(p) /\ proc' = proc /\ inode' = inode
            /\ lock' = [lock EXCEPT ![proc[p].e] = Append(Tail(@), p)]

\* Every step of a locker is one of these four, for the inode.
LEMMA RegionMoves ==
    ASSUME NEW p \in Locker, UseRegion(p)
    PROVE  /\ Takes(p) \/ Stays(p) \/ Frees(p) \/ Turns(p)
           /\ UNCHANGED <<lru, hash, sb, updlock>> /\ cpu' \in {p, NULL}
<1>1. CASE Call(p) \/ Awake(p)
  BY <1>1 DEF Call, Awake, Takes, At, SleepLock
<1>2. ASSUME NEW call \in calls, Ask(p, call)
      PROVE  /\ Takes(p) \/ Stays(p)
             /\ UNCHANGED <<lru, hash, sb, updlock>> /\ cpu' \in {p, NULL}
  BY <1>2 DEF Ask, Takes, Stays, At, Locked, SleepLock, Keeps
<1>3. CASE Refuse(p)
  BY <1>3 DEF Refuse, Return, Asked, Locked, At, Leaves, Frees
<1>4. CASE lflock(p) \/ lffree(p)
  BY <1>4 DEF lflock, lffree, Return, Asked, Locked, At, Leaves, Frees
<1>5. CASE TestEnds(p) \/ lfclosefree(p)
  BY <1>5 DEF TestEnds, lfclosefree, Return, Asked, Locked, At, Leaves, Frees
<1>6. CASE TransferEnds(p)
  BY <1>6 DEF TransferEnds, Return, Locked, At, Leaves, Frees
<1>7. CASE WaitSleeps(p)
  BY <1>7 DEF WaitSleeps, Asked, Locked, At, Leaves, Frees
<1>8. CASE WaitTurns(p)
  BY <1>8 DEF WaitTurns, Asked, Locked, At, Turns
<1>9. CASE Transfer(p)
  BY <1>9 DEF Transfer, Asked, Locked, At, Leaves, Stays
<1> QED BY <1>1, <1>2, <1>3, <1>4, <1>5, <1>6, <1>7, <1>8, <1>9, SMTT(40) DEF UseRegion

\* The owner goes to the end of the queue.
LEMMA LocksTurn ==
    ASSUME Types, Locks, NEW p \in Proc, NEW e \in Entry, Owns(p), proc[p].e = e, proc[p].pc \notin Owning,
           lock' = [lock EXCEPT ![e] = Append(Tail(@), p)], proc' = proc
    PROVE  /\ Locks' /\ lock' \in [Entry -> Seq(Proc)]
           /\ \A d \in Entry : ToSet(lock'[d]) = ToSet(lock[d])
<1>1. LockOf(e) /\ lock[e] \in Seq(Proc) /\ lock[e] # <<>> /\ Head(lock[e]) = p
  BY DEF Locks, Types, Owns
<1>2. /\ Tail(lock[e]) \in Seq(Proc) /\ NoRepeat(lock[e])
      /\ NoRepeat(Tail(lock[e])) /\ ToSet(Tail(lock[e])) = ToSet(lock[e]) \ {p}
      /\ p \in ToSet(lock[e])
  <2>1. NoRepeat(lock[e]) /\ Tail(lock[e]) \in Seq(Proc) /\ 1 \in DOMAIN lock[e] /\ lock[e][1] = p
    BY <1>1 DEF LockOf
  <2>2. p \in ToSet(lock[e])
    BY <2>1 DEF ToSet
  <2> QED BY <1>1, <2>1, <2>2, TailElements
<1>3. lock'[e] = Append(Tail(lock[e]), p) /\ \A d \in Entry \ {e} : lock'[d] = lock[d]
  BY <1>1 DEF Types
<1>4. lock'[e] \in Seq(Proc) /\ NoRepeat(lock'[e]) /\ ToSet(lock'[e]) = ToSet(lock[e])
  <2> DEFINE t == Tail(lock[e])
  <2>1. t \in Seq(Proc) /\ NoRepeat(t) /\ p \notin ToSet(t) /\ ToSet(t) \cup {p} = ToSet(lock[e]) /\ lock'[e] = Append(t, p)
    BY <1>2, <1>3
  <2> HIDE DEF t
  <2>2. /\ Append(t, p) \in Seq(Proc) /\ ToSet(Append(t, p)) = ToSet(t) \cup {p}
        /\ NoRepeat(t) /\ p \notin ToSet(t) => NoRepeat(Append(t, p))
    BY <2>1, AppendElements
  <2> QED BY <2>1, <2>2
<1>5. lock' \in [Entry -> Seq(Proc)]
  BY <1>1, <1>2 DEF Types
<1>6. \A q \in Proc : ~(proc[q].e = e /\ proc[q].pc \in Owning)
  BY OneOwner
<1>7. LockOf(e)'
  BY <1>1, <1>4, <1>6 DEF LockOf
<1>8. ASSUME NEW d \in Entry, d # e PROVE LockOf(d)'
  <2>1. LockOf(d) /\ lock'[d] = lock[d]
    BY <1>3, <1>8 DEF Locks
  <2> QED BY <2>1 DEF LockOf
<1> QED BY <1>3, <1>4, <1>5, <1>7, <1>8 DEF Locks

\* A locker stays at the file that it has open.
LEMMA RegionProc ==
    ASSUME InodeInv, NEW p \in Locker, Takes(p) \/ Stays(p) \/ Frees(p) \/ Turns(p)
    PROVE  /\ p \in Proc /\ p \notin User /\ p \notin Swapper /\ p \notin Umounter /\ 3 \in Entry
           /\ proc[p].e = 3 /\ proc[p].then = "user" /\ inode[3].mode /\ inode[3].count > 0 /\ inode[3].ino # NULL
           /\ proc' \in [Proc -> ProcType] /\ Others(p) /\ proc'[p].e = 3 /\ proc'[p].then = "user"
           /\ proc'[p].pc \in {"user", "call", "lockf", "waiting", "transfer"}
<1>0. p \in Proc /\ p \notin User /\ p \notin Swapper /\ p \notin Umounter /\ 3 \in Entry
  BY Constants
<1>1. Types /\ LocalsOf(p) /\ HandOf(p) /\ Counts /\ EntryOf(3)
  BY <1>0, Parts DEF Entries
<1>2. proc[p].pc \in {"user", "call", "lockf", "waiting", "transfer"}
  BY DEF Takes, Stays, Frees, Turns
<1>3. proc[p].e = 3 /\ proc[p].then = "user" /\ inode[3].mode
  BY <1>0, <1>1, <1>2 DEF LocalsOf, HandOf, Putting
<1>4. Holds(p)
  BY <1>0, <1>2, <1>3, Constants DEF Holds
<1>5. inode[3].count > 0 /\ inode[3].ino # NULL
  BY <1>0, <1>1, <1>3, <1>4, Counted DEF EntryOf
<1>6. /\ proc' \in [Proc -> ProcType] /\ Others(p) /\ proc'[p].e = 3 /\ proc'[p].then = "user"
      /\ proc'[p].pc \in {"user", "call", "lockf", "waiting", "transfer"}
  <2>1. CASE Takes(p)
    <3>1. PICK pc \in {"call", "lockf"}, e \in Entry : e = 3 /\ proc' = [proc EXCEPT ![p].pc = pc, ![p].e = e]
      BY <2>1, <1>0, <1>3 DEF Takes, SleepLock
    <3> DEFINE r == [proc[p] EXCEPT !.pc = pc, !.e = e]
    <3>0. proc[p] \in ProcType /\ pc \in Label /\ e \in Entry
      BY <1>0, <1>1 DEF Types, Label
    <3>a. r \in ProcType
      BY <3>0 DEF ProcType
    <3>b. r.pc = pc /\ r.e = e /\ r.then = proc[p].then
      BY <3>0 DEF ProcType
    <3>c. proc' = [proc EXCEPT ![p] = r]
      BY <3>1
    <3>2. /\ r \in ProcType /\ r.pc = pc /\ r.e = e /\ r.then = proc[p].then
          /\ proc' = [proc EXCEPT ![p] = r]
      BY <3>a, <3>b, <3>c
    <3> HIDE DEF r
    <3>3. proc' \in [Proc -> ProcType] /\ Others(p) /\ proc'[p].pc = pc /\ proc'[p].e = e /\ proc'[p].then = proc[p].then
      BY <1>0, <1>1, <3>2, ProcUpdate
    <3> QED BY <3>1, <3>3, <1>3
  <2>2. ASSUME NEW pc \in {"user", "call", "lockf", "waiting", "transfer"}, Goto(p, pc)
        PROVE  /\ proc' \in [Proc -> ProcType] /\ Others(p) /\ proc'[p].e = 3 /\ proc'[p].then = "user"
               /\ proc'[p].pc \in {"user", "call", "lockf", "waiting", "transfer"}
    <3>1. pc \in Label /\ Types /\ proc' = [proc EXCEPT ![p].pc = pc]
      BY <1>1, <2>2 DEF Label, Goto
    <3>2. proc' \in [Proc -> ProcType] /\ Others(p) /\ proc'[p].pc = pc /\ proc'[p].e = proc[p].e /\ proc'[p].then = proc[p].then
      BY <1>0, <3>1, GotoIs
    <3> QED BY <3>2, <1>3
  <2>3. CASE Stays(p) \/ Frees(p)
    BY <2>2, <2>3 DEF Stays, Frees
  <2>4. CASE Turns(p)
    <3>1. proc' = proc /\ proc[p].pc = "lockf"
      BY <2>4 DEF Turns
    <3> QED BY <3>1, <1>1, <1>3 DEF Types, Others
  <2> QED BY <2>1, <2>3, <2>4
<1> QED BY <1>0, <1>3, <1>5, <1>6

\* Lockers keep the invariant of the inodes.
LEMMA RegionKeeps ==
    ASSUME InodeInv, NEW p \in Locker, UseRegion(p)
    PROVE  InodeInv'
<1>1. /\ Takes(p) \/ Stays(p) \/ Frees(p) \/ Turns(p)
      /\ UNCHANGED <<lru, hash, sb, updlock>> /\ cpu' \in {p, NULL}
  BY RegionMoves
<1>2. /\ p \in Proc /\ p \notin User /\ p \notin Swapper /\ p \notin Umounter /\ 3 \in Entry
      /\ proc[p].e = 3 /\ proc[p].then = "user" /\ inode[3].mode /\ inode[3].count > 0 /\ inode[3].ino # NULL
      /\ proc' \in [Proc -> ProcType] /\ Others(p) /\ proc'[p].e = 3 /\ proc'[p].then = "user"
      /\ proc'[p].pc \in {"user", "call", "lockf", "waiting", "transfer"}
  BY <1>1, RegionProc
<1>3. Types /\ Locks /\ \A d \in Entry : EntryOf(d)
  BY <1>2, Parts DEF Entries
<1>4. Locks' /\ lock' \in [Entry -> Seq(Proc)]
  <2>1. CASE Takes(p)
    <3>1. PICK pc \in {"call", "lockf"}, e \in Entry : e = 3 /\ SleepLock(p, e, pc)
      BY <2>1, <1>2 DEF Takes
    <3>2. /\ lock' = [lock EXCEPT ![e] = Append(@, p)] /\ proc'[p].pc = pc /\ proc'[p].e = e
      BY <3>1, <1>2, <1>3 DEF SleepLock, Types
    <3>3. ~InQueue(p) /\ InQueue(p)' /\ proc'[p].pc \notin Owning
      BY <2>1, <3>2 DEF Takes, InQueue, Owning, Queueing, Putting
    <3> QED BY <1>2, <1>3, <3>2, <3>3, LocksTake, LockUpdate
  <2>2. CASE Stays(p)
    <3>1. lock' = lock /\ Owns(p) /\ InQueue(p) /\ proc'[p].pc \in {"lockf", "transfer"}
      BY <2>2, <1>2, <1>3 DEF Stays, InQueue, Owning, Queueing, Goto, Types
    <3>2. InQueue(p)'
      BY <3>1 DEF InQueue, Owning, Queueing
    <3> QED BY <1>2, <1>3, <3>1, <3>2, LocksSame DEF Types
  <2>3. CASE Frees(p)
    <3>1. lock' = [lock EXCEPT ![proc[p].e] = Tail(@)] /\ Owns(p) /\ proc'[p].pc \in {"user", "waiting"}
      BY <2>3, <1>2, <1>3 DEF Frees, Goto, SleepFree, Types
    <3>2. ~InQueue(p)'
      BY <3>1 DEF InQueue, Owning, Queueing, Putting
    <3>3. lock' \in [Entry -> Seq(Proc)]
      <4>1. PICK e \in Entry : e = proc[p].e
        BY <1>2
      <4>2. lock[e] # <<>>
        BY <3>1, <4>1 DEF Owns
      <4> QED BY <1>2, <1>3, <3>1, <4>1, <4>2, LockUpdate
    <3> QED BY <1>2, <1>3, <3>1, <3>2, <3>3, LocksFree
  <2>4. CASE Turns(p)
    <3>1. PICK e \in Entry : e = 3 /\ proc[p].e = e
      BY <1>2
    <3>2. Owns(p) /\ proc[p].pc \notin Owning /\ lock' = [lock EXCEPT ![e] = Append(Tail(@), p)] /\ proc' = proc
      BY <2>4, <3>1 DEF Turns, Owning, Putting
    <3> QED BY <1>2, <1>3, <3>1, <3>2, LocksTurn
  <2> QED BY <1>1, <2>1, <2>2, <2>3, <2>4
<1>5. LocalsOf(p)'
  BY <1>2, Constants DEF LocalsOf, Putting
<1>6. SamePhase(p)
  BY <1>2 DEF SamePhase
<1>7. SameRefs(p)
  <2>1. proc[p].pc # "found"
    BY <1>1 DEF Takes, Stays, Frees, Turns
  <2> QED BY <2>1, <1>2, Constants DEF SameRefs, Holds, SearchesIn
<1>8. CASE inode' = inode
  <2>1. Types'
    BY <1>1, <1>2, <1>3, <1>4, <1>8 DEF Types
  <2>2. HandOf(p)'
    BY <1>2, <1>8 DEF HandOf
  <2> QED BY <1>1, <1>2, <1>4, <1>5, <1>6, <1>7, <1>8, <2>1, <2>2, WalkKeeps
<1>9. CASE Owns(p) /\ Dates(p)
  <2>1. PICK c \in BOOLEAN : inode' = [inode EXCEPT ![3].chg = c]
    <3>1. inode[3].chg \in BOOLEAN
      BY <1>2, <1>3 DEF Types, InodeType
    <3> QED BY <1>2, <1>9, <3>1 DEF Dates
  <2>e. PICK e \in Entry : e = 3
    BY <1>2
  <2> DEFINE r == [inode[e] EXCEPT !.chg = c]
  <2>2. /\ r \in InodeType /\ r.count = inode[e].count /\ r.dev = inode[e].dev /\ r.ino = inode[e].ino
        /\ r.sb = inode[e].sb /\ r.mode = inode[e].mode /\ r.mount = inode[e].mount
    BY <1>3, <2>1 DEF Types, InodeType
  <2>3. inode' = [inode EXCEPT ![e] = r]
    BY <2>1, <2>e
  <2> HIDE DEF r
  <2>4. inode' \in [Entry -> InodeType] /\ inode'[e] = r /\ \A d \in Entry \ {e} : inode'[d] = inode[d]
    BY <1>3, <2>2, <2>3, InodeUpdate
  <2>5. Types'
    BY <1>1, <1>2, <1>3, <1>4, <2>4 DEF Types
  <2>6. HandOf(p)'
    <3>1. inode'[3].mode
      BY <1>2, <2>2, <2>4, <2>e
    <3> QED BY <1>2, <3>1 DEF HandOf
  <2>7. /\ inode'[e].dev = inode[e].dev /\ inode'[e].ino = inode[e].ino /\ inode'[e].sb = inode[e].sb
        /\ inode'[e].count = inode[e].count /\ inode'[e].mode = inode[e].mode /\ inode'[e].mount = inode[e].mount
    BY <2>2, <2>4
  <2>8. EntryOf(e)'
    <3>1. inode[e].ino # NULL /\ inode[e].mode /\ inode[e].count > 0 /\ EntryOf(e)
      BY <1>2, <1>3, <2>e
    <3> QED BY <1>2, <1>6, <2>7, <3>1, EntrySame
  <2> QED BY <1>1, <1>2, <1>4, <1>5, <1>6, <1>7, <1>9, <2>e, <2>4, <2>5, <2>6, <2>7, <2>8, ChangeKeeps
<1> QED BY <1>1, <1>8, <1>9 DEF Takes, Stays, Frees, Turns

-----------------------------------------------------------------------------
(* The invariant of the inodes *)

\* The invariant holds in the initial states.
LEMMA InodeStart ==
    ASSUME NEW company \in SUBSET Proc, inodeinit(company)
    PROVE  InodeInv
<1> DEFINE n == Cardinality(company \cap Locker)
           open == company \cap Locker # {}
           dev3 == LockedFile[1]
           ino3 == LockedFile[2]
<1>c. /\ 1 \in Entry /\ 2 \in Entry /\ 3 \in Entry /\ Root \in Device /\ Mounted \in Device /\ Root # Mounted
      /\ dev3 \in Device /\ ino3 \in Ino /\ DirIno \in Ino /\ DevIno \in Ino /\ DirIno # DevIno
      /\ NULL \notin Device /\ NULL \notin Ino /\ NULL \notin Entry /\ ~(dev3 = Root /\ ino3 \in {DirIno, DevIno})
      /\ Device = {Root, Mounted}
  BY Constants
<1>n. /\ n \in Nat /\ IsFiniteSet(company \cap Locker) /\ company \cap Locker \subseteq Proc
      /\ (open => n > 0) /\ (~open => n = 0)
  <2>1. company \cap Locker \subseteq Proc
    OBVIOUS
  <2>2. IsFiniteSet(company \cap Locker)
    BY <2>1, Constants, FS_Subset
  <2>3. open => n > 0
    <3> SUFFICES ASSUME open PROVE n > 0
      OBVIOUS
    <3>1. PICK x : x \in company \cap Locker
      OBVIOUS
    <3> QED BY <2>2, <3>1, CardSome
  <2>4. ~open => n = 0
    BY FS_EmptySet
  <2>5. n \in Nat
    BY <2>2, FS_CardinalityType
  <2> QED BY <2>1, <2>2, <2>3, <2>4, <2>5
<1> HIDE DEF n
<1>i. /\ inode \in [Entry -> InodeType]
      /\ inode[1] = [Fresh(Root, DirIno) EXCEPT !.mode = TRUE, !.mount = TRUE]
      /\ inode[2] = [Fresh(Root, DevIno) EXCEPT !.mode = TRUE]
      /\ open => inode[3] = [Fresh(dev3, ino3) EXCEPT !.mode = TRUE, !.count = n]
      /\ ~open => inode[3] = Free
      /\ \A e \in Entry \ {1, 2, 3} : inode[e] = Free
  <2> DEFINE r == [Fresh(dev3, ino3) EXCEPT !.mode = TRUE, !.count = n]
             a == [Fresh(Root, DirIno) EXCEPT !.mode = TRUE, !.mount = TRUE]
             b == [Fresh(Root, DevIno) EXCEPT !.mode = TRUE]
  <2>1. r \in InodeType /\ a \in InodeType /\ b \in InodeType /\ Free \in InodeType
    BY <1>c, <1>n DEF Fresh, Free, InodeType
  <2>2. inode = [e \in Entry |-> CASE e = 1 -> a [] e = 2 -> b [] e = 3 /\ open -> r [] OTHER -> Free]
    BY DEF inodeinit, n
  <2> HIDE DEF a, b, r
  <2>3. \A e \in Entry : inode[e] = IF e = 1 THEN a ELSE IF e = 2 THEN b ELSE IF e = 3 /\ open THEN r ELSE Free
    BY <2>2
  <2>4. inode \in [Entry -> InodeType]
    <3>1. \A e \in Entry : inode[e] \in InodeType
      BY <2>1, <2>3
    <3>2. inode = [e \in Entry |-> inode[e]]
      BY <2>2
    <3> QED BY <3>1, <3>2
  <2>5. inode[1] = a /\ inode[2] = b /\ (open => inode[3] = r) /\ (~open => inode[3] = Free)
    BY <1>c, <2>3
  <2>6. \A e \in Entry \ {1, 2, 3} : inode[e] = Free
    BY <2>3
  <2> QED BY <2>4, <2>5, <2>6 DEF a, b, r
<1>f. /\ inode[1].dev = Root /\ inode[1].ino = DirIno /\ inode[1].count = 1 /\ inode[1].sb = Root
      /\ inode[1].mode /\ ~inode[1].chg /\ inode[1].mount
      /\ inode[2].dev = Root /\ inode[2].ino = DevIno /\ inode[2].count = 1 /\ inode[2].sb = Root
      /\ inode[2].mode /\ ~inode[2].chg /\ ~inode[2].mount
      /\ open => /\ inode[3].dev = dev3 /\ inode[3].ino = ino3 /\ inode[3].count = n /\ inode[3].sb = dev3
                 /\ inode[3].mode /\ ~inode[3].chg /\ ~inode[3].mount
      /\ \A e \in Entry \ {1, 2} : e # 3 \/ ~open =>
            /\ inode[e].dev = NULL /\ inode[e].ino = NULL /\ inode[e].count = 0 /\ inode[e].sb = NULL
            /\ ~inode[e].chg /\ ~inode[e].mount
  <2> HIDE DEF open
  <2>1. /\ inode[1].dev = Root /\ inode[1].ino = DirIno /\ inode[1].count = 1 /\ inode[1].sb = Root
        /\ inode[1].mode /\ ~inode[1].chg /\ inode[1].mount
    BY <1>i DEF Fresh, Free
  <2>2. /\ inode[2].dev = Root /\ inode[2].ino = DevIno /\ inode[2].count = 1 /\ inode[2].sb = Root
        /\ inode[2].mode /\ ~inode[2].chg /\ ~inode[2].mount
    BY <1>i DEF Fresh, Free
  <2>3. open => /\ inode[3].dev = dev3 /\ inode[3].ino = ino3 /\ inode[3].count = n /\ inode[3].sb = dev3
                /\ inode[3].mode /\ ~inode[3].chg /\ ~inode[3].mount
    <3> DEFINE r == [Fresh(dev3, ino3) EXCEPT !.mode = TRUE, !.count = n]
    <3> HIDE DEF dev3, ino3
    <3>1. /\ r.dev = dev3 /\ r.ino = ino3 /\ r.count = n /\ r.sb = dev3 /\ r.mode /\ ~r.chg /\ ~r.mount
      BY DEF Fresh, Free
    <3> HIDE DEF r
    <3>2. open => inode[3] = r
      BY <1>i DEF r, dev3, ino3
    <3> QED BY <3>1, <3>2
  <2>4. /\ Free.dev = NULL /\ Free.ino = NULL /\ Free.count = 0 /\ Free.sb = NULL
        /\ ~Free.chg /\ ~Free.mount
    BY DEF Free
  <2>5. \A e \in Entry \ {1, 2} : e # 3 \/ ~open => inode[e] = Free
    BY <1>i
  <2> QED BY <2>1, <2>2, <2>3, <2>4, <2>5
<1>s. /\ sb \in [Device -> SbType] /\ \A d \in Device : sb[d].mounted
      /\ \A d \in Device : sb[d].mcount = (IF d = Root THEN 2 ELSE 0) + (IF d = dev3 THEN n ELSE 0)
  <2> DEFINE m(d) == (IF d = Root THEN 2 ELSE 0) + (IF d = dev3 THEN n ELSE 0)
             r(d) == [mounted |-> TRUE, mbusy |-> FALSE, mcount |-> m(d)]
  <2>1. \A d \in Device : m(d) \in Nat
    BY <1>n
  <2>2. sb = [d \in Device |-> r(d)]
    BY DEF inodeinit, n
  <2> HIDE DEF m
  <2>3. \A d \in Device : r(d) \in SbType /\ r(d).mounted /\ r(d).mcount = m(d)
    BY <2>1 DEF SbType
  <2> HIDE DEF r
  <2>4. sb \in [Device -> SbType] /\ \A d \in Device : sb[d].mounted /\ sb[d].mcount = m(d)
    BY <2>2, <2>3
  <2> QED BY <2>4 DEF m
<1>p. /\ proc \in [Proc -> ProcType]
      /\ \A p \in Proc : /\ proc[p].then = "user"
                         /\ proc[p].pc = IF p \in company THEN "user" ELSE "absent"
                         /\ proc[p].e = IF p \in company \cap Locker THEN 3 ELSE NULL
  <2> DEFINE r(p) == [Idle EXCEPT !.pc = IF p \in company THEN "user" ELSE "absent",
                                  !.e = IF p \in company \cap Locker THEN 3 ELSE NULL]
  <2>1. \A p \in Proc : /\ r(p) \in ProcType /\ r(p).then = "user"
                        /\ r(p).pc = IF p \in company THEN "user" ELSE "absent"
                        /\ r(p).e = IF p \in company \cap Locker THEN 3 ELSE NULL
    <3> SUFFICES ASSUME NEW p \in Proc
                 PROVE  /\ r(p) \in ProcType /\ r(p).then = "user"
                        /\ r(p).pc = IF p \in company THEN "user" ELSE "absent"
                        /\ r(p).e = IF p \in company \cap Locker THEN 3 ELSE NULL
      OBVIOUS
    <3> DEFINE pc == IF p \in company THEN "user" ELSE "absent"
               e == IF p \in company \cap Locker THEN 3 ELSE NULL
    <3>1. pc \in Label /\ e \in Entry \cup {NULL}
      BY <1>c DEF Label
    <3>2. r(p) = [Idle EXCEPT !.pc = pc, !.e = e]
      OBVIOUS
    <3> HIDE DEF pc, e, r
    <3>3. r(p) = [pc |-> pc, dev |-> NULL, ino |-> NULL, e |-> e, i |-> 1, then |-> "user"]
      BY <3>2 DEF Idle
    <3>4. r(p) \in ProcType
      BY <3>1, <3>3 DEF ProcType
    <3> QED BY <3>3, <3>4 DEF pc, e
  <2>2. proc = [p \in Proc |-> r(p)]
    BY DEF inodeinit
  <2> HIDE DEF r
  <2> QED BY <2>1, <2>2
<1>l. lru \in Seq(Entry) /\ NoRepeat(lru) /\ ToSet(lru) = Entry
  <2>1. lru = [e \in Entry |-> e] /\ Entry = 1 .. NINODE /\ NINODE \in Nat
    BY Constants DEF inodeinit, Entry
  <2>2. lru \in Seq(Entry) /\ DOMAIN lru = Entry /\ \A e \in Entry : lru[e] = e
    BY <2>1
  <2> QED BY <2>2 DEF NoRepeat, ToSet
<1>1. Types
  <2>1. hash \subseteq Entry /\ updlock = NULL /\ cpu = NULL
    BY DEF inodeinit
  <2>2. lock \in [Entry -> Seq(Proc)]
    <3>1. lock = [e \in Entry |-> <<>>]
      BY DEF inodeinit
    <3>2. <<>> \in Seq(Proc)
      OBVIOUS
    <3> QED BY <3>1, <3>2
  <2> QED BY <1>i, <1>s, <1>p, <1>l, <2>1, <2>2 DEF Types
<1>2. Locals
  <2> SUFFICES ASSUME NEW p \in Proc PROVE LocalsOf(p)
    BY DEF Locals
  <2>1. /\ proc[p].then = "user" /\ proc[p].pc \in {"user", "absent"}
        /\ p \notin Locker => proc[p].e = NULL
        /\ proc[p].pc = "absent" => proc[p].e = NULL
        /\ p \in Locker /\ proc[p].pc # "absent" => proc[p].e = 3
    BY <1>p
  <2> QED BY <2>1, Constants DEF LocalsOf, UserPc, Putting
<1>3. Locks
  <2> SUFFICES ASSUME NEW e \in Entry PROVE LockOf(e)
    BY DEF Locks
  <2>1. lock[e] = <<>>
    BY DEF inodeinit
  <2>2. \A p \in Proc : proc[p].pc \notin Owning \cup Queueing
    BY <1>p DEF Owning, Queueing, Putting
  <2>3. NoRepeat(lock[e]) /\ ToSet(lock[e]) = {}
    BY <2>1 DEF NoRepeat, ToSet
  <2> QED BY <2>2, <2>3 DEF LockOf
<1>u. \A p \in Umounter : ~Busy(p) /\ ~Tested(p) /\ ~Unlinked(p) /\ Marks(p) /\ Keeps1(p) /\ Keeps2(p)
  BY <1>p, Constants DEF Busy, Tested, Unlinked, Marks, Keeps1, Keeps2
<1>m. \A e : MountHolds(e) <=> e = 1 \/ e = 2
  BY <1>u, MountHoldsIs
<1>4. Umounts
  BY <1>c, <1>s, <1>u DEF Umounts
<1>5. Entries
  <2> SUFFICES ASSUME NEW e \in Entry PROVE EntryOf(e)
    BY DEF Entries
  <2>1. /\ inode[e].dev # NULL => inode[e].sb = inode[e].dev
        /\ inode[e].ino # NULL => inode[e].dev # NULL
        /\ inode[e].count > 0 => inode[e].ino # NULL
        /\ ~inode[e].chg /\ (inode[e].mount => e = 1)
    BY <1>c, <1>f
  <2>2. /\ e = 1 => Is(e, Root, DirIno)
        /\ e = 2 => Is(e, Root, DevIno)
    BY <1>f DEF Is
  <2> QED BY <2>1, <2>2, <1>u DEF EntryOf, Marks
<1>6. Hands
  <2> SUFFICES ASSUME NEW p \in Proc PROVE HandOf(p)
    BY DEF Hands
  <2>1. proc[p].pc \in {"user", "absent"}
    BY <1>p
  <2>2. p \in User => ~Holds(p)
    BY <1>p, Constants DEF Holds
  <2>3. p \in Locker /\ proc[p].pc # "absent" => open
    BY <1>p
  <2> QED BY <2>1, <2>2, <2>3, <1>f DEF HandOf
<1>7. HashExact
  <2>1. hash = { e \in Entry : inode[e].ino # NULL }
    BY DEF inodeinit
  <2>2. ASSUME NEW d \in hash, NEW e \in hash, Is(d, inode[e].dev, inode[e].ino) PROVE d = e
    <3>1. d \in Entry /\ e \in Entry /\ inode[d].ino # NULL /\ inode[e].ino # NULL
      BY <2>1
    <3>2. (d = 1 \/ d = 2 \/ (d = 3 /\ open)) /\ (e = 1 \/ e = 2 \/ (e = 3 /\ open))
      BY <1>f, <3>1
    <3>3. inode[d].dev = inode[e].dev /\ inode[d].ino = inode[e].ino
      BY <2>2 DEF Is
    <3> QED BY <3>2, <3>3, <1>c, <1>f
  <2> QED BY <2>1, <2>2 DEF HashExact
<1>8. Counts
  <2>1. \A p \in Proc : Holds(p) <=> p \in company \cap Locker
    <3> SUFFICES ASSUME NEW p \in Proc PROVE Holds(p) <=> p \in company \cap Locker
      OBVIOUS
    <3>1. CASE p \in company \cap Locker
      <4>1. proc[p].pc = "user" /\ proc[p].e = 3 /\ 3 # NULL
        BY <1>p, <1>c, <3>1
      <4> QED BY <3>1, <4>1 DEF Holds
    <3>2. CASE p \notin company \cap Locker
      <4>1. proc[p].e = NULL
        BY <1>p, <3>2
      <4> QED BY <3>2, <4>1 DEF Holds
    <3> QED BY <3>1, <3>2
  <2>2. \A p \in company \cap Locker : p \in Proc /\ proc[p].e = 3
    BY <1>p, <1>n
  <2>3. ASSUME NEW e \in Entry
        PROVE  inode[e].count = Cardinality(HoldersOn(e)) + Unit(MountHolds(e))
    <3>1. CASE e = 3
      <4>1. HoldersOn(e) = company \cap Locker
        BY <2>1, <2>2, <3>1, <1>n DEF HoldersOn, HoldsOn
      <4>2. Cardinality(HoldersOn(e)) = n
        BY <4>1 DEF n
      <4>3. inode[e].count = n
        BY <1>f, <1>n, <1>c, <3>1
      <4>4. Unit(MountHolds(e)) = 0
        BY <1>m, <3>1 DEF Unit
      <4> QED BY <4>2, <4>3, <4>4, <1>n
    <3>2. CASE e # 3
      <4>1. HoldersOn(e) = {}
        BY <2>1, <2>2, <3>2 DEF HoldersOn, HoldsOn
      <4>2. Cardinality(HoldersOn(e)) = 0
        BY <4>1, FS_EmptySet
      <4>3. Unit(MountHolds(e)) = IF e = 1 \/ e = 2 THEN 1 ELSE 0
        BY <1>m DEF Unit
      <4> QED BY <4>2, <4>3, <3>2, <1>f
    <3> QED BY <3>1, <3>2
  <2>4. ASSUME NEW d \in Device
        PROVE  sb[d].mcount = Cardinality(SearchersIn(d)) + Cardinality(HoldersIn(d)) + Cardinality(MountedIn(d))
    <3>1. SearchersIn(d) = {}
      BY <1>p DEF SearchersIn, SearchesIn
    <3>2. Cardinality(HoldersIn(d)) = IF d = dev3 THEN n ELSE 0
      <4>1. \A p \in Proc : HoldsIn(p, d) <=> p \in company \cap Locker /\ d = dev3
        <5>1. \A p \in company \cap Locker : open
          OBVIOUS
        <5> QED BY <5>1, <2>1, <2>2, <1>f DEF HoldsIn
      <4>2. CASE d = dev3
        <5>1. HoldersIn(d) = company \cap Locker
          BY <4>1, <4>2, <1>n DEF HoldersIn
        <5> QED BY <4>2, <5>1 DEF n
      <4>3. CASE d # dev3
        <5>1. HoldersIn(d) = {}
          BY <4>1, <4>3 DEF HoldersIn
        <5> QED BY <4>3, <5>1, FS_EmptySet
      <4> QED BY <4>2, <4>3
    <3>3. Cardinality(MountedIn(d)) = IF d = Root THEN 2 ELSE 0
      <4>1. \A e \in Entry : MountsIn(e, d) <=> d = Root /\ (e = 1 \/ e = 2)
        BY <1>m, <1>f DEF MountsIn
      <4>2. CASE d = Root
        <5>1. MountedIn(d) = {1} \cup {2}
          BY <4>1, <4>2, <1>c DEF MountedIn
        <5>2. IsFiniteSet({1}) /\ Cardinality({1}) = 1
          BY FS_Singleton
        <5>3. Cardinality({1} \cup {2}) = Cardinality({1}) + 1
          BY <5>2, FS_AddElement
        <5> QED BY <4>2, <5>1, <5>2, <5>3
      <4>3. CASE d # Root
        <5>1. MountedIn(d) = {}
          BY <4>1, <4>3 DEF MountedIn
        <5> QED BY <4>3, <5>1, FS_EmptySet
      <4> QED BY <4>2, <4>3
    <3>4. Cardinality(SearchersIn(d)) = 0
      BY <3>1, FS_EmptySet
    <3> QED BY <3>2, <3>3, <3>4, <1>s, <1>n
  <2> QED BY <2>3, <2>4 DEF Counts
<1> QED BY <1>1, <1>2, <1>3, <1>4, <1>5, <1>6, <1>7, <1>8, CountsSame DEF InodeInv

\* Every step keeps it.
LEMMA InodeStep ==
    ASSUME InodeInv, [Next]_vars
    PROVE  InodeInv'
<1>1. ASSUME NEW p \in Proc \ Locker, UseInode(p) PROVE InodeInv'
  <2>1. CASE iget(p)
    <3>1. ASSUME NEW id \in Opens, Get(p, id[1], id[2]) PROVE InodeInv'
      BY <3>1, GetKeeps
    <3> QED BY <2>1, <3>1, HitKeeps, FoundOtherKeeps, FoundKeeps, FoundMountKeeps, ReuseKeeps, TableFullKeeps,
               ReadInodeKeeps, ReadFailsKeeps DEF iget
  <2>2. CASE Use(p)
    BY <2>2, UseKeeps, OpenKeeps, AgainKeeps, CloseKeeps DEF Use
  <2>3. CASE iput(p)
    BY <2>3, PutWriteKeeps, PutFreeKeeps, PutFreedKeeps, PutEndKeeps DEF iput
  <2>4. CASE Update(p)
    BY <2>4, UpdateBeginKeeps, VisitKeeps, VisitUnusedKeeps, VisitUsedKeeps, UpdateEndKeeps DEF Update
  <2>5. CASE umount(p)
    BY <2>5, UmountKeeps, UmountBusyKeeps, UmountTestKeeps, UndirKeeps, UnlinkKeeps, UndevKeeps, iumeraseKeeps DEF umount
  <2> QED BY <1>1, <2>1, <2>2, <2>3, <2>4, <2>5 DEF UseInode
<1>2. ASSUME NEW p \in Locker, UseRegion(p) PROVE InodeInv'
  BY <1>2, RegionKeeps
<1>3. CASE UNCHANGED vars
  <2>1. UNCHANGED <<inode, lock, lru, hash, sb, updlock, cpu, proc>>
    BY <1>3 DEF vars, inodeVars
  <2>2. Types' /\ Locals' /\ Locks' /\ Umounts' /\ Entries' /\ Hands' /\ HashExact'
    <3>1. \A p : (Holds(p)' <=> Holds(p)) /\ (Busy(p)' <=> Busy(p)) /\ (Tested(p)' <=> Tested(p)) /\ (Unlinked(p)' <=> Unlinked(p))
      BY <2>1 DEF Holds, Busy, Tested, Unlinked
    <3>2. \A e : MountHolds(e)' <=> MountHolds(e)
      BY <2>1 DEF MountHolds
    <3>3. Types' /\ HashExact'
      BY <2>1 DEF InodeInv, Types, HashExact, Is
    <3>4. Locals'
      BY <2>1 DEF InodeInv, Locals, LocalsOf
    <3>5. Locks'
      BY <2>1 DEF InodeInv, Locks, LockOf
    <3>6. Umounts'
      BY <2>1, <3>1 DEF InodeInv, Umounts
    <3>7. Entries'
      BY <2>1, <3>2 DEF InodeInv, Entries, EntryOf, Is
    <3>8. Hands'
      BY <2>1, <3>1 DEF InodeInv, Hands, HandOf, Is
    <3> QED BY <3>3, <3>4, <3>5, <3>6, <3>7, <3>8
  <2>3. CountsExact'
    <3>1. \A p : Holds(p)' <=> Holds(p)
      BY <2>1 DEF Holds
    <3>2. \A e : MountHolds(e)' <=> MountHolds(e)
      BY <2>1 DEF MountHolds
    <3>3. Holders' = Holders /\ \A d : Searches(d)' = Searches(d)
      BY <2>1, <3>1 DEF Holders, Searches
    <3>4. \A e \in Entry : inode'[e].count = Cardinality({ p \in Holders' : proc'[p].e = e }) + (IF MountHolds(e)' THEN 1 ELSE 0)
      BY <2>1, <3>2, <3>3 DEF InodeInv, CountsExact
    <3>5. \A d \in Device :
             sb'[d].mcount = Cardinality(Searches(d)') + Cardinality({ p \in Holders' : inode'[proc'[p].e].sb = d })
                             + Cardinality({ e \in Entry : inode'[e].sb = d /\ MountHolds(e)' })
      <4> SUFFICES ASSUME NEW d \in Device
                   PROVE  sb'[d].mcount = Cardinality(Searches(d)') + Cardinality({ p \in Holders' : inode'[proc'[p].e].sb = d })
                                          + Cardinality({ e \in Entry : inode'[e].sb = d /\ MountHolds(e)' })
        OBVIOUS
      <4>1. { e \in Entry : inode'[e].sb = d /\ MountHolds(e)' } = { e \in Entry : inode[e].sb = d /\ MountHolds(e) }
        BY <2>1, <3>2
      <4>2. { p \in Holders' : inode'[proc'[p].e].sb = d } = { p \in Holders : inode[proc[p].e].sb = d }
        BY <2>1, <3>3
      <4>3. sb[d].mcount = Cardinality(Searches(d)) + Cardinality({ p \in Holders : inode[proc[p].e].sb = d })
                           + Cardinality({ e \in Entry : inode[e].sb = d /\ MountHolds(e) })
        BY DEF InodeInv, CountsExact
      <4> QED BY <2>1, <3>3, <4>1, <4>2, <4>3
    <3> QED BY <3>4, <3>5 DEF CountsExact
  <2> QED BY <2>2, <2>3 DEF InodeInv
<1> QED BY <1>1, <1>2, <1>3 DEF Next

\* The inductive invariant of the table of inodes: who waits for each entry, what each process
\* knows of its own, what the SBs count and how far the umount is.
THEOREM InodesConsistent == Spec => []InodeInv
<1>1. Init => InodeInv
  <2> SUFFICES ASSUME Init PROVE InodeInv
    OBVIOUS
  <2>1. PICK company \in Companies : inodeinit(company.who)
    BY DEF Init
  <2>2. company.who \in SUBSET Proc
    BY CompaniesAssumption
  <2> QED BY <2>1, <2>2, InodeStart
<1>2. InodeInv /\ [Next]_vars => InodeInv'
  BY InodeStep
<1> QED BY <1>1, <1>2, PTL DEF Spec

\* i_count is the number of references to an inode, and sb_mcount the number of the references
\* and of the searches in a file system: iput frees an entry, and umount goes on, only when
\* nobody is left (fio/inode.c, sys/systree.c).
THEOREM CountsAreExact == Spec => []CountsExact
<1>1. InodeInv => CountsExact
  BY DEF InodeInv
<1> QED BY <1>1, InodesConsistent, PTL

\* An inode has one entry, and a process keeps the inode that it asked for (fio/inode.c).
THEOREM OneEntryEach == Spec => []OneEntry
<1>1. InodeInv => OneEntry
  <2> SUFFICES ASSUME InodeInv PROVE OneEntry
    OBVIOUS
  <2>1. \A p \in User : Holds(p) => Is(proc[p].e, proc[p].dev, proc[p].ino)
    BY Constants DEF InodeInv, Hands, HandOf
  <2> QED BY <2>1 DEF OneEntry, InodeInv, HashExact
<1> QED BY <1>1, InodesConsistent, PTL

\* An inode that was changed and not written yet is in use, so update writes it (sys/sysfio.c).
THEOREM ChangedAreInUse == Spec => []ChangedInUse
<1>1. InodeInv => ChangedInUse
  BY DEF InodeInv, Entries, EntryOf, ChangedInUse
<1> QED BY <1>1, InodesConsistent, PTL

\* umount gives the SB back when no inode in use, search or directory needs it, and iumerase finds
\* the entries of the file system unused (sys/systree.c, fio/inode.c).
THEOREM UmountIsSafe == Spec => []UmountSafe
<1>1. InodeInv => UmountSafe
  <2> SUFFICES ASSUME InodeInv PROVE UmountSafe
    OBVIOUS
  <2>0. Types /\ Locals /\ Locks /\ Umounts /\ Hands /\ Counts /\ \A e \in Entry : EntryOf(e)
    BY CountsSame DEF InodeInv, Entries
  <2>1. ASSUME NEW d \in Device, sb[d].mcount # 0 PROVE sb[d].mounted
    <3>1. CASE d = Root
      BY <3>1, <2>0 DEF Umounts
    <3>2. CASE d = Mounted
      <4>1. \A p \in Umounter : ~Tested(p)
        BY <2>0, <2>1, <3>2 DEF Umounts
      <4>2. \A p \in Umounter : ~Unlinked(p)
        BY <4>1 DEF Tested, Unlinked
      <4> QED BY <4>2, <3>2, <2>0 DEF Umounts
    <3> QED BY <3>1, <3>2, Constants
  <2>2. ASSUME NEW e \in Entry, inode[e].count > 0 PROVE sb[inode[e].sb].mounted
    BY <2>0, <2>1, <2>2, CountedSb
  <2>3. ASSUME NEW d \in Device, Searches(d) # {} PROVE sb[d].mounted
    <3>1. PICK p \in Proc : SearchesIn(p, d)
      BY <2>3, Constants DEF Searches, SearchesIn
    <3>2. sb[d].mcount # 0
      BY <3>1, <2>0, CountedIn
    <3> QED BY <3>2, <2>1
  <2>4. ASSUME NEW e \in Entry, inode[e].mount PROVE sb[Mounted].mounted /\ inode[e].count > 0
    <3>1. e = 1 /\ \A p \in Umounter : Marks(p)
      BY <2>0, <2>4 DEF EntryOf, Marks
    <3>2. \A p \in Umounter : ~Unlinked(p) /\ Keeps1(p)
      BY <3>1 DEF Marks, Unlinked, Keeps1
    <3>3. MountHolds(e)
      BY <3>1, <3>2, MountHoldsIs
    <3> QED BY <3>2, <3>3, <2>0, Counted DEF Umounts
  <2>5. ASSUME NEW p \in Umounter, NEW e \in Entry, proc[p].pc = "iumerase", inode[e].dev = Mounted
        PROVE  inode[e].count = 0 /\ \A q \in ToSet(lock[e]) : proc[q].pc = "visited"
    <3>1. Busy(p) /\ Tested(p) /\ sb[Mounted].mcount = 0 /\ Mounted \in Device
      BY <2>0, <2>5, Constants DEF Busy, Tested, Umounts
    <3>2. inode[e].sb = Mounted
      BY <2>0, <2>5, <3>1, Constants DEF EntryOf
    <3>3. inode[e].count = 0 /\ \A q \in Proc : ~SearchesIn(q, Mounted) /\ ~HoldsIn(q, Mounted)
      BY <2>0, <3>1, <3>2, CountedIn
    <3>4. ASSUME NEW q \in ToSet(lock[e]) PROVE proc[q].pc = "visited"
      <4>1. q \in Proc /\ proc[q].e = e /\ proc[q].pc \in Owning \cup Queueing
        BY <2>0 DEF Locks, LockOf
      <4>2. LocalsOf(q) /\ HandOf(q)
        BY <4>1, <2>0 DEF Locals, Hands
      <4>3. ~Holds(q)
        BY <3>2, <3>3, <4>1 DEF HoldsIn
      <4>4. e # NULL
        BY Constants
      <4>5. CASE q \in User
        <5>1. proc[q].pc = "found"
          BY <4>1, <4>3, <4>4, <4>5 DEF Holds
        <5>2. proc[q].dev = Mounted
          BY <4>1, <4>2, <5>1, <2>5 DEF HandOf
        <5> QED BY <3>3, <4>1, <4>5, <5>1, <5>2 DEF SearchesIn
      <4>6. CASE q \in Locker
        BY <4>1, <4>2, <4>3, <4>4, <4>6 DEF Holds, LocalsOf
      <4>7. CASE q \in Swapper
        <5>1. q \notin User /\ q \notin Locker
          BY <4>7, Constants
        <5> QED BY <4>1, <4>2, <4>3, <4>4, <4>7, <5>1 DEF Holds, LocalsOf, Owning, Queueing, Putting
      <4>8. CASE q \in Umounter
        <5>1. Busy(q)
          BY <4>1 DEF Busy, Owning, Queueing, Putting
        <5>2. q = p
          BY <2>0, <3>1, <4>8, <5>1 DEF Umounts
        <5> QED BY <4>1, <5>2, <2>5 DEF Owning, Queueing, Putting
      <4> QED BY <4>1, <4>5, <4>6, <4>7, <4>8 DEF Proc
    <3> QED BY <3>3, <3>4
  <2> QED BY <2>2, <2>3, <2>4, <2>5 DEF UmountSafe
<1> QED BY <1>1, InodesConsistent, PTL

-----------------------------------------------------------------------------
(* The inductive invariant: regions *)

RegionType == [id : LockEntry, uproc : Locker, begin : 0 .. MAXSZ, end : 0 .. MAXSZ]

CallType == { c \in [mode : Mode, begin : 0 .. MAXSZ, end : 0 .. MAXSZ] : c.begin < c.end }

\* Regions with bytes, and regions that share nothing.
Filled(regions) == \A k \in regions : k.begin < k.end
Separate(regions) == \A k, l \in regions : k # l => k.id # l.id /\ ~Meets(k, l)

ListOk(list) == list \in Seq(RegionType) /\ NoRepeat(list) /\ Filled(ToSet(list)) /\ Separate(ToSet(list))

RegionTypes ==
    /\ i_lockf \in [Entry -> Seq(RegionType)]
    /\ lffreelist \subseteq LockEntry /\ k_free \subseteq LockEntry
    /\ u_sema \in [Locker -> LockEntry \cup {NULL}]
    /\ calls \subseteq CallType
    /\ ask \in [Locker -> calls \cup {Nothing}]

\* The regions of the file of the lockers; the other files have none.
FileRegions ==
    /\ \A e \in Entry \ {3} : i_lockf[e] = <<>>
    /\ ListOk(FileList)
    /\ Ids(FileList) = LockEntry \ lffreelist /\ k_free \cap lffreelist = {}
    /\ \A k \in ToSet(FileList) : proc[k.uproc].pc # "absent"

Asleep(p) ==
    /\ proc[p].pc = "waiting" /\ u_sema[p] \notin k_free
    /\ \E k \in ToSet(FileList) : k.id = u_sema[p] /\ k.uproc # p /\ Meets(ask[p], k)

\* Where a process is in its call.
CallOf(p) ==
    /\ ask[p] # Nothing <=> proc[p].pc \in {"lockf", "waiting", "transfer"}
    /\ proc[p].pc = "waiting" => ask[p].mode \in {"lock", "rdwr"}
    /\ proc[p].pc = "transfer" => ask[p].mode \in {"rdwr", "trdwr"}
    /\ u_sema[p] # NULL => Asleep(p)

Callers == \A p \in Locker : CallOf(p)

\* Whoever follows the regions slept for comes to somebody who does not sleep.
Acyclic ==
    \A group \in SUBSET Locker :
        group # {} /\ (\A p \in group : u_sema[p] # NULL) => \E p \in group : Owner(u_sema[p]) \notin group

RegionInv == RegionTypes /\ FileRegions /\ Callers /\ Acyclic

-----------------------------------------------------------------------------
(* Lists of regions *)

In(b, k) == k.begin <= b /\ b < k.end

\* Regions with bytes meet when they share one.
LEMMA MeetsIs ==
    ASSUME NEW a, NEW k, a.begin \in Nat, a.end \in Nat, k.begin \in Nat, k.end \in Nat,
           a.begin < a.end, k.begin < k.end
    PROVE  /\ Meets(a, k) <=> \E b \in Nat : In(b, a) /\ In(b, k)
           /\ Meets(a, k) <=> Meets(k, a)
<1>1. CASE a.begin <= k.begin
  <2>1. Meets(a, k) => In(k.begin, a) /\ In(k.begin, k)
    BY <1>1 DEF Meets, In
  <2>2. \A b \in Nat : In(b, a) /\ In(b, k) => Meets(a, k)
    BY DEF Meets, In
  <2>3. Meets(a, k) <=> Meets(k, a)
    BY DEF Meets
  <2> QED BY <2>1, <2>2, <2>3
<1>2. CASE k.begin < a.begin
  <2>1. Meets(a, k) => In(a.begin, a) /\ In(a.begin, k)
    BY <1>2 DEF Meets, In
  <2>2. \A b \in Nat : In(b, a) /\ In(b, k) => Meets(a, k)
    BY DEF Meets, In
  <2>3. Meets(a, k) <=> Meets(k, a)
    BY DEF Meets
  <2> QED BY <2>1, <2>2, <2>3
<1> QED BY <1>1, <1>2

\* The regions of a list, by their places.
LEMMA ListFacts ==
    ASSUME NEW F, ListOk(F)
    PROVE  /\ F \in Seq(RegionType) /\ DOMAIN F = 1 .. Len(F) /\ Len(F) \in Nat
           /\ \A i \in 1 .. Len(F) : F[i] \in ToSet(F)
           /\ \A k \in ToSet(F) : /\ k \in RegionType /\ k.begin \in Nat /\ k.end \in Nat /\ k.begin < k.end
                                  /\ k.id \in LockEntry /\ k.uproc \in Locker
                                  /\ \E i \in 1 .. Len(F) : F[i] = k
           /\ \A i, j \in 1 .. Len(F) : i # j => F[i].id # F[j].id /\ ~Meets(F[i], F[j])
<1>1. F \in Seq(RegionType) /\ DOMAIN F = 1 .. Len(F) /\ Len(F) \in Nat /\ NoRepeat(F)
  BY DEF ListOk
<1>2. \A i \in 1 .. Len(F) : F[i] \in ToSet(F)
  BY <1>1 DEF ToSet
<1>3. ASSUME NEW k \in ToSet(F)
      PROVE  /\ k \in RegionType /\ k.begin \in Nat /\ k.end \in Nat /\ k.begin < k.end
             /\ k.id \in LockEntry /\ k.uproc \in Locker
             /\ \E i \in 1 .. Len(F) : F[i] = k
  <2>1. PICK i \in 1 .. Len(F) : F[i] = k
    BY <1>1 DEF ToSet
  <2>2. k \in RegionType
    BY <1>1, <2>1
  <2>3. k.begin < k.end
    BY DEF ListOk, Filled
  <2>4. MAXSZ \in Nat
    BY LockfAssumption
  <2> QED BY <2>1, <2>2, <2>3, <2>4 DEF RegionType
<1>4. ASSUME NEW i \in 1 .. Len(F), NEW j \in 1 .. Len(F), i # j PROVE F[i].id # F[j].id /\ ~Meets(F[i], F[j])
  <2>1. F[i] # F[j]
    BY <1>1, <1>4 DEF NoRepeat
  <2> QED BY <1>2, <2>1 DEF ListOk, Separate
<1> QED BY <1>1, <1>2, <1>3, <1>4

\* What is asked has bytes, within a file.
LEMMA CallFacts ==
    ASSUME NEW a \in CallType
    PROVE  a.begin \in Nat /\ a.end \in Nat /\ a.begin < a.end /\ a.begin \in 0 .. MAXSZ /\ a.end \in 0 .. MAXSZ /\ a.mode \in Mode
<1>1. MAXSZ \in Nat
  BY LockfAssumption
<1> QED BY <1>1 DEF CallType

-----------------------------------------------------------------------------
(* lflock *)

JoinType == { m \in [begin : 0 .. MAXSZ, end : 0 .. MAXSZ, joined : SUBSET LockEntry] : m.begin < m.end }

\* The least and the largest of two numbers.
LEMMA MinMaxOfTwo ==
    ASSUME NEW a \in Nat, NEW b \in Nat
    PROVE  Min({a, b}) = (IF a <= b THEN a ELSE b) /\ Max({a, b}) = (IF a <= b THEN b ELSE a)
<1>1. CASE a <= b
  <2>1. a \in {a, b} /\ \A y \in {a, b} : a <= y
    BY <1>1
  <2>2. b \in {a, b} /\ \A y \in {a, b} : b >= y
    BY <1>1
  <2> QED BY <1>1, <2>1, <2>2 DEF Min, Max
<1>2. CASE ~(a <= b)
  <2>1. b \in {a, b} /\ \A y \in {a, b} : b <= y
    BY <1>2
  <2>2. a \in {a, b} /\ \A y \in {a, b} : a >= y
    BY <1>2
  <2> QED BY <1>2, <2>1, <2>2 DEF Min, Max
<1> QED BY <1>1, <1>2

\* One turn of the loop: the region that touches is joined, and only its bytes are added.
LEMMA JoinStep ==
    ASSUME NEW p \in Locker, NEW k \in RegionType, k.begin < k.end, NEW m \in JoinType
    PROVE  /\ Join(p, k, m) \in JoinType
           /\ k.uproc = p /\ Touches(m, k) =>
                 /\ Join(p, k, m).joined = m.joined \cup {k.id}
                 /\ \A b \in Nat : In(b, Join(p, k, m)) <=> In(b, m) \/ In(b, k)
           /\ ~(k.uproc = p /\ Touches(m, k)) => Join(p, k, m) = m
<1>0. /\ MAXSZ \in Nat /\ k.begin \in 0 .. MAXSZ /\ k.end \in 0 .. MAXSZ /\ k.id \in LockEntry
      /\ m.begin \in 0 .. MAXSZ /\ m.end \in 0 .. MAXSZ /\ m.joined \in SUBSET LockEntry /\ m.begin < m.end
      /\ m \in [begin : 0 .. MAXSZ, end : 0 .. MAXSZ, joined : SUBSET LockEntry]
  BY LockfAssumption DEF RegionType, JoinType
<1>1. CASE k.uproc = p /\ Touches(m, k)
  <2>1. PICK lo \in 0 .. MAXSZ : lo = IF m.begin <= k.begin THEN m.begin ELSE k.begin
    BY <1>0
  <2>2. PICK hi \in 0 .. MAXSZ : hi = IF m.end <= k.end THEN k.end ELSE m.end
    BY <1>0
  <2>3. Min({m.begin, k.begin}) = lo /\ Max({m.end, k.end}) = hi
    <3>1. m.begin \in Nat /\ k.begin \in Nat /\ m.end \in Nat /\ k.end \in Nat
      BY <1>0
    <3> QED BY <3>1, <2>1, <2>2, MinMaxOfTwo
  <2> DEFINE j == [m EXCEPT !.begin = lo, !.end = hi, !.joined = @ \cup {k.id}]
  <2>4. Join(p, k, m) = j
    BY <1>1, <2>3 DEF Join
  <2>5. /\ j \in [begin : 0 .. MAXSZ, end : 0 .. MAXSZ, joined : SUBSET LockEntry]
        /\ j.begin = lo /\ j.end = hi /\ j.joined = m.joined \cup {k.id}
    BY <1>0
  <2> HIDE DEF j
  <2>6. lo < hi
    BY <1>0, <2>1, <2>2
  <2>7. j \in JoinType
    BY <2>5, <2>6 DEF JoinType
  <2>8. ~(m.end < k.begin) /\ ~(m.begin > k.end)
    BY <1>1 DEF Touches
  <2>9. \A b \in Nat : lo <= b /\ b < hi <=> (m.begin <= b /\ b < m.end) \/ (k.begin <= b /\ b < k.end)
    BY <1>0, <2>1, <2>2, <2>8
  <2> QED BY <1>1, <2>4, <2>5, <2>7, <2>9 DEF In
<1>2. CASE ~(k.uproc = p /\ Touches(m, k))
  BY <1>2 DEF Join
<1> QED BY <1>1, <1>2

\* What the loop has done after some regions.
JoinsRight(p, i, m) ==
    /\ m \in JoinType
    /\ \A id \in m.joined : \E j \in 1 .. i : List(p)[j].id = id /\ List(p)[j].uproc = p
    /\ \A j \in 1 .. i : List(p)[j].uproc = p /\ List(p)[j].id \notin m.joined => ~Meets(ask[p], List(p)[j])
    /\ \A b \in Nat : In(b, m) <=> In(b, ask[p]) \/ \E j \in 1 .. i : List(p)[j].id \in m.joined /\ In(b, List(p)[j])

\* One more region of the list, joined or passed over, keeps what the loop has reached so far.
LEMMA JoinsNext ==
    ASSUME NEW p \in Locker, ListOk(List(p)), ask[p] \in CallType, NEW i \in 1 .. Len(List(p)), NEW m, JoinsRight(p, i - 1, m)
    PROVE  JoinsRight(p, i, Join(p, List(p)[i], m))
<1> DEFINE F == List(p)
<1>0. /\ F \in Seq(RegionType) /\ Len(F) \in Nat
      /\ \A j \in 1 .. Len(F) : F[j] \in ToSet(F)
      /\ \A k \in ToSet(F) : /\ k \in RegionType /\ k.begin \in Nat /\ k.end \in Nat /\ k.begin < k.end
                             /\ k.id \in LockEntry
      /\ \A d, j \in 1 .. Len(F) : d # j => F[d].id # F[j].id /\ ~Meets(F[d], F[j])
  BY ListFacts
<1>a. ask[p].begin \in Nat /\ ask[p].end \in Nat /\ ask[p].begin < ask[p].end
  BY CallFacts
<1>k. PICK k \in RegionType : k = F[i] /\ k.begin \in Nat /\ k.end \in Nat /\ k.begin < k.end
  BY <1>0
<1>m. /\ m \in JoinType
      /\ \A id \in m.joined : \E j \in 1 .. i - 1 : F[j].id = id /\ F[j].uproc = p
      /\ \A j \in 1 .. i - 1 : F[j].uproc = p /\ F[j].id \notin m.joined => ~Meets(ask[p], F[j])
      /\ \A b \in Nat : In(b, m) <=> In(b, ask[p]) \/ \E j \in 1 .. i - 1 : F[j].id \in m.joined /\ In(b, F[j])
  BY DEF JoinsRight
<1>i. /\ \A j : j \in 1 .. i <=> j \in 1 .. i - 1 \/ j = i
      /\ \A j \in 1 .. i - 1 : j \in 1 .. Len(F) /\ j # i /\ F[j].id # k.id
  <2>1. \A j : j \in 1 .. i <=> j \in 1 .. i - 1 \/ j = i
    BY <1>0
  <2>2. \A j \in 1 .. i - 1 : j \in 1 .. Len(F) /\ j # i
    BY <1>0
  <2> QED BY <2>1, <2>2, <1>0, <1>k
<1>j. /\ Join(p, k, m) \in JoinType
      /\ k.uproc = p /\ Touches(m, k) =>
            /\ Join(p, k, m).joined = m.joined \cup {k.id}
            /\ \A b \in Nat : In(b, Join(p, k, m)) <=> In(b, m) \/ In(b, k)
      /\ ~(k.uproc = p /\ Touches(m, k)) => Join(p, k, m) = m
  BY <1>k, <1>m, JoinStep
<1> DEFINE j == Join(p, k, m)
<1>f. F = List(p) /\ j = Join(p, k, m)
  OBVIOUS
<1> HIDE DEF F, j
<1>1. CASE k.uproc = p /\ Touches(m, k)
  <2>1. j \in JoinType /\ j.joined = m.joined \cup {k.id} /\ \A b \in Nat : In(b, j) <=> In(b, m) \/ In(b, k)
    BY <1>1, <1>j, <1>f
  <2>2. \A id \in j.joined : \E d \in 1 .. i : F[d].id = id /\ F[d].uproc = p
    BY <1>1, <1>i, <1>k, <1>m, <2>1
  <2>3. \A d \in 1 .. i : F[d].uproc = p /\ F[d].id \notin j.joined => ~Meets(ask[p], F[d])
    BY <1>i, <1>k, <1>m, <2>1
  <2>4. ASSUME NEW b \in Nat
        PROVE  In(b, j) <=> In(b, ask[p]) \/ \E d \in 1 .. i : F[d].id \in j.joined /\ In(b, F[d])
    <3>1. \A d \in 1 .. i - 1 : F[d].id \in j.joined <=> F[d].id \in m.joined
      BY <1>i, <2>1
    <3>2. F[i].id \in j.joined
      BY <1>k, <2>1
    <3>3. (\E d \in 1 .. i : F[d].id \in j.joined /\ In(b, F[d]))
             <=> (\E d \in 1 .. i - 1 : F[d].id \in m.joined /\ In(b, F[d])) \/ In(b, F[i])
      BY <1>i, <3>1, <3>2
    <3> QED BY <3>3, <2>1, <1>m, <1>k
  <2> QED BY <1>f, <1>k, <2>1, <2>2, <2>3, <2>4 DEF JoinsRight
<1>2. CASE ~(k.uproc = p /\ Touches(m, k))
  <2>1. j = m /\ j \in JoinType
    BY <1>2, <1>j, <1>f
  <2>2. \A id \in m.joined : \E d \in 1 .. i : F[d].id = id /\ F[d].uproc = p
    BY <1>i, <1>m
  <2>0. k.id \notin m.joined
    BY <1>i, <1>m
  <2>3. k.uproc = p => ~Meets(ask[p], k)
    <3> SUFFICES ASSUME k.uproc = p, Meets(ask[p], k) PROVE FALSE
      OBVIOUS
    <3>1. PICK b \in Nat : In(b, ask[p]) /\ In(b, k)
      BY <1>a, <1>k, MeetsIs
    <3>2. In(b, m)
      BY <1>m, <3>1
    <3>3. m.begin \in Nat /\ m.end \in Nat
      BY <1>m, LockfAssumption DEF JoinType
    <3>4. Touches(m, k)
      BY <3>1, <3>2, <3>3, <1>k, SMTT(40) DEF In, Touches
    <3> QED BY <1>2, <3>4
  <2>4. \A d \in 1 .. i : F[d].uproc = p /\ F[d].id \notin m.joined => ~Meets(ask[p], F[d])
    BY <1>i, <1>k, <1>m, <2>3
  <2>5. ASSUME NEW b \in Nat
        PROVE  In(b, m) <=> In(b, ask[p]) \/ \E d \in 1 .. i : F[d].id \in m.joined /\ In(b, F[d])
    <3>1. F[i].id \notin m.joined
      BY <1>k, <2>0
    <3> QED BY <3>1, <1>i, <1>m
  <2> QED BY <1>f, <1>k, <2>1, <2>2, <2>4, <2>5 DEF JoinsRight
<1> QED BY <1>1, <1>2

\* At its end the loop has joined regions of the process only, and the new region has the bytes
\* asked for and those of the regions joined; it meets no other region.
LEMMA JoinedIs ==
    ASSUME NEW p \in Locker, ListOk(List(p)), ask[p] \in CallType
    PROVE  /\ Joined(p) \in JoinType
           /\ \A id \in Joined(p).joined : \E k \in ToSet(List(p)) : k.id = id /\ k.uproc = p
           /\ \A k \in ToSet(List(p)) : k.uproc = p /\ k.id \notin Joined(p).joined => ~Meets(ask[p], k)
           /\ \A b \in Nat : In(b, Joined(p)) <=>
                 In(b, ask[p]) \/ \E k \in ToSet(List(p)) : k.id \in Joined(p).joined /\ In(b, k)
<1> DEFINE F == List(p)
           n == Len(F)
           first == [begin |-> ask[p].begin, end |-> ask[p].end, joined |-> {}]
           Def(h) == [i \in 0 .. n |-> IF i = 0 THEN first ELSE Join(p, F[i], h[i - 1])]
           M == CHOOSE h : h = Def(h)
           step == [i \in 1 .. n |-> [m \in JoinType |-> Join(p, F[i], m)]]
<1>0. /\ n \in Nat /\ F \in Seq(RegionType)
      /\ \A i \in 1 .. n : F[i] \in RegionType /\ F[i].begin < F[i].end /\ F[i] \in ToSet(F)
      /\ \A k \in ToSet(F) : \E i \in 1 .. n : F[i] = k
  BY ListFacts
<1>1. first \in JoinType /\ first.joined = {} /\ first.begin = ask[p].begin /\ first.end = ask[p].end
  <2>1. ask[p].begin \in 0 .. MAXSZ /\ ask[p].end \in 0 .. MAXSZ /\ ask[p].begin < ask[p].end
    BY CallFacts
  <2> QED BY <2>1 DEF JoinType
<1>2. step \in [1 .. n -> [JoinType -> JoinType]]
  <2>1. ASSUME NEW i \in 1 .. n, NEW m \in JoinType PROVE Join(p, F[i], m) \in JoinType
    <3>1. PICK k \in RegionType : k = F[i] /\ k.begin < k.end
      BY <1>0
    <3> QED BY <3>1, JoinStep
  <2> HIDE DEF n, F
  <2> QED BY <2>1
<1>3. PICK f : f \in [0 .. n -> JoinType] /\ f[0] = first /\ \A i \in 1 .. n : f[i] = step[i][f[i - 1]]
  <2>1. n \in Nat /\ first \in JoinType /\ step \in [1 .. n -> [JoinType -> JoinType]]
    BY <1>0, <1>1, <1>2
  <2> HIDE DEF step, first, n, F
  <2>2. \E f : Recursive(f, JoinType, n, first, step)
    BY <2>1, Recursion
  <2> QED BY <2>2 DEF Recursive
<1>4. f = Def(f)
  <2>1. ASSUME NEW i \in 1 .. n PROVE f[i] = Join(p, F[i], f[i - 1])
    <3>1. f[i - 1] \in JoinType
      BY <1>0, <1>3
    <3>2. f[i] = step[i][f[i - 1]]
      BY <1>3
    <3> HIDE DEF n, F
    <3> QED BY <3>1, <3>2
  <2>2. \A i \in 0 .. n : f[i] = IF i = 0 THEN first ELSE Join(p, F[i], f[i - 1])
    <3>1. \A i \in 0 .. n : i = 0 \/ i \in 1 .. n
      BY <1>0
    <3> HIDE DEF n, F, first
    <3> QED BY <2>1, <3>1, <1>3
  <2>3. f \in [0 .. n -> JoinType]
    BY <1>3
  <2>4. \A i \in 0 .. n : f[i] = Def(f)[i]
    <3> HIDE DEF n, F, first
    <3> QED BY <2>2
  <2>5. Def(f) = [i \in 0 .. n |-> Def(f)[i]] /\ f = [i \in 0 .. n |-> f[i]]
    <3> HIDE DEF n, F, first
    <3> QED BY <2>3
  <2> HIDE DEF Def, n
  <2> QED BY <2>4, <2>5
<1>5. M = Def(M)
  <2> HIDE DEF Def
  <2> QED BY <1>4
<1>6. Joined(p) = M[n]
  BY DEF Joined
<1> HIDE DEF M
<1>7. M[0] = first /\ \A i \in 1 .. n : M[i] = Join(p, F[i], M[i - 1])
  <2> HIDE DEF first
  <2>1. \A i \in 0 .. n : M[i] = IF i = 0 THEN first ELSE Join(p, F[i], M[i - 1])
    BY <1>5
  <2>2. 0 \in 0 .. n /\ \A i \in 1 .. n : i \in 0 .. n /\ i # 0
    BY <1>0
  <2> HIDE DEF n, F
  <2> QED BY <2>1, <2>2
<1> DEFINE Wrong == { i \in 0 .. n : ~JoinsRight(p, i, M[i]) }
<1>8. JoinsRight(p, 0, M[0])
  <2>1. \A i : i \notin 1 .. 0
    OBVIOUS
  <2>2. \A b \in Nat : In(b, first) <=> In(b, ask[p])
    BY <1>1 DEF In
  <2> HIDE DEF first
  <2> QED BY <1>1, <1>7, <2>1, <2>2 DEF JoinsRight
<1>9. Wrong = {}
  <2> SUFFICES ASSUME Wrong # {} PROVE FALSE
    OBVIOUS
  <2>1. Wrong \in SUBSET Nat
    OBVIOUS
  <2>2. PICK m \in Wrong : \A k \in Wrong : m <= k
    <3> HIDE DEF Wrong
    <3> QED BY <2>1, Least
  <2>3. m \in 0 .. n /\ ~JoinsRight(p, m, M[m])
    OBVIOUS
  <2>4. m # 0
    BY <1>8, <2>3
  <2>5. m \in 1 .. n /\ m - 1 \in 0 .. n /\ ~(m <= m - 1)
    BY <2>3, <2>4, <1>0
  <2>6. m - 1 \notin Wrong
    <3> HIDE DEF Wrong
    <3> QED BY <2>2, <2>5
  <2>7. JoinsRight(p, m - 1, M[m - 1])
    BY <2>5, <2>6
  <2>8. JoinsRight(p, m, Join(p, List(p)[m], M[m - 1]))
    BY <2>5, <2>7, JoinsNext
  <2>9. M[m] = Join(p, List(p)[m], M[m - 1])
    BY <2>5, <1>7
  <2> QED BY <2>3, <2>8, <2>9
<1>10. JoinsRight(p, n, M[n])
  <2>1. n \in 0 .. n
    BY <1>0
  <2>2. n \notin Wrong
    <3> HIDE DEF Wrong
    <3> QED BY <1>9
  <2> HIDE DEF n
  <2> QED BY <2>1, <2>2
<1>11. JoinsRight(p, Len(List(p)), Joined(p))
  BY <1>6, <1>10
<1> HIDE DEF n, F
<1> DEFINE J == Joined(p)
<1>12. /\ J \in JoinType
       /\ \A id \in J.joined : \E j \in 1 .. n : F[j].id = id /\ F[j].uproc = p
       /\ \A j \in 1 .. n : F[j].uproc = p /\ F[j].id \notin J.joined => ~Meets(ask[p], F[j])
       /\ \A b \in Nat : In(b, J) <=> In(b, ask[p]) \/ \E j \in 1 .. n : F[j].id \in J.joined /\ In(b, F[j])
  BY <1>11 DEF JoinsRight, n, F
<1> HIDE DEF J
<1>13. \A id \in J.joined : \E k \in ToSet(F) : k.id = id /\ k.uproc = p
  BY <1>0, <1>12
<1>14. \A k \in ToSet(F) : k.uproc = p /\ k.id \notin J.joined => ~Meets(ask[p], k)
  BY <1>0, <1>12
<1>15. ASSUME NEW b \in Nat PROVE In(b, J) <=> In(b, ask[p]) \/ \E k \in ToSet(F) : k.id \in J.joined /\ In(b, k)
  <2>1. (\E j \in 1 .. n : F[j].id \in J.joined /\ In(b, F[j])) <=> \E k \in ToSet(F) : k.id \in J.joined /\ In(b, k)
    BY <1>0
  <2> QED BY <2>1, <1>12
<1> QED BY <1>12, <1>13, <1>14, <1>15 DEF J, F

\* What lflock finds and does, and what becomes of the list: the new region is in front, those joined
\* to it are gone.
Locking(p, F, gp, m, new, others, list) ==
    /\ p \in Locker /\ F = List(p) /\ ListOk(F) /\ ask[p] \in CallType /\ ~InTheWay(p)
    /\ gp \in LockEntry \ Ids(F) /\ m = Joined(p)
    /\ new = [id |-> gp, uproc |-> p, begin |-> m.begin, end |-> m.end]
    /\ others = { k \in ToSet(F) : k.id \notin m.joined }
    /\ list = <<new>> \o Kept(F, others)

LockedAs(p, F, gp, m, new, others, list) ==
    /\ ListOk(list) /\ ToSet(list) = {new} \cup others
    /\ m.joined \subseteq Ids(F) /\ Ids(list) = {gp} \cup (Ids(F) \ m.joined)
    /\ \A k \in ToSet(F) : k.id \in m.joined => k.uproc = p
    /\ \A b \in Nat : In(b, new) <=> In(b, ask[p]) \/ \E k \in ToSet(F) : k.id \in m.joined /\ In(b, k)

\* lflock makes a list of regions, and the new one has the bytes asked for and those joined.
LEMMA LockedList ==
    ASSUME NEW p, NEW F, NEW gp, NEW m, NEW new, NEW others, NEW list, Locking(p, F, gp, m, new, others, list)
    PROVE  LockedAs(p, F, gp, m, new, others, list)
<1>h. /\ p \in Locker /\ F = List(p) /\ ListOk(F) /\ ask[p] \in CallType /\ ~InTheWay(p)
      /\ gp \in LockEntry \ Ids(F) /\ m = Joined(p)
      /\ new = [id |-> gp, uproc |-> p, begin |-> m.begin, end |-> m.end]
      /\ others = { k \in ToSet(F) : k.id \notin m.joined }
      /\ list = <<new>> \o Kept(F, others)
  BY DEF Locking
<1> USE <1>h
<1>0. /\ F \in Seq(RegionType) /\ DOMAIN F = 1 .. Len(F)
      /\ \A k \in ToSet(F) : /\ k \in RegionType /\ k.begin \in Nat /\ k.end \in Nat /\ k.begin < k.end
                             /\ k.id \in LockEntry /\ k.uproc \in Locker
                             /\ \E i \in 1 .. Len(F) : F[i] = k
      /\ \A k, l \in ToSet(F) : k # l => k.id # l.id /\ ~Meets(k, l)
      /\ NoRepeat(F)
  <2>1. /\ F \in Seq(RegionType) /\ DOMAIN F = 1 .. Len(F)
        /\ \A k \in ToSet(F) : /\ k \in RegionType /\ k.begin \in Nat /\ k.end \in Nat /\ k.begin < k.end
                               /\ k.id \in LockEntry /\ k.uproc \in Locker
                               /\ \E i \in 1 .. Len(F) : F[i] = k
    BY ListFacts
  <2> QED BY <2>1 DEF ListOk, Separate
<1>a. ask[p].begin \in Nat /\ ask[p].end \in Nat /\ ask[p].begin < ask[p].end
  BY CallFacts
<1>1. /\ m \in JoinType
      /\ \A id \in m.joined : \E k \in ToSet(F) : k.id = id /\ k.uproc = p
      /\ \A k \in ToSet(F) : k.uproc = p /\ k.id \notin m.joined => ~Meets(ask[p], k)
      /\ \A b \in Nat : In(b, m) <=> In(b, ask[p]) \/ \E k \in ToSet(F) : k.id \in m.joined /\ In(b, k)
  BY JoinedIs
<1>2. m.begin \in 0 .. MAXSZ /\ m.end \in 0 .. MAXSZ /\ m.begin < m.end /\ MAXSZ \in Nat
  BY <1>1, LockfAssumption DEF JoinType
<1>3. new \in RegionType /\ new.begin = m.begin /\ new.end = m.end /\ new.id = gp /\ new.uproc = p
  BY <1>2 DEF RegionType
<1>4. \A b \in Nat : In(b, new) <=> In(b, m)
  BY <1>3 DEF In
<1>5. ASSUME NEW k \in ToSet(F), k.id \in m.joined PROVE k.uproc = p
  <2>1. PICK l \in ToSet(F) : l.id = k.id /\ l.uproc = p
    BY <1>1, <1>5
  <2> QED BY <1>0, <2>1
<1>6. m.joined \subseteq Ids(F)
  BY <1>1 DEF Ids
<1>7. new \notin ToSet(F)
  BY <1>3 DEF Ids
<1>8. /\ Kept(F, others) \in Seq(RegionType) /\ NoRepeat(Kept(F, others))
      /\ ToSet(Kept(F, others)) = others
  <2>1. /\ Kept(F, others) \in Seq(RegionType)
        /\ ToSet(Kept(F, others)) = ToSet(F) \cap others
        /\ NoRepeat(F) => NoRepeat(Kept(F, others))
    BY <1>0, KeptElements
  <2> QED BY <2>1, <1>0
<1>9. list \in Seq(RegionType) /\ NoRepeat(list) /\ ToSet(list) = {new} \cup others
  <2> DEFINE kept == Kept(F, others)
  <2>1. kept \in Seq(RegionType) /\ NoRepeat(kept) /\ ToSet(kept) = others /\ list = <<new>> \o kept /\ new \notin ToSet(kept)
    BY <1>7, <1>8
  <2> HIDE DEF kept
  <2>2. /\ <<new>> \o kept \in Seq(RegionType)
        /\ ToSet(<<new>> \o kept) = ToSet(kept) \cup {new}
        /\ NoRepeat(kept) /\ new \notin ToSet(kept) => NoRepeat(<<new>> \o kept)
    BY <1>3, <2>1, ConsElements
  <2> QED BY <2>1, <2>2
<1>10. ASSUME NEW k \in others PROVE ~Meets(new, k) /\ ~Meets(k, new) /\ k.id # gp
  <2>0. k \in ToSet(F) /\ k.id \notin m.joined /\ k.begin \in Nat /\ k.end \in Nat /\ k.begin < k.end
    BY <1>0
  <2>1. ~Meets(ask[p], k)
    <3>1. CASE k.uproc = p
      BY <1>1, <2>0, <3>1
    <3>2. CASE k.uproc # p
      <4>1. PICK i \in 1 .. Len(F) : F[i] = k
        BY <1>0, <2>0
      <4> QED BY <1>0, <3>2, <4>1 DEF InTheWay, Litigious
    <3> QED BY <3>1, <3>2
  <2>2. new.begin \in Nat /\ new.end \in Nat /\ new.begin < new.end
    BY <1>2, <1>3
  <2>3. ASSUME Meets(new, k) PROVE FALSE
    <3>1. PICK b \in Nat : In(b, new) /\ In(b, k)
      BY <2>0, <2>2, <2>3, MeetsIs
    <3>2. CASE In(b, ask[p])
      BY <1>a, <2>0, <2>1, <3>1, <3>2, MeetsIs
    <3>3. CASE \E l \in ToSet(F) : l.id \in m.joined /\ In(b, l)
      <4>1. PICK l \in ToSet(F) : l.id \in m.joined /\ In(b, l)
        BY <3>3
      <4>2. Meets(l, k)
        BY <1>0, <2>0, <3>1, <4>1, MeetsIs
      <4>3. l # k
        BY <2>0, <4>1
      <4> QED BY <1>0, <2>0, <4>2, <4>3
    <3> QED BY <1>1, <1>4, <3>1, <3>2, <3>3
  <2>4. Meets(new, k) <=> Meets(k, new)
    BY <2>0, <2>2, MeetsIs
  <2>5. k.id # gp
    BY <2>0 DEF Ids
  <2> QED BY <2>3, <2>4, <2>5
<1>11. Separate(ToSet(list))
  <2> SUFFICES ASSUME NEW k \in {new} \cup others, NEW l \in {new} \cup others, k # l PROVE k.id # l.id /\ ~Meets(k, l)
    BY <1>9, SMTT(40) DEF Separate
  <2>1. CASE k \in others /\ l \in others
    BY <1>0, <2>1
  <2>2. CASE k = new
    BY <1>3, <1>10, <2>2
  <2>3. CASE l = new
    BY <1>3, <1>10, <2>3
  <2> QED BY <2>1, <2>2, <2>3
<1>12. Filled(ToSet(list))
  BY <1>0, <1>2, <1>3, <1>9 DEF Filled
<1>13. Ids(list) = {gp} \cup (Ids(F) \ m.joined)
  BY <1>3, <1>9 DEF Ids
<1> QED BY <1>1, <1>4, <1>5, <1>6, <1>9, <1>11, <1>12, <1>13 DEF LockedAs, ListOk

-----------------------------------------------------------------------------
(* lffree and lfclosefree *)

Split(p, k) == k.begin < ask[p].begin /\ ask[p].end < k.end

\* What stays of a region: it, if it is not one of the process that meets what is asked; else the
\* bytes that were not asked for, in at most two pieces.
LEMMA RestIs ==
    ASSUME NEW p \in Locker, ask[p] \in CallType, NEW k \in RegionType, k.begin < k.end,
           NEW gp \in LockEntry, gp # k.id, NEW r, r = Rest(p, k, gp)
    PROVE  /\ r \in Seq(RegionType) /\ NoRepeat(r) /\ Separate(ToSet(r))
           /\ \A x \in ToSet(r) : /\ x.begin < x.end /\ x.uproc = k.uproc
                                  /\ x.id = k.id \/ (x.id = gp /\ Split(p, k))
           /\ k.uproc # p \/ ~Meets(ask[p], k) => ToSet(r) = {k}
           /\ \A b \in Nat : (\E x \in ToSet(r) : In(b, x)) <=> In(b, k) /\ ~(k.uproc = p /\ In(b, ask[p]))
<1>0. /\ MAXSZ \in Nat /\ k.begin \in 0 .. MAXSZ /\ k.end \in 0 .. MAXSZ /\ k.id \in LockEntry /\ k.uproc \in Locker
      /\ ask[p].begin \in 0 .. MAXSZ /\ ask[p].end \in 0 .. MAXSZ /\ ask[p].begin < ask[p].end
  BY LockfAssumption, CallFacts DEF RegionType
<1>1. CASE k.uproc # p \/ ~Meets(ask[p], k)
  <2>1. r = <<k>>
    BY <1>1 DEF Rest
  <2>2. <<k>> \in Seq(RegionType) /\ ToSet(<<k>>) = {k} /\ NoRepeat(<<k>>)
    BY SingleElement
  <2>3. r \in Seq(RegionType) /\ ToSet(r) = {k} /\ NoRepeat(r)
    BY <2>1, <2>2
  <2>4. \A b \in Nat : In(b, k) => ~(k.uproc = p /\ In(b, ask[p]))
    <3>1. \A b \in Nat : In(b, k) /\ In(b, ask[p]) => Meets(ask[p], k)
      BY <1>0 DEF In, Meets
    <3> QED BY <1>1, <3>1
  <2> QED BY <2>3, <2>4 DEF Separate
<1>2. CASE k.uproc = p /\ Meets(ask[p], k)
  <2> DEFINE low == [k EXCEPT !.end = ask[p].begin]
             high == [k EXCEPT !.begin = ask[p].end, !.id = IF k.begin < ask[p].begin THEN gp ELSE @]
             l == IF k.begin < ask[p].begin THEN <<low>> ELSE <<>>
             h == IF ask[p].end < k.end THEN <<high>> ELSE <<>>
  <2>1. r = l \o h
    BY <1>2 DEF Rest
  <2>2. low \in RegionType /\ low.id = k.id /\ low.uproc = k.uproc /\ low.begin = k.begin /\ low.end = ask[p].begin
    BY <1>0 DEF RegionType
  <2>3. /\ high \in RegionType /\ high.id = (IF k.begin < ask[p].begin THEN gp ELSE k.id)
        /\ high.uproc = k.uproc /\ high.begin = ask[p].end /\ high.end = k.end
    BY <1>0 DEF RegionType
  <2> HIDE DEF low, high
  <2>4. <<low>> \in Seq(RegionType) /\ ToSet(<<low>>) = {low} /\ NoRepeat(<<low>>)
    BY <2>2, SingleElement
  <2>5. <<high>> \in Seq(RegionType) /\ ToSet(<<high>>) = {high} /\ NoRepeat(<<high>>)
    BY <2>3, SingleElement
  <2>6. <<>> \in Seq(RegionType) /\ ToSet(<<>>) = {} /\ NoRepeat(<<>>)
    BY DEF ToSet, NoRepeat
  <2>7. l \in Seq(RegionType) /\ NoRepeat(l) /\ \A x : x \in ToSet(l) <=> k.begin < ask[p].begin /\ x = low
    BY <2>4, <2>6
  <2>8. h \in Seq(RegionType) /\ NoRepeat(h) /\ \A x : x \in ToSet(h) <=> ask[p].end < k.end /\ x = high
    BY <2>5, <2>6
  <2> HIDE DEF l, h
  <2>9. low.end < high.begin
    BY <1>0, <2>2, <2>3
  <2>10. low # high
    <3>1. low.begin < low.end \/ ~(k.begin < ask[p].begin)
      BY <2>2
    <3>2. ASSUME low = high PROVE FALSE
      BY <3>2, <2>2, <2>3, <1>2, <1>0 DEF Meets
    <3> QED BY <3>2
  <2>11. ToSet(l) \cap ToSet(h) = {}
    BY <2>7, <2>8, <2>10
  <2>12. r \in Seq(RegionType) /\ NoRepeat(r) /\ ToSet(r) = ToSet(l) \cup ToSet(h)
    <3>1. /\ l \o h \in Seq(RegionType) /\ ToSet(l \o h) = ToSet(l) \cup ToSet(h)
          /\ NoRepeat(l) /\ NoRepeat(h) /\ ToSet(l) \cap ToSet(h) = {} => NoRepeat(l \o h)
      BY <2>7, <2>8, ConcatElements
    <3> QED BY <3>1, <2>1, <2>7, <2>8, <2>11
  <2>13. \A x : x \in ToSet(r) <=> (k.begin < ask[p].begin /\ x = low) \/ (ask[p].end < k.end /\ x = high)
    BY <2>7, <2>8, <2>12
  <2>14. \A x \in ToSet(r) : /\ x.begin < x.end /\ x.uproc = k.uproc
                             /\ x.id = k.id \/ (x.id = gp /\ Split(p, k))
    BY <2>2, <2>3, <2>13 DEF Split
  <2>15. Separate(ToSet(r))
    <3> SUFFICES ASSUME NEW x \in ToSet(r), NEW y \in ToSet(r), x # y PROVE x.id # y.id /\ ~Meets(x, y)
      BY DEF Separate
    <3>1. k.begin < ask[p].begin /\ ((x = low /\ y = high) \/ (x = high /\ y = low))
      BY <2>13
    <3>2. low.id # high.id
      BY <2>2, <2>3, <3>1
    <3>3. ~Meets(low, high) /\ ~Meets(high, low)
      BY <1>0, <2>2, <2>3, <2>9 DEF Meets
    <3> QED BY <3>1, <3>2, <3>3
  <2>16. ASSUME NEW b \in Nat PROVE (\E x \in ToSet(r) : In(b, x)) <=> In(b, k) /\ ~(k.uproc = p /\ In(b, ask[p]))
    <3>1. (\E x \in ToSet(r) : In(b, x))
             <=> (k.begin < ask[p].begin /\ In(b, low)) \/ (ask[p].end < k.end /\ In(b, high))
      BY <2>13
    <3>2. In(b, low) <=> k.begin <= b /\ b < ask[p].begin
      BY <2>2 DEF In
    <3>3. In(b, high) <=> ask[p].end <= b /\ b < k.end
      BY <2>3 DEF In
    <3>4. /\ In(b, k) <=> k.begin <= b /\ b < k.end
          /\ In(b, ask[p]) <=> ask[p].begin <= b /\ b < ask[p].end
      BY DEF In
    <3>5. ask[p].end > k.begin /\ ask[p].begin < k.end
      BY <1>2 DEF Meets
    <3> QED BY <1>0, <1>2, <3>1, <3>2, <3>3, <3>4, <3>5
  <2> QED BY <1>2, <2>12, <2>14, <2>15, <2>16
<1> QED BY <1>1, <1>2

\* What lffree finds and does, and what becomes of the list: the process loses the bytes asked for.
Freeing(p, F, gp, list) ==
    /\ p \in Locker /\ F = List(p) /\ ListOk(F) /\ ask[p] \in CallType /\ gp \in LockEntry \ Ids(F)
    /\ list = FlattenSeq([i \in DOMAIN F |-> Rest(p, F[i], gp)])

FreedAs(p, F, gp, list) ==
    /\ ListOk(list) /\ Ids(list) \subseteq Ids(F) \cup {gp}
    /\ \A k \in ToSet(F) : k.uproc # p \/ ~Meets(ask[p], k) => k \in ToSet(list)
    /\ \A x \in ToSet(list) : \E k \in ToSet(F) : x.uproc = k.uproc
    /\ \A b \in Nat, q \in Locker : (\E x \in ToSet(list) : x.uproc = q /\ In(b, x))
          <=> (\E k \in ToSet(F) : k.uproc = q /\ In(b, k)) /\ ~(q = p /\ In(b, ask[p]))

\* The new entry serves for one region at most, since two regions that both stick out on both sides
\* would meet.
LEMMA FreedList ==
    ASSUME NEW p, NEW F, NEW gp, NEW list, Freeing(p, F, gp, list)
    PROVE  FreedAs(p, F, gp, list)
<1>h. /\ p \in Locker /\ F = List(p) /\ ListOk(F) /\ ask[p] \in CallType /\ gp \in LockEntry \ Ids(F)
      /\ list = FlattenSeq([i \in DOMAIN F |-> Rest(p, F[i], gp)])
  BY DEF Freeing
<1> USE <1>h
<1> DEFINE n == Len(F)
           t == [i \in 1 .. n |-> Rest(p, F[i], gp)]
<1>0. /\ F \in Seq(RegionType) /\ DOMAIN F = 1 .. n /\ n \in Nat
      /\ \A i \in 1 .. n : F[i] \in ToSet(F)
      /\ \A k \in ToSet(F) : /\ k \in RegionType /\ k.begin \in Nat /\ k.end \in Nat /\ k.begin < k.end
                             /\ k.id \in LockEntry /\ k.uproc \in Locker
                             /\ \E i \in 1 .. n : F[i] = k
      /\ \A i, j \in 1 .. n : i # j => F[i].id # F[j].id /\ ~Meets(F[i], F[j])
  BY ListFacts
<1>a. ask[p].begin \in Nat /\ ask[p].end \in Nat /\ ask[p].begin < ask[p].end
  BY CallFacts
<1>1. list = FlattenSeq(t)
  BY <1>0
<1>2. ASSUME NEW i \in 1 .. n
      PROVE  /\ t[i] \in Seq(RegionType) /\ NoRepeat(t[i]) /\ Separate(ToSet(t[i]))
             /\ \A x \in ToSet(t[i]) : /\ x.begin < x.end /\ x.uproc = F[i].uproc
                                       /\ x.id = F[i].id \/ (x.id = gp /\ Split(p, F[i]))
             /\ F[i].uproc # p \/ ~Meets(ask[p], F[i]) => ToSet(t[i]) = {F[i]}
             /\ \A b \in Nat : (\E x \in ToSet(t[i]) : In(b, x)) <=> In(b, F[i]) /\ ~(F[i].uproc = p /\ In(b, ask[p]))
  <2>1. t[i] = Rest(p, F[i], gp)
    OBVIOUS
  <2>2. PICK k \in RegionType : k = F[i] /\ k.begin < k.end
    BY <1>0
  <2>3. gp # k.id
    BY <1>0, <2>2 DEF Ids
  <2> HIDE DEF t, n
  <2>4. PICK r : r = t[i]
    OBVIOUS
  <2>5. r = Rest(p, k, gp)
    BY <2>1, <2>2, <2>4
  <2>6. /\ r \in Seq(RegionType) /\ NoRepeat(r) /\ Separate(ToSet(r))
        /\ \A x \in ToSet(r) : /\ x.begin < x.end /\ x.uproc = k.uproc
                               /\ x.id = k.id \/ (x.id = gp /\ Split(p, k))
        /\ k.uproc # p \/ ~Meets(ask[p], k) => ToSet(r) = {k}
        /\ \A b \in Nat : (\E x \in ToSet(r) : In(b, x)) <=> In(b, k) /\ ~(k.uproc = p /\ In(b, ask[p]))
    BY <2>2, <2>3, <2>5, RestIs
  <2> QED BY <2>2, <2>4, <2>6
<1>3. DOMAIN t = 1 .. n
  OBVIOUS
<1>t. t = [i \in 1 .. n |-> t[i]]
  OBVIOUS
<1> HIDE DEF t
<1>4. t \in Seq(Seq(RegionType))
  BY <1>0, <1>2, <1>t
<1>5. ASSUME NEW i \in 1 .. n, NEW x \in ToSet(t[i])
      PROVE  /\ x \in RegionType /\ x.begin \in Nat /\ x.end \in Nat /\ x.begin < x.end
             /\ \A b \in Nat : In(b, x) => In(b, F[i])
             /\ In(x.begin, F[i]) /\ In(x.begin, x)
  <2>1. x \in RegionType /\ x.begin < x.end
    <3>1. PICK d \in DOMAIN t[i] : t[i][d] = x
      BY DEF ToSet
    <3>2. t[i] \in Seq(RegionType)
      BY <1>2
    <3>3. x \in RegionType
      BY <3>1, <3>2
    <3> QED BY <3>3, <1>2
  <2>2. x.begin \in Nat /\ x.end \in Nat
    BY <2>1, LockfAssumption DEF RegionType
  <2>3. \A b \in Nat : In(b, x) => In(b, F[i])
    BY <1>2
  <2>4. In(x.begin, x)
    BY <2>1, <2>2 DEF In
  <2> QED BY <2>1, <2>2, <2>3, <2>4
<1>6. ASSUME NEW i \in 1 .. n, NEW j \in 1 .. n, NEW x \in ToSet(t[i]), NEW y \in ToSet(t[j]), i # j
      PROVE  x.id # y.id /\ ~Meets(x, y) /\ x # y
  <2>0. /\ F[i].begin \in Nat /\ F[i].end \in Nat /\ F[i].begin < F[i].end
        /\ F[j].begin \in Nat /\ F[j].end \in Nat /\ F[j].begin < F[j].end
        /\ F[i].id # gp /\ F[j].id # gp /\ F[i].id # F[j].id /\ ~Meets(F[i], F[j])
    BY <1>0, <1>6 DEF Ids
  <2>1. ~(\E b \in Nat : In(b, F[i]) /\ In(b, F[j]))
    BY <2>0, MeetsIs
  <2>2. ~Meets(x, y)
    <3> SUFFICES ASSUME Meets(x, y) PROVE FALSE
      OBVIOUS
    <3>1. PICK b \in Nat : In(b, x) /\ In(b, y)
      BY <1>5, MeetsIs
    <3> QED BY <1>5, <2>1, <3>1
  <2>3. x # y
    BY <1>5, <2>1
  <2>4. ~(Split(p, F[i]) /\ Split(p, F[j]))
    <3> SUFFICES ASSUME Split(p, F[i]), Split(p, F[j]) PROVE FALSE
      OBVIOUS
    <3>1. In(ask[p].begin, F[i]) /\ In(ask[p].begin, F[j])
      BY <1>a, <2>0, SMTT(40) DEF Split, In
    <3> QED BY <1>a, <2>1, <3>1
  <2>5. x.id # y.id
    <3>1. x.id = F[i].id \/ (x.id = gp /\ Split(p, F[i]))
      BY <1>2
    <3>2. y.id = F[j].id \/ (y.id = gp /\ Split(p, F[j]))
      BY <1>2
    <3> QED BY <2>0, <2>4, <3>1, <3>2
  <2> QED BY <2>2, <2>3, <2>5
<1>7. /\ list \in Seq(RegionType) /\ NoRepeat(list)
      /\ \A x : x \in ToSet(list) <=> \E i \in 1 .. n : x \in ToSet(t[i])
  <2>1. /\ FlattenSeq(t) \in Seq(RegionType)
        /\ \A x : x \in ToSet(FlattenSeq(t)) <=> \E i \in DOMAIN t : x \in ToSet(t[i])
        /\ (\A i \in DOMAIN t : NoRepeat(t[i])) /\ (\A i, j \in DOMAIN t : i # j => ToSet(t[i]) \cap ToSet(t[j]) = {})
             => NoRepeat(FlattenSeq(t))
    BY <1>4, FlattenElements
  <2>2. \A i \in DOMAIN t : NoRepeat(t[i])
    BY <1>2, <1>3
  <2>3. \A i, j \in DOMAIN t : i # j => ToSet(t[i]) \cap ToSet(t[j]) = {}
    BY <1>3, <1>6
  <2> QED BY <1>1, <1>3, <2>1, <2>2, <2>3
<1>8. Filled(ToSet(list))
  BY <1>5, <1>7 DEF Filled
<1>9. Separate(ToSet(list))
  <2> SUFFICES ASSUME NEW x \in ToSet(list), NEW y \in ToSet(list), x # y PROVE x.id # y.id /\ ~Meets(x, y)
    BY DEF Separate
  <2>1. PICK i \in 1 .. n : x \in ToSet(t[i])
    BY <1>7
  <2>2. PICK j \in 1 .. n : y \in ToSet(t[j])
    BY <1>7
  <2>3. CASE i = j
    BY <1>2, <2>1, <2>2, <2>3 DEF Separate
  <2>4. CASE i # j
    BY <1>6, <2>1, <2>2, <2>4
  <2> QED BY <2>3, <2>4
<1>10. Ids(list) \subseteq Ids(F) \cup {gp}
  <2> SUFFICES ASSUME NEW x \in ToSet(list) PROVE x.id \in Ids(F) \cup {gp}
    BY DEF Ids
  <2>1. PICK i \in 1 .. n : x \in ToSet(t[i])
    BY <1>7
  <2>2. x.id = F[i].id \/ x.id = gp
    BY <1>2, <2>1
  <2> QED BY <1>0, <2>2 DEF Ids
<1>11. ASSUME NEW k \in ToSet(F), k.uproc # p \/ ~Meets(ask[p], k) PROVE k \in ToSet(list)
  <2>1. PICK i \in 1 .. n : F[i] = k
    BY <1>0
  <2>2. ToSet(t[i]) = {k}
    BY <1>2, <1>11, <2>1
  <2> QED BY <1>7, <2>2
<1>12. \A x \in ToSet(list) : \E k \in ToSet(F) : x.uproc = k.uproc
  BY <1>0, <1>2, <1>7
<1>13. ASSUME NEW b \in Nat, NEW q \in Locker
       PROVE  (\E x \in ToSet(list) : x.uproc = q /\ In(b, x))
                 <=> (\E k \in ToSet(F) : k.uproc = q /\ In(b, k)) /\ ~(q = p /\ In(b, ask[p]))
  <2>1. ASSUME NEW x \in ToSet(list), x.uproc = q, In(b, x)
        PROVE  (\E k \in ToSet(F) : k.uproc = q /\ In(b, k)) /\ ~(q = p /\ In(b, ask[p]))
    <3>1. PICK i \in 1 .. n : x \in ToSet(t[i])
      BY <1>7
    <3>2. F[i].uproc = q /\ In(b, F[i]) /\ ~(F[i].uproc = p /\ In(b, ask[p]))
      BY <1>2, <2>1, <3>1
    <3> QED BY <1>0, <3>2
  <2>2. ASSUME NEW k \in ToSet(F), k.uproc = q, In(b, k), ~(q = p /\ In(b, ask[p]))
        PROVE  \E x \in ToSet(list) : x.uproc = q /\ In(b, x)
    <3>1. PICK i \in 1 .. n : F[i] = k
      BY <1>0
    <3>2. PICK x \in ToSet(t[i]) : In(b, x)
      BY <1>2, <2>2, <3>1
    <3>3. x.uproc = q
      BY <1>2, <2>2, <3>1, <3>2
    <3>4. x \in ToSet(list)
      BY <1>7, <3>2
    <3> QED BY <3>2, <3>3, <3>4
  <2> QED BY <2>1, <2>2
<1> QED BY <1>7, <1>8, <1>9, <1>10, <1>11, <1>12, <1>13 DEF ListOk, FreedAs

-----------------------------------------------------------------------------
(* Owners and waits *)

\* The owner of an entry is that of its region, which is in one list.
LEMMA OwnerIs ==
    ASSUME NEW f, 3 \in Entry, \A e \in Entry \ {3} : f[e] = <<>>, ListOk(f[3]), NEW k \in ToSet(f[3])
    PROVE  (CHOOSE r \in UNION { ToSet(f[e]) : e \in Entry } : r.id = k.id).uproc = k.uproc
<1>1. \A e \in Entry \ {3} : ToSet(f[e]) = {}
  BY DEF ToSet
<1>2. \A r : r \in UNION { ToSet(f[e]) : e \in Entry } <=> r \in ToSet(f[3])
  BY <1>1
<1>3. \A r \in ToSet(f[3]) : r.id = k.id => r = k
  BY DEF ListOk, Separate
<1> DEFINE r == CHOOSE x \in UNION { ToSet(f[e]) : e \in Entry } : x.id = k.id
<1>4. r \in UNION { ToSet(f[e]) : e \in Entry } /\ r.id = k.id
  BY <1>2
<1> HIDE DEF r
<1>5. r = k
  BY <1>2, <1>3, <1>4
<1> QED BY <1>5 DEF r

\* The obstacle is a region of another process that meets what is asked.
LEMMA ObstacleIs ==
    ASSUME NEW p \in Locker, ListOk(List(p)), InTheWay(p)
    PROVE  Obstacle(p) \in ToSet(List(p)) /\ Obstacle(p).uproc # p /\ Meets(ask[p], Obstacle(p))
<1>1. Litigious(p) \in SUBSET Nat /\ Litigious(p) # {}
  <2>1. DOMAIN List(p) = 1 .. Len(List(p)) /\ Len(List(p)) \in Nat
    BY ListFacts
  <2> QED BY <2>1 DEF Litigious, InTheWay
<1>2. Min(Litigious(p)) \in Litigious(p)
  BY <1>1, MinIsLeast
<1> QED BY <1>2 DEF Litigious, Obstacle, ToSet

\* The regions that sleepers wait for have owners.
LEMMA WaitsFor ==
    ASSUME RegionInv, NEW p \in Locker, u_sema[p] # NULL
    PROVE  Owner(u_sema[p]) \in Locker
<1>1. PICK k \in ToSet(FileList) : k.id = u_sema[p]
  BY DEF RegionInv, Callers, CallOf, Asleep
<1>2. 3 \in Entry /\ ListOk(i_lockf[3]) /\ \A e \in Entry \ {3} : i_lockf[e] = <<>>
  BY Constants DEF RegionInv, FileRegions, FileList
<1>3. Owner(k.id) = k.uproc
  BY <1>1, <1>2, OwnerIs DEF Owner, FileList
<1>4. k.uproc \in Locker
  BY <1>1, <1>2, ListFacts DEF FileList
<1> QED BY <1>1, <1>3, <1>4

Follows(q) == IF q = NULL \/ u_sema[q] = NULL THEN NULL ELSE Owner(u_sema[q])

\* Chain goes from each process to the owner of the region that it sleeps for.
LEMMA ChainIs ==
    ASSUME RegionInv, NEW p \in Locker
    PROVE  /\ Chain(p) \in [0 .. Cardinality(Locker) -> Locker \cup {NULL}] /\ Chain(p)[0] = p
           /\ Cardinality(Locker) \in Nat /\ IsFiniteSet(Locker)
           /\ \A i \in 1 .. Cardinality(Locker) : Chain(p)[i] = Follows(Chain(p)[i - 1])
<1> DEFINE n == Cardinality(Locker)
           S == Locker \cup {NULL}
           Def(h) == [i \in 0 .. n |-> IF i = 0 THEN p
                                       ELSE LET q == h[i - 1] IN
                                            IF q = NULL \/ u_sema[q] = NULL THEN NULL ELSE Owner(u_sema[q])]
           M == CHOOSE h : h = Def(h)
           step == [i \in 1 .. n |-> [q \in S |-> Follows(q)]]
<1>0. n \in Nat /\ IsFiniteSet(Locker)
  <2>1. IsFiniteSet(Locker)
    BY Constants, FS_Subset
  <2> QED BY <2>1, FS_CardinalityType
<1>1. \A q \in S : Follows(q) \in S
  BY WaitsFor DEF Follows
<1>2. PICK f : f \in [0 .. n -> S] /\ f[0] = p /\ \A i \in 1 .. n : f[i] = step[i][f[i - 1]]
  <2>1. n \in Nat /\ p \in S /\ step \in [1 .. n -> [S -> S]]
    BY <1>0, <1>1
  <2> HIDE DEF step, n, S
  <2>2. \E f : Recursive(f, S, n, p, step)
    BY <2>1, Recursion
  <2> QED BY <2>2 DEF Recursive
<1>3. \A i \in 1 .. n : f[i - 1] \in S /\ f[i] = Follows(f[i - 1])
  <2> SUFFICES ASSUME NEW i \in 1 .. n PROVE f[i - 1] \in S /\ f[i] = Follows(f[i - 1])
    OBVIOUS
  <2>1. f[i - 1] \in S
    BY <1>0, <1>2
  <2>2. step[i][f[i - 1]] = Follows(f[i - 1])
    <3> HIDE DEF S, n
    <3> QED BY <2>1
  <2> QED BY <2>1, <2>2, <1>2
<1>4. f = Def(f)
  <2>1. \A i \in 0 .. n : f[i] = IF i = 0 THEN p ELSE Follows(f[i - 1])
    <3>1. \A i \in 0 .. n : i = 0 \/ i \in 1 .. n
      BY <1>0
    <3> HIDE DEF n
    <3> QED BY <3>1, <1>2, <1>3
  <2>2. \A i \in 0 .. n : f[i] = Def(f)[i]
    <3> HIDE DEF n
    <3> QED BY <2>1 DEF Follows
  <2>3. f = [i \in 0 .. n |-> f[i]]
    <3>1. f \in [0 .. n -> S]
      BY <1>2
    <3> HIDE DEF n, S
    <3> QED BY <3>1
  <2>4. Def(f) = [i \in 0 .. n |-> Def(f)[i]]
    <3> HIDE DEF n
    <3> QED OBVIOUS
  <2> HIDE DEF Def, n
  <2> QED BY <2>2, <2>3, <2>4
<1>5. M = Def(M)
  <2> HIDE DEF Def
  <2> QED BY <1>4
<1>6. Chain(p) = M
  BY DEF Chain
<1> HIDE DEF M
<1>7. /\ M = [i \in 0 .. n |-> M[i]]
      /\ \A i \in 0 .. n : M[i] = IF i = 0 THEN p ELSE Follows(M[i - 1])
  <2> HIDE DEF n
  <2>1. \A i \in 0 .. n : M[i] = Def(M)[i]
    BY <1>5
  <2>2. Def(M) = [i \in 0 .. n |-> Def(M)[i]]
    OBVIOUS
  <2>3. \A i \in 0 .. n : Def(M)[i] = IF i = 0 THEN p ELSE Follows(M[i - 1])
    BY DEF Follows
  <2>4. M = [i \in 0 .. n |-> M[i]]
    <3> HIDE DEF Def
    <3> QED BY <1>5, <2>2
  <2> HIDE DEF Def
  <2> QED BY <2>1, <2>3, <2>4
<1>8. M[0] = p /\ \A i \in 1 .. n : M[i] = Follows(M[i - 1])
  <2>1. 0 \in 0 .. n /\ \A i \in 1 .. n : i \in 0 .. n /\ i # 0
    BY <1>0
  <2> HIDE DEF n
  <2> QED BY <1>7, <2>1
<1> DEFINE Wrong == { i \in 0 .. n : M[i] \notin S }
<1>9. Wrong = {}
  <2> SUFFICES ASSUME Wrong # {} PROVE FALSE
    OBVIOUS
  <2>1. Wrong \in SUBSET Nat
    OBVIOUS
  <2>2. PICK m \in Wrong : \A k \in Wrong : m <= k
    <3> HIDE DEF Wrong
    <3> QED BY <2>1, Least
  <2>3. m \in 0 .. n /\ M[m] \notin S
    OBVIOUS
  <2>4. m # 0
    BY <1>8, <2>3
  <2>5. m \in 1 .. n /\ m - 1 \in 0 .. n /\ ~(m <= m - 1)
    BY <2>3, <2>4, <1>0
  <2>6. m - 1 \notin Wrong
    <3> HIDE DEF Wrong
    <3> QED BY <2>2, <2>5
  <2>7. M[m - 1] \in S
    BY <2>5, <2>6
  <2>8. M[m] = Follows(M[m - 1])
    BY <1>8, <2>5
  <2> HIDE DEF S
  <2> QED BY <1>1, <2>3, <2>7, <2>8
<1>10. M \in [0 .. n -> S]
  <2>1. \A i \in 0 .. n : M[i] \in S
    <3> HIDE DEF S
    <3> QED BY <1>9
  <2> HIDE DEF n, S
  <2> QED BY <1>7, <2>1
<1> QED BY <1>0, <1>6, <1>8, <1>10

\* A sleeper is never in a chain that begins at the owner of what it sleeps for.
LEMMA CircularIs ==
    ASSUME RegionInv
    PROVE  NoCircularWait
<1> SUFFICES ASSUME NEW p \in Locker, u_sema[p] # NULL, p \in Range(Chain(Owner(u_sema[p])))
             PROVE  FALSE
  BY DEF NoCircularWait
<1> DEFINE n == Cardinality(Locker)
<1>1. PICK o \in Locker : o = Owner(u_sema[p])
  BY WaitsFor
<1>2. PICK c : c = Chain(o)
  OBVIOUS
<1>3. /\ c \in [0 .. n -> Locker \cup {NULL}] /\ c[0] = o
      /\ n \in Nat /\ \A i \in 1 .. n : c[i] = Follows(c[i - 1])
  BY <1>2, ChainIs
<1>4. PICK last \in 0 .. n : c[last] = p
  <2>1. DOMAIN c = 0 .. n
    BY <1>3
  <2> HIDE DEF n
  <2> QED BY <1>1, <1>2, <2>1 DEF Range
<1>n. NULL \notin Locker
  BY Constants
<1> HIDE DEF n
\* NULL is followed by NULL only.
<1>5. ASSUME NEW m \in 0 .. last, c[m] = NULL PROVE FALSE
  <2> DEFINE After == { i \in m .. last : c[i] # NULL }
  <2>1. last \in After
    BY <1>3, <1>4, <1>n
  <2>2. After \in SUBSET Nat
    BY <1>3
  <2>3. PICK i \in After : \A k \in After : i <= k
    <3> HIDE DEF After
    <3> QED BY <2>1, <2>2, Least
  <2>4. i \in m .. last /\ c[i] # NULL
    OBVIOUS
  <2>5. i # m
    BY <1>5, <2>4
  <2>6. i - 1 \in m .. last /\ ~(i <= i - 1) /\ i \in 1 .. n
    BY <2>4, <2>5, <1>3
  <2>7. i - 1 \notin After
    <3> HIDE DEF After
    <3> QED BY <2>3, <2>6
  <2>8. c[i - 1] = NULL
    BY <2>6, <2>7
  <2> QED BY <1>3, <2>4, <2>6, <2>8 DEF Follows
<1> DEFINE group == { c[i] : i \in 0 .. last }
<1>6. group \in SUBSET Locker /\ group # {}
  <2>1. \A i \in 0 .. last : i \in 0 .. n
    BY <1>3, <1>4
  <2>2. 0 \in 0 .. last
    BY <1>3, <1>4
  <2> QED BY <1>3, <1>5, <2>1, <2>2
<1>7. ASSUME NEW i \in 0 .. last PROVE u_sema[c[i]] # NULL /\ Owner(u_sema[c[i]]) \in group
  <2>1. CASE i = last
    <3>1. 0 \in 0 .. last
      BY <1>3, <1>4
    <3> QED BY <2>1, <1>1, <1>3, <1>4, <3>1
  <2>2. CASE i # last
    <3>1. i + 1 \in 0 .. last /\ i + 1 \in 1 .. n /\ (i + 1) - 1 = i
      BY <2>2, <1>3, <1>4
    <3>2. c[i + 1] = Follows(c[i])
      BY <1>3, <3>1
    <3>3. c[i + 1] # NULL
      BY <1>5, <3>1
    <3> QED BY <3>1, <3>2, <3>3 DEF Follows
  <2> QED BY <2>1, <2>2
<1>8. \A q \in group : u_sema[q] # NULL /\ Owner(u_sema[q]) \in group
  BY <1>7
<1> HIDE DEF group
<1> QED BY <1>6, <1>8 DEF RegionInv, Acyclic

\* A process that is in no chain from the owner of its obstacle closes no circle.
LEMMA NewWait ==
    ASSUME RegionInv, NEW p \in Locker, u_sema[p] = NULL, NEW o \in Locker, p \notin Range(Chain(o)),
           NEW waits, \A q \in Locker \ {p} : waits[q] = u_sema[q],
           waits[p] # NULL, Owner(waits[p]) = o
    PROVE  \A group \in SUBSET Locker :
              group # {} /\ (\A q \in group : waits[q] # NULL) => \E q \in group : Owner(waits[q]) \notin group
<1> SUFFICES ASSUME NEW group \in SUBSET Locker, group # {},
                    \A q \in group : waits[q] # NULL /\ Owner(waits[q]) \in group
             PROVE  FALSE
  OBVIOUS
<1> DEFINE n == Cardinality(Locker)
<1>2. PICK c : c = Chain(o)
  OBVIOUS
<1>3. /\ c \in [0 .. n -> Locker \cup {NULL}] /\ c[0] = o
      /\ n \in Nat /\ IsFiniteSet(Locker) /\ \A i \in 1 .. n : c[i] = Follows(c[i - 1])
  BY <1>2, ChainIs
<1>4. \A i \in 0 .. n : c[i] # p
  <2>1. DOMAIN c = 0 .. n
    BY <1>3
  <2> HIDE DEF n
  <2> QED BY <1>2, <2>1 DEF Range
<1>n. NULL \notin Locker
  BY Constants
<1>p. n = Cardinality(Locker)
  OBVIOUS
<1> HIDE DEF n
\* Without the process the group would have been a circle before.
<1>5. p \in group
  BY DEF RegionInv, Acyclic
<1> DEFINE Outside == { i \in 0 .. n : c[i] \notin group }
<1>6. Outside = {}
  <2> SUFFICES ASSUME Outside # {} PROVE FALSE
    OBVIOUS
  <2>1. Outside \in SUBSET Nat
    OBVIOUS
  <2>2. PICK m \in Outside : \A k \in Outside : m <= k
    <3> HIDE DEF Outside
    <3> QED BY <2>1, Least
  <2>3. m \in 0 .. n /\ c[m] \notin group
    OBVIOUS
  <2>4. m # 0
    BY <1>3, <1>5, <2>3
  <2>5. m \in 1 .. n /\ m - 1 \in 0 .. n /\ ~(m <= m - 1)
    BY <2>3, <2>4, <1>3
  <2>6. m - 1 \notin Outside
    <3> HIDE DEF Outside
    <3> QED BY <2>2, <2>5
  <2>7. c[m - 1] \in group /\ c[m - 1] # p
    BY <2>5, <2>6, <1>4
  <2>8. u_sema[c[m - 1]] = waits[c[m - 1]] /\ c[m - 1] # NULL
    BY <2>7, <1>n
  <2>9. c[m] = Owner(waits[c[m - 1]])
    BY <1>3, <2>5, <2>7, <2>8 DEF Follows
  <2> QED BY <2>3, <2>7, <2>9
<1>7. c \in [0 .. n -> Locker]
  <2>1. \A i \in 0 .. n : c[i] \in Locker
    BY <1>6
  <2> QED BY <1>3, <2>1
<1>8. PICK a \in 0 .. n, b \in 0 .. n : a # b /\ c[a] = c[b]
  <2>1. IsFiniteSet(0 .. n) /\ Cardinality(0 .. n) = n + 1
    BY <1>3, FS_Interval
  <2>2. Cardinality(Locker) < Cardinality(0 .. n)
    BY <1>3, <1>p, <2>1
  <2> QED BY <1>3, <1>7, <2>1, <2>2, FS_PigeonHole
<1>9. PICK i \in 0 .. n, j \in 0 .. n : i < j /\ c[i] = c[j]
  <2>1. a < b \/ b < a
    BY <1>8, <1>3
  <2> QED BY <1>8, <2>1
\* The circle that the chain makes is one of old sleepers.
<1> DEFINE circle == { c[k] : k \in i .. j - 1 }
<1>10. circle \in SUBSET Locker /\ circle # {}
  <2>1. \A k \in i .. j - 1 : k \in 0 .. n
    BY <1>3, <1>9
  <2>2. i \in i .. j - 1
    BY <1>3, <1>9
  <2> QED BY <1>7, <2>1, <2>2
<1>11. ASSUME NEW k \in i .. j - 1 PROVE u_sema[c[k]] # NULL /\ Owner(u_sema[c[k]]) \in circle
  <2>1. k \in 0 .. n /\ k + 1 \in 1 .. n /\ (k + 1) - 1 = k /\ k + 1 \in 0 .. n
    BY <1>3, <1>9
  <2>2. c[k + 1] = Follows(c[k]) /\ c[k + 1] \in Locker
    BY <1>3, <1>7, <2>1
  <2>3. u_sema[c[k]] # NULL /\ Owner(u_sema[c[k]]) = c[k + 1]
    BY <2>2, <1>n DEF Follows
  <2>4. c[k + 1] \in circle
    <3>1. CASE k + 1 = j
      <4>1. i \in i .. j - 1
        BY <1>3, <1>9
      <4> QED BY <3>1, <4>1, <1>9
    <3>2. CASE k + 1 # j
      <4>1. k + 1 \in i .. j - 1
        BY <3>2, <1>3, <1>9
      <4> QED BY <4>1
    <3> QED BY <3>1, <3>2
  <2> QED BY <2>3, <2>4
<1>12. \A q \in circle : u_sema[q] # NULL /\ Owner(u_sema[q]) \in circle
  BY <1>11
<1> HIDE DEF circle
<1> QED BY <1>10, <1>12 DEF RegionInv, Acyclic

-----------------------------------------------------------------------------
(* The regions, step by step *)

\* A step of a user, the swapper or an umount leaves the lockers where they are.
LEMMA InodeOthers ==
    ASSUME Types, NEW p \in Proc, UseInode(p)
    PROVE  Others(p)
<1> SUFFICES ASSUME NEW q \in Proc \ {p} PROVE proc'[q] = proc[q]
  BY DEF Others
<1>0. proc \in [Proc -> ProcType]
  BY SMTT(40) DEF Types
<1>1. CASE iget(p)
  BY <1>0, <1>1 DEF iget, Get, Hit, FoundOther, Found, FoundMount, Reuse, TableFull, ReadInode, ReadFails,
                    SleepLock, Goto, Back
<1>2. CASE Use(p)
  BY <1>0, <1>2 DEF Use, Modify, Create, Erase, Open, Again, Close, SleepLock, Goto, Back
<1>3. CASE iput(p)
  BY <1>0, <1>3 DEF iput, PutWrite, PutFree, PutFreed, PutEnd, Goto
<1>4. CASE Update(p)
  BY <1>0, <1>4, SMTT(40) DEF Update, UpdateBegin, Visit, VisitUnused, VisitUsed, UpdateEnd
<1>5. CASE umount(p)
  BY <1>0, <1>5 DEF umount, Umount, UmountBusy, UmountTest, Undir, Unlink, Undev, iumerase, SleepLock, Goto
<1> QED BY <1>1, <1>2, <1>3, <1>4, <1>5 DEF UseInode

\* What a process asks is a call, which Nothing is not.
LEMMA CallIs ==
    ASSUME RegionInv, NEW p \in Locker
    PROVE  /\ Nothing \notin CallType /\ ask[p] \in calls \cup {Nothing}
           /\ ask[p] # Nothing => ask[p] \in CallType
           /\ proc[p].pc \in {"lockf", "waiting", "transfer"} => ask[p] \in CallType
<1>1. Nothing \notin CallType
  BY DEF Nothing, CallType
<1> QED BY <1>1 DEF RegionInv, RegionTypes, Callers, CallOf

\* A step of a process that leaves the lists, the table and the marks alone.
LEMMA QuietKeeps ==
    ASSUME RegionInv, NEW p \in Locker, Others(p), proc'[p].pc # "absent",
           UNCHANGED <<i_lockf, lffreelist, k_free, calls>>,
           NEW c \in calls \cup {Nothing}, ask' = [ask EXCEPT ![p] = c],
           u_sema' \in [Locker -> LockEntry \cup {NULL}], \A q \in Locker \ {p} : u_sema'[q] = u_sema[q],
           CallOf(p)', Acyclic'
    PROVE  RegionInv'
<1>0. p \in Proc /\ Locker \subseteq Proc /\ FileList' = FileList
  BY Constants DEF FileList
<1>1. RegionTypes'
  BY DEF RegionInv, RegionTypes
<1>2. FileRegions'
  <2>1. ASSUME NEW k \in ToSet(FileList) PROVE proc'[k.uproc].pc # "absent"
    <3>1. k.uproc \in Locker
      BY ListFacts DEF RegionInv, FileRegions
    <3>2. proc[k.uproc].pc # "absent"
      BY DEF RegionInv, FileRegions
    <3> QED BY <1>0, <3>1, <3>2 DEF Others
  <2>2. Ids(FileList)' = Ids(FileList)
    BY <1>0 DEF Ids
  <2> QED BY <1>0, <2>1, <2>2 DEF RegionInv, FileRegions
<1>3. ASSUME NEW q \in Locker, q # p PROVE CallOf(q)'
  <2>1. proc'[q] = proc[q] /\ u_sema'[q] = u_sema[q] /\ ask'[q] = ask[q] /\ CallOf(q)
    BY <1>0, <1>3 DEF Others, RegionInv, RegionTypes, Callers
  <2> QED BY <1>0, <2>1 DEF CallOf, Asleep
<1> QED BY <1>1, <1>2, <1>3 DEF RegionInv, Callers

\* The same, and nobody goes to sleep.
LEMMA SleepersStay ==
    ASSUME RegionInv, UNCHANGED <<i_lockf, u_sema>>
    PROVE  Acyclic' /\ u_sema' \in [Locker -> LockEntry \cup {NULL}]
<1>1. \A k : Owner(k)' = Owner(k)
  BY DEF Owner
<1> QED BY <1>1 DEF RegionInv, RegionTypes, Acyclic

\* A step that is not of a locker.
LEMMA ForeignKeeps ==
    ASSUME RegionInv, NEW p \in Proc \ Locker, Others(p), UNCHANGED lockfVars
    PROVE  RegionInv'
<1>0. /\ UNCHANGED <<i_lockf, lffreelist, k_free, u_sema, ask, calls>> /\ FileList' = FileList
      /\ \A q \in Locker : proc'[q] = proc[q]
  BY Constants DEF lockfVars, FileList, Others
<1>1. RegionTypes'
  BY <1>0 DEF RegionInv, RegionTypes
<1>2. FileRegions'
  <2>1. \A k \in ToSet(FileList) : k.uproc \in Locker
    BY ListFacts DEF RegionInv, FileRegions
  <2>2. Ids(FileList)' = Ids(FileList)
    BY <1>0 DEF Ids
  <2> QED BY <1>0, <2>1, <2>2 DEF RegionInv, FileRegions
<1>3. ASSUME NEW q \in Locker PROVE CallOf(q)'
  <2>1. CallOf(q)
    BY DEF RegionInv, Callers
  <2> QED BY <1>0, <2>1 DEF CallOf, Asleep
<1>4. Acyclic'
  BY <1>0, SleepersStay
<1> QED BY <1>1, <1>2, <1>3, <1>4 DEF RegionInv, Callers

\* A process that is not waiting sleeps for nothing.
LEMMA NotWaiting ==
    ASSUME RegionInv, NEW p \in Locker, proc[p].pc # "waiting"
    PROVE  u_sema[p] = NULL
BY DEF RegionInv, Callers, CallOf, Asleep

\* A step that leaves the regions and the sleepers alone.
LEMMA QuietStep ==
    ASSUME RegionInv, NEW p \in Locker, Others(p),
           UNCHANGED <<i_lockf, lffreelist, k_free, u_sema, calls>>, u_sema[p] = NULL,
           NEW c \in calls \cup {Nothing}, ask' = [ask EXCEPT ![p] = c],
           proc'[p].pc \in {"user", "call", "lockf", "transfer"},
           c # Nothing <=> proc'[p].pc \in {"lockf", "transfer"},
           proc'[p].pc = "transfer" => c.mode \in {"rdwr", "trdwr"}
    PROVE  RegionInv'
<1>1. ask'[p] = c
  BY DEF RegionInv, RegionTypes
<1>2. CallOf(p)'
  BY <1>1 DEF CallOf
<1>3. Acyclic' /\ u_sema' \in [Locker -> LockEntry \cup {NULL}]
  BY SleepersStay
<1> QED BY <1>2, <1>3, QuietKeeps

\* A call that ends, and a process that waits for the inode or is back from its sleep.
LEMMA CallsKeep ==
    ASSUME InodeInv, RegionInv, NEW p \in Locker,
           Call(p) \/ Refuse(p) \/ Awake(p) \/ TestEnds(p) \/ TransferEnds(p)
    PROVE  RegionInv'
<1>1. Takes(p) \/ Frees(p)
  <2>1. CASE Call(p) \/ Awake(p)
    BY <2>1 DEF Call, Awake, Takes, At, SleepLock
  <2>2. CASE Refuse(p)
    BY <2>2 DEF Refuse, Return, Asked, Locked, At, Leaves, Frees
  <2>3. CASE TestEnds(p)
    BY <2>3 DEF TestEnds, Return, Asked, Locked, At, Leaves, Frees
  <2>4. CASE TransferEnds(p)
    BY <2>4 DEF TransferEnds, Return, Locked, At, Leaves, Frees
  <2> QED BY <2>1, <2>2, <2>3, <2>4, SMTT(40)
<1>2. p \in Proc /\ Others(p) /\ Types /\ ask \in [Locker -> calls \cup {Nothing}] /\ CallOf(p)
  BY <1>1, RegionProc DEF InodeInv, RegionInv, RegionTypes, Callers
<1>3. CASE Call(p)
  <2>1. proc[p].pc = "user" /\ proc'[p].pc = "call" /\ UNCHANGED <<i_lockf, lffreelist, k_free, u_sema, calls, ask>>
    BY <1>2, <1>3 DEF Call, At, SleepLock, lockfVars, Types
  <2>2. ask[p] = Nothing /\ ask' = [ask EXCEPT ![p] = Nothing]
    BY <1>2, <2>1 DEF CallOf
  <2> QED BY <1>2, <2>1, <2>2, NotWaiting, QuietStep
<1>4. CASE Awake(p)
  <2>1. proc[p].pc = "waiting" /\ u_sema[p] = NULL /\ proc'[p].pc = "lockf"
        /\ UNCHANGED <<i_lockf, lffreelist, k_free, u_sema, calls, ask>>
    BY <1>2, <1>4 DEF Awake, At, SleepLock, Types
  <2>2. ask[p] # Nothing /\ ask[p] \in calls \cup {Nothing} /\ ask' = [ask EXCEPT ![p] = ask[p]]
    BY <1>2, <2>1 DEF CallOf
  <2> QED BY <1>2, <2>1, <2>2, QuietStep
<1>5. CASE Refuse(p) \/ TestEnds(p) \/ TransferEnds(p)
  <2>1. proc[p].pc \in {"lockf", "transfer"} /\ Return(p) /\ UNCHANGED <<i_lockf, lffreelist, k_free, u_sema, calls>>
    <3>1. CASE Refuse(p)
      BY <3>1 DEF Refuse, Asked, Locked, At
    <3>2. CASE TestEnds(p)
      BY <3>2 DEF TestEnds, Asked, Locked, At
    <3>3. CASE TransferEnds(p)
      BY <3>3 DEF TransferEnds, Locked, At
    <3> QED BY <1>5, <3>1, <3>2, <3>3
  <2>2. proc'[p].pc = "user" /\ ask' = [ask EXCEPT ![p] = Nothing]
    BY <1>2, <2>1 DEF Return, Goto, Types
  <2> QED BY <1>2, <2>1, <2>2, NotWaiting, QuietStep
<1> QED BY <1>3, <1>4, <1>5

\* A call that goes on.
LEMMA AsksKeep ==
    ASSUME InodeInv, RegionInv, NEW p \in Locker, Transfer(p) \/ \E call \in calls : Ask(p, call)
    PROVE  RegionInv'
<1>1. Takes(p) \/ Stays(p)
  BY DEF Ask, Transfer, Asked, Leaves, Takes, Stays, At, Locked, SleepLock, Keeps
<1>2. /\ p \in Proc /\ Others(p) /\ Types /\ ask \in [Locker -> calls \cup {Nothing}] /\ CallOf(p)
      /\ calls \subseteq CallType
  BY <1>1, RegionProc DEF InodeInv, RegionInv, RegionTypes, Callers
<1>3. ASSUME NEW call \in calls, Ask(p, call) PROVE RegionInv'
  <2>1. proc[p].pc \in {"user", "call"} /\ proc'[p].pc = "lockf" /\ ask' = [ask EXCEPT ![p] = call]
        /\ UNCHANGED <<i_lockf, lffreelist, k_free, u_sema, calls>>
    <3>1. proc[p].pc \in {"user", "call"} /\ UNCHANGED <<i_lockf, lffreelist, k_free, u_sema, calls>>
      BY <1>3 DEF Ask, At, Locked
    <3>2. PICK e \in {proc[p].e} : Goto(p, "lockf") \/ proc' = [proc EXCEPT ![p].pc = "lockf", ![p].e = e]
      BY <1>3 DEF Ask, SleepLock
    <3>3. proc'[p].pc = "lockf"
      BY <1>2, <3>2 DEF Goto, Types, ProcType
    <3>4. ask' = [ask EXCEPT ![p] = call]
      BY <1>3 DEF Ask
    <3> QED BY <3>1, <3>3, <3>4
  <2>2. call # Nothing
    BY <1>2, CallIs
  <2> QED BY <1>2, <2>1, <2>2, NotWaiting, QuietStep
<1>4. CASE Transfer(p)
  <2>1. proc[p].pc = "lockf" /\ ask[p].mode \in {"rdwr", "trdwr"} /\ proc'[p].pc = "transfer"
        /\ UNCHANGED <<i_lockf, lffreelist, k_free, u_sema, calls, ask>>
    BY <1>2, <1>4 DEF Transfer, Asked, Locked, At, Goto, Types, lockfVars
  <2>2. ask[p] # Nothing /\ ask[p] \in calls \cup {Nothing} /\ ask' = [ask EXCEPT ![p] = ask[p]]
    BY <1>2, <2>1 DEF CallOf
  <2> QED BY <1>2, <2>1, <2>2, NotWaiting, QuietStep
<1> QED BY <1>3, <1>4

\* A process waits for a region; no circle closes.
LEMMA WaitsKeep ==
    ASSUME InodeInv, RegionInv, NEW p \in Locker, WaitSleeps(p) \/ WaitTurns(p)
    PROVE  RegionInv'
<1>1. Frees(p) \/ Turns(p)
  BY DEF WaitSleeps, WaitTurns, Asked, Leaves, Frees, Turns, At, Locked
<1>2. /\ p \in Proc /\ Others(p) /\ Types /\ ask \in [Locker -> calls \cup {Nothing}] /\ CallOf(p)
      /\ u_sema \in [Locker -> LockEntry \cup {NULL}] /\ proc[p].e = 3
  BY <1>1, RegionProc DEF InodeInv, RegionInv, RegionTypes, Callers
<1>3. proc[p].pc = "lockf" /\ ask[p].mode \in {"lock", "rdwr"} /\ UNCHANGED <<i_lockf, lffreelist, k_free, ask, calls>>
  BY DEF WaitSleeps, WaitTurns, Asked, Locked, At
<1>4. ask[p] # Nothing /\ ask[p] \in calls \cup {Nothing} /\ ask' = [ask EXCEPT ![p] = ask[p]] /\ u_sema[p] = NULL
  BY <1>2, <1>3, NotWaiting DEF CallOf
<1>5. CASE WaitTurns(p)
  <2>1. proc' = proc /\ u_sema' = u_sema
    BY <1>5 DEF WaitTurns
  <2> QED BY <1>2, <1>3, <1>4, <2>1, QuietStep
<1>6. CASE WaitSleeps(p)
  <2>1. List(p) = FileList /\ ListOk(FileList) /\ 3 \in Entry /\ \A e \in Entry \ {3} : i_lockf[e] = <<>>
    BY <1>2, Constants DEF List, FileList, RegionInv, FileRegions
  <2>2. PICK o : o = Obstacle(p)
    OBVIOUS
  <2>3. o \in ToSet(FileList) /\ o.uproc # p /\ Meets(ask[p], o)
    BY <1>6, <2>1, <2>2, ObstacleIs DEF WaitSleeps
  <2>4. /\ o.id \notin k_free /\ p \notin Range(Chain(o.uproc)) /\ u_sema' = [u_sema EXCEPT ![p] = o.id]
        /\ proc'[p].pc = "waiting"
    BY <1>2, <1>6, <2>2 DEF WaitSleeps, lfdeadlock, Goto, Types
  <2>5. o.id \in LockEntry /\ o.uproc \in Locker /\ NULL \notin LockEntry
    BY <2>1, <2>3, ListFacts, LockfAssumption
  <2>6. u_sema'[p] = o.id /\ (\A q \in Locker \ {p} : u_sema'[q] = u_sema[q])
        /\ u_sema' \in [Locker -> LockEntry \cup {NULL}] /\ ask'[p] = ask[p]
    BY <1>2, <1>4, <2>4, <2>5
  <2>7. CallOf(p)'
    <3>1. FileList' = FileList
      BY <1>3 DEF FileList
    <3> QED BY <1>3, <1>4, <2>3, <2>4, <2>6, <3>1 DEF CallOf, Asleep
  <2>8. Acyclic'
    <3>1. Owner(o.id) = o.uproc
      BY <2>1, <2>3, OwnerIs DEF Owner, FileList
    <3>2. \A k : Owner(k)' = Owner(k)
      BY <1>3 DEF Owner
    <3>3. PICK waits : waits = u_sema'
      OBVIOUS
    <3>4. waits[p] # NULL /\ Owner(waits[p]) = o.uproc /\ \A q \in Locker \ {p} : waits[q] = u_sema[q]
      BY <2>5, <2>6, <3>1, <3>3
    <3>5. \A group \in SUBSET Locker :
             group # {} /\ (\A q \in group : waits[q] # NULL) => \E q \in group : Owner(waits[q]) \notin group
      BY <1>4, <2>4, <2>5, <3>4, NewWait
    <3> QED BY <3>2, <3>3, <3>5 DEF Acyclic
  <2> QED BY <1>2, <1>3, <1>4, <2>4, <2>6, <2>7, <2>8, QuietKeeps
<1> QED BY <1>5, <1>6

\* A call that changes the list of the file: whoever sleeps on keeps its region and its owner.
LEMMA RegionsChange ==
    ASSUME InodeInv, RegionInv, NEW p \in Locker, proc[p].pc = "lockf", Owns(p), Return(p), UNCHANGED <<inode, calls>>,
           NEW list, i_lockf' = [i_lockf EXCEPT ![proc[p].e] = list], ListOk(list),
           NEW done \in SUBSET LockEntry, NEW freed \in SUBSET done, EventDone(done, freed),
           \A k \in ToSet(FileList) : k.id \notin done => k \in ToSet(list),
           lffreelist' \subseteq LockEntry, Ids(list) = LockEntry \ lffreelist', k_free' \cap lffreelist' = {},
           \A k \in ToSet(list) : k.uproc = p \/ \E l \in ToSet(FileList) : k.uproc = l.uproc
    PROVE  RegionInv'
<1>1. Frees(p)
  BY DEF Return, Leaves, Frees
<1>2. p \in Proc /\ Others(p) /\ Types /\ 3 \in Entry /\ proc[p].e = 3 /\ \A q \in Locker : q \in Proc
  BY <1>1, RegionProc, Constants DEF InodeInv
<1>3. RegionTypes /\ FileRegions /\ \A q \in Locker : CallOf(q)
  BY DEF RegionInv, Callers
<1>4. proc'[p].pc = "user" /\ ask' = [ask EXCEPT ![p] = Nothing] /\ u_sema[p] = NULL
  BY <1>2, NotWaiting DEF Return, Goto, Types
<1>5. k_free' = (k_free \cup done) \ freed /\ u_sema' = [q \in Locker |-> IF u_sema[q] \in done THEN NULL ELSE u_sema[q]]
  BY DEF EventDone
<1>6. /\ i_lockf' \in [Entry -> Seq(RegionType)] /\ FileList' = list
      /\ \A e \in Entry \ {3} : i_lockf'[e] = <<>>
  <2>1. i_lockf \in [Entry -> Seq(RegionType)] /\ (\A e \in Entry \ {3} : i_lockf[e] = <<>>) /\ list \in Seq(RegionType)
    BY <1>3 DEF RegionTypes, FileRegions, ListOk
  <2> QED BY <1>2, <2>1 DEF FileList
<1>7. RegionTypes'
  <2>1. u_sema' \in [Locker -> LockEntry \cup {NULL}]
    BY <1>3, <1>5 DEF RegionTypes
  <2>2. ask' \in [Locker -> calls \cup {Nothing}]
    BY <1>3, <1>4 DEF RegionTypes
  <2>3. k_free' \subseteq LockEntry
    BY <1>3, <1>5 DEF RegionTypes
  <2> QED BY <1>3, <1>6, <2>1, <2>2, <2>3 DEF RegionTypes
<1>8. FileRegions'
  <2>1. ASSUME NEW k \in ToSet(list) PROVE proc'[k.uproc].pc # "absent"
    <3>1. CASE k.uproc = p
      BY <1>4, <3>1
    <3>2. CASE k.uproc # p
      <4>1. k.uproc \in Locker /\ proc[k.uproc].pc # "absent"
        BY <1>3, <3>2, ListFacts DEF FileRegions
      <4> QED BY <1>2, <3>2, <4>1 DEF Others
    <3> QED BY <3>1, <3>2
  <2>2. Ids(FileList)' = Ids(list)
    BY <1>6 DEF Ids
  <2> QED BY <1>6, <2>1, <2>2 DEF FileRegions
<1>9. ASSUME NEW q \in Locker, u_sema'[q] # NULL
      PROVE  /\ q # p /\ u_sema'[q] = u_sema[q] /\ u_sema[q] \notin k_free'
             /\ \E k \in ToSet(FileList) : /\ k \in ToSet(list) /\ k.id = u_sema[q]
                                           /\ k.uproc # q /\ Meets(ask[q], k)
  <2>1. u_sema'[q] = u_sema[q] /\ u_sema[q] \notin done
    BY <1>5, <1>9
  <2>2. Asleep(q)
    BY <1>3, <1>9, <2>1 DEF CallOf
  <2> QED BY <1>4, <1>5, <1>9, <2>1, <2>2 DEF Asleep
<1>10. ASSUME NEW q \in Locker PROVE CallOf(q)'
  <2>1. CASE q = p
    <3>1. u_sema'[p] = NULL
      BY <1>9
    <3>2. ask'[p] = Nothing
      BY <1>3, <1>4 DEF RegionTypes
    <3> QED BY <1>4, <2>1, <3>1, <3>2 DEF CallOf
  <2>2. CASE q # p
    <3>1. proc'[q] = proc[q] /\ ask'[q] = ask[q] /\ CallOf(q)
      BY <1>2, <1>3, <1>4, <2>2 DEF Others, RegionTypes
    <3>2. u_sema'[q] # NULL => Asleep(q)'
      <4> SUFFICES ASSUME u_sema'[q] # NULL PROVE Asleep(q)'
        OBVIOUS
      <4>1. u_sema[q] = u_sema'[q] /\ Asleep(q)
        BY <1>9, <3>1 DEF CallOf
      <4> QED BY <1>6, <1>9, <3>1, <4>1 DEF Asleep
    <3> QED BY <3>1, <3>2 DEF CallOf
  <2> QED BY <2>1, <2>2
<1>11. ASSUME NEW q \in Locker, u_sema'[q] # NULL PROVE u_sema[q] # NULL /\ Owner(u_sema[q])' = Owner(u_sema[q])
  <2>1. PICK k : k \in ToSet(FileList) /\ k \in ToSet(list) /\ k.id = u_sema[q] /\ u_sema'[q] = u_sema[q]
    BY <1>9, <1>11
  <2>2. ListOk(i_lockf[3]) /\ ToSet(FileList) = ToSet(i_lockf[3]) /\ \A e \in Entry \ {3} : i_lockf[e] = <<>>
    BY <1>3 DEF FileRegions, FileList
  <2>3. Owner(k.id) = k.uproc
    BY <1>2, <2>1, <2>2, OwnerIs DEF Owner
  <2>4. PICK f : f = i_lockf'
    OBVIOUS
  <2>5. f[3] = list /\ \A e \in Entry \ {3} : f[e] = <<>>
    BY <1>6, <2>4 DEF FileList
  <2>6. (CHOOSE r \in UNION { ToSet(f[e]) : e \in Entry } : r.id = k.id).uproc = k.uproc
    BY <1>2, <2>1, <2>5, OwnerIs
  <2>7. Owner(u_sema[q])' = (CHOOSE r \in UNION { ToSet(f[e]) : e \in Entry } : r.id = k.id).uproc
    BY <2>1, <2>4 DEF Owner
  <2> QED BY <1>11, <2>1, <2>3, <2>6, <2>7
<1>12. Acyclic'
  <2> SUFFICES ASSUME NEW group \in SUBSET Locker, group # {}, \A q \in group : u_sema'[q] # NULL
               PROVE  \E q \in group : Owner(u_sema[q])' \notin group
    BY DEF Acyclic
  <2>1. \A q \in group : u_sema[q] # NULL /\ Owner(u_sema[q])' = Owner(u_sema[q])
    BY <1>11
  <2>2. PICK q \in group : Owner(u_sema[q]) \notin group
    BY <2>1 DEF RegionInv, Acyclic
  <2> QED BY <2>1, <2>2
<1> QED BY <1>7, <1>8, <1>10, <1>12 DEF RegionInv, Callers

\* What a process that has the inode for its call finds.
LEMMA FileOf ==
    ASSUME InodeInv, RegionInv, NEW p \in Locker, proc[p].pc = "lockf"
    PROVE  /\ proc[p].e = 3 /\ List(p) = FileList /\ FileList = i_lockf[proc[p].e] /\ ListOk(FileList)
           /\ Ids(FileList) = LockEntry \ lffreelist /\ k_free \cap lffreelist = {}
           /\ lffreelist \subseteq LockEntry /\ k_free \subseteq LockEntry /\ ask[p] \in CallType
<1>1. proc[p].e = 3
  BY Constants DEF InodeInv, Locals, LocalsOf
<1>2. ask[p] \in CallType
  BY CallIs
<1> QED BY <1>1, <1>2 DEF List, FileList, RegionInv, RegionTypes, FileRegions

\* lflock: the new region is in place of those joined to it.
LEMMA LockKeeps ==
    ASSUME InodeInv, RegionInv, NEW p \in Locker, lflock(p)
    PROVE  RegionInv'
<1>1. /\ proc[p].pc = "lockf" /\ Owns(p) /\ ~InTheWay(p) /\ lffreelist # {} /\ Return(p) /\ UNCHANGED <<inode, calls>>
  BY DEF lflock, Asked, Locked, At
<1>2. PICK F, gp, m : F = List(p) /\ gp = Min(lffreelist) /\ m = Joined(p)
  OBVIOUS
<1>3. PICK new, others : /\ new = [id |-> gp, uproc |-> p, begin |-> m.begin, end |-> m.end]
                         /\ others = { k \in ToSet(F) : k.id \notin m.joined }
  OBVIOUS
<1>4. PICK list : list = <<new>> \o Kept(F, others)
  OBVIOUS
<1>5. /\ F = FileList /\ F = i_lockf[proc[p].e] /\ ListOk(F)
      /\ Ids(F) = LockEntry \ lffreelist /\ k_free \cap lffreelist = {}
      /\ lffreelist \subseteq LockEntry /\ k_free \subseteq LockEntry /\ ask[p] \in CallType
  BY <1>1, <1>2, FileOf
<1>6. /\ i_lockf' = [i_lockf EXCEPT ![proc[p].e] = list]
      /\ lffreelist' = (lffreelist \ {gp}) \cup m.joined /\ EventDone(m.joined, m.joined)
  BY <1>2, <1>3, <1>4, <1>5 DEF lflock
<1>7. gp \in lffreelist /\ gp \in LockEntry \ Ids(F)
  <2>1. lffreelist \in SUBSET Nat /\ lffreelist # {}
    BY <1>1, <1>5, LockfAssumption DEF LockEntry
  <2> QED BY <1>2, <1>5, <2>1, MinIsLeast
<1>8. /\ ListOk(list) /\ ToSet(list) = {new} \cup others
      /\ m.joined \subseteq Ids(F) /\ Ids(list) = {gp} \cup (Ids(F) \ m.joined)
  <2>1. p \in Locker /\ Locking(p, F, gp, m, new, others, list)
    BY <1>1, <1>2, <1>3, <1>4, <1>5, <1>7 DEF Locking
  <2>2. LockedAs(p, F, gp, m, new, others, list)
    BY <2>1, LockedList
  <2> QED BY <2>2 DEF LockedAs
<1>9. \A k \in ToSet(FileList) : k.id \notin m.joined => k \in ToSet(list)
  BY <1>3, <1>5, <1>8
<1>10. lffreelist' \subseteq LockEntry /\ Ids(list) = LockEntry \ lffreelist'
  BY <1>5, <1>6, <1>7, <1>8
<1>11. k_free' \cap lffreelist' = {}
  BY <1>5, <1>6 DEF EventDone
<1>12. \A k \in ToSet(list) : k.uproc = p \/ \E l \in ToSet(FileList) : k.uproc = l.uproc
  <2>1. new.uproc = p
    BY <1>3
  <2> QED BY <1>3, <1>5, <1>8, <2>1
<1>13. m.joined \in SUBSET LockEntry
  BY <1>5, <1>8
<1> QED BY <1>1, <1>6, <1>8, <1>9, <1>10, <1>11, <1>12, <1>13, RegionsChange

\* lffree: what is left of the regions.
LEMMA FreeKeeps ==
    ASSUME InodeInv, RegionInv, NEW p \in Locker, lffree(p)
    PROVE  RegionInv'
<1>1. /\ proc[p].pc = "lockf" /\ Owns(p) /\ lffreelist # {} /\ Return(p) /\ UNCHANGED <<inode, calls>>
  BY DEF lffree, Asked, Locked, At
<1>2. PICK F, gp : F = List(p) /\ gp = Min(lffreelist)
  OBVIOUS
<1>3. PICK list, met : /\ list = FlattenSeq([i \in DOMAIN F |-> Rest(p, F[i], gp)])
                       /\ met = { k.id : k \in { j \in ToSet(F) : j.uproc = p /\ Meets(ask[p], j) } }
  OBVIOUS
<1>4. PICK freed : freed = met \ Ids(list)
  OBVIOUS
<1>5. /\ F = FileList /\ F = i_lockf[proc[p].e] /\ ListOk(F)
      /\ Ids(F) = LockEntry \ lffreelist /\ k_free \cap lffreelist = {}
      /\ lffreelist \subseteq LockEntry /\ k_free \subseteq LockEntry /\ ask[p] \in CallType
  BY <1>1, <1>2, FileOf
<1>6. /\ i_lockf' = [i_lockf EXCEPT ![proc[p].e] = list]
      /\ lffreelist' = (lffreelist \cup met) \ Ids(list) /\ EventDone(met, freed)
  BY <1>2, <1>3, <1>4 DEF lffree, Announced
<1>7. gp \in LockEntry \ Ids(F)
  <2>1. lffreelist \in SUBSET Nat /\ lffreelist # {}
    BY <1>1, <1>5, LockfAssumption DEF LockEntry
  <2> QED BY <1>2, <1>5, <2>1, MinIsLeast
<1>8. /\ ListOk(list) /\ Ids(list) \subseteq Ids(F) \cup {gp}
      /\ \A k \in ToSet(F) : k.uproc # p \/ ~Meets(ask[p], k) => k \in ToSet(list)
      /\ \A x \in ToSet(list) : \E k \in ToSet(F) : x.uproc = k.uproc
  <2>1. p \in Locker /\ Freeing(p, F, gp, list)
    BY <1>2, <1>3, <1>5, <1>7 DEF Freeing
  <2>2. FreedAs(p, F, gp, list)
    BY <2>1, FreedList
  <2> QED BY <2>2 DEF FreedAs
<1>9. \A k \in ToSet(FileList) : k.id \notin met => k \in ToSet(list)
  BY <1>3, <1>5, <1>8
<1>10. met \subseteq Ids(F)
  BY <1>3 DEF Ids
<1>11. Ids(F) \ met \subseteq Ids(list)
  BY <1>5, <1>9 DEF Ids
<1>12. lffreelist' \subseteq LockEntry /\ Ids(list) = LockEntry \ lffreelist'
  BY <1>5, <1>6, <1>7, <1>8, <1>10, <1>11
<1>13. k_free' \cap lffreelist' = {}
  BY <1>4, <1>5, <1>6 DEF EventDone
<1>14. met \in SUBSET LockEntry /\ freed \in SUBSET met
  BY <1>4, <1>5, <1>10
<1>15. \A k \in ToSet(list) : k.uproc = p \/ \E l \in ToSet(FileList) : k.uproc = l.uproc
  BY <1>5, <1>8
<1> QED BY <1>1, <1>6, <1>8, <1>9, <1>12, <1>13, <1>14, <1>15, RegionsChange

\* Some regions of a list make a list.
LEMMA SomeRegions ==
    ASSUME NEW F, ListOk(F), NEW gone, NEW list, list = Kept(F, ToSet(F) \ gone)
    PROVE  ListOk(list) /\ ToSet(list) = ToSet(F) \ gone
<1>1. F \in Seq(RegionType) /\ NoRepeat(F) /\ Filled(ToSet(F)) /\ Separate(ToSet(F))
  BY DEF ListOk
<1>2. list \in Seq(RegionType) /\ NoRepeat(list) /\ ToSet(list) = ToSet(F) \ gone
  <2>1. PICK T : T = ToSet(F) \ gone
    OBVIOUS
  <2>2. Kept(F, T) \in Seq(RegionType) /\ ToSet(Kept(F, T)) = ToSet(F) \cap T /\ NoRepeat(Kept(F, T))
    BY <1>1, KeptElements
  <2> QED BY <2>1, <2>2
<1> QED BY <1>1, <1>2 DEF ListOk, Filled, Separate

\* lfclosefree: the regions of the process go.
LEMMA CloseKeepsRegions ==
    ASSUME InodeInv, RegionInv, NEW p \in Locker, lfclosefree(p)
    PROVE  RegionInv'
<1>1. /\ proc[p].pc = "lockf" /\ Owns(p) /\ Return(p) /\ UNCHANGED <<inode, calls>>
  BY DEF lfclosefree, Asked, Locked, At
<1>2. PICK F : F = List(p)
  OBVIOUS
<1>3. PICK mine : mine = { k \in ToSet(F) : k.uproc = p }
  OBVIOUS
<1>4. PICK list, ids : list = Kept(F, ToSet(F) \ mine) /\ ids = { k.id : k \in mine }
  OBVIOUS
<1>5. /\ F = FileList /\ F = i_lockf[proc[p].e] /\ ListOk(F)
      /\ Ids(F) = LockEntry \ lffreelist /\ k_free \cap lffreelist = {}
      /\ lffreelist \subseteq LockEntry /\ k_free \subseteq LockEntry
  BY <1>1, <1>2, FileOf
<1>6. i_lockf' = [i_lockf EXCEPT ![proc[p].e] = list] /\ lffreelist' = lffreelist \cup ids /\ EventDone(ids, ids)
  BY <1>2, <1>3, <1>4, <1>5 DEF lfclosefree
<1>7. ListOk(list) /\ ToSet(list) = ToSet(F) \ mine
  BY <1>4, <1>5, SomeRegions
<1>8. \A k \in ToSet(FileList) : k.id \notin ids => k \in ToSet(list)
  BY <1>4, <1>5, <1>7
<1>9. ids \subseteq Ids(F) /\ Ids(list) = Ids(F) \ ids
  <2>1. \A k, l \in ToSet(F) : k # l => k.id # l.id
    BY <1>5 DEF ListOk, Separate
  <2>2. \A k \in ToSet(F) : k \notin mine => k.id \notin ids
    BY <1>3, <1>4, <2>1
  <2> QED BY <1>3, <1>4, <1>7, <2>2 DEF Ids
<1>10. lffreelist' \subseteq LockEntry /\ Ids(list) = LockEntry \ lffreelist'
  BY <1>5, <1>6, <1>9
<1>11. k_free' \cap lffreelist' = {}
  BY <1>5, <1>6 DEF EventDone
<1>12. ids \in SUBSET LockEntry
  BY <1>5, <1>9
<1>13. \A k \in ToSet(list) : k.uproc = p \/ \E l \in ToSet(FileList) : k.uproc = l.uproc
  BY <1>5, <1>7
<1> QED BY <1>1, <1>6, <1>7, <1>8, <1>10, <1>11, <1>12, <1>13, RegionsChange

-----------------------------------------------------------------------------
(* The invariant of the regions *)

\* It holds in the initial states.
LEMMA RegionStart ==
    ASSUME Init
    PROVE  RegionInv
<1>1. PICK company \in Companies : inodeinit(company.who) /\ lfinit(company.calls)
  BY DEF Init
<1>2. company.calls \subseteq CallType
  BY CompaniesAssumption DEF CallType
<1>3. /\ i_lockf = [e \in Entry |-> <<>>] /\ lffreelist = LockEntry /\ k_free = {}
      /\ u_sema = [p \in Locker |-> NULL] /\ ask = [p \in Locker |-> Nothing] /\ calls = company.calls
  BY <1>1 DEF lfinit
<1>4. RegionTypes
  <2>1. <<>> \in Seq(RegionType)
    OBVIOUS
  <2> QED BY <1>2, <1>3, <2>1 DEF RegionTypes
<1>5. FileRegions
  <2>1. FileList = <<>> /\ 3 \in Entry
    BY <1>3, Constants DEF FileList
  <2>2. ToSet(<<>>) = {} /\ <<>> \in Seq(RegionType) /\ NoRepeat(<<>>)
    BY DEF ToSet, NoRepeat
  <2>3. ListOk(FileList)
    BY <2>1, <2>2 DEF ListOk, Filled, Separate
  <2> QED BY <1>3, <2>1, <2>2, <2>3 DEF FileRegions, Ids
<1>6. Callers
  <2> SUFFICES ASSUME NEW p \in Locker PROVE CallOf(p)
    BY DEF Callers
  <2>1. proc[p].pc \in {"user", "absent"}
    BY <1>1, Constants DEF inodeinit, Idle
  <2> QED BY <1>3, <2>1 DEF CallOf
<1>7. Acyclic
  BY <1>3 DEF Acyclic
<1> QED BY <1>4, <1>5, <1>6, <1>7 DEF RegionInv

\* Every step keeps it.
LEMMA RegionStep ==
    ASSUME InodeInv, RegionInv, [Next]_vars
    PROVE  RegionInv'
<1>1. ASSUME NEW p \in Proc \ Locker, UseInode(p), UNCHANGED lockfVars PROVE RegionInv'
  BY <1>1, InodeOthers, ForeignKeeps DEF InodeInv
<1>2. ASSUME NEW p \in Locker, UseRegion(p) PROVE RegionInv'
  BY <1>2, AsksKeep, CallsKeep, WaitsKeep, LockKeeps, FreeKeeps, CloseKeepsRegions DEF UseRegion
<1>3. CASE UNCHANGED vars
  <2>1. UNCHANGED <<proc, i_lockf, lffreelist, k_free, u_sema, ask, calls>>
    BY <1>3 DEF vars, inodeVars, lockfVars
  <2>2. RegionTypes' /\ FileRegions'
    BY <2>1 DEF RegionInv, RegionTypes, FileRegions, FileList, Ids
  <2>3. Callers'
    BY <2>1 DEF RegionInv, Callers, CallOf, Asleep, FileList
  <2>4. Acyclic'
    BY <2>1, SleepersStay
  <2> QED BY <2>2, <2>3, <2>4 DEF RegionInv
<1> QED BY <1>1, <1>2, <1>3 DEF Next

\* The inductive invariant of the lists of regions with that of the inodes: what is in the lists,
\* where each process is in its call, what sleepers wait for, and that the waits make no circle.
THEOREM RegionsConsistent == Spec => [](InodeInv /\ RegionInv)
<1>1. Init => InodeInv /\ RegionInv
  <2> SUFFICES ASSUME Init PROVE InodeInv /\ RegionInv
    OBVIOUS
  <2>1. PICK company \in Companies : inodeinit(company.who)
    BY DEF Init
  <2>2. company.who \in SUBSET Proc
    BY CompaniesAssumption
  <2> QED BY <2>1, <2>2, InodeStart, RegionStart
<1>2. InodeInv /\ RegionInv /\ [Next]_vars => (InodeInv /\ RegionInv)'
  BY InodeStep, RegionStep
<1> QED BY <1>1, <1>2, PTL DEF Spec

\* lockf.c: no entry of the table is lost or in two lists, no two regions of a file share a byte,
\* and the owner of a region has the file open.
THEOREM RegionsAreExact == Spec => []RegionsExact
<1>1. InodeInv /\ RegionInv => RegionsExact
  <2> SUFFICES ASSUME InodeInv, RegionInv PROVE RegionsExact
    OBVIOUS
  <2>1. /\ ListOk(FileList) /\ Ids(FileList) = LockEntry \ lffreelist /\ k_free \cap lffreelist = {}
        /\ 3 \in Entry /\ (\A e \in Entry \ {3} : i_lockf[e] = <<>>) /\ i_lockf[3] = FileList
        /\ \A k \in ToSet(FileList) : proc[k.uproc].pc # "absent"
    BY Constants DEF RegionInv, FileRegions, FileList
  <2>2. \A e \in Entry \ {3} : Ids(i_lockf[e]) = {} /\ DOMAIN i_lockf[e] = {}
    BY <2>1 DEF Ids, ToSet
  <2>3. Listed = Ids(FileList)
    BY <2>1, <2>2 DEF Listed
  <2>4. \A d, e \in Entry : d # e => Ids(i_lockf[d]) \cap Ids(i_lockf[e]) = {}
    BY <2>1, <2>2
  <2>5. ASSUME NEW i \in DOMAIN FileList, NEW j \in DOMAIN FileList
        PROVE  /\ FileList[i].begin < FileList[i].end /\ proc[FileList[i].uproc].e = 3
               /\ i # j => FileList[i].id # FileList[j].id /\ ~Meets(FileList[i], FileList[j])
    <3>1. /\ DOMAIN FileList = 1 .. Len(FileList) /\ FileList[i] \in ToSet(FileList)
          /\ FileList[i].uproc \in Locker /\ FileList[i].begin < FileList[i].end
          /\ i # j => FileList[i].id # FileList[j].id /\ ~Meets(FileList[i], FileList[j])
      BY <2>1, ListFacts
    <3>2. proc[FileList[i].uproc].e = 3
      BY <2>1, <3>1, Constants DEF InodeInv, Locals, LocalsOf
    <3> QED BY <3>1, <3>2
  <2>6. \A e \in Entry : \A i, j \in DOMAIN i_lockf[e] :
           LET k == i_lockf[e][i] IN
           /\ k.begin < k.end /\ proc[k.uproc].e = e
           /\ i # j => k.id # i_lockf[e][j].id /\ ~Meets(k, i_lockf[e][j])
    BY <2>1, <2>2, <2>5
  <2> QED BY <2>1, <2>3, <2>4, <2>6 DEF RegionsExact
<1> QED BY <1>1, RegionsConsistent, PTL

\* lockf.c: a process sleeps only for a region that is still in its way, and of which its owner gave
\* nothing back since: no unlock, close or lock that should wake it is missed.
THEOREM SleepersConflict == Spec => []SleepsOnConflict
<1>1. InodeInv /\ RegionInv => SleepsOnConflict
  <2> SUFFICES ASSUME InodeInv, RegionInv, NEW p \in Locker, u_sema[p] # NULL
               PROVE  /\ u_sema[p] \notin k_free
                      /\ \E k \in ToSet(List(p)) : k.id = u_sema[p] /\ k.uproc # p /\ Meets(ask[p], k)
    BY DEF SleepsOnConflict
  <2>1. Asleep(p)
    BY DEF RegionInv, Callers, CallOf
  <2>2. proc[p].e = 3
    BY <2>1, Constants DEF Asleep, InodeInv, Locals, LocalsOf
  <2> QED BY <2>1, <2>2 DEF Asleep, List, FileList
<1> QED BY <1>1, RegionsConsistent, PTL

\* lfdeadlock: the waits of any number of processes for regions make no circle.
THEOREM NoCircularWaits == Spec => []NoCircularWait
<1>1. RegionInv => NoCircularWait
  BY CircularIs
<1> QED BY <1>1, RegionsConsistent, PTL

\* The types of the inodes, the locks, the lists and what processes ask; the LRU list has every entry
\* once.
THEOREM TypesCorrect == Spec => []TypeOK
<1>1. InodeInv /\ RegionInv => TypeOK
  <2> SUFFICES ASSUME InodeInv, RegionInv PROVE TypeOK
    OBVIOUS
  <2>1. Types /\ RegionTypes
    BY DEF InodeInv, RegionInv
  <2>2. \A p \in Proc : proc[p].pc \in Label /\ proc[p].e \in Entry \cup {NULL}
    BY <2>1 DEF Types, ProcType
  <2>3. Len(lru) = NINODE /\ IsInjective(lru)
    <3>1. lru \in Seq(Entry) /\ NoRepeat(lru) /\ ToSet(lru) = Entry /\ Len(lru) \in Nat /\ DOMAIN lru = 1 .. Len(lru)
      BY <2>1 DEF Types
    <3>2. IsInjective(lru)
      BY <3>1 DEF NoRepeat, IsInjective
    <3>3. NINODE \in Nat
      BY Constants
    <3>4. lru \in Bijection(1 .. Len(lru), 1 .. NINODE)
      BY <3>1 DEF Bijection, Injection, Surjection, IsInjective, NoRepeat, ToSet, Entry
    <3>5. IsFiniteSet(1 .. Len(lru)) /\ Cardinality(1 .. Len(lru)) = Len(lru) /\ Cardinality(1 .. NINODE) = NINODE
      <4>1. ASSUME NEW n \in Nat PROVE IsFiniteSet(1 .. n) /\ Cardinality(1 .. n) = n
        BY <4>1, FS_Interval
      <4> QED BY <3>1, <3>3, <4>1
    <3>6. Cardinality(1 .. Len(lru)) = Cardinality(1 .. NINODE)
      BY <3>4, <3>5, FS_Bijection DEF ExistsBijection
    <3> QED BY <3>2, <3>5, <3>6
  <2> QED BY <2>1, <2>2, <2>3 DEF TypeOK, Types, RegionTypes, InodeType, SbType, RegionType
<1> QED BY <1>1, RegionsConsistent, PTL

-----------------------------------------------------------------------------
(* The regions that the lists promise *)

Owned(F, q, b) == \E k \in ToSet(F) : k.uproc = q /\ In(b, k)

OwnersOf(F) ==
    [b \in Offset |->
        LET has == { k \in ToSet(F) : k.begin <= b /\ b < k.end }
        IN IF has = {} THEN NULL ELSE (CHOOSE k \in has : TRUE).uproc]

\* The owner of a byte is the one that has it in the list, or nobody.
LEMMA OwnersAre ==
    ASSUME NEW F, ListOk(F), NEW b \in Offset
    PROVE  /\ OwnersOf(F)[b] \in Locker \cup {NULL}
           /\ \A q \in Locker : OwnersOf(F)[b] = q <=> Owned(F, q, b)
<1> DEFINE has == { k \in ToSet(F) : k.begin <= b /\ b < k.end }
<1>0. b \in Nat /\ NULL \notin Locker
  BY Constants, LockfAssumption DEF Offset
<1>1. OwnersOf(F)[b] = IF has = {} THEN NULL ELSE (CHOOSE k \in has : TRUE).uproc
  BY DEF OwnersOf
<1>2. \A k : k \in has <=> k \in ToSet(F) /\ In(b, k)
  BY DEF In
<1> HIDE DEF has
<1>3. CASE has = {}
  BY <1>0, <1>1, <1>2, <1>3 DEF Owned
<1>4. CASE has # {}
  <2>1. PICK k : k \in has /\ OwnersOf(F)[b] = k.uproc
    <3>1. PICK k : k = CHOOSE x \in has : TRUE
      OBVIOUS
    <3>2. k \in has
      BY <1>4, <3>1
    <3> QED BY <1>1, <1>4, <3>1, <3>2
  <2>2. k \in ToSet(F) /\ In(b, k) /\ k.uproc \in Locker
    BY <1>2, <2>1, ListFacts
  <2>3. ASSUME NEW l \in ToSet(F), In(b, l) PROVE l = k
    <3>1. /\ k.begin \in Nat /\ k.end \in Nat /\ k.begin < k.end /\ l.begin \in Nat /\ l.end \in Nat /\ l.begin < l.end
      BY <2>2, ListFacts
    <3>2. Meets(l, k)
      BY <1>0, <2>2, <2>3, <3>1, MeetsIs
    <3> QED BY <2>2, <3>2 DEF ListOk, Separate
  <2> QED BY <2>1, <2>2, <2>3 DEF Owned
<1> QED BY <1>3, <1>4

\* The owners are known by what each process has.
LEMMA OwnersEqual ==
    ASSUME NEW F, ListOk(F), NEW f \in [Offset -> Locker \cup {NULL}],
           \A b \in Offset, q \in Locker : f[b] = q <=> Owned(F, q, b)
    PROVE  OwnersOf(F) = f
<1>1. ASSUME NEW b \in Offset PROVE OwnersOf(F)[b] = f[b]
  <2>1. f[b] \in Locker \cup {NULL} /\ OwnersOf(F)[b] \in Locker \cup {NULL}
    BY OwnersAre
  <2>2. \A q \in Locker : OwnersOf(F)[b] = q <=> f[b] = q
    BY OwnersAre
  <2> QED BY <2>1, <2>2
<1>2. OwnersOf(F) = [b \in Offset |-> OwnersOf(F)[b]]
  BY DEF OwnersOf
<1>3. f = [b \in Offset |-> f[b]]
  OBVIOUS
<1> QED BY <1>1, <1>2, <1>3

\* What a process finds of the owners when it has the inode for its call.
LEMMA OpenIs ==
    ASSUME InodeInv, RegionInv, NEW p \in Locker, proc[p].pc = "lockf"
    PROVE  /\ ByteOwner = OwnersOf(FileList) /\ Regions!Bytes(p) = { b \in Offset : In(b, ask[p]) }
           /\ Regions!Open(p) <=> ~InTheWay(p)
<1>1. /\ List(p) = FileList /\ ListOk(FileList) /\ ask[p] \in CallType
  BY FileOf
<1>2. ByteOwner = OwnersOf(FileList)
  BY DEF ByteOwner, OwnersOf
<1>3. Regions!Bytes(p) = { b \in Offset : In(b, ask[p]) }
  BY DEF Regions!Bytes, In
<1>4. /\ MAXSZ \in Nat /\ NULL \notin Locker
      /\ ask[p].begin \in Nat /\ ask[p].end \in 0 .. MAXSZ /\ ask[p].end \in Nat /\ ask[p].begin < ask[p].end
  BY <1>1, CallFacts, Constants, LockfAssumption
<1>5. ASSUME InTheWay(p) PROVE ~Regions!Open(p)
  <2>1. PICK k \in ToSet(FileList) : k.uproc # p /\ Meets(ask[p], k)
    BY <1>1, <1>5, ObstacleIs
  <2>2. k.begin \in Nat /\ k.end \in Nat /\ k.begin < k.end /\ k.uproc \in Locker
    BY <1>1, ListFacts
  <2>3. PICK b \in Nat : In(b, ask[p]) /\ In(b, k)
    BY <1>4, <2>1, <2>2, MeetsIs
  <2>4. b \in Offset
    BY <1>4, <2>3 DEF In, Offset
  <2>5. ByteOwner[b] = k.uproc
    BY <1>1, <1>2, <2>2, <2>3, <2>4, OwnersAre DEF Owned
  <2> QED BY <1>3, <1>4, <2>1, <2>2, <2>3, <2>4, <2>5 DEF Regions!Open
<1>6. ASSUME ~Regions!Open(p) PROVE InTheWay(p)
  <2>1. PICK b \in Offset : In(b, ask[p]) /\ ByteOwner[b] \notin {p, NULL}
    BY <1>3, <1>6 DEF Regions!Open
  <2>2. ByteOwner[b] \in Locker
    BY <1>1, <1>2, <2>1, OwnersAre
  <2>3. PICK q \in Locker : q = ByteOwner[b] /\ Owned(FileList, q, b)
    BY <1>1, <1>2, <2>2, OwnersAre
  <2>4. PICK k \in ToSet(FileList) : k.uproc = q /\ In(b, k)
    BY <2>3 DEF Owned
  <2>5. k.begin \in Nat /\ k.end \in Nat /\ k.begin < k.end /\ b \in Nat
    BY <1>1, <1>4, ListFacts DEF Offset
  <2>6. Meets(ask[p], k)
    BY <1>4, <2>1, <2>4, <2>5, MeetsIs
  <2>7. PICK i \in DOMAIN FileList : FileList[i] = k
    BY <1>1, ListFacts
  <2> QED BY <1>1, <2>1, <2>3, <2>4, <2>6, <2>7 DEF InTheWay, Litigious
<1> QED BY <1>2, <1>3, <1>5, <1>6

\* lflock: the process has the bytes asked for, the others stay as they were.
LEMMA LockOwners ==
    ASSUME NEW p, NEW F, NEW gp, NEW m, NEW new, NEW others, NEW list,
           Locking(p, F, gp, m, new, others, list), LockedAs(p, F, gp, m, new, others, list),
           \A b \in Offset : In(b, ask[p]) => OwnersOf(F)[b] \in {p, NULL}
    PROVE  OwnersOf(list) = [b \in Offset |-> IF In(b, ask[p]) THEN p ELSE OwnersOf(F)[b]]
<1> DEFINE f == [b \in Offset |-> IF In(b, ask[p]) THEN p ELSE OwnersOf(F)[b]]
<1>1. /\ p \in Locker /\ ListOk(F) /\ others = { k \in ToSet(F) : k.id \notin m.joined } /\ new.uproc = p
      /\ NULL \notin Locker /\ \A b \in Offset : b \in Nat
  BY Constants, LockfAssumption DEF Locking, Offset
<1>2. /\ ListOk(list) /\ ToSet(list) = {new} \cup others
      /\ \A k \in ToSet(F) : k.id \in m.joined => k.uproc = p
      /\ \A b \in Nat : In(b, new) <=> In(b, ask[p]) \/ \E k \in ToSet(F) : k.id \in m.joined /\ In(b, k)
  BY DEF LockedAs
<1>3. f \in [Offset -> Locker \cup {NULL}]
  BY <1>1, OwnersAre
<1>4. ASSUME NEW b \in Offset, NEW q \in Locker PROVE f[b] = q <=> Owned(list, q, b)
  <2>1. b \in Nat /\ f[b] = (IF In(b, ask[p]) THEN p ELSE OwnersOf(F)[b])
    BY <1>1
  <2>2. Owned(list, q, b) <=> (q = p /\ In(b, new)) \/ \E k \in others : k.uproc = q /\ In(b, k)
    BY <1>1, <1>2 DEF Owned
  <2>3. OwnersOf(F)[b] = q <=> Owned(F, q, b)
    BY <1>1, OwnersAre
  <2> HIDE DEF f
  <2>4. CASE In(b, ask[p])
    <3>1. f[b] = p /\ In(b, new)
      BY <1>2, <2>1, <2>4
    <3>2. q # p => ~Owned(F, q, b)
      BY <1>1, <2>3, <2>4
    <3>3. q # p => ~\E k \in others : k.uproc = q /\ In(b, k)
      BY <1>1, <3>2 DEF Owned
    <3> QED BY <2>2, <3>1, <3>3
  <2>5. CASE ~In(b, ask[p])
    <3>1. In(b, new) <=> \E k \in ToSet(F) : k.id \in m.joined /\ In(b, k)
      BY <1>2, <2>1, <2>5
    <3>2. Owned(list, q, b) <=> Owned(F, q, b)
      BY <1>1, <1>2, <2>2, <3>1 DEF Owned
    <3> QED BY <2>1, <2>3, <2>5, <3>2
  <2> QED BY <2>4, <2>5
<1> HIDE DEF f
<1>5. OwnersOf(list) = f
  BY <1>2, <1>3, <1>4, OwnersEqual
<1> QED BY <1>5 DEF f

\* lffree: the bytes asked for that the process had are nobody's.
LEMMA FreeOwners ==
    ASSUME NEW p, NEW F, NEW gp, NEW list, Freeing(p, F, gp, list), FreedAs(p, F, gp, list)
    PROVE  OwnersOf(list) = [b \in Offset |-> IF In(b, ask[p]) /\ OwnersOf(F)[b] = p THEN NULL ELSE OwnersOf(F)[b]]
<1> DEFINE f == [b \in Offset |-> IF In(b, ask[p]) /\ OwnersOf(F)[b] = p THEN NULL ELSE OwnersOf(F)[b]]
<1>1. p \in Locker /\ ListOk(F) /\ NULL \notin Locker /\ \A b \in Offset : b \in Nat
  BY Constants, LockfAssumption DEF Freeing, Offset
<1>2. ListOk(list)
  BY DEF FreedAs
<1>3. f \in [Offset -> Locker \cup {NULL}]
  BY <1>1, OwnersAre
<1>4. ASSUME NEW b \in Offset, NEW q \in Locker PROVE f[b] = q <=> Owned(list, q, b)
  <2>1. Owned(list, q, b) <=> Owned(F, q, b) /\ ~(q = p /\ In(b, ask[p]))
    BY <1>1 DEF FreedAs, Owned
  <2>2. OwnersOf(F)[b] = q <=> Owned(F, q, b)
    BY <1>1, OwnersAre
  <2>3. f[b] = IF In(b, ask[p]) /\ OwnersOf(F)[b] = p THEN NULL ELSE OwnersOf(F)[b]
    OBVIOUS
  <2> HIDE DEF f
  <2> QED BY <1>1, <2>1, <2>2, <2>3
<1> HIDE DEF f
<1>5. OwnersOf(list) = f
  BY <1>2, <1>3, <1>4, OwnersEqual
<1> QED BY <1>5 DEF f

\* lfclosefree: so are all the bytes of the process.
LEMMA CloseOwners ==
    ASSUME NEW p \in Locker, NEW F, ListOk(F), NEW list, ListOk(list),
           ToSet(list) = ToSet(F) \ { k \in ToSet(F) : k.uproc = p }
    PROVE  OwnersOf(list) = [b \in Offset |-> IF OwnersOf(F)[b] = p THEN NULL ELSE OwnersOf(F)[b]]
<1> DEFINE f == [b \in Offset |-> IF OwnersOf(F)[b] = p THEN NULL ELSE OwnersOf(F)[b]]
<1>1. NULL \notin Locker
  BY Constants
<1>3. f \in [Offset -> Locker \cup {NULL}]
  BY <1>1, OwnersAre
<1>4. ASSUME NEW b \in Offset, NEW q \in Locker PROVE f[b] = q <=> Owned(list, q, b)
  <2>1. Owned(list, q, b) <=> Owned(F, q, b) /\ q # p
    BY DEF Owned
  <2>2. OwnersOf(F)[b] = q <=> Owned(F, q, b)
    BY OwnersAre
  <2>3. f[b] = IF OwnersOf(F)[b] = p THEN NULL ELSE OwnersOf(F)[b]
    OBVIOUS
  <2> HIDE DEF f
  <2> QED BY <1>1, <2>1, <2>2, <2>3
<1> HIDE DEF f
<1>5. OwnersOf(list) = f
  BY <1>3, <1>4, OwnersEqual
<1> QED BY <1>5 DEF f

-----------------------------------------------------------------------------
(* Each step of a locker is one of Regions *)

\* The step of a process, as Regions sees it.
LEMMA MovingIs ==
    ASSUME NEW p \in Locker, Others(p)
    PROVE  /\ proc'[p].pc = "transfer" => Moving' = Moving \cup {p}
           /\ proc'[p].pc # "transfer" => Moving' = Moving \ {p}
<1>1. \A q \in Locker : q # p => proc'[q] = proc[q]
  BY Constants DEF Others
<1> QED BY <1>1 DEF Moving

\* What Regions does not see.
LEMMA SameRegions ==
    ASSUME UNCHANGED <<i_lockf, ask>>, Moving' = Moving
    PROVE  UNCHANGED Regions!vars
<1>1. ByteOwner' = ByteOwner
  BY DEF ByteOwner, FileList
<1> QED BY <1>1 DEF Regions!vars

\* A locker that waits, for an inode or for a region, or that is back from its sleep.
LEMMA WaitsHidden ==
    ASSUME InodeInv, RegionInv, NEW p \in Locker, Call(p) \/ WaitSleeps(p) \/ WaitTurns(p) \/ Awake(p)
    PROVE  UNCHANGED Regions!vars
<1>1. Takes(p) \/ Frees(p) \/ Turns(p)
  BY DEF Call, Awake, Takes, SleepLock, WaitSleeps, WaitTurns, Asked, Leaves, Frees, Turns, At, Locked
<1>2. p \in Proc /\ Others(p) /\ Types
  BY <1>1, RegionProc DEF InodeInv
<1>3. UNCHANGED <<i_lockf, ask>>
  BY DEF Call, Awake, WaitSleeps, WaitTurns, lockfVars
<1>4. proc[p].pc # "transfer" /\ proc'[p].pc # "transfer"
  <2>1. CASE Call(p)
    <3>1. proc[p].pc = "user" /\ \E e \in {proc[p].e} : proc' = [proc EXCEPT ![p].pc = "call", ![p].e = e]
      BY <2>1 DEF Call, At, SleepLock
    <3> QED BY <1>2, <3>1 DEF Types, ProcType
  <2>2. CASE Awake(p)
    <3>1. proc[p].pc = "waiting" /\ \E e \in {proc[p].e} : proc' = [proc EXCEPT ![p].pc = "lockf", ![p].e = e]
      BY <2>2 DEF Awake, At, SleepLock
    <3> QED BY <1>2, <3>1 DEF Types, ProcType
  <2>3. CASE WaitSleeps(p)
    <3>1. proc[p].pc = "lockf" /\ proc' = [proc EXCEPT ![p].pc = "waiting"]
      BY <2>3 DEF WaitSleeps, Asked, Locked, At, Goto
    <3> QED BY <1>2, <3>1 DEF Types, ProcType
  <2>4. CASE WaitTurns(p)
    BY <2>4 DEF WaitTurns, Asked, Locked, At
  <2> QED BY <2>1, <2>2, <2>3, <2>4
<1>5. Moving' = Moving
  BY <1>2, <1>4, MovingIs DEF Moving
<1> QED BY <1>3, <1>5, SameRegions, SMTT(40)

\* What a call asks, in Regions.
LEMMA Requests ==
    ASSUME NEW c \in CallType
    PROVE  c \in Regions!Request
<1>1. /\ c \in [mode : Mode, begin : 0 .. MAXSZ, end : 0 .. MAXSZ] /\ c.begin < c.end /\ MAXSZ \in Nat
  BY LockfAssumption DEF CallType
<1>2. c.begin \in Offset
  BY <1>1 DEF Offset
<1>3. c.end - 1 \in Offset /\ c.end = (c.end - 1) + 1
  BY <1>1 DEF Offset
<1>4. c.end \in { b + 1 : b \in Offset }
  BY <1>3
<1> QED BY <1>1, <1>2, <1>4 DEF Regions!Request, Regions!Mode, Mode

\* A call begins.
LEMMA AskIs ==
    ASSUME InodeInv, RegionInv, NEW p \in Locker, NEW call \in calls, Ask(p, call)
    PROVE  Regions!Ask(p)
<1>1. Takes(p) \/ Stays(p)
  BY DEF Ask, Takes, Stays, At, Locked, SleepLock, Keeps
<1>2. p \in Proc /\ Others(p) /\ Types /\ ask \in [Locker -> calls \cup {Nothing}] /\ CallOf(p) /\ calls \subseteq CallType
  BY <1>1, RegionProc DEF InodeInv, RegionInv, RegionTypes, Callers
<1>3. proc[p].pc \in {"user", "call"} /\ ask' = [ask EXCEPT ![p] = call] /\ i_lockf' = i_lockf
  BY DEF Ask, At, Locked
<1>4. proc'[p].pc = "lockf"
  <2>1. PICK e \in {proc[p].e} : Goto(p, "lockf") \/ proc' = [proc EXCEPT ![p].pc = "lockf", ![p].e = e]
    BY DEF Ask, SleepLock
  <2> QED BY <1>2, <2>1 DEF Goto, Types, ProcType
<1>5. Moving' = Moving
  BY <1>2, <1>3, <1>4, MovingIs DEF Moving
<1>6. ByteOwner' = ByteOwner
  BY <1>3 DEF ByteOwner, FileList
<1>7. ask[p] = Regions!None
  BY <1>2, <1>3 DEF CallOf, Nothing, Regions!None
<1>8. ask'[p] \in Regions!Request /\ \A q \in Locker \ {p} : ask'[q] = ask[q]
  BY <1>2, <1>3, Requests
<1> QED BY <1>5, <1>6, <1>7, <1>8 DEF Regions!Ask, Regions!Idle

\* A transfer begins when no byte asked for is of another process.
LEMMA TransferIs ==
    ASSUME InodeInv, RegionInv, NEW p \in Locker, Transfer(p)
    PROVE  Regions!Begin(p)
<1>1. Stays(p)
  BY DEF Transfer, Asked, Leaves, Stays, At, Locked
<1>2. p \in Proc /\ Others(p) /\ Types
  BY <1>1, RegionProc DEF InodeInv
<1>3. /\ proc[p].pc = "lockf" /\ ask[p].mode \in {"rdwr", "trdwr"} /\ ~InTheWay(p) /\ UNCHANGED <<i_lockf, ask>>
      /\ proc'[p].pc = "transfer"
  BY <1>2 DEF Transfer, Asked, Locked, At, Goto, Types, lockfVars
<1>4. Regions!Open(p)
  BY <1>3, OpenIs
<1>5. p \notin Moving /\ Moving' = Moving \cup {p}
  BY <1>2, <1>3, MovingIs DEF Moving
<1>6. ByteOwner' = ByteOwner
  BY <1>3 DEF ByteOwner, FileList
<1> QED BY <1>3, <1>4, <1>5, <1>6 DEF Regions!Begin

\* A call that ends: what Regions sees of Return.
LEMMA ReturnIs ==
    ASSUME InodeInv, RegionInv, NEW p \in Locker, Owns(p), proc[p].pc \in {"lockf", "transfer"}, Return(p),
           inode' = inode \/ Dates(p)
    PROVE  /\ Regions!Answer(p) /\ Moving' = Moving \ {p} /\ p \in Locker
           /\ proc[p].pc = "lockf" => /\ p \notin Moving /\ Moving = {} /\ Moving' = Moving /\ ask[p] # Regions!None
           /\ proc[p].pc = "transfer" => p \in Moving
<1>1. Frees(p)
  BY DEF Return, Leaves, Frees
<1>2. p \in Proc /\ Others(p) /\ Types /\ proc[p].e = 3
  BY <1>1, RegionProc DEF InodeInv
<1>3. proc'[p].pc = "user" /\ ask' = [ask EXCEPT ![p] = Nothing]
  BY <1>2 DEF Return, Goto, Types
<1>4. Regions!Answer(p)
  BY <1>3 DEF Regions!Answer, Regions!None, Nothing
<1>5. Moving' = Moving \ {p}
  BY <1>2, <1>3, MovingIs
<1>6. ASSUME NEW q \in Moving PROVE q = p
  <2>1. q \in Locker /\ q \in Proc /\ proc[q].pc = "transfer" /\ proc[q].pc \in Owning
    BY Constants DEF Moving, Owning
  <2>2. proc[q].e = 3
    BY <2>1, Constants DEF InodeInv, Locals, LocalsOf
  <2> QED BY <1>2, <2>1, <2>2, OneOwner DEF InodeInv
<1>7. proc[p].pc = "lockf" => p \notin Moving
  BY DEF Moving
<1>8. proc[p].pc = "lockf" => ask[p] # Regions!None
  BY DEF RegionInv, Callers, CallOf, Nothing, Regions!None
<1> QED BY <1>4, <1>5, <1>6, <1>7, <1>8 DEF Moving

\* A call is refused, never a close, and a test only when another process has a byte.
LEMMA RefuseIs ==
    ASSUME InodeInv, RegionInv, NEW p \in Locker, Refuse(p)
    PROVE  Regions!Refuse(p)
<1>1. proc[p].pc = "lockf" /\ Owns(p) /\ Return(p) /\ inode' = inode /\ i_lockf' = i_lockf
  BY DEF Refuse, Asked, Locked, At
<1>2. ask[p].mode # "close" /\ (ask[p].mode = "test" => InTheWay(p))
  BY DEF Refuse, Asked
<1>3. Regions!Answer(p) /\ p \notin Moving /\ Moving' = Moving /\ ask[p] # Regions!None
  BY <1>1, ReturnIs
<1>4. ask[p].mode = "test" => ~Regions!Open(p)
  BY <1>1, <1>2, OpenIs
<1>5. ByteOwner' = ByteOwner
  BY <1>1 DEF ByteOwner, FileList
<1> QED BY <1>2, <1>3, <1>4, <1>5 DEF Regions!Refuse, Regions!Idle

\* A test says that nobody else has a byte asked for.
LEMMA TestIs ==
    ASSUME InodeInv, RegionInv, NEW p \in Locker, TestEnds(p)
    PROVE  Regions!Test(p)
<1>1. /\ proc[p].pc = "lockf" /\ Owns(p) /\ Return(p) /\ inode' = inode /\ i_lockf' = i_lockf
      /\ ask[p].mode = "test" /\ ~InTheWay(p)
  BY DEF TestEnds, Asked, Locked, At
<1>2. Regions!Answer(p) /\ Moving' = Moving
  BY <1>1, ReturnIs
<1>3. Regions!Open(p)
  BY <1>1, OpenIs
<1>4. ByteOwner' = ByteOwner
  BY <1>1 DEF ByteOwner, FileList
<1> QED BY <1>1, <1>2, <1>3, <1>4 DEF Regions!Test

\* A transfer ends.
LEMMA TransferEndsIs ==
    ASSUME InodeInv, RegionInv, NEW p \in Locker, TransferEnds(p)
    PROVE  Regions!End(p)
<1>1. proc[p].pc = "transfer" /\ Owns(p) /\ Return(p) /\ Dates(p) /\ i_lockf' = i_lockf
  BY DEF TransferEnds, Locked, At
<1>2. Regions!Answer(p) /\ p \in Moving /\ Moving' = Moving \ {p}
  BY <1>1, ReturnIs
<1>3. ByteOwner' = ByteOwner
  BY <1>1 DEF ByteOwner, FileList
<1> QED BY <1>2, <1>3 DEF Regions!End

\* The list that a step leaves is the one of the file.
LEMMA NextOwner ==
    ASSUME InodeInv, RegionInv, NEW p \in Locker, proc[p].pc = "lockf", NEW list,
           i_lockf' = [i_lockf EXCEPT ![proc[p].e] = list]
    PROVE  ByteOwner' = OwnersOf(list)
<1>1. proc[p].e = 3 /\ 3 \in Entry /\ i_lockf \in [Entry -> Seq(RegionType)]
  BY FileOf, Constants DEF RegionInv, RegionTypes
<1>2. FileList' = list
  BY <1>1 DEF FileList
<1> QED BY <1>2 DEF ByteOwner, OwnersOf

\* lflock takes every byte asked for, and no other.
LEMMA LockIs ==
    ASSUME InodeInv, RegionInv, NEW p \in Locker, lflock(p)
    PROVE  Regions!Lock(p)
<1>1. /\ proc[p].pc = "lockf" /\ Owns(p) /\ ~InTheWay(p) /\ lffreelist # {} /\ Return(p) /\ inode' = inode
      /\ ask[p].mode \in {"lock", "tlock"}
  BY DEF lflock, Asked, Locked, At
<1>2. PICK F, gp, m : F = List(p) /\ gp = Min(lffreelist) /\ m = Joined(p)
  OBVIOUS
<1>3. PICK new, others : /\ new = [id |-> gp, uproc |-> p, begin |-> m.begin, end |-> m.end]
                         /\ others = { k \in ToSet(F) : k.id \notin m.joined }
  OBVIOUS
<1>4. PICK list : list = <<new>> \o Kept(F, others)
  OBVIOUS
<1>5. /\ F = FileList /\ F = i_lockf[proc[p].e] /\ ListOk(F)
      /\ Ids(F) = LockEntry \ lffreelist /\ lffreelist \subseteq LockEntry /\ ask[p] \in CallType
  BY <1>1, <1>2, FileOf
<1>6. i_lockf' = [i_lockf EXCEPT ![proc[p].e] = list]
  BY <1>2, <1>3, <1>4, <1>5 DEF lflock
<1>7. gp \in LockEntry \ Ids(F)
  <2>1. lffreelist \in SUBSET Nat /\ lffreelist # {}
    BY <1>1, <1>5, LockfAssumption DEF LockEntry
  <2> QED BY <1>2, <1>5, <2>1, MinIsLeast
<1>8. Locking(p, F, gp, m, new, others, list)
  BY <1>1, <1>2, <1>3, <1>4, <1>5, <1>7 DEF Locking
<1>9. LockedAs(p, F, gp, m, new, others, list)
  BY <1>8, LockedList
<1>10. ByteOwner = OwnersOf(F) /\ Regions!Bytes(p) = { b \in Offset : In(b, ask[p]) } /\ Regions!Open(p)
  BY <1>1, <1>5, OpenIs
<1>11. \A b \in Offset : In(b, ask[p]) => OwnersOf(F)[b] \in {p, NULL}
  BY <1>10 DEF Regions!Open
<1>12. ByteOwner' = [b \in Offset |-> IF In(b, ask[p]) THEN p ELSE OwnersOf(F)[b]]
  <2>1. ByteOwner' = OwnersOf(list)
    BY <1>1, <1>6, NextOwner
  <2>2. OwnersOf(list) = [b \in Offset |-> IF In(b, ask[p]) THEN p ELSE OwnersOf(F)[b]]
    BY <1>8, <1>9, <1>11, LockOwners
  <2> QED BY <2>1, <2>2
<1>13. ByteOwner' = [b \in Offset |-> IF b \in Regions!Bytes(p) THEN p ELSE ByteOwner[b]]
  BY <1>10, <1>12
<1>14. Regions!Answer(p) /\ Moving = {} /\ Moving' = Moving
  BY <1>1, ReturnIs
<1> QED BY <1>1, <1>10, <1>13, <1>14 DEF Regions!Lock

\* lffree gives back the bytes asked for that are of the process, and no other.
LEMMA UnlockIs ==
    ASSUME InodeInv, RegionInv, NEW p \in Locker, lffree(p)
    PROVE  Regions!Unlock(p)
<1>1. /\ proc[p].pc = "lockf" /\ Owns(p) /\ lffreelist # {} /\ Return(p) /\ inode' = inode /\ ask[p].mode = "unlock"
  BY DEF lffree, Asked, Locked, At
<1>2. PICK F, gp : F = List(p) /\ gp = Min(lffreelist)
  OBVIOUS
<1>3. PICK list : list = FlattenSeq([i \in DOMAIN F |-> Rest(p, F[i], gp)])
  OBVIOUS
<1>5. /\ F = FileList /\ F = i_lockf[proc[p].e] /\ ListOk(F)
      /\ Ids(F) = LockEntry \ lffreelist /\ lffreelist \subseteq LockEntry /\ ask[p] \in CallType
  BY <1>1, <1>2, FileOf
<1>6. i_lockf' = [i_lockf EXCEPT ![proc[p].e] = list]
  BY <1>2, <1>3 DEF lffree
<1>7. gp \in LockEntry \ Ids(F)
  <2>1. lffreelist \in SUBSET Nat /\ lffreelist # {}
    BY <1>1, <1>5, LockfAssumption DEF LockEntry
  <2> QED BY <1>2, <1>5, <2>1, MinIsLeast
<1>8. Freeing(p, F, gp, list)
  BY <1>2, <1>3, <1>5, <1>7 DEF Freeing
<1>9. FreedAs(p, F, gp, list)
  BY <1>8, FreedList
<1>10. ByteOwner = OwnersOf(F) /\ Regions!Bytes(p) = { b \in Offset : In(b, ask[p]) }
  BY <1>1, <1>5, OpenIs
<1>12. ByteOwner' = [b \in Offset |-> IF In(b, ask[p]) /\ OwnersOf(F)[b] = p THEN NULL ELSE OwnersOf(F)[b]]
  <2>1. ByteOwner' = OwnersOf(list)
    BY <1>1, <1>6, NextOwner
  <2>2. OwnersOf(list) = [b \in Offset |-> IF In(b, ask[p]) /\ OwnersOf(F)[b] = p THEN NULL ELSE OwnersOf(F)[b]]
    BY <1>8, <1>9, FreeOwners
  <2> QED BY <2>1, <2>2
<1>13. ByteOwner' = [b \in Offset |-> IF b \in Regions!Bytes(p) /\ ByteOwner[b] = p THEN NULL ELSE ByteOwner[b]]
  BY <1>10, <1>12
<1>14. Regions!Answer(p) /\ Moving' = Moving
  BY <1>1, ReturnIs
<1> QED BY <1>1, <1>13, <1>14 DEF Regions!Unlock

\* lfclosefree gives back every byte of the process.
LEMMA CloseIs ==
    ASSUME InodeInv, RegionInv, NEW p \in Locker, lfclosefree(p)
    PROVE  Regions!Close(p)
<1>1. /\ proc[p].pc = "lockf" /\ Owns(p) /\ Return(p) /\ inode' = inode /\ ask[p].mode = "close"
  BY DEF lfclosefree, Asked, Locked, At
<1>2. PICK F : F = List(p)
  OBVIOUS
<1>3. PICK mine : mine = { k \in ToSet(F) : k.uproc = p }
  OBVIOUS
<1>4. PICK list : list = Kept(F, ToSet(F) \ mine)
  OBVIOUS
<1>5. F = FileList /\ F = i_lockf[proc[p].e] /\ ListOk(F)
  BY <1>1, <1>2, FileOf
<1>6. i_lockf' = [i_lockf EXCEPT ![proc[p].e] = list]
  BY <1>2, <1>3, <1>4, <1>5 DEF lfclosefree
<1>7. ListOk(list) /\ ToSet(list) = ToSet(F) \ { k \in ToSet(F) : k.uproc = p }
  BY <1>3, <1>4, <1>5, SomeRegions
<1>8. ByteOwner = OwnersOf(F)
  BY <1>1, <1>5, OpenIs
<1>9. ByteOwner' = [b \in Offset |-> IF ByteOwner[b] = p THEN NULL ELSE ByteOwner[b]]
  <2>1. ByteOwner' = OwnersOf(list)
    BY <1>1, <1>6, NextOwner
  <2>2. OwnersOf(list) = [b \in Offset |-> IF OwnersOf(F)[b] = p THEN NULL ELSE OwnersOf(F)[b]]
    BY <1>5, <1>7, CloseOwners
  <2> QED BY <1>8, <2>1, <2>2
<1>10. Regions!Answer(p) /\ Moving' = Moving
  BY <1>1, ReturnIs
<1> QED BY <1>1, <1>9, <1>10 DEF Regions!Close

\* lockf.c: the lists of regions implement the owners of the bytes: lflock, lffree, lfclosefree and
\* the transfers do what Regions says, in one step and for the bytes asked for, and the rest of the
\* system changes no owner.
THEOREM FilesImplementRegions == Spec => ImplementsRegions
<1>1. Init => Regions!Init
  <2> SUFFICES ASSUME Init PROVE Regions!Init
    OBVIOUS
  <2>1. PICK company \in Companies : inodeinit(company.who) /\ lfinit(company.calls)
    BY DEF Init
  <2>2. i_lockf = [e \in Entry |-> <<>>] /\ ask = [p \in Locker |-> Nothing]
    BY <2>1 DEF lfinit
  <2>3. Moving = {}
    <3>1. \A p \in Locker : proc[p].pc \in {"user", "absent"}
      BY <2>1, Constants DEF inodeinit, Idle
    <3> QED BY <3>1 DEF Moving
  <2>4. ByteOwner = [b \in Offset |-> NULL]
    <3>1. ToSet(FileList) = {}
      BY <2>2, Constants DEF FileList, ToSet
    <3> QED BY <3>1 DEF ByteOwner
  <2> QED BY <2>2, <2>3, <2>4 DEF Regions!Init, Regions!None, Nothing
<1>2. InodeInv /\ RegionInv /\ [Next]_vars => [Regions!Next]_(Regions!vars)
  <2> SUFFICES ASSUME InodeInv, RegionInv, [Next]_vars PROVE Regions!Next \/ UNCHANGED Regions!vars
    OBVIOUS
  <2>1. ASSUME NEW p \in Proc \ Locker, UseInode(p), UNCHANGED lockfVars PROVE UNCHANGED Regions!vars
    <3>1. Others(p)
      BY <2>1, InodeOthers DEF InodeInv
    <3>2. Moving' = Moving
      BY <3>1, Constants DEF Others, Moving
    <3> QED BY <2>1, <3>2, SameRegions DEF lockfVars
  <2>2. ASSUME NEW p \in Locker, UseRegion(p) PROVE Regions!Next \/ UNCHANGED Regions!vars
    <3>1. ASSUME Regions!Ask(p) \/ Regions!Refuse(p) \/ Regions!Test(p) \/ Regions!Lock(p) \/ Regions!Unlock(p)
                 \/ Regions!Begin(p) \/ Regions!End(p) \/ Regions!Close(p)
          PROVE  Regions!Next
      BY <3>1 DEF Regions!Next
    <3>2. CASE Call(p) \/ WaitSleeps(p) \/ WaitTurns(p) \/ Awake(p)
      BY <3>2, WaitsHidden
    <3>3. CASE \E call \in calls : Ask(p, call)
      BY <3>1, <3>3, AskIs
    <3>4. CASE Refuse(p) \/ TestEnds(p) \/ Transfer(p) \/ TransferEnds(p)
      BY <3>1, <3>4, RefuseIs, TestIs, TransferIs, TransferEndsIs
    <3>5. CASE lflock(p) \/ lffree(p) \/ lfclosefree(p)
      BY <3>1, <3>5, LockIs, UnlockIs, CloseIs
    <3> QED BY <2>2, <3>2, <3>3, <3>4, <3>5 DEF UseRegion
  <2>3. CASE UNCHANGED vars
    <3>1. UNCHANGED <<proc, i_lockf, ask>>
      BY <2>3 DEF vars, inodeVars, lockfVars
    <3> QED BY <3>1, SameRegions DEF Moving
  <2> QED BY <2>1, <2>2, <2>3 DEF Next
<1> QED BY <1>1, <1>2, RegionsConsistent, PTL DEF Spec, ImplementsRegions, Regions!Spec
=============================================================================
