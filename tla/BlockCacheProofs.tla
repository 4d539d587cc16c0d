-------------------------- MODULE BlockCacheProofs --------------------------
(***************************************************************************)
(* Theorems about BlockCache, for any users, umounts, buffers, blocks and  *)
(* hash queues.                                                            *)
(*                                                                         *)
(* The invariant says, beside the properties: which code and which locals  *)
(* each process has (Locals), which locks it has or waits for (Locks),     *)
(* where the buffers are found (Queues), what a buffer contains and which  *)
(* transfer it is in (Buffers), what the owner of a lock knows of the      *)
(* buffer (Hands), why block_flush may write a buffer without looking at   *)
(* its flag again (Flushes) and what block_get may find when a buffer that *)
(* it waited for is its own (Founds).  A lemma for each action follows     *)
(* from few general ones: what a step of one process leaves alone          *)
(* (WalkKeeps, TakeKeeps), with one buffer that changes (ChangeKeeps,      *)
(* MoveKeeps), and the end of a transfer (EndKeeps).                       *)
(***************************************************************************)
EXTENDS BlockCache, QueueLemmas

\* No block is written whole over what a failed read left: ReadsLatest is false without this, as the
\* run read_error shows.
NoErrorKept == \A p \in Proc : UseDelayed(p) => ~Has(proc[p].b, "ERROR")

\* The blocks written whole are not among those that may be read with error.
NoOverwriteFail == \A w \in Work : w[2] = "overwrite" => w[3] \notin FailBlock

-----------------------------------------------------------------------------
(* The inductive invariant *)

UserGet == {"get", "found", "lru", "lruagain", "lruwrite", "lruasync", "reuse", "got", "keep"}
UserPc == UserGet \cup {"breada", "breada2", "breada3", "reading", "use", "writing"}
UpdatePc == {"inodes", "flush", "wait", "updated"}

\* Who runs which code, and with which locals.
LocalsOf(p) ==
    /\ p \in User => proc[p].pc \in UserPc \cup {"idle", "absent"}
    /\ p \in Swapper => proc[p].pc \in {"idle", "absent", "inodes", "updated"}
    /\ p \in Umounter => proc[p].pc \in UpdatePc \cup {"idle", "absent", "umount", "discard", "mount"}
    /\ p \in Umounter /\ proc[p].pc \notin {"idle", "absent"} => proc[p].dev \in Device
    /\ proc[p].pc \in UserPc => proc[p].blk \in Block
    /\ proc[p].pc \in UserGet =>
          /\ proc[p].for # "none"
          /\ proc[p].for \in {"main", "ahead"} => proc[p].next \in Block
          /\ proc[p].for = "ahead" => proc[p].next # proc[p].blk
          /\ proc[p].for # "ahead" => proc[p].main = NULL
          /\ proc[p].for = "overwrite" => proc[p].op = "overwrite"
    /\ proc[p].pc \in {"breada", "breada2", "breada3"} => proc[p].next \in Block
    /\ proc[p].pc = "breada" => proc[p].main = NULL
    /\ proc[p].pc \notin UserPc => proc[p].main = NULL
    /\ proc[p].pc \in {"reading", "use", "writing"} => proc[p].main \in {NULL, proc[p].b}
    /\ proc[p].pc \in UpdatePc => updlock
    /\ proc[p].pc \notin UserPc \cup {"flush", "wait", "discard"} => proc[p].b = NULL

Locals ==
    /\ \A p \in Proc : LocalsOf(p)
    /\ \A p, q \in Proc : proc[p].pc \in UpdatePc /\ proc[q].pc \in UpdatePc => p = q

Owning == {"lruwrite", "lruasync", "reuse", "got", "keep", "reading", "use", "writing"}
Waiting == {"found", "flush", "wait", "discard"}

\* The process has the lock of the buffer, or waits for it.
Wants(p, b) == proc[p].main = b \/ (proc[p].b = b /\ proc[p].pc \in Owning \cup Waiting)

LockOf(b) == NoRepeat(lock[b]) /\ \A p \in Proc : p \in ToSet(lock[b]) <=> Wants(p, b)

\* The process has the locks that its code supposes.
Held(p) ==
    /\ proc[p].main # NULL => Head(lock[proc[p].main]) = p
    /\ proc[p].pc \in Owning => proc[p].b # NULL /\ Head(lock[proc[p].b]) = p
    /\ proc[p].pc = "found" => proc[p].b # NULL
    /\ proc[p].pc \in {"found", "lruwrite", "lruasync", "reuse", "got", "keep"} =>
          proc[p].b # proc[p].main

Locks == (\A b \in Bufs : LockOf(b)) /\ (\A p \in Proc : Held(p))

\* The buffer is found by its block.
InHash(b) == buf[b].id # NULL /\ b \in ToSet(hash[Bucket(buf[b].id)])

Queues ==
    /\ \A h \in Buckets :
          /\ NoRepeat(hash[h])
          /\ \A b \in ToSet(hash[h]) : buf[b].id # NULL /\ Bucket(buf[b].id) = h
    /\ \A b, c \in Bufs : InHash(b) /\ InHash(c) /\ buf[b].id = buf[c].id => b = c
    /\ NoRepeat(block_lru) /\ ToSet(block_lru) = Bufs

\* The process waits for a transfer that it ordered.
Moves(p, b) ==
    proc[p].main = b \/ (proc[p].b = b /\ proc[p].pc \in {"lruwrite", "reading", "writing"})

\* The transfer that a buffer is in, and what it contains when it is found by its block.
BufferOf(b) ==
    /\ buf[b].op # "none" => ~buf[b].done /\ (Has(b, "ASYNC") \/ \E p \in Proc : Moves(p, b))
    /\ buf[b].op = "read" => InHash(b)
    /\ buf[b].op = "write" /\ buf[b].id # NULL => InHash(b) /\ buf[b].data = latest[buf[b].id]
    /\ Has(b, "ERROR") => buf[b].id \in FailBlock
    /\ Has(b, "DIRTY") => InHash(b) /\ buf[b].done /\ ~Has(b, "ERROR")
    /\ InHash(b) /\ buf[b].done /\ ~Has(b, "ERROR") => buf[b].data = latest[buf[b].id]

\* The buffer keeps what was written to its block.
Keeps(b) == /\ InHash(b) /\ buf[b].data = latest[buf[b].id]
            /\ Has(b, "DIRTY") \/ buf[b].op = "write"

BlockOf(blk) == disk[blk] = latest[blk] \/ \E b \in Bufs : buf[b].id = blk /\ Keeps(b)

Buffers == (\A b \in Bufs : BufferOf(b)) /\ (\A blk \in Block : BlockOf(blk))

\* What a process knows of the buffers that it has locked.
HandsOf(p) ==
    LET b == proc[p].b IN
    /\ proc[p].pc \in {"lruwrite", "lruasync", "reuse"} => ~Has(b, "DIRTY")
    /\ proc[p].pc \in {"reuse", "got", "keep", "use"} => buf[b].op = "none"
    /\ proc[p].pc \in {"got", "keep"} => InHash(b) /\ buf[b].id = Target(p)
    /\ proc[p].pc \in {"use", "reading", "writing"} => InHash(b) /\ buf[b].id = proc[p].blk
    /\ proc[p].pc = "use" => buf[b].done \/ proc[p].op = "overwrite"
    /\ proc[p].pc = "reading" => buf[b].done \/ buf[b].op = "read"
    /\ proc[p].pc = "writing" => buf[b].done \/ buf[b].op = "write"
    /\ proc[p].main # NULL /\ proc[p].pc \notin {"reading", "use", "writing"} =>
          /\ InHash(proc[p].main) /\ buf[proc[p].main].id = proc[p].blk
          /\ buf[proc[p].main].done \/ buf[proc[p].main].op = "read"

Hands == \A p \in Proc : HandsOf(p)

\* A buffer that block_flush waits for keeps its block or loses it, and is not written when its turn
\* comes.
FlushOf(b) ==
    LET h == Head(lock[b]) IN
    /\ buf[b].id = NULL \/ InHash(b)
    /\ ~Has(b, "ERROR")
    /\ proc[h].b = b => proc[h].pc \notin {"lruwrite", "lruasync", "reuse"}
    /\ buf[b].done \/ (proc[h].pc = "writing" /\ proc[h].b = b)

Flushes == \A p \in Proc : proc[p].pc = "flush" /\ proc[p].b # NULL => FlushOf(proc[p].b)

Taking == {"lruwrite", "lruasync", "reuse"}

\* A buffer that block_get waits for is still found by its block, or has another one; the process
\* that takes it from the list has not changed it yet.
FoundOf(p) ==
    LET b == proc[p].b IN
    proc[p].pc = "found" =>
        /\ buf[b].id = Target(p) => InHash(b)
        /\ (\E h \in Proc : proc[h].pc \in Taking /\ proc[h].b = b) => buf[b].id = Target(p)

Founds == \A p \in Proc : FoundOf(p)

IInv ==
    /\ TypeOK /\ Locals /\ Locks /\ Queues /\ Buffers /\ Hands /\ Flushes /\ Founds
    /\ DirtyCountExact

-----------------------------------------------------------------------------
(* Facts about the constants and the types *)

BufType == [id : Block \cup {NULL}, flags : SUBSET {"READ", "ASYNC", "ERROR", "DIRTY"},
            done : BOOLEAN, data : Nat, op : {"none", "read", "write"}]

ProcType == [pc : Label, for : {"none", "read", "overwrite", "main", "ahead"},
             op : {"none", "read", "modify", "overwrite", "write"},
             blk : Block \cup {NULL}, next : Block \cup {NULL},
             b : Bufs \cup {NULL}, main : Bufs \cup {NULL},
             dev : Device \cup {NULL}, i : 1 .. Len(Buf)]

\* What the proofs use of the assumption on the constants.
LEMMA Constants ==
    /\ NULL \notin Proc /\ NULL \notin Bufs /\ NULL \notin Block /\ NULL \notin Device
    /\ \A p \in User : p \notin Umounter /\ p \notin Swapper
    /\ \A p \in Umounter : p \notin Swapper
    /\ Buf \in Seq(Bufs) /\ NoRepeat(Buf) /\ Len(Buf) \in Nat \ {0}
    /\ \A i \in 1 .. Len(Buf) : Buf[i] \in Bufs
    /\ \A blk \in Block : Bucket(blk) \in Buckets /\ Dev(blk) \in Device
<1>1. Buf \in Seq(Bufs) /\ Buf # <<>> /\ IsInjective(Buf)
  BY CacheAssumption DEF Bufs
<1>2. Len(Buf) \in Nat \ {0} /\ \A i \in 1 .. Len(Buf) : Buf[i] \in Bufs
  BY <1>1
<1>3. NoRepeat(Buf)
  BY <1>1 DEF NoRepeat, IsInjective
<1>4. \A blk \in Block : Bucket(blk) \in Buckets /\ Dev(blk) \in Device
  BY DEF Buckets, Device
<1>5. /\ NULL \notin Proc /\ NULL \notin Bufs /\ NULL \notin Block /\ NULL \notin Device
      /\ User \cap (Umounter \cup Swapper) = {} /\ Umounter \cap Swapper = {}
  BY CacheAssumption DEF Bufs
<1> QED BY <1>1, <1>2, <1>3, <1>4, <1>5

\* The buffers are as many as the places of the table.
LEMMA BufCount == IsFiniteSet(Bufs) /\ Cardinality(Bufs) = Len(Buf)
<1> DEFINE n == Len(Buf)
<1>1. n \in Nat /\ Buf \in [1 .. n -> Bufs] /\ \A i, j \in 1 .. n : Buf[i] = Buf[j] => i = j
  BY Constants DEF NoRepeat
<1>2. Buf \in Bijection(1 .. n, Bufs)
  BY <1>1 DEF Bijection, Injection, Surjection, IsInjective, Bufs, ToSet
<1>3. IsFiniteSet(1 .. n) /\ Cardinality(1 .. n) = n
  BY <1>1, FS_Interval, SMTT(40)
<1> HIDE DEF n
<1>4. ExistsBijection(1 .. n, Bufs)
  BY <1>2 DEF ExistsBijection
<1>5. IsFiniteSet(Bufs) /\ Cardinality(Bufs) = Cardinality(1 .. n)
  BY <1>3, <1>4, FS_Bijection
<1> QED BY <1>3, <1>5 DEF n

\* The types of the fields, one by one.
LEMMA Types ==
    ASSUME TypeOK
    PROVE  /\ buf \in [Bufs -> BufType] /\ proc \in [Proc -> ProcType]
           /\ lock \in [Bufs -> Seq(Proc)] /\ hash \in [Buckets -> Seq(Bufs)]
           /\ \A b \in Bufs : /\ buf[b].id \in Block \cup {NULL}
                              /\ buf[b].flags \subseteq {"READ", "ASYNC", "ERROR", "DIRTY"}
                              /\ buf[b].done \in BOOLEAN /\ buf[b].data \in Nat
                              /\ buf[b].op \in {"none", "read", "write"}
           /\ \A p \in Proc : /\ proc[p].pc \in Label
                              /\ proc[p].for \in {"none", "read", "overwrite", "main", "ahead"}
                              /\ proc[p].op \in {"none", "read", "modify", "overwrite", "write"}
                              /\ proc[p].blk \in Block \cup {NULL} /\ proc[p].next \in Block \cup {NULL}
                              /\ proc[p].b \in Bufs \cup {NULL} /\ proc[p].main \in Bufs \cup {NULL}
                              /\ proc[p].dev \in Device \cup {NULL} /\ proc[p].i \in 1 .. Len(Buf)
<1>1. buf \in [Bufs -> BufType] /\ proc \in [Proc -> ProcType]
  BY DEF TypeOK, BufType, ProcType
<1>2. \A r \in BufType : /\ r.id \in Block \cup {NULL}
                         /\ r.flags \subseteq {"READ", "ASYNC", "ERROR", "DIRTY"}
                         /\ r.done \in BOOLEAN /\ r.data \in Nat
                         /\ r.op \in {"none", "read", "write"}
  BY DEF BufType
<1>3. \A r \in ProcType : /\ r.pc \in Label
                          /\ r.for \in {"none", "read", "overwrite", "main", "ahead"}
                          /\ r.op \in {"none", "read", "modify", "overwrite", "write"}
                          /\ r.blk \in Block \cup {NULL} /\ r.next \in Block \cup {NULL}
                          /\ r.b \in Bufs \cup {NULL} /\ r.main \in Bufs \cup {NULL}
                          /\ r.dev \in Device \cup {NULL} /\ r.i \in 1 .. Len(Buf)
  BY DEF ProcType
<1> QED BY <1>1, <1>2, <1>3 DEF TypeOK

-----------------------------------------------------------------------------
(* Who has which lock *)

\* The process that has the lock of a buffer is the only one; the others in its queue wait.
LEMMA Alone ==
    ASSUME IInv, NEW q \in Proc
    PROVE  /\ proc[q].pc \in Owning =>
                 proc[q].b \in Bufs /\ q \in ToSet(lock[proc[q].b]) /\ Head(lock[proc[q].b]) = q
           /\ proc[q].main # NULL =>
                 proc[q].main \in Bufs /\ q \in ToSet(lock[proc[q].main]) /\ Head(lock[proc[q].main]) = q
           /\ proc[q].pc \in Waiting /\ proc[q].b # NULL =>
                 proc[q].b \in Bufs /\ q \in ToSet(lock[proc[q].b])
<1>1. proc[q].b \in Bufs \cup {NULL} /\ proc[q].main \in Bufs \cup {NULL}
  BY Types DEF IInv
<1>2. Held(q) /\ \A b \in Bufs : q \in ToSet(lock[b]) <=> Wants(q, b)
  BY DEF IInv, Locks, LockOf
<1>3. proc[q].pc \in Owning =>
         proc[q].b \in Bufs /\ Head(lock[proc[q].b]) = q /\ Wants(q, proc[q].b)
  BY <1>1, <1>2 DEF Held, Wants
<1>4. proc[q].main # NULL =>
         proc[q].main \in Bufs /\ Head(lock[proc[q].main]) = q /\ Wants(q, proc[q].main)
  BY <1>1, <1>2 DEF Held, Wants
<1>5. proc[q].pc \in Waiting /\ proc[q].b # NULL => proc[q].b \in Bufs /\ Wants(q, proc[q].b)
  BY <1>1 DEF Wants
<1> QED BY <1>2, <1>3, <1>4, <1>5

\* The head of the queue of a lock.
LEMMA HeadWants ==
    ASSUME IInv, NEW b \in Bufs, lock[b] # <<>>
    PROVE  /\ Head(lock[b]) \in Proc /\ Head(lock[b]) \in ToSet(lock[b]) /\ Wants(Head(lock[b]), b)
           /\ Tail(lock[b]) \in Seq(Proc) /\ NoRepeat(Tail(lock[b]))
           /\ ToSet(Tail(lock[b])) = ToSet(lock[b]) \ {Head(lock[b])}
<1>1. lock[b] \in Seq(Proc) /\ NoRepeat(lock[b])
  BY Types DEF IInv, Locks, LockOf
<1>2. Len(lock[b]) > 0
  BY <1>1
<1>3. /\ Head(lock[b]) \in ToSet(lock[b]) /\ Head(lock[b]) \in Proc
      /\ Tail(lock[b]) \in Seq(Proc) /\ ToSet(Tail(lock[b])) = ToSet(lock[b]) \ {Head(lock[b])}
      /\ NoRepeat(Tail(lock[b]))
  BY <1>1, <1>2, TailElements
<1> QED BY <1>3 DEF IInv, Locks, LockOf

\* A process that is in a queue.
LEMMA InQueue ==
    ASSUME IInv, NEW b \in Bufs, NEW q \in ToSet(lock[b])
    PROVE  lock[b] # <<>> /\ q \in Proc /\ Wants(q, b)
<1>1. lock[b] \in Seq(Proc)
  BY Types DEF IInv
<1>2. q \in Proc /\ lock[b] # <<>>
  BY <1>1 DEF ToSet
<1> QED BY <1>2 DEF IInv, Locks, LockOf

-----------------------------------------------------------------------------
(* What a step of a process leaves alone *)

Others(p) == \A q \in Proc : q # p => proc'[q] = proc[q]

\* Only one process changes its code and its locals.
LEMMA LocalsKept ==
    ASSUME IInv, NEW p \in Proc, Others(p), LocalsOf(p)',
           proc'[p].pc \in UpdatePc => proc[p].pc \in UpdatePc \/ ~updlock,
           updlock' = updlock \/ updlock' \/ proc[p].pc \in UpdatePc
    PROVE  Locals'
<1>1. ASSUME NEW q \in Proc, q # p PROVE LocalsOf(q)'
  <2>1. LocalsOf(q) /\ proc'[q] = proc[q]
    BY <1>1 DEF IInv, Locals, Others
  <2>2. proc[q].pc \in UpdatePc => updlock'
    BY <1>1, <2>1 DEF IInv, Locals, LocalsOf
  <2> QED BY <2>1, <2>2 DEF LocalsOf
<1>2. ASSUME NEW q \in Proc, NEW r \in Proc, proc'[q].pc \in UpdatePc, proc'[r].pc \in UpdatePc
      PROVE  q = r
  <2>1. \A x \in Proc : proc[x].pc \in UpdatePc => updlock
    BY DEF IInv, Locals, LocalsOf
  <2> QED BY <1>2, <2>1 DEF IInv, Locals, Others
<1> QED BY <1>1, <1>2 DEF Locals

\* The locks stay as they are.
LEMMA LocksSame ==
    ASSUME IInv, NEW p \in Proc, Others(p), lock' = lock, Held(p)',
           \A b \in Bufs : Wants(p, b)' <=> Wants(p, b)
    PROVE  Locks'
<1>1. ASSUME NEW b \in Bufs PROVE LockOf(b)'
  <2>1. LockOf(b)
    BY DEF IInv, Locks
  <2>2. \A q \in Proc : Wants(q, b)' <=> Wants(q, b)
    BY DEF Others, Wants
  <2> QED BY <2>1, <2>2 DEF LockOf
<1>2. ASSUME NEW q \in Proc, q # p PROVE Held(q)'
  BY <1>2 DEF IInv, Locks, Held, Others
<1> QED BY <1>1, <1>2 DEF Locks

\* The process comes to the end of the queue of a lock.
LEMMA LocksTaken ==
    ASSUME IInv, NEW p \in Proc, NEW b \in Bufs, Others(p),
           lock' = [lock EXCEPT ![b] = Append(@, p)], Held(p)', ~Wants(p, b),
           \A c \in Bufs : Wants(p, c)' <=> Wants(p, c) \/ c = b
    PROVE  Locks'
<1>0. lock \in [Bufs -> Seq(Proc)] /\ lock[b] \in Seq(Proc) /\ LockOf(b)
  BY Types DEF IInv, Locks
<1>1. \A c \in Bufs : lock'[c] = IF c = b THEN Append(lock[b], p) ELSE lock[c]
  BY <1>0
<1>3. p \notin ToSet(lock[b]) /\ NoRepeat(lock[b])
  BY <1>0 DEF LockOf
<1>4. ToSet(lock'[b]) = ToSet(lock[b]) \cup {p} /\ NoRepeat(lock'[b])
  BY <1>0, <1>1, <1>3, AppendElements
<1>5. ASSUME NEW c \in Bufs PROVE LockOf(c)'
  <2>1. LockOf(c)
    BY DEF IInv, Locks
  <2>2. \A q \in Proc : q # p => (Wants(q, c)' <=> Wants(q, c))
    BY DEF Others, Wants
  <2>3. CASE c = b
    BY <1>4, <2>1, <2>2, <2>3 DEF LockOf
  <2>4. CASE c # b
    BY <1>1, <2>1, <2>2, <2>4 DEF LockOf
  <2> QED BY <2>3, <2>4
<1>6. \A c \in Bufs : lock[c] # <<>> => Head(lock'[c]) = Head(lock[c])
  BY <1>0, <1>1
<1>7. ASSUME NEW q \in Proc, q # p PROVE Held(q)'
  <2>1. proc'[q] = proc[q] /\ Held(q)
    BY <1>7 DEF Others, IInv, Locks
  <2>2. proc[q].main # NULL => lock[proc[q].main] # <<>> /\ proc[q].main \in Bufs
    BY Alone, InQueue
  <2>3. proc[q].pc \in Owning => lock[proc[q].b] # <<>> /\ proc[q].b \in Bufs
    BY Alone, InQueue
  <2> QED BY <1>6, <2>1, <2>2, <2>3 DEF Held
<1> QED BY <1>5, <1>7 DEF Locks

\* The process leaves a lock that it has.
LEMMA LocksFreed ==
    ASSUME IInv, NEW p \in Proc, NEW b \in Bufs, Others(p), Wants(p, b), Head(lock[b]) = p,
           lock' = [lock EXCEPT ![b] = Tail(@)], Held(p)',
           \A c \in Bufs : Wants(p, c)' <=> Wants(p, c) /\ c # b
    PROVE  Locks'
<1>0. lock \in [Bufs -> Seq(Proc)] /\ p \in ToSet(lock[b])
  BY Types DEF IInv, Locks, LockOf
<1>1. \A c \in Bufs : lock'[c] = IF c = b THEN Tail(lock[b]) ELSE lock[c]
  BY <1>0
<1>2. lock[b] # <<>>
  BY <1>0, InQueue
<1>3. NoRepeat(lock'[b]) /\ ToSet(lock'[b]) = ToSet(lock[b]) \ {p}
  BY <1>1, <1>2, HeadWants
<1>5. ASSUME NEW c \in Bufs PROVE LockOf(c)'
  <2>1. LockOf(c)
    BY DEF IInv, Locks
  <2>2. \A q \in Proc : q # p => (Wants(q, c)' <=> Wants(q, c))
    BY DEF Others, Wants
  <2>3. CASE c = b
    BY <1>3, <2>1, <2>2, <2>3 DEF LockOf
  <2>4. CASE c # b
    BY <1>1, <2>1, <2>2, <2>4 DEF LockOf
  <2> QED BY <2>3, <2>4
<1>7. ASSUME NEW q \in Proc, q # p PROVE Held(q)'
  <2>1. proc'[q] = proc[q] /\ Held(q)
    BY <1>7 DEF Others, IInv, Locks
  <2>2. proc[q].main # NULL => proc[q].main # b /\ proc[q].main \in Bufs
    BY <1>7, Alone
  <2>3. proc[q].pc \in Owning => proc[q].b # b /\ proc[q].b \in Bufs
    BY <1>7, Alone
  <2> QED BY <1>1, <2>1, <2>2, <2>3 DEF Held
<1> QED BY <1>5, <1>7 DEF Locks

\* The hash queues stay as they are.
LEMMA QueuesSame ==
    ASSUME IInv, hash' = hash, \A b \in Bufs : buf'[b].id = buf[b].id,
           block_lru' = block_lru \/ (NoRepeat(block_lru') /\ ToSet(block_lru') = Bufs)
    PROVE  Queues' /\ \A b \in Bufs : InHash(b)' <=> InHash(b)
<1>1. \A b \in Bufs : InHash(b)' <=> InHash(b)
  BY DEF InHash
<1>2. \A h \in Buckets : hash[h] \in Seq(Bufs)
  BY Types DEF IInv
<1>3. \A h \in Buckets : \A b \in ToSet(hash[h]) : b \in Bufs
  BY <1>2 DEF ToSet
<1> QED BY <1>1, <1>3 DEF IInv, Queues

\* The buffers stay as they are.
LEMMA BuffersSame ==
    ASSUME IInv, NEW p \in Proc, Others(p), UNCHANGED <<buf, hash, disk, latest>>,
           \A c \in Bufs : buf[c].op # "none" /\ Moves(p, c) => Moves(p, c)'
    PROVE  Buffers'
<1>1. \A b \in Bufs : InHash(b)' <=> InHash(b)
  BY DEF InHash
<1>2. ASSUME NEW b \in Bufs PROVE BufferOf(b)'
  <2>1. \A q \in Proc : buf[b].op # "none" /\ Moves(q, b) => Moves(q, b)'
    BY DEF Others, Moves
  <2> QED BY <1>1, <2>1 DEF IInv, Buffers, BufferOf, Has
<1>3. ASSUME NEW blk \in Block PROVE BlockOf(blk)'
  BY <1>1 DEF IInv, Buffers, BlockOf, Keeps, Has
<1> QED BY <1>2, <1>3 DEF Buffers

\* One buffer changes, and keeps its block.
LEMMA BufferChanged ==
    ASSUME IInv, NEW p \in Proc, NEW b \in Bufs, Others(p), UNCHANGED <<hash, disk, latest>>,
           \A c \in Bufs : c # b => buf'[c] = buf[c], buf'[b].id = buf[b].id, BufferOf(b)',
           Keeps(b) => Keeps(b)',
           \A c \in Bufs : c # b /\ buf[c].op # "none" /\ Moves(p, c) => Moves(p, c)'
    PROVE  Buffers'
<1>1. \A c \in Bufs : InHash(c)' <=> InHash(c)
  BY DEF InHash
<1>2. ASSUME NEW c \in Bufs, c # b PROVE BufferOf(c)'
  <2>1. \A q \in Proc : buf[c].op # "none" /\ Moves(q, c) => Moves(q, c)'
    BY <1>2 DEF Others, Moves
  <2>2. BufferOf(c) /\ buf'[c] = buf[c]
    BY <1>2 DEF IInv, Buffers
  <2> QED BY <1>1, <2>1, <2>2 DEF BufferOf, Has
<1>3. \A c \in Bufs : Keeps(c) => Keeps(c)' /\ buf'[c].id = buf[c].id
  BY <1>1 DEF Keeps, Has
<1>4. ASSUME NEW blk \in Block PROVE BlockOf(blk)'
  BY <1>3 DEF IInv, Buffers, BlockOf
<1> QED BY <1>2, <1>4 DEF Buffers

\* The buffers stay as they are, and what the other processes know of them.
LEMMA HandsSame ==
    ASSUME IInv, NEW p \in Proc, Others(p), UNCHANGED <<buf, hash>>, HandsOf(p)'
    PROVE  Hands'
<1>1. ASSUME NEW q \in Proc, q # p PROVE HandsOf(q)'
  <2>1. HandsOf(q) /\ proc'[q] = proc[q]
    BY <1>1 DEF Others, IInv, Hands
  <2> QED BY <2>1 DEF HandsOf, InHash, Has, Target
<1> QED BY <1>1 DEF Hands

\* The buffer that changes is not locked by another process.
LEMMA HandsKept ==
    ASSUME IInv, NEW p \in Proc, NEW b \in Bufs, Others(p), lock[b] = <<>> \/ Head(lock[b]) = p,
           \A c \in Bufs : c # b => buf'[c] = buf[c] /\ (InHash(c) => InHash(c)'), HandsOf(p)'
    PROVE  Hands'
<1>1. ASSUME NEW q \in Proc, q # p PROVE HandsOf(q)'
  <2>1. HandsOf(q) /\ proc'[q] = proc[q]
    BY <1>1 DEF Others, IInv, Hands
  <2>2. proc[q].pc \in Owning => proc[q].b \in Bufs \ {b}
    BY <1>1, Alone, InQueue
  <2>3. proc[q].main # NULL => proc[q].main \in Bufs \ {b}
    BY <1>1, Alone, InQueue
  <2>4. \A c \in Bufs \ {b} : buf'[c] = buf[c] /\ (InHash(c) => InHash(c)')
    OBVIOUS
  <2>5. Target(q)' = Target(q)
    BY <2>1 DEF Target
  <2> QED BY <2>1, <2>2, <2>3, <2>4, <2>5 DEF HandsOf, Has, Owning, InHash
<1> QED BY <1>1 DEF Hands

\* Another process waits in block_flush for the buffer.
OtherFlush(p, b) == \E q \in Proc \ {p} : proc[q].pc = "flush" /\ proc[q].b = b

\* The buffer, its lock and the process that has the lock stay as they are.
LEMMA FlushSame ==
    ASSUME NEW c \in Bufs, NEW h \in Proc, FlushOf(c), h = Head(lock[c]), Head(lock'[c]) = h,
           buf'[c] = buf[c], InHash(c) => InHash(c)', proc'[h] = proc[h]
    PROVE  FlushOf(c)'
<1>1. Has(c, "ERROR")' = Has(c, "ERROR")
  BY DEF Has
<1>2. buf'[c].id = NULL \/ InHash(c)'
  BY DEF FlushOf
<1> QED BY <1>1, <1>2 DEF FlushOf

\* Only the buffers locked by the process change.
LEMMA FlushesKept ==
    ASSUME IInv, NEW p \in Proc, Others(p),
           \A c \in Bufs : lock[c] # <<>> /\ Head(lock[c]) # p =>
               buf'[c] = buf[c] /\ (InHash(c) => InHash(c)') /\ Head(lock'[c]) = Head(lock[c]),
           \A c \in Bufs : lock[c] # <<>> /\ Head(lock[c]) = p /\ OtherFlush(p, c) /\ FlushOf(c) => FlushOf(c)',
           proc'[p].pc = "flush" /\ proc'[p].b # NULL => FlushOf(proc[p].b)'
    PROVE  Flushes'
<1>1. ASSUME NEW q \in Proc, q # p, proc'[q].pc = "flush", proc'[q].b # NULL
      PROVE  FlushOf(proc[q].b)'
  <2>1. proc'[q] = proc[q] /\ proc[q].pc = "flush" /\ proc[q].b # NULL
    BY <1>1 DEF Others
  <2>2. PICK c \in Bufs : c = proc[q].b /\ q \in ToSet(lock[c]) /\ lock[c] # <<>> /\ FlushOf(c)
    <3>1. proc[q].b \in Bufs /\ q \in ToSet(lock[proc[q].b]) /\ FlushOf(proc[q].b)
      BY <2>1, Alone DEF Waiting, IInv, Flushes
    <3> QED BY <3>1, InQueue
  <2>3. PICK h \in Proc : h = Head(lock[c])
    BY <2>2, HeadWants
  <2>4. OtherFlush(p, c)
    BY <1>1, <2>1, <2>2, SMTT(40) DEF OtherFlush
  <2>5. CASE h = p
    <3>1. FlushOf(c)'
      BY <2>2, <2>3, <2>4, <2>5
    <3> QED BY <2>1, <2>2, <3>1, ZenonT(60) DEF FlushOf, InHash, Has
  <2>6. CASE h # p
    <3>1. buf'[c] = buf[c] /\ (InHash(c) => InHash(c)') /\ Head(lock'[c]) = h /\ proc'[h] = proc[h]
      BY <2>2, <2>3, <2>6 DEF Others
    <3>2. FlushOf(c)'
      BY <2>2, <2>3, <3>1, FlushSame
    <3> QED BY <2>1, <2>2, <3>2, ZenonT(60) DEF FlushOf, InHash, Has
  <2> QED BY <2>5, <2>6
<1>2. ASSUME NEW q \in Proc, proc'[q].pc = "flush", proc'[q].b # NULL PROVE FlushOf(proc[q].b)'
  BY <1>1, <1>2
<1> QED BY <1>2 DEF Flushes

\* The buffers keep their blocks, and the process takes none that another one waits for.
LEMMA FoundsKept ==
    ASSUME IInv, NEW p \in Proc, Others(p), hash' = hash, \A c \in Bufs : buf'[c].id = buf[c].id,
           FoundOf(p)',
           proc'[p].pc \in Taking =>
               \/ proc[p].pc \in Taking /\ proc[p].b = proc'[p].b
               \/ lock[proc'[p].b] = <<>>
    PROVE  Founds'
<1>1. ASSUME NEW q \in Proc, q # p, proc[q].pc = "found" PROVE FoundOf(q)'
  <2>1. proc'[q] = proc[q] /\ FoundOf(q)
    BY <1>1 DEF Others, IInv, Founds
  <2>2. PICK c \in Bufs : c = proc[q].b /\ lock[c] # <<>>
    <3>1. proc[q].b # NULL
      BY <1>1 DEF IInv, Locks, Held
    <3> QED BY <1>1, <3>1, Alone, InQueue DEF Waiting
  <2>3. ASSUME NEW h \in Proc, proc'[h].pc \in Taking, proc'[h].b = c
        PROVE  proc[h].pc \in Taking /\ proc[h].b = c
    BY <2>2, <2>3 DEF Others
  <2>4. buf'[c].id = buf[c].id /\ Target(q)' = Target(q) /\ (InHash(c)' <=> InHash(c))
    BY <2>1 DEF Target, InHash
  <2> QED BY <1>1, <2>1, <2>2, <2>3, <2>4 DEF FoundOf, InHash
<1>2. ASSUME NEW q \in Proc, q # p, proc[q].pc # "found" PROVE FoundOf(q)'
  BY <1>2 DEF FoundOf, Others
<1> QED BY <1>1, <1>2 DEF Founds

-----------------------------------------------------------------------------
(* The count of dirty buffers *)

DirtyBufs == { b \in Bufs : Has(b, "DIRTY") }

\* No buffer becomes dirty or clean.
LEMMA DirtySame ==
    ASSUME IInv, dirty_cnt' = dirty_cnt, \A c \in Bufs : Has(c, "DIRTY")' <=> Has(c, "DIRTY")
    PROVE  DirtyCountExact'
<1>1. DirtyBufs' = DirtyBufs
  BY DEF DirtyBufs
<1>2. dirty_cnt = Cardinality(DirtyBufs)
  BY DEF IInv, DirtyCountExact, DirtyBufs
<1> QED BY <1>1, <1>2 DEF DirtyCountExact, DirtyBufs

\* One buffer is written or discarded.
LEMMA DirtyLess ==
    ASSUME IInv, NEW b \in Bufs, CountWithout(b), ~Has(b, "DIRTY")',
           \A c \in Bufs : c # b => (Has(c, "DIRTY")' <=> Has(c, "DIRTY"))
    PROVE  DirtyCountExact'
<1>1. DirtyBufs' = DirtyBufs \ {b}
  BY DEF DirtyBufs
<1>2. dirty_cnt = Cardinality(DirtyBufs) /\ DirtyBufs \subseteq Bufs
  BY DEF IInv, DirtyCountExact, DirtyBufs
<1>3. IsFiniteSet(DirtyBufs)
  BY <1>2, BufCount, FS_Subset
<1>4. b \in DirtyBufs <=> Has(b, "DIRTY")
  BY DEF DirtyBufs
<1> HIDE DEF DirtyBufs
<1>5. Cardinality(DirtyBufs \ {b}) = IF b \in DirtyBufs THEN Cardinality(DirtyBufs) - 1 ELSE Cardinality(DirtyBufs)
  BY <1>3, FS_RemoveElement
<1>6. dirty_cnt' = Cardinality(DirtyBufs')
  BY <1>1, <1>2, <1>4, <1>5 DEF CountWithout
<1> QED BY <1>6 DEF DirtyCountExact, DirtyBufs

\* One buffer becomes dirty.
LEMMA DirtyMore ==
    ASSUME IInv, NEW b \in Bufs, dirty_cnt' = IF Has(b, "DIRTY") THEN dirty_cnt ELSE dirty_cnt + 1,
           Has(b, "DIRTY")', \A c \in Bufs : c # b => (Has(c, "DIRTY")' <=> Has(c, "DIRTY"))
    PROVE  DirtyCountExact'
<1>1. DirtyBufs' = DirtyBufs \cup {b}
  BY DEF DirtyBufs
<1>2. dirty_cnt = Cardinality(DirtyBufs) /\ DirtyBufs \subseteq Bufs
  BY DEF IInv, DirtyCountExact, DirtyBufs
<1>3. IsFiniteSet(DirtyBufs)
  BY <1>2, BufCount, FS_Subset
<1>4. b \in DirtyBufs <=> Has(b, "DIRTY")
  BY DEF DirtyBufs
<1> HIDE DEF DirtyBufs
<1>5. Cardinality(DirtyBufs \cup {b}) = IF b \in DirtyBufs THEN Cardinality(DirtyBufs) ELSE Cardinality(DirtyBufs) + 1
  BY <1>3, FS_AddElement
<1>6. dirty_cnt' = Cardinality(DirtyBufs')
  BY <1>1, <1>2, <1>4, <1>5
<1> QED BY <1>6 DEF DirtyCountExact, DirtyBufs

-----------------------------------------------------------------------------
(* The properties follow *)

\* The properties, each from the parts of the invariant that it needs.
LEMMA ReadsFollow == IInv => ReadsLatest
<1> SUFFICES ASSUME IInv, NEW p \in User, proc[p].pc = "use", proc[p].op # "overwrite",
                    ~Has(proc[p].b, "ERROR")
             PROVE  /\ Owns(p) /\ Hashed(proc[p].blk) = {proc[p].b}
                    /\ buf[proc[p].b].data = latest[proc[p].blk]
  BY DEF ReadsLatest
<1> DEFINE b == proc[p].b
<1>0. p \in Proc
  BY DEF Proc
<1>1. b \in Bufs /\ Head(lock[b]) = p
  BY <1>0, Alone DEF Owning
<1>2. InHash(b) /\ buf[b].id = proc[p].blk /\ buf[b].done
  BY <1>0 DEF IInv, Hands, HandsOf
<1>3. buf[b].data = latest[proc[p].blk]
  BY <1>1, <1>2 DEF IInv, Buffers, BufferOf
<1>4. proc[p].blk \in Block
  BY <1>0 DEF IInv, Locals, LocalsOf, UserPc
<1>5. ASSUME NEW c \in Hashed(proc[p].blk) PROVE c = b
  <2>1. hash[Bucket(proc[p].blk)] \in Seq(Bufs)
    BY <1>4, Types, Constants DEF IInv
  <2>2. c \in Bufs /\ c \in ToSet(hash[Bucket(proc[p].blk)]) /\ buf[c].id = proc[p].blk
    BY <2>1 DEF Hashed, ToSet
  <2>3. InHash(c)
    BY <1>4, <2>2, Constants DEF InHash
  <2> QED BY <1>1, <1>2, <2>2, <2>3 DEF IInv, Queues
<1>6. b \in Hashed(proc[p].blk)
  BY <1>2 DEF InHash, Hashed
<1> QED BY <1>1, <1>3, <1>5, <1>6 DEF Owns

\* A buffer that the driver has is used by nobody.
LEMMA TransferFollows == IInv => OneTransfer
<1> SUFFICES ASSUME IInv, NEW b \in Bufs
             PROVE  /\ buf[b].op # "twice"
                    /\ buf[b].op # "none" => \A p \in User : proc[p].pc = "use" => proc[p].b # b
  BY DEF OneTransfer
<1>1. buf[b].op \in {"none", "read", "write"}
  BY Types DEF IInv
<1>2. \A p \in User : p \in Proc
  BY DEF Proc
<1> QED BY <1>1, <1>2 DEF IInv, Hands, HandsOf

\* What is written is kept by a buffer or by the disk.
LEMMA NothingLostFollows == IInv => NothingLost
BY DEF IInv, Buffers, BlockOf, Keeps, NothingLost

\* One buffer of a block at most, and every buffer in the list.
LEMMA HashFollows == IInv => HashExact
<1> SUFFICES ASSUME IInv PROVE HashExact
  OBVIOUS
<1>1. ASSUME NEW blk \in Block PROVE Cardinality(Hashed(blk)) <= 1
  <2>1. hash[Bucket(blk)] \in Seq(Bufs)
    BY Types, Constants DEF IInv
  <2>2. ASSUME NEW b \in Hashed(blk) PROVE b \in Bufs /\ InHash(b) /\ buf[b].id = blk
    <3>1. b \in Bufs /\ b \in ToSet(hash[Bucket(blk)]) /\ buf[b].id = blk
      BY <2>1 DEF Hashed, ToSet
    <3> QED BY <3>1, Constants DEF InHash
  <2>3. \A b, c \in Hashed(blk) : b = c
    BY <2>2 DEF IInv, Queues
  <2>4. CASE Hashed(blk) = {}
    <3>1. Cardinality(Hashed(blk)) = 0
      BY <2>4, FS_EmptySet
    <3> QED BY <3>1
  <2>5. CASE Hashed(blk) # {}
    <3>1. PICK b : Hashed(blk) = {b}
      BY <2>3, <2>5
    <3>2. Cardinality(Hashed(blk)) = 1
      BY <3>1, FS_Singleton
    <3> QED BY <3>2
  <2> QED BY <2>4, <2>5
<1>2. ASSUME NEW h \in Buckets
      PROVE  IsInjective(hash[h]) /\ \A b \in ToSet(hash[h]) : buf[b].id # NULL /\ Bucket(buf[b].id) = h
  BY DEF IInv, Queues, NoRepeat, IsInjective
<1>3. Len(block_lru) = Len(Buf) /\ ToSet(block_lru) = Bufs
  <2> DEFINE n == Len(block_lru)
  <2>1. n \in Nat /\ block_lru \in [1 .. n -> Bufs] /\ \A i, j \in 1 .. n : block_lru[i] = block_lru[j] => i = j
    BY SMTT(40) DEF IInv, TypeOK, Queues, NoRepeat
  <2>2. ToSet(block_lru) = Bufs /\ DOMAIN block_lru = 1 .. n
    BY <2>1 DEF IInv, Queues
  <2>3. block_lru \in Bijection(1 .. n, Bufs)
    BY <2>1, <2>2 DEF Bijection, Injection, Surjection, IsInjective, ToSet
  <2>4. IsFiniteSet(1 .. n) /\ Cardinality(1 .. n) = n
    BY <2>1, FS_Interval, SMTT(40)
  <2> HIDE DEF n
  <2>5. ExistsBijection(1 .. n, Bufs)
    BY <2>3 DEF ExistsBijection
  <2>6. Cardinality(Bufs) = Cardinality(1 .. n)
    BY <2>4, <2>5, FS_Bijection
  <2> QED BY <2>2, <2>4, <2>6, BufCount DEF n
<1> QED BY <1>1, <1>2, <1>3 DEF HashExact

-----------------------------------------------------------------------------
(* Steps that only move a process *)

\* The fields of a process after a step that changes some of them.
Becomes(p, pc, for, b, main, i) ==
    /\ Others(p) /\ proc' \in [Proc -> ProcType]
    /\ proc'[p].pc = pc /\ proc'[p].for = for /\ proc'[p].b = b /\ proc'[p].main = main /\ proc'[p].i = i
    /\ proc'[p].op = proc[p].op /\ proc'[p].blk = proc[p].blk /\ proc'[p].next = proc[p].next
    /\ proc'[p].dev = proc[p].dev

\* The process is back from the system call, or out of umount.
Returns(p) == Others(p) /\ proc' \in [Proc -> ProcType] /\ proc'[p] = Idle

\* A process out of the system calls.
LEMMA IdleType == Idle \in ProcType
BY Constants DEF Idle, ProcType, Label

\* A step that changes neither the buffers nor the locks.
LEMMA WalkKeeps ==
    ASSUME IInv, NEW p \in Proc, Others(p), proc' \in [Proc -> ProcType],
           UNCHANGED <<buf, lock, hash, dirty_cnt, disk, latest>>,
           \/ block_lru' = block_lru
           \/ block_lru' \in Seq(Bufs) /\ NoRepeat(block_lru') /\ ToSet(block_lru') = Bufs,
           mounted' \subseteq Device, updlock' \in BOOLEAN, cpu' \in Proc \cup {NULL},
           LocalsOf(p)', proc'[p].pc \in UpdatePc => proc[p].pc \in UpdatePc \/ ~updlock,
           updlock' = updlock \/ updlock' \/ proc[p].pc \in UpdatePc,
           \A c \in Bufs : Wants(p, c)' <=> Wants(p, c), Held(p)', HandsOf(p)',
           \A c \in Bufs : buf[c].op # "none" /\ Moves(p, c) => Moves(p, c)',
           proc[p].pc # "writing", proc'[p].pc \notin {"found", "lruwrite", "lruasync", "reuse"},
           proc'[p].pc = "flush" => proc'[p].b = NULL
    PROVE  IInv'
<1>1. TypeOK'
  BY DEF IInv, TypeOK, ProcType
<1>2. Locals'
  BY LocalsKept
<1>3. Locks'
  BY LocksSame
<1>4. Queues'
  BY QueuesSame
<1>5. Buffers'
  BY BuffersSame
<1>6. Hands'
  BY HandsSame
<1>7. Flushes'
  <2>1. \A c \in Bufs : buf'[c] = buf[c] /\ (InHash(c) => InHash(c)') /\ Head(lock'[c]) = Head(lock[c])
    BY DEF InHash
  <2>2. ASSUME NEW c \in Bufs, Head(lock[c]) = p, FlushOf(c) PROVE FlushOf(c)'
    BY <2>2 DEF FlushOf, InHash, Has
  <2> QED BY <2>1, <2>2, FlushesKept
<1>8. DirtyCountExact'
  BY DirtySame DEF Has
<1>9. Founds'
  BY FoundsKept DEF FoundOf, Taking
<1> QED BY <1>1, <1>2, <1>3, <1>4, <1>5, <1>6, <1>7, <1>8, <1>9 DEF IInv

\* What a step needs to know of the process that makes it.
LEMMA Actor ==
    ASSUME IInv, NEW p \in Proc
    PROVE  /\ LocalsOf(p) /\ Held(p) /\ HandsOf(p) /\ proc[p] \in ProcType
           /\ proc \in [Proc -> ProcType] /\ buf \in [Bufs -> BufType]
           /\ mounted \subseteq Device /\ updlock \in BOOLEAN /\ cpu \in Proc \cup {NULL}
BY Types DEF IInv, Locals, Locks, Hands, TypeOK

\* A block is to be written whole.
LEMMA OverwriteKeeps ==
    ASSUME IInv, NEW p \in Proc, Overwrite(p)
    PROVE  IInv'
<1>1. LocalsOf(p) /\ Held(p) /\ HandsOf(p) /\ TypeOK /\ proc \in [Proc -> ProcType]
  BY Actor DEF IInv
<1>2. Becomes(p, "use", proc[p].for, proc[p].b, proc[p].main, proc[p].i)
  <2>1. proc[p] \in ProcType
    BY <1>1
  <2>2. [proc[p] EXCEPT !.pc = "use"] \in ProcType
    BY <2>1 DEF ProcType, Label
  <2>3. proc' = [proc EXCEPT ![p] = [proc[p] EXCEPT !.pc = "use"]]
    BY DEF Overwrite, Kept, At
  <2> QED BY <1>1, <2>1, <2>2, <2>3 DEF Becomes, Others, ProcType
<1>3. /\ proc[p].pc = "keep" /\ proc[p].for = "overwrite"
      /\ UNCHANGED <<buf, lock, block_lru, hash, dirty_cnt, disk, latest, mounted, updlock>>
      /\ cpu' \in Proc \cup {NULL}
  BY <1>1 DEF Overwrite, Kept, At, At, TypeOK
<1>4. LocalsOf(p)'
  BY <1>1, <1>2, <1>3, Constants DEF LocalsOf, Becomes, UserPc, UserGet, UpdatePc, Label
<1>5. \A c \in Bufs : Wants(p, c)' <=> Wants(p, c)
  BY <1>1, <1>2, <1>3, Constants DEF Wants, Becomes, Owning, Waiting, LocalsOf, UserPc, UserGet
<1>6. Held(p)'
  BY <1>1, <1>2, <1>3 DEF Held, Becomes, Owning
<1>7. HandsOf(p)'
  BY <1>1, <1>2, <1>3 DEF HandsOf, LocalsOf, Becomes, Target, InHash, Has, UserGet, UserPc
<1>8. \A c \in Bufs : buf[c].op # "none" /\ Moves(p, c) => Moves(p, c)'
  BY <1>1, <1>2, <1>3, Constants DEF Moves, Becomes, LocalsOf, UserPc, UserGet
<1>9. /\ Others(p) /\ proc' \in [Proc -> ProcType]
      /\ proc[p].pc # "writing" /\ proc'[p].pc \notin {"found", "lruwrite", "lruasync", "reuse"}
      /\ proc'[p].pc = "flush" => proc'[p].b = NULL
      /\ proc'[p].pc \in UpdatePc => proc[p].pc \in UpdatePc \/ ~updlock
      /\ updlock' = updlock \/ updlock' \/ proc[p].pc \in UpdatePc
  BY <1>1, <1>2, <1>3 DEF Becomes, LocalsOf, UserPc, UserGet, UpdatePc
<1> QED BY <1>1, <1>3, <1>4, <1>5, <1>6, <1>7, <1>8, <1>9, WalkKeeps DEF TypeOK

\* The begin of breada.
LEMMA AheadMainKeeps ==
    ASSUME IInv, NEW p \in Proc, AheadMain(p)
    PROVE  IInv'
<1>1. LocalsOf(p) /\ Held(p) /\ HandsOf(p) /\ TypeOK /\ proc \in [Proc -> ProcType]
  BY Actor DEF IInv
<1> DEFINE pc == IF BlockInCore(proc[p].blk) THEN "breada2" ELSE "get"
<1>pc. pc \in {"breada2", "get"}
  OBVIOUS
<1> HIDE DEF pc
<1>2. Becomes(p, pc, "main", proc[p].b, proc[p].main, proc[p].i)
  <2>1. proc[p] \in ProcType
    BY <1>1
  <2>2. [proc[p] EXCEPT !.pc = pc, !.for = "main"] \in ProcType
    BY <1>pc, <2>1 DEF ProcType, Label
  <2>3. proc' = [proc EXCEPT ![p] = [proc[p] EXCEPT !.pc = pc, !.for = "main"]]
    BY DEF AheadMain, pc
  <2> QED BY <1>1, <2>1, <2>2, <2>3 DEF Becomes, Others, ProcType
<1>3. /\ proc[p].pc = "breada"
      /\ UNCHANGED <<buf, lock, block_lru, hash, dirty_cnt, disk, latest, mounted, updlock>>
      /\ cpu' \in Proc \cup {NULL}
  BY <1>1 DEF AheadMain, At, TypeOK, pc
<1>4. LocalsOf(p)'
  BY <1>pc, <1>1, <1>2, <1>3, Constants DEF LocalsOf, Becomes, UserPc, UserGet, UpdatePc, Label
<1>5. \A c \in Bufs : Wants(p, c)' <=> Wants(p, c)
  BY <1>pc, <1>1, <1>2, <1>3, Constants DEF Wants, Becomes, Owning, Waiting, LocalsOf, UserPc, UserGet
<1>6. Held(p)'
  BY <1>pc, <1>1, <1>2, <1>3 DEF Held, Becomes, Owning
<1>7. HandsOf(p)'
  BY <1>pc, <1>1, <1>2, <1>3 DEF HandsOf, LocalsOf, Becomes, Target, InHash, Has, UserGet, UserPc
<1>8. \A c \in Bufs : buf[c].op # "none" /\ Moves(p, c) => Moves(p, c)'
  BY <1>pc, <1>1, <1>2, <1>3, Constants DEF Moves, Becomes, LocalsOf, UserPc, UserGet
<1>9. /\ Others(p) /\ proc' \in [Proc -> ProcType]
      /\ proc[p].pc # "writing" /\ proc'[p].pc \notin {"found", "lruwrite", "lruasync", "reuse"}
      /\ proc'[p].pc = "flush" => proc'[p].b = NULL
      /\ proc'[p].pc \in UpdatePc => proc[p].pc \in UpdatePc \/ ~updlock
      /\ updlock' = updlock \/ updlock' \/ proc[p].pc \in UpdatePc
  BY <1>pc, <1>1, <1>2, <1>3 DEF Becomes, LocalsOf, UserPc, UserGet, UpdatePc
<1> QED BY <1>1, <1>3, <1>4, <1>5, <1>6, <1>7, <1>8, <1>9, WalkKeeps DEF TypeOK

\* breada goes on to the next block.
LEMMA AheadNextKeeps ==
    ASSUME IInv, NEW p \in Proc, AheadNext(p)
    PROVE  IInv'
<1>1. LocalsOf(p) /\ Held(p) /\ HandsOf(p) /\ TypeOK /\ proc \in [Proc -> ProcType]
  BY Actor DEF IInv
<1> DEFINE pc == IF proc[p].next = proc[p].blk \/ BlockInCore(proc[p].next) THEN "breada3" ELSE "get"
<1>pc. pc \in {"breada3", "get"}
  OBVIOUS
<1> HIDE DEF pc
<1>2. Becomes(p, pc, "ahead", proc[p].b, proc[p].main, proc[p].i)
  <2>1. proc[p] \in ProcType
    BY <1>1
  <2>2. [proc[p] EXCEPT !.for = "ahead", !.pc = pc] \in ProcType
    BY <1>pc, <2>1 DEF ProcType, Label
  <2>3. proc' = [proc EXCEPT ![p] = [proc[p] EXCEPT !.for = "ahead", !.pc = pc]]
    BY DEF AheadNext, pc
  <2> QED BY <1>1, <2>1, <2>2, <2>3 DEF Becomes, Others, ProcType
<1>3. /\ proc[p].pc = "breada2" /\ (pc = "get" => proc[p].next # proc[p].blk)
      /\ UNCHANGED <<buf, lock, block_lru, hash, dirty_cnt, disk, latest, mounted, updlock>>
      /\ cpu' \in Proc \cup {NULL}
  BY <1>1 DEF AheadNext, At, TypeOK, pc
<1>4. LocalsOf(p)'
  BY <1>pc, <1>1, <1>2, <1>3, Constants DEF LocalsOf, Becomes, UserPc, UserGet, UpdatePc, Label
<1>5. \A c \in Bufs : Wants(p, c)' <=> Wants(p, c)
  BY <1>pc, <1>1, <1>2, <1>3, Constants DEF Wants, Becomes, Owning, Waiting, LocalsOf, UserPc, UserGet
<1>6. Held(p)'
  BY <1>pc, <1>1, <1>2, <1>3 DEF Held, Becomes, Owning
<1>7. HandsOf(p)'
  BY <1>pc, <1>1, <1>2, <1>3 DEF HandsOf, LocalsOf, Becomes, Target, InHash, Has, UserGet, UserPc
<1>8. \A c \in Bufs : buf[c].op # "none" /\ Moves(p, c) => Moves(p, c)'
  BY <1>pc, <1>1, <1>2, <1>3, Constants DEF Moves, Becomes, LocalsOf, UserPc, UserGet
<1>9. /\ Others(p) /\ proc' \in [Proc -> ProcType]
      /\ proc[p].pc # "writing" /\ proc'[p].pc \notin {"found", "lruwrite", "lruasync", "reuse"}
      /\ proc'[p].pc = "flush" => proc'[p].b = NULL
      /\ proc'[p].pc \in UpdatePc => proc[p].pc \in UpdatePc \/ ~updlock
      /\ updlock' = updlock \/ updlock' \/ proc[p].pc \in UpdatePc
  BY <1>pc, <1>1, <1>2, <1>3 DEF Becomes, LocalsOf, UserPc, UserGet, UpdatePc
<1> QED BY <1>1, <1>3, <1>4, <1>5, <1>6, <1>7, <1>8, <1>9, WalkKeeps DEF TypeOK

\* The transfer of a block read is done.
LEMMA ReadDoneKeeps ==
    ASSUME IInv, NEW p \in Proc, ReadDone(p)
    PROVE  IInv'
<1>1. LocalsOf(p) /\ Held(p) /\ HandsOf(p) /\ TypeOK /\ proc \in [Proc -> ProcType]
  BY Actor DEF IInv
<1>done. proc[p].b \in Bufs /\ buf[proc[p].b].op = "none"
  <2>1. proc[p].pc = "reading" /\ buf[proc[p].b].done
    BY DEF ReadDone, At
  <2>2. proc[p].b \in Bufs
    BY <2>1, Alone DEF Owning
  <2> QED BY <2>1, <2>2 DEF IInv, Buffers, BufferOf
<1>2. Becomes(p, "use", proc[p].for, proc[p].b, proc[p].main, proc[p].i)
  <2>1. proc[p] \in ProcType
    BY <1>1
  <2>2. [proc[p] EXCEPT !.pc = "use"] \in ProcType
    BY <2>1 DEF ProcType, Label
  <2>3. proc' = [proc EXCEPT ![p] = [proc[p] EXCEPT !.pc = "use"]]
    BY DEF ReadDone
  <2> QED BY <1>1, <2>1, <2>2, <2>3 DEF Becomes, Others, ProcType
<1>3. /\ proc[p].pc = "reading" /\ buf[proc[p].b].done
      /\ UNCHANGED <<buf, lock, block_lru, hash, dirty_cnt, disk, latest, mounted, updlock>>
      /\ cpu' \in Proc \cup {NULL}
  BY <1>1 DEF ReadDone, At, TypeOK
<1>4. LocalsOf(p)'
  BY <1>done, <1>1, <1>2, <1>3, Constants DEF LocalsOf, Becomes, UserPc, UserGet, UpdatePc, Label
<1>5. \A c \in Bufs : Wants(p, c)' <=> Wants(p, c)
  BY <1>done, <1>1, <1>2, <1>3, Constants DEF Wants, Becomes, Owning, Waiting, LocalsOf, UserPc, UserGet
<1>6. Held(p)'
  BY <1>done, <1>1, <1>2, <1>3 DEF Held, Becomes, Owning
<1>7. HandsOf(p)'
  BY <1>done, <1>1, <1>2, <1>3 DEF HandsOf, LocalsOf, Becomes, Target, InHash, Has, UserGet, UserPc
<1>8. \A c \in Bufs : buf[c].op # "none" /\ Moves(p, c) => Moves(p, c)'
  BY <1>done, <1>1, <1>2, <1>3, Constants DEF Moves, Becomes, LocalsOf, UserPc, UserGet
<1>9. /\ Others(p) /\ proc' \in [Proc -> ProcType]
      /\ proc[p].pc # "writing" /\ proc'[p].pc \notin {"found", "lruwrite", "lruasync", "reuse"}
      /\ proc'[p].pc = "flush" => proc'[p].b = NULL
      /\ proc'[p].pc \in UpdatePc => proc[p].pc \in UpdatePc \/ ~updlock
      /\ updlock' = updlock \/ updlock' \/ proc[p].pc \in UpdatePc
  BY <1>done, <1>1, <1>2, <1>3 DEF Becomes, LocalsOf, UserPc, UserGet, UpdatePc
<1> QED BY <1>1, <1>3, <1>4, <1>5, <1>6, <1>7, <1>8, <1>9, WalkKeeps DEF TypeOK

\* The inodes are written.
LEMMA UpdateInodesKeeps ==
    ASSUME IInv, NEW p \in Proc, UpdateInodes(p)
    PROVE  IInv'
<1>1. LocalsOf(p) /\ Held(p) /\ HandsOf(p) /\ TypeOK /\ proc \in [Proc -> ProcType]
  BY Actor DEF IInv
<1> DEFINE pc == IF p \in Umounter THEN "flush" ELSE "updated"
<1>pc. pc \in {"flush", "updated"}
  OBVIOUS
<1> HIDE DEF pc
<1>2. Becomes(p, pc, proc[p].for, proc[p].b, proc[p].main, proc[p].i)
  <2>1. proc[p] \in ProcType
    BY <1>1
  <2>2. [proc[p] EXCEPT !.pc = pc] \in ProcType
    BY <1>pc, <2>1 DEF ProcType, Label
  <2>3. proc' = [proc EXCEPT ![p] = [proc[p] EXCEPT !.pc = pc]]
    BY DEF UpdateInodes, pc
  <2> QED BY <1>1, <2>1, <2>2, <2>3 DEF Becomes, Others, ProcType
<1>3. /\ proc[p].pc = "inodes" /\ (pc = "flush" <=> p \in Umounter)
      /\ UNCHANGED <<buf, lock, block_lru, hash, dirty_cnt, disk, latest, mounted, updlock>>
      /\ cpu' \in Proc \cup {NULL}
  BY <1>1 DEF UpdateInodes, At, TypeOK, pc
<1>4. LocalsOf(p)'
  BY <1>pc, <1>1, <1>2, <1>3, Constants DEF LocalsOf, Becomes, UserPc, UserGet, UpdatePc, Label
<1>5. \A c \in Bufs : Wants(p, c)' <=> Wants(p, c)
  BY <1>pc, <1>1, <1>2, <1>3, Constants DEF Wants, Becomes, Owning, Waiting, LocalsOf, UserPc, UserGet
<1>6. Held(p)'
  BY <1>pc, <1>1, <1>2, <1>3 DEF Held, Becomes, Owning
<1>7. HandsOf(p)'
  BY <1>pc, <1>1, <1>2, <1>3 DEF HandsOf, LocalsOf, Becomes, Target, InHash, Has, UserGet, UserPc
<1>8. \A c \in Bufs : buf[c].op # "none" /\ Moves(p, c) => Moves(p, c)'
  BY <1>pc, <1>1, <1>2, <1>3, Constants DEF Moves, Becomes, LocalsOf, UserPc, UserGet
<1>9. /\ Others(p) /\ proc' \in [Proc -> ProcType]
      /\ proc[p].pc # "writing" /\ proc'[p].pc \notin {"found", "lruwrite", "lruasync", "reuse"}
      /\ proc'[p].pc = "flush" => proc'[p].b = NULL
      /\ proc'[p].pc \in UpdatePc => proc[p].pc \in UpdatePc \/ ~updlock
      /\ updlock' = updlock \/ updlock' \/ proc[p].pc \in UpdatePc
  BY <1>pc, <1>1, <1>2, <1>3 DEF Becomes, LocalsOf, UserPc, UserGet, UpdatePc
<1> QED BY <1>1, <1>3, <1>4, <1>5, <1>6, <1>7, <1>8, <1>9, WalkKeeps DEF TypeOK

\* The umount of a device that is used.
LEMMA UmountBusyKeeps ==
    ASSUME IInv, NEW p \in Proc, UmountBusy(p)
    PROVE  IInv'
<1>1. LocalsOf(p) /\ Held(p) /\ HandsOf(p) /\ TypeOK /\ proc \in [Proc -> ProcType]
  BY Actor DEF IInv
<1>2. Returns(p)
  BY <1>1, IdleType DEF UmountBusy, Returns, Others
<1>3. /\ proc[p].pc = "umount"
      /\ UNCHANGED <<buf, lock, block_lru, hash, dirty_cnt, disk, latest, mounted, updlock>>
      /\ cpu' \in Proc \cup {NULL}
  BY <1>1 DEF UmountBusy, At, TypeOK
<1>4. LocalsOf(p)'
  BY <1>1, <1>2, <1>3, Constants DEF LocalsOf, Returns, Idle, UserPc, UserGet, UpdatePc, Label
<1>5. \A c \in Bufs : Wants(p, c)' <=> Wants(p, c)
  BY <1>1, <1>2, <1>3, Constants DEF Wants, Returns, Idle, Owning, Waiting, LocalsOf, UserPc, UserGet
<1>6. Held(p)'
  BY <1>1, <1>2, <1>3 DEF Held, Returns, Idle, Owning
<1>7. HandsOf(p)'
  BY <1>1, <1>2, <1>3 DEF HandsOf, LocalsOf, Returns, Idle, Target, InHash, Has, UserGet, UserPc
<1>8. \A c \in Bufs : buf[c].op # "none" /\ Moves(p, c) => Moves(p, c)'
  BY <1>1, <1>2, <1>3, Constants DEF Moves, Returns, Idle, LocalsOf, UserPc, UserGet
<1>9. /\ Others(p) /\ proc' \in [Proc -> ProcType]
      /\ proc[p].pc # "writing" /\ proc'[p].pc \notin {"found", "lruwrite", "lruasync", "reuse"}
      /\ proc'[p].pc = "flush" => proc'[p].b = NULL
      /\ proc'[p].pc \in UpdatePc => proc[p].pc \in UpdatePc \/ ~updlock
      /\ updlock' = updlock \/ updlock' \/ proc[p].pc \in UpdatePc
  BY <1>1, <1>2, <1>3 DEF Returns, Idle, LocalsOf, UserPc, UserGet, UpdatePc
<1> QED BY <1>1, <1>3, <1>4, <1>5, <1>6, <1>7, <1>8, <1>9, WalkKeeps DEF TypeOK

\* The device is taken from the mounted ones.
LEMMA UmountKeeps ==
    ASSUME IInv, NEW p \in Proc, Umount(p)
    PROVE  IInv'
<1>1. LocalsOf(p) /\ Held(p) /\ HandsOf(p) /\ TypeOK /\ proc \in [Proc -> ProcType]
  BY Actor DEF IInv
<1>2. Becomes(p, "discard", proc[p].for, proc[p].b, proc[p].main, proc[p].i)
  <2>1. proc[p] \in ProcType
    BY <1>1
  <2>2. [proc[p] EXCEPT !.pc = "discard"] \in ProcType
    BY <2>1 DEF ProcType, Label
  <2>3. proc' = [proc EXCEPT ![p] = [proc[p] EXCEPT !.pc = "discard"]]
    BY DEF Umount
  <2> QED BY <1>1, <2>1, <2>2, <2>3 DEF Becomes, Others, ProcType
<1>3. /\ proc[p].pc = "umount"
      /\ UNCHANGED <<buf, lock, block_lru, hash, dirty_cnt, disk, latest, updlock>> /\ mounted' \subseteq Device
      /\ cpu' \in Proc \cup {NULL}
  BY <1>1 DEF Umount, At, TypeOK
<1>4. LocalsOf(p)'
  BY <1>1, <1>2, <1>3, Constants DEF LocalsOf, Becomes, UserPc, UserGet, UpdatePc, Label
<1>5. \A c \in Bufs : Wants(p, c)' <=> Wants(p, c)
  BY <1>1, <1>2, <1>3, Constants DEF Wants, Becomes, Owning, Waiting, LocalsOf, UserPc, UserGet
<1>6. Held(p)'
  BY <1>1, <1>2, <1>3 DEF Held, Becomes, Owning
<1>7. HandsOf(p)'
  BY <1>1, <1>2, <1>3 DEF HandsOf, LocalsOf, Becomes, Target, InHash, Has, UserGet, UserPc
<1>8. \A c \in Bufs : buf[c].op # "none" /\ Moves(p, c) => Moves(p, c)'
  BY <1>1, <1>2, <1>3, Constants DEF Moves, Becomes, LocalsOf, UserPc, UserGet
<1>9. /\ Others(p) /\ proc' \in [Proc -> ProcType]
      /\ proc[p].pc # "writing" /\ proc'[p].pc \notin {"found", "lruwrite", "lruasync", "reuse"}
      /\ proc'[p].pc = "flush" => proc'[p].b = NULL
      /\ proc'[p].pc \in UpdatePc => proc[p].pc \in UpdatePc \/ ~updlock
      /\ updlock' = updlock \/ updlock' \/ proc[p].pc \in UpdatePc
  BY <1>1, <1>2, <1>3 DEF Becomes, LocalsOf, UserPc, UserGet, UpdatePc
<1> QED BY <1>1, <1>3, <1>4, <1>5, <1>6, <1>7, <1>8, <1>9, WalkKeeps DEF TypeOK

\* The device is mounted again.
LEMMA MountKeeps ==
    ASSUME IInv, NEW p \in Proc, Mount(p)
    PROVE  IInv'
<1>1. LocalsOf(p) /\ Held(p) /\ HandsOf(p) /\ TypeOK /\ proc \in [Proc -> ProcType]
  BY Actor DEF IInv
<1>2. Returns(p)
  BY <1>1, IdleType DEF Mount, Returns, Others
<1>3. /\ proc[p].pc = "mount"
      /\ UNCHANGED <<buf, lock, block_lru, hash, dirty_cnt, disk, latest, updlock>> /\ mounted' \subseteq Device
      /\ cpu' \in Proc \cup {NULL}
  BY <1>1, Constants DEF Mount, At, TypeOK, LocalsOf, Proc, UserPc, UserGet
<1>4. LocalsOf(p)'
  BY <1>1, <1>2, <1>3, Constants DEF LocalsOf, Returns, Idle, UserPc, UserGet, UpdatePc, Label
<1>5. \A c \in Bufs : Wants(p, c)' <=> Wants(p, c)
  BY <1>1, <1>2, <1>3, Constants DEF Wants, Returns, Idle, Owning, Waiting, LocalsOf, UserPc, UserGet
<1>6. Held(p)'
  BY <1>1, <1>2, <1>3 DEF Held, Returns, Idle, Owning
<1>7. HandsOf(p)'
  BY <1>1, <1>2, <1>3 DEF HandsOf, LocalsOf, Returns, Idle, Target, InHash, Has, UserGet, UserPc
<1>8. \A c \in Bufs : buf[c].op # "none" /\ Moves(p, c) => Moves(p, c)'
  BY <1>1, <1>2, <1>3, Constants DEF Moves, Returns, Idle, LocalsOf, UserPc, UserGet
<1>9. /\ Others(p) /\ proc' \in [Proc -> ProcType]
      /\ proc[p].pc # "writing" /\ proc'[p].pc \notin {"found", "lruwrite", "lruasync", "reuse"}
      /\ proc'[p].pc = "flush" => proc'[p].b = NULL
      /\ proc'[p].pc \in UpdatePc => proc[p].pc \in UpdatePc \/ ~updlock
      /\ updlock' = updlock \/ updlock' \/ proc[p].pc \in UpdatePc
  BY <1>1, <1>2, <1>3 DEF Returns, Idle, LocalsOf, UserPc, UserGet, UpdatePc
<1> QED BY <1>1, <1>3, <1>4, <1>5, <1>6, <1>7, <1>8, <1>9, WalkKeeps DEF TypeOK

\* The end of an update.
LEMMA UpdateEndKeeps ==
    ASSUME IInv, NEW p \in Proc, UpdateEnd(p)
    PROVE  IInv'
<1>1. LocalsOf(p) /\ Held(p) /\ HandsOf(p) /\ TypeOK /\ proc \in [Proc -> ProcType]
  BY Actor DEF IInv
<1> DEFINE pc == IF p \in Umounter THEN "umount" ELSE "idle"
<1>pc. pc \in {"umount", "idle"}
  OBVIOUS
<1> HIDE DEF pc
<1>2. Becomes(p, pc, proc[p].for, proc[p].b, proc[p].main, proc[p].i)
  <2>1. proc[p] \in ProcType
    BY <1>1
  <2>2. [proc[p] EXCEPT !.pc = pc] \in ProcType
    BY <1>pc, <2>1 DEF ProcType, Label
  <2>3. proc' = [proc EXCEPT ![p] = [proc[p] EXCEPT !.pc = pc]]
    BY DEF UpdateEnd, pc
  <2> QED BY <1>1, <2>1, <2>2, <2>3 DEF Becomes, Others, ProcType
<1>3. /\ proc[p].pc = "updated" /\ (pc = "umount" <=> p \in Umounter)
      /\ UNCHANGED <<buf, lock, block_lru, hash, dirty_cnt, disk, latest, mounted>> /\ updlock' \in BOOLEAN
      /\ cpu' \in Proc \cup {NULL}
  BY <1>1, Constants DEF UpdateEnd, At, TypeOK, pc
<1>4. LocalsOf(p)'
  BY <1>pc, <1>1, <1>2, <1>3, Constants DEF LocalsOf, Becomes, UserPc, UserGet, UpdatePc, Label
<1>5. \A c \in Bufs : Wants(p, c)' <=> Wants(p, c)
  BY <1>pc, <1>1, <1>2, <1>3, Constants DEF Wants, Becomes, Owning, Waiting, LocalsOf, UserPc, UserGet
<1>6. Held(p)'
  BY <1>pc, <1>1, <1>2, <1>3 DEF Held, Becomes, Owning
<1>7. HandsOf(p)'
  BY <1>pc, <1>1, <1>2, <1>3 DEF HandsOf, LocalsOf, Becomes, Target, InHash, Has, UserGet, UserPc
<1>8. \A c \in Bufs : buf[c].op # "none" /\ Moves(p, c) => Moves(p, c)'
  BY <1>pc, <1>1, <1>2, <1>3, Constants DEF Moves, Becomes, LocalsOf, UserPc, UserGet
<1>9. /\ Others(p) /\ proc' \in [Proc -> ProcType]
      /\ proc[p].pc # "writing" /\ proc'[p].pc \notin {"found", "lruwrite", "lruasync", "reuse"}
      /\ proc'[p].pc = "flush" => proc'[p].b = NULL
      /\ proc'[p].pc \in UpdatePc => proc[p].pc \in UpdatePc \/ ~updlock
      /\ updlock' = updlock \/ updlock' \/ proc[p].pc \in UpdatePc
  BY <1>pc, <1>1, <1>2, <1>3 DEF Becomes, LocalsOf, UserPc, UserGet, UpdatePc
<1> QED BY <1>1, <1>3, <1>4, <1>5, <1>6, <1>7, <1>8, <1>9, WalkKeeps DEF TypeOK

\* breada ends with bread, when the block seemed to be in the cache.
LEMMA AheadBreadKeeps ==
    ASSUME IInv, NEW p \in Proc, AheadEnd(p), proc[p].main = NULL
    PROVE  IInv'
<1>1. LocalsOf(p) /\ Held(p) /\ HandsOf(p) /\ TypeOK /\ proc \in [Proc -> ProcType]
  BY Actor DEF IInv
<1>2. Becomes(p, "get", "read", proc[p].b, proc[p].main, proc[p].i)
  <2>1. proc[p] \in ProcType
    BY <1>1
  <2>2. [proc[p] EXCEPT !.pc = "get", !.for = "read"] \in ProcType
    <3>1. [proc[p] EXCEPT !.pc = "get"] \in ProcType
      BY <2>1 DEF ProcType, Label
    <3>2. [[proc[p] EXCEPT !.pc = "get"] EXCEPT !.for = "read"] \in ProcType
      BY <3>1, ZenonT(60) DEF ProcType
    <3> QED BY <3>2
  <2>3. proc' = [proc EXCEPT ![p] = [proc[p] EXCEPT !.pc = "get", !.for = "read"]]
    BY DEF AheadEnd, At
  <2> QED BY <1>1, <2>1, <2>2, <2>3 DEF Becomes, Others, ProcType
<1>3. /\ proc[p].pc = "breada3" /\ proc[p].main = NULL
      /\ UNCHANGED <<buf, lock, block_lru, hash, dirty_cnt, disk, latest, mounted, updlock>>
      /\ cpu' \in Proc \cup {NULL}
  BY <1>1 DEF AheadEnd, At, At, TypeOK
<1>4. LocalsOf(p)'
  BY <1>1, <1>2, <1>3, Constants DEF LocalsOf, Becomes, UserPc, UserGet, UpdatePc, Label
<1>5. \A c \in Bufs : Wants(p, c)' <=> Wants(p, c)
  BY <1>1, <1>2, <1>3, Constants DEF Wants, Becomes, Owning, Waiting, LocalsOf, UserPc, UserGet
<1>6. Held(p)'
  BY <1>1, <1>2, <1>3 DEF Held, Becomes, Owning
<1>7. HandsOf(p)'
  BY <1>1, <1>2, <1>3 DEF HandsOf, LocalsOf, Becomes, Target, InHash, Has, UserGet, UserPc
<1>8. \A c \in Bufs : buf[c].op # "none" /\ Moves(p, c) => Moves(p, c)'
  BY <1>1, <1>2, <1>3, Constants DEF Moves, Becomes, LocalsOf, UserPc, UserGet
<1>9. /\ Others(p) /\ proc' \in [Proc -> ProcType]
      /\ proc[p].pc # "writing" /\ proc'[p].pc \notin {"found", "lruwrite", "lruasync", "reuse"}
      /\ proc'[p].pc = "flush" => proc'[p].b = NULL
      /\ proc'[p].pc \in UpdatePc => proc[p].pc \in UpdatePc \/ ~updlock
      /\ updlock' = updlock \/ updlock' \/ proc[p].pc \in UpdatePc
  BY <1>1, <1>2, <1>3 DEF Becomes, LocalsOf, UserPc, UserGet, UpdatePc
<1> QED BY <1>1, <1>3, <1>4, <1>5, <1>6, <1>7, <1>8, <1>9, WalkKeeps DEF TypeOK

\* Or it waits for the transfer of the block.
LEMMA AheadWaitKeeps ==
    ASSUME IInv, NEW p \in Proc, AheadEnd(p), proc[p].main # NULL
    PROVE  IInv'
<1>1. LocalsOf(p) /\ Held(p) /\ HandsOf(p) /\ TypeOK /\ proc \in [Proc -> ProcType]
  BY Actor DEF IInv
<1>2. Becomes(p, "reading", proc[p].for, proc[p].main, proc[p].main, proc[p].i)
  <2>1. proc[p] \in ProcType
    BY <1>1
  <2>2. [proc[p] EXCEPT !.pc = "reading", !.b = proc[p].main] \in ProcType
    BY <2>1 DEF ProcType, Label
  <2>3. proc' = [proc EXCEPT ![p] = [proc[p] EXCEPT !.pc = "reading", !.b = proc[p].main]]
    BY DEF AheadEnd, At
  <2> QED BY <1>1, <2>1, <2>2, <2>3 DEF Becomes, Others, ProcType
<1>3. /\ proc[p].pc = "breada3" /\ proc[p].main # NULL
      /\ UNCHANGED <<buf, lock, block_lru, hash, dirty_cnt, disk, latest, mounted, updlock>>
      /\ cpu' \in Proc \cup {NULL}
  BY <1>1 DEF AheadEnd, At, At, TypeOK
<1>4. LocalsOf(p)'
  BY <1>1, <1>2, <1>3, Constants DEF LocalsOf, Becomes, UserPc, UserGet, UpdatePc, Label
<1>5. \A c \in Bufs : Wants(p, c)' <=> Wants(p, c)
  BY <1>1, <1>2, <1>3, Constants DEF Wants, Becomes, Owning, Waiting, LocalsOf, UserPc, UserGet
<1>6. Held(p)'
  BY <1>1, <1>2, <1>3 DEF Held, Becomes, Owning
<1>7. HandsOf(p)'
  BY <1>1, <1>2, <1>3 DEF HandsOf, LocalsOf, Becomes, Target, InHash, Has, UserGet, UserPc
<1>8. \A c \in Bufs : buf[c].op # "none" /\ Moves(p, c) => Moves(p, c)'
  BY <1>1, <1>2, <1>3, Constants DEF Moves, Becomes, LocalsOf, UserPc, UserGet
<1>9. /\ Others(p) /\ proc' \in [Proc -> ProcType]
      /\ proc[p].pc # "writing" /\ proc'[p].pc \notin {"found", "lruwrite", "lruasync", "reuse"}
      /\ proc'[p].pc = "flush" => proc'[p].b = NULL
      /\ proc'[p].pc \in UpdatePc => proc[p].pc \in UpdatePc \/ ~updlock
      /\ updlock' = updlock \/ updlock' \/ proc[p].pc \in UpdatePc
  BY <1>1, <1>2, <1>3 DEF Becomes, LocalsOf, UserPc, UserGet, UpdatePc
<1> QED BY <1>1, <1>3, <1>4, <1>5, <1>6, <1>7, <1>8, <1>9, WalkKeeps DEF TypeOK

\* The block is in no buffer.
LEMMA SearchNoneKeeps ==
    ASSUME IInv, NEW p \in Proc, Search(p), Hashed(Target(p)) = {}
    PROVE  IInv'
<1>1. LocalsOf(p) /\ Held(p) /\ HandsOf(p) /\ TypeOK /\ proc \in [Proc -> ProcType]
  BY Actor DEF IInv
<1>2. Becomes(p, "lru", proc[p].for, proc[p].b, proc[p].main, proc[p].i)
  <2>1. proc[p] \in ProcType
    BY <1>1
  <2>2. [proc[p] EXCEPT !.pc = "lru"] \in ProcType
    BY <2>1 DEF ProcType, Label
  <2>3. proc' = [proc EXCEPT ![p] = [proc[p] EXCEPT !.pc = "lru"]]
    BY DEF Search, At
  <2> QED BY <1>1, <2>1, <2>2, <2>3 DEF Becomes, Others, ProcType
<1>3. /\ proc[p].pc = "get"
      /\ UNCHANGED <<buf, lock, block_lru, hash, dirty_cnt, disk, latest, mounted, updlock>>
      /\ cpu' \in Proc \cup {NULL}
  BY <1>1 DEF Search, At, At, TypeOK
<1>4. LocalsOf(p)'
  BY <1>1, <1>2, <1>3, Constants DEF LocalsOf, Becomes, UserPc, UserGet, UpdatePc, Label
<1>5. \A c \in Bufs : Wants(p, c)' <=> Wants(p, c)
  BY <1>1, <1>2, <1>3, Constants DEF Wants, Becomes, Owning, Waiting, LocalsOf, UserPc, UserGet
<1>6. Held(p)'
  BY <1>1, <1>2, <1>3 DEF Held, Becomes, Owning
<1>7. HandsOf(p)'
  BY <1>1, <1>2, <1>3 DEF HandsOf, LocalsOf, Becomes, Target, InHash, Has, UserGet, UserPc
<1>8. \A c \in Bufs : buf[c].op # "none" /\ Moves(p, c) => Moves(p, c)'
  BY <1>1, <1>2, <1>3, Constants DEF Moves, Becomes, LocalsOf, UserPc, UserGet
<1>9. /\ Others(p) /\ proc' \in [Proc -> ProcType]
      /\ proc[p].pc # "writing" /\ proc'[p].pc \notin {"found", "lruwrite", "lruasync", "reuse"}
      /\ proc'[p].pc = "flush" => proc'[p].b = NULL
      /\ proc'[p].pc \in UpdatePc => proc[p].pc \in UpdatePc \/ ~updlock
      /\ updlock' = updlock \/ updlock' \/ proc[p].pc \in UpdatePc
  BY <1>1, <1>2, <1>3 DEF Becomes, LocalsOf, UserPc, UserGet, UpdatePc
<1> QED BY <1>1, <1>3, <1>4, <1>5, <1>6, <1>7, <1>8, <1>9, WalkKeeps DEF TypeOK

\* The buffer has the contents of its block.
LEMMA FillHasKeeps ==
    ASSUME IInv, NEW p \in Proc, Fill(p), buf[proc[p].b].done
    PROVE  IInv'
<1>1. LocalsOf(p) /\ Held(p) /\ HandsOf(p) /\ TypeOK /\ proc \in [Proc -> ProcType]
  BY Actor DEF IInv
<1>2. Becomes(p, "use", proc[p].for, proc[p].b, proc[p].main, proc[p].i)
  <2>1. proc[p] \in ProcType
    BY <1>1
  <2>2. [proc[p] EXCEPT !.pc = "use"] \in ProcType
    BY <2>1 DEF ProcType, Label
  <2>3. proc' = [proc EXCEPT ![p] = [proc[p] EXCEPT !.pc = "use"]]
    BY DEF Fill, Kept, At
  <2> QED BY <1>1, <2>1, <2>2, <2>3 DEF Becomes, Others, ProcType
<1>3. /\ proc[p].pc = "keep" /\ proc[p].for = "read" /\ buf[proc[p].b].done
      /\ UNCHANGED <<buf, lock, block_lru, hash, dirty_cnt, disk, latest, mounted, updlock>>
      /\ cpu' \in Proc \cup {NULL}
  BY <1>1 DEF Fill, Kept, At, At, TypeOK
<1>4. LocalsOf(p)'
  BY <1>1, <1>2, <1>3, Constants DEF LocalsOf, Becomes, UserPc, UserGet, UpdatePc, Label
<1>5. \A c \in Bufs : Wants(p, c)' <=> Wants(p, c)
  BY <1>1, <1>2, <1>3, Constants DEF Wants, Becomes, Owning, Waiting, LocalsOf, UserPc, UserGet
<1>6. Held(p)'
  BY <1>1, <1>2, <1>3 DEF Held, Becomes, Owning
<1>7. HandsOf(p)'
  BY <1>1, <1>2, <1>3 DEF HandsOf, LocalsOf, Becomes, Target, InHash, Has, UserGet, UserPc
<1>8. \A c \in Bufs : buf[c].op # "none" /\ Moves(p, c) => Moves(p, c)'
  BY <1>1, <1>2, <1>3, Constants DEF Moves, Becomes, LocalsOf, UserPc, UserGet
<1>9. /\ Others(p) /\ proc' \in [Proc -> ProcType]
      /\ proc[p].pc # "writing" /\ proc'[p].pc \notin {"found", "lruwrite", "lruasync", "reuse"}
      /\ proc'[p].pc = "flush" => proc'[p].b = NULL
      /\ proc'[p].pc \in UpdatePc => proc[p].pc \in UpdatePc \/ ~updlock
      /\ updlock' = updlock \/ updlock' \/ proc[p].pc \in UpdatePc
  BY <1>1, <1>2, <1>3 DEF Becomes, LocalsOf, UserPc, UserGet, UpdatePc
<1> QED BY <1>1, <1>3, <1>4, <1>5, <1>6, <1>7, <1>8, <1>9, WalkKeeps DEF TypeOK

\* The buffer goes to the end of the list.
LEMMA PutEndLruKeeps ==
    ASSUME IInv, NEW p \in Proc, PutEndLru(p)
    PROVE  IInv'
<1>1. LocalsOf(p) /\ Held(p) /\ HandsOf(p) /\ TypeOK /\ proc \in [Proc -> ProcType]
  BY Actor DEF IInv
<1>lru. block_lru' \in Seq(Bufs) /\ NoRepeat(block_lru') /\ ToSet(block_lru') = Bufs
  <2> DEFINE b == proc[p].b
             s == RemoveFirst(block_lru, b)
  <2>1. b \in Bufs
    BY Alone DEF PutEndLru, At, Owning
  <2>2. s \in Seq(Bufs) /\ ToSet(s) = Bufs \ {b} /\ NoRepeat(s)
    BY <1>1, RemoveFirstElements DEF TypeOK, IInv, Queues
  <2>3. block_lru' = Append(s, b)
    BY DEF PutEndLru, Without
  <2> HIDE DEF s, b
  <2>4. Append(s, b) \in Seq(Bufs) /\ ToSet(Append(s, b)) = ToSet(s) \cup {b} /\ NoRepeat(Append(s, b))
    BY <2>1, <2>2, AppendElements
  <2> QED BY <2>1, <2>2, <2>3, <2>4
<1>2. Becomes(p, "keep", proc[p].for, proc[p].b, proc[p].main, proc[p].i)
  <2>1. proc[p] \in ProcType
    BY <1>1
  <2>2. [proc[p] EXCEPT !.pc = "keep"] \in ProcType
    BY <2>1 DEF ProcType, Label
  <2>3. proc' = [proc EXCEPT ![p] = [proc[p] EXCEPT !.pc = "keep"]]
    BY DEF PutEndLru, At
  <2> QED BY <1>1, <2>1, <2>2, <2>3 DEF Becomes, Others, ProcType
<1>3. /\ proc[p].pc = "got"
      /\ UNCHANGED <<buf, lock, hash, dirty_cnt, disk, latest, mounted, updlock>>
      /\ cpu' \in Proc \cup {NULL}
  BY <1>1 DEF PutEndLru, At, At, TypeOK
<1>4. LocalsOf(p)'
  BY <1>1, <1>2, <1>3, Constants DEF LocalsOf, Becomes, UserPc, UserGet, UpdatePc, Label
<1>5. \A c \in Bufs : Wants(p, c)' <=> Wants(p, c)
  BY <1>1, <1>2, <1>3, Constants DEF Wants, Becomes, Owning, Waiting, LocalsOf, UserPc, UserGet
<1>6. Held(p)'
  BY <1>1, <1>2, <1>3 DEF Held, Becomes, Owning
<1>7. HandsOf(p)'
  BY <1>1, <1>2, <1>3 DEF HandsOf, LocalsOf, Becomes, Target, InHash, Has, UserGet, UserPc
<1>8. \A c \in Bufs : buf[c].op # "none" /\ Moves(p, c) => Moves(p, c)'
  BY <1>1, <1>2, <1>3, Constants DEF Moves, Becomes, LocalsOf, UserPc, UserGet
<1>9. /\ Others(p) /\ proc' \in [Proc -> ProcType]
      /\ proc[p].pc # "writing" /\ proc'[p].pc \notin {"found", "lruwrite", "lruasync", "reuse"}
      /\ proc'[p].pc = "flush" => proc'[p].b = NULL
      /\ proc'[p].pc \in UpdatePc => proc[p].pc \in UpdatePc \/ ~updlock
      /\ updlock' = updlock \/ updlock' \/ proc[p].pc \in UpdatePc
  BY <1>1, <1>2, <1>3 DEF Becomes, LocalsOf, UserPc, UserGet, UpdatePc
<1> QED BY <1>1, <1>3, <1>4, <1>5, <1>6, <1>7, <1>8, <1>9, <1>lru, WalkKeeps DEF TypeOK

\* The next place of a table, or the end of the loop.
LEMMA AdvanceShape ==
    ASSUME TypeOK, NEW p \in Proc, NEW then \in Label, Advance(p, then)
    PROVE  \E pc \in {proc[p].pc, then}, i \in 1 .. Len(Buf) :
               Becomes(p, pc, proc[p].for, NULL, proc[p].main, i)
<1>0. /\ proc \in [Proc -> ProcType] /\ proc[p] \in ProcType
      /\ proc[p].i \in 1 .. Len(Buf) /\ Len(Buf) \in Nat \ {0}
  BY Types, Constants
<1>1. CASE proc[p].i = Len(Buf)
  <2>1. 1 \in 1 .. Len(Buf)
    BY <1>0
  <2>2. [proc[p] EXCEPT !.pc = then, !.i = 1, !.b = NULL] \in ProcType
    BY <1>0, <2>1 DEF ProcType
  <2>3. proc' = [proc EXCEPT ![p] = [proc[p] EXCEPT !.pc = then, !.i = 1, !.b = NULL]]
    BY <1>1 DEF Advance
  <2>4. Becomes(p, then, proc[p].for, NULL, proc[p].main, 1)
    BY <1>0, <2>2, <2>3 DEF Becomes, Others, ProcType
  <2> QED BY <2>1, <2>4
<1>2. CASE proc[p].i # Len(Buf)
  <2>1. proc[p].i + 1 \in 1 .. Len(Buf)
    BY <1>0, <1>2
  <2>2. [proc[p] EXCEPT !.i = proc[p].i + 1, !.b = NULL] \in ProcType
    BY <1>0, <2>1 DEF ProcType
  <2>3. proc' = [proc EXCEPT ![p] = [proc[p] EXCEPT !.i = proc[p].i + 1, !.b = NULL]]
    BY <1>2 DEF Advance
  <2>4. Becomes(p, proc[p].pc, proc[p].for, NULL, proc[p].main, proc[p].i + 1)
    BY <1>0, <2>2, <2>3 DEF Becomes, Others, ProcType
  <2> QED BY <2>1, <2>4
<1> QED BY <1>1, <1>2

\* A buffer of the table that does not pass the test.
LEMMA SkipKeeps ==
    ASSUME IInv, NEW p \in Proc, NEW here, NEW then,
           <<here, then>> \in {<<"flush", "wait">>, <<"wait", "updated">>, <<"discard", "mount">>},
           At(p, here), proc[p].b = NULL, Advance(p, then), cpu' = p, UNCHANGED <<buf, lock, block_lru, hash, dirty_cnt, disk, latest, mounted, updlock>>
    PROVE  IInv'
<1>1. LocalsOf(p) /\ Held(p) /\ HandsOf(p) /\ TypeOK /\ proc \in [Proc -> ProcType]
  BY Actor DEF IInv
<1>pc. /\ here \in {"flush", "wait", "discard"} /\ then \in {"wait", "updated", "mount"}
       /\ here = "discard" <=> then = "mount"
  OBVIOUS
<1>2. PICK pc \in {here, then}, i \in 1 .. Len(Buf) : Becomes(p, pc, proc[p].for, NULL, proc[p].main, i)
  BY <1>1, <1>pc, AdvanceShape DEF At, Label
<1>3. /\ proc[p].pc = here /\ proc[p].b = NULL
      /\ UNCHANGED <<buf, lock, block_lru, hash, dirty_cnt, disk, latest, mounted, updlock>>
      /\ cpu' \in Proc \cup {NULL}
  BY <1>1 DEF At, At, TypeOK
<1>4. LocalsOf(p)'
  BY <1>pc, <1>1, <1>2, <1>3, Constants DEF LocalsOf, Becomes, UserPc, UserGet, UpdatePc, Label
<1>5. \A c \in Bufs : Wants(p, c)' <=> Wants(p, c)
  BY <1>pc, <1>1, <1>2, <1>3, Constants DEF Wants, Becomes, Owning, Waiting, LocalsOf, UserPc, UserGet
<1>6. Held(p)'
  BY <1>pc, <1>1, <1>2, <1>3 DEF Held, Becomes, Owning
<1>7. HandsOf(p)'
  BY <1>pc, <1>1, <1>2, <1>3 DEF HandsOf, LocalsOf, Becomes, Target, InHash, Has, UserGet, UserPc
<1>8. \A c \in Bufs : buf[c].op # "none" /\ Moves(p, c) => Moves(p, c)'
  BY <1>pc, <1>1, <1>2, <1>3, Constants DEF Moves, Becomes, LocalsOf, UserPc, UserGet
<1>9. /\ Others(p) /\ proc' \in [Proc -> ProcType]
      /\ proc[p].pc # "writing" /\ proc'[p].pc \notin {"found", "lruwrite", "lruasync", "reuse"}
      /\ proc'[p].pc = "flush" => proc'[p].b = NULL
      /\ proc'[p].pc \in UpdatePc => proc[p].pc \in UpdatePc \/ ~updlock
      /\ updlock' = updlock \/ updlock' \/ proc[p].pc \in UpdatePc
  BY <1>pc, <1>1, <1>2, <1>3 DEF Becomes, LocalsOf, UserPc, UserGet, UpdatePc
<1> QED BY <1>1, <1>3, <1>4, <1>5, <1>6, <1>7, <1>8, <1>9, WalkKeeps DEF TypeOK

\* A user begins a system call.
LEMMA BeginKeeps ==
    ASSUME IInv, NEW w \in Work, Begin(w[1], w[2], w[3], w[4])
    PROVE  IInv'
<1>0. PICK p \in User, op \in {"read", "modify", "overwrite", "write"}, blk \in Block, next \in Block \cup {NULL} :
         Begin(p, op, blk, next)
  BY CacheAssumption
<1>p. p \in Proc /\ p \notin Umounter /\ p \notin Swapper
  BY Constants DEF Proc
<1>1. LocalsOf(p) /\ Held(p) /\ HandsOf(p) /\ TypeOK /\ proc \in [Proc -> ProcType]
  BY <1>p, Actor DEF IInv
<1> DEFINE pc == IF next = NULL THEN "get" ELSE "breada"
           for == IF op = "overwrite" THEN op ELSE "read"
           r == [Idle EXCEPT !.pc = pc, !.for = for, !.op = op, !.blk = blk, !.next = next]
<1>pc. /\ pc \in {"get", "breada"} /\ (pc = "breada" => next \in Block)
       /\ for \in {"read", "overwrite"} /\ (for = "overwrite" => op = "overwrite")
  BY <1>0
<1>becomes. proc' = [proc EXCEPT ![p] = r]
  BY <1>0 DEF Begin
<1> HIDE DEF pc, for
<1>r. /\ r \in ProcType /\ r.pc = pc /\ r.for = for /\ r.op = op /\ r.blk = blk /\ r.next = next
      /\ r.b = NULL /\ r.main = NULL
  <2>1. Idle \in ProcType /\ pc \in Label
    BY <1>pc, IdleType DEF Label
  <2>2. r \in ProcType
    BY <1>0, <1>pc, <2>1 DEF ProcType
  <2> QED BY <2>1, <2>2 DEF ProcType, Idle
<1> HIDE DEF r
<1>2. Others(p) /\ proc' \in [Proc -> ProcType] /\ proc'[p] = r
  BY <1>p, <1>1, <1>r, <1>becomes DEF Others
<1>3. /\ proc[p].pc = "idle"
      /\ UNCHANGED <<buf, lock, block_lru, hash, dirty_cnt, disk, latest, mounted, updlock>>
      /\ cpu' \in Proc \cup {NULL}
  BY <1>0, <1>p DEF Begin, At
<1>4. LocalsOf(p)'
  BY <1>0, <1>pc, <1>p, <1>1, <1>2, <1>r, <1>3 DEF LocalsOf, UserPc, UserGet, UpdatePc
<1>5. \A c \in Bufs : Wants(p, c)' <=> Wants(p, c)
  BY <1>pc, <1>1, <1>2, <1>r, <1>3, Constants DEF Wants, Owning, Waiting, LocalsOf, UserPc, UserGet
<1>6. Held(p)'
  BY <1>pc, <1>1, <1>2, <1>r, <1>3 DEF Held, Owning
<1>7. HandsOf(p)'
  BY <1>pc, <1>1, <1>2, <1>r, <1>3 DEF HandsOf
<1>8. \A c \in Bufs : buf[c].op # "none" /\ Moves(p, c) => Moves(p, c)'
  BY <1>pc, <1>1, <1>2, <1>3, Constants DEF Moves, LocalsOf, UserPc, UserGet
<1>9. /\ proc[p].pc # "writing" /\ proc'[p].pc \notin {"found", "lruwrite", "lruasync", "reuse"}
      /\ proc'[p].pc # "flush" /\ proc'[p].pc \notin UpdatePc
  BY <1>pc, <1>2, <1>r, <1>3 DEF UpdatePc
<1> QED BY <1>p, <1>1, <1>2, <1>3, <1>4, <1>5, <1>6, <1>7, <1>8, <1>9, WalkKeeps DEF TypeOK

\* An update begins, of one device or of all of them.
LEMMA UpdateBeginKeeps ==
    ASSUME IInv, NEW p \in Proc, UpdateBegin(p)
    PROVE  IInv'
<1>1. LocalsOf(p) /\ Held(p) /\ HandsOf(p) /\ TypeOK /\ proc \in [Proc -> ProcType] /\ proc[p] \in ProcType
  BY Actor DEF IInv
<1> DEFINE pc == IF ~updlock THEN "inodes" ELSE IF p \in Umounter THEN "umount" ELSE "idle"
<1>p. p \in Umounter \cup Swapper /\ proc[p].pc = "idle"
  BY DEF UpdateBegin, At
<1>0. PICK dev \in Device \cup {NULL} :
         /\ proc' = [proc EXCEPT ![p].dev = dev, ![p].pc = pc]
         /\ p \in Umounter => dev \in Device
  BY <1>1 DEF UpdateBegin, TypeOK
<1>pc. /\ pc \in {"inodes", "umount", "idle"} /\ (pc = "umount" => p \in Umounter)
       /\ pc = "inodes" => ~updlock
  OBVIOUS
<1> HIDE DEF pc
<1>2. /\ Others(p) /\ proc' \in [Proc -> ProcType]
      /\ proc'[p].pc = pc /\ proc'[p].dev = dev /\ proc'[p].for = proc[p].for /\ proc'[p].op = proc[p].op
      /\ proc'[p].blk = proc[p].blk /\ proc'[p].next = proc[p].next /\ proc'[p].b = proc[p].b
      /\ proc'[p].main = proc[p].main
  <2>1. [proc[p] EXCEPT !.dev = dev, !.pc = pc] \in ProcType
    BY <1>1, <1>pc DEF ProcType, Label
  <2>2. proc' = [proc EXCEPT ![p] = [proc[p] EXCEPT !.dev = dev, !.pc = pc]]
    BY <1>0
  <2> QED BY <1>1, <2>1, <2>2 DEF Others, ProcType
<1>3. /\ UNCHANGED <<buf, lock, block_lru, hash, dirty_cnt, disk, latest, mounted, cpu>>
      /\ updlock' = TRUE
  BY DEF UpdateBegin
<1>4. LocalsOf(p)'
  BY <1>0, <1>pc, <1>p, <1>1, <1>2, <1>3, Constants DEF LocalsOf, UserPc, UserGet, UpdatePc
<1>5. \A c \in Bufs : Wants(p, c)' <=> Wants(p, c)
  BY <1>pc, <1>p, <1>1, <1>2, <1>3, Constants DEF Wants, Owning, Waiting, LocalsOf, UserPc, UserGet
<1>6. Held(p)'
  BY <1>pc, <1>p, <1>1, <1>2, <1>3 DEF Held, Owning
<1>7. HandsOf(p)'
  BY <1>pc, <1>p, <1>1, <1>2, <1>3 DEF HandsOf, LocalsOf, UserPc, UserGet
<1>8. \A c \in Bufs : buf[c].op # "none" /\ Moves(p, c) => Moves(p, c)'
  BY <1>pc, <1>p, <1>1, <1>2, <1>3, Constants DEF Moves, LocalsOf, UserPc, UserGet
<1>9. /\ proc[p].pc # "writing" /\ proc'[p].pc \notin {"found", "lruwrite", "lruasync", "reuse"}
      /\ proc'[p].pc # "flush" /\ (proc'[p].pc \in UpdatePc => ~updlock)
  BY <1>pc, <1>p, <1>2, <1>3 DEF UpdatePc
<1> QED BY <1>1, <1>2, <1>3, <1>4, <1>5, <1>6, <1>7, <1>8, <1>9, WalkKeeps DEF TypeOK

-----------------------------------------------------------------------------
(* Steps that take a lock *)

\* A process at the end of a queue does not change its head.
LEMMA AppendHead ==
    ASSUME IInv, NEW p \in Proc, NEW b \in Bufs, lock' = [lock EXCEPT ![b] = Append(@, p)]
    PROVE  /\ lock' \in [Bufs -> Seq(Proc)]
           /\ \A c \in Bufs : lock[c] # <<>> => Head(lock'[c]) = Head(lock[c])
           /\ lock[b] = <<>> => Head(lock'[b]) = p
<1>1. lock \in [Bufs -> Seq(Proc)] /\ lock[b] \in Seq(Proc)
  BY Types DEF IInv
<1>2. \A c \in Bufs : lock'[c] = IF c = b THEN Append(lock[b], p) ELSE lock[c]
  BY <1>1
<1>3. /\ Append(lock[b], p) \in Seq(Proc)
      /\ lock[b] # <<>> => Head(Append(lock[b], p)) = Head(lock[b])
      /\ lock[b] = <<>> => Head(Append(lock[b], p)) = p
  BY <1>1
<1> QED BY <1>1, <1>2, <1>3

\* A step that comes to a lock.
LEMMA TakeKeeps ==
    ASSUME IInv, NEW p \in Proc, NEW b \in Bufs, Others(p), proc' \in [Proc -> ProcType],
           UNCHANGED <<buf, block_lru, hash, dirty_cnt, disk, latest, mounted, updlock>>,
           cpu' \in Proc \cup {NULL}, lock' = [lock EXCEPT ![b] = Append(@, p)], ~Wants(p, b),
           \A c \in Bufs : Wants(p, c)' <=> Wants(p, c) \/ c = b,
           LocalsOf(p)', proc'[p].pc \in UpdatePc => proc[p].pc \in UpdatePc, Held(p)', HandsOf(p)',
           \A c \in Bufs : buf[c].op # "none" /\ Moves(p, c) => Moves(p, c)',
           proc[p].pc # "writing", proc'[p].b = b,
           proc'[p].pc \in {"lruwrite", "lruasync", "reuse"} => lock[b] = <<>>,
           proc'[p].pc = "flush" => Has(b, "DIRTY"), proc'[p].pc = "found" => InHash(b) /\ buf[b].id = Target(p)'
    PROVE  IInv'
<1>0. /\ lock' \in [Bufs -> Seq(Proc)]
      /\ \A c \in Bufs : lock[c] # <<>> => Head(lock'[c]) = Head(lock[c])
      /\ lock[b] = <<>> => Head(lock'[b]) = p
  BY AppendHead
<1>1. TypeOK'
  BY <1>0 DEF IInv, TypeOK, ProcType
<1>2. Locals'
  BY LocalsKept
<1>3. Locks'
  BY LocksTaken
<1>4. Queues'
  BY QueuesSame
<1>5. Buffers'
  BY BuffersSame
<1>6. Hands'
  BY HandsSame
<1>7. Flushes'
  <2>1. \A c \in Bufs : lock[c] # <<>> =>
           buf'[c] = buf[c] /\ (InHash(c) => InHash(c)') /\ Head(lock'[c]) = Head(lock[c])
    BY <1>0 DEF InHash
  <2>2. ASSUME NEW c \in Bufs, lock[c] # <<>>, Head(lock[c]) = p, FlushOf(c) PROVE FlushOf(c)'
    <3>1. Head(lock'[c]) = p
      BY <1>0, <2>2
    <3>2. proc'[p].b = c => proc'[p].pc \notin {"lruwrite", "lruasync", "reuse"}
      BY <2>2
    <3> QED BY <2>2, <3>1, <3>2 DEF FlushOf, InHash, Has
  <2>3. ASSUME proc'[p].pc = "flush" PROVE FlushOf(b)'
    <3>1. InHash(b) /\ buf[b].done /\ ~Has(b, "ERROR") /\ Has(b, "DIRTY")
      BY <2>3 DEF IInv, Buffers, BufferOf
    <3>2. PICK h \in Proc : /\ h = Head(lock'[b])
                            /\ proc'[h].b = b => proc'[h].pc \notin {"lruwrite", "lruasync", "reuse"}
      <4>1. CASE lock[b] = <<>>
        BY <1>0, <2>3, <4>1
      <4>2. CASE lock[b] # <<>>
        <5>1. PICK h \in Proc : h = Head(lock[b]) /\ h = Head(lock'[b])
          BY <1>0, <4>2, HeadWants
        <5>2. CASE h = p
          BY <2>3, <5>1, <5>2, SMTT(40)
        <5>3. CASE h # p
          <6>1. proc'[h] = proc[h] /\ HandsOf(h)
            BY <5>3 DEF Others, IInv, Hands
          <6> QED BY <3>1, <5>1, <6>1 DEF HandsOf
        <5> QED BY <5>2, <5>3
      <4> QED BY <4>1, <4>2
    <3> QED BY <3>1, <3>2 DEF FlushOf, InHash, Has
  <2>4. proc'[p].pc = "flush" /\ proc'[p].b # NULL => FlushOf(proc[p].b)'
    BY <2>3 DEF FlushOf, InHash, Has
  <2> QED BY <2>1, <2>2, <2>4, FlushesKept
<1>8. DirtyCountExact'
  BY DirtySame DEF Has
<1>9. Founds'
  BY FoundsKept DEF FoundOf, InHash, Taking
<1> QED BY <1>1, <1>2, <1>3, <1>4, <1>5, <1>6, <1>7, <1>8, <1>9 DEF IInv

\* The buffer that block_get takes from the list.
LEMMA CandidateUnlocked ==
    ASSUME IInv, NEW p \in Proc, Scanning(p)
    PROVE  Candidate(p) \in Bufs /\ lock[Candidate(p)] = <<>>
<1> DEFINE I == { i \in 1 .. Len(block_lru) : Clean(block_lru[i]) }
           J == { i \in 1 .. Len(block_lru) : Unlocked(block_lru[i]) }
<1>1. block_lru \in Seq(Bufs) /\ ToSet(block_lru) = Bufs
  BY DEF IInv, TypeOK, Queues
<1>2. I \subseteq J /\ J \in SUBSET Nat /\ I \in SUBSET Nat
  BY <1>1 DEF Clean
<1>3. J # {}
  BY <1>1 DEF Scanning, ToSet
<1>4. Min(J) \in J /\ (I # {} => Min(I) \in I)
  BY <1>2, <1>3, MinIsLeast
<1>5. SelectInSeq(block_lru, Unlocked) \in J
  BY <1>3, <1>4 DEF SelectInSeq
<1>6. SelectInSeq(block_lru, Clean) # 0 => SelectInSeq(block_lru, Clean) \in J
  BY <1>2, <1>4 DEF SelectInSeq
<1>7. \A i \in J : block_lru[i] \in Bufs /\ lock[block_lru[i]] = <<>>
  BY <1>1 DEF Unlocked
<1> HIDE DEF I, J
<1> QED BY <1>5, <1>6, <1>7 DEF Candidate

\* A lock that nobody has is not wanted.
LEMMA Unwanted ==
    ASSUME IInv, NEW b \in Bufs, lock[b] = <<>>, NEW q \in Proc
    PROVE  ~Wants(q, b)
<1>1. q \notin ToSet(lock[b])
  BY DEF ToSet
<1> QED BY <1>1 DEF IInv, Locks, LockOf

\* block_get waits for the buffer of its block.
LEMMA SearchFoundKeeps ==
    ASSUME IInv, NEW p \in Proc, Search(p), Hashed(Target(p)) # {}
    PROVE  IInv'
<1>1. LocalsOf(p) /\ Held(p) /\ HandsOf(p) /\ TypeOK /\ proc \in [Proc -> ProcType]
  BY Actor DEF IInv
<1>g. proc[p].pc = "get"
  BY DEF Search, At
<1>b. PICK b \in Hashed(Target(p)) :
         /\ SleepLock(p, b)
         /\ proc' = [proc EXCEPT ![p] = [proc[p] EXCEPT !.pc = "found", !.b = b]]
  BY DEF Search
<1>i. b \in Bufs /\ buf[b].id = Target(p) /\ InHash(b)
  <2>1. Target(p) \in Block
    BY <1>1, <1>g DEF Target, LocalsOf, UserGet, UserPc
  <2>2. hash[Bucket(Target(p))] \in Seq(Bufs)
    BY <2>1, Types, Constants DEF IInv
  <2> QED BY <2>1, <2>2, Constants DEF Hashed, ToSet, InHash
<1>2. Becomes(p, "found", proc[p].for, b, proc[p].main, proc[p].i)
  <2>1. proc[p] \in ProcType
    BY <1>1
  <2>2. [proc[p] EXCEPT !.pc = "found", !.b = b] \in ProcType
    BY <1>i, <2>1 DEF ProcType, Label
  <2>3. proc' = [proc EXCEPT ![p] = [proc[p] EXCEPT !.pc = "found", !.b = b]]
    BY <1>b
  <2> QED BY <1>1, <2>1, <2>2, <2>3 DEF Becomes, Others, ProcType
<1>3. /\ proc[p].pc = "get" /\ b \in Bufs /\ lock' = [lock EXCEPT ![b] = Append(@, p)]
      /\ UNCHANGED <<buf, block_lru, hash, dirty_cnt, disk, latest, mounted, updlock>> /\ cpu' \in Proc \cup {NULL}
  BY <1>b, <1>g, <1>i, <1>1 DEF Search, SleepLock, TypeOK
<1>t. lock' = [lock EXCEPT ![b] = Append(@, p)]
  BY <1>b, <1>3
<1>h. \A c \in Bufs : lock[c] # <<>> => Head(lock'[c]) = Head(lock[c])
  BY <1>i, <1>t, AppendHead
<1>e. lock[b] = <<>> => Head(lock'[b]) = p
  BY <1>i, <1>t, AppendHead
<1>m. proc[p].main # NULL => proc[p].main \in Bufs /\ lock[proc[p].main] # <<>> /\ Head(lock[proc[p].main]) = p
  BY Alone, InQueue
<1>u. b # proc[p].main
  <2>1. proc[p].for = "ahead" \/ proc[p].main = NULL
    BY <1>1, <1>g DEF LocalsOf, UserGet
  <2>2. proc[p].main # NULL => buf[proc[p].main].id = proc[p].blk /\ proc[p].next # proc[p].blk /\ Target(p) = proc[p].next
    BY <1>1, <1>g, <2>1 DEF LocalsOf, HandsOf, UserGet, Target
  <2> QED BY <1>i, <2>2, Constants
<1>4. LocalsOf(p)'
  BY <1>1, <1>2, <1>3, Constants DEF LocalsOf, Becomes, UserPc, UserGet, UpdatePc, Label
<1>5. ~Wants(p, b) /\ \A c \in Bufs : Wants(p, c)' <=> Wants(p, c) \/ c = b
  BY <1>u, <1>1, <1>2, <1>3, Constants DEF Wants, Becomes, Owning, Waiting, LocalsOf, UserPc, UserGet
<1>6. Held(p)'
  BY <1>u, <1>1, <1>2, <1>3, <1>h, <1>e, <1>m, Constants DEF Held, Becomes, Owning, LocalsOf, UserPc, UserGet
<1>7. HandsOf(p)'
  BY <1>1, <1>2, <1>3 DEF HandsOf, LocalsOf, Becomes, Target, InHash, Has, UserGet, UserPc
<1>8. \A c \in Bufs : buf[c].op # "none" /\ Moves(p, c) => Moves(p, c)'
  BY <1>1, <1>2, <1>3 DEF Moves, Becomes
<1>9. /\ Others(p) /\ proc' \in [Proc -> ProcType] /\ proc'[p].b = b /\ proc[p].pc # "writing"
      /\ proc'[p].pc \in {"lruwrite", "lruasync", "reuse"} => lock[b] = <<>>
      /\ proc'[p].pc = "flush" => Has(b, "DIRTY")
      /\ proc'[p].pc \in UpdatePc => proc[p].pc \in UpdatePc
  BY <1>i, <1>1, <1>2, <1>3 DEF Becomes, UpdatePc
<1>10. proc'[p].pc = "found" => InHash(b) /\ buf[b].id = Target(p)'
  BY <1>i, <1>2, <1>3 DEF Becomes, InHash, Target
<1> QED BY <1>10, <1>3, <1>4, <1>5, <1>6, <1>7, <1>8, <1>9, <1>t, TakeKeeps

\* A buffer in transfer is waited for, with its old block.
LEMMA ScanBusyKeeps ==
    ASSUME IInv, NEW p \in Proc, ScanBusy(p)
    PROVE  IInv'
<1>1. LocalsOf(p) /\ Held(p) /\ HandsOf(p) /\ TypeOK /\ proc \in [Proc -> ProcType]
  BY Actor DEF IInv
<1>s. Scanning(p) /\ proc[p].pc \in {"lru", "lruagain"}
  BY DEF ScanBusy, Scanning, At
<1>b. PICK b \in Bufs :
         /\ b = Candidate(p) /\ lock[b] = <<>>
         /\ lock' = [lock EXCEPT ![b] = <<p>>]
         /\ proc' = [proc EXCEPT ![p] = [proc[p] EXCEPT !.pc = "lruasync", !.b = b]]
         /\ ~Has(b, "DIRTY")
  BY <1>s, CandidateUnlocked DEF ScanBusy, SleepTest
<1>a. Append(lock[b], p) = <<p>>
  BY <1>b
<1>i. b \in Bufs
  BY <1>b
<1>2. Becomes(p, "lruasync", proc[p].for, b, proc[p].main, proc[p].i)
  <2>1. proc[p] \in ProcType
    BY <1>1
  <2>2. [proc[p] EXCEPT !.pc = "lruasync", !.b = b] \in ProcType
    BY <1>i, <2>1 DEF ProcType, Label
  <2>3. proc' = [proc EXCEPT ![p] = [proc[p] EXCEPT !.pc = "lruasync", !.b = b]]
    BY <1>b
  <2> QED BY <1>1, <2>1, <2>2, <2>3 DEF Becomes, Others, ProcType
<1>3. /\ proc[p].pc \in {"lru", "lruagain"} /\ lock' = [lock EXCEPT ![b] = Append(@, p)]
      /\ lock[b] = <<>> /\ ~Has(b, "DIRTY") /\ b \in Bufs
      /\ UNCHANGED <<buf, block_lru, hash, dirty_cnt, disk, latest, mounted, updlock>> /\ cpu' \in Proc \cup {NULL}
  BY <1>a, <1>b, <1>s, <1>1 DEF ScanBusy, TypeOK
<1>t. lock' = [lock EXCEPT ![b] = Append(@, p)]
  BY <1>b, <1>3
<1>h. \A c \in Bufs : lock[c] # <<>> => Head(lock'[c]) = Head(lock[c])
  BY <1>i, <1>t, AppendHead
<1>e. lock[b] = <<>> => Head(lock'[b]) = p
  BY <1>i, <1>t, AppendHead
<1>m. proc[p].main # NULL => proc[p].main \in Bufs /\ lock[proc[p].main] # <<>> /\ Head(lock[proc[p].main]) = p
  BY Alone, InQueue
<1>u. b # proc[p].main
  BY <1>b, <1>m, Constants
<1>4. LocalsOf(p)'
  BY <1>1, <1>2, <1>3, Constants DEF LocalsOf, Becomes, UserPc, UserGet, UpdatePc, Label
<1>5. ~Wants(p, b) /\ \A c \in Bufs : Wants(p, c)' <=> Wants(p, c) \/ c = b
  BY <1>u, <1>1, <1>2, <1>3, Constants DEF Wants, Becomes, Owning, Waiting, LocalsOf, UserPc, UserGet
<1>6. Held(p)'
  BY <1>u, <1>1, <1>2, <1>3, <1>h, <1>e, <1>m, Constants DEF Held, Becomes, Owning, LocalsOf, UserPc, UserGet
<1>7. HandsOf(p)'
  BY <1>1, <1>2, <1>3 DEF HandsOf, LocalsOf, Becomes, Target, InHash, Has, UserGet, UserPc
<1>8. \A c \in Bufs : buf[c].op # "none" /\ Moves(p, c) => Moves(p, c)'
  BY <1>1, <1>2, <1>3 DEF Moves, Becomes
<1>9. /\ Others(p) /\ proc' \in [Proc -> ProcType] /\ proc'[p].b = b /\ proc[p].pc # "writing"
      /\ proc'[p].pc \in {"lruwrite", "lruasync", "reuse"} => lock[b] = <<>>
      /\ proc'[p].pc = "flush" => Has(b, "DIRTY")
      /\ proc'[p].pc \in UpdatePc => proc[p].pc \in UpdatePc
  BY <1>i, <1>1, <1>2, <1>3 DEF Becomes, UpdatePc
<1>10. proc'[p].pc = "found" => InHash(b) /\ buf[b].id = Target(p)'
  BY <1>i, <1>2, <1>3 DEF Becomes, InHash, Target
<1> QED BY <1>10, <1>3, <1>4, <1>5, <1>6, <1>7, <1>8, <1>9, <1>t, TakeKeeps

\* A buffer of the table that passes the test.
LEMMA VisitTakes ==
    ASSUME IInv, NEW p \in Proc, NEW here \in {"flush", "wait", "discard"},
           proc[p].pc = here, proc[p].b = NULL, SleepLock(p, Buf[proc[p].i]),
           proc' = [proc EXCEPT ![p].b = Buf[proc[p].i]], here = "flush" => Has(Buf[proc[p].i], "DIRTY"),
           UNCHANGED <<buf, block_lru, hash, dirty_cnt, disk, latest, mounted, updlock>>
    PROVE  IInv'
<1>1. LocalsOf(p) /\ Held(p) /\ HandsOf(p) /\ TypeOK /\ proc \in [Proc -> ProcType]
  BY Actor DEF IInv
<1>b. PICK b \in Bufs : /\ b = Buf[proc[p].i] /\ lock' = [lock EXCEPT ![b] = Append(@, p)]
                        /\ proc' = [proc EXCEPT ![p] = [proc[p] EXCEPT !.b = b]]
                        /\ here = "flush" => Has(b, "DIRTY")
  BY <1>1, Types, Constants DEF SleepLock
<1>i. b \in Bufs
  BY <1>b
<1>2. Becomes(p, proc[p].pc, proc[p].for, b, proc[p].main, proc[p].i)
  <2>1. proc[p] \in ProcType
    BY <1>1
  <2>2. [proc[p] EXCEPT !.b = b] \in ProcType
    BY <1>i, <2>1 DEF ProcType, Label
  <2>3. proc' = [proc EXCEPT ![p] = [proc[p] EXCEPT !.b = b]]
    BY <1>b
  <2> QED BY <1>1, <2>1, <2>2, <2>3 DEF Becomes, Others, ProcType
<1>3. /\ proc[p].pc = here /\ b \in Bufs /\ lock' = [lock EXCEPT ![b] = Append(@, p)] /\ proc[p].b = NULL
      /\ here = "flush" => Has(b, "DIRTY")
      /\ UNCHANGED <<buf, block_lru, hash, dirty_cnt, disk, latest, mounted, updlock>> /\ cpu' \in Proc \cup {NULL}
  BY <1>b, <1>1 DEF SleepLock, TypeOK
<1>t. lock' = [lock EXCEPT ![b] = Append(@, p)]
  BY <1>b, <1>3
<1>h. \A c \in Bufs : lock[c] # <<>> => Head(lock'[c]) = Head(lock[c])
  BY <1>i, <1>t, AppendHead
<1>e. lock[b] = <<>> => Head(lock'[b]) = p
  BY <1>i, <1>t, AppendHead
<1>m. proc[p].main # NULL => proc[p].main \in Bufs /\ lock[proc[p].main] # <<>> /\ Head(lock[proc[p].main]) = p
  BY Alone, InQueue
<1>u. b # proc[p].main
  BY <1>1, Constants DEF LocalsOf, UserPc, UserGet
<1>4. LocalsOf(p)'
  BY <1>1, <1>2, <1>3, Constants DEF LocalsOf, Becomes, UserPc, UserGet, UpdatePc, Label
<1>5. ~Wants(p, b) /\ \A c \in Bufs : Wants(p, c)' <=> Wants(p, c) \/ c = b
  BY <1>u, <1>1, <1>2, <1>3, Constants DEF Wants, Becomes, Owning, Waiting, LocalsOf, UserPc, UserGet
<1>6. Held(p)'
  BY <1>u, <1>1, <1>2, <1>3, <1>h, <1>e, <1>m, Constants, SMTT(40) DEF Held, Becomes, Owning, LocalsOf, UserPc, UserGet
<1>7. HandsOf(p)'
  BY <1>1, <1>2, <1>3 DEF HandsOf, LocalsOf, Becomes, Target, InHash, Has, UserGet, UserPc
<1>8. \A c \in Bufs : buf[c].op # "none" /\ Moves(p, c) => Moves(p, c)'
  BY <1>1, <1>2, <1>3 DEF Moves, Becomes
<1>9. /\ Others(p) /\ proc' \in [Proc -> ProcType] /\ proc'[p].b = b /\ proc[p].pc # "writing"
      /\ proc'[p].pc \in {"lruwrite", "lruasync", "reuse"} => lock[b] = <<>>
      /\ proc'[p].pc = "flush" => Has(b, "DIRTY")
      /\ proc'[p].pc \in UpdatePc => proc[p].pc \in UpdatePc
  BY <1>i, <1>1, <1>2, <1>3 DEF Becomes, UpdatePc
<1>10. proc'[p].pc = "found" => InHash(b) /\ buf[b].id = Target(p)'
  BY <1>i, <1>2, <1>3 DEF Becomes, InHash, Target
<1> QED BY <1>10, <1>3, <1>4, <1>5, <1>6, <1>7, <1>8, <1>9, <1>t, TakeKeeps

-----------------------------------------------------------------------------
(* Steps that change one buffer *)

\* The count of dirty buffers fits the table.
LEMMA DirtyType ==
    ASSUME DirtyCountExact'
    PROVE  dirty_cnt' \in 0 .. Len(Buf)
<1> DEFINE D == { b \in Bufs : "DIRTY" \in buf'[b].flags }
<1>1. IsFiniteSet(Bufs) /\ Cardinality(Bufs) = Len(Buf) /\ Len(Buf) \in Nat
  BY BufCount, Constants
<1>2. D \subseteq Bufs
  OBVIOUS
<1>3. dirty_cnt' = Cardinality(D)
  BY DEF DirtyCountExact, Has
<1> HIDE DEF D
<1>4. IsFiniteSet(D) /\ Cardinality(D) \in Nat /\ Cardinality(D) <= Cardinality(Bufs)
  BY <1>1, <1>2, FS_Subset, FS_CardinalityType
<1> QED BY <1>1, <1>3, <1>4

\* One buffer changes and keeps its block; its lock is the process's, or nobody's.
LEMMA ChangeKeeps ==
    ASSUME IInv, NEW p \in Proc, NEW b \in Bufs, Others(p), proc' \in [Proc -> ProcType],
           buf' \in [Bufs -> BufType], \A c \in Bufs : c # b => buf'[c] = buf[c],
           buf'[b].id = buf[b].id,
           UNCHANGED <<block_lru, hash, disk, latest, mounted, updlock>>, cpu' \in Proc \cup {NULL},
           lock' \in [Bufs -> Seq(Proc)], \A c \in Bufs : c # b => lock'[c] = lock[c],
           lock[b] = <<>> \/ Head(lock[b]) = p,
           LocalsOf(p)', proc'[p].pc \in UpdatePc => proc[p].pc \in UpdatePc, Locks', HandsOf(p)',
           BufferOf(b)', Keeps(b) => Keeps(b)', DirtyCountExact',
           \A c \in Bufs : c # b /\ buf[c].op # "none" /\ Moves(p, c) => Moves(p, c)',
           proc[p].pc = "writing" => proc[p].b = b,
           proc'[p].pc \in Taking =>
               proc'[p].b = b /\ (lock[b] = <<>> \/ (proc[p].pc \in Taking /\ proc[p].b = b)),
           proc'[p].pc = "flush" => proc'[p].b = NULL, proc'[p].pc # "found",
           lock[b] # <<>> /\ OtherFlush(p, b) /\ FlushOf(b) => FlushOf(b)'
    PROVE  IInv'
<1>1. TypeOK'
  BY DirtyType DEF IInv, TypeOK, ProcType, BufType
<1>2. Locals'
  BY LocalsKept
<1>3. \A c \in Bufs : InHash(c) => InHash(c)'
  BY DEF InHash
<1>4. Queues'
  <2>1. \A c \in Bufs : buf'[c].id = buf[c].id
    OBVIOUS
  <2> QED BY <2>1, QueuesSame
<1>5. Buffers'
  BY BufferChanged
<1>6. Hands'
  BY <1>3, HandsKept
<1>7. Flushes'
  <2>1. ASSUME NEW c \in Bufs, lock[c] # <<>>, Head(lock[c]) # p
        PROVE  buf'[c] = buf[c] /\ (InHash(c) => InHash(c)') /\ Head(lock'[c]) = Head(lock[c])
    BY <1>3, <2>1
  <2>2. ASSUME NEW c \in Bufs, lock[c] # <<>>, Head(lock[c]) = p, OtherFlush(p, c), FlushOf(c)
        PROVE  FlushOf(c)'
    <3>1. CASE c = b
      BY <2>2, <3>1
    <3>2. CASE c # b
      <4>1. buf'[c] = buf[c] /\ Head(lock'[c]) = p
        BY <2>2, <3>2
      <4>2. /\ proc'[p].b = c => proc'[p].pc \notin {"lruwrite", "lruasync", "reuse"}
            /\ buf[c].done
        BY <2>2, <3>2 DEF FlushOf, Taking
      <4> QED BY <1>3, <2>2, <4>1, <4>2 DEF FlushOf, Has
    <3> QED BY <3>1, <3>2
  <2> QED BY <2>1, <2>2, FlushesKept
<1>8. Founds'
  <2>1. \A c \in Bufs : buf'[c].id = buf[c].id
    OBVIOUS
  <2>2. FoundOf(p)'
    BY DEF FoundOf
  <2> QED BY <2>1, <2>2, FoundsKept
<1> QED BY <1>1, <1>2, <1>4, <1>5, <1>6, <1>7, <1>8 DEF IInv

\* One buffer changes and keeps its block, and no process moves.
LEMMA DeviceKeeps ==
    ASSUME IInv, NEW b \in Bufs, UNCHANGED <<lock, block_lru, hash, latest, mounted, updlock, proc>>,
           cpu' \in Proc \cup {NULL}, disk' \in [Block -> Nat],
           buf' \in [Bufs -> BufType], \A c \in Bufs : c # b => buf'[c] = buf[c],
           buf'[b].id = buf[b].id, BufferOf(b)', \A blk \in Block : BlockOf(blk)', DirtyCountExact',
           \A p \in Proc : HandsOf(p)', lock[b] # <<>> /\ FlushOf(b) => FlushOf(b)'
    PROVE  IInv'
<1>1. TypeOK'
  BY DirtyType DEF IInv, TypeOK, BufType
<1>2. Locals'
  BY DEF IInv, Locals, LocalsOf
<1>3. \A c \in Bufs : InHash(c)' <=> InHash(c)
  BY DEF InHash
<1>4. Locks'
  BY DEF IInv, Locks, LockOf, Held, Wants
<1>5. Queues'
  <2>1. \A c \in Bufs : buf'[c].id = buf[c].id
    OBVIOUS
  <2> QED BY <2>1, QueuesSame
<1>6. Buffers'
  <2>1. ASSUME NEW c \in Bufs, c # b PROVE BufferOf(c)'
    <3>1. BufferOf(c) /\ buf'[c] = buf[c] /\ latest' = latest /\ proc' = proc
      BY <2>1 DEF IInv, Buffers
    <3> QED BY <1>3, <3>1 DEF BufferOf, Has, Moves
  <2> QED BY <2>1 DEF Buffers
<1>7. Flushes'
  <2>1. ASSUME NEW q \in Proc, proc'[q].pc = "flush", proc'[q].b # NULL PROVE FlushOf(proc[q].b)'
    <3>1. PICK c \in Bufs : c = proc[q].b /\ lock[c] # <<>> /\ FlushOf(c)
      <4>1. proc[q].b \in Bufs /\ q \in ToSet(lock[proc[q].b]) /\ FlushOf(proc[q].b)
        BY <2>1, Alone DEF Waiting, IInv, Flushes
      <4> QED BY <4>1, InQueue
    <3>2. FlushOf(c)'
      <4>1. CASE c = b
        BY <3>1, <4>1, SMTT(40)
      <4>2. CASE c # b
        <5>1. buf'[c] = buf[c]
          BY <4>2
        <5> QED BY <1>3, <3>1, <5>1 DEF FlushOf, Has
      <4> QED BY <4>1, <4>2
    <3>3. proc'[q].b = c
      BY <3>1
    <3> QED BY <3>2, <3>3 DEF FlushOf, InHash, Has
  <2> QED BY <2>1 DEF Flushes
<1>8. Founds'
  <2>1. \A q \in Proc : proc[q].pc = "found" => proc[q].b \in Bufs
    BY Types DEF IInv, Locks, Held
  <2>2. \A c \in Bufs : buf'[c].id = buf[c].id
    OBVIOUS
  <2> QED BY <2>1, <2>2 DEF IInv, Founds, FoundOf, InHash, Target
<1> QED BY <1>1, <1>2, <1>4, <1>5, <1>6, <1>7, <1>8 DEF IInv, Hands

-----------------------------------------------------------------------------
(* What happens to a buffer *)

Changes(b, flags, done, data, op) ==
    /\ buf' \in [Bufs -> BufType] /\ \A c \in Bufs : c # b => buf'[c] = buf[c]
    /\ buf'[b].id = buf[b].id /\ buf'[b].flags = flags /\ buf'[b].done = done
    /\ buf'[b].data = data /\ buf'[b].op = op

\* A buffer that takes a new record with the same block.
LEMMA SetBuffer ==
    ASSUME TypeOK, NEW b \in Bufs, NEW r \in BufType, r.id = buf[b].id, buf' = [buf EXCEPT ![b] = r]
    PROVE  Changes(b, r.flags, r.done, r.data, r.op)
BY Types DEF Changes

\* The fields of a buffer given to the driver by bwrite.
LEMMA WrittenShape ==
    ASSUME NEW r \in BufType, r.op = "none"
    PROVE  /\ Written(r) \in BufType /\ Written(r).id = r.id /\ Written(r).data = r.data
           /\ Written(r).flags = r.flags \ {"READ", "ERROR", "DIRTY"} /\ Written(r).done = FALSE
           /\ Written(r).op = "write"
BY DEF Written, BufType, Started

\* The fields of a buffer after block_put.
LEMMA ReleasedShape ==
    ASSUME NEW r \in BufType
    PROVE  /\ Released(r) \in BufType /\ Released(r).id = r.id /\ Released(r).data = r.data
           /\ Released(r).flags = r.flags /\ Released(r).op = r.op
           /\ Released(r).done = (r.done /\ ~({"ERROR", "READ"} \subseteq r.flags /\ "ASYNC" \notin r.flags))
BY DEF Released, BufType

\* A record whose flags change.
LEMMA FlagsShape ==
    ASSUME NEW r \in BufType, NEW f \in SUBSET {"READ", "ASYNC", "ERROR", "DIRTY"}
    PROVE  LET s == [r EXCEPT !.flags = f] IN
           s \in BufType /\ s.id = r.id /\ s.data = r.data /\ s.flags = f /\ s.op = r.op /\ s.done = r.done
BY DEF BufType

\* B_ASYNC is cleared.
LEMMA ClearShape ==
    ASSUME TypeOK, NEW b \in Bufs, buf' = [buf EXCEPT ![b] = [buf[b] EXCEPT !.flags = buf[b].flags \ {"ASYNC"}]]
    PROVE  Changes(b, buf[b].flags \ {"ASYNC"}, buf[b].done, buf[b].data, buf[b].op)
<1> DEFINE f == buf[b].flags \ {"ASYNC"}
           r == [buf[b] EXCEPT !.flags = f]
<1>1. buf[b] \in BufType /\ f \in SUBSET {"READ", "ASYNC", "ERROR", "DIRTY"}
  BY Types DEF BufType
<1> HIDE DEF f
<1>2. /\ r \in BufType /\ r.id = buf[b].id /\ r.data = buf[b].data /\ r.flags = f
      /\ r.op = buf[b].op /\ r.done = buf[b].done
  BY <1>1, FlagsShape
<1>3. buf' = [buf EXCEPT ![b] = r]
  BY DEF f
<1> HIDE DEF r
<1>4. Changes(b, r.flags, r.done, r.data, r.op)
  BY <1>2, <1>3, SetBuffer
<1> QED BY <1>2, <1>4 DEF f

\* bwrite with B_ASYNC.
LEMMA AsyncShape ==
    ASSUME TypeOK, NEW b \in Bufs, buf[b].op = "none", WriteAsync(b)
    PROVE  /\ Changes(b, (buf[b].flags \cup {"ASYNC"}) \ {"READ", "ERROR", "DIRTY"}, FALSE, buf[b].data, "write")
           /\ CountWithout(b)
<1> DEFINE f == buf[b].flags \cup {"ASYNC"}
           s == [buf[b] EXCEPT !.flags = f]
           w == Written(s)
           r == Released(w)
<1>1. buf[b] \in BufType /\ f \in SUBSET {"READ", "ASYNC", "ERROR", "DIRTY"}
  BY Types DEF BufType
<1>2. /\ s \in BufType /\ s.id = buf[b].id /\ s.data = buf[b].data /\ s.flags = f
      /\ s.op = "none" /\ s.done = buf[b].done
  BY <1>1, FlagsShape
<1>3. buf' = [buf EXCEPT ![b] = r] /\ CountWithout(b)
  BY DEF WriteAsync
<1> HIDE DEF s
<1>4. /\ w \in BufType /\ w.id = buf[b].id /\ w.data = buf[b].data /\ w.flags = f \ {"READ", "ERROR", "DIRTY"}
      /\ w.op = "write" /\ w.done = FALSE
  BY <1>2, WrittenShape
<1> HIDE DEF w
<1>5. /\ r \in BufType /\ r.id = buf[b].id /\ r.data = buf[b].data /\ r.flags = f \ {"READ", "ERROR", "DIRTY"}
      /\ r.op = "write" /\ r.done = FALSE
  BY <1>4, ReleasedShape
<1> HIDE DEF r
<1>6. Changes(b, r.flags, r.done, r.data, r.op)
  BY <1>3, <1>5, SetBuffer
<1> QED BY <1>3, <1>5, <1>6

\* The buffer that a process has locked.
LEMMA Mine ==
    ASSUME IInv, NEW p \in Proc,
           proc[p].pc \in Owning \/ (proc[p].pc \in Waiting /\ proc[p].b # NULL /\ Owns(p))
    PROVE  \E b \in Bufs :
              /\ b = proc[p].b /\ Head(lock[b]) = p /\ lock[b] # <<>> /\ Wants(p, b) /\ BufferOf(b)
              /\ buf[b].op # "none" => Has(b, "ASYNC") \/ Moves(p, b)
<1>1. PICK b \in Bufs : b = proc[p].b /\ Head(lock[b]) = p /\ p \in ToSet(lock[b])
  BY Alone DEF Owns
<1>2. lock[b] # <<>> /\ Wants(p, b)
  BY <1>1, InQueue
<1>3. BufferOf(b)
  BY DEF IInv, Buffers
<1>4. ASSUME NEW q \in Proc, Moves(q, b) PROVE q = p
  <2>1. proc[q].main = b \/ (proc[q].b = b /\ proc[q].pc \in Owning)
    BY <1>4 DEF Moves, Owning
  <2> QED BY <1>1, <2>1, Alone, Constants
<1> QED BY <1>1, <1>2, <1>3, <1>4 DEF BufferOf

\* A buffer that nobody has locked.
LEMMA Nobodys ==
    ASSUME IInv, NEW b \in Bufs, lock[b] = <<>>
    PROVE  BufferOf(b) /\ (buf[b].op # "none" => Has(b, "ASYNC")) /\ \A q \in Proc : ~Wants(q, b)
<1>1. \A q \in Proc : ~Wants(q, b)
  BY Unwanted
<1>2. BufferOf(b)
  BY DEF IInv, Buffers
<1> QED BY <1>1, <1>2 DEF BufferOf, Moves, Wants, Owning

\* A lock left.
LEMMA FreeShape ==
    ASSUME IInv, NEW b \in Bufs, lock[b] # <<>>, lock' = [lock EXCEPT ![b] = Tail(@)]
    PROVE  lock' \in [Bufs -> Seq(Proc)] /\ (\A c \in Bufs : c # b => lock'[c] = lock[c]) /\ lock'[b] = Tail(lock[b])
<1>1. lock \in [Bufs -> Seq(Proc)] /\ Tail(lock[b]) \in Seq(Proc)
  BY Types, HeadWants DEF IInv
<1> QED BY <1>1

\* The next process in the queue of a lock waits.
LEMMA NextWaits ==
    ASSUME IInv, NEW p \in Proc, NEW b \in Bufs, Head(lock[b]) = p, Others(p),
           lock' = [lock EXCEPT ![b] = Tail(@)], OtherFlush(p, b),
           buf'[b].id = NULL \/ InHash(b)', "ERROR" \notin buf'[b].flags, buf'[b].done
    PROVE  FlushOf(b)'
<1>1. PICK q \in Proc : q # p /\ proc[q].pc = "flush" /\ proc[q].b = b
  BY DEF OtherFlush
<1>2. q \in ToSet(lock[b]) /\ lock[b] # <<>>
  <2>1. q \in ToSet(lock[b])
    BY <1>1, Alone, Constants DEF Waiting
  <2> QED BY <2>1, InQueue
<1>3. PICK t \in Seq(Proc) : t = Tail(lock[b]) /\ ToSet(t) = ToSet(lock[b]) \ {p} /\ NoRepeat(t) /\ lock'[b] = t
  BY <1>2, HeadWants, FreeShape
<1>4. Len(t) > 0
  BY <1>1, <1>2, <1>3 DEF ToSet
<1>5. PICK h \in Proc : h = Head(t) /\ h \in ToSet(lock[b]) /\ h # p
  BY <1>3, <1>4, TailElements
<1>6. Wants(h, b)
  BY <1>5, InQueue
<1>7. proc[h].pc \in Waiting
  BY <1>5, <1>6, Alone, Constants DEF Wants
<1>8. proc'[h] = proc[h]
  BY <1>5 DEF Others
<1> QED BY <1>3, <1>5, <1>7, <1>8 DEF FlushOf, Has, Waiting

\* block_get has the buffer of its block, and no transfer is in progress.
LEMMA FoundKeeps ==
    ASSUME IInv, NEW p \in Proc, Found(p), ~InProgress(proc[p].b)
    PROVE  IInv'
<1>1. LocalsOf(p) /\ Held(p) /\ HandsOf(p) /\ TypeOK /\ proc \in [Proc -> ProcType]
  BY Actor DEF IInv
<1>g. proc[p].pc = "found" /\ Owns(p) /\ proc[p].b # NULL
  BY <1>1 DEF Found, At, Held
<1>b. PICK b \in Bufs :
         /\ b = proc[p].b /\ Head(lock[b]) = p /\ lock[b] # <<>> /\ Wants(p, b) /\ BufferOf(b)
         /\ buf[b].op # "none" => Has(b, "ASYNC") \/ Moves(p, b)
         /\ buf' = [buf EXCEPT ![b] = [buf[b] EXCEPT !.flags = buf[b].flags \ {"ASYNC"}]]
         /\ lock' = lock /\ proc' = [proc EXCEPT ![p] = [proc[p] EXCEPT !.pc = "got"]]
         /\ buf[b].id = Target(p) /\ (Has(b, "ASYNC") => buf[b].done)
  <2>1. PICK b \in Bufs :
         /\ b = proc[p].b /\ Head(lock[b]) = p /\ lock[b] # <<>> /\ Wants(p, b) /\ BufferOf(b)
         /\ buf[b].op # "none" => Has(b, "ASYNC") \/ Moves(p, b)
    BY <1>g, Mine DEF Waiting
  <2>2. /\ buf' = [buf EXCEPT ![b] = [buf[b] EXCEPT !.flags = buf[b].flags \ {"ASYNC"}]]
        /\ lock' = lock /\ proc' = [proc EXCEPT ![p] = [proc[p] EXCEPT !.pc = "got"]]
        /\ buf[b].id = Target(p) /\ (Has(b, "ASYNC") => buf[b].done)
    BY <2>1 DEF Found, InProgress
  <2> QED BY <2>1, <2>2
<1>i. b \in Bufs /\ buf[b] \in BufType /\ buf \in [Bufs -> BufType]
  BY <1>1, Types
<1>t. buf[b].op = "none" /\ InHash(b)
  <2>1. FoundOf(p)
    BY DEF IInv, Founds
  <2>2. ~Moves(p, b)
    BY <1>g, <1>b, <1>1 DEF Moves, Held
  <2> QED BY <1>g, <1>b, <2>1, <2>2 DEF BufferOf, FoundOf
<1>r. Changes(b, buf[b].flags \ {"ASYNC"}, buf[b].done, buf[b].data, buf[b].op)
  BY <1>1, <1>b, ClearShape
<1>2. Becomes(p, "got", proc[p].for, proc[p].b, proc[p].main, proc[p].i)
  <2>1. proc[p] \in ProcType
    BY <1>1
  <2>2. [proc[p] EXCEPT !.pc = "got"] \in ProcType
    BY <1>i, <2>1 DEF ProcType, Label
  <2>3. proc' = [proc EXCEPT ![p] = [proc[p] EXCEPT !.pc = "got"]]
    BY <1>b
  <2> QED BY <1>1, <2>1, <2>2, <2>3 DEF Becomes, Others, ProcType
<1>3. UNCHANGED <<block_lru, hash, disk, latest, mounted, updlock>> /\ cpu' \in Proc \cup {NULL} /\ Others(p) /\ proc' \in [Proc -> ProcType]
  BY <1>1, <1>2 DEF Found, TypeOK, Becomes
<1>4. LocalsOf(p)'
  BY <1>g, <1>1, <1>2, <1>3, Constants DEF LocalsOf, Becomes, UserPc, UserGet, UpdatePc, Label
<1>m. proc[p].main # NULL => proc[p].main \in Bufs /\ lock[proc[p].main] # <<>> /\ Head(lock[proc[p].main]) = p
  BY Alone, InQueue
<1>5. \A c \in Bufs : Wants(p, c)' <=> Wants(p, c)
  BY <1>g, <1>b, <1>m, <1>1, <1>2, <1>3, Constants DEF Held, Wants, Becomes, Owning, Waiting, LocalsOf, UserPc, UserGet
<1>6. Held(p)'
  BY <1>g, <1>b, <1>1, <1>2, <1>3 DEF Held, Becomes, Owning
<1>7. lock' \in [Bufs -> Seq(Proc)] /\ (\A c \in Bufs : c # b => lock'[c] = lock[c]) /\ Locks'
  BY <1>1, <1>b, <1>3, <1>5, <1>6, LocksSame, SMTT(40) DEF TypeOK
<1>8. HandsOf(p)'
  BY <1>g, <1>b, <1>r, <1>1, <1>2, <1>3, <1>i, <1>t, SMTT(40) DEF HandsOf, Held, LocalsOf, Changes, Becomes, Target, InHash, Has, Owning, UserGet, UserPc, BufferOf
<1>9. BufferOf(b)'
  BY <1>g, <1>b, <1>r, <1>1, <1>2, <1>3, <1>i, <1>t DEF BufferOf, Changes, Moves, Becomes, InHash, Has, HandsOf
<1>10. Keeps(b) => Keeps(b)'
  BY <1>g, <1>b, <1>r, <1>1, <1>3, <1>i, <1>t DEF Keeps, BufferOf, Changes, InHash, Has
<1>11. DirtyCountExact'
  BY <1>b, <1>r, <1>3, <1>t, DirtySame DEF Changes, Has, Found
<1>12. \A c \in Bufs : c # b /\ buf[c].op # "none" /\ Moves(p, c) => Moves(p, c)'
  BY <1>g, <1>b, <1>1, <1>2, Constants, SMTT(40) DEF Moves, Becomes, LocalsOf, UserPc, UserGet
<1>13. lock[b] # <<>> /\ OtherFlush(p, b) /\ FlushOf(b) => FlushOf(b)'
  BY <1>g, <1>b, <1>r, <1>1, <1>2, <1>3, <1>t DEF FlushOf, Changes, Becomes, InHash, Has
<1>14. /\ proc'[p].pc \in UpdatePc => proc[p].pc \in UpdatePc
       /\ proc[p].pc = "writing" => proc[p].b = b
       /\ proc'[p].pc \in Taking =>
              proc'[p].b = b /\ (lock[b] = <<>> \/ (proc[p].pc \in Taking /\ proc[p].b = b))
       /\ proc'[p].pc = "flush" => proc'[p].b = NULL
       /\ proc'[p].pc # "found"
  BY <1>g, <1>b, <1>1, <1>2 DEF Becomes, UpdatePc, LocalsOf, Taking
<1>15. /\ buf' \in [Bufs -> BufType] /\ \A c \in Bufs : c # b => buf'[c] = buf[c]
       /\ buf'[b].id = buf[b].id
  BY <1>r DEF Changes
<1>16. lock[b] = <<>> \/ Head(lock[b]) = p
  BY <1>b
<1> QED BY <1>16, <1>3, <1>4, <1>7, <1>8, <1>9, <1>10, <1>11, <1>12, <1>13, <1>14, <1>15, ChangeKeeps

\* A buffer written after its flag B_ASYNC was cleared.
LEMMA WriteShape ==
    ASSUME TypeOK, NEW b \in Bufs, buf[b].op = "none",
           buf' = [buf EXCEPT ![b] = Written([buf[b] EXCEPT !.flags = buf[b].flags \ {"ASYNC"}])]
    PROVE  Changes(b, buf[b].flags \ {"ASYNC", "READ", "ERROR", "DIRTY"}, FALSE, buf[b].data, "write")
<1> DEFINE f == buf[b].flags \ {"ASYNC"}
           s == [buf[b] EXCEPT !.flags = f]
           r == Written(s)
<1>1. buf[b] \in BufType /\ f \in SUBSET {"READ", "ASYNC", "ERROR", "DIRTY"}
  BY Types DEF BufType
<1>2. /\ s \in BufType /\ s.id = buf[b].id /\ s.data = buf[b].data /\ s.flags = f
      /\ s.op = "none" /\ s.done = buf[b].done
  BY <1>1, FlagsShape
<1>3. buf' = [buf EXCEPT ![b] = r]
  OBVIOUS
<1>f. f \ {"READ", "ERROR", "DIRTY"} = buf[b].flags \ {"ASYNC", "READ", "ERROR", "DIRTY"}
  OBVIOUS
<1> HIDE DEF s, f
<1>5. /\ r \in BufType /\ r.id = buf[b].id /\ r.data = buf[b].data /\ r.flags = f \ {"READ", "ERROR", "DIRTY"}
      /\ r.op = "write" /\ r.done = FALSE
  BY <1>2, WrittenShape
<1> HIDE DEF r
<1>6. Changes(b, r.flags, r.done, r.data, r.op)
  BY <1>3, <1>5, SetBuffer
<1> QED BY <1>5, <1>6, <1>f

\* A buffer given to the driver to be read.
LEMMA ReadShape ==
    ASSUME TypeOK, NEW b \in Bufs, buf[b].op = "none", NEW flags \in SUBSET {"READ", "ASYNC"}, Reading(b, flags)
    PROVE  Changes(b, buf[b].flags \cup flags, buf[b].done, buf[b].data, "read")
<1> DEFINE f == buf[b].flags \cup flags
           s == [buf[b] EXCEPT !.flags = f]
           r == [s EXCEPT !.op = "read"]
<1>1. buf[b] \in BufType /\ f \in SUBSET {"READ", "ASYNC", "ERROR", "DIRTY"} /\ buf \in [Bufs -> BufType]
  BY Types DEF BufType
<1>3. buf' = [buf EXCEPT ![b] = r]
  BY <1>1 DEF Reading, Started, BufType
<1> HIDE DEF f
<1>2. /\ s \in BufType /\ s.id = buf[b].id /\ s.data = buf[b].data /\ s.flags = f
      /\ s.op = "none" /\ s.done = buf[b].done
  BY <1>1, FlagsShape
<1> HIDE DEF s
<1>5. /\ r \in BufType /\ r.id = buf[b].id /\ r.data = buf[b].data /\ r.flags = f
      /\ r.op = "read" /\ r.done = buf[b].done
  BY <1>2 DEF BufType
<1> HIDE DEF r
<1>6. Changes(b, r.flags, r.done, r.data, r.op)
  BY <1>3, <1>5, SetBuffer
<1> QED BY <1>5, <1>6 DEF f

\* A buffer put back.
LEMMA ReleaseShape ==
    ASSUME TypeOK, NEW b \in Bufs, buf' = [buf EXCEPT ![b] = Released(buf[b])]
    PROVE  Changes(b, buf[b].flags, buf[b].done /\ ~({"ERROR", "READ"} \subseteq buf[b].flags /\ "ASYNC" \notin buf[b].flags),
                   buf[b].data, buf[b].op)
<1> DEFINE r == Released(buf[b])
<1>1. buf[b] \in BufType
  BY Types
<1>2. /\ r \in BufType /\ r.id = buf[b].id /\ r.data = buf[b].data
      /\ r.flags = buf[b].flags /\ r.op = buf[b].op
      /\ r.done = (buf[b].done /\ ~({"ERROR", "READ"} \subseteq buf[b].flags /\ "ASYNC" \notin buf[b].flags))
  BY <1>1, ReleasedShape
<1> HIDE DEF r
<1>3. Changes(b, r.flags, r.done, r.data, r.op)
  BY <1>2, SetBuffer DEF r
<1> QED BY <1>2, <1>3

\* A clean buffer is taken from the list.
LEMMA ScanCleanKeeps ==
    ASSUME IInv, NEW p \in Proc, ScanClean(p)
    PROVE  IInv'
<1>1. LocalsOf(p) /\ Held(p) /\ HandsOf(p) /\ TypeOK /\ proc \in [Proc -> ProcType]
  BY Actor DEF IInv
<1>g. Scanning(p) /\ proc[p].pc \in {"lru", "lruagain"}
  BY DEF ScanClean, Scanning, At
<1>b. PICK b \in Bufs :
         /\ b = Candidate(p) /\ lock[b] = <<>> /\ BufferOf(b)
         /\ buf[b].op # "none" => Has(b, "ASYNC")
         /\ lock' = [lock EXCEPT ![b] = Append(@, p)] /\ ~Has(b, "DIRTY") /\ ~InProgress(b)
         /\ buf' = [buf EXCEPT ![b] = [buf[b] EXCEPT !.flags = buf[b].flags \ {"ASYNC"}]]
         /\ proc' = [proc EXCEPT ![p] = [proc[p] EXCEPT !.pc = "reuse", !.b = b]]
  <2>1. PICK b \in Bufs :
         /\ b = Candidate(p) /\ lock[b] = <<>> /\ BufferOf(b)
         /\ buf[b].op # "none" => Has(b, "ASYNC")
    BY <1>g, CandidateUnlocked, Nobodys
  <2>a. Append(lock[b], p) = <<p>>
    BY <2>1
  <2>2. lock' = [lock EXCEPT ![b] = <<p>>]
    BY <2>1 DEF ScanClean, SleepTest
  <2>3. /\ ~Has(b, "DIRTY") /\ ~InProgress(b)
        /\ buf' = [buf EXCEPT ![b] = [buf[b] EXCEPT !.flags = buf[b].flags \ {"ASYNC"}]]
        /\ proc' = [proc EXCEPT ![p] = [proc[p] EXCEPT !.pc = "reuse", !.b = b]]
    BY <2>1 DEF ScanClean
  <2> QED BY <2>1, <2>2, <2>3, <2>a
<1>i. b \in Bufs /\ buf[b] \in BufType /\ buf \in [Bufs -> BufType]
  BY <1>1, Types
<1>t. buf[b].op = "none" /\ ~Has(b, "DIRTY")
  BY <1>b DEF BufferOf, InProgress
<1>r. Changes(b, buf[b].flags \ {"ASYNC"}, buf[b].done, buf[b].data, buf[b].op)
  BY <1>1, <1>b, ClearShape
<1>2. Becomes(p, "reuse", proc[p].for, b, proc[p].main, proc[p].i)
  <2>1. proc[p] \in ProcType
    BY <1>1
  <2>2. [proc[p] EXCEPT !.pc = "reuse", !.b = b] \in ProcType
    BY <1>i, <2>1 DEF ProcType, Label
  <2>3. proc' = [proc EXCEPT ![p] = [proc[p] EXCEPT !.pc = "reuse", !.b = b]]
    BY <1>b
  <2> QED BY <1>1, <2>1, <2>2, <2>3 DEF Becomes, Others, ProcType
<1>3. UNCHANGED <<block_lru, hash, disk, latest, mounted, updlock>> /\ cpu' \in Proc \cup {NULL} /\ Others(p) /\ proc' \in [Proc -> ProcType]
  BY <1>1, <1>2 DEF ScanClean, TypeOK, Becomes
<1>4. LocalsOf(p)'
  BY <1>g, <1>1, <1>2, <1>3, Constants DEF LocalsOf, Becomes, UserPc, UserGet, UpdatePc, Label
<1>m. proc[p].main # NULL => proc[p].main \in Bufs /\ lock[proc[p].main] # <<>> /\ Head(lock[proc[p].main]) = p
  BY Alone, InQueue
<1>5. \A c \in Bufs : Wants(p, c)' <=> Wants(p, c) \/ c = b
  BY <1>g, <1>b, <1>m, <1>1, <1>2, <1>3, Constants DEF Held, Wants, Becomes, Owning, Waiting, LocalsOf, UserPc, UserGet
<1>l. lock' \in [Bufs -> Seq(Proc)] /\ (\A c \in Bufs : c # b => lock'[c] = lock[c]) /\ Head(lock'[b]) = p
  BY <1>1, <1>b, AppendHead DEF TypeOK
<1>6. Held(p)'
  BY <1>g, <1>b, <1>l, <1>m, <1>1, <1>2, <1>3, Constants DEF Held, Becomes, Owning
<1>w. ~Wants(p, b)
  BY <1>b, Unwanted
<1>7. Locks'
  BY <1>b, <1>w, <1>3, <1>5, <1>6, LocksTaken
<1>n. proc[p].main # NULL /\ proc[p].main # b => buf'[proc[p].main] = buf[proc[p].main]
  BY <1>m, <1>r DEF Changes
<1>8. HandsOf(p)'
  BY <1>g, <1>b, <1>r, <1>1, <1>2, <1>3, <1>i, <1>t, <1>m, <1>n DEF HandsOf, Held, LocalsOf, Changes, Becomes, Target, InHash, Has, Owning, UserGet, UserPc, BufferOf
<1>9. BufferOf(b)'
  BY <1>g, <1>b, <1>r, <1>1, <1>2, <1>3, <1>i, <1>t DEF BufferOf, Changes, Moves, Becomes, InHash, Has, HandsOf
<1>10. Keeps(b) => Keeps(b)'
  BY <1>g, <1>b, <1>r, <1>1, <1>3, <1>i, <1>t DEF Keeps, BufferOf, Changes, InHash, Has
<1>11. DirtyCountExact'
  BY <1>b, <1>r, <1>3, <1>t, DirtySame DEF Changes, Has, ScanClean
<1>12. \A c \in Bufs : c # b /\ buf[c].op # "none" /\ Moves(p, c) => Moves(p, c)'
  BY <1>g, <1>b, <1>1, <1>2, Constants DEF Moves, Becomes, LocalsOf, UserPc, UserGet
<1>13. lock[b] # <<>> /\ OtherFlush(p, b) /\ FlushOf(b) => FlushOf(b)'
  BY <1>b
<1>14. /\ proc'[p].pc \in UpdatePc => proc[p].pc \in UpdatePc
       /\ proc[p].pc = "writing" => proc[p].b = b
       /\ proc'[p].pc \in Taking =>
              proc'[p].b = b /\ (lock[b] = <<>> \/ (proc[p].pc \in Taking /\ proc[p].b = b))
       /\ proc'[p].pc = "flush" => proc'[p].b = NULL
       /\ proc'[p].pc # "found"
  BY <1>g, <1>b, <1>1, <1>2 DEF Becomes, UpdatePc, LocalsOf, Taking
<1>15. /\ buf' \in [Bufs -> BufType] /\ \A c \in Bufs : c # b => buf'[c] = buf[c]
       /\ buf'[b].id = buf[b].id
  BY <1>r DEF Changes
<1>16. lock[b] = <<>> \/ Head(lock[b]) = p
  BY <1>b
<1> QED BY <1>16, <1>l, <1>3, <1>4, <1>7, <1>8, <1>9, <1>10, <1>11, <1>12, <1>13, <1>14, <1>15, ChangeKeeps

\* A dirty buffer of the list is written.
LEMMA ScanDirtyKeeps ==
    ASSUME IInv, NEW p \in Proc, ScanDirty(p)
    PROVE  IInv'
<1>1. LocalsOf(p) /\ Held(p) /\ HandsOf(p) /\ TypeOK /\ proc \in [Proc -> ProcType]
  BY Actor DEF IInv
<1>g. Scanning(p) /\ proc[p].pc \in {"lru", "lruagain"}
  BY DEF ScanDirty, Scanning, At
<1>b. PICK b \in Bufs :
         /\ b = Candidate(p) /\ lock[b] = <<>> /\ BufferOf(b)
         /\ buf[b].op # "none" => Has(b, "ASYNC")
         /\ lock' = [lock EXCEPT ![b] = Append(@, p)] /\ Has(b, "DIRTY") /\ CountWithout(b)
         /\ buf' = [buf EXCEPT ![b] = Written([buf[b] EXCEPT !.flags = buf[b].flags \ {"ASYNC"}])]
         /\ proc' = [proc EXCEPT ![p] = [proc[p] EXCEPT !.pc = "lruwrite", !.b = b]]
  <2>1. PICK b \in Bufs :
         /\ b = Candidate(p) /\ lock[b] = <<>> /\ BufferOf(b)
         /\ buf[b].op # "none" => Has(b, "ASYNC")
    BY <1>g, CandidateUnlocked, Nobodys
  <2>a. Append(lock[b], p) = <<p>>
    BY <2>1
  <2>2. lock' = [lock EXCEPT ![b] = <<p>>]
    BY <2>1 DEF ScanDirty, SleepTest
  <2>3. /\ Has(b, "DIRTY") /\ CountWithout(b)
        /\ buf' = [buf EXCEPT ![b] = Written([buf[b] EXCEPT !.flags = buf[b].flags \ {"ASYNC"}])]
        /\ proc' = [proc EXCEPT ![p] = [proc[p] EXCEPT !.pc = "lruwrite", !.b = b]]
    BY <2>1 DEF ScanDirty
  <2> QED BY <2>1, <2>2, <2>3, <2>a
<1>i. b \in Bufs /\ buf[b] \in BufType /\ buf \in [Bufs -> BufType]
  BY <1>1, Types
<1>t. buf[b].op = "none" /\ InHash(b) /\ buf[b].done /\ ~Has(b, "ERROR")
  BY <1>b DEF BufferOf
<1>r. Changes(b, buf[b].flags \ {"ASYNC", "READ", "ERROR", "DIRTY"}, FALSE, buf[b].data, "write")
  BY <1>1, <1>b, <1>t, WriteShape
<1>2. Becomes(p, "lruwrite", proc[p].for, b, proc[p].main, proc[p].i)
  <2>1. proc[p] \in ProcType
    BY <1>1
  <2>2. [proc[p] EXCEPT !.pc = "lruwrite", !.b = b] \in ProcType
    BY <1>i, <2>1 DEF ProcType, Label
  <2>3. proc' = [proc EXCEPT ![p] = [proc[p] EXCEPT !.pc = "lruwrite", !.b = b]]
    BY <1>b
  <2> QED BY <1>1, <2>1, <2>2, <2>3 DEF Becomes, Others, ProcType
<1>3. UNCHANGED <<block_lru, hash, disk, latest, mounted, updlock>> /\ cpu' \in Proc \cup {NULL} /\ Others(p) /\ proc' \in [Proc -> ProcType]
  BY <1>1, <1>2 DEF ScanDirty, TypeOK, Becomes
<1>4. LocalsOf(p)'
  BY <1>g, <1>1, <1>2, <1>3, Constants DEF LocalsOf, Becomes, UserPc, UserGet, UpdatePc, Label
<1>m. proc[p].main # NULL => proc[p].main \in Bufs /\ lock[proc[p].main] # <<>> /\ Head(lock[proc[p].main]) = p
  BY Alone, InQueue
<1>5. \A c \in Bufs : Wants(p, c)' <=> Wants(p, c) \/ c = b
  BY <1>g, <1>b, <1>m, <1>1, <1>2, <1>3, Constants DEF Held, Wants, Becomes, Owning, Waiting, LocalsOf, UserPc, UserGet
<1>l. lock' \in [Bufs -> Seq(Proc)] /\ (\A c \in Bufs : c # b => lock'[c] = lock[c]) /\ Head(lock'[b]) = p
  BY <1>1, <1>b, AppendHead DEF TypeOK
<1>6. Held(p)'
  BY <1>g, <1>b, <1>l, <1>m, <1>1, <1>2, <1>3, Constants DEF Held, Becomes, Owning
<1>w. ~Wants(p, b)
  BY <1>b, Unwanted
<1>7. Locks'
  BY <1>b, <1>w, <1>3, <1>5, <1>6, LocksTaken
<1>n. proc[p].main # NULL /\ proc[p].main # b => buf'[proc[p].main] = buf[proc[p].main]
  BY <1>m, <1>r DEF Changes
<1>8. HandsOf(p)'
  <2>1. proc'[p].pc = "lruwrite" /\ proc'[p].b = b /\ ~Has(b, "DIRTY")'
    BY <1>2, <1>r DEF Becomes, Changes, Has
  <2>2. proc[p].main # NULL => proc[p].main # b
    BY <1>b, <1>m
  <2>3. /\ proc'[p].main = proc[p].main /\ proc'[p].blk = proc[p].blk /\ hash' = hash
        /\ proc[p].pc \notin {"reading", "use", "writing"}
    BY <1>2, <1>3, <1>g DEF Becomes
  <2> QED BY <2>1, <2>2, <2>3, <1>1, <1>n DEF HandsOf, InHash
<1>9. BufferOf(b)'
  BY <1>g, <1>b, <1>r, <1>1, <1>2, <1>3, <1>i, <1>t DEF BufferOf, Changes, Moves, Becomes, InHash, Has, HandsOf
<1>10. Keeps(b) => Keeps(b)'
  BY <1>g, <1>b, <1>r, <1>1, <1>3, <1>i, <1>t DEF Keeps, BufferOf, Changes, InHash, Has
<1>11. DirtyCountExact'
  BY <1>b, <1>r, <1>3, <1>t, DirtyLess DEF Changes, Has
<1>12. \A c \in Bufs : c # b /\ buf[c].op # "none" /\ Moves(p, c) => Moves(p, c)'
  BY <1>g, <1>b, <1>1, <1>2, Constants DEF Moves, Becomes, LocalsOf, UserPc, UserGet
<1>13. lock[b] # <<>> /\ OtherFlush(p, b) /\ FlushOf(b) => FlushOf(b)'
  BY <1>b
<1>14. /\ proc'[p].pc \in UpdatePc => proc[p].pc \in UpdatePc
       /\ proc[p].pc = "writing" => proc[p].b = b
       /\ proc'[p].pc \in Taking =>
              proc'[p].b = b /\ (lock[b] = <<>> \/ (proc[p].pc \in Taking /\ proc[p].b = b))
       /\ proc'[p].pc = "flush" => proc'[p].b = NULL
       /\ proc'[p].pc # "found"
  BY <1>g, <1>b, <1>1, <1>2 DEF Becomes, UpdatePc, LocalsOf, Taking
<1>15. /\ buf' \in [Bufs -> BufType] /\ \A c \in Bufs : c # b => buf'[c] = buf[c]
       /\ buf'[b].id = buf[b].id
  BY <1>r DEF Changes
<1>16. lock[b] = <<>> \/ Head(lock[b]) = p
  BY <1>b
<1> QED BY <1>16, <1>l, <1>3, <1>4, <1>7, <1>8, <1>9, <1>10, <1>11, <1>12, <1>13, <1>14, <1>15, ChangeKeeps

\* A buffer of the list was written.
LEMMA ScanWrittenKeeps ==
    ASSUME IInv, NEW p \in Proc, ScanWritten(p)
    PROVE  IInv'
<1>1. LocalsOf(p) /\ Held(p) /\ HandsOf(p) /\ TypeOK /\ proc \in [Proc -> ProcType]
  BY Actor DEF IInv
<1>g. proc[p].pc = "lruwrite" /\ buf[proc[p].b].done
  BY DEF ScanWritten, At
<1>b. PICK b \in Bufs :
         /\ b = proc[p].b /\ Head(lock[b]) = p /\ lock[b] # <<>> /\ Wants(p, b) /\ BufferOf(b)
         /\ buf[b].op # "none" => Has(b, "ASYNC") \/ Moves(p, b)
         /\ lock' = [lock EXCEPT ![b] = Tail(@)]
         /\ buf' = [buf EXCEPT ![b] = Released(buf[b])]
         /\ proc' = [proc EXCEPT ![p] = [proc[p] EXCEPT !.pc = "lruagain", !.b = NULL]]
  <2>1. PICK b \in Bufs :
         /\ b = proc[p].b /\ Head(lock[b]) = p /\ lock[b] # <<>> /\ Wants(p, b) /\ BufferOf(b)
         /\ buf[b].op # "none" => Has(b, "ASYNC") \/ Moves(p, b)
    BY <1>g, Mine DEF Waiting, Owning
  <2>2. /\ lock' = [lock EXCEPT ![b] = Tail(@)]
         /\ buf' = [buf EXCEPT ![b] = Released(buf[b])]
         /\ proc' = [proc EXCEPT ![p] = [proc[p] EXCEPT !.pc = "lruagain", !.b = NULL]]
    BY <2>1 DEF ScanWritten, SleepFree, Release, InProgress
  <2> QED BY <2>1, <2>2
<1>i. b \in Bufs /\ buf[b] \in BufType /\ buf \in [Bufs -> BufType]
  BY <1>1, Types
<1>t. buf[b].op = "none"
  BY <1>b, <1>g DEF BufferOf
<1>r. Changes(b, buf[b].flags, buf[b].done /\ ~({"ERROR", "READ"} \subseteq buf[b].flags /\ "ASYNC" \notin buf[b].flags),
             buf[b].data, buf[b].op)
  BY <1>1, <1>b, ReleaseShape
<1>2. Becomes(p, "lruagain", proc[p].for, NULL, proc[p].main, proc[p].i)
  <2>1. proc[p] \in ProcType
    BY <1>1
  <2>2. [proc[p] EXCEPT !.pc = "lruagain", !.b = NULL] \in ProcType
    BY <1>i, <2>1 DEF ProcType, Label
  <2>3. proc' = [proc EXCEPT ![p] = [proc[p] EXCEPT !.pc = "lruagain", !.b = NULL]]
    BY <1>b
  <2> QED BY <1>1, <2>1, <2>2, <2>3 DEF Becomes, Others, ProcType
<1>3. UNCHANGED <<block_lru, hash, disk, latest, mounted, updlock>> /\ cpu' \in Proc \cup {NULL} /\ Others(p) /\ proc' \in [Proc -> ProcType]
  BY <1>1, <1>2 DEF ScanWritten, TypeOK, Becomes
<1>4. LocalsOf(p)'
  BY <1>g, <1>1, <1>2, <1>3, Constants DEF LocalsOf, Becomes, UserPc, UserGet, UpdatePc, Label
<1>m. proc[p].main # NULL => proc[p].main \in Bufs /\ lock[proc[p].main] # <<>> /\ Head(lock[proc[p].main]) = p
  BY Alone, InQueue
<1>5. \A c \in Bufs : Wants(p, c)' <=> Wants(p, c) /\ c # b
  BY <1>g, <1>b, <1>m, <1>1, <1>2, <1>3, Constants DEF Held, Wants, Becomes, Owning, Waiting, LocalsOf, UserPc, UserGet
<1>l. lock' \in [Bufs -> Seq(Proc)] /\ (\A c \in Bufs : c # b => lock'[c] = lock[c])
  BY <1>b, FreeShape
<1>6. Held(p)'
  BY <1>g, <1>b, <1>l, <1>m, <1>1, <1>2, <1>3 DEF Held, Becomes, Owning, LocalsOf, UserPc, UserGet
<1>7. Locks'
  BY <1>b, <1>3, <1>5, <1>6, LocksFreed
<1>n. proc[p].main # NULL /\ proc[p].main # b => buf'[proc[p].main] = buf[proc[p].main]
  BY <1>m, <1>r DEF Changes
<1>8. HandsOf(p)'
  BY <1>g, <1>b, <1>r, <1>1, <1>2, <1>3, <1>i, <1>t, <1>m, <1>n, SMTT(40) DEF HandsOf, Held, LocalsOf, Changes, Becomes, Target, InHash, Has, Owning, UserGet, UserPc, BufferOf
<1>9. BufferOf(b)'
  BY <1>g, <1>b, <1>r, <1>1, <1>2, <1>3, <1>i, <1>t DEF BufferOf, Changes, Moves, Becomes, InHash, Has, HandsOf
<1>10. Keeps(b) => Keeps(b)'
  BY <1>g, <1>b, <1>r, <1>1, <1>3, <1>i, <1>t DEF Keeps, BufferOf, Changes, InHash, Has
<1>11. DirtyCountExact'
  BY <1>b, <1>r, <1>3, <1>t, DirtySame DEF Changes, Has, ScanWritten
<1>12. \A c \in Bufs : c # b /\ buf[c].op # "none" /\ Moves(p, c) => Moves(p, c)'
  BY <1>g, <1>b, <1>1, <1>2, Constants DEF Moves, Becomes, LocalsOf, UserPc, UserGet
<1>13. lock[b] # <<>> /\ OtherFlush(p, b) /\ FlushOf(b) => FlushOf(b)'
  <2> SUFFICES ASSUME OtherFlush(p, b), FlushOf(b) PROVE FlushOf(b)'
    OBVIOUS
  <2>1. (buf'[b].id = NULL \/ InHash(b)') /\ "ERROR" \notin buf'[b].flags /\ buf'[b].done
    BY <1>g, <1>b, <1>r, <1>1, <1>3, <1>t DEF FlushOf, Changes, InHash, Has
  <2> QED BY <1>b, <1>3, <2>1, NextWaits
<1>14. /\ proc'[p].pc \in UpdatePc => proc[p].pc \in UpdatePc
       /\ proc[p].pc = "writing" => proc[p].b = b
       /\ proc'[p].pc \in Taking =>
              proc'[p].b = b /\ (lock[b] = <<>> \/ (proc[p].pc \in Taking /\ proc[p].b = b))
       /\ proc'[p].pc = "flush" => proc'[p].b = NULL
       /\ proc'[p].pc # "found"
  BY <1>g, <1>b, <1>1, <1>2 DEF Becomes, UpdatePc, LocalsOf, Taking
<1>15. /\ buf' \in [Bufs -> BufType] /\ \A c \in Bufs : c # b => buf'[c] = buf[c]
       /\ buf'[b].id = buf[b].id
  BY <1>r DEF Changes
<1>16. lock[b] = <<>> \/ Head(lock[b]) = p
  BY <1>b
<1> QED BY <1>16, <1>l, <1>3, <1>4, <1>7, <1>8, <1>9, <1>10, <1>11, <1>12, <1>13, <1>14, <1>15, ChangeKeeps

\* The transfer of a buffer of the list is done.
LEMMA ScanDoneKeeps ==
    ASSUME IInv, NEW p \in Proc, ScanDone(p)
    PROVE  IInv'
<1>1. LocalsOf(p) /\ Held(p) /\ HandsOf(p) /\ TypeOK /\ proc \in [Proc -> ProcType]
  BY Actor DEF IInv
<1>g. proc[p].pc = "lruasync" /\ buf[proc[p].b].done
  BY DEF ScanDone, At
<1>b. PICK b \in Bufs :
         /\ b = proc[p].b /\ Head(lock[b]) = p /\ lock[b] # <<>> /\ Wants(p, b) /\ BufferOf(b)
         /\ buf[b].op # "none" => Has(b, "ASYNC") \/ Moves(p, b)
         /\ lock' = lock
         /\ buf' = [buf EXCEPT ![b] = [buf[b] EXCEPT !.flags = buf[b].flags \ {"ASYNC"}]]
         /\ proc' = [proc EXCEPT ![p] = [proc[p] EXCEPT !.pc = "reuse"]]
  <2>1. PICK b \in Bufs :
         /\ b = proc[p].b /\ Head(lock[b]) = p /\ lock[b] # <<>> /\ Wants(p, b) /\ BufferOf(b)
         /\ buf[b].op # "none" => Has(b, "ASYNC") \/ Moves(p, b)
    BY <1>g, Mine DEF Waiting, Owning
  <2>2. /\ lock' = lock
         /\ buf' = [buf EXCEPT ![b] = [buf[b] EXCEPT !.flags = buf[b].flags \ {"ASYNC"}]]
         /\ proc' = [proc EXCEPT ![p] = [proc[p] EXCEPT !.pc = "reuse"]]
    BY <2>1 DEF ScanDone, SleepFree, Release, InProgress
  <2> QED BY <2>1, <2>2
<1>i. b \in Bufs /\ buf[b] \in BufType /\ buf \in [Bufs -> BufType]
  BY <1>1, Types
<1>t. buf[b].op = "none"
  BY <1>b, <1>g DEF BufferOf
<1>r. Changes(b, buf[b].flags \ {"ASYNC"}, buf[b].done, buf[b].data, buf[b].op)
  BY <1>1, <1>b, ClearShape
<1>2. Becomes(p, "reuse", proc[p].for, proc[p].b, proc[p].main, proc[p].i)
  <2>1. proc[p] \in ProcType
    BY <1>1
  <2>2. [proc[p] EXCEPT !.pc = "reuse"] \in ProcType
    BY <1>i, <2>1 DEF ProcType, Label
  <2>3. proc' = [proc EXCEPT ![p] = [proc[p] EXCEPT !.pc = "reuse"]]
    BY <1>b
  <2> QED BY <1>1, <2>1, <2>2, <2>3 DEF Becomes, Others, ProcType
<1>3. UNCHANGED <<block_lru, hash, disk, latest, mounted, updlock>> /\ cpu' \in Proc \cup {NULL} /\ Others(p) /\ proc' \in [Proc -> ProcType]
  BY <1>1, <1>2 DEF ScanDone, TypeOK, Becomes
<1>4. LocalsOf(p)'
  BY <1>g, <1>1, <1>2, <1>3, Constants DEF LocalsOf, Becomes, UserPc, UserGet, UpdatePc, Label
<1>m. proc[p].main # NULL => proc[p].main \in Bufs /\ lock[proc[p].main] # <<>> /\ Head(lock[proc[p].main]) = p
  BY Alone, InQueue
<1>5. \A c \in Bufs : Wants(p, c)' <=> Wants(p, c)
  BY <1>g, <1>b, <1>m, <1>1, <1>2, <1>3, Constants DEF Held, Wants, Becomes, Owning, Waiting, LocalsOf, UserPc, UserGet
<1>6. Held(p)'
  BY <1>g, <1>b, <1>1, <1>2, <1>3 DEF Held, Becomes, Owning
<1>7. lock' \in [Bufs -> Seq(Proc)] /\ (\A c \in Bufs : c # b => lock'[c] = lock[c]) /\ Locks'
  BY <1>1, <1>b, <1>3, <1>5, <1>6, LocksSame, SMTT(40) DEF TypeOK
<1>n. proc[p].main # NULL /\ proc[p].main # b => buf'[proc[p].main] = buf[proc[p].main]
  BY <1>m, <1>r DEF Changes
<1>8. HandsOf(p)'
  BY <1>g, <1>b, <1>r, <1>1, <1>2, <1>3, <1>i, <1>t, <1>m, <1>n DEF HandsOf, Held, LocalsOf, Changes, Becomes, Target, InHash, Has, Owning, UserGet, UserPc, BufferOf
<1>9. BufferOf(b)'
  BY <1>g, <1>b, <1>r, <1>1, <1>2, <1>3, <1>i, <1>t DEF BufferOf, Changes, Moves, Becomes, InHash, Has, HandsOf
<1>10. Keeps(b) => Keeps(b)'
  BY <1>g, <1>b, <1>r, <1>1, <1>3, <1>i, <1>t DEF Keeps, BufferOf, Changes, InHash, Has
<1>11. DirtyCountExact'
  BY <1>b, <1>r, <1>3, <1>t, DirtySame DEF Changes, Has, ScanDone
<1>12. \A c \in Bufs : c # b /\ buf[c].op # "none" /\ Moves(p, c) => Moves(p, c)'
  BY <1>g, <1>b, <1>1, <1>2, Constants, SMTT(40) DEF Moves, Becomes, LocalsOf, UserPc, UserGet
<1>13. lock[b] # <<>> /\ OtherFlush(p, b) /\ FlushOf(b) => FlushOf(b)'
  BY <1>g, <1>b, <1>r, <1>1, <1>2, <1>3, <1>t DEF FlushOf, Changes, Becomes, InHash, Has
<1>14. /\ proc'[p].pc \in UpdatePc => proc[p].pc \in UpdatePc
       /\ proc[p].pc = "writing" => proc[p].b = b
       /\ proc'[p].pc \in Taking =>
              proc'[p].b = b /\ (lock[b] = <<>> \/ (proc[p].pc \in Taking /\ proc[p].b = b))
       /\ proc'[p].pc = "flush" => proc'[p].b = NULL
       /\ proc'[p].pc # "found"
  BY <1>g, <1>b, <1>1, <1>2 DEF Becomes, UpdatePc, LocalsOf, Taking
<1>15. /\ buf' \in [Bufs -> BufType] /\ \A c \in Bufs : c # b => buf'[c] = buf[c]
       /\ buf'[b].id = buf[b].id
  BY <1>r DEF Changes
<1>16. lock[b] = <<>> \/ Head(lock[b]) = p
  BY <1>b
<1> QED BY <1>16, <1>3, <1>4, <1>7, <1>8, <1>9, <1>10, <1>11, <1>12, <1>13, <1>14, <1>15, ChangeKeeps

\* The buffer is read.
LEMMA FillReadKeeps ==
    ASSUME IInv, NEW p \in Proc, Fill(p), ~buf[proc[p].b].done
    PROVE  IInv'
<1>1. LocalsOf(p) /\ Held(p) /\ HandsOf(p) /\ TypeOK /\ proc \in [Proc -> ProcType]
  BY Actor DEF IInv
<1>g. proc[p].pc = "keep" /\ proc[p].for = "read" /\ ~buf[proc[p].b].done
  BY DEF Fill, Kept, At
<1>b. PICK b \in Bufs :
         /\ b = proc[p].b /\ Head(lock[b]) = p /\ lock[b] # <<>> /\ Wants(p, b) /\ BufferOf(b)
         /\ buf[b].op # "none" => Has(b, "ASYNC") \/ Moves(p, b)
         /\ lock' = lock
         /\ proc' = [proc EXCEPT ![p] = [proc[p] EXCEPT !.pc = "reading"]]
         /\ Reading(b, {"READ"})
  <2>1. PICK b \in Bufs :
         /\ b = proc[p].b /\ Head(lock[b]) = p /\ lock[b] # <<>> /\ Wants(p, b) /\ BufferOf(b)
         /\ buf[b].op # "none" => Has(b, "ASYNC") \/ Moves(p, b)
    BY <1>g, Mine DEF Waiting, Owning
  <2>2. /\ lock' = lock
         /\ proc' = [proc EXCEPT ![p] = [proc[p] EXCEPT !.pc = "reading"]]
         /\ Reading(b, {"READ"})
    BY <2>1 DEF Fill, SleepFree, Release, InProgress
  <2> QED BY <2>1, <2>2
<1>i. b \in Bufs /\ buf[b] \in BufType /\ buf \in [Bufs -> BufType]
  BY <1>1, Types
<1>t. buf[b].op = "none" /\ InHash(b) /\ buf[b].id = Target(p)
  BY <1>b, <1>g, <1>1 DEF HandsOf
<1>r. Changes(b, buf[b].flags \cup {"READ"}, buf[b].done, buf[b].data, "read")
  <2>1. {"READ"} \in SUBSET {"READ", "ASYNC"}
    OBVIOUS
  <2> QED BY <1>1, <1>b, <1>t, <2>1, ReadShape
<1>2. Becomes(p, "reading", proc[p].for, proc[p].b, proc[p].main, proc[p].i)
  <2>1. proc[p] \in ProcType
    BY <1>1
  <2>2. [proc[p] EXCEPT !.pc = "reading"] \in ProcType
    BY <1>i, <2>1 DEF ProcType, Label
  <2>3. proc' = [proc EXCEPT ![p] = [proc[p] EXCEPT !.pc = "reading"]]
    BY <1>b
  <2> QED BY <1>1, <2>1, <2>2, <2>3 DEF Becomes, Others, ProcType
<1>3. UNCHANGED <<block_lru, hash, disk, latest, mounted, updlock>> /\ cpu' \in Proc \cup {NULL} /\ Others(p) /\ proc' \in [Proc -> ProcType]
  BY <1>1, <1>2 DEF Fill, TypeOK, Becomes
<1>4. LocalsOf(p)'
  BY <1>g, <1>1, <1>2, <1>3, Constants DEF LocalsOf, Becomes, UserPc, UserGet, UpdatePc, Label
<1>m. proc[p].main # NULL => proc[p].main \in Bufs /\ lock[proc[p].main] # <<>> /\ Head(lock[proc[p].main]) = p
  BY Alone, InQueue
<1>5. \A c \in Bufs : Wants(p, c)' <=> Wants(p, c)
  BY <1>g, <1>b, <1>m, <1>1, <1>2, <1>3, Constants DEF Held, Wants, Becomes, Owning, Waiting, LocalsOf, UserPc, UserGet
<1>6. Held(p)'
  BY <1>g, <1>b, <1>1, <1>2, <1>3 DEF Held, Becomes, Owning
<1>7. lock' \in [Bufs -> Seq(Proc)] /\ (\A c \in Bufs : c # b => lock'[c] = lock[c]) /\ Locks'
  BY <1>1, <1>b, <1>3, <1>5, <1>6, LocksSame DEF TypeOK
<1>n. proc[p].main # NULL /\ proc[p].main # b => buf'[proc[p].main] = buf[proc[p].main]
  BY <1>m, <1>r DEF Changes
<1>8. HandsOf(p)'
  BY <1>g, <1>b, <1>r, <1>1, <1>2, <1>3, <1>i, <1>t, <1>m, <1>n DEF HandsOf, Held, LocalsOf, Changes, Becomes, Target, InHash, Has, Owning, UserGet, UserPc, BufferOf
<1>9. BufferOf(b)'
  BY <1>g, <1>b, <1>r, <1>1, <1>2, <1>3, <1>i, <1>t DEF BufferOf, Changes, Moves, Becomes, InHash, Has, HandsOf
<1>10. Keeps(b) => Keeps(b)'
  BY <1>g, <1>b, <1>r, <1>1, <1>3, <1>i, <1>t DEF Keeps, BufferOf, Changes, InHash, Has
<1>11. DirtyCountExact'
  BY <1>b, <1>r, <1>3, <1>t, DirtySame DEF Changes, Has, Fill
<1>12. \A c \in Bufs : c # b /\ buf[c].op # "none" /\ Moves(p, c) => Moves(p, c)'
  BY <1>g, <1>b, <1>1, <1>2, Constants, SMTT(40) DEF Moves, Becomes, LocalsOf, UserPc, UserGet
<1>13. lock[b] # <<>> /\ OtherFlush(p, b) /\ FlushOf(b) => FlushOf(b)'
  BY <1>g, <1>b, <1>r, <1>1, <1>2, <1>3, <1>t DEF FlushOf, Changes, Becomes, InHash, Has
<1>14. /\ proc'[p].pc \in UpdatePc => proc[p].pc \in UpdatePc
       /\ proc[p].pc = "writing" => proc[p].b = b
       /\ proc'[p].pc \in Taking =>
              proc'[p].b = b /\ (lock[b] = <<>> \/ (proc[p].pc \in Taking /\ proc[p].b = b))
       /\ proc'[p].pc = "flush" => proc'[p].b = NULL
       /\ proc'[p].pc # "found"
  BY <1>g, <1>b, <1>1, <1>2 DEF Becomes, UpdatePc, LocalsOf, Taking
<1>15. /\ buf' \in [Bufs -> BufType] /\ \A c \in Bufs : c # b => buf'[c] = buf[c]
       /\ buf'[b].id = buf[b].id
  BY <1>r DEF Changes
<1>16. lock[b] = <<>> \/ Head(lock[b]) = p
  BY <1>b
<1> QED BY <1>16, <1>3, <1>4, <1>7, <1>8, <1>9, <1>10, <1>11, <1>12, <1>13, <1>14, <1>15, ChangeKeeps

\* The first block of breada is read.
LEMMA FillMainKeeps ==
    ASSUME IInv, NEW p \in Proc, FillMain(p), ~buf[proc[p].b].done
    PROVE  IInv'
<1>1. LocalsOf(p) /\ Held(p) /\ HandsOf(p) /\ TypeOK /\ proc \in [Proc -> ProcType]
  BY Actor DEF IInv
<1>g. proc[p].pc = "keep" /\ proc[p].for = "main" /\ ~buf[proc[p].b].done
  BY DEF FillMain, Kept, At
<1>b. PICK b \in Bufs :
         /\ b = proc[p].b /\ Head(lock[b]) = p /\ lock[b] # <<>> /\ Wants(p, b) /\ BufferOf(b)
         /\ buf[b].op # "none" => Has(b, "ASYNC") \/ Moves(p, b)
         /\ lock' = lock
         /\ proc' = [proc EXCEPT ![p] = [proc[p] EXCEPT !.pc = "breada2", !.main = b]]
         /\ Reading(b, {"READ"})
  <2>1. PICK b \in Bufs :
         /\ b = proc[p].b /\ Head(lock[b]) = p /\ lock[b] # <<>> /\ Wants(p, b) /\ BufferOf(b)
         /\ buf[b].op # "none" => Has(b, "ASYNC") \/ Moves(p, b)
    BY <1>g, Mine DEF Waiting, Owning
  <2>2. /\ lock' = lock
         /\ proc' = [proc EXCEPT ![p] = [proc[p] EXCEPT !.pc = "breada2", !.main = b]]
         /\ Reading(b, {"READ"})
    BY <2>1 DEF FillMain, SleepFree, Release, InProgress
  <2> QED BY <2>1, <2>2
<1>i. b \in Bufs /\ buf[b] \in BufType /\ buf \in [Bufs -> BufType]
  BY <1>1, Types
<1>t. buf[b].op = "none" /\ InHash(b) /\ buf[b].id = Target(p)
  BY <1>b, <1>g, <1>1 DEF HandsOf
<1>r. Changes(b, buf[b].flags \cup {"READ"}, buf[b].done, buf[b].data, "read")
  <2>1. {"READ"} \in SUBSET {"READ", "ASYNC"}
    OBVIOUS
  <2> QED BY <1>1, <1>b, <1>t, <2>1, ReadShape
<1>2. Becomes(p, "breada2", proc[p].for, proc[p].b, b, proc[p].i)
  <2>1. proc[p] \in ProcType
    BY <1>1
  <2>2. [proc[p] EXCEPT !.pc = "breada2", !.main = b] \in ProcType
    BY <1>i, <2>1 DEF ProcType, Label
  <2>3. proc' = [proc EXCEPT ![p] = [proc[p] EXCEPT !.pc = "breada2", !.main = b]]
    BY <1>b
  <2> QED BY <1>1, <2>1, <2>2, <2>3 DEF Becomes, Others, ProcType
<1>3. UNCHANGED <<block_lru, hash, disk, latest, mounted, updlock>> /\ cpu' \in Proc \cup {NULL} /\ Others(p) /\ proc' \in [Proc -> ProcType]
  BY <1>1, <1>2 DEF FillMain, TypeOK, Becomes
<1>4. LocalsOf(p)'
  BY <1>g, <1>1, <1>2, <1>3, Constants DEF LocalsOf, Becomes, UserPc, UserGet, UpdatePc, Label
<1>m. proc[p].main # NULL => proc[p].main \in Bufs /\ lock[proc[p].main] # <<>> /\ Head(lock[proc[p].main]) = p
  BY Alone, InQueue
<1>5. \A c \in Bufs : Wants(p, c)' <=> Wants(p, c)
  BY <1>g, <1>b, <1>m, <1>1, <1>2, <1>3, Constants DEF Held, Wants, Becomes, Owning, Waiting, LocalsOf, UserPc, UserGet
<1>6. Held(p)'
  BY <1>g, <1>b, <1>1, <1>2, <1>3 DEF Held, Becomes, Owning
<1>7. lock' \in [Bufs -> Seq(Proc)] /\ (\A c \in Bufs : c # b => lock'[c] = lock[c]) /\ Locks'
  BY <1>1, <1>b, <1>3, <1>5, <1>6, LocksSame DEF TypeOK
<1>n. proc[p].main # NULL /\ proc[p].main # b => buf'[proc[p].main] = buf[proc[p].main]
  BY <1>m, <1>r DEF Changes
<1>8. HandsOf(p)'
  BY <1>g, <1>b, <1>r, <1>1, <1>2, <1>3, <1>i, <1>t, <1>m, <1>n DEF HandsOf, Held, LocalsOf, Changes, Becomes, Target, InHash, Has, Owning, UserGet, UserPc, BufferOf
<1>9. BufferOf(b)'
  BY <1>g, <1>b, <1>r, <1>1, <1>2, <1>3, <1>i, <1>t DEF BufferOf, Changes, Moves, Becomes, InHash, Has, HandsOf
<1>10. Keeps(b) => Keeps(b)'
  BY <1>g, <1>b, <1>r, <1>1, <1>3, <1>i, <1>t DEF Keeps, BufferOf, Changes, InHash, Has
<1>11. DirtyCountExact'
  BY <1>b, <1>r, <1>3, <1>t, DirtySame DEF Changes, Has, FillMain
<1>12. \A c \in Bufs : c # b /\ buf[c].op # "none" /\ Moves(p, c) => Moves(p, c)'
  BY <1>g, <1>b, <1>1, <1>2, Constants, SMTT(40) DEF Moves, Becomes, LocalsOf, UserPc, UserGet
<1>13. lock[b] # <<>> /\ OtherFlush(p, b) /\ FlushOf(b) => FlushOf(b)'
  BY <1>g, <1>b, <1>r, <1>1, <1>2, <1>3, <1>t DEF FlushOf, Changes, Becomes, InHash, Has
<1>14. /\ proc'[p].pc \in UpdatePc => proc[p].pc \in UpdatePc
       /\ proc[p].pc = "writing" => proc[p].b = b
       /\ proc'[p].pc \in Taking =>
              proc'[p].b = b /\ (lock[b] = <<>> \/ (proc[p].pc \in Taking /\ proc[p].b = b))
       /\ proc'[p].pc = "flush" => proc'[p].b = NULL
       /\ proc'[p].pc # "found"
  BY <1>g, <1>b, <1>1, <1>2 DEF Becomes, UpdatePc, LocalsOf, Taking
<1>15. /\ buf' \in [Bufs -> BufType] /\ \A c \in Bufs : c # b => buf'[c] = buf[c]
       /\ buf'[b].id = buf[b].id
  BY <1>r DEF Changes
<1>16. lock[b] = <<>> \/ Head(lock[b]) = p
  BY <1>b
<1> QED BY <1>16, <1>3, <1>4, <1>7, <1>8, <1>9, <1>10, <1>11, <1>12, <1>13, <1>14, <1>15, ChangeKeeps

\* The next block of breada is read.
LEMMA FillAheadKeeps ==
    ASSUME IInv, NEW p \in Proc, FillAhead(p), ~buf[proc[p].b].done
    PROVE  IInv'
<1>1. LocalsOf(p) /\ Held(p) /\ HandsOf(p) /\ TypeOK /\ proc \in [Proc -> ProcType]
  BY Actor DEF IInv
<1>g. proc[p].pc = "keep" /\ proc[p].for = "ahead" /\ ~buf[proc[p].b].done
  BY DEF FillAhead, Kept, At
<1>b. PICK b \in Bufs :
         /\ b = proc[p].b /\ Head(lock[b]) = p /\ lock[b] # <<>> /\ Wants(p, b) /\ BufferOf(b)
         /\ buf[b].op # "none" => Has(b, "ASYNC") \/ Moves(p, b)
         /\ lock' = [lock EXCEPT ![b] = Tail(@)]
         /\ proc' = [proc EXCEPT ![p] = [proc[p] EXCEPT !.pc = "breada3"]]
         /\ Reading(b, {"READ", "ASYNC"})
  <2>1. PICK b \in Bufs :
         /\ b = proc[p].b /\ Head(lock[b]) = p /\ lock[b] # <<>> /\ Wants(p, b) /\ BufferOf(b)
         /\ buf[b].op # "none" => Has(b, "ASYNC") \/ Moves(p, b)
    BY <1>g, Mine DEF Waiting, Owning
  <2>2. /\ lock' = [lock EXCEPT ![b] = Tail(@)]
         /\ proc' = [proc EXCEPT ![p] = [proc[p] EXCEPT !.pc = "breada3"]]
         /\ Reading(b, {"READ", "ASYNC"})
    BY <2>1 DEF FillAhead, SleepFree, Release, InProgress
  <2> QED BY <2>1, <2>2
<1>i. b \in Bufs /\ buf[b] \in BufType /\ buf \in [Bufs -> BufType]
  BY <1>1, Types
<1>t. buf[b].op = "none" /\ InHash(b) /\ buf[b].id = Target(p)
  BY <1>b, <1>g, <1>1 DEF HandsOf
<1>r. Changes(b, buf[b].flags \cup {"READ", "ASYNC"}, buf[b].done, buf[b].data, "read")
  <2>1. {"READ", "ASYNC"} \in SUBSET {"READ", "ASYNC"}
    OBVIOUS
  <2> QED BY <1>1, <1>b, <1>t, <2>1, ReadShape
<1>2. Becomes(p, "breada3", proc[p].for, proc[p].b, proc[p].main, proc[p].i)
  <2>1. proc[p] \in ProcType
    BY <1>1
  <2>2. [proc[p] EXCEPT !.pc = "breada3"] \in ProcType
    BY <1>i, <2>1 DEF ProcType, Label
  <2>3. proc' = [proc EXCEPT ![p] = [proc[p] EXCEPT !.pc = "breada3"]]
    BY <1>b
  <2> QED BY <1>1, <2>1, <2>2, <2>3 DEF Becomes, Others, ProcType
<1>3. UNCHANGED <<block_lru, hash, disk, latest, mounted, updlock>> /\ cpu' \in Proc \cup {NULL} /\ Others(p) /\ proc' \in [Proc -> ProcType]
  BY <1>1, <1>2 DEF FillAhead, TypeOK, Becomes
<1>4. LocalsOf(p)'
  BY <1>g, <1>1, <1>2, <1>3, Constants DEF LocalsOf, Becomes, UserPc, UserGet, UpdatePc, Label
<1>m. proc[p].main # NULL => proc[p].main \in Bufs /\ lock[proc[p].main] # <<>> /\ Head(lock[proc[p].main]) = p
  BY Alone, InQueue
<1>5. \A c \in Bufs : Wants(p, c)' <=> Wants(p, c) /\ c # b
  BY <1>g, <1>b, <1>m, <1>1, <1>2, <1>3, Constants DEF Held, Wants, Becomes, Owning, Waiting, LocalsOf, UserPc, UserGet
<1>l. lock' \in [Bufs -> Seq(Proc)] /\ (\A c \in Bufs : c # b => lock'[c] = lock[c])
  BY <1>b, FreeShape
<1>6. Held(p)'
  BY <1>g, <1>b, <1>l, <1>m, <1>1, <1>2, <1>3 DEF Held, Becomes, Owning, LocalsOf, UserPc, UserGet
<1>7. Locks'
  BY <1>b, <1>3, <1>5, <1>6, LocksFreed
<1>n. proc[p].main # NULL /\ proc[p].main # b => buf'[proc[p].main] = buf[proc[p].main]
  BY <1>m, <1>r DEF Changes
<1>8. HandsOf(p)'
  BY <1>g, <1>b, <1>r, <1>1, <1>2, <1>3, <1>i, <1>t, <1>m, <1>n DEF HandsOf, Held, LocalsOf, Changes, Becomes, Target, InHash, Has, Owning, UserGet, UserPc, BufferOf
<1>9. BufferOf(b)'
  BY <1>g, <1>b, <1>r, <1>1, <1>2, <1>3, <1>i, <1>t DEF BufferOf, Changes, Moves, Becomes, InHash, Has, HandsOf
<1>10. Keeps(b) => Keeps(b)'
  BY <1>g, <1>b, <1>r, <1>1, <1>3, <1>i, <1>t DEF Keeps, BufferOf, Changes, InHash, Has
<1>11. DirtyCountExact'
  BY <1>b, <1>r, <1>3, <1>t, DirtySame DEF Changes, Has, FillAhead
<1>12. \A c \in Bufs : c # b /\ buf[c].op # "none" /\ Moves(p, c) => Moves(p, c)'
  BY <1>g, <1>b, <1>1, <1>2, Constants DEF Moves, Becomes, LocalsOf, UserPc, UserGet
<1>13. lock[b] # <<>> /\ OtherFlush(p, b) /\ FlushOf(b) => FlushOf(b)'
  <2> SUFFICES ASSUME OtherFlush(p, b), FlushOf(b) PROVE FlushOf(b)'
    OBVIOUS
  <2>1. (buf'[b].id = NULL \/ InHash(b)') /\ "ERROR" \notin buf'[b].flags /\ buf'[b].done
    BY <1>g, <1>b, <1>r, <1>1, <1>3, <1>t DEF FlushOf, Changes, InHash, Has
  <2> QED BY <1>b, <1>3, <2>1, NextWaits
<1>14. /\ proc'[p].pc \in UpdatePc => proc[p].pc \in UpdatePc
       /\ proc[p].pc = "writing" => proc[p].b = b
       /\ proc'[p].pc \in Taking =>
              proc'[p].b = b /\ (lock[b] = <<>> \/ (proc[p].pc \in Taking /\ proc[p].b = b))
       /\ proc'[p].pc = "flush" => proc'[p].b = NULL
       /\ proc'[p].pc # "found"
  BY <1>g, <1>b, <1>1, <1>2 DEF Becomes, UpdatePc, LocalsOf, Taking
<1>15. /\ buf' \in [Bufs -> BufType] /\ \A c \in Bufs : c # b => buf'[c] = buf[c]
       /\ buf'[b].id = buf[b].id
  BY <1>r DEF Changes
<1>16. lock[b] = <<>> \/ Head(lock[b]) = p
  BY <1>b
<1> QED BY <1>16, <1>l, <1>3, <1>4, <1>7, <1>8, <1>9, <1>10, <1>11, <1>12, <1>13, <1>14, <1>15, ChangeKeeps

\* The next block of breada is in the cache.
LEMMA FillPutKeeps ==
    ASSUME IInv, NEW p \in Proc, FillAhead(p), buf[proc[p].b].done
    PROVE  IInv'
<1>1. LocalsOf(p) /\ Held(p) /\ HandsOf(p) /\ TypeOK /\ proc \in [Proc -> ProcType]
  BY Actor DEF IInv
<1>g. proc[p].pc = "keep" /\ proc[p].for = "ahead"
  BY DEF FillAhead, Kept, At
<1>b. PICK b \in Bufs :
         /\ b = proc[p].b /\ Head(lock[b]) = p /\ lock[b] # <<>> /\ Wants(p, b) /\ BufferOf(b)
         /\ buf[b].op # "none" => Has(b, "ASYNC") \/ Moves(p, b)
         /\ lock' = [lock EXCEPT ![b] = Tail(@)]
         /\ buf' = [buf EXCEPT ![b] = Released(buf[b])]
         /\ proc' = [proc EXCEPT ![p] = [proc[p] EXCEPT !.pc = "breada3"]]
  <2>1. PICK b \in Bufs :
         /\ b = proc[p].b /\ Head(lock[b]) = p /\ lock[b] # <<>> /\ Wants(p, b) /\ BufferOf(b)
         /\ buf[b].op # "none" => Has(b, "ASYNC") \/ Moves(p, b)
    BY <1>g, Mine DEF Waiting, Owning
  <2>2. /\ lock' = [lock EXCEPT ![b] = Tail(@)]
         /\ buf' = [buf EXCEPT ![b] = Released(buf[b])]
         /\ proc' = [proc EXCEPT ![p] = [proc[p] EXCEPT !.pc = "breada3"]]
    BY <2>1 DEF FillAhead, SleepFree, Release, InProgress
  <2> QED BY <2>1, <2>2
<1>i. b \in Bufs /\ buf[b] \in BufType /\ buf \in [Bufs -> BufType]
  BY <1>1, Types
<1>t. buf[b].op = "none" /\ InHash(b) /\ buf[b].id = Target(p)
  BY <1>b, <1>g, <1>1 DEF HandsOf
<1>r. Changes(b, buf[b].flags, buf[b].done /\ ~({"ERROR", "READ"} \subseteq buf[b].flags /\ "ASYNC" \notin buf[b].flags),
             buf[b].data, buf[b].op)
  BY <1>1, <1>b, ReleaseShape
<1>2. Becomes(p, "breada3", proc[p].for, proc[p].b, proc[p].main, proc[p].i)
  <2>1. proc[p] \in ProcType
    BY <1>1
  <2>2. [proc[p] EXCEPT !.pc = "breada3"] \in ProcType
    BY <1>i, <2>1 DEF ProcType, Label
  <2>3. proc' = [proc EXCEPT ![p] = [proc[p] EXCEPT !.pc = "breada3"]]
    BY <1>b
  <2> QED BY <1>1, <2>1, <2>2, <2>3 DEF Becomes, Others, ProcType
<1>3. UNCHANGED <<block_lru, hash, disk, latest, mounted, updlock>> /\ cpu' \in Proc \cup {NULL} /\ Others(p) /\ proc' \in [Proc -> ProcType]
  BY <1>1, <1>2 DEF FillAhead, TypeOK, Becomes
<1>4. LocalsOf(p)'
  BY <1>g, <1>1, <1>2, <1>3, Constants DEF LocalsOf, Becomes, UserPc, UserGet, UpdatePc, Label
<1>m. proc[p].main # NULL => proc[p].main \in Bufs /\ lock[proc[p].main] # <<>> /\ Head(lock[proc[p].main]) = p
  BY Alone, InQueue
<1>5. \A c \in Bufs : Wants(p, c)' <=> Wants(p, c) /\ c # b
  BY <1>g, <1>b, <1>m, <1>1, <1>2, <1>3, Constants DEF Held, Wants, Becomes, Owning, Waiting, LocalsOf, UserPc, UserGet
<1>l. lock' \in [Bufs -> Seq(Proc)] /\ (\A c \in Bufs : c # b => lock'[c] = lock[c])
  BY <1>b, FreeShape
<1>6. Held(p)'
  BY <1>g, <1>b, <1>l, <1>m, <1>1, <1>2, <1>3 DEF Held, Becomes, Owning, LocalsOf, UserPc, UserGet
<1>7. Locks'
  BY <1>b, <1>3, <1>5, <1>6, LocksFreed
<1>n. proc[p].main # NULL /\ proc[p].main # b => buf'[proc[p].main] = buf[proc[p].main]
  BY <1>m, <1>r DEF Changes
<1>8. HandsOf(p)'
  BY <1>g, <1>b, <1>r, <1>1, <1>2, <1>3, <1>i, <1>t, <1>m, <1>n DEF HandsOf, Held, LocalsOf, Changes, Becomes, Target, InHash, Has, Owning, UserGet, UserPc, BufferOf
<1>9. BufferOf(b)'
  BY <1>g, <1>b, <1>r, <1>1, <1>2, <1>3, <1>i, <1>t, ZenonT(60) DEF BufferOf, Changes, Moves, Becomes, InHash, Has, HandsOf
<1>10. Keeps(b) => Keeps(b)'
  BY <1>g, <1>b, <1>r, <1>1, <1>3, <1>i, <1>t DEF Keeps, BufferOf, Changes, InHash, Has
<1>11. DirtyCountExact'
  BY <1>b, <1>r, <1>3, <1>t, DirtySame DEF Changes, Has, FillAhead
<1>12. \A c \in Bufs : c # b /\ buf[c].op # "none" /\ Moves(p, c) => Moves(p, c)'
  BY <1>g, <1>b, <1>1, <1>2, Constants DEF Moves, Becomes, LocalsOf, UserPc, UserGet
<1>13. lock[b] # <<>> /\ OtherFlush(p, b) /\ FlushOf(b) => FlushOf(b)'
  <2> SUFFICES ASSUME OtherFlush(p, b), FlushOf(b) PROVE FlushOf(b)'
    OBVIOUS
  <2>1. (buf'[b].id = NULL \/ InHash(b)') /\ "ERROR" \notin buf'[b].flags /\ buf'[b].done
    BY <1>g, <1>b, <1>r, <1>1, <1>3, <1>t DEF FlushOf, Changes, InHash, Has
  <2> QED BY <1>b, <1>3, <2>1, NextWaits
<1>14. /\ proc'[p].pc \in UpdatePc => proc[p].pc \in UpdatePc
       /\ proc[p].pc = "writing" => proc[p].b = b
       /\ proc'[p].pc \in Taking =>
              proc'[p].b = b /\ (lock[b] = <<>> \/ (proc[p].pc \in Taking /\ proc[p].b = b))
       /\ proc'[p].pc = "flush" => proc'[p].b = NULL
       /\ proc'[p].pc # "found"
  BY <1>g, <1>b, <1>1, <1>2 DEF Becomes, UpdatePc, LocalsOf, Taking
<1>15. /\ buf' \in [Bufs -> BufType] /\ \A c \in Bufs : c # b => buf'[c] = buf[c]
       /\ buf'[b].id = buf[b].id
  BY <1>r DEF Changes
<1>16. lock[b] = <<>> \/ Head(lock[b]) = p
  BY <1>b
<1> QED BY <1>16, <1>l, <1>3, <1>4, <1>7, <1>8, <1>9, <1>10, <1>11, <1>12, <1>13, <1>14, <1>15, ChangeKeeps

\* block_put, of a block read.
LEMMA UsePutKeeps ==
    ASSUME IInv, NEW p \in Proc, UsePut(p)
    PROVE  IInv'
<1>1. LocalsOf(p) /\ Held(p) /\ HandsOf(p) /\ TypeOK /\ proc \in [Proc -> ProcType]
  BY Actor DEF IInv
<1>g. proc[p].pc = "use"
  BY DEF UsePut, At
<1>b. PICK b \in Bufs :
         /\ b = proc[p].b /\ Head(lock[b]) = p /\ lock[b] # <<>> /\ Wants(p, b) /\ BufferOf(b)
         /\ buf[b].op # "none" => Has(b, "ASYNC") \/ Moves(p, b)
         /\ lock' = [lock EXCEPT ![b] = Tail(@)]
         /\ buf' = [buf EXCEPT ![b] = Released(buf[b])]
         /\ proc' = [proc EXCEPT ![p] = Idle]
  <2>1. PICK b \in Bufs :
         /\ b = proc[p].b /\ Head(lock[b]) = p /\ lock[b] # <<>> /\ Wants(p, b) /\ BufferOf(b)
         /\ buf[b].op # "none" => Has(b, "ASYNC") \/ Moves(p, b)
    BY <1>g, Mine DEF Waiting, Owning
  <2>2. /\ lock' = [lock EXCEPT ![b] = Tail(@)]
         /\ buf' = [buf EXCEPT ![b] = Released(buf[b])]
         /\ proc' = [proc EXCEPT ![p] = Idle]
    BY <2>1 DEF UsePut, SleepFree, Release, InProgress
  <2> QED BY <2>1, <2>2
<1>i. b \in Bufs /\ buf[b] \in BufType /\ buf \in [Bufs -> BufType]
  BY <1>1, Types
<1>t. buf[b].op = "none" /\ InHash(b)
  BY <1>b, <1>g, <1>1 DEF HandsOf
<1>r. Changes(b, buf[b].flags, buf[b].done /\ ~({"ERROR", "READ"} \subseteq buf[b].flags /\ "ASYNC" \notin buf[b].flags),
             buf[b].data, buf[b].op)
  BY <1>1, <1>b, ReleaseShape
<1>2. Returns(p)
  BY <1>1, <1>b, IdleType DEF Returns, Others
<1>3. UNCHANGED <<block_lru, hash, disk, latest, mounted, updlock>> /\ cpu' \in Proc \cup {NULL} /\ Others(p) /\ proc' \in [Proc -> ProcType]
  BY <1>1, <1>2 DEF UsePut, Release, TypeOK, Returns, Idle
<1>4. LocalsOf(p)'
  BY <1>g, <1>1, <1>2, <1>3, Constants DEF LocalsOf, Returns, Idle, UserPc, UserGet, UpdatePc, Label
<1>m. proc[p].main # NULL => proc[p].main \in Bufs /\ lock[proc[p].main] # <<>> /\ Head(lock[proc[p].main]) = p
  BY Alone, InQueue
<1>5. \A c \in Bufs : Wants(p, c)' <=> Wants(p, c) /\ c # b
  BY <1>g, <1>b, <1>m, <1>1, <1>2, <1>3, Constants DEF Held, Wants, Returns, Idle, Owning, Waiting, LocalsOf, UserPc, UserGet
<1>l. lock' \in [Bufs -> Seq(Proc)] /\ (\A c \in Bufs : c # b => lock'[c] = lock[c])
  BY <1>b, FreeShape
<1>6. Held(p)'
  BY <1>g, <1>b, <1>l, <1>m, <1>1, <1>2, <1>3 DEF Held, Returns, Idle, Owning, LocalsOf, UserPc, UserGet
<1>7. Locks'
  BY <1>b, <1>3, <1>5, <1>6, LocksFreed
<1>n. proc[p].main # NULL /\ proc[p].main # b => buf'[proc[p].main] = buf[proc[p].main]
  BY <1>m, <1>r DEF Changes
<1>8. HandsOf(p)'
  BY <1>g, <1>b, <1>r, <1>1, <1>2, <1>3, <1>i, <1>t, <1>m, <1>n DEF HandsOf, Held, LocalsOf, Changes, Returns, Idle, Target, InHash, Has, Owning, UserGet, UserPc, BufferOf
<1>9. BufferOf(b)'
  BY <1>g, <1>b, <1>r, <1>1, <1>2, <1>3, <1>i, <1>t DEF BufferOf, Changes, Moves, Returns, Idle, InHash, Has, HandsOf
<1>10. Keeps(b) => Keeps(b)'
  BY <1>g, <1>b, <1>r, <1>1, <1>3, <1>i, <1>t DEF Keeps, BufferOf, Changes, InHash, Has
<1>11. DirtyCountExact'
  BY <1>b, <1>r, <1>3, <1>t, DirtySame DEF Changes, Has, UsePut, Release
<1>12. \A c \in Bufs : c # b /\ buf[c].op # "none" /\ Moves(p, c) => Moves(p, c)'
  BY <1>g, <1>b, <1>1, <1>2, Constants DEF Moves, Returns, Idle, LocalsOf, UserPc, UserGet
<1>13. lock[b] # <<>> /\ OtherFlush(p, b) /\ FlushOf(b) => FlushOf(b)'
  <2> SUFFICES ASSUME OtherFlush(p, b), FlushOf(b) PROVE FlushOf(b)'
    OBVIOUS
  <2>1. (buf'[b].id = NULL \/ InHash(b)') /\ "ERROR" \notin buf'[b].flags /\ buf'[b].done
    BY <1>g, <1>b, <1>r, <1>1, <1>3, <1>t DEF FlushOf, Changes, InHash, Has
  <2> QED BY <1>b, <1>3, <2>1, NextWaits
<1>14. /\ proc'[p].pc \in UpdatePc => proc[p].pc \in UpdatePc
       /\ proc[p].pc = "writing" => proc[p].b = b
       /\ proc'[p].pc \in Taking =>
              proc'[p].b = b /\ (lock[b] = <<>> \/ (proc[p].pc \in Taking /\ proc[p].b = b))
       /\ proc'[p].pc = "flush" => proc'[p].b = NULL
       /\ proc'[p].pc # "found"
  BY <1>g, <1>b, <1>1, <1>2 DEF Returns, Idle, UpdatePc, LocalsOf, Taking
<1>15. /\ buf' \in [Bufs -> BufType] /\ \A c \in Bufs : c # b => buf'[c] = buf[c]
       /\ buf'[b].id = buf[b].id
  BY <1>r DEF Changes
<1>16. lock[b] = <<>> \/ Head(lock[b]) = p
  BY <1>b
<1> QED BY <1>16, <1>l, <1>3, <1>4, <1>7, <1>8, <1>9, <1>10, <1>11, <1>12, <1>13, <1>14, <1>15, ChangeKeeps

\* The end of bwrite.
LEMMA WriteDoneKeeps ==
    ASSUME IInv, NEW p \in Proc, WriteDone(p)
    PROVE  IInv'
<1>1. LocalsOf(p) /\ Held(p) /\ HandsOf(p) /\ TypeOK /\ proc \in [Proc -> ProcType]
  BY Actor DEF IInv
<1>g. proc[p].pc = "writing" /\ buf[proc[p].b].done
  BY DEF WriteDone, At
<1>b. PICK b \in Bufs :
         /\ b = proc[p].b /\ Head(lock[b]) = p /\ lock[b] # <<>> /\ Wants(p, b) /\ BufferOf(b)
         /\ buf[b].op # "none" => Has(b, "ASYNC") \/ Moves(p, b)
         /\ lock' = [lock EXCEPT ![b] = Tail(@)]
         /\ buf' = [buf EXCEPT ![b] = Released(buf[b])]
         /\ proc' = [proc EXCEPT ![p] = Idle]
  <2>1. PICK b \in Bufs :
         /\ b = proc[p].b /\ Head(lock[b]) = p /\ lock[b] # <<>> /\ Wants(p, b) /\ BufferOf(b)
         /\ buf[b].op # "none" => Has(b, "ASYNC") \/ Moves(p, b)
    BY <1>g, Mine DEF Waiting, Owning
  <2>2. /\ lock' = [lock EXCEPT ![b] = Tail(@)]
         /\ buf' = [buf EXCEPT ![b] = Released(buf[b])]
         /\ proc' = [proc EXCEPT ![p] = Idle]
    BY <2>1 DEF WriteDone, SleepFree, Release, InProgress
  <2> QED BY <2>1, <2>2
<1>i. b \in Bufs /\ buf[b] \in BufType /\ buf \in [Bufs -> BufType]
  BY <1>1, Types
<1>t. buf[b].op = "none"
  BY <1>b, <1>g DEF BufferOf
<1>r. Changes(b, buf[b].flags, buf[b].done /\ ~({"ERROR", "READ"} \subseteq buf[b].flags /\ "ASYNC" \notin buf[b].flags),
             buf[b].data, buf[b].op)
  BY <1>1, <1>b, ReleaseShape
<1>2. Returns(p)
  BY <1>1, <1>b, IdleType DEF Returns, Others
<1>3. UNCHANGED <<block_lru, hash, disk, latest, mounted, updlock>> /\ cpu' \in Proc \cup {NULL} /\ Others(p) /\ proc' \in [Proc -> ProcType]
  BY <1>1, <1>2 DEF WriteDone, Release, TypeOK, Returns, Idle
<1>4. LocalsOf(p)'
  BY <1>g, <1>1, <1>2, <1>3, Constants DEF LocalsOf, Returns, Idle, UserPc, UserGet, UpdatePc, Label
<1>m. proc[p].main # NULL => proc[p].main \in Bufs /\ lock[proc[p].main] # <<>> /\ Head(lock[proc[p].main]) = p
  BY Alone, InQueue
<1>5. \A c \in Bufs : Wants(p, c)' <=> Wants(p, c) /\ c # b
  BY <1>g, <1>b, <1>m, <1>1, <1>2, <1>3, Constants DEF Held, Wants, Returns, Idle, Owning, Waiting, LocalsOf, UserPc, UserGet
<1>l. lock' \in [Bufs -> Seq(Proc)] /\ (\A c \in Bufs : c # b => lock'[c] = lock[c])
  BY <1>b, FreeShape
<1>6. Held(p)'
  BY <1>g, <1>b, <1>l, <1>m, <1>1, <1>2, <1>3 DEF Held, Returns, Idle, Owning, LocalsOf, UserPc, UserGet
<1>7. Locks'
  BY <1>b, <1>3, <1>5, <1>6, LocksFreed
<1>n. proc[p].main # NULL /\ proc[p].main # b => buf'[proc[p].main] = buf[proc[p].main]
  BY <1>m, <1>r DEF Changes
<1>8. HandsOf(p)'
  BY <1>g, <1>b, <1>r, <1>1, <1>2, <1>3, <1>i, <1>t, <1>m, <1>n, SMTT(40) DEF HandsOf, Held, LocalsOf, Changes, Returns, Idle, Target, InHash, Has, Owning, UserGet, UserPc, BufferOf
<1>9. BufferOf(b)'
  BY <1>g, <1>b, <1>r, <1>1, <1>2, <1>3, <1>i, <1>t DEF BufferOf, Changes, Moves, Returns, Idle, InHash, Has, HandsOf
<1>10. Keeps(b) => Keeps(b)'
  BY <1>g, <1>b, <1>r, <1>1, <1>3, <1>i, <1>t DEF Keeps, BufferOf, Changes, InHash, Has
<1>11. DirtyCountExact'
  BY <1>b, <1>r, <1>3, <1>t, DirtySame DEF Changes, Has, WriteDone, Release
<1>12. \A c \in Bufs : c # b /\ buf[c].op # "none" /\ Moves(p, c) => Moves(p, c)'
  BY <1>g, <1>b, <1>1, <1>2, Constants DEF Moves, Returns, Idle, LocalsOf, UserPc, UserGet
<1>13. lock[b] # <<>> /\ OtherFlush(p, b) /\ FlushOf(b) => FlushOf(b)'
  <2> SUFFICES ASSUME OtherFlush(p, b), FlushOf(b) PROVE FlushOf(b)'
    OBVIOUS
  <2>1. (buf'[b].id = NULL \/ InHash(b)') /\ "ERROR" \notin buf'[b].flags /\ buf'[b].done
    BY <1>g, <1>b, <1>r, <1>1, <1>3, <1>t DEF FlushOf, Changes, InHash, Has
  <2> QED BY <1>b, <1>3, <2>1, NextWaits
<1>14. /\ proc'[p].pc \in UpdatePc => proc[p].pc \in UpdatePc
       /\ proc[p].pc = "writing" => proc[p].b = b
       /\ proc'[p].pc \in Taking =>
              proc'[p].b = b /\ (lock[b] = <<>> \/ (proc[p].pc \in Taking /\ proc[p].b = b))
       /\ proc'[p].pc = "flush" => proc'[p].b = NULL
       /\ proc'[p].pc # "found"
  BY <1>g, <1>b, <1>1, <1>2 DEF Returns, Idle, UpdatePc, LocalsOf, Taking
<1>15. /\ buf' \in [Bufs -> BufType] /\ \A c \in Bufs : c # b => buf'[c] = buf[c]
       /\ buf'[b].id = buf[b].id
  BY <1>r DEF Changes
<1>16. lock[b] = <<>> \/ Head(lock[b]) = p
  BY <1>b
<1> QED BY <1>16, <1>l, <1>3, <1>4, <1>7, <1>8, <1>9, <1>10, <1>11, <1>12, <1>13, <1>14, <1>15, ChangeKeeps

\* block_flush has waited for a transfer.
LEMMA WaitDoneKeeps ==
    ASSUME IInv, NEW p \in Proc, WaitDone(p), ~InProgress(proc[p].b)
    PROVE  IInv'
<1>1. LocalsOf(p) /\ Held(p) /\ HandsOf(p) /\ TypeOK /\ proc \in [Proc -> ProcType]
  BY Actor DEF IInv
<1>g. proc[p].pc = "wait" /\ Owns(p) /\ proc[p].b # NULL
  BY DEF WaitDone, Locked, At
<1>b. PICK b \in Bufs :
         /\ b = proc[p].b /\ Head(lock[b]) = p /\ lock[b] # <<>> /\ Wants(p, b) /\ BufferOf(b)
         /\ buf[b].op # "none" => Has(b, "ASYNC") \/ Moves(p, b)
         /\ lock' = [lock EXCEPT ![b] = Tail(@)]
         /\ buf' = [buf EXCEPT ![b] = [buf[b] EXCEPT !.flags = buf[b].flags \ {"ASYNC"}]]
         /\ (Has(b, "ASYNC") => buf[b].done) /\ Advance(p, "updated")
  <2>1. PICK b \in Bufs :
         /\ b = proc[p].b /\ Head(lock[b]) = p /\ lock[b] # <<>> /\ Wants(p, b) /\ BufferOf(b)
         /\ buf[b].op # "none" => Has(b, "ASYNC") \/ Moves(p, b)
    BY <1>g, Mine DEF Waiting, Owning
  <2>2. /\ lock' = [lock EXCEPT ![b] = Tail(@)]
         /\ buf' = [buf EXCEPT ![b] = [buf[b] EXCEPT !.flags = buf[b].flags \ {"ASYNC"}]]
         /\ (Has(b, "ASYNC") => buf[b].done) /\ Advance(p, "updated")
    BY <2>1 DEF WaitDone, SleepFree, Release, InProgress
  <2> QED BY <2>1, <2>2
<1>i. b \in Bufs /\ buf[b] \in BufType /\ buf \in [Bufs -> BufType]
  BY <1>1, Types
<1>t. buf[b].op = "none"
  <2>1. ~Moves(p, b)
    BY <1>b, <1>g, <1>1, Constants DEF Moves, LocalsOf, UserPc, UserGet
  <2> QED BY <1>b, <2>1 DEF BufferOf
<1>r. Changes(b, buf[b].flags \ {"ASYNC"}, buf[b].done, buf[b].data, buf[b].op)
  BY <1>1, <1>b, ClearShape
<1>2. PICK pc \in {"wait", "updated"}, i \in 1 .. Len(Buf) : Becomes(p, pc, proc[p].for, NULL, proc[p].main, i)
  BY <1>1, <1>g, <1>b, AdvanceShape DEF Label
<1>3. UNCHANGED <<block_lru, hash, disk, latest, mounted, updlock>> /\ cpu' \in Proc \cup {NULL} /\ Others(p) /\ proc' \in [Proc -> ProcType]
  BY <1>1, <1>2 DEF WaitDone, TypeOK, Becomes
<1>4. LocalsOf(p)'
  BY <1>g, <1>1, <1>2, <1>3, Constants DEF LocalsOf, Becomes, UserPc, UserGet, UpdatePc, Label
<1>m. proc[p].main # NULL => proc[p].main \in Bufs /\ lock[proc[p].main] # <<>> /\ Head(lock[proc[p].main]) = p
  BY Alone, InQueue
<1>5. \A c \in Bufs : Wants(p, c)' <=> Wants(p, c) /\ c # b
  BY <1>g, <1>b, <1>m, <1>1, <1>2, <1>3, Constants DEF Held, Wants, Becomes, Owning, Waiting, LocalsOf, UserPc, UserGet
<1>l. lock' \in [Bufs -> Seq(Proc)] /\ (\A c \in Bufs : c # b => lock'[c] = lock[c])
  BY <1>b, FreeShape
<1>6. Held(p)'
  BY <1>g, <1>b, <1>l, <1>m, <1>1, <1>2, <1>3 DEF Held, Becomes, Owning, LocalsOf, UserPc, UserGet
<1>7. Locks'
  BY <1>b, <1>3, <1>5, <1>6, LocksFreed
<1>n. proc[p].main # NULL /\ proc[p].main # b => buf'[proc[p].main] = buf[proc[p].main]
  BY <1>m, <1>r DEF Changes
<1>8. HandsOf(p)'
  BY <1>g, <1>b, <1>r, <1>1, <1>2, <1>3, <1>i, <1>t, <1>m, <1>n DEF HandsOf, Held, LocalsOf, Changes, Becomes, Target, InHash, Has, Owning, UserGet, UserPc, BufferOf
<1>9. BufferOf(b)'
  BY <1>g, <1>b, <1>r, <1>1, <1>2, <1>3, <1>i, <1>t DEF BufferOf, Changes, Moves, Becomes, InHash, Has, HandsOf
<1>10. Keeps(b) => Keeps(b)'
  BY <1>g, <1>b, <1>r, <1>1, <1>3, <1>i, <1>t DEF Keeps, BufferOf, Changes, InHash, Has
<1>11. DirtyCountExact'
  BY <1>b, <1>r, <1>3, <1>t, DirtySame DEF Changes, Has, WaitDone
<1>12. \A c \in Bufs : c # b /\ buf[c].op # "none" /\ Moves(p, c) => Moves(p, c)'
  BY <1>g, <1>b, <1>1, <1>2, Constants DEF Moves, Becomes, LocalsOf, UserPc, UserGet
<1>13. lock[b] # <<>> /\ OtherFlush(p, b) /\ FlushOf(b) => FlushOf(b)'
  <2> SUFFICES ASSUME OtherFlush(p, b), FlushOf(b) PROVE FlushOf(b)'
    OBVIOUS
  <2>1. (buf'[b].id = NULL \/ InHash(b)') /\ "ERROR" \notin buf'[b].flags /\ buf'[b].done
    BY <1>g, <1>b, <1>r, <1>1, <1>3, <1>t DEF FlushOf, Changes, InHash, Has
  <2> QED BY <1>b, <1>3, <2>1, NextWaits
<1>14. /\ proc'[p].pc \in UpdatePc => proc[p].pc \in UpdatePc
       /\ proc[p].pc = "writing" => proc[p].b = b
       /\ proc'[p].pc \in Taking =>
              proc'[p].b = b /\ (lock[b] = <<>> \/ (proc[p].pc \in Taking /\ proc[p].b = b))
       /\ proc'[p].pc = "flush" => proc'[p].b = NULL
       /\ proc'[p].pc # "found"
  BY <1>g, <1>b, <1>1, <1>2 DEF Becomes, UpdatePc, LocalsOf, Taking
<1>15. /\ buf' \in [Bufs -> BufType] /\ \A c \in Bufs : c # b => buf'[c] = buf[c]
       /\ buf'[b].id = buf[b].id
  BY <1>r DEF Changes
<1>16. lock[b] = <<>> \/ Head(lock[b]) = p
  BY <1>b
<1> QED BY <1>16, <1>l, <1>3, <1>4, <1>7, <1>8, <1>9, <1>10, <1>11, <1>12, <1>13, <1>14, <1>15, ChangeKeeps

\* block_flush writes a buffer.
LEMMA FlushWriteKeeps ==
    ASSUME IInv, NEW p \in Proc, FlushWrite(p)
    PROVE  IInv'
<1>1. LocalsOf(p) /\ Held(p) /\ HandsOf(p) /\ TypeOK /\ proc \in [Proc -> ProcType]
  BY Actor DEF IInv
<1>g. proc[p].pc = "flush" /\ Owns(p) /\ proc[p].b # NULL
  BY DEF FlushWrite, Locked, At
<1>b. PICK b \in Bufs :
         /\ b = proc[p].b /\ Head(lock[b]) = p /\ lock[b] # <<>> /\ Wants(p, b) /\ BufferOf(b)
         /\ buf[b].op # "none" => Has(b, "ASYNC") \/ Moves(p, b)
         /\ lock' = [lock EXCEPT ![b] = Tail(@)]
         /\ WriteAsync(b) /\ Advance(p, "wait")
  <2>1. PICK b \in Bufs :
         /\ b = proc[p].b /\ Head(lock[b]) = p /\ lock[b] # <<>> /\ Wants(p, b) /\ BufferOf(b)
         /\ buf[b].op # "none" => Has(b, "ASYNC") \/ Moves(p, b)
    BY <1>g, Mine DEF Waiting, Owning
  <2>2. /\ lock' = [lock EXCEPT ![b] = Tail(@)]
         /\ WriteAsync(b) /\ Advance(p, "wait")
    BY <2>1 DEF FlushWrite, SleepFree, Release, InProgress
  <2> QED BY <2>1, <2>2
<1>i. b \in Bufs /\ buf[b] \in BufType /\ buf \in [Bufs -> BufType]
  BY <1>1, Types
<1>t. buf[b].op = "none" /\ buf[b].done /\ ~Has(b, "ERROR") /\ (buf[b].id = NULL \/ InHash(b))
  <2>1. FlushOf(b)
    BY <1>b, <1>g DEF IInv, Flushes
  <2> QED BY <1>b, <1>g, <2>1 DEF BufferOf, FlushOf
<1>r. Changes(b, (buf[b].flags \cup {"ASYNC"}) \ {"READ", "ERROR", "DIRTY"}, FALSE, buf[b].data, "write") /\ CountWithout(b)
  BY <1>1, <1>b, <1>t, AsyncShape
<1>2. PICK pc \in {"flush", "wait"}, i \in 1 .. Len(Buf) : Becomes(p, pc, proc[p].for, NULL, proc[p].main, i)
  BY <1>1, <1>g, <1>b, AdvanceShape DEF Label
<1>3. UNCHANGED <<block_lru, hash, disk, latest, mounted, updlock>> /\ cpu' \in Proc \cup {NULL} /\ Others(p) /\ proc' \in [Proc -> ProcType]
  BY <1>1, <1>2 DEF FlushWrite, TypeOK, Becomes
<1>4. LocalsOf(p)'
  BY <1>g, <1>1, <1>2, <1>3, Constants DEF LocalsOf, Becomes, UserPc, UserGet, UpdatePc, Label
<1>m. proc[p].main # NULL => proc[p].main \in Bufs /\ lock[proc[p].main] # <<>> /\ Head(lock[proc[p].main]) = p
  BY Alone, InQueue
<1>5. \A c \in Bufs : Wants(p, c)' <=> Wants(p, c) /\ c # b
  BY <1>g, <1>b, <1>m, <1>1, <1>2, <1>3, Constants DEF Held, Wants, Becomes, Owning, Waiting, LocalsOf, UserPc, UserGet
<1>l. lock' \in [Bufs -> Seq(Proc)] /\ (\A c \in Bufs : c # b => lock'[c] = lock[c])
  BY <1>b, FreeShape
<1>6. Held(p)'
  BY <1>g, <1>b, <1>l, <1>m, <1>1, <1>2, <1>3 DEF Held, Becomes, Owning, LocalsOf, UserPc, UserGet
<1>7. Locks'
  BY <1>b, <1>3, <1>5, <1>6, LocksFreed
<1>n. proc[p].main # NULL /\ proc[p].main # b => buf'[proc[p].main] = buf[proc[p].main]
  BY <1>m, <1>r DEF Changes
<1>8. HandsOf(p)'
  BY <1>g, <1>b, <1>r, <1>1, <1>2, <1>3, <1>i, <1>t, <1>m, <1>n, SMTT(40) DEF HandsOf, Held, LocalsOf, Changes, Becomes, Target, InHash, Has, Owning, UserGet, UserPc, BufferOf
<1>9. BufferOf(b)'
  BY <1>g, <1>b, <1>r, <1>1, <1>2, <1>3, <1>i, <1>t DEF BufferOf, Changes, Moves, Becomes, InHash, Has, HandsOf
<1>10. Keeps(b) => Keeps(b)'
  BY <1>g, <1>b, <1>r, <1>1, <1>3, <1>i, <1>t DEF Keeps, BufferOf, Changes, InHash, Has
<1>11. DirtyCountExact'
  BY <1>b, <1>r, <1>3, <1>t, DirtyLess DEF Changes, Has
<1>12. \A c \in Bufs : c # b /\ buf[c].op # "none" /\ Moves(p, c) => Moves(p, c)'
  BY <1>g, <1>b, <1>1, <1>2, Constants DEF Moves, Becomes, LocalsOf, UserPc, UserGet
<1>13. lock[b] # <<>> /\ OtherFlush(p, b) /\ FlushOf(b) => FlushOf(b)'
  <2>1. ~OtherFlush(p, b)
    BY <1>g DEF OtherFlush, IInv, Locals, UpdatePc
  <2> QED BY <2>1
<1>14. /\ proc'[p].pc \in UpdatePc => proc[p].pc \in UpdatePc
       /\ proc[p].pc = "writing" => proc[p].b = b
       /\ proc'[p].pc \in Taking =>
              proc'[p].b = b /\ (lock[b] = <<>> \/ (proc[p].pc \in Taking /\ proc[p].b = b))
       /\ proc'[p].pc = "flush" => proc'[p].b = NULL
       /\ proc'[p].pc # "found"
  BY <1>g, <1>b, <1>1, <1>2 DEF Becomes, UpdatePc, LocalsOf, Taking
<1>15. /\ buf' \in [Bufs -> BufType] /\ \A c \in Bufs : c # b => buf'[c] = buf[c]
       /\ buf'[b].id = buf[b].id
  BY <1>r DEF Changes
<1>16. lock[b] = <<>> \/ Head(lock[b]) = p
  BY <1>b
<1> QED BY <1>16, <1>l, <1>3, <1>4, <1>7, <1>8, <1>9, <1>10, <1>11, <1>12, <1>13, <1>14, <1>15, ChangeKeeps

\* A false alarm: the buffer has another block by now.
LEMMA FoundOtherKeeps ==
    ASSUME IInv, NEW p \in Proc, FoundOther(p)
    PROVE  IInv'
<1>1. LocalsOf(p) /\ Held(p) /\ HandsOf(p) /\ TypeOK /\ proc \in [Proc -> ProcType]
  BY Actor DEF IInv
<1>g. proc[p].pc = "found" /\ Owns(p) /\ proc[p].b # NULL
  BY <1>1 DEF FoundOther, At, Held
<1>b. PICK b \in Bufs :
         /\ b = proc[p].b /\ Head(lock[b]) = p /\ lock[b] # <<>> /\ Wants(p, b) /\ BufferOf(b)
         /\ buf[b].op # "none" => Has(b, "ASYNC") \/ Moves(p, b)
         /\ lock' = [lock EXCEPT ![b] = Tail(@)]
         /\ proc' = [proc EXCEPT ![p] = [proc[p] EXCEPT !.pc = "get", !.b = NULL]]
         /\ buf' = buf
  <2>1. PICK b \in Bufs :
         /\ b = proc[p].b /\ Head(lock[b]) = p /\ lock[b] # <<>> /\ Wants(p, b) /\ BufferOf(b)
         /\ buf[b].op # "none" => Has(b, "ASYNC") \/ Moves(p, b)
    BY <1>g, Mine DEF Waiting, Owning
  <2>2. /\ lock' = [lock EXCEPT ![b] = Tail(@)]
         /\ proc' = [proc EXCEPT ![p] = [proc[p] EXCEPT !.pc = "get", !.b = NULL]]
         /\ buf' = buf
    BY <2>1 DEF FoundOther, SleepFree, Release, InProgress
  <2> QED BY <2>1, <2>2
<1>i. b \in Bufs /\ buf[b] \in BufType /\ buf \in [Bufs -> BufType]
  BY <1>1, Types
<1>t. buf[b].op # "none" => Has(b, "ASYNC")
  BY <1>b, <1>g, <1>1 DEF Moves, Held
<1>r. Changes(b, buf[b].flags, buf[b].done, buf[b].data, buf[b].op)
  BY <1>b, <1>i DEF Changes
<1>2. Becomes(p, "get", proc[p].for, NULL, proc[p].main, proc[p].i)
  <2>1. proc[p] \in ProcType
    BY <1>1
  <2>2. [proc[p] EXCEPT !.pc = "get", !.b = NULL] \in ProcType
    BY <1>i, <2>1 DEF ProcType, Label
  <2>3. proc' = [proc EXCEPT ![p] = [proc[p] EXCEPT !.pc = "get", !.b = NULL]]
    BY <1>b
  <2> QED BY <1>1, <2>1, <2>2, <2>3 DEF Becomes, Others, ProcType
<1>3. UNCHANGED <<block_lru, hash, disk, latest, mounted, updlock>> /\ cpu' \in Proc \cup {NULL} /\ Others(p) /\ proc' \in [Proc -> ProcType]
  BY <1>1, <1>2 DEF FoundOther, TypeOK, Becomes
<1>4. LocalsOf(p)'
  BY <1>g, <1>1, <1>2, <1>3, Constants DEF LocalsOf, Becomes, UserPc, UserGet, UpdatePc, Label
<1>m. proc[p].main # NULL => proc[p].main \in Bufs /\ lock[proc[p].main] # <<>> /\ Head(lock[proc[p].main]) = p
  BY Alone, InQueue
<1>5. \A c \in Bufs : Wants(p, c)' <=> Wants(p, c) /\ c # b
  BY <1>g, <1>b, <1>m, <1>1, <1>2, <1>3, Constants DEF Held, Wants, Becomes, Owning, Waiting, LocalsOf, UserPc, UserGet
<1>l. lock' \in [Bufs -> Seq(Proc)] /\ (\A c \in Bufs : c # b => lock'[c] = lock[c])
  BY <1>b, FreeShape
<1>6. Held(p)'
  BY <1>g, <1>b, <1>l, <1>m, <1>1, <1>2, <1>3 DEF Held, Becomes, Owning, LocalsOf, UserPc, UserGet
<1>7. Locks'
  BY <1>b, <1>3, <1>5, <1>6, LocksFreed
<1>n. proc[p].main # NULL /\ proc[p].main # b => buf'[proc[p].main] = buf[proc[p].main]
  BY <1>m, <1>r DEF Changes
<1>8. HandsOf(p)'
  BY <1>g, <1>b, <1>r, <1>1, <1>2, <1>3, <1>i, <1>t, <1>m, <1>n, SMTT(40) DEF HandsOf, Held, LocalsOf, Changes, Becomes, Target, InHash, Has, Owning, UserGet, UserPc, BufferOf
<1>9. BufferOf(b)'
  BY <1>g, <1>b, <1>r, <1>1, <1>2, <1>3, <1>i, <1>t DEF BufferOf, Changes, Moves, Becomes, InHash, Has, HandsOf
<1>10. Keeps(b) => Keeps(b)'
  BY <1>g, <1>b, <1>r, <1>1, <1>3, <1>i, <1>t DEF Keeps, BufferOf, Changes, InHash, Has
<1>11. DirtyCountExact'
  BY <1>b, <1>r, <1>3, <1>t, DirtySame DEF Changes, Has, FoundOther
<1>12. \A c \in Bufs : c # b /\ buf[c].op # "none" /\ Moves(p, c) => Moves(p, c)'
  BY <1>g, <1>b, <1>1, <1>2, Constants DEF Moves, Becomes, LocalsOf, UserPc, UserGet
<1>13. lock[b] # <<>> /\ OtherFlush(p, b) /\ FlushOf(b) => FlushOf(b)'
  <2> SUFFICES ASSUME OtherFlush(p, b), FlushOf(b) PROVE FlushOf(b)'
    OBVIOUS
  <2>1. (buf'[b].id = NULL \/ InHash(b)') /\ "ERROR" \notin buf'[b].flags /\ buf'[b].done
    BY <1>g, <1>b, <1>r, <1>1, <1>3, <1>t DEF FlushOf, Changes, InHash, Has
  <2> QED BY <1>b, <1>3, <2>1, NextWaits
<1>14. /\ proc'[p].pc \in UpdatePc => proc[p].pc \in UpdatePc
       /\ proc[p].pc = "writing" => proc[p].b = b
       /\ proc'[p].pc \in Taking =>
              proc'[p].b = b /\ (lock[b] = <<>> \/ (proc[p].pc \in Taking /\ proc[p].b = b))
       /\ proc'[p].pc = "flush" => proc'[p].b = NULL
       /\ proc'[p].pc # "found"
  BY <1>g, <1>b, <1>1, <1>2 DEF Becomes, UpdatePc, LocalsOf, Taking
<1>15. /\ buf' \in [Bufs -> BufType] /\ \A c \in Bufs : c # b => buf'[c] = buf[c]
       /\ buf'[b].id = buf[b].id
  BY <1>r DEF Changes
<1>16. lock[b] = <<>> \/ Head(lock[b]) = p
  BY <1>b
<1> QED BY <1>16, <1>l, <1>3, <1>4, <1>7, <1>8, <1>9, <1>10, <1>11, <1>12, <1>13, <1>14, <1>15, ChangeKeeps

-----------------------------------------------------------------------------
(* Steps that only move the processor, and the interrupts of the drivers *)

\* A process sleeps.
LEMMA CpuKeeps ==
    ASSUME IInv, UNCHANGED <<buf, lock, block_lru, hash, dirty_cnt, disk, latest, mounted, updlock, proc>>,
           cpu' \in Proc \cup {NULL}
    PROVE  IInv'
<1>1. TypeOK'
  BY DEF IInv, TypeOK
<1>2. Locals'
  BY DEF IInv, Locals, LocalsOf
<1>3. Locks'
  BY DEF IInv, Locks, LockOf, Held, Wants
<1>4. \A b \in Bufs : InHash(b)' <=> InHash(b)
  BY DEF InHash
<1>5. Queues'
  BY DEF IInv, Queues, InHash
<1>6. Buffers'
  BY DEF IInv, Buffers, BufferOf, BlockOf, Keeps, InHash, Has, Moves
<1>7. Hands'
  BY SMTT(40) DEF IInv, Hands, HandsOf, InHash, Has, Target
<1>8. Flushes'
  BY DEF IInv, Flushes, FlushOf, InHash, Has
<1>9. Founds'
  BY DEF IInv, Founds, FoundOf, InHash, Target
<1>10. DirtyCountExact'
  BY DEF IInv, DirtyCountExact, Has
<1> QED BY <1>1, <1>2, <1>3, <1>5, <1>6, <1>7, <1>8, <1>9, <1>10 DEF IInv

\* The buffer of a block is one.
LEMMA OneBuffer ==
    ASSUME IInv, NEW b \in Bufs, NEW c \in Bufs, InHash(b), InHash(c), buf[b].id = buf[c].id
    PROVE  b = c
BY DEF IInv, Queues

\* A transfer that a driver has ends.
LEMMA EndKeeps ==
    ASSUME IInv, NEW b \in Bufs, buf[b].op # "none",
           UNCHANGED <<lock, block_lru, hash, dirty_cnt, latest, mounted, updlock, cpu, proc>>,
           disk' \in [Block -> Nat], buf' \in [Bufs -> BufType], \A c \in Bufs : c # b => buf'[c] = buf[c],
           buf'[b].id = buf[b].id, buf'[b].op = "none", buf'[b].done,
           buf'[b].flags = buf[b].flags \/ (buf[b].op = "read" /\ buf[b].id \in FailBlock /\ buf'[b].flags = buf[b].flags \cup {"ERROR"}),
           InHash(b) /\ ~Has(b, "ERROR")' => buf'[b].data = latest[buf[b].id],
           \A blk \in Block : BlockOf(blk)'
    PROVE  IInv'
<1>1. BufferOf(b) /\ ~buf[b].done /\ ~Has(b, "DIRTY") /\ (buf[b].op = "read" => InHash(b))
  BY DEF IInv, Buffers, BufferOf
<1>2. \A c \in Bufs : InHash(c)' <=> InHash(c)
  BY DEF InHash
<1>3. ~Has(b, "DIRTY")' /\ (Has(b, "ERROR")' => buf[b].id \in FailBlock)
  BY <1>1 DEF Has, BufferOf
<1>4. BufferOf(b)'
  BY <1>2, <1>3 DEF BufferOf, Has
<1>5. \A c \in Bufs : Has(c, "DIRTY")' <=> Has(c, "DIRTY")
  BY <1>1, <1>3 DEF Has
<1>6. DirtyCountExact'
  BY <1>5, DirtySame
<1>7. ASSUME NEW q \in Proc PROVE HandsOf(q)'
  <2>0. HandsOf(q) /\ proc'[q] = proc[q] /\ Target(q)' = Target(q)
    BY DEF IInv, Hands, Target
  <2>1. proc[q].pc \in Owning => proc[q].b \in Bufs
    BY Alone
  <2>2. proc[q].main # NULL => proc[q].main \in Bufs
    BY Alone
  <2>3. \A c \in Bufs : /\ buf'[c].id = buf[c].id /\ (InHash(c) => InHash(c)')
                        /\ ~Has(c, "DIRTY") => ~Has(c, "DIRTY")'
                        /\ buf[c].op = "none" => buf'[c].op = "none"
                        /\ buf'[c].done \/ (buf'[c].done = buf[c].done /\ buf'[c].op = buf[c].op)
    BY <1>2, <1>5
  <2> QED BY <2>0, <2>1, <2>2, <2>3 DEF HandsOf, Owning
<1>8. lock[b] # <<>> /\ FlushOf(b) => FlushOf(b)'
  <2> SUFFICES ASSUME lock[b] # <<>>, FlushOf(b) PROVE FlushOf(b)'
    OBVIOUS
  <2>1. PICK h \in Proc : h = Head(lock[b])
    BY HeadWants
  <2>2. proc[h].pc = "writing" /\ proc[h].b = b
    BY <1>1, <2>1 DEF FlushOf
  <2>3. buf[b].op = "write"
    BY <1>1, <2>2 DEF IInv, Hands, HandsOf
  <2> QED BY <1>2, <2>3 DEF FlushOf, Has
<1>9. cpu' \in Proc \cup {NULL}
  BY DEF IInv, TypeOK
<1> QED BY <1>4, <1>6, <1>7, <1>8, <1>9, DeviceKeeps

\* The block of a buffer that is read is on the disk.
LEMMA ReadFromDisk ==
    ASSUME IInv, NEW b \in Bufs, buf[b].op = "read"
    PROVE  buf[b].id \in Block /\ InHash(b) /\ disk[buf[b].id] = latest[buf[b].id] /\ ~Keeps(b)
<1>1. BufferOf(b) /\ InHash(b) /\ ~buf[b].done
  BY DEF IInv, Buffers, BufferOf
<1>2. buf[b].id \in Block
  BY <1>1, Types DEF IInv, InHash
<1>3. ~Keeps(b)
  BY <1>1 DEF Keeps, BufferOf
<1>4. ASSUME NEW c \in Bufs, buf[c].id = buf[b].id, Keeps(c) PROVE FALSE
  BY <1>1, <1>3, <1>4, OneBuffer DEF Keeps
<1>5. BlockOf(buf[b].id)
  BY <1>2 DEF IInv, Buffers
<1> QED BY <1>1, <1>2, <1>3, <1>4, <1>5 DEF BlockOf

\* The other buffers keep what they have.
LEMMA BlocksSame ==
    ASSUME IInv, NEW b \in Bufs, ~Keeps(b), UNCHANGED <<hash, latest, disk>>, \A c \in Bufs : c # b => buf'[c] = buf[c]
    PROVE  \A blk \in Block : BlockOf(blk)'
<1>1. ASSUME NEW blk \in Block PROVE BlockOf(blk)'
  <2>1. BlockOf(blk)
    BY DEF IInv, Buffers
  <2>2. \A c \in Bufs : Keeps(c) => Keeps(c)' /\ buf'[c].id = buf[c].id
    BY DEF Keeps, InHash, Has
  <2> QED BY <2>1, <2>2 DEF BlockOf
<1> QED BY <1>1

\* The driver ends a read.
LEMMA ReadEndsKeeps ==
    ASSUME IInv, NEW b \in Bufs, ReadEnds(b)
    PROVE  IInv'
<1>0. buf \in [Bufs -> BufType] /\ buf[b] \in BufType /\ disk \in [Block -> Nat]
  BY Types DEF IInv, TypeOK
<1>1. buf[b].op = "read" /\ UNCHANGED <<lock, block_lru, hash, dirty_cnt, disk, latest, mounted, updlock, cpu, proc>>
  BY DEF ReadEnds
<1>2. buf[b].id \in Block /\ InHash(b) /\ disk[buf[b].id] = latest[buf[b].id] /\ ~Keeps(b)
  BY <1>1, ReadFromDisk
<1> DEFINE v == disk[buf[b].id]
           r == [buf[b] EXCEPT !.op = "none", !.done = TRUE, !.data = v]
<1>3. v \in Nat
  BY <1>0, <1>2
<1>4. buf' = [buf EXCEPT ![b] = r]
  BY <1>0 DEF ReadEnds
<1> HIDE DEF v
<1>5. r \in BufType /\ r.id = buf[b].id /\ r.op = "none" /\ r.done = TRUE /\ r.flags = buf[b].flags /\ r.data = v
  BY <1>0, <1>3 DEF BufType
<1> HIDE DEF r
<1>6. Changes(b, r.flags, r.done, r.data, r.op)
  BY <1>4, <1>5, SetBuffer DEF IInv
<1>7. \A c \in Bufs : c # b => buf'[c] = buf[c]
  BY <1>6 DEF Changes
<1>8. \A blk \in Block : BlockOf(blk)'
  BY <1>1, <1>2, <1>7, BlocksSame
<1>9. /\ buf' \in [Bufs -> BufType] /\ buf'[b].id = buf[b].id /\ buf'[b].op = "none" /\ buf'[b].done
      /\ buf'[b].flags = buf[b].flags /\ buf'[b].data = latest[buf[b].id]
  BY <1>2, <1>5, <1>6 DEF Changes, v
<1>10. buf[b].op # "none" /\ disk' \in [Block -> Nat]
  BY <1>0, <1>1
<1> QED BY <1>1, <1>7, <1>8, <1>9, <1>10, EndKeeps

\* The driver ends a read with error.
LEMMA ReadFailsKeeps ==
    ASSUME IInv, NEW b \in Bufs, ReadFails(b)
    PROVE  IInv'
<1>0. buf \in [Bufs -> BufType] /\ buf[b] \in BufType /\ disk \in [Block -> Nat]
  BY Types DEF IInv, TypeOK
<1>1. /\ buf[b].op = "read" /\ buf[b].id \in FailBlock
      /\ UNCHANGED <<lock, block_lru, hash, dirty_cnt, disk, latest, mounted, updlock, cpu, proc>>
  BY DEF ReadFails
<1>2. ~Keeps(b)
  BY <1>1, ReadFromDisk
<1> DEFINE f == buf[b].flags \cup {"ERROR"}
           r == [buf[b] EXCEPT !.op = "none", !.done = TRUE, !.flags = f]
<1>3. f \in SUBSET {"READ", "ASYNC", "ERROR", "DIRTY"} /\ "ERROR" \in f
  BY <1>0 DEF BufType
<1>4. buf' = [buf EXCEPT ![b] = r]
  BY <1>0 DEF ReadFails
<1> HIDE DEF f
<1>5. r \in BufType /\ r.id = buf[b].id /\ r.op = "none" /\ r.done = TRUE /\ r.flags = f /\ r.data = buf[b].data
  BY <1>0, <1>3 DEF BufType
<1> HIDE DEF r
<1>6. Changes(b, r.flags, r.done, r.data, r.op)
  BY <1>4, <1>5, SetBuffer DEF IInv
<1>7. \A c \in Bufs : c # b => buf'[c] = buf[c]
  BY <1>6 DEF Changes
<1>8. \A blk \in Block : BlockOf(blk)'
  BY <1>1, <1>2, <1>7, BlocksSame
<1>9. /\ buf' \in [Bufs -> BufType] /\ buf'[b].id = buf[b].id /\ buf'[b].op = "none" /\ buf'[b].done
      /\ buf'[b].flags = buf[b].flags \cup {"ERROR"} /\ Has(b, "ERROR")'
  BY <1>3, <1>5, <1>6 DEF Changes, f, Has
<1>10. buf[b].op # "none" /\ disk' \in [Block -> Nat]
  BY <1>0, <1>1
<1> QED BY <1>1, <1>7, <1>8, <1>9, <1>10, EndKeeps

\* The driver ends a write: the disk has what the buffer has.
LEMMA WriteEndsKeeps ==
    ASSUME IInv, NEW b \in Bufs, WriteEnds(b)
    PROVE  IInv'
<1>0. buf \in [Bufs -> BufType] /\ buf[b] \in BufType /\ disk \in [Block -> Nat] /\ latest \in [Block -> Nat]
  BY Types DEF IInv, TypeOK
<1>1. buf[b].op = "write" /\ UNCHANGED <<lock, block_lru, hash, dirty_cnt, latest, mounted, updlock, cpu, proc>>
  BY DEF WriteEnds
<1>2. BufferOf(b)
  BY DEF IInv, Buffers
<1>3. buf[b].id \in Block \cup {NULL} /\ (buf[b].id # NULL => InHash(b) /\ buf[b].data = latest[buf[b].id])
  BY <1>0, <1>1, <1>2 DEF BufType, BufferOf
<1> DEFINE r == [buf[b] EXCEPT !.op = "none", !.done = TRUE]
<1>4. buf' = [buf EXCEPT ![b] = r]
  BY <1>0 DEF WriteEnds
<1>5. r \in BufType /\ r.id = buf[b].id /\ r.op = "none" /\ r.done = TRUE /\ r.flags = buf[b].flags /\ r.data = buf[b].data
  BY <1>0 DEF BufType
<1> HIDE DEF r
<1>6. Changes(b, r.flags, r.done, r.data, r.op)
  BY <1>4, <1>5, SetBuffer DEF IInv
<1>7. \A c \in Bufs : c # b => buf'[c] = buf[c]
  BY <1>6 DEF Changes
<1>8. disk' \in [Block -> Nat] /\ \A blk \in Block : disk'[blk] = IF blk = buf[b].id THEN buf[b].data ELSE disk[blk]
  BY <1>0, <1>3 DEF WriteEnds, BufType
<1>9. ASSUME NEW blk \in Block PROVE BlockOf(blk)'
  <2>1. BlockOf(blk)
    BY DEF IInv, Buffers
  <2>2. CASE blk = buf[b].id
    <3>1. disk'[blk] = latest[blk]
      BY <1>3, <1>8, <2>2, Constants
    <3> QED BY <1>1, <3>1 DEF BlockOf
  <2>3. CASE blk # buf[b].id
    <3>1. \A c \in Bufs : c # b /\ Keeps(c) => Keeps(c)' /\ buf'[c].id = buf[c].id
      BY <1>1, <1>7 DEF Keeps, InHash, Has
    <3>2. disk'[blk] = disk[blk]
      BY <1>8, <2>3
    <3>3. ASSUME NEW c \in Bufs, buf[c].id = blk, Keeps(c) PROVE BlockOf(blk)'
      BY <2>3, <3>1, <3>3 DEF BlockOf
    <3>4. ASSUME disk[blk] = latest[blk] PROVE BlockOf(blk)'
      BY <1>1, <3>2, <3>4 DEF BlockOf
    <3> QED BY <2>1, <3>3, <3>4 DEF BlockOf
  <2> QED BY <2>2, <2>3
<1>10. /\ buf' \in [Bufs -> BufType] /\ buf'[b].id = buf[b].id /\ buf'[b].op = "none" /\ buf'[b].done
       /\ buf'[b].flags = buf[b].flags /\ buf'[b].data = buf[b].data
  BY <1>5, <1>6 DEF Changes
<1>11. InHash(b) => buf'[b].data = latest[buf[b].id]
  BY <1>3, <1>10 DEF InHash
<1>12. buf[b].op # "none"
  BY <1>1
<1> QED BY <1>1, <1>7, <1>8, <1>9, <1>10, <1>11, <1>12, EndKeeps

\* A buffer that is locked by nobody is written without waiting.
LEMMA AsyncKeeps ==
    ASSUME IInv, NEW b \in Bufs, lock[b] = <<>>, Has(b, "DIRTY"), WriteAsync(b),
           UNCHANGED <<lock, block_lru, hash, disk, latest, mounted, updlock, proc>>, cpu' \in Proc \cup {NULL}
    PROVE  IInv'
<1>1. BufferOf(b) /\ buf[b].op = "none" /\ InHash(b) /\ buf[b].done /\ ~Has(b, "ERROR")
      /\ buf[b].data = latest[buf[b].id]
  BY DEF IInv, Buffers, BufferOf
<1>2. /\ Changes(b, (buf[b].flags \cup {"ASYNC"}) \ {"READ", "ERROR", "DIRTY"}, FALSE, buf[b].data, "write")
      /\ CountWithout(b)
  BY <1>1, AsyncShape DEF IInv
<1>3. /\ buf' \in [Bufs -> BufType] /\ buf'[b].id = buf[b].id /\ (\A c \in Bufs : c # b => buf'[c] = buf[c])
      /\ buf'[b].op = "write" /\ ~buf'[b].done /\ buf'[b].data = buf[b].data
      /\ Has(b, "ASYNC")' /\ ~Has(b, "DIRTY")' /\ ~Has(b, "ERROR")'
  BY <1>2 DEF Changes, Has
<1>4. \A c \in Bufs : InHash(c)' <=> InHash(c)
  BY <1>3 DEF InHash
<1>5. BufferOf(b)'
  BY <1>1, <1>3, <1>4 DEF BufferOf
<1>6. ASSUME NEW blk \in Block PROVE BlockOf(blk)'
  <2>1. BlockOf(blk)
    BY DEF IInv, Buffers
  <2>2. \A c \in Bufs : Keeps(c) => Keeps(c)' /\ buf'[c].id = buf[c].id
    BY <1>1, <1>3, <1>4 DEF Keeps, Has
  <2> QED BY <2>1, <2>2 DEF BlockOf
<1>7. DirtyCountExact'
  <2>1. \A c \in Bufs : c # b => (Has(c, "DIRTY")' <=> Has(c, "DIRTY"))
    BY <1>3 DEF Has
  <2> QED BY <1>2, <1>3, <2>1, DirtyLess
<1>8. ASSUME NEW q \in Proc PROVE HandsOf(q)'
  <2>0. HandsOf(q) /\ proc'[q] = proc[q] /\ Target(q)' = Target(q)
    BY DEF IInv, Hands, Target
  <2>1. proc[q].pc \in Owning => proc[q].b \in Bufs /\ buf'[proc[q].b] = buf[proc[q].b]
    <3>1. proc[q].pc \in Owning => proc[q].b \in Bufs /\ lock[proc[q].b] # <<>>
      BY Alone, InQueue
    <3> QED BY <1>3, <3>1
  <2>2. proc[q].main # NULL => proc[q].main \in Bufs /\ buf'[proc[q].main] = buf[proc[q].main]
    <3>1. proc[q].main # NULL => proc[q].main \in Bufs /\ lock[proc[q].main] # <<>>
      BY Alone, InQueue
    <3> QED BY <1>3, <3>1
  <2> QED BY <1>4, <2>0, <2>1, <2>2 DEF HandsOf, Has, Owning
<1>9. disk' \in [Block -> Nat]
  BY DEF IInv, TypeOK
<1> QED BY <1>3, <1>5, <1>6, <1>7, <1>8, <1>9, DeviceKeeps

\* The swapper writes a dirty buffer that nobody has.
LEMMA BlockUpdateKeeps ==
    ASSUME IInv, NEW b \in Bufs, BlockUpdate(b)
    PROVE  IInv'
<1>1. /\ lock[b] = <<>> /\ Has(b, "DIRTY") /\ WriteAsync(b) /\ cpu' \in Proc \cup {NULL}
      /\ UNCHANGED <<lock, block_lru, hash, disk, latest, mounted, updlock, proc>>
  BY DEF BlockUpdate, IInv, TypeOK
<1> QED BY <1>1, AsyncKeeps

\* The dirty buffer that block_get writes.
LEMMA KeepFreeOne ==
    ASSUME IInv, NEW p \in Proc, KeepFree(p)
    PROVE  \E b \in Bufs : lock[b] = <<>> /\ Has(b, "DIRTY") /\ WriteAsync(b)
<1> DEFINE J == { i \in 1 .. Len(block_lru) : DirtyUnlocked(block_lru[i]) }
           k == SelectInSeq(block_lru, DirtyUnlocked)
<1>1. block_lru \in Seq(Bufs) /\ ToSet(block_lru) = Bufs
  BY DEF IInv, TypeOK, Queues
<1>2. J # {} /\ J \in SUBSET Nat
  BY <1>1 DEF KeepFree, ToClean, ToSet
<1>3. Min(J) \in J
  BY <1>2, MinIsLeast
<1>4. k \in J
  BY <1>2, <1>3 DEF SelectInSeq
<1> HIDE DEF k
<1>5. PICK b \in Bufs : b = block_lru[k] /\ lock[b] = <<>> /\ Has(b, "DIRTY")
  BY <1>1, <1>4 DEF DirtyUnlocked, Unlocked
<1> QED BY <1>5 DEF KeepFree, k

\* The first dirty buffer of the list that is not locked is written.
LEMMA KeepFreeKeeps ==
    ASSUME IInv, NEW p \in Proc, KeepFree(p)
    PROVE  IInv'
<1>1. cpu' \in Proc \cup {NULL} /\ UNCHANGED <<lock, block_lru, hash, disk, latest, mounted, updlock, proc>>
  BY DEF KeepFree
<1> QED BY <1>1, KeepFreeOne, AsyncKeeps

\* The first block of breada is in the cache.
LEMMA FillMainHasKeeps ==
    ASSUME IInv, NEW p \in Proc, FillMain(p), buf[proc[p].b].done
    PROVE  IInv'
<1>1. LocalsOf(p) /\ Held(p) /\ HandsOf(p) /\ TypeOK /\ proc \in [Proc -> ProcType]
  BY Actor DEF IInv
<1>2. Becomes(p, "breada2", proc[p].for, proc[p].b, proc[p].b, proc[p].i)
  <2>1. proc[p] \in ProcType
    BY <1>1
  <2>2. [proc[p] EXCEPT !.pc = "breada2", !.main = proc[p].b] \in ProcType
    BY <2>1 DEF ProcType, Label
  <2>3. proc' = [proc EXCEPT ![p] = [proc[p] EXCEPT !.pc = "breada2", !.main = proc[p].b]]
    BY DEF FillMain, Kept, At
  <2> QED BY <1>1, <2>1, <2>2, <2>3 DEF Becomes, Others, ProcType
<1>3. /\ proc[p].pc = "keep" /\ proc[p].for = "main" /\ buf[proc[p].b].done
      /\ UNCHANGED <<buf, lock, block_lru, hash, dirty_cnt, disk, latest, mounted, updlock>>
      /\ cpu' \in Proc \cup {NULL}
  BY <1>1 DEF FillMain, Kept, At, At, TypeOK
<1>4. LocalsOf(p)'
  BY <1>1, <1>2, <1>3, Constants DEF LocalsOf, Becomes, UserPc, UserGet, UpdatePc, Label
<1>5. \A c \in Bufs : Wants(p, c)' <=> Wants(p, c)
  BY <1>1, <1>2, <1>3, Constants DEF Wants, Becomes, Owning, Waiting, LocalsOf, UserPc, UserGet
<1>6. Held(p)'
  BY <1>1, <1>2, <1>3 DEF Held, Becomes, Owning
<1>7. HandsOf(p)'
  BY <1>1, <1>2, <1>3 DEF HandsOf, LocalsOf, Becomes, Target, InHash, Has, UserGet, UserPc
<1>8. \A c \in Bufs : buf[c].op # "none" /\ Moves(p, c) => Moves(p, c)'
  BY <1>1, <1>2, <1>3, Constants DEF Moves, Becomes, LocalsOf, UserPc, UserGet
<1>9. /\ Others(p) /\ proc' \in [Proc -> ProcType]
      /\ proc[p].pc # "writing" /\ proc'[p].pc \notin {"found", "lruwrite", "lruasync", "reuse"}
      /\ proc'[p].pc = "flush" => proc'[p].b = NULL
      /\ proc'[p].pc \in UpdatePc => proc[p].pc \in UpdatePc \/ ~updlock
      /\ updlock' = updlock \/ updlock' \/ proc[p].pc \in UpdatePc
  BY <1>1, <1>2, <1>3 DEF Becomes, LocalsOf, UserPc, UserGet, UpdatePc
<1> QED BY <1>1, <1>3, <1>4, <1>5, <1>6, <1>7, <1>8, <1>9, WalkKeeps DEF TypeOK

-----------------------------------------------------------------------------
(* Steps that change the block of a buffer, or what was last written to it *)

\* The buffers after such a step.
LEMMA BuffersMoved ==
    ASSUME IInv, NEW p \in Proc, NEW b \in Bufs, Others(p), disk' = disk, BufferOf(b)',
           \A c \in Bufs : c # b => buf'[c] = buf[c] /\ (InHash(c)' <=> InHash(c)),
           \A c \in Bufs : c # b /\ InHash(c) => latest'[buf[c].id] = latest[buf[c].id],
           \A blk \in Block : BlockOf(blk)' \/ (latest'[blk] = latest[blk] /\ ~(Keeps(b) /\ buf[b].id = blk)),
           \A c \in Bufs : c # b /\ buf[c].op # "none" /\ Moves(p, c) => Moves(p, c)'
    PROVE  Buffers'
<1>1. ASSUME NEW c \in Bufs, c # b PROVE BufferOf(c)'
  <2>1. BufferOf(c) /\ buf'[c] = buf[c] /\ (InHash(c)' <=> InHash(c))
    BY <1>1 DEF IInv, Buffers
  <2>2. \A q \in Proc : buf[c].op # "none" /\ Moves(q, c) => Moves(q, c)'
    BY <1>1 DEF Others, Moves
  <2>3. InHash(c) => latest'[buf[c].id] = latest[buf[c].id]
    BY <1>1
  <2> QED BY <2>1, <2>2, <2>3 DEF BufferOf, Has
<1>2. ASSUME NEW blk \in Block PROVE BlockOf(blk)'
  <2> SUFFICES ASSUME latest'[blk] = latest[blk], ~(Keeps(b) /\ buf[b].id = blk) PROVE BlockOf(blk)'
    OBVIOUS
  <2>1. BlockOf(blk)
    BY DEF IInv, Buffers
  <2>2. ASSUME NEW c \in Bufs, buf[c].id = blk, Keeps(c) PROVE BlockOf(blk)'
    <3>1. c # b /\ buf'[c] = buf[c] /\ InHash(c)' /\ latest'[buf[c].id] = latest[buf[c].id]
      BY <2>2 DEF Keeps
    <3>2. Keeps(c)' /\ buf'[c].id = blk
      BY <2>2, <3>1 DEF Keeps, Has
    <3> QED BY <3>2 DEF BlockOf
  <2>3. ASSUME disk[blk] = latest[blk] PROVE BlockOf(blk)'
    BY <2>3 DEF BlockOf
  <2> QED BY <2>1, <2>2, <2>3 DEF BlockOf
<1> QED BY <1>1, <1>2 DEF Buffers

\* A step of the process that has the lock of the buffer, which takes another block or another version.
LEMMA MoveKeeps ==
    ASSUME IInv, NEW p \in Proc, NEW b \in Bufs, Others(p), proc' \in [Proc -> ProcType],
           buf' \in [Bufs -> BufType], hash' \in [Buckets -> Seq(Bufs)], block_lru' \in Seq(Bufs),
           disk' = disk, latest' \in [Block -> Nat], UNCHANGED <<mounted, updlock>>, cpu' \in Proc \cup {NULL},
           \A c \in Bufs : c # b => buf'[c] = buf[c] /\ (InHash(c)' <=> InHash(c)),
           lock' \in [Bufs -> Seq(Proc)], \A c \in Bufs : c # b => lock'[c] = lock[c],
           lock[b] # <<>>, Head(lock[b]) = p,
           LocalsOf(p)', proc'[p].pc \in UpdatePc => proc[p].pc \in UpdatePc, Locks', HandsOf(p)',
           Queues', Buffers', Founds', DirtyCountExact',
           proc[p].pc # "writing", proc'[p].pc \notin Taking, proc'[p].pc = "flush" => proc'[p].b = NULL,
           OtherFlush(p, b) /\ FlushOf(b) => FlushOf(b)'
    PROVE  IInv'
<1>1. TypeOK'
  BY DirtyType DEF IInv, TypeOK, ProcType, BufType
<1>2. Locals'
  BY LocalsKept
<1>6. Hands'
  BY HandsKept
<1>7. Flushes'
  <2>1. ASSUME NEW c \in Bufs, lock[c] # <<>>, Head(lock[c]) # p
        PROVE  buf'[c] = buf[c] /\ (InHash(c) => InHash(c)') /\ Head(lock'[c]) = Head(lock[c])
    BY <2>1
  <2>2. ASSUME NEW c \in Bufs, lock[c] # <<>>, Head(lock[c]) = p, OtherFlush(p, c), FlushOf(c)
        PROVE  FlushOf(c)'
    <3>1. CASE c = b
      BY <2>2, <3>1
    <3>2. CASE c # b
      <4>1. buf'[c] = buf[c] /\ Head(lock'[c]) = p
        BY <2>2, <3>2
      <4>2. proc'[p].pc \notin {"lruwrite", "lruasync", "reuse"} /\ buf[c].done
        BY <2>2, <3>2 DEF FlushOf, Taking
      <4> QED BY <2>2, <3>2, <4>1, <4>2 DEF FlushOf, Has
    <3> QED BY <3>1, <3>2
  <2> QED BY <2>1, <2>2, FlushesKept
<1> QED BY <1>1, <1>2, <1>6, <1>7 DEF IInv

\* The hash queues without a buffer.
Unhashed(b) == IF buf[b].id = NULL THEN hash ELSE [hash EXCEPT ![Bucket(buf[b].id)] = Without(@, b)]

\* The queues without the buffer.
LEMMA UnhashedShape ==
    ASSUME IInv, NEW b \in Bufs
    PROVE  /\ Unhashed(b) \in [Buckets -> Seq(Bufs)]
           /\ \A h \in Buckets : NoRepeat(Unhashed(b)[h]) /\ ToSet(Unhashed(b)[h]) = ToSet(hash[h]) \ {b}
<1>1. hash \in [Buckets -> Seq(Bufs)] /\ buf[b].id \in Block \cup {NULL}
  BY Types DEF IInv
<1>2. \A h \in Buckets : NoRepeat(hash[h]) /\ (b \in ToSet(hash[h]) => buf[b].id # NULL /\ Bucket(buf[b].id) = h)
  BY DEF IInv, Queues
<1>3. CASE buf[b].id = NULL
  BY <1>1, <1>2, <1>3 DEF Unhashed
<1>4. CASE buf[b].id # NULL
  <2> DEFINE g == Bucket(buf[b].id)
             s == RemoveFirst(hash[g], b)
  <2>1. g \in Buckets
    BY <1>1, <1>4, Constants
  <2>2. s \in Seq(Bufs) /\ ToSet(s) = ToSet(hash[g]) \ {b} /\ NoRepeat(s)
    BY <1>1, <1>2, <2>1, RemoveFirstElements
  <2>3. Unhashed(b) = [hash EXCEPT ![g] = s]
    BY <1>4 DEF Unhashed, Without
  <2> HIDE DEF s
  <2>4. \A h \in Buckets : Unhashed(b)[h] = IF h = g THEN s ELSE hash[h]
    BY <1>1, <2>3
  <2> QED BY <1>1, <1>2, <2>1, <2>2, <2>3, <2>4
<1> QED BY <1>3, <1>4

\* The queues when a buffer is taken out, or put in front of the queue of another block.
LEMMA QueuesMoved ==
    ASSUME IInv, NEW b \in Bufs, \A c \in Bufs : c # b => buf'[c] = buf[c],
           buf'[b].id \in Block \cup {NULL}, block_lru' \in Seq(Bufs), NoRepeat(block_lru'), ToSet(block_lru') = Bufs,
           \/ hash' = Unhashed(b)
           \/ /\ buf'[b].id \in Block /\ hash' = [Unhashed(b) EXCEPT ![Bucket(buf'[b].id)] = <<b>> \o @]
              /\ \A c \in Bufs : c # b /\ InHash(c) => buf[c].id # buf'[b].id
    PROVE  /\ Queues' /\ hash' \in [Buckets -> Seq(Bufs)]
           /\ \A c \in Bufs : c # b => (InHash(c)' <=> InHash(c))
           /\ InHash(b)' <=> hash' # Unhashed(b)
<1> DEFINE u == Unhashed(b)
<1>1. /\ u \in [Buckets -> Seq(Bufs)]
      /\ \A h \in Buckets : NoRepeat(u[h]) /\ ToSet(u[h]) = ToSet(hash[h]) \ {b}
  BY UnhashedShape
<1>2. /\ \A c \in Bufs : buf[c].id # NULL => Bucket(buf[c].id) \in Buckets
      /\ \A h \in Buckets : \A c \in ToSet(hash[h]) : c \in Bufs /\ buf[c].id # NULL /\ Bucket(buf[c].id) = h
  <2>1. \A h \in Buckets : \A c \in ToSet(hash[h]) : c \in Bufs
    BY Types DEF IInv, ToSet
  <2> QED BY <2>1, Types, Constants DEF IInv, Queues
<1> HIDE DEF u
<1>3. CASE hash' = u
  <2>1. \A c \in Bufs : c # b => (InHash(c)' <=> InHash(c))
    BY <1>1, <1>2, <1>3 DEF InHash
  <2>2. \A h \in Buckets : b \notin ToSet(hash'[h])
    BY <1>1, <1>3
  <2>4. ~InHash(b)'
    <3>1. buf'[b].id # NULL => Bucket(buf'[b].id) \in Buckets
      BY Constants
    <3> QED BY <2>2, <3>1 DEF InHash
  <2>5. ASSUME NEW c \in Bufs, NEW d \in Bufs, InHash(c)', InHash(d)', buf'[c].id = buf'[d].id PROVE c = d
    <3>1. c # b /\ d # b
      BY <2>4, <2>5
    <3>2. InHash(c) /\ InHash(d) /\ buf[c].id = buf[d].id
      BY <2>1, <2>5, <3>1
    <3> QED BY <3>2, OneBuffer
  <2>6. ASSUME NEW h \in Buckets, NEW c \in ToSet(hash'[h]) PROVE buf'[c].id # NULL /\ Bucket(buf'[c].id) = h
    <3>1. c \in ToSet(hash[h]) /\ c # b
      BY <1>1, <1>3
    <3> QED BY <1>2, <3>1
  <2>7. Queues'
    BY <1>1, <1>3, <2>5, <2>6 DEF Queues
  <2> QED BY <1>1, <1>3, <2>1, <2>4, <2>7 DEF u
<1>4. CASE /\ buf'[b].id \in Block /\ hash' = [u EXCEPT ![Bucket(buf'[b].id)] = <<b>> \o @]
           /\ \A c \in Bufs : c # b /\ InHash(c) => buf[c].id # buf'[b].id
  <2> DEFINE g == Bucket(buf'[b].id)
             s == <<b>> \o u[g]
  <2>1. g \in Buckets /\ buf'[b].id # NULL
    BY <1>4, Constants
  <2>2. u[g] \in Seq(Bufs) /\ NoRepeat(u[g]) /\ ToSet(u[g]) = ToSet(hash[g]) \ {b}
    BY <1>1, <2>1
  <2>3. s \in Seq(Bufs) /\ ToSet(s) = ToSet(hash[g]) \cup {b} /\ NoRepeat(s)
    <3>1. s \in Seq(Bufs) /\ ToSet(s) = ToSet(u[g]) \cup {b} /\ (NoRepeat(u[g]) /\ b \notin ToSet(u[g]) => NoRepeat(s))
      BY <2>2, ConsElements, SMTT(40)
    <3> QED BY <2>2, <3>1
  <2> HIDE DEF s
  <2>4. \A h \in Buckets : hash'[h] = IF h = g THEN s ELSE u[h]
    BY <1>1, <1>4, SMTT(40) DEF s
  <2>5. hash' \in [Buckets -> Seq(Bufs)]
    BY <1>1, <1>4, <2>3 DEF s
  <2>6. \A h \in Buckets : /\ NoRepeat(hash'[h])
                           /\ ToSet(hash'[h]) = IF h = g THEN ToSet(hash[h]) \cup {b} ELSE ToSet(hash[h]) \ {b}
    BY <1>1, <2>3, <2>4
  <2>7. InHash(b)'
    BY <2>1, <2>6 DEF InHash
  <2>c. ASSUME NEW c \in Bufs, c # b PROVE InHash(c)' <=> InHash(c)
    <3>1. CASE buf[c].id = NULL
      BY <2>c, <3>1 DEF InHash
    <3>2. CASE buf[c].id # NULL
      <4>1. PICK h \in Buckets : h = Bucket(buf[c].id) /\ buf'[c].id = buf[c].id
        BY <1>2, <2>c, <3>2
      <4>2. c \in ToSet(hash'[h]) <=> c \in ToSet(hash[h])
        BY <2>6, <2>c
      <4> QED BY <3>2, <4>1, <4>2 DEF InHash
    <3> QED BY <3>1, <3>2
  <2>8. hash' # u
    <3>1. b \notin ToSet(u[g]) /\ b \in ToSet(hash'[g])
      BY <2>1, <2>2, <2>6
    <3> QED BY <3>1
  <2>9. ASSUME NEW c \in Bufs, NEW d \in Bufs, InHash(c)', InHash(d)', buf'[c].id = buf'[d].id PROVE c = d
    <3>1. CASE c # b /\ d # b
      <4>1. InHash(c) /\ InHash(d) /\ buf[c].id = buf[d].id
        BY <2>c, <2>9, <3>1
      <4> QED BY <4>1, OneBuffer
    <3>2. CASE c = b \/ d = b
      <4>1. \A e \in Bufs : e # b /\ InHash(e)' => buf'[e].id # buf'[b].id
        BY <1>4, <2>c
      <4> QED BY <2>9, <3>2, <4>1, SMTT(40)
    <3> QED BY <3>1, <3>2
  <2>10. ASSUME NEW h \in Buckets, NEW c \in ToSet(hash'[h]) PROVE buf'[c].id # NULL /\ Bucket(buf'[c].id) = h
    <3>1. CASE c = b
      <4>1. h = g
        BY <2>6, <3>1
      <4> QED BY <2>1, <3>1, <4>1
    <3>2. CASE c # b
      <4>1. c \in ToSet(hash[h])
        BY <2>6, <3>2
      <4> QED BY <1>2, <3>2, <4>1
    <3> QED BY <3>1, <3>2
  <2> QED BY <2>5, <2>6, <2>7, <2>c, <2>8, <2>9, <2>10, SMTT(40) DEF Queues, u
<1> QED BY <1>3, <1>4 DEF u

\* The processes that wait for the buffer, when its block is another one.
LEMMA FoundsMoved ==
    ASSUME IInv, NEW p \in Proc, NEW b \in Bufs, Others(p), Head(lock[b]) = p,
           \A c \in Bufs : c # b => buf'[c] = buf[c] /\ (InHash(c)' <=> InHash(c)),
           proc'[p].pc \notin Taking, proc'[p].pc # "found",
           \A q \in Proc : q # p /\ proc[q].pc = "found" /\ proc[q].b = b /\ FoundOf(q)
               => buf'[b].id # Target(q) \/ InHash(b)'
    PROVE  Founds'
<1>1. ASSUME NEW q \in Proc, q # p, proc[q].pc = "found" PROVE FoundOf(q)'
  <2>1. proc'[q] = proc[q] /\ FoundOf(q) /\ Target(q)' = Target(q)
    BY <1>1 DEF Others, IInv, Founds, Target
  <2>2. PICK c \in Bufs : c = proc[q].b
    <3>1. proc[q].b # NULL
      BY <1>1 DEF IInv, Locks, Held
    <3> QED BY <1>1, <3>1, Alone DEF Waiting
  <2>3. ASSUME NEW h \in Proc, proc'[h].pc \in Taking, proc'[h].b = c
        PROVE  h # p /\ proc[h].pc \in Taking /\ proc[h].b = c
    BY <2>3 DEF Others
  <2>4. CASE c # b
    <3>1. buf'[c] = buf[c] /\ (InHash(c)' <=> InHash(c))
      BY <2>4
    <3> QED BY <1>1, <2>1, <2>2, <2>3, <3>1 DEF FoundOf, InHash
  <2>5. CASE c = b
    <3>1. ASSUME NEW h \in Proc, proc'[h].pc \in Taking, proc'[h].b = b PROVE FALSE
      <4>1. h # p /\ proc[h].pc \in Owning /\ proc[h].b = b
        BY <2>3, <2>5, <3>1 DEF Taking, Owning
      <4> QED BY <4>1, Alone
    <3>2. buf'[b].id = Target(q) => InHash(b)'
      BY <1>1, <2>1, <2>2, <2>5
    <3> QED BY <1>1, <2>1, <2>2, <2>5, <3>1, <3>2 DEF FoundOf, InHash
  <2> QED BY <2>4, <2>5
<1>2. ASSUME NEW q \in Proc, q # p, proc[q].pc # "found" PROVE FoundOf(q)'
  BY <1>2 DEF FoundOf, Others
<1>3. FoundOf(p)'
  BY DEF FoundOf
<1> QED BY <1>1, <1>2, <1>3 DEF Founds

\* The buffer takes the block of the process, or is left when another one has it.
LEMMA ReuseKeeps ==
    ASSUME IInv, NEW p \in Proc, Reuse(p)
    PROVE  IInv'
<1>1. LocalsOf(p) /\ Held(p) /\ HandsOf(p) /\ TypeOK /\ proc \in [Proc -> ProcType]
  BY Actor DEF IInv
<1>g. proc[p].pc = "reuse"
  BY DEF Reuse, At
<1>b. PICK b \in Bufs : b = proc[p].b /\ Head(lock[b]) = p /\ lock[b] # <<>> /\ Wants(p, b)
  BY <1>g, Mine DEF Owning
<1>i. buf[b] \in BufType /\ buf \in [Bufs -> BufType]
  BY <1>1, Types
<1>t. buf[b].op = "none" /\ ~Has(b, "DIRTY") /\ ~Keeps(b)
  BY <1>1, <1>b, <1>g DEF HandsOf, Keeps
<1>k. PICK blk \in Block : blk = Target(p)
  BY <1>1, <1>g, SMTT(40) DEF Target, LocalsOf, UserGet, UserPc
<1> DEFINE Twin == \E x \in ToSet(Unhashed(b)[Bucket(blk)]) : buf[x].id = blk
<1>e. \/ /\ Twin /\ hash' = Unhashed(b) /\ lock' = [lock EXCEPT ![b] = Tail(@)]
         /\ proc' = [proc EXCEPT ![p] = [proc[p] EXCEPT !.pc = "get", !.b = NULL]]
      \/ /\ ~Twin /\ hash' = [Unhashed(b) EXCEPT ![Bucket(blk)] = <<b>> \o @] /\ lock' = lock
         /\ proc' = [proc EXCEPT ![p] = [proc[p] EXCEPT !.pc = "got"]]
  BY <1>b, <1>k DEF Reuse, SleepFree, Unhashed
<1>w. Twin <=> \E x \in Bufs : x # b /\ InHash(x) /\ buf[x].id = blk
  <2>1. Bucket(blk) \in Buckets /\ blk # NULL
    BY Constants
  <2>2. ToSet(Unhashed(b)[Bucket(blk)]) = ToSet(hash[Bucket(blk)]) \ {b}
    BY <2>1, UnhashedShape
  <2>3. \A x \in ToSet(hash[Bucket(blk)]) : x \in Bufs
    BY <2>1, Types DEF IInv, ToSet
  <2> QED BY <2>1, <2>2, <2>3 DEF InHash
<1> HIDE DEF Twin
<1>c. /\ buf' \in [Bufs -> BufType] /\ (\A c \in Bufs : c # b => buf'[c] = buf[c])
      /\ buf'[b].id = blk /\ buf'[b].flags = {} /\ buf'[b].done = FALSE /\ buf'[b].op = "none"
  <2> DEFINE r == [buf[b] EXCEPT !.id = blk, !.flags = {}, !.done = FALSE]
  <2>1. buf' = [buf EXCEPT ![b] = r]
    BY <1>b, <1>i, <1>k DEF Reuse
  <2>2. r \in BufType /\ r.id = blk /\ r.flags = {} /\ r.done = FALSE /\ r.op = "none"
    <3>1. [buf[b] EXCEPT !.id = blk] \in BufType
      BY <1>i DEF BufType
    <3>2. [[buf[b] EXCEPT !.id = blk] EXCEPT !.flags = {}] \in BufType
      BY <3>1 DEF BufType
    <3>3. [[[buf[b] EXCEPT !.id = blk] EXCEPT !.flags = {}] EXCEPT !.done = FALSE] \in BufType
      BY <3>2 DEF BufType
    <3>4. r = [[[buf[b] EXCEPT !.id = blk] EXCEPT !.flags = {}] EXCEPT !.done = FALSE]
      BY <1>i, SMTT(40) DEF BufType
    <3> QED BY <1>i, <1>t, <3>3, <3>4 DEF BufType
  <2> HIDE DEF r
  <2> QED BY <1>i, <2>1, <2>2
<1>3. /\ UNCHANGED <<block_lru, dirty_cnt, disk, latest, mounted, updlock>> /\ cpu' \in Proc \cup {NULL}
      /\ block_lru' \in Seq(Bufs) /\ NoRepeat(block_lru') /\ ToSet(block_lru') = Bufs /\ latest' \in [Block -> Nat]
  BY DEF Reuse, TypeOK, IInv, Queues
<1>q. /\ Queues' /\ hash' \in [Buckets -> Seq(Bufs)]
      /\ \A c \in Bufs : c # b => (InHash(c)' <=> InHash(c))
      /\ InHash(b)' <=> hash' # Unhashed(b)
  <2>1. \/ hash' = Unhashed(b)
        \/ /\ buf'[b].id \in Block /\ hash' = [Unhashed(b) EXCEPT ![Bucket(buf'[b].id)] = <<b>> \o @]
           /\ \A c \in Bufs : c # b /\ InHash(c) => buf[c].id # buf'[b].id
    BY <1>c, <1>e, <1>w
  <2>2. buf'[b].id \in Block \cup {NULL} /\ \A c \in Bufs : c # b => buf'[c] = buf[c]
    BY <1>c
  <2> QED BY <1>3, <2>1, <2>2, QueuesMoved
<1>2. PICK pc \in {"get", "got"}, a \in {NULL, b} :
         /\ Becomes(p, pc, proc[p].for, a, proc[p].main, proc[p].i)
         /\ \/ pc = "get" /\ a = NULL /\ Twin /\ lock' = [lock EXCEPT ![b] = Tail(@)]
            \/ pc = "got" /\ a = b /\ InHash(b)' /\ lock' = lock
  <2>1. proc[p] \in ProcType
    BY <1>1
  <2>2. ASSUME Twin PROVE Becomes(p, "get", proc[p].for, NULL, proc[p].main, proc[p].i)
    <3>1. [proc[p] EXCEPT !.pc = "get", !.b = NULL] \in ProcType
      BY <2>1 DEF ProcType, Label
    <3>2. proc' = [proc EXCEPT ![p] = [proc[p] EXCEPT !.pc = "get", !.b = NULL]]
      BY <1>e, <2>2
    <3> QED BY <1>1, <2>1, <3>1, <3>2 DEF Becomes, Others, ProcType
  <2>3. ASSUME ~Twin PROVE Becomes(p, "got", proc[p].for, b, proc[p].main, proc[p].i) /\ InHash(b)'
    <3>1. [proc[p] EXCEPT !.pc = "got"] \in ProcType
      BY <2>1 DEF ProcType, Label
    <3>2. Becomes(p, "got", proc[p].for, b, proc[p].main, proc[p].i)
      BY <1>1, <1>b, <1>e, <2>1, <2>3, <3>1 DEF Becomes, Others, ProcType
    <3>3. hash' # Unhashed(b)
      <4>1. Bucket(blk) \in Buckets
        BY Constants
      <4>2. Unhashed(b) \in [Buckets -> Seq(Bufs)] /\ Unhashed(b)[Bucket(blk)] \in Seq(Bufs)
        BY <4>1, UnhashedShape
      <4>3. hash'[Bucket(blk)] = <<b>> \o Unhashed(b)[Bucket(blk)]
        BY <1>e, <2>3, <4>1, <4>2
      <4>4. Len(<<b>> \o Unhashed(b)[Bucket(blk)]) = 1 + Len(Unhashed(b)[Bucket(blk)])
        BY <4>2
      <4>5. Len(Unhashed(b)[Bucket(blk)]) \in Nat
        BY <4>2
      <4> HIDE DEF Unhashed
      <4> QED BY <4>3, <4>4, <4>5
    <3> QED BY <1>q, <3>2, <3>3
  <2> QED BY <1>e, <2>2, <2>3
<1>4. LocalsOf(p)' /\ Others(p) /\ proc' \in [Proc -> ProcType]
  BY <1>g, <1>1, <1>2, <1>3, Constants DEF LocalsOf, Becomes, UserPc, UserGet, UpdatePc, Label
<1>m. proc[p].main # NULL => proc[p].main \in Bufs \ {b} /\ lock[proc[p].main] # <<>> /\ Head(lock[proc[p].main]) = p
  <2>1. proc[p].main # NULL => proc[p].main \in Bufs /\ lock[proc[p].main] # <<>> /\ Head(lock[proc[p].main]) = p
    BY Alone, InQueue
  <2> QED BY <1>1, <1>b, <1>g, <2>1 DEF Held
<1>5. \A c \in Bufs : Wants(p, c)' <=> Wants(p, c) /\ (pc = "got" \/ c # b)
  BY <1>g, <1>b, <1>m, <1>1, <1>2, Constants DEF Wants, Becomes, Owning, Waiting
<1>7. lock' \in [Bufs -> Seq(Proc)] /\ (\A c \in Bufs : c # b => lock'[c] = lock[c]) /\ Locks'
  <2>1. CASE pc = "got"
    <3>1. lock' = lock
      BY <1>2, <2>1
    <3>2. Held(p)'
      BY <1>b, <1>g, <1>1, <1>2, <2>1, <3>1, Constants DEF Held, Becomes, Owning
    <3> QED BY <1>1, <1>4, <1>5, <2>1, <3>1, <3>2, LocksSame DEF TypeOK
  <2>2. CASE pc = "get"
    <3>1. lock' = [lock EXCEPT ![b] = Tail(@)]
      BY <1>2, <2>2
    <3>2. lock' \in [Bufs -> Seq(Proc)] /\ (\A c \in Bufs : c # b => lock'[c] = lock[c])
      BY <1>b, <3>1, FreeShape
    <3>3. Held(p)'
      BY <1>m, <1>2, <2>2, <3>2 DEF Held, Becomes, Owning
    <3>4. \A c \in Bufs : Wants(p, c)' <=> Wants(p, c) /\ c # b
      BY <1>5, <2>2
    <3> QED BY <1>b, <1>4, <3>1, <3>2, <3>3, <3>4, LocksFreed
  <2> QED BY <2>1, <2>2
<1>8. HandsOf(p)'
  <2>1. ASSUME proc[p].main # NULL
        PROVE  buf'[proc[p].main] = buf[proc[p].main] /\ (InHash(proc[p].main) => InHash(proc[p].main)')
    <3>1. PICK c \in Bufs \ {b} : c = proc[p].main
      BY <1>m, <2>1
    <3>2. buf'[c] = buf[c] /\ (InHash(c)' <=> InHash(c)) /\ proc'[p].main = c
      BY <1>2, <1>c, <1>q, <3>1 DEF Becomes
    <3> QED BY <3>1, <3>2 DEF InHash
  <2>2. Target(p)' = blk
    BY <1>2, <1>k DEF Target, Becomes
  <2>3. pc = "got" => InHash(b)' /\ a = b
    BY <1>2
  <2>4. /\ proc'[p].pc = pc /\ proc'[p].b = a /\ proc'[p].main = proc[p].main /\ proc'[p].blk = proc[p].blk
        /\ proc[p].main # NULL =>
              /\ InHash(proc[p].main) /\ buf[proc[p].main].id = proc[p].blk
              /\ buf[proc[p].main].done \/ buf[proc[p].main].op = "read"
    BY <1>1, <1>2, <1>g DEF Becomes, HandsOf
  <2> QED BY <1>c, <2>1, <2>2, <2>3, <2>4 DEF HandsOf, InHash
<1>9. BufferOf(b)'
  BY <1>c DEF BufferOf, Has
<1>10. Buffers'
  <2>1. \A c \in Bufs : c # b /\ buf[c].op # "none" /\ Moves(p, c) => Moves(p, c)'
    BY <1>g, <1>b, <1>2 DEF Moves, Becomes
  <2>2. \A c \in Bufs : c # b => buf'[c] = buf[c] /\ (InHash(c)' <=> InHash(c))
    BY <1>c, <1>q
  <2>3. \A k \in Block : latest'[k] = latest[k] /\ ~(Keeps(b) /\ buf[b].id = k)
    BY <1>3, <1>t
  <2>4. disk' = disk /\ \A c \in Bufs : latest'[buf[c].id] = latest[buf[c].id]
    BY <1>3
  <2> QED BY <1>4, <1>9, <2>1, <2>2, <2>3, <2>4, BuffersMoved
<1>11. DirtyCountExact'
  <2>1. \A c \in Bufs : Has(c, "DIRTY")' <=> Has(c, "DIRTY")
    BY <1>c, <1>t DEF Has
  <2> QED BY <1>3, <2>1, DirtySame
<1>12. Founds'
  <2>1. ASSUME NEW q \in Proc, q # p, proc[q].pc = "found", proc[q].b = b, FoundOf(q),
               buf'[b].id = Target(q), ~InHash(b)'
        PROVE  FALSE
    <3>1. buf[b].id = Target(q) /\ InHash(b)
      BY <1>b, <1>g, <2>1 DEF FoundOf, Taking
    <3>2. PICK x \in Bufs : x # b /\ InHash(x) /\ buf[x].id = blk
      BY <1>2, <1>w, <2>1
    <3> QED BY <1>c, <2>1, <3>1, <3>2, OneBuffer
  <2>2. proc'[p].pc \notin Taking /\ proc'[p].pc # "found"
    BY <1>2 DEF Becomes, Taking
  <2> QED BY <1>b, <1>c, <1>q, <1>4, <2>1, <2>2, FoundsMoved
<1>13. ~FlushOf(b)
  BY <1>b, <1>g DEF FlushOf
<1>14. /\ proc'[p].pc \in UpdatePc => proc[p].pc \in UpdatePc
       /\ proc[p].pc # "writing" /\ proc'[p].pc \notin Taking
       /\ proc'[p].pc = "flush" => proc'[p].b = NULL
  BY <1>g, <1>2 DEF Becomes, UpdatePc, Taking
<1>15. \A c \in Bufs : c # b => buf'[c] = buf[c] /\ (InHash(c)' <=> InHash(c))
  BY <1>c, <1>q
<1>16. lock[b] # <<>> /\ Head(lock[b]) = p /\ buf' \in [Bufs -> BufType]
  BY <1>b, <1>c
<1> QED BY <1>3, <1>4, <1>7, <1>8, <1>10, <1>11, <1>12, <1>13, <1>14, <1>15, <1>16, <1>q, MoveKeeps, ZenonT(60)

\* A buffer is discarded: it has no block any more.
LEMMA DiscardKeeps ==
    ASSUME IInv, NEW p \in Proc, Discard(p), ~InProgress(proc[p].b)
    PROVE  IInv'
<1>1. LocalsOf(p) /\ Held(p) /\ HandsOf(p) /\ TypeOK /\ proc \in [Proc -> ProcType]
  BY Actor DEF IInv
<1>g. proc[p].pc = "discard" /\ proc[p].b # NULL /\ Owns(p) /\ proc[p].main = NULL
  BY <1>1 DEF Discard, Locked, At, LocalsOf, UserPc, UserGet
<1>b. PICK b \in Bufs :
         /\ b = proc[p].b /\ Head(lock[b]) = p /\ lock[b] # <<>> /\ Wants(p, b) /\ BufferOf(b)
         /\ buf[b].op # "none" => Has(b, "ASYNC") \/ Moves(p, b)
  BY <1>g, Mine DEF Waiting
<1>i. buf[b] \in BufType /\ buf \in [Bufs -> BufType] /\ latest \in [Block -> Nat] /\ disk \in [Block -> Nat]
  BY <1>1, Types DEF TypeOK
<1>t. buf[b].op = "none" /\ (Keeps(b) => Has(b, "DIRTY")) /\ (Has(b, "DIRTY") => InHash(b))
  <2>1. ~Moves(p, b)
    BY <1>b, <1>g, Constants, SMTT(40) DEF Moves
  <2> QED BY <1>b, <2>1 DEF BufferOf, InProgress, Keeps
<1>e. /\ hash' = Unhashed(b) /\ CountWithout(b) /\ lock' = [lock EXCEPT ![b] = Tail(@)]
      /\ latest' = IF Has(b, "DIRTY") THEN [latest EXCEPT ![buf[b].id] = disk[buf[b].id]] ELSE latest
      /\ buf' = [buf EXCEPT ![b] = [buf[b] EXCEPT !.id = NULL, !.flags = {}]]
      /\ block_lru' = <<b>> \o RemoveFirst(block_lru, b)
      /\ Advance(p, "mount") /\ cpu' = p /\ UNCHANGED <<disk, mounted, updlock>>
  BY <1>b DEF Discard, Unhashed, Without, SleepFree
<1>c. /\ buf' \in [Bufs -> BufType] /\ (\A c \in Bufs : c # b => buf'[c] = buf[c])
      /\ buf'[b].id = NULL /\ buf'[b].flags = {} /\ buf'[b].done = buf[b].done /\ buf'[b].op = "none"
  <2> DEFINE r == [buf[b] EXCEPT !.id = NULL, !.flags = {}]
  <2>1. r \in BufType /\ r.id = NULL /\ r.flags = {} /\ r.done = buf[b].done /\ r.op = "none"
    <3>1. [buf[b] EXCEPT !.id = NULL] \in BufType
      BY <1>i DEF BufType
    <3>2. [[buf[b] EXCEPT !.id = NULL] EXCEPT !.flags = {}] \in BufType
      BY <3>1 DEF BufType
    <3>3. r = [[buf[b] EXCEPT !.id = NULL] EXCEPT !.flags = {}]
      BY <1>i DEF BufType
    <3> QED BY <1>i, <1>t, <3>2, <3>3 DEF BufType
  <2>2. buf' = [buf EXCEPT ![b] = r]
    BY <1>e
  <2> HIDE DEF r
  <2> QED BY <1>i, <2>1, <2>2
<1>u. block_lru' \in Seq(Bufs) /\ NoRepeat(block_lru') /\ ToSet(block_lru') = Bufs
  <2> DEFINE s == RemoveFirst(block_lru, b)
  <2>1. s \in Seq(Bufs) /\ ToSet(s) = Bufs \ {b} /\ NoRepeat(s)
    BY <1>1, RemoveFirstElements DEF TypeOK, IInv, Queues
  <2>2. block_lru' = <<b>> \o s
    BY <1>e
  <2> HIDE DEF s
  <2>3. <<b>> \o s \in Seq(Bufs) /\ ToSet(<<b>> \o s) = ToSet(s) \cup {b} /\ (b \notin ToSet(s) => NoRepeat(<<b>> \o s))
    BY <2>1, ConsElements
  <2> QED BY <2>1, <2>2, <2>3
<1>q. /\ Queues' /\ hash' \in [Buckets -> Seq(Bufs)]
      /\ \A c \in Bufs : c # b => (InHash(c)' <=> InHash(c))
      /\ ~InHash(b)'
  <2>1. buf'[b].id \in Block \cup {NULL} /\ \A c \in Bufs : c # b => buf'[c] = buf[c]
    BY <1>c
  <2> QED BY <1>e, <1>u, <2>1, QueuesMoved
<1>2. PICK pc \in {"discard", "mount"}, i \in 1 .. Len(Buf) : Becomes(p, pc, proc[p].for, NULL, proc[p].main, i)
  BY <1>1, <1>e, <1>g, AdvanceShape DEF Label
<1>4. LocalsOf(p)' /\ Others(p) /\ proc' \in [Proc -> ProcType]
  BY <1>g, <1>e, <1>1, <1>2, Constants DEF LocalsOf, Becomes, UserPc, UserGet, UpdatePc, Label
<1>5. \A c \in Bufs : Wants(p, c)' <=> Wants(p, c) /\ c # b
  BY <1>g, <1>b, <1>1, <1>2, Constants DEF Wants, Becomes, Owning, Waiting
<1>6. Held(p)'
  BY <1>g, <1>2 DEF Held, Becomes, Owning
<1>7. lock' \in [Bufs -> Seq(Proc)] /\ (\A c \in Bufs : c # b => lock'[c] = lock[c]) /\ Locks'
  <2>1. lock' \in [Bufs -> Seq(Proc)] /\ (\A c \in Bufs : c # b => lock'[c] = lock[c])
    BY <1>b, <1>e, FreeShape
  <2> QED BY <1>b, <1>e, <1>4, <1>5, <1>6, <2>1, LocksFreed
<1>8. HandsOf(p)'
  BY <1>g, <1>2 DEF HandsOf, Becomes
<1>9. BufferOf(b)'
  BY <1>c, <1>q DEF BufferOf, Has
<1>l. /\ latest' \in [Block -> Nat]
      /\ \A k \in Block : latest'[k] = IF k = buf[b].id /\ Has(b, "DIRTY") THEN disk[k] ELSE latest[k]
  <2>1. Has(b, "DIRTY") => buf[b].id \in Block
    BY <1>i, <1>t DEF InHash, BufType
  <2>2. CASE Has(b, "DIRTY")
    BY <1>e, <1>i, <2>1, <2>2
  <2>3. CASE ~Has(b, "DIRTY")
    BY <1>e, <1>i, <2>3
  <2> QED BY <2>2, <2>3
<1>10. Buffers'
  <2>1. \A c \in Bufs : c # b /\ buf[c].op # "none" /\ Moves(p, c) => Moves(p, c)'
    BY <1>g, <1>b, <1>2, Constants DEF Moves, Becomes
  <2>2. \A c \in Bufs : c # b => buf'[c] = buf[c] /\ (InHash(c)' <=> InHash(c))
    BY <1>c, <1>q
  <2>3. ASSUME NEW k \in Block
        PROVE  BlockOf(k)' \/ (latest'[k] = latest[k] /\ ~(Keeps(b) /\ buf[b].id = k))
    <3>1. CASE k = buf[b].id /\ Has(b, "DIRTY")
      <4>1. disk'[k] = latest'[k]
        BY <1>e, <1>l, <3>1
      <4> QED BY <4>1 DEF BlockOf
    <3>2. CASE ~(k = buf[b].id /\ Has(b, "DIRTY"))
      BY <1>l, <1>t, <3>2
    <3> QED BY <3>1, <3>2
  <2>4. ASSUME NEW c \in Bufs, c # b, InHash(c) PROVE latest'[buf[c].id] = latest[buf[c].id]
    <3>1. buf[c].id \in Block
      BY <1>1, <2>4, Types DEF InHash
    <3>2. ~(buf[c].id = buf[b].id /\ Has(b, "DIRTY"))
      BY <1>t, <2>4, OneBuffer
    <3> QED BY <1>l, <3>1, <3>2
  <2>5. disk' = disk
    BY <1>e
  <2> QED BY <1>4, <1>9, <2>1, <2>2, <2>3, <2>4, <2>5, BuffersMoved
<1>11. DirtyCountExact'
  <2>1. \A c \in Bufs : c # b => (Has(c, "DIRTY")' <=> Has(c, "DIRTY"))
    BY <1>c DEF Has
  <2>2. ~Has(b, "DIRTY")'
    BY <1>c DEF Has
  <2> QED BY <1>e, <2>1, <2>2, DirtyLess
<1>12. Founds'
  <2>1. ASSUME NEW q \in Proc, proc[q].pc = "found" PROVE buf'[b].id # Target(q)
    <3>1. Target(q) \in Block
      BY <2>1 DEF IInv, Locals, LocalsOf, Target, UserGet, UserPc
    <3> QED BY <1>c, <3>1, Constants
  <2>2. proc'[p].pc \notin Taking /\ proc'[p].pc # "found"
    BY <1>2 DEF Becomes, Taking
  <2>3. \A c \in Bufs : c # b => buf'[c] = buf[c] /\ (InHash(c)' <=> InHash(c))
    BY <1>c, <1>q
  <2> QED BY <1>b, <1>4, <2>1, <2>2, <2>3, FoundsMoved
<1>13. OtherFlush(p, b) /\ FlushOf(b) => FlushOf(b)'
  <2> SUFFICES ASSUME OtherFlush(p, b), FlushOf(b) PROVE FlushOf(b)'
    OBVIOUS
  <2>1. buf'[b].id = NULL /\ "ERROR" \notin buf'[b].flags /\ buf'[b].done
    BY <1>b, <1>c, <1>g DEF FlushOf
  <2> QED BY <1>b, <1>e, <1>4, <2>1, NextWaits
<1>14. /\ proc'[p].pc \in UpdatePc => proc[p].pc \in UpdatePc
       /\ proc[p].pc # "writing" /\ proc'[p].pc \notin Taking
       /\ proc'[p].pc = "flush" => proc'[p].b = NULL
  BY <1>g, <1>2 DEF Becomes, UpdatePc, Taking
<1>15. \A c \in Bufs : c # b => buf'[c] = buf[c] /\ (InHash(c)' <=> InHash(c))
  BY <1>c, <1>q
<1>16. lock[b] # <<>> /\ Head(lock[b]) = p /\ buf' \in [Bufs -> BufType]
  BY <1>b, <1>c
<1>17. UNCHANGED <<mounted, updlock>> /\ cpu' \in Proc \cup {NULL} /\ disk' = disk
  BY <1>e
<1> QED BY <1>4, <1>7, <1>8, <1>10, <1>11, <1>12, <1>13, <1>14, <1>15, <1>16, <1>17, <1>l, <1>q, <1>u, MoveKeeps

\* A new version of the block of a process: the other buffers have other blocks.
LEMMA VersionShape ==
    ASSUME IInv, NEW p \in Proc, NEW b \in Bufs, proc[p].blk \in Block, buf[b].id = proc[p].blk, InHash(b),
           NewVersion(p)
    PROVE  /\ latest' \in [Block -> Nat] /\ latest'[proc[p].blk] \in Nat
           /\ \A k \in Block : k # proc[p].blk => latest'[k] = latest[k]
           /\ \A c \in Bufs : c # b /\ InHash(c) => latest'[buf[c].id] = latest[buf[c].id]
<1>1. latest \in [Block -> Nat]
  BY DEF IInv, TypeOK
<1>2. latest' = [latest EXCEPT ![proc[p].blk] = latest[proc[p].blk] + 1]
  BY DEF NewVersion
<1>3. latest' \in [Block -> Nat] /\ \A k \in Block : k # proc[p].blk => latest'[k] = latest[k]
  BY <1>1, <1>2
<1>4. ASSUME NEW c \in Bufs, c # b, InHash(c) PROVE latest'[buf[c].id] = latest[buf[c].id]
  <2>1. buf[c].id \in Block
    BY <1>4, Types DEF InHash, IInv
  <2>2. buf[c].id # proc[p].blk
    BY <1>4, OneBuffer
  <2> QED BY <1>3, <2>1, <2>2
<1> QED BY <1>3, <1>4

\* A modified block stays in the cache.
LEMMA UseDelayedKeeps ==
    ASSUME IInv, NEW p \in Proc, UseDelayed(p), ~Has(proc[p].b, "ERROR")
    PROVE  IInv'
<1>1. LocalsOf(p) /\ Held(p) /\ HandsOf(p) /\ TypeOK /\ proc \in [Proc -> ProcType]
  BY Actor DEF IInv
<1>g. proc[p].pc = "use" /\ proc[p].blk \in Block
  BY <1>1 DEF UseDelayed, At, LocalsOf, UserPc
<1>b. PICK b \in Bufs : b = proc[p].b /\ Head(lock[b]) = p /\ lock[b] # <<>> /\ Wants(p, b) /\ BufferOf(b)
  BY <1>g, Mine DEF Owning
<1>i. buf[b] \in BufType /\ buf \in [Bufs -> BufType]
  BY <1>1, Types
<1>t. buf[b].op = "none" /\ InHash(b) /\ buf[b].id = proc[p].blk /\ "ERROR" \notin buf[b].flags
  <2>1. buf[b].op = "none" /\ InHash(b) /\ buf[b].id = proc[p].blk
    BY <1>1, <1>b, <1>g DEF HandsOf
  <2>2. ~Has(b, "ERROR")
    BY <1>b
  <2> QED BY <2>1, <2>2 DEF Has
<1>v. PICK v \in Nat : v = latest'[proc[p].blk]
  BY <1>g, <1>t, VersionShape DEF UseDelayed
<1>l. /\ latest' \in [Block -> Nat]
      /\ \A k \in Block : k # buf[b].id => latest'[k] = latest[k]
      /\ \A c \in Bufs : c # b /\ InHash(c) => latest'[buf[c].id] = latest[buf[c].id]
  BY <1>g, <1>t, VersionShape DEF UseDelayed
<1>e. /\ lock' = [lock EXCEPT ![b] = Tail(@)] /\ proc' = [proc EXCEPT ![p] = Idle] /\ cpu' = NULL
      /\ dirty_cnt' = IF Has(b, "DIRTY") THEN dirty_cnt ELSE dirty_cnt + 1
      /\ buf' = [buf EXCEPT ![b] = Released([buf[b] EXCEPT !.flags = @ \cup {"DIRTY"}, !.done = TRUE, !.data = v])]
      /\ UNCHANGED <<block_lru, hash, disk, mounted, updlock>>
  BY <1>b, <1>v DEF UseDelayed, Release, SleepFree
<1>r. Changes(b, buf[b].flags \cup {"DIRTY"}, TRUE, v, "none")
  <2> DEFINE r == [buf[b] EXCEPT !.flags = @ \cup {"DIRTY"}, !.done = TRUE, !.data = v]
  <2>1. /\ r \in BufType /\ r.id = buf[b].id /\ r.flags = buf[b].flags \cup {"DIRTY"} /\ r.done = TRUE
        /\ r.data = v /\ r.op = "none"
    <3>1. [buf[b] EXCEPT !.flags = @ \cup {"DIRTY"}] \in BufType
      BY <1>i DEF BufType
    <3>2. [[buf[b] EXCEPT !.flags = @ \cup {"DIRTY"}] EXCEPT !.done = TRUE] \in BufType
      BY <3>1 DEF BufType
    <3>3. [[[buf[b] EXCEPT !.flags = @ \cup {"DIRTY"}] EXCEPT !.done = TRUE] EXCEPT !.data = v] \in BufType
      BY <3>2 DEF BufType
    <3>4. r = [[[buf[b] EXCEPT !.flags = @ \cup {"DIRTY"}] EXCEPT !.done = TRUE] EXCEPT !.data = v]
      BY <1>i DEF BufType
    <3> QED BY <1>i, <1>t, <3>3, <3>4 DEF BufType
  <2>2. buf' = [buf EXCEPT ![b] = Released(r)]
    BY <1>e
  <2> HIDE DEF r
  <2>3. /\ Released(r) \in BufType /\ Released(r).id = buf[b].id /\ Released(r).data = v
        /\ Released(r).flags = buf[b].flags \cup {"DIRTY"} /\ Released(r).op = "none" /\ Released(r).done = TRUE
    BY <1>t, <2>1, ReleasedShape
  <2> DEFINE s == Released(r)
  <2>4. s \in BufType /\ s.id = buf[b].id /\ buf' = [buf EXCEPT ![b] = s]
    BY <2>2, <2>3
  <2>5. s.flags = buf[b].flags \cup {"DIRTY"} /\ s.done = TRUE /\ s.data = v /\ s.op = "none"
    BY <2>3
  <2> HIDE DEF s
  <2>6. Changes(b, s.flags, s.done, s.data, s.op)
    BY <1>1, <2>4, SetBuffer
  <2> QED BY <2>5, <2>6
<1>c. /\ buf' \in [Bufs -> BufType] /\ (\A c \in Bufs : c # b => buf'[c] = buf[c]) /\ buf'[b].id = buf[b].id
      /\ buf'[b].flags = buf[b].flags \cup {"DIRTY"} /\ buf'[b].done /\ buf'[b].op = "none" /\ buf'[b].data = v
  BY <1>r DEF Changes
<1>q. Queues' /\ \A c \in Bufs : InHash(c)' <=> InHash(c)
  <2>1. \A c \in Bufs : buf'[c].id = buf[c].id
    BY <1>c
  <2> QED BY <1>e, <2>1, QueuesSame
<1>2. Returns(p)
  BY <1>1, <1>e, IdleType DEF Returns, Others
<1>4. LocalsOf(p)' /\ Others(p) /\ proc' \in [Proc -> ProcType]
  BY <1>g, <1>1, <1>2, Constants DEF LocalsOf, Returns, Idle, UserPc, UserGet, UpdatePc, Label
<1>5. \A c \in Bufs : Wants(p, c)' <=> Wants(p, c) /\ c # b
  BY <1>g, <1>b, <1>1, <1>2, Constants DEF Wants, Returns, Idle, Owning, Waiting, LocalsOf
<1>6. Held(p)'
  BY <1>2 DEF Held, Returns, Idle, Owning
<1>7. lock' \in [Bufs -> Seq(Proc)] /\ (\A c \in Bufs : c # b => lock'[c] = lock[c]) /\ Locks'
  <2>1. lock' \in [Bufs -> Seq(Proc)] /\ (\A c \in Bufs : c # b => lock'[c] = lock[c])
    BY <1>b, <1>e, FreeShape
  <2> QED BY <1>b, <1>e, <1>4, <1>5, <1>6, <2>1, LocksFreed
<1>8. HandsOf(p)'
  BY <1>2 DEF HandsOf, Returns, Idle
<1>9. BufferOf(b)' /\ Keeps(b)'
  <2>1. InHash(b)' /\ buf'[b].data = latest'[buf'[b].id]
    BY <1>c, <1>q, <1>t, <1>v
  <2> QED BY <1>c, <1>t, <2>1 DEF BufferOf, Keeps, Has
<1>10. Buffers'
  <2>1. \A c \in Bufs : c # b /\ buf[c].op # "none" /\ Moves(p, c) => Moves(p, c)'
    BY <1>g, <1>b, <1>1, Constants DEF Moves, LocalsOf
  <2>2. \A c \in Bufs : c # b => buf'[c] = buf[c] /\ (InHash(c)' <=> InHash(c))
    BY <1>c, <1>q
  <2>3. ASSUME NEW k \in Block
        PROVE  BlockOf(k)' \/ (latest'[k] = latest[k] /\ ~(Keeps(b) /\ buf[b].id = k))
    BY <1>c, <1>l, <1>9 DEF BlockOf
  <2> QED BY <1>e, <1>l, <1>4, <1>9, <2>1, <2>2, <2>3, BuffersMoved
<1>11. DirtyCountExact'
  <2>1. Has(b, "DIRTY")' /\ \A c \in Bufs : c # b => (Has(c, "DIRTY")' <=> Has(c, "DIRTY"))
    BY <1>c DEF Has
  <2> QED BY <1>e, <2>1, DirtyMore
<1>12. Founds'
  <2>1. FoundOf(p)' /\ proc'[p].pc \notin Taking
    BY <1>2 DEF FoundOf, Returns, Idle, Taking
  <2>2. \A c \in Bufs : buf'[c].id = buf[c].id
    BY <1>c
  <2> QED BY <1>e, <1>4, <2>1, <2>2, FoundsKept
<1>13. OtherFlush(p, b) /\ FlushOf(b) => FlushOf(b)'
  <2>1. InHash(b)' /\ "ERROR" \notin buf'[b].flags /\ buf'[b].done
    BY <1>c, <1>q, <1>t
  <2> QED BY <1>b, <1>e, <1>4, <2>1, NextWaits
<1>14. /\ proc'[p].pc \in UpdatePc => proc[p].pc \in UpdatePc
       /\ proc[p].pc # "writing" /\ proc'[p].pc \notin Taking
       /\ proc'[p].pc = "flush" => proc'[p].b = NULL
  BY <1>g, <1>2 DEF Returns, Idle, UpdatePc, Taking
<1>15. \A c \in Bufs : c # b => buf'[c] = buf[c] /\ (InHash(c)' <=> InHash(c))
  BY <1>c, <1>q
<1>16. lock[b] # <<>> /\ Head(lock[b]) = p /\ buf' \in [Bufs -> BufType]
  BY <1>b, <1>c
<1>17. /\ UNCHANGED <<mounted, updlock>> /\ cpu' \in Proc \cup {NULL} /\ disk' = disk
       /\ hash' \in [Buckets -> Seq(Bufs)] /\ block_lru' \in Seq(Bufs)
  BY <1>1, <1>e DEF TypeOK
<1> QED BY <1>4, <1>7, <1>8, <1>10, <1>11, <1>12, <1>13, <1>14, <1>15, <1>16, <1>17, <1>l, <1>q, MoveKeeps

\* A modified block is given to the driver.
LEMMA UseWriteKeeps ==
    ASSUME IInv, NEW p \in Proc, UseWrite(p)
    PROVE  IInv'
<1>1. LocalsOf(p) /\ Held(p) /\ HandsOf(p) /\ TypeOK /\ proc \in [Proc -> ProcType]
  BY Actor DEF IInv
<1>g. proc[p].pc = "use" /\ proc[p].blk \in Block
  BY <1>1 DEF UseWrite, At, LocalsOf, UserPc
<1>b. PICK b \in Bufs : b = proc[p].b /\ Head(lock[b]) = p /\ lock[b] # <<>> /\ Wants(p, b) /\ BufferOf(b)
  BY <1>g, Mine DEF Owning
<1>i. buf[b] \in BufType /\ buf \in [Bufs -> BufType]
  BY <1>1, Types
<1>t. buf[b].op = "none" /\ InHash(b) /\ buf[b].id = proc[p].blk /\ "ERROR" \notin buf[b].flags
  BY <1>1, <1>b, <1>g DEF HandsOf, UseWrite, Has
<1>v. PICK v \in Nat : v = latest'[proc[p].blk]
  BY <1>g, <1>t, VersionShape DEF UseWrite
<1>l. /\ latest' \in [Block -> Nat]
      /\ \A k \in Block : k # buf[b].id => latest'[k] = latest[k]
      /\ \A c \in Bufs : c # b /\ InHash(c) => latest'[buf[c].id] = latest[buf[c].id]
  BY <1>g, <1>t, VersionShape DEF UseWrite
<1>e. /\ lock' = lock /\ proc' = [proc EXCEPT ![p].pc = "writing"] /\ cpu' = NULL /\ CountWithout(b)
      /\ buf' = [buf EXCEPT ![b] = Written([buf[b] EXCEPT !.data = v])]
      /\ UNCHANGED <<block_lru, hash, disk, mounted, updlock>>
  BY <1>b, <1>v DEF UseWrite
<1>r. Changes(b, buf[b].flags \ {"READ", "ERROR", "DIRTY"}, FALSE, v, "write")
  <2> DEFINE r == [buf[b] EXCEPT !.data = v]
  <2>1. r \in BufType /\ r.id = buf[b].id /\ r.flags = buf[b].flags /\ r.data = v /\ r.op = "none"
    BY <1>i, <1>t DEF BufType
  <2>2. buf' = [buf EXCEPT ![b] = Written(r)]
    BY <1>e
  <2> HIDE DEF r
  <2>3. /\ Written(r) \in BufType /\ Written(r).id = buf[b].id /\ Written(r).data = v
        /\ Written(r).flags = buf[b].flags \ {"READ", "ERROR", "DIRTY"} /\ Written(r).done = FALSE
        /\ Written(r).op = "write"
    BY <2>1, WrittenShape
  <2> DEFINE s == Written(r)
  <2>4. s \in BufType /\ s.id = buf[b].id /\ buf' = [buf EXCEPT ![b] = s]
    BY <2>2, <2>3
  <2>5. s.flags = buf[b].flags \ {"READ", "ERROR", "DIRTY"} /\ s.done = FALSE /\ s.data = v /\ s.op = "write"
    BY <2>3
  <2> HIDE DEF s
  <2>6. Changes(b, s.flags, s.done, s.data, s.op)
    BY <1>1, <2>4, SetBuffer
  <2> QED BY <2>5, <2>6
<1>c. /\ buf' \in [Bufs -> BufType] /\ (\A c \in Bufs : c # b => buf'[c] = buf[c]) /\ buf'[b].id = buf[b].id
      /\ buf'[b].flags = buf[b].flags \ {"READ", "ERROR", "DIRTY"} /\ buf'[b].done = FALSE
      /\ buf'[b].op = "write" /\ buf'[b].data = v
  BY <1>r DEF Changes
<1>q. Queues' /\ \A c \in Bufs : InHash(c)' <=> InHash(c)
  <2>1. \A c \in Bufs : buf'[c].id = buf[c].id
    BY <1>c
  <2> QED BY <1>e, <2>1, QueuesSame
<1>2. Becomes(p, "writing", proc[p].for, proc[p].b, proc[p].main, proc[p].i)
  <2>1. [proc[p] EXCEPT !.pc = "writing"] \in ProcType
    BY <1>1 DEF ProcType, Label
  <2>2. proc' = [proc EXCEPT ![p] = [proc[p] EXCEPT !.pc = "writing"]] /\ proc[p] \in ProcType
    BY <1>1, <1>e
  <2> QED BY <1>1, <2>1, <2>2 DEF Becomes, Others, ProcType
<1>4. LocalsOf(p)' /\ Others(p) /\ proc' \in [Proc -> ProcType]
  BY <1>g, <1>1, <1>2, <1>e, Constants DEF LocalsOf, Becomes, UserPc, UserGet, UpdatePc, Label
<1>5. \A c \in Bufs : Wants(p, c)' <=> Wants(p, c)
  BY <1>g, <1>b, <1>1, <1>2 DEF Wants, Becomes, Owning, Waiting
<1>6. Held(p)'
  BY <1>g, <1>b, <1>e, <1>1, <1>2 DEF Held, Becomes, Owning
<1>7. lock' \in [Bufs -> Seq(Proc)] /\ (\A c \in Bufs : c # b => lock'[c] = lock[c]) /\ Locks'
  BY <1>1, <1>e, <1>4, <1>5, <1>6, LocksSame DEF TypeOK
<1>8. HandsOf(p)'
  BY <1>b, <1>c, <1>g, <1>q, <1>t, <1>2 DEF HandsOf, Becomes
<1>9. BufferOf(b)' /\ Keeps(b)'
  <2>1. InHash(b)' /\ buf'[b].data = latest'[buf'[b].id]
    BY <1>c, <1>q, <1>t, <1>v
  <2>2. Moves(p, b)'
    BY <1>b, <1>2 DEF Moves, Becomes
  <2> QED BY <1>c, <1>t, <2>1, <2>2 DEF BufferOf, Keeps, Has
<1>10. Buffers'
  <2>1. \A c \in Bufs : c # b /\ buf[c].op # "none" /\ Moves(p, c) => Moves(p, c)'
    BY <1>g, <1>b, <1>2 DEF Moves, Becomes
  <2>2. \A c \in Bufs : c # b => buf'[c] = buf[c] /\ (InHash(c)' <=> InHash(c))
    BY <1>c, <1>q
  <2>3. ASSUME NEW k \in Block
        PROVE  BlockOf(k)' \/ (latest'[k] = latest[k] /\ ~(Keeps(b) /\ buf[b].id = k))
    BY <1>c, <1>l, <1>9 DEF BlockOf
  <2> QED BY <1>e, <1>l, <1>4, <1>9, <2>1, <2>2, <2>3, BuffersMoved
<1>11. DirtyCountExact'
  <2>1. ~Has(b, "DIRTY")' /\ \A c \in Bufs : c # b => (Has(c, "DIRTY")' <=> Has(c, "DIRTY"))
    BY <1>c DEF Has
  <2> QED BY <1>e, <2>1, DirtyLess
<1>12. Founds'
  <2>1. FoundOf(p)' /\ proc'[p].pc \notin Taking
    BY <1>2 DEF FoundOf, Becomes, Taking
  <2>2. \A c \in Bufs : buf'[c].id = buf[c].id
    BY <1>c
  <2> QED BY <1>e, <1>4, <2>1, <2>2, FoundsKept
<1>13. OtherFlush(p, b) /\ FlushOf(b) => FlushOf(b)'
  <2>1. Head(lock'[b]) = p /\ proc'[p].pc = "writing" /\ proc'[p].b = b
    BY <1>b, <1>e, <1>2 DEF Becomes
  <2>2. InHash(b)' /\ ~Has(b, "ERROR")'
    BY <1>c, <1>q, <1>t DEF Has
  <2> QED BY <2>1, <2>2 DEF FlushOf
<1>14. /\ proc'[p].pc \in UpdatePc => proc[p].pc \in UpdatePc
       /\ proc[p].pc # "writing" /\ proc'[p].pc \notin Taking
       /\ proc'[p].pc = "flush" => proc'[p].b = NULL
  BY <1>g, <1>2 DEF Becomes, UpdatePc, Taking
<1>15. \A c \in Bufs : c # b => buf'[c] = buf[c] /\ (InHash(c)' <=> InHash(c))
  BY <1>c, <1>q
<1>16. lock[b] # <<>> /\ Head(lock[b]) = p /\ buf' \in [Bufs -> BufType]
  BY <1>b, <1>c
<1>17. /\ UNCHANGED <<mounted, updlock>> /\ cpu' \in Proc \cup {NULL} /\ disk' = disk
       /\ hash' \in [Buckets -> Seq(Bufs)] /\ block_lru' \in Seq(Bufs)
  BY <1>1, <1>e DEF TypeOK
<1> QED BY <1>4, <1>7, <1>8, <1>10, <1>11, <1>12, <1>13, <1>14, <1>15, <1>16, <1>17, <1>l, <1>q, MoveKeeps

-----------------------------------------------------------------------------
(* The loops over the table, and the processes that only sleep *)

\* block_flush looks at the next buffer.
LEMMA FlushVisitKeeps ==
    ASSUME IInv, NEW p \in Proc, FlushVisit(p)
    PROVE  IInv'
<1> DEFINE test == OnDev(Buf[proc[p].i], proc[p].dev) /\ Has(Buf[proc[p].i], "DIRTY")
<1>1. CASE test
  BY <1>1, VisitTakes DEF FlushVisit, Visit, At
<1>2. CASE ~test
  BY <1>2, SkipKeeps DEF FlushVisit, Visit
<1> QED BY <1>1, <1>2

\* block_flush looks at the next buffer, to wait for its transfer.
LEMMA WaitVisitKeeps ==
    ASSUME IInv, NEW p \in Proc, WaitVisit(p)
    PROVE  IInv'
<1> DEFINE test == OnDev(Buf[proc[p].i], proc[p].dev) /\ Has(Buf[proc[p].i], "ASYNC")
<1>1. CASE test
  BY <1>1, VisitTakes DEF WaitVisit, Visit, At
<1>2. CASE ~test
  BY <1>2, SkipKeeps DEF WaitVisit, Visit
<1> QED BY <1>1, <1>2

\* block_free looks at the next buffer.
LEMMA DiscardVisitKeeps ==
    ASSUME IInv, NEW p \in Proc, DiscardVisit(p)
    PROVE  IInv'
<1> DEFINE test == OnDev(Buf[proc[p].i], proc[p].dev)
<1>1. CASE test
  BY <1>1, VisitTakes DEF DiscardVisit, Visit, At
<1>2. CASE ~test
  BY <1>2, SkipKeeps DEF DiscardVisit, Visit
<1> QED BY <1>1, <1>2

\* A transfer in progress is waited for: only the processor is left.
LEMMA SleepKeeps ==
    ASSUME IInv, NEW p \in Proc,
           \/ Found(p) /\ InProgress(proc[p].b)
           \/ WaitDone(p) /\ InProgress(proc[p].b)
           \/ Discard(p) /\ InProgress(proc[p].b)
    PROVE  IInv'
<1>1. /\ UNCHANGED <<buf, lock, block_lru, hash, dirty_cnt, disk, latest, mounted, updlock, proc>>
      /\ cpu' = NULL
  <2>1. CASE Found(p) /\ InProgress(proc[p].b)
    BY <2>1 DEF Found
  <2>2. CASE WaitDone(p) /\ InProgress(proc[p].b)
    BY <2>2 DEF WaitDone, Sleep
  <2>3. CASE Discard(p) /\ InProgress(proc[p].b)
    BY <2>3 DEF Discard, Sleep
  <2> QED BY <2>1, <2>2, <2>3
<1> QED BY <1>1, CpuKeeps

-----------------------------------------------------------------------------
(* The invariant *)

\* The invariant holds at the start: no buffer has a block.
LEMMA InitInvariant == Init => IInv
<1> SUFFICES ASSUME Init PROVE IInv
  OBVIOUS
<1>1. /\ buf = [b \in Bufs |-> [id |-> NULL, flags |-> {}, done |-> FALSE, data |-> 0, op |-> "none"]]
      /\ lock = [b \in Bufs |-> <<>>] /\ block_lru = Buf /\ hash = [h \in Buckets |-> <<>>] /\ dirty_cnt = 0
      /\ disk = [blk \in Block |-> 0] /\ latest = [blk \in Block |-> 0]
      /\ mounted = Device /\ updlock = FALSE /\ cpu = NULL
  BY DEF Init
<1>2. \A b \in Bufs : /\ buf[b].id = NULL /\ buf[b].flags = {} /\ buf[b].op = "none" /\ lock[b] = <<>>
                      /\ ~InHash(b)
  BY <1>1 DEF InHash
<1>3. PICK who : proc = [p \in Proc |-> IF p \in who THEN Idle ELSE [Idle EXCEPT !.pc = "absent"]]
  BY DEF Init
<1>4. /\ proc \in [Proc -> ProcType]
      /\ \A p \in Proc : /\ proc[p].pc \in {"idle", "absent"} /\ proc[p].b = NULL /\ proc[p].main = NULL
                         /\ proc[p].op = "none"
  <2>1. Idle \in ProcType /\ [Idle EXCEPT !.pc = "absent"] \in ProcType
    BY IdleType DEF ProcType, Label
  <2>2. /\ [Idle EXCEPT !.pc = "absent"].pc = "absent" /\ [Idle EXCEPT !.pc = "absent"].b = NULL
        /\ [Idle EXCEPT !.pc = "absent"].main = NULL /\ [Idle EXCEPT !.pc = "absent"].op = "none"
        /\ Idle.pc = "idle" /\ Idle.b = NULL /\ Idle.main = NULL /\ Idle.op = "none"
    BY DEF Idle
  <2> HIDE DEF Idle
  <2> QED BY <1>3, <2>1, <2>2
<1>5. TypeOK
  <2>1. buf \in [Bufs -> BufType] /\ lock \in [Bufs -> Seq(Proc)] /\ hash \in [Buckets -> Seq(Bufs)]
    BY <1>1 DEF BufType
  <2>2. block_lru \in Seq(Bufs) /\ dirty_cnt \in 0 .. Len(Buf)
    BY <1>1, Constants
  <2> QED BY <1>1, <1>4, <2>1, <2>2 DEF TypeOK, BufType, ProcType
<1>6. Locals
  BY <1>1, <1>4, Constants DEF Locals, LocalsOf, UserPc, UserGet, UpdatePc
<1>7. Locks
  <2>1. ASSUME NEW b \in Bufs PROVE LockOf(b)
    <3>1. NoRepeat(lock[b]) /\ ToSet(lock[b]) = {}
      BY <1>2 DEF NoRepeat, ToSet
    <3> QED BY <1>4, <3>1, Constants DEF LockOf, Wants
  <2> QED BY <1>4, <2>1 DEF Locks, Held, Owning
<1>8. Queues
  <2>1. \A h \in Buckets : NoRepeat(hash[h]) /\ ToSet(hash[h]) = {}
    BY <1>1 DEF NoRepeat, ToSet
  <2>2. NoRepeat(block_lru) /\ ToSet(block_lru) = Bufs
    BY <1>1, Constants DEF Bufs
  <2> QED BY <1>2, <2>1, <2>2 DEF Queues
<1>9. Buffers
  BY <1>1, <1>2 DEF Buffers, BufferOf, BlockOf, Has
<1>10. Hands /\ Flushes /\ Founds
  BY <1>4 DEF Hands, HandsOf, Flushes, Founds, FoundOf
<1>11. DirtyCountExact
  <2>1. { b \in Bufs : Has(b, "DIRTY") } = {}
    BY <1>2 DEF Has
  <2> QED BY <1>1, <2>1, FS_EmptySet DEF DirtyCountExact
<1> QED BY <1>5, <1>6, <1>7, <1>8, <1>9, <1>10, <1>11 DEF IInv

\* Nothing changes.
LEMMA StutterKeeps == IInv /\ UNCHANGED vars => IInv'
<1> SUFFICES ASSUME IInv, UNCHANGED vars PROVE IInv'
  OBVIOUS
<1>1. cpu' \in Proc \cup {NULL}
  BY DEF vars, IInv, TypeOK
<1> QED BY <1>1, CpuKeeps DEF vars

\* The steps of block_get.
LEMMA GetKeeps ==
    ASSUME IInv, NEW p \in Proc, Get(p)
    PROVE  IInv'
<1>1. CASE Search(p)
  BY <1>1, SearchNoneKeeps, SearchFoundKeeps
<1>2. CASE FoundOther(p)
  BY <1>2, FoundOtherKeeps
<1>3. CASE Found(p)
  BY <1>3, FoundKeeps, SleepKeeps
<1>4. CASE ScanClean(p)
  BY <1>4, ScanCleanKeeps
<1>5. CASE ScanDirty(p)
  BY <1>5, ScanDirtyKeeps
<1>6. CASE ScanBusy(p)
  BY <1>6, ScanBusyKeeps
<1>7. CASE ScanWritten(p)
  BY <1>7, ScanWrittenKeeps
<1>8. CASE ScanDone(p)
  BY <1>8, ScanDoneKeeps
<1>9. CASE Reuse(p)
  BY <1>9, ReuseKeeps
<1>10. CASE PutEndLru(p)
  BY <1>10, PutEndLruKeeps
<1>11. CASE KeepFree(p)
  BY <1>11, KeepFreeKeeps
<1> QED BY <1>1, <1>2, <1>3, <1>4, <1>5, <1>6, <1>7, <1>8, <1>9, <1>10, <1>11 DEF Get

\* The steps of bread and breada.
LEMMA ReadKeeps ==
    ASSUME IInv, NEW p \in Proc, Read(p)
    PROVE  IInv'
<1>1. CASE Fill(p)
  BY <1>1, FillHasKeeps, FillReadKeeps
<1>2. CASE ReadDone(p)
  BY <1>2, ReadDoneKeeps
<1>3. CASE Overwrite(p)
  BY <1>3, OverwriteKeeps
<1>4. CASE AheadMain(p)
  BY <1>4, AheadMainKeeps
<1>5. CASE FillMain(p)
  BY <1>5, FillMainKeeps, FillMainHasKeeps
<1>6. CASE AheadNext(p)
  BY <1>6, AheadNextKeeps
<1>7. CASE FillAhead(p)
  BY <1>7, FillAheadKeeps, FillPutKeeps
<1>8. CASE AheadEnd(p)
  BY <1>8, AheadBreadKeeps, AheadWaitKeeps
<1> QED BY <1>1, <1>2, <1>3, <1>4, <1>5, <1>6, <1>7, <1>8 DEF Read

\* The steps of bwrite, bdwrite and block_put.
LEMMA UseKeeps ==
    ASSUME IInv, NEW p \in Proc, Use(p), NoErrorKept
    PROVE  IInv'
<1>1. UseDelayed(p) => ~Has(proc[p].b, "ERROR")
  BY DEF NoErrorKept
<1> QED BY <1>1, UsePutKeeps, UseDelayedKeeps, UseWriteKeeps, WriteDoneKeeps DEF Use

\* The steps of update and umount.
LEMMA UpdateKeeps ==
    ASSUME IInv, NEW p \in Proc, Update(p)
    PROVE  IInv'
<1>1. CASE UpdateInodes(p) \/ UpdateEnd(p)
  BY <1>1, UpdateInodesKeeps, UpdateEndKeeps
<1>2. CASE FlushVisit(p) \/ FlushWrite(p)
  BY <1>2, FlushVisitKeeps, FlushWriteKeeps
<1>3. CASE WaitVisit(p) \/ WaitDone(p)
  BY <1>3, WaitVisitKeeps, WaitDoneKeeps, SleepKeeps
<1>4. CASE UmountBusy(p) \/ Umount(p) \/ Mount(p)
  BY <1>4, UmountBusyKeeps, UmountKeeps, MountKeeps
<1>5. CASE DiscardVisit(p) \/ Discard(p)
  BY <1>5, DiscardVisitKeeps, DiscardKeeps, SleepKeeps
<1> QED BY <1>1, <1>2, <1>3, <1>4, <1>5 DEF Update

\* Every step keeps the invariant.
LEMMA NextKeeps == NoErrorKept /\ IInv /\ [Next]_vars => IInv'
<1> SUFFICES ASSUME NoErrorKept, IInv, [Next]_vars PROVE IInv'
  OBVIOUS
<1>1. CASE \E p \in Proc : Get(p) \/ Read(p) \/ Use(p) \/ Update(p) \/ UpdateBegin(p)
  BY <1>1, GetKeeps, ReadKeeps, UseKeeps, UpdateKeeps, UpdateBeginKeeps
<1>2. CASE \E w \in Work : Begin(w[1], w[2], w[3], w[4])
  BY <1>2, BeginKeeps
<1>3. CASE \E b \in Bufs : Driver(b) \/ BlockUpdate(b)
  BY <1>3, ReadEndsKeeps, ReadFailsKeeps, WriteEndsKeeps, BlockUpdateKeeps DEF Driver
<1>4. CASE UNCHANGED vars
  BY <1>4, StutterKeeps
<1> QED BY <1>1, <1>2, <1>3, <1>4 DEF Next

-----------------------------------------------------------------------------
(* Blocks written whole that are never read with error *)

\* What a user does is of Work.
SafeWork == \A p \in Proc : proc[p].op = "overwrite" => proc[p].blk \notin FailBlock

\* The work of a process: it stays, or ends.
SameWork(p) ==
    \/ proc'[p].op = proc[p].op /\ proc'[p].blk = proc[p].blk /\ proc'[p].next = proc[p].next
    \/ proc'[p] = Idle

\* What a step makes of the locals of a process.
LEMMA FieldsWork ==
    ASSUME IInv, NEW p \in Proc, NEW q \in Proc, NEW r,
           proc' = [proc EXCEPT ![p] = r],
           (r.op = proc[p].op /\ r.blk = proc[p].blk /\ r.next = proc[p].next) \/ r = Idle
    PROVE  SameWork(q)
<1>1. proc \in [Proc -> ProcType]
  BY Types DEF IInv
<1>2. proc'[q] = IF q = p THEN r ELSE proc[q]
  BY <1>1
<1> QED BY <1>2 DEF SameWork

\* What a process does is changed only by Begin.
LEMMA WorkSame ==
    ASSUME IInv, NEW p \in Proc, Get(p) \/ Read(p) \/ Use(p) \/ Update(p) \/ UpdateBegin(p),
           NEW q \in Proc
    PROVE  SameWork(q)
<1>1. proc \in [Proc -> ProcType]
  BY Types DEF IInv
<1>2. CASE Get(p)
  <2>1. CASE Search(p)
    BY <1>1, <2>1 DEF Search, SameWork, ProcType
  <2>2. CASE FoundOther(p)
    <3> DEFINE r == [proc[p] EXCEPT !.pc = "get", !.b = NULL]
    <3>1. proc' = [proc EXCEPT ![p] = r]
      BY <2>2, Zenon DEF FoundOther
    <3>2. r.op = proc[p].op /\ r.blk = proc[p].blk /\ r.next = proc[p].next
      BY <1>1 DEF ProcType
    <3> HIDE DEF r
    <3> QED BY <3>1, <3>2, FieldsWork
  <2>3. CASE Found(p)
    <3>1. CASE UNCHANGED proc
      BY <3>1 DEF SameWork
    <3>2. CASE proc' = [proc EXCEPT ![p].pc = "got"]
      BY <1>1, <3>2 DEF SameWork, ProcType
    <3> QED BY <2>3, <3>1, <3>2, Zenon DEF Found
  <2>4. CASE ScanClean(p) \/ ScanDirty(p) \/ ScanBusy(p)
    <3> DEFINE Scanned(x) == [proc[p] EXCEPT !.pc = x, !.b = Candidate(p)]
    <3>1. \E x : proc' = [proc EXCEPT ![p] = Scanned(x)]
      BY <2>4, Zenon DEF ScanClean, ScanDirty, ScanBusy
    <3>2. \A x : Scanned(x).op = proc[p].op /\ Scanned(x).blk = proc[p].blk /\ Scanned(x).next = proc[p].next
      BY <1>1 DEF ProcType
    <3> HIDE DEF Scanned
    <3> QED BY <3>1, <3>2, FieldsWork
  <2>5. CASE ScanWritten(p)
    <3> DEFINE r == [proc[p] EXCEPT !.pc = "lruagain", !.b = NULL]
    <3>1. proc' = [proc EXCEPT ![p] = r]
      BY <2>5, Zenon DEF ScanWritten
    <3>2. r.op = proc[p].op /\ r.blk = proc[p].blk /\ r.next = proc[p].next
      BY <1>1 DEF ProcType
    <3> HIDE DEF r
    <3> QED BY <3>1, <3>2, FieldsWork
  <2>8. CASE ScanDone(p)
    <3> DEFINE r == [proc[p] EXCEPT !.pc = "reuse"]
    <3>1. proc' = [proc EXCEPT ![p] = r]
      BY <2>8, Zenon DEF ScanDone
    <3>2. r.op = proc[p].op /\ r.blk = proc[p].blk /\ r.next = proc[p].next
      BY <1>1 DEF ProcType
    <3> HIDE DEF r
    <3> QED BY <3>1, <3>2, FieldsWork
  <2>6. CASE Reuse(p)
    <3>1. CASE proc' = [proc EXCEPT ![p].pc = "get", ![p].b = NULL]
      BY <1>1, <3>1 DEF SameWork, ProcType
    <3>2. CASE proc' = [proc EXCEPT ![p].pc = "got"]
      BY <1>1, <3>2 DEF SameWork, ProcType
    <3> QED BY <2>6, <3>1, <3>2, Zenon DEF Reuse
  <2>7. CASE PutEndLru(p)
    BY <1>1, <2>7 DEF PutEndLru, SameWork, ProcType
  <2>9. CASE KeepFree(p)
    BY <2>9 DEF KeepFree, SameWork
  <2> QED BY <1>2, <2>1, <2>2, <2>3, <2>4, <2>5, <2>6, <2>7, <2>8, <2>9 DEF Get
<1>3. CASE Read(p)
  <2> DEFINE Step(r) == /\ proc' = [proc EXCEPT ![p] = r]
                    /\ r.op = proc[p].op /\ r.blk = proc[p].blk /\ r.next = proc[p].next
  <2>0. ASSUME NEW r, Step(r) PROVE SameWork(q)
    BY <2>0, FieldsWork
  <2>1. CASE Fill(p)
    BY <1>1, <2>1 DEF Fill, SameWork, ProcType
  <2>2. CASE ReadDone(p)
    BY <1>1, <2>2 DEF ReadDone, SameWork, ProcType
  <2>3. CASE Overwrite(p)
    BY <1>1, <2>3 DEF Overwrite, SameWork, ProcType
  <2>4. CASE AheadMain(p)
    <3> DEFINE r == [proc[p] EXCEPT !.pc = IF BlockInCore(proc[p].blk) THEN "breada2" ELSE "get",
                                    !.for = "main"]
    <3>1. proc' = [proc EXCEPT ![p] = r]
      BY <2>4, Zenon DEF AheadMain
    <3>2. r.op = proc[p].op /\ r.blk = proc[p].blk /\ r.next = proc[p].next
      BY <1>1 DEF ProcType
    <3> HIDE DEF r
    <3> QED BY <2>0, <3>1, <3>2
  <2>5. CASE FillMain(p)
    <3> DEFINE r == [proc[p] EXCEPT !.pc = "breada2", !.main = proc[p].b]
    <3>1. proc' = [proc EXCEPT ![p] = r]
      BY <2>5, Zenon DEF FillMain
    <3>2. r.op = proc[p].op /\ r.blk = proc[p].blk /\ r.next = proc[p].next
      BY <1>1 DEF ProcType
    <3> HIDE DEF r
    <3> QED BY <2>0, <3>1, <3>2
  <2>6. CASE AheadNext(p)
    <3> DEFINE r == [proc[p] EXCEPT !.for = "ahead",
                        !.pc = IF proc[p].next = proc[p].blk \/ BlockInCore(proc[p].next)
                               THEN "breada3" ELSE "get"]
    <3>1. proc' = [proc EXCEPT ![p] = r]
      BY <2>6, Zenon DEF AheadNext
    <3>2. r.op = proc[p].op /\ r.blk = proc[p].blk /\ r.next = proc[p].next
      BY <1>1 DEF ProcType
    <3> HIDE DEF r
    <3> QED BY <2>0, <3>1, <3>2
  <2>7. CASE FillAhead(p)
    <3> DEFINE r == [proc[p] EXCEPT !.pc = "breada3"]
    <3>1. proc' = [proc EXCEPT ![p] = r]
      BY <2>7, Zenon DEF FillAhead
    <3>2. r.op = proc[p].op /\ r.blk = proc[p].blk /\ r.next = proc[p].next
      BY <1>1 DEF ProcType
    <3> HIDE DEF r
    <3> QED BY <2>0, <3>1, <3>2
  <2>8. CASE AheadEnd(p)
    <3>1. CASE proc' = [proc EXCEPT ![p].pc = "get", ![p].for = "read"]
      <4> DEFINE r == [proc[p] EXCEPT !.pc = "get", !.for = "read"]
      <4>1. proc' = [proc EXCEPT ![p] = r]
        BY <3>1, Zenon
      <4>2. r.op = proc[p].op /\ r.blk = proc[p].blk /\ r.next = proc[p].next
        BY <1>1 DEF ProcType
      <4> HIDE DEF r
      <4> QED BY <2>0, <4>1, <4>2
    <3>2. CASE proc' = [proc EXCEPT ![p].pc = "reading", ![p].b = proc[p].main]
      <4> DEFINE r == [proc[p] EXCEPT !.pc = "reading", !.b = proc[p].main]
      <4>1. proc' = [proc EXCEPT ![p] = r]
        BY <3>2, Zenon
      <4>2. r.op = proc[p].op /\ r.blk = proc[p].blk /\ r.next = proc[p].next
        BY <1>1 DEF ProcType
      <4> HIDE DEF r
      <4> QED BY <2>0, <4>1, <4>2
    <3> QED BY <2>8, <3>1, <3>2, Zenon DEF AheadEnd
  <2> QED BY <1>3, <2>1, <2>2, <2>3, <2>4, <2>5, <2>6, <2>7, <2>8 DEF Read
<1>4. CASE Use(p)
  <2>1. proc' = [proc EXCEPT ![p] = Idle] => SameWork(q)
    BY <1>1 DEF SameWork, Idle, ProcType
  <2>2. proc' = [proc EXCEPT ![p].pc = "writing"] => SameWork(q)
    BY <1>1 DEF SameWork, ProcType
  <2> QED BY <1>4, <2>1, <2>2, Zenon DEF Use, UsePut, UseDelayed, UseWrite, WriteDone, Release
<1>5. CASE Update(p)
  <2>1. ASSUME NEW then, Advance(p, then) PROVE SameWork(q)
    <3>1. CASE proc' = [proc EXCEPT ![p].pc = then, ![p].i = 1, ![p].b = NULL]
      BY <1>1, <3>1 DEF SameWork, ProcType
    <3>2. CASE proc' = [proc EXCEPT ![p].i = proc[p].i + 1, ![p].b = NULL]
      BY <1>1, <3>2 DEF SameWork, ProcType
    <3> QED BY <2>1, <3>1, <3>2 DEF Advance
  <2>2. CASE UpdateInodes(p) \/ UpdateEnd(p)
    <3> DEFINE Coded(x) == [proc[p] EXCEPT !.pc = x]
    <3>1. \E x : proc' = [proc EXCEPT ![p] = Coded(x)]
      BY <2>2, Zenon DEF UpdateInodes, UpdateEnd
    <3>2. \A x : Coded(x).op = proc[p].op /\ Coded(x).blk = proc[p].blk /\ Coded(x).next = proc[p].next
      BY <1>1 DEF ProcType
    <3> HIDE DEF Coded
    <3> QED BY <3>1, <3>2, FieldsWork
  <2>3. ASSUME NEW here, NEW then, NEW test, Visit(p, here, then, test) PROVE SameWork(q)
    <3>1. Advance(p, then) \/ proc' = [proc EXCEPT ![p].b = Buf[proc[p].i]]
      BY <2>3 DEF Visit
    <3>2. CASE proc' = [proc EXCEPT ![p].b = Buf[proc[p].i]]
      BY <1>1, <3>2 DEF SameWork, ProcType
    <3> QED BY <2>1, <3>1, <3>2
  <2>4. CASE FlushVisit(p) \/ WaitVisit(p) \/ DiscardVisit(p)
    BY <2>3, <2>4 DEF FlushVisit, WaitVisit, DiscardVisit
  <2>5. Sleep(p) => SameWork(q)
    BY DEF Sleep, SameWork
  <2>6. FlushWrite(p) => SameWork(q)
    BY <2>1 DEF FlushWrite
  <2>9. WaitDone(p) => SameWork(q)
    BY <2>1, <2>5, Zenon DEF WaitDone
  <2>10. Discard(p) => SameWork(q)
    BY <2>1, <2>5, Zenon DEF Discard
  <2>7. CASE UmountBusy(p) \/ Mount(p)
    BY <1>1, <2>7 DEF UmountBusy, Mount, Idle, SameWork, ProcType
  <2>8. CASE Umount(p)
    BY <1>1, <2>8 DEF Umount, SameWork, ProcType
  <2> QED BY <1>5, <2>2, <2>4, <2>6, <2>7, <2>8, <2>9, <2>10 DEF Update
<1>6. CASE UpdateBegin(p)
  <2> DEFINE pc == IF ~updlock THEN "inodes" ELSE IF p \in Umounter THEN "umount" ELSE "idle"
             r(dev) == [proc[p] EXCEPT !.dev = dev, !.pc = pc]
  <2>1. PICK dev : proc' = [proc EXCEPT ![p] = r(dev)]
    <3>1. PICK dev \in IF p \in Umounter THEN mounted \ RootDev ELSE {NULL} :
             proc' = [proc EXCEPT ![p].dev = dev,
                 ![p].pc = IF ~updlock THEN "inodes" ELSE IF p \in Umounter THEN "umount" ELSE "idle"]
      BY <1>6 DEF UpdateBegin
    <3> QED BY <3>1
  <2> HIDE DEF pc
  <2>2. r(dev).op = proc[p].op /\ r(dev).blk = proc[p].blk /\ r(dev).next = proc[p].next
    BY <1>1 DEF ProcType
  <2> HIDE DEF r
  <2> QED BY <2>1, <2>2, FieldsWork
<1> QED BY <1>2, <1>3, <1>4, <1>5, <1>6

\* Begin takes its operation and its block from Work.
LEMMA SafeWorkKept ==
    ASSUME NoOverwriteFail, IInv, SafeWork, [Next]_vars
    PROVE  SafeWork'
<1>1. SUFFICES ASSUME NEW q \in Proc, proc'[q].op = "overwrite" PROVE proc'[q].blk \notin FailBlock
  BY DEF SafeWork
<1>2. CASE SameWork(q)
  BY <1>1, <1>2 DEF SafeWork, SameWork, Idle
<1>3. CASE \E p \in Proc : Get(p) \/ Read(p) \/ Use(p) \/ Update(p) \/ UpdateBegin(p)
  BY <1>2, <1>3, WorkSame
<1>4. ASSUME NEW w \in Work, Begin(w[1], w[2], w[3], w[4]) PROVE proc'[q].blk \notin FailBlock
  <2>1. proc \in [Proc -> ProcType]
    BY Types DEF IInv
  <2>2. CASE q = w[1]
    <3>1. proc'[q].op = w[2] /\ proc'[q].blk = w[3]
      BY <1>4, <2>1, <2>2 DEF Begin, Idle
    <3> QED BY <1>1, <3>1 DEF NoOverwriteFail
  <2>3. CASE q # w[1]
    BY <1>2, <1>4, <2>1, <2>3 DEF Begin, SameWork
  <2> QED BY <2>2, <2>3
<1>5. CASE \E b \in Bufs : Driver(b) \/ BlockUpdate(b)
  BY <1>2, <1>5 DEF Driver, ReadEnds, ReadFails, WriteEnds, BlockUpdate, SameWork
<1>6. CASE UNCHANGED vars
  BY <1>2, <1>6 DEF vars, SameWork
<1> QED BY <1>3, <1>4, <1>5, <1>6 DEF Next

\* Whoever writes a block whole finds no error, if it is of a block that is always read.
LEMMA NoErrorFound == IInv /\ SafeWork => NoErrorKept
<1>1. SUFFICES ASSUME IInv, SafeWork, NEW p \in Proc, UseDelayed(p), Has(proc[p].b, "ERROR")
               PROVE  FALSE
  BY DEF NoErrorKept
<1>2. proc[p].pc = "use" /\ proc[p].op = "overwrite"
  BY <1>1 DEF UseDelayed, At
<1>3. proc[p].b \in Bufs
  BY <1>1, <1>2, Alone DEF Owning
<1>4. buf[proc[p].b].id = proc[p].blk
  BY <1>1, <1>2 DEF IInv, Hands, HandsOf
<1>5. buf[proc[p].b].id \in FailBlock
  BY <1>1, <1>3 DEF IInv, Buffers, BufferOf
<1> QED BY <1>1, <1>2, <1>4, <1>5 DEF SafeWork

-----------------------------------------------------------------------------
(* Theorems *)

\* The inductive invariant holds in every state.
THEOREM IInvAlways == Spec /\ [][NoErrorKept]_vars => []IInv
<1>1. Init => IInv
  BY InitInvariant
<1>2. IInv /\ [Next]_vars /\ [NoErrorKept]_vars => IInv'
  BY NextKeeps, StutterKeeps
<1> QED BY <1>1, <1>2, PTL DEF Spec

\* The types.
THEOREM TypesCorrect == Spec /\ [][NoErrorKept]_vars => []TypeOK
<1>1. IInv => TypeOK
  BY DEF IInv
<1> QED BY <1>1, IInvAlways, PTL

\* bread.c: whoever got a block without error has, locked, the only buffer of the block, with what was
\* last written to it.
THEOREM ReadsCorrect == Spec /\ [][NoErrorKept]_vars => []ReadsLatest
<1> QED BY ReadsFollow, IInvAlways, PTL

\* dcache.c: the hash queues hold one buffer of a block, in the queue of its block, and the list of
\* free buffers holds every buffer once.
THEOREM QueuesCorrect == Spec /\ [][NoErrorKept]_vars => []HashExact
<1> QED BY HashFollows, IInvAlways, PTL

\* dcache.c: mon.y_block_dirty_cnt counts the dirty buffers.
THEOREM CountCorrect == Spec /\ [][NoErrorKept]_vars => []DirtyCountExact
<1>1. IInv => DirtyCountExact
  BY DEF IInv
<1> QED BY <1>1, IInvAlways, PTL

\* bread.c, dcache.c: a buffer is given to the driver once at a time, and nobody uses it meanwhile.
THEOREM TransfersCorrect == Spec /\ [][NoErrorKept]_vars => []OneTransfer
<1> QED BY TransferFollows, IInvAlways, PTL

\* bread.c: what was written is on the disk, going there, or in a dirty buffer.
THEOREM WritesCorrect == Spec /\ [][NoErrorKept]_vars => []NothingLost
<1> QED BY NothingLostFollows, IInvAlways, PTL

\* bread.c: no block is written whole over what a failed read left in its buffer, when none of the
\* blocks that are written whole may be read with error.
THEOREM OverwritesClean == NoOverwriteFail => (Spec => [][NoErrorKept]_vars)
<1> SUFFICES ASSUME NoOverwriteFail PROVE Spec => [][NoErrorKept]_vars
  OBVIOUS
<1>1. Init => IInv /\ SafeWork
  <2>1. Init => SafeWork
    BY DEF Init, SafeWork, Idle
  <2> QED BY <2>1, InitInvariant
<1>2. IInv /\ SafeWork /\ [Next]_vars => IInv' /\ SafeWork'
  BY NoErrorFound, NextKeeps, SafeWorkKept
<1>3. IInv /\ SafeWork /\ [Next]_vars => [NoErrorKept]_vars
  BY NoErrorFound
<1> QED BY <1>1, <1>2, <1>3, PTL DEF Spec
=============================================================================
