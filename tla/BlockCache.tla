----------------------------- MODULE BlockCache -----------------------------
(***************************************************************************)
(* The cache of disk blocks (bio/dcache.c, bio/bread.c), the update of the *)
(* disk (sys/sysfio.c) and the umount that discards a device's blocks      *)
(* (sys/systree.c).  Processes run one at a time and are not preempted in  *)
(* the kernel (the default, sys/sysctl.c): each action is a stretch of     *)
(* code between two points where the process may sleep or look at shared   *)
(* lists, and "cpu" keeps the processor until it does sleep.  Drivers      *)
(* answer by interrupts, at any moment and in any order.                   *)
(*                                                                         *)
(* A sleep lock is the sequence of its owner and waiters, as promised by   *)
(* module Handoff.  The contents of a block are a version number.          *)
(***************************************************************************)
EXTENDS Integers, Sequences, FiniteSets, SequencesExt

CONSTANTS
    User,           \* processes that read and write blocks
    Umounter,       \* processes in umount
    Swapper,        \* the processes that call update (NODEV, 0)
    Buf,            \* the buffers, in the order of the table
    Block,
    Dev(_),         \* the device of a block
    RootDev,        \* the devices that umount refuses: the root and the one of the pipes
    Bucket(_),      \* its hash queue
    Work,           \* what users do: <<user, operation, block, next block of its device to read ahead or NULL>>
    Company,        \* sets of processes: the ones that exist together
    FailBlock,      \* blocks that may be read with error
    MINFREE,        \* buffers kept clean (8 in the code)
    MaxWrites,      \* bound: versions of a block
    NULL

Proc == User \cup Umounter \cup Swapper
Device == { Dev(blk) : blk \in Block }

ASSUME CacheAssumption ==
    /\ NULL \notin Proc \cup ToSet(Buf) \cup Block \cup Device
    /\ User \cap (Umounter \cup Swapper) = {} /\ Umounter \cap Swapper = {}
    /\ Buf \in Seq(ToSet(Buf)) /\ Buf # <<>> /\ IsInjective(Buf)
    /\ Work \subseteq User \X {"read", "modify", "overwrite", "write"} \X Block \X (Block \cup {NULL})
    /\ \A w \in Work : w[4] # NULL => Dev(w[4]) = Dev(w[3])
    /\ Company \subseteq SUBSET Proc
    /\ FailBlock \subseteq Block
    /\ RootDev \subseteq Device
    /\ MINFREE \in Nat /\ MaxWrites \in Nat

VARIABLES
    buf,        \* the BHEADs: id (device and block), flags, done, data, op
    lock,       \* b_lock
    block_lru,
    hash,
    dirty_cnt,  \* mon.y_block_dirty_cnt
    disk,
    latest,     \* history: the version of each block that readers must see
    mounted,
    updlock,
    cpu,        \* the process that holds the processor, or NULL
    proc        \* the processes: pc and locals

vars == <<buf, lock, block_lru, hash, dirty_cnt, disk, latest, mounted, updlock, cpu, proc>>

Bufs == ToSet(Buf)
Buckets == { Bucket(blk) : blk \in Block }

Idle == [pc |-> "idle", for |-> "none", op |-> "none", blk |-> NULL, next |-> NULL,
         b |-> NULL, main |-> NULL, dev |-> NULL, i |-> 1]

-----------------------------------------------------------------------------
(* Locks, lists and flags *)

At(p, pc) == proc[p].pc = pc /\ cpu \in {p, NULL}

Has(b, flag) == flag \in buf[b].flags

InProgress(b) == Has(b, "ASYNC") /\ ~buf[b].done

Owns(p) == Head(lock[proc[p].b]) = p

SleepLock(p, b) ==
    /\ lock' = [lock EXCEPT ![b] = Append(@, p)]
    /\ cpu' = IF lock[b] = <<>> THEN p ELSE NULL

SleepTest(p, b) == lock[b] = <<>> /\ lock' = [lock EXCEPT ![b] = <<p>>]

SleepFree(b) == lock' = [lock EXCEPT ![b] = Tail(@)]

Without(s, b) == RemoveFirst(s, b)

Hashed(blk) == { b \in ToSet(hash[Bucket(blk)]) : buf[b].id = blk }

\* The first test of the queue that fails ends the search with "in core".
BlockInCore(blk) == \E b \in ToSet(hash[Bucket(blk)]) : buf[b].id # blk

Started(old, kind) == IF old = "none" THEN kind ELSE "twice"

\* The block as bwrite leaves it to the driver, and the count of dirty ones.
Written(r) == [r EXCEPT !.flags = @ \ {"READ", "ERROR", "DIRTY"}, !.done = FALSE,
                        !.op = Started(@, "write")]

\* Mutant: a buffer written is still counted.
CountKept(b) == dirty_cnt' = dirty_cnt

\* Mutant: the flag is not tested.
CountLess(b) == dirty_cnt' = dirty_cnt - 1

CountWithout(b) == dirty_cnt' = IF Has(b, "DIRTY") THEN dirty_cnt - 1 ELSE dirty_cnt

\* block_put: what a failed read brought is not kept.
Released(r) == [r EXCEPT !.done = @ /\ ~({"ERROR", "READ"} \subseteq r.flags /\ "ASYNC" \notin r.flags)]

\* bwrite with B_ASYNC: the lock is left at once, the transfer goes on.
WriteAsync(b) ==
    /\ buf' = [buf EXCEPT ![b] = Released(Written([buf[b] EXCEPT !.flags = @ \cup {"ASYNC"}]))]
    /\ CountWithout(b)

-----------------------------------------------------------------------------
(* block_get *)

Target(p) == IF proc[p].for = "ahead" THEN proc[p].next ELSE proc[p].blk

Search(p) ==
    /\ At(p, "get")
    /\ IF Hashed(Target(p)) # {}
       THEN \E b \in Hashed(Target(p)) :
               /\ SleepLock(p, b)
               /\ proc' = [proc EXCEPT ![p].pc = "found", ![p].b = b]
       ELSE /\ proc' = [proc EXCEPT ![p].pc = "lru"]
            /\ cpu' = p
            /\ UNCHANGED lock
    /\ UNCHANGED <<buf, block_lru, hash, dirty_cnt, disk, latest, mounted, updlock>>

\* Locked: a false alarm when the buffer changed identity meanwhile.
FoundOther(p) ==
    /\ At(p, "found") /\ Owns(p)
    /\ buf[proc[p].b].id # Target(p)
    /\ SleepFree(proc[p].b)
    /\ proc' = [proc EXCEPT ![p].pc = "get", ![p].b = NULL]
    /\ cpu' = p
    /\ UNCHANGED <<buf, block_lru, hash, dirty_cnt, disk, latest, mounted, updlock>>

\* Mutant: the identity is not tested again.
FoundAny(p) ==
    LET b == proc[p].b IN
    /\ At(p, "found") /\ Owns(p)
    /\ Has(b, "ASYNC") => buf[b].done
    /\ buf' = [buf EXCEPT ![b].flags = @ \ {"ASYNC"}]
    /\ proc' = [proc EXCEPT ![p].pc = "got"]
    /\ cpu' = p
    /\ UNCHANGED <<lock, block_lru, hash, dirty_cnt, disk, latest, mounted, updlock>>

\* Mutant: a transfer in progress is not waited for.
FoundBusy(p) ==
    LET b == proc[p].b IN
    /\ At(p, "found") /\ Owns(p)
    /\ buf[b].id = Target(p)
    /\ proc' = [proc EXCEPT ![p].pc = "got"]
    /\ cpu' = p
    /\ UNCHANGED <<buf, lock, block_lru, hash, dirty_cnt, disk, latest, mounted, updlock>>

\* A transfer in progress is waited for.
Found(p) ==
    LET b == proc[p].b IN
    /\ At(p, "found") /\ Owns(p)
    /\ buf[b].id = Target(p)
    /\ IF InProgress(b)
       THEN /\ cpu = p /\ cpu' = NULL
            /\ UNCHANGED <<buf, proc>>
       ELSE /\ buf' = [buf EXCEPT ![b].flags = @ \ {"ASYNC"}]
            /\ proc' = [proc EXCEPT ![p].pc = "got"]
            /\ cpu' = p
    /\ UNCHANGED <<lock, block_lru, hash, dirty_cnt, disk, latest, mounted, updlock>>

Unlocked(b) == lock[b] = <<>>

Clean(b) == Unlocked(b) /\ ~Has(b, "DIRTY") /\ ~InProgress(b)

\* The scan of the LRU list stops at a clean buffer in the first turn, and at any
\* unlocked one in the next turns.  With every buffer locked the code spins here,
\* and the only processor with it.
Candidate(p) ==
    LET clean == SelectInSeq(block_lru, Clean)
    IN  IF proc[p].pc = "lru" /\ clean # 0 THEN block_lru[clean]
        ELSE block_lru[SelectInSeq(block_lru, Unlocked)]

Scanning(p) == (At(p, "lru") \/ At(p, "lruagain")) /\ \E b \in Bufs : Unlocked(b)

\* Mutant: in the next turns a dirty buffer is taken like the others.
ScanCleanOrDirty(p) ==
    LET b == Candidate(p) IN
    /\ Scanning(p)
    /\ ~InProgress(b)
    /\ SleepTest(p, b)
    /\ buf' = [buf EXCEPT ![b].flags = @ \ {"ASYNC"}]
    /\ proc' = [proc EXCEPT ![p].pc = "reuse", ![p].b = b]
    /\ cpu' = p
    /\ UNCHANGED <<block_lru, hash, dirty_cnt, disk, latest, mounted, updlock>>

ScanClean(p) ==
    LET b == Candidate(p) IN
    /\ Scanning(p)
    /\ ~Has(b, "DIRTY") /\ ~InProgress(b)
    /\ SleepTest(p, b)
    /\ buf' = [buf EXCEPT ![b].flags = @ \ {"ASYNC"}]
    /\ proc' = [proc EXCEPT ![p].pc = "reuse", ![p].b = b]
    /\ cpu' = p
    /\ UNCHANGED <<block_lru, hash, dirty_cnt, disk, latest, mounted, updlock>>

\* A dirty buffer is written and waited for; then the scan goes on.
ScanDirty(p) ==
    LET b == Candidate(p) IN
    /\ Scanning(p)
    /\ Has(b, "DIRTY")
    /\ SleepTest(p, b)
    /\ buf' = [buf EXCEPT ![b] = Written([buf[b] EXCEPT !.flags = @ \ {"ASYNC"}])]
    /\ CountWithout(b)
    /\ proc' = [proc EXCEPT ![p].pc = "lruwrite", ![p].b = b]
    /\ cpu' = NULL
    /\ UNCHANGED <<block_lru, hash, disk, latest, mounted, updlock>>

\* A transfer in progress is waited for, with the old identity.
ScanBusy(p) ==
    LET b == Candidate(p) IN
    /\ Scanning(p)
    /\ ~Has(b, "DIRTY") /\ InProgress(b)
    /\ SleepTest(p, b)
    /\ proc' = [proc EXCEPT ![p].pc = "lruasync", ![p].b = b]
    /\ cpu' = NULL
    /\ UNCHANGED <<buf, block_lru, hash, dirty_cnt, disk, latest, mounted, updlock>>

ScanWritten(p) ==
    LET b == proc[p].b IN
    /\ At(p, "lruwrite") /\ buf[b].done
    /\ buf' = [buf EXCEPT ![b] = Released(@)]
    /\ SleepFree(b)
    /\ proc' = [proc EXCEPT ![p].pc = "lruagain", ![p].b = NULL]
    /\ cpu' = p
    /\ UNCHANGED <<block_lru, hash, dirty_cnt, disk, latest, mounted, updlock>>

ScanDone(p) ==
    /\ At(p, "lruasync") /\ buf[proc[p].b].done
    /\ buf' = [buf EXCEPT ![proc[p].b].flags = @ \ {"ASYNC"}]
    /\ proc' = [proc EXCEPT ![p].pc = "reuse"]
    /\ cpu' = p
    /\ UNCHANGED <<lock, block_lru, hash, dirty_cnt, disk, latest, mounted, updlock>>

\* Mutant: the buffer is not taken out of its old queue.
ReuseHashed(p) ==
    LET b == proc[p].b  blk == Target(p) IN
    /\ At(p, "reuse") /\ Hashed(blk) = {}
    /\ hash' = [hash EXCEPT ![Bucket(blk)] = <<b>> \o @]
    /\ buf' = [buf EXCEPT ![b].id = blk, ![b].flags = {}, ![b].done = FALSE]
    /\ proc' = [proc EXCEPT ![p].pc = "got"]
    /\ cpu' = p
    /\ UNCHANGED <<lock, block_lru, dirty_cnt, disk, latest, mounted, updlock>>

\* The buffer takes the new identity, unless another one took it meanwhile.
Reuse(p) ==
    LET b == proc[p].b
        blk == Target(p)
        removed == IF buf[b].id = NULL THEN hash
                   ELSE [hash EXCEPT ![Bucket(buf[b].id)] = Without(@, b)]
        twin == \E x \in ToSet(removed[Bucket(blk)]) : buf[x].id = blk
    IN  /\ At(p, "reuse")
        /\ buf' = [buf EXCEPT ![b].id = blk, ![b].flags = {}, ![b].done = FALSE]
        /\ IF twin
           THEN /\ hash' = removed
                /\ SleepFree(b)
                /\ proc' = [proc EXCEPT ![p].pc = "get", ![p].b = NULL]
           ELSE /\ hash' = [removed EXCEPT ![Bucket(blk)] = <<b>> \o @]
                /\ proc' = [proc EXCEPT ![p].pc = "got"]
                /\ UNCHANGED lock
        /\ cpu' = p
        /\ UNCHANGED <<block_lru, dirty_cnt, disk, latest, mounted, updlock>>

PutEndLru(p) ==
    /\ At(p, "got")
    /\ block_lru' = Append(Without(block_lru, proc[p].b), proc[p].b)
    /\ proc' = [proc EXCEPT ![p].pc = "keep"]
    /\ cpu' = p
    /\ UNCHANGED <<buf, lock, hash, dirty_cnt, disk, latest, mounted, updlock>>

FewClean == Len(Buf) - dirty_cnt < MINFREE
DirtyUnlocked(b) == Unlocked(b) /\ Has(b, "DIRTY")
ToClean == FewClean /\ \E b \in Bufs : DirtyUnlocked(b)

\* Dirty buffers are sent to the disk when few are clean.
KeepFree(p) ==
    /\ At(p, "keep") /\ ToClean
    /\ WriteAsync(block_lru[SelectInSeq(block_lru, DirtyUnlocked)])
    /\ cpu' = p
    /\ UNCHANGED <<lock, block_lru, hash, disk, latest, mounted, updlock, proc>>

Kept(p) == At(p, "keep") /\ ~ToClean

-----------------------------------------------------------------------------
(* bread, breada, bwrite, bdwrite: what the callers of block_get do next *)

Reading(b, flags) ==
    buf' = [buf EXCEPT ![b].flags = @ \cup flags, ![b].op = Started(@, "read")]

\* The buffer is read unless it already has the information.
Fill(p) ==
    LET b == proc[p].b IN
    /\ Kept(p) /\ proc[p].for = "read"
    /\ IF buf[b].done
       THEN /\ proc' = [proc EXCEPT ![p].pc = "use"]
            /\ cpu' = p
            /\ UNCHANGED buf
       ELSE /\ Reading(b, {"READ"})
            /\ proc' = [proc EXCEPT ![p].pc = "reading"]
            /\ cpu' = NULL
    /\ UNCHANGED <<lock, block_lru, hash, dirty_cnt, disk, latest, mounted, updlock>>

ReadDone(p) ==
    /\ At(p, "reading") /\ buf[proc[p].b].done
    /\ proc' = [proc EXCEPT ![p].pc = "use"]
    /\ cpu' = p
    /\ UNCHANGED <<buf, lock, block_lru, hash, dirty_cnt, disk, latest, mounted, updlock>>

\* A block to be written whole needs no reading.
Overwrite(p) ==
    /\ Kept(p) /\ proc[p].for = "overwrite"
    /\ proc' = [proc EXCEPT ![p].pc = "use"]
    /\ cpu' = p
    /\ UNCHANGED <<buf, lock, block_lru, hash, dirty_cnt, disk, latest, mounted, updlock>>

\* breada: the block, if it seems not to be in the cache.
AheadMain(p) ==
    /\ At(p, "breada")
    /\ proc' = [proc EXCEPT ![p].pc = IF BlockInCore(proc[p].blk) THEN "breada2" ELSE "get",
                            ![p].for = "main"]
    /\ cpu' = p
    /\ UNCHANGED <<buf, lock, block_lru, hash, dirty_cnt, disk, latest, mounted, updlock>>

FillMain(p) ==
    LET b == proc[p].b IN
    /\ Kept(p) /\ proc[p].for = "main"
    /\ IF buf[b].done THEN UNCHANGED buf ELSE Reading(b, {"READ"})
    /\ proc' = [proc EXCEPT ![p].pc = "breada2", ![p].main = b]
    /\ cpu' = p
    /\ UNCHANGED <<lock, block_lru, hash, dirty_cnt, disk, latest, mounted, updlock>>

\* Then the next one, with the first one still locked.
AheadNext(p) ==
    /\ At(p, "breada2")
    /\ proc' = [proc EXCEPT ![p].for = "ahead",
                   ![p].pc = IF proc[p].next = proc[p].blk \/ BlockInCore(proc[p].next)
                             THEN "breada3" ELSE "get"]
    /\ cpu' = p
    /\ UNCHANGED <<buf, lock, block_lru, hash, dirty_cnt, disk, latest, mounted, updlock>>

FillAhead(p) ==
    LET b == proc[p].b IN
    /\ Kept(p) /\ proc[p].for = "ahead"
    /\ IF buf[b].done
       THEN buf' = [buf EXCEPT ![b] = Released(@)]
       ELSE Reading(b, {"READ", "ASYNC"})
    /\ SleepFree(b)
    /\ proc' = [proc EXCEPT ![p].pc = "breada3"]
    /\ cpu' = p
    /\ UNCHANGED <<block_lru, hash, dirty_cnt, disk, latest, mounted, updlock>>

\* And back to the block, with bread when it was not taken at first.
AheadEnd(p) ==
    /\ At(p, "breada3")
    /\ IF proc[p].main = NULL
       THEN /\ proc' = [proc EXCEPT ![p].pc = "get", ![p].for = "read"]
            /\ cpu' = p
       ELSE /\ proc' = [proc EXCEPT ![p].pc = "reading", ![p].b = proc[p].main]
            /\ cpu' = IF buf[proc[p].main].done THEN p ELSE NULL
    /\ UNCHANGED <<buf, lock, block_lru, hash, dirty_cnt, disk, latest, mounted, updlock>>

Release(p, b) ==
    /\ SleepFree(b)
    /\ proc' = [proc EXCEPT ![p] = Idle]
    /\ cpu' = NULL

\* block_put, of a block only read or that could not be read.
UsePut(p) ==
    LET b == proc[p].b IN
    /\ At(p, "use")
    /\ proc[p].op = "read" \/ (Has(b, "ERROR") /\ proc[p].op # "overwrite")
    /\ buf' = [buf EXCEPT ![b] = Released(@)]
    /\ Release(p, b)
    /\ UNCHANGED <<block_lru, hash, dirty_cnt, disk, latest, mounted, updlock>>

NewVersion(p) == latest' = [latest EXCEPT ![proc[p].blk] = @ + 1]

\* bdwrite, of a modified block.
UseDelayed(p) ==
    LET b == proc[p].b IN
    /\ At(p, "use") /\ proc[p].op \in {"modify", "overwrite"}
    /\ Has(b, "ERROR") => proc[p].op = "overwrite"
    /\ NewVersion(p)
    /\ buf' = [buf EXCEPT ![b] = Released(
                   [buf[b] EXCEPT !.flags = @ \cup {"DIRTY"}, !.done = TRUE, !.data = latest'[proc[p].blk]])]
    /\ dirty_cnt' = IF Has(b, "DIRTY") THEN dirty_cnt ELSE dirty_cnt + 1
    /\ Release(p, b)
    /\ UNCHANGED <<block_lru, hash, disk, mounted, updlock>>

\* bwrite, of a modified block.
UseWrite(p) ==
    LET b == proc[p].b IN
    /\ At(p, "use") /\ proc[p].op = "write" /\ ~Has(b, "ERROR")
    /\ NewVersion(p)
    /\ buf' = [buf EXCEPT ![b] = Written([buf[b] EXCEPT !.data = latest'[proc[p].blk]])]
    /\ CountWithout(b)
    /\ proc' = [proc EXCEPT ![p].pc = "writing"]
    /\ cpu' = NULL
    /\ UNCHANGED <<lock, block_lru, hash, disk, mounted, updlock>>

WriteDone(p) ==
    LET b == proc[p].b IN
    /\ At(p, "writing") /\ buf[b].done
    /\ buf' = [buf EXCEPT ![b] = Released(@)]
    /\ Release(p, b)
    /\ UNCHANGED <<block_lru, hash, dirty_cnt, disk, latest, mounted, updlock>>

Writing(blk) == { q \in User : proc[q].blk = blk /\ proc[q].op # "read" }

\* No new file of a device in umount is opened.  A process keeps a file open only while
\* it is in an operation: none has a file open before umount and uses it afterwards.
Begin(p, op, blk, next) ==
    /\ At(p, "idle") /\ cpu = NULL
    /\ Dev(blk) \in mounted /\ \A q \in Umounter : proc[q].dev # Dev(blk)
    /\ op # "read" => latest[blk] + Cardinality(Writing(blk)) < MaxWrites
    /\ proc' = [proc EXCEPT ![p] =
                   [Idle EXCEPT !.pc = IF next = NULL THEN "get" ELSE "breada",
                                !.for = IF op = "overwrite" THEN op ELSE "read",
                                !.op = op, !.blk = blk, !.next = next]]
    /\ cpu' = p
    /\ UNCHANGED <<buf, lock, block_lru, hash, dirty_cnt, disk, latest, mounted, updlock>>

-----------------------------------------------------------------------------
(* The drivers: the interrupt that ends a transfer.  No driver clears B_ERROR. *)

ReadEnds(b) ==
    /\ buf[b].op = "read"
    /\ buf' = [buf EXCEPT ![b].op = "none", ![b].done = TRUE, ![b].data = disk[buf[b].id]]
    /\ UNCHANGED <<lock, block_lru, hash, dirty_cnt, disk, latest, mounted, updlock, cpu, proc>>

ReadFails(b) ==
    /\ buf[b].op = "read" /\ buf[b].id \in FailBlock
    /\ buf' = [buf EXCEPT ![b].op = "none", ![b].done = TRUE, ![b].flags = @ \cup {"ERROR"}]
    /\ UNCHANGED <<lock, block_lru, hash, dirty_cnt, disk, latest, mounted, updlock, cpu, proc>>

WriteEnds(b) ==
    /\ buf[b].op = "write"
    /\ buf' = [buf EXCEPT ![b].op = "none", ![b].done = TRUE]
    /\ disk' = [disk EXCEPT ![buf[b].id] = buf[b].data]
    /\ UNCHANGED <<lock, block_lru, hash, dirty_cnt, latest, mounted, updlock, cpu, proc>>

-----------------------------------------------------------------------------
(* block_update, block_flush *)

\* One buffer written by block_update, by the swapper: which of the dirty ones
\* depends on their age and on where the last call stopped.
BlockUpdate(b) ==
    /\ cpu = NULL
    /\ Has(b, "DIRTY") /\ lock[b] = <<>>
    /\ WriteAsync(b)
    /\ UNCHANGED <<lock, block_lru, hash, disk, latest, mounted, updlock, cpu, proc>>

OnDev(b, dev) == buf[b].id # NULL /\ (dev = NULL \/ Dev(buf[b].id) = dev)

\* The loops over the table: p goes to buffer i + 1, and from the last one to "then".
Advance(p, then) ==
    IF proc[p].i = Len(Buf)
    THEN proc' = [proc EXCEPT ![p].pc = then, ![p].i = 1, ![p].b = NULL]
    ELSE proc' = [proc EXCEPT ![p].i = @ + 1, ![p].b = NULL]

\* Lock of a buffer of the table that passes the test, or on to the next one.
Visit(p, here, then, test) ==
    LET b == Buf[proc[p].i] IN
    /\ At(p, here) /\ proc[p].b = NULL
    /\ IF test
       THEN /\ SleepLock(p, b)
            /\ proc' = [proc EXCEPT ![p].b = b]
       ELSE /\ Advance(p, then)
            /\ cpu' = p
            /\ UNCHANGED lock
    /\ UNCHANGED <<buf, block_lru, hash, dirty_cnt, disk, latest, mounted, updlock>>

Locked(p, here) == At(p, here) /\ proc[p].b # NULL /\ Owns(p)

\* EVENTWAIT for a transfer in progress.
Sleep(p) ==
    /\ cpu = p /\ cpu' = NULL
    /\ UNCHANGED <<buf, lock, block_lru, hash, dirty_cnt, disk, latest, mounted, updlock, proc>>

FlushVisit(p) ==
    LET b == Buf[proc[p].i] IN
    Visit(p, "flush", "wait", OnDev(b, proc[p].dev) /\ Has(b, "DIRTY"))

\* B_DIRTY is not tested again.
FlushWrite(p) ==
    /\ Locked(p, "flush")
    /\ WriteAsync(proc[p].b)
    /\ SleepFree(proc[p].b)
    /\ Advance(p, "wait")
    /\ cpu' = p
    /\ UNCHANGED <<block_lru, hash, disk, latest, mounted, updlock>>

WaitVisit(p) ==
    LET b == Buf[proc[p].i] IN
    Visit(p, "wait", "updated", OnDev(b, proc[p].dev) /\ Has(b, "ASYNC"))

WaitDone(p) ==
    LET b == proc[p].b IN
    /\ Locked(p, "wait")
    /\ \/ InProgress(b) /\ Sleep(p)
       \/ /\ ~InProgress(b)
          /\ buf' = [buf EXCEPT ![b].flags = @ \ {"ASYNC"}]
          /\ SleepFree(b)
          /\ Advance(p, "updated")
          /\ cpu' = p
          /\ UNCHANGED <<block_lru, hash, dirty_cnt, disk, latest, mounted, updlock>>

-----------------------------------------------------------------------------
(* update, umount, block_free *)

\* Nothing is done, and nothing waited for, when an update is already running.
\* The inodes are external: writing them may sleep.
UpdateBegin(p) ==
    /\ p \in Umounter \cup Swapper /\ At(p, "idle") /\ cpu = NULL
    /\ \E dev \in IF p \in Umounter THEN mounted \ RootDev ELSE {NULL} :
          /\ \A q \in Umounter : dev # NULL => proc[q].dev # dev
          /\ proc' = [proc EXCEPT ![p].dev = dev,
                 ![p].pc = IF ~updlock THEN "inodes" ELSE IF p \in Umounter THEN "umount" ELSE "idle"]
    /\ updlock' = TRUE
    /\ UNCHANGED <<buf, lock, block_lru, hash, dirty_cnt, disk, latest, mounted, cpu>>

UpdateInodes(p) ==
    /\ At(p, "inodes")
    /\ proc' = [proc EXCEPT ![p].pc = IF p \in Umounter THEN "flush" ELSE "updated"]
    /\ cpu' = p
    /\ UNCHANGED <<buf, lock, block_lru, hash, dirty_cnt, disk, latest, mounted, updlock>>

UpdateEnd(p) ==
    /\ At(p, "updated")
    /\ updlock' = FALSE
    /\ proc' = [proc EXCEPT ![p].pc = IF p \in Umounter THEN "umount" ELSE "idle"]
    /\ cpu' = IF p \in Umounter THEN p ELSE NULL
    /\ UNCHANGED <<buf, lock, block_lru, hash, dirty_cnt, disk, latest, mounted>>

Using(dev) == \E p \in User : proc[p].pc \notin {"idle", "absent"} /\ Dev(proc[p].blk) = dev

UmountBusy(p) ==
    /\ At(p, "umount") /\ Using(proc[p].dev)
    /\ proc' = [proc EXCEPT ![p] = Idle]
    /\ cpu' = NULL
    /\ UNCHANGED <<buf, lock, block_lru, hash, dirty_cnt, disk, latest, mounted, updlock>>

Umount(p) ==
    /\ At(p, "umount") /\ ~Using(proc[p].dev)
    /\ mounted' = mounted \ {proc[p].dev}
    /\ proc' = [proc EXCEPT ![p].pc = "discard"]
    /\ cpu' = p
    /\ UNCHANGED <<buf, lock, block_lru, hash, dirty_cnt, disk, latest, updlock>>

DiscardVisit(p) ==
    LET b == Buf[proc[p].i] IN Visit(p, "discard", "mount", OnDev(b, proc[p].dev))

\* Mutant: the buffer stays in its hash queue.
DiscardHashed(p) ==
    LET b == proc[p].b  id == buf[proc[p].b].id IN
    /\ Locked(p, "discard")
    /\ \/ InProgress(b) /\ Sleep(p)
       \/ /\ ~InProgress(b)
          /\ hash' = hash
          /\ CountWithout(b)
          /\ latest' = IF Has(b, "DIRTY") THEN [latest EXCEPT ![id] = disk[id]] ELSE latest
          /\ buf' = [buf EXCEPT ![b].id = NULL, ![b].flags = {}]
          /\ block_lru' = <<b>> \o Without(block_lru, b)
          /\ SleepFree(b)
          /\ Advance(p, "mount")
          /\ cpu' = p
          /\ UNCHANGED <<disk, mounted, updlock>>

\* Mutant: the count is not kept.
DiscardUncounted(p) ==
    LET b == proc[p].b  id == buf[proc[p].b].id IN
    /\ Locked(p, "discard")
    /\ \/ InProgress(b) /\ Sleep(p)
       \/ /\ ~InProgress(b)
          /\ hash' = IF id = NULL THEN hash ELSE [hash EXCEPT ![Bucket(id)] = Without(@, b)]
          /\ dirty_cnt' = dirty_cnt
          /\ latest' = IF Has(b, "DIRTY") THEN [latest EXCEPT ![id] = disk[id]] ELSE latest
          /\ buf' = [buf EXCEPT ![b].id = NULL, ![b].flags = {}]
          /\ block_lru' = <<b>> \o Without(block_lru, b)
          /\ SleepFree(b)
          /\ Advance(p, "mount")
          /\ cpu' = p
          /\ UNCHANGED <<disk, mounted, updlock>>

\* Mutant: the transfer in progress is not waited for.
DiscardBusy(p) ==
    LET b == proc[p].b  id == buf[proc[p].b].id IN
    /\ Locked(p, "discard")
    /\ hash' = IF id = NULL THEN hash ELSE [hash EXCEPT ![Bucket(id)] = Without(@, b)]
    /\ CountWithout(b)
    /\ latest' = IF Has(b, "DIRTY") THEN [latest EXCEPT ![id] = disk[id]] ELSE latest
    /\ buf' = [buf EXCEPT ![b].id = NULL, ![b].flags = {}]
    /\ block_lru' = <<b>> \o Without(block_lru, b)
    /\ SleepFree(b)
    /\ Advance(p, "mount")
    /\ cpu' = p
    /\ UNCHANGED <<disk, mounted, updlock>>

\* The buffer may have another identity by now: it is not tested again.  What was written
\* to a modified block is lost.
Discard(p) ==
    LET b == proc[p].b  id == buf[proc[p].b].id IN
    /\ Locked(p, "discard")
    /\ \/ InProgress(b) /\ Sleep(p)
       \/ /\ ~InProgress(b)
          /\ hash' = IF id = NULL THEN hash ELSE [hash EXCEPT ![Bucket(id)] = Without(@, b)]
          /\ CountWithout(b)
          /\ latest' = IF Has(b, "DIRTY") THEN [latest EXCEPT ![id] = disk[id]] ELSE latest
          /\ buf' = [buf EXCEPT ![b].id = NULL, ![b].flags = {}]
          /\ block_lru' = <<b>> \o Without(block_lru, b)
          /\ SleepFree(b)
          /\ Advance(p, "mount")
          /\ cpu' = p
          /\ UNCHANGED <<disk, mounted, updlock>>

Mount(p) ==
    /\ At(p, "mount")
    /\ mounted' = mounted \cup {proc[p].dev}
    /\ proc' = [proc EXCEPT ![p] = Idle]
    /\ cpu' = NULL
    /\ UNCHANGED <<buf, lock, block_lru, hash, dirty_cnt, disk, latest, updlock>>

-----------------------------------------------------------------------------

Init ==
    /\ buf = [b \in Bufs |-> [id |-> NULL, flags |-> {}, done |-> FALSE, data |-> 0, op |-> "none"]]
    /\ lock = [b \in Bufs |-> <<>>]
    /\ block_lru = Buf
    /\ hash = [h \in Buckets |-> <<>>]
    /\ dirty_cnt = 0
    /\ disk = [blk \in Block |-> 0]
    /\ latest = [blk \in Block |-> 0]
    /\ mounted = Device
    /\ updlock = FALSE
    /\ cpu = NULL
    /\ \E who \in Company :
          proc = [p \in Proc |-> IF p \in who THEN Idle ELSE [Idle EXCEPT !.pc = "absent"]]

Get(p) ==
    \/ Search(p) \/ FoundOther(p) \/ Found(p)
    \/ ScanClean(p) \/ ScanDirty(p) \/ ScanBusy(p) \/ ScanWritten(p) \/ ScanDone(p)
    \/ Reuse(p) \/ PutEndLru(p) \/ KeepFree(p)

Read(p) ==
    \/ Fill(p) \/ ReadDone(p) \/ Overwrite(p)
    \/ AheadMain(p) \/ FillMain(p) \/ AheadNext(p) \/ FillAhead(p) \/ AheadEnd(p)

Use(p) == UsePut(p) \/ UseDelayed(p) \/ UseWrite(p) \/ WriteDone(p)

Update(p) ==
    \/ UpdateInodes(p) \/ UpdateEnd(p)
    \/ FlushVisit(p) \/ FlushWrite(p) \/ WaitVisit(p) \/ WaitDone(p)
    \/ UmountBusy(p) \/ Umount(p) \/ DiscardVisit(p) \/ Discard(p) \/ Mount(p)

Driver(b) == ReadEnds(b) \/ ReadFails(b) \/ WriteEnds(b)

Next ==
    \/ \E p \in Proc : Get(p) \/ Read(p) \/ Use(p) \/ Update(p) \/ UpdateBegin(p)
    \/ \E w \in Work : Begin(w[1], w[2], w[3], w[4])
    \/ \E b \in Bufs : Driver(b) \/ BlockUpdate(b)

Spec == Init /\ [][Next]_vars

-----------------------------------------------------------------------------
(* Properties *)

Label == {"idle", "absent", "get", "found", "lru", "lruagain", "lruwrite", "lruasync", "reuse", "got",
          "keep", "breada", "breada2", "breada3", "reading", "use", "writing",
          "inodes", "flush", "wait", "updated", "umount", "discard", "mount"}

\* Types.
TypeOK ==
    /\ buf \in [Bufs -> [id : Block \cup {NULL}, flags : SUBSET {"READ", "ASYNC", "ERROR", "DIRTY"},
                         done : BOOLEAN, data : Nat, op : {"none", "read", "write"}]]
    /\ lock \in [Bufs -> Seq(Proc)]
    /\ block_lru \in Seq(Bufs)
    /\ hash \in [Buckets -> Seq(Bufs)]
    /\ dirty_cnt \in 0..Len(Buf)
    /\ disk \in [Block -> Nat] /\ latest \in [Block -> Nat]
    /\ mounted \subseteq Device /\ updlock \in BOOLEAN /\ cpu \in Proc \cup {NULL}
    /\ proc \in [Proc -> [pc : Label, for : {"none", "read", "overwrite", "main", "ahead"},
                          op : {"none", "read", "modify", "overwrite", "write"},
                          blk : Block \cup {NULL}, next : Block \cup {NULL},
                          b : Bufs \cup {NULL}, main : Bufs \cup {NULL},
                          dev : Device \cup {NULL}, i : 1 .. Len(Buf)]]

\* bread.c: whoever got a block without error has, locked, the only buffer of that
\* block, with what was last written to it, in the cache or on the disk.
ReadsLatest ==
    \A p \in User :
        proc[p].pc = "use" /\ proc[p].op # "overwrite" /\ ~Has(proc[p].b, "ERROR") =>
            /\ Owns(p)
            /\ Hashed(proc[p].blk) = {proc[p].b}
            /\ buf[proc[p].b].data = latest[proc[p].blk]

\* dcache.c: the hash queues hold each buffer at most once, in the queue of its
\* identity, and one buffer of each block; an unhashed buffer is one being reused.
HashExact ==
    /\ \A blk \in Block : Cardinality(Hashed(blk)) <= 1
    /\ \A h \in Buckets : /\ IsInjective(hash[h])
                          /\ \A b \in ToSet(hash[h]) : buf[b].id # NULL /\ Bucket(buf[b].id) = h
    /\ Len(block_lru) = Len(Buf) /\ ToSet(block_lru) = Bufs

\* dcache.c: mon.y_block_dirty_cnt, which starts the cleaning of buffers, counts
\* the dirty buffers.
DirtyCountExact == dirty_cnt = Cardinality({ b \in Bufs : Has(b, "DIRTY") })

\* bread.c, dcache.c: a buffer is given to the driver once at a time, and nobody
\* uses its contents while the driver has it.
OneTransfer ==
    \A b \in Bufs :
        /\ buf[b].op # "twice"
        /\ buf[b].op # "none" => \A p \in User : proc[p].pc = "use" => proc[p].b # b

\* bread.c: what was written is on the disk, going there, or in a dirty buffer.
NothingLost ==
    \A blk \in Block :
        \/ disk[blk] = latest[blk]
        \/ \E b \in Bufs : /\ buf[b].id = blk /\ buf[b].data = latest[blk]
                           /\ Has(b, "DIRTY") \/ buf[b].op = "write"

Discarded(b) == buf[b].id # NULL /\ buf'[b].id = NULL

\* systree.c, dcache.c: umount writes the modified blocks before it discards its
\* buffers: no buffer, of any device, is discarded dirty.
UmountSaves ==
    [][\A b \in Bufs : Discarded(b) => ~Has(b, "DIRTY")]_vars
=============================================================================
