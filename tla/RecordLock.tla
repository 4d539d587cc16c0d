----------------------------- MODULE RecordLock -----------------------------
(***************************************************************************)
(* Locks of regions of files (fio/lockf.c): lockf (), the test that read   *)
(* and write make (sys/sysfio.c), and what fclose gives back.  The list of *)
(* an inode is used with the inode locked; a process that waits for a      *)
(* region frees the inode and sleeps on the event of the region.  What a   *)
(* free entry of the table holds is written before it is read: only the    *)
(* entries in a list keep it here.                                         *)
(***************************************************************************)
EXTENDS InodeCache

CONSTANTS
    NLOCKF,     \* entries of the table
    MAXSZ       \* the end of a file

LockEntry == 1 .. NLOCKF

\* What a system call asks: F_LOCK, F_TLOCK, F_ULOCK, F_TEST, a transfer without O_NDELAY
\* or with it, and the close of a descriptor that is not the last.
Mode == {"lock", "tlock", "unlock", "test", "rdwr", "trdwr", "close"}

ASSUME LockfAssumption == NLOCKF \in Nat \ {0} /\ MAXSZ \in Nat \ {0} /\ NULL \notin LockEntry

VARIABLES
    i_lockf,        \* the list of each inode: entry, owner, first byte and end of each region
    lffreelist,     \* the entries in no list; their order does not matter
    k_free,         \* the entries in a list whose event is marked
    u_sema,         \* the entry a process sleeps for, or NULL
    ask,            \* the mode and the region of a system call in progress
    calls           \* what lockers ask, which does not change

lockfVars == <<i_lockf, lffreelist, k_free, u_sema, ask, calls>>

Nothing == [mode |-> NULL, begin |-> 0, end |-> 0]

lfinit(asked) ==
    /\ i_lockf = [e \in Entry |-> <<>>]
    /\ lffreelist = LockEntry
    /\ k_free = {}
    /\ u_sema = [p \in Locker |-> NULL]
    /\ ask = [p \in Locker |-> Nothing]
    /\ calls = asked

-----------------------------------------------------------------------------
(* The list of the file of a process *)

List(p) == i_lockf[proc[p].e]

\* The regions share a byte; they share a byte or an end.
Meets(a, k) == a.end > k.begin /\ a.begin < k.end
Touches(a, k) == ~(a.end < k.begin \/ a.begin > k.end)

\* lfaccess: the first region of another process that is in the way.
Litigious(p) == { i \in DOMAIN List(p) : List(p)[i].uproc # p /\ Meets(ask[p], List(p)[i]) }
InTheWay(p) == Litigious(p) # {}
Obstacle(p) == List(p)[Min(Litigious(p))]

Owner(k) == (CHOOSE r \in UNION { ToSet(i_lockf[e]) : e \in Entry } : r.id = k).uproc

\* lfdeadlock: the owner of the region that a process waits for, its owner, and so on.
Chain(p) ==
    LET chain[n \in 0 .. Cardinality(Locker)] ==
            IF n = 0 THEN p
            ELSE LET q == chain[n - 1] IN
                 IF q = NULL \/ u_sema[q] = NULL THEN NULL ELSE Owner(u_sema[q])
    IN chain

\* Mutant: only the owner of the region is looked at.
lfdeadlockNear(p) == LET q == Obstacle(p).uproc IN u_sema[q] # NULL /\ Owner(u_sema[q]) = p

lfdeadlock(p) == p \in Range(Chain(Obstacle(p).uproc))

\* EVENTDONE of the events of some entries, and lfput of some of these.
EventDone(done, freed) ==
    /\ k_free' = (k_free \cup done) \ freed
    /\ u_sema' = [q \in Locker |-> IF u_sema[q] \in done THEN NULL ELSE u_sema[q]]

Ids(list) == { k.id : k \in ToSet(list) }

\* The call ends: the inode is freed.
Return(p) ==
    /\ SleepFree(proc[p].e)
    /\ ask' = [ask EXCEPT ![p] = Nothing]
    /\ Goto(p, "user") /\ Leaves
    /\ UNCHANGED <<lru, hash, sb, updlock>>

-----------------------------------------------------------------------------
(* System calls *)

\* SLEEPLOCK of an inode that is locked; what is asked matters when the process gets it.
Call(p) ==
    /\ At(p, "user") /\ lock[proc[p].e] # <<>>
    /\ SleepLock(p, proc[p].e, "call")
    /\ UNCHANGED <<inode, lru, hash, sb, updlock, lockfVars>>

Ask(p, call) ==
    /\ \/ At(p, "user") /\ lock[proc[p].e] = <<>> /\ SleepLock(p, proc[p].e, "lockf")
       \/ Locked(p, "call") /\ Goto(p, "lockf") /\ Keeps(p) /\ UNCHANGED lock
    /\ ask' = [ask EXCEPT ![p] = call]
    /\ UNCHANGED <<inode, lru, hash, sb, updlock, i_lockf, lffreelist, k_free, u_sema, calls>>

Asked(p, modes) == Locked(p, "lockf") /\ ask[p].mode \in modes

\* EAGAIN, or EDEADLK.
Refuse(p) ==
    /\ \/ Asked(p, {"tlock", "test", "trdwr"}) /\ InTheWay(p)
       \/ Asked(p, {"lock", "rdwr"}) /\ InTheWay(p) /\ lfdeadlock(p)
       \/ Asked(p, {"lock", "tlock"}) /\ ~InTheWay(p) /\ lffreelist = {}
       \/ Asked(p, {"unlock"}) /\ lffreelist = {}
    /\ Return(p)
    /\ UNCHANGED <<inode, i_lockf, lffreelist, k_free, u_sema, calls>>

\* The inode is freed before the sleep.
WaitSleeps(p) ==
    /\ Asked(p, {"lock", "rdwr"}) /\ InTheWay(p) /\ ~lfdeadlock(p)
    /\ Obstacle(p).id \notin k_free
    /\ SleepFree(proc[p].e)
    /\ u_sema' = [u_sema EXCEPT ![p] = Obstacle(p).id]
    /\ Goto(p, "waiting") /\ Leaves
    /\ UNCHANGED <<inode, lru, hash, sb, updlock, i_lockf, lffreelist, k_free, ask, calls>>

\* The event is still marked, from a part of the region that was unlocked: EVENTWAIT returns
\* at once and the process tries again, with the processor unless others wait for the inode.
WaitTurns(p) ==
    /\ Asked(p, {"lock", "rdwr"}) /\ InTheWay(p) /\ ~lfdeadlock(p)
    /\ Obstacle(p).id \in k_free
    /\ lock' = [lock EXCEPT ![proc[p].e] = Append(Tail(@), p)]
    /\ cpu' = IF Len(lock[proc[p].e]) = 1 THEN p ELSE NULL
    /\ UNCHANGED <<inode, lru, hash, sb, updlock, proc, i_lockf, lffreelist, k_free, u_sema, ask, calls>>

Awake(p) ==
    /\ At(p, "waiting") /\ u_sema[p] = NULL
    /\ SleepLock(p, proc[p].e, "lockf")
    /\ UNCHANGED <<inode, lru, hash, sb, updlock, i_lockf, lffreelist, k_free, u_sema, ask, calls>>

\* Mutant: only one region can touch the new one.
JoinOne(p, k, m) ==
    IF k.uproc = p /\ Touches(m, k) /\ m.joined = {}
    THEN [m EXCEPT !.begin = Min({m.begin, k.begin}), !.end = Max({m.end, k.end}), !.joined = @ \cup {k.id}]
    ELSE m

\* One step of the loop of lflock: a region of the process that touches the new one is
\* joined to it.
Join(p, k, m) ==
    IF k.uproc = p /\ Touches(m, k)
    THEN [m EXCEPT !.begin = Min({m.begin, k.begin}), !.end = Max({m.end, k.end}), !.joined = @ \cup {k.id}]
    ELSE m

\* What is asked with the regions joined to it, at the end of the loop.
Joined(p) ==
    LET m[i \in 0 .. Len(List(p))] ==
            IF i = 0 THEN [begin |-> ask[p].begin, end |-> ask[p].end, joined |-> {}]
            ELSE Join(p, List(p)[i], m[i - 1])
    IN m[Len(List(p))]

lflock(p) ==
    /\ Asked(p, {"lock", "tlock"}) /\ ~InTheWay(p) /\ lffreelist # {}
    /\ LET gp == Min(lffreelist)
           m == Joined(p)
           new == [id |-> gp, uproc |-> p, begin |-> m.begin, end |-> m.end]
           others == { k \in ToSet(List(p)) : k.id \notin m.joined }
       IN  /\ i_lockf' = [i_lockf EXCEPT ![proc[p].e] = <<new>> \o Kept(@, others)]
           /\ lffreelist' = (lffreelist \ {gp}) \cup m.joined
           /\ EventDone(m.joined, m.joined)
    /\ Return(p) /\ UNCHANGED <<inode, calls>>

\* Mutant: the piece above is forgotten when one stays below.
RestBelow(p, k, gp) ==
    IF k.uproc # p \/ ~Meets(ask[p], k) THEN <<k>>
    ELSE IF k.begin < ask[p].begin THEN <<[k EXCEPT !.end = ask[p].begin]>>
         ELSE IF ask[p].end < k.end THEN <<[k EXCEPT !.begin = ask[p].end]>> ELSE <<>>

\* What lffree leaves of a region: a piece below, a piece above, in a new entry if both stay.
Rest(p, k, gp) ==
    IF k.uproc # p \/ ~Meets(ask[p], k) THEN <<k>>
    ELSE LET below == k.begin < ask[p].begin
             above == ask[p].end < k.end
         IN (IF below THEN <<[k EXCEPT !.end = ask[p].begin]>> ELSE <<>>)
            \o (IF above THEN <<[k EXCEPT !.begin = ask[p].end, !.id = IF below THEN gp ELSE @]>> ELSE <<>>)

\* Mutant: only what leaves the list is announced.
AnnouncedGone(met, list) == met \ Ids(list)

\* The entries whose event lffree marks: all that it changes, though a part of them stays.
Announced(met, list) == met

lffree(p) ==
    /\ Asked(p, {"unlock"}) /\ lffreelist # {}
    /\ LET gp == Min(lffreelist)
           list == FlattenSeq([i \in DOMAIN List(p) |-> Rest(p, List(p)[i], gp)])
           met == { k.id : k \in { j \in ToSet(List(p)) : j.uproc = p /\ Meets(ask[p], j) } }
       IN  /\ i_lockf' = [i_lockf EXCEPT ![proc[p].e] = list]
           /\ lffreelist' = (lffreelist \cup met) \ Ids(list)
           /\ EventDone(Announced(met, list), met \ Ids(list))
    /\ Return(p) /\ UNCHANGED <<inode, calls>>

\* F_TEST of a region that nobody else has.
TestEnds(p) ==
    /\ Asked(p, {"test"}) /\ ~InTheWay(p)
    /\ Return(p)
    /\ UNCHANGED <<inode, i_lockf, lffreelist, k_free, u_sema, calls>>

\* A read or a write changes the dates of the inode, and a write its size as blocks are added.
Dates(p) == \E chg \in {inode[proc[p].e].chg, TRUE} : inode' = [inode EXCEPT ![proc[p].e].chg = chg]

\* The blocks are read or written with the inode locked.
Transfer(p) ==
    /\ Asked(p, {"rdwr", "trdwr"}) /\ ~InTheWay(p)
    /\ Dates(p)
    /\ Goto(p, "transfer") /\ Leaves
    /\ UNCHANGED <<lock, lru, hash, sb, updlock, lockfVars>>

TransferEnds(p) ==
    /\ Locked(p, "transfer")
    /\ Dates(p)
    /\ Return(p)
    /\ UNCHANGED <<i_lockf, lffreelist, k_free, u_sema, calls>>

\* fclose: the process loses every region of the file, though another descriptor stays.
lfclosefree(p) ==
    /\ Asked(p, {"close"})
    /\ LET mine == { k \in ToSet(List(p)) : k.uproc = p }
           ids == { k.id : k \in mine }
       IN  /\ i_lockf' = [i_lockf EXCEPT ![proc[p].e] = Kept(@, ToSet(@) \ mine)]
           /\ lffreelist' = lffreelist \cup ids
           /\ EventDone(ids, ids)
    /\ Return(p) /\ UNCHANGED <<inode, calls>>

UseRegion(p) ==
    \/ \E call \in calls : Ask(p, call)
    \/ Call(p) \/ Refuse(p) \/ WaitSleeps(p) \/ WaitTurns(p) \/ Awake(p)
    \/ lflock(p) \/ lffree(p) \/ TestEnds(p) \/ Transfer(p) \/ TransferEnds(p) \/ lfclosefree(p)

-----------------------------------------------------------------------------
(* Properties *)

Listed == UNION { Ids(i_lockf[e]) : e \in Entry }

\* lockf.c: an entry of the table is free or in one list, once, never lost; its region is not
\* empty and shares no byte with another one of the file (for one owner, lffree would need two
\* new entries and panic); and its owner has the file open.
RegionsExact ==
    /\ Listed = LockEntry \ lffreelist /\ k_free \cap lffreelist = {}
    /\ \A d, e \in Entry : d # e => Ids(i_lockf[d]) \cap Ids(i_lockf[e]) = {}
    /\ \A e \in Entry : \A i, j \in DOMAIN i_lockf[e] :
          LET k == i_lockf[e][i] IN
          /\ k.begin < k.end /\ proc[k.uproc].e = e
          /\ i # j => k.id # i_lockf[e][j].id /\ ~Meets(k, i_lockf[e][j])

\* lockf.c: a process sleeps for a region of another process that is in the way of what it asked,
\* and whose owner has not given a part of it back since.
SleepsOnConflict ==
    \A p \in Locker : u_sema[p] # NULL =>
        /\ u_sema[p] \notin k_free
        /\ \E k \in ToSet(List(p)) : k.id = u_sema[p] /\ k.uproc # p /\ Meets(ask[p], k)

\* lockf.c: no process waits for itself, through any number of others.
NoCircularWait ==
    \A p \in Locker : u_sema[p] # NULL => p \notin Range(Chain(Owner(u_sema[p])))
=============================================================================
