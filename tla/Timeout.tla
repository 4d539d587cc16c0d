------------------------------ MODULE Timeout -------------------------------
(***************************************************************************)
(* Timeouts (clock.c): a function to be called some ticks ahead, kept in   *)
(* hash queues by absolute tick.  toutset and toutreset are called by      *)
(* processes, in steps between which the clock interrupts, and by the      *)
(* interrupt routines of devices.  The clock scans the queues at level 0,  *)
(* so ticks and device interrupts nest in the scan; processes wait, since  *)
(* there is no preemption in the kernel here (with it, the end of a nested *)
(* interrupt may switch to a process, vector.s:306-330).                   *)
(*                                                                         *)
(* A client stands for a pair (function, argument), with one timeout at a  *)
(* time.  Ticks are counted in modular arithmetic, as in the code.         *)
(***************************************************************************)
EXTENDS Integers, Sequences, FiniteSets, SequencesExt

CONSTANTS
    ProcClient,     \* clients that are processes
    DevClient,      \* clients that are interrupt routines
    Entry,          \* the table of timeouts
    W,              \* ticks wrap at W (2^32 in the code)
    HASH,           \* TIMEOUT_HASH_SZ
    MaxTicks,       \* bound: longest delay asked for
    MaxLag,         \* bound: ticks that may be counted ahead of the scan
    NULL

Client == ProcClient \cup DevClient

ASSUME TimeoutAssumption ==
    /\ ProcClient \cap DevClient = {} /\ NULL \notin Client \cup Entry
    /\ IsFiniteSet(Entry)
    /\ Cardinality(Entry) >= Cardinality(Client)    \* the table does not run out
    /\ W \in Nat /\ HASH \in Nat \ {0} /\ MaxTicks \in Nat \ {0} /\ MaxLag \in Nat
    /\ W % HASH = 0 /\ MaxTicks + MaxLag + 1 < W \div 2

VARIABLES
    abs_ticks,          \* tick of now
    timeout_abs_ticks,  \* next tick to scan
    timeout_hash,       \* the queues
    timeout_free_list,
    o_time, o_func,     \* fields of the entries
    timeout_in_operation,
    calling,            \* taken out of its queue, to be called
    pc,                 \* where each client is in toutset or toutreset
    tp,                 \* the pointer the client was given last
    ticks,              \* its local: absolute tick, or index of the queue
    armed               \* the client expects a call

vars == <<abs_ticks, timeout_abs_ticks, timeout_hash, timeout_free_list, o_time, o_func,
          timeout_in_operation, calling, pc, tp, ticks, armed>>

\* Circular arithmetic: a is not before b.
NotBefore(a, b) == (a - b) % W < W \div 2

Queue(t) == timeout_hash[t % HASH]

Queued(c) == { e \in Entry : o_func[e] = c /\ e \in ToSet(Queue(o_time[e])) }

Put(e) == timeout_free_list' = <<e>> \o timeout_free_list

-----------------------------------------------------------------------------
(* toutset *)

\* Without preemption in the kernel no process runs while the clock scans.
Step(c, from, to) ==
    /\ c \in ProcClient /\ pc[c] = from /\ ~timeout_in_operation
    /\ pc' = [pc EXCEPT ![c] = to]

\* With no entry left the kernel stops (panic).
TakeEntry(c) ==
    /\ timeout_free_list # <<>>
    /\ tp' = [tp EXCEPT ![c] = Head(timeout_free_list)]
    /\ timeout_free_list' = Tail(timeout_free_list)

Insert(e, c, t) ==
    /\ o_time' = [o_time EXCEPT ![e] = t]
    /\ o_func' = [o_func EXCEPT ![e] = c]
    /\ timeout_hash' = [timeout_hash EXCEPT ![t % HASH] = <<e>> \o @]
    /\ armed' = [armed EXCEPT ![c] = TRUE]

SetGet(c) ==
    /\ Step(c, "idle", "got") /\ ~armed[c]
    /\ TakeEntry(c)
    /\ UNCHANGED <<abs_ticks, timeout_abs_ticks, timeout_hash, o_time, o_func,
                   timeout_in_operation, calling, ticks, armed>>

\* Mutant: the local is wider than the counter of ticks.
SetTimeWide(c) ==
    /\ Step(c, "got", "timed")
    /\ \E n \in 1..MaxTicks : ticks' = [ticks EXCEPT ![c] = abs_ticks + n]
    /\ UNCHANGED <<abs_ticks, timeout_abs_ticks, timeout_hash, timeout_free_list, o_time,
                   o_func, timeout_in_operation, calling, tp, armed>>

\* ticks += abs_ticks, before the queue is locked.
SetTime(c) ==
    /\ Step(c, "got", "timed")
    /\ \E n \in 1..MaxTicks : ticks' = [ticks EXCEPT ![c] = (abs_ticks + n) % W]
    /\ UNCHANGED <<abs_ticks, timeout_abs_ticks, timeout_hash, timeout_free_list, o_time,
                   o_func, timeout_in_operation, calling, tp, armed>>

SetInsert(c) ==
    /\ Step(c, "timed", "idle")
    /\ Insert(tp[c], c, ticks[c])
    /\ ticks' = [ticks EXCEPT ![c] = 0]
    /\ UNCHANGED <<abs_ticks, timeout_abs_ticks, timeout_free_list, timeout_in_operation,
                   calling, tp>>

\* By an interrupt routine: a tick that comes meanwhile does not scan.
DeviceSet(c) ==
    /\ c \in DevClient /\ ~armed[c]
    /\ TakeEntry(c)
    /\ \E n \in 1..MaxTicks : Insert(tp'[c], c, (abs_ticks + n) % W)
    /\ UNCHANGED <<abs_ticks, timeout_abs_ticks, timeout_in_operation, calling, pc, ticks>>

-----------------------------------------------------------------------------
(* toutreset *)

\* Mutant: the function is not compared with that of the entry.
UnlinkAnyFunction(c, e, h) ==
    LET found == e \in ToSet(timeout_hash[h]) IN
    /\ timeout_hash' = [timeout_hash EXCEPT ![h] = RemoveFirst(@, e)]
    /\ o_func' = [o_func EXCEPT ![e] = NULL]
    /\ armed' = [armed EXCEPT ![c] = FALSE]
    /\ pc' = [pc EXCEPT ![c] = IF found /\ c \in ProcClient THEN "unlinked" ELSE "idle"]
    /\ IF found /\ c \in DevClient THEN Put(e) ELSE UNCHANGED timeout_free_list

\* Mutant: the entry is freed whether it was found or not.
UnlinkFreesAnyway(c, e, h) ==
    /\ timeout_hash' = [timeout_hash EXCEPT ![h] = RemoveFirst(@, e)]
    /\ o_func' = [o_func EXCEPT ![e] = NULL]
    /\ armed' = [armed EXCEPT ![c] = FALSE]
    /\ pc' = [pc EXCEPT ![c] = IF c \in ProcClient THEN "unlinked" ELSE "idle"]
    /\ IF c \in DevClient THEN Put(e) ELSE UNCHANGED timeout_free_list

\* Mutant: only the head of the queue is taken out.
UnlinkHeadOnly(c, e, h) ==
    LET found == o_func[e] = c /\ timeout_hash[h] # <<>> /\ e = timeout_hash[h][1] IN
    /\ timeout_hash' = IF found THEN [timeout_hash EXCEPT ![h] = Tail(@)] ELSE timeout_hash
    /\ o_func' = IF found THEN [o_func EXCEPT ![e] = NULL] ELSE o_func
    /\ armed' = [armed EXCEPT ![c] = FALSE]
    /\ pc' = [pc EXCEPT ![c] = IF found /\ c \in ProcClient THEN "unlinked" ELSE "idle"]
    /\ IF found /\ c \in DevClient THEN Put(e) ELSE UNCHANGED timeout_free_list

\* Under the lock of queue h: the entry must still be that of the client.
Unlink(c, e, h) ==
    LET mine == o_func[e] = c
        found == mine /\ e \in ToSet(timeout_hash[h])
    IN  /\ timeout_hash' = IF mine THEN [timeout_hash EXCEPT ![h] = RemoveFirst(@, e)]
                           ELSE timeout_hash
        /\ o_func' = IF mine THEN [o_func EXCEPT ![e] = NULL] ELSE o_func
        /\ armed' = [armed EXCEPT ![c] = FALSE]
        /\ pc' = [pc EXCEPT ![c] = IF found /\ c \in ProcClient THEN "unlinked" ELSE "idle"]
        /\ IF found /\ c \in DevClient THEN Put(e) ELSE UNCHANGED timeout_free_list

\* The pointer may be stale: the function was called and the entry used again.
ResetRead(c) ==
    /\ tp[c] # NULL
    /\ Step(c, "idle", "reset")
    /\ ticks' = [ticks EXCEPT ![c] = o_time[tp[c]] % HASH]
    /\ UNCHANGED <<abs_ticks, timeout_abs_ticks, timeout_hash, timeout_free_list, o_time,
                   o_func, timeout_in_operation, calling, tp, armed>>

ResetUnlink(c) ==
    /\ c \in ProcClient /\ pc[c] = "reset" /\ ~timeout_in_operation
    /\ Unlink(c, tp[c], ticks[c])
    /\ ticks' = [ticks EXCEPT ![c] = 0]
    /\ UNCHANGED <<abs_ticks, timeout_abs_ticks, o_time, timeout_in_operation, calling, tp>>

ResetFree(c) ==
    /\ Step(c, "unlinked", "idle")
    /\ Put(tp[c])
    /\ UNCHANGED <<abs_ticks, timeout_abs_ticks, timeout_hash, o_time, o_func,
                   timeout_in_operation, calling, tp, ticks, armed>>

DeviceReset(c) ==
    /\ c \in DevClient /\ tp[c] # NULL
    /\ Unlink(c, tp[c], o_time[tp[c]] % HASH)
    /\ UNCHANGED <<abs_ticks, timeout_abs_ticks, o_time, timeout_in_operation, calling, tp, ticks>>

-----------------------------------------------------------------------------
(* clock_int *)

TickBound == NotBefore(timeout_abs_ticks + MaxLag, (abs_ticks + 1) % W)

\* A tick that interrupts a region of level > 0, or the scan, is only counted.
TickCounted ==
    /\ TickBound
    /\ abs_ticks' = (abs_ticks + 1) % W
    /\ UNCHANGED <<timeout_abs_ticks, timeout_hash, timeout_free_list, o_time, o_func,
                   timeout_in_operation, calling, pc, tp, ticks, armed>>

TickScans ==
    /\ ~timeout_in_operation
    /\ abs_ticks' = (abs_ticks + 1) % W
    /\ timeout_in_operation' = TRUE
    /\ UNCHANGED <<timeout_abs_ticks, timeout_hash, timeout_free_list, o_time, o_func,
                   calling, pc, tp, ticks, armed>>

\* Mutant: every entry of the queue is due.
DueAnyTick(e) == o_time[e] % HASH = timeout_abs_ticks % HASH

Due(e) == o_time[e] = timeout_abs_ticks

\* Mutant: the scan leaves the queue after one entry.
ScanOne ==
    LET q == Queue(timeout_abs_ticks) IN
    /\ timeout_in_operation /\ calling = NULL /\ NotBefore(abs_ticks, timeout_abs_ticks)
    /\ timeout_abs_ticks' = (timeout_abs_ticks + 1) % W
    /\ IF \E e \in ToSet(q) : Due(e)
       THEN LET e == q[SelectInSeq(q, Due)] IN
            /\ timeout_hash' = [timeout_hash EXCEPT ![timeout_abs_ticks % HASH] = RemoveFirst(@, e)]
            /\ o_func' = [o_func EXCEPT ![e] = NULL]
            /\ calling' = o_func[e]
            /\ Put(e)
       ELSE UNCHANGED <<timeout_hash, timeout_free_list, o_func, calling>>
    /\ UNCHANGED <<abs_ticks, o_time, timeout_in_operation, pc, tp, ticks, armed>>

\* The first entry of the queue for the tick being scanned leaves the queue; the
\* next tick is scanned when there is none left.
Scan ==
    LET q == Queue(timeout_abs_ticks) IN
    /\ timeout_in_operation /\ calling = NULL /\ NotBefore(abs_ticks, timeout_abs_ticks)
    /\ IF \E e \in ToSet(q) : Due(e)
       THEN LET e == q[SelectInSeq(q, Due)] IN
            /\ timeout_hash' = [timeout_hash EXCEPT ![timeout_abs_ticks % HASH] = RemoveFirst(@, e)]
            /\ o_func' = [o_func EXCEPT ![e] = NULL]
            /\ calling' = o_func[e]
            /\ Put(e)
            /\ UNCHANGED timeout_abs_ticks
       ELSE /\ timeout_abs_ticks' = (timeout_abs_ticks + 1) % W
            /\ UNCHANGED <<timeout_hash, timeout_free_list, o_func, calling>>
    /\ UNCHANGED <<abs_ticks, o_time, timeout_in_operation, pc, tp, ticks, armed>>

\* ( *func) (arg), after the entry was freed.
Call ==
    /\ calling # NULL
    /\ calling' = NULL
    /\ armed' = [armed EXCEPT ![calling] = Queued(calling) # {}]
    /\ UNCHANGED <<abs_ticks, timeout_abs_ticks, timeout_hash, timeout_free_list, o_time,
                   o_func, timeout_in_operation, pc, tp, ticks>>

\* Mutant: the flag is not cleared.
ScanEndBusy ==
    /\ timeout_in_operation /\ calling = NULL /\ ~NotBefore(abs_ticks, timeout_abs_ticks)
    /\ UNCHANGED vars

ScanEnd ==
    /\ timeout_in_operation /\ calling = NULL /\ ~NotBefore(abs_ticks, timeout_abs_ticks)
    /\ timeout_in_operation' = FALSE
    /\ UNCHANGED <<abs_ticks, timeout_abs_ticks, timeout_hash, timeout_free_list, o_time,
                   o_func, calling, pc, tp, ticks, armed>>

-----------------------------------------------------------------------------

Init ==
    /\ abs_ticks = 0 /\ timeout_abs_ticks = 1
    /\ timeout_hash = [h \in 0..(HASH - 1) |-> <<>>]
    /\ timeout_free_list = SetToSeq(Entry)
    /\ o_time = [e \in Entry |-> 0]
    /\ o_func = [e \in Entry |-> NULL]
    /\ timeout_in_operation = FALSE
    /\ calling = NULL
    /\ pc = [c \in Client |-> "idle"]
    /\ tp = [c \in Client |-> NULL]
    /\ ticks = [c \in Client |-> 0]
    /\ armed = [c \in Client |-> FALSE]

ClockStep == Scan \/ Call \/ ScanEnd

Next ==
    \/ TickCounted \/ TickScans \/ ClockStep
    \/ \E c \in Client :
          \/ SetGet(c) \/ SetTime(c) \/ SetInsert(c) \/ DeviceSet(c)
          \/ ResetRead(c) \/ ResetUnlink(c) \/ ResetFree(c) \/ DeviceReset(c)

Spec == Init /\ [][Next]_vars

\* The clock ticks, now and then while level 0 runs, and the scan goes on.
Fairness == WF_vars(ClockStep) /\ WF_vars(TickScans)

FairSpec == Spec /\ Fairness

-----------------------------------------------------------------------------
(* Properties *)

\* Types.
TypeOK ==
    /\ abs_ticks \in 0..(W - 1) /\ timeout_abs_ticks \in 0..(W - 1)
    /\ timeout_hash \in [0..(HASH - 1) -> Seq(Entry)]
    /\ timeout_free_list \in Seq(Entry)
    /\ o_time \in [Entry -> 0..(W - 1)]
    /\ o_func \in [Entry -> Client \cup {NULL}]
    /\ timeout_in_operation \in BOOLEAN
    /\ calling \in Client \cup {NULL}
    /\ pc \in [Client -> {"idle", "got", "timed", "reset", "unlinked"}]
    /\ tp \in [Client -> Entry \cup {NULL}]
    /\ ticks \in [Client -> 0..(W - 1)]
    /\ armed \in [Client -> BOOLEAN]

Holding(c) == IF pc[c] \in {"got", "timed", "unlinked"} THEN {tp[c]} ELSE {}

\* clock.c: an entry is in the free list, in the queue of its tick or in the hands of one
\* client, none lost, shared or freed twice, whatever stale pointers toutreset is given; and
\* a client that expects a call has one entry queued or is being called, so nobody takes out
\* the timeout of another.  Of a process it is never both; a device may be called for the
\* timeout it took out and set again meanwhile.
EntriesExact ==
    /\ IsInjective(timeout_free_list)
    /\ \A h \in 0..(HASH - 1) : IsInjective(timeout_hash[h])
    /\ \A e \in Entry :
          LET owners == { c \in Client : e \in Holding(c) }
              free == e \in ToSet(timeout_free_list)
              queues == { h \in 0..(HASH - 1) : e \in ToSet(timeout_hash[h]) }
          IN  /\ Cardinality(owners) + Cardinality(queues) + (IF free THEN 1 ELSE 0) = 1
              /\ queues \subseteq {o_time[e] % HASH}
    /\ \A c \in Client :
          /\ Cardinality(Queued(c)) <= 1
          /\ armed[c] => Queued(c) # {} \/ calling = c
          /\ c \in ProcClient => Queued(c) = {} \/ calling # c

InFront(c) == \E e \in Queued(c) : NotBefore(o_time[e], timeout_abs_ticks)

\* clock.c: a function is called when its tick came, not before; and a timeout in front of
\* the scan stays there until it is called or taken out: late scans, nested ticks and new
\* entries skip nothing.
CalledInTurn ==
    [][\A c \in Client :
          /\ InFront(c) => InFront(c)' \/ calling' = c \/ ~armed'[c]
          /\ calling # c /\ calling' = c =>
                \E e \in Queued(c) : NotBefore(abs_ticks, o_time[e])]_vars

\* clock.c: a process that took its timeout out is not called for it, though the pointer it
\* used may be of an entry called meanwhile and given to another (no preemption in the kernel).
ResetIsFinal ==
    [][\A c \in ProcClient : calling = c /\ calling' # c => armed[c]]_vars

\* clock.c: a timeout in front of the scan is called, or taken out.
CalledSomeDay == \A c \in Client : InFront(c) ~> ~InFront(c)
=============================================================================
