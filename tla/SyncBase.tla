------------------------------ MODULE SyncBase ------------------------------
(***************************************************************************)
(* What sleep.c, sema.c and event.c share: the process table fields of a   *)
(* sleeping process, the hash queues of sleepers, the history of           *)
(* synchronisation (sync.c), the switch of context (dispat.c) and the      *)
(* signals that break a sleep (signal.c).                                  *)
(*                                                                         *)
(* The kernel runs on one CPU (NCPU = 1).  A region under SPINLOCK runs at *)
(* spl7, so it is one step.  Interrupt routines run between any two steps. *)
(* Another process runs between two steps of a process only when it sleeps *)
(* or is preempted: always possible in user mode, in the kernel only when  *)
(* the preemption mask is on (PREEMPT).                                    *)
(*                                                                         *)
(* The order of the list of ready processes is left out here: any of them  *)
(* may be dispatched next.  The module Dispatcher has the list.            *)
(***************************************************************************)
EXTENDS Integers, Sequences, FiniteSets, SequencesExt

CONSTANTS
    Proc,       \* processes
    Lock,       \* objects of type LOCK (sleeplock)
    Sema,       \* objects of type SEMA
    Event,      \* objects of type EVENT
    Bucket,     \* hash queues of sleepers
    PHASH,      \* the hash queue of each object, and of NOVOID
    CallPri,    \* the priority each object is slept for
    MaxPri,     \* bound: ageing stops there (in the code nowhere: see Dispatcher)
    PUSER,      \* base priority of user mode
    PLIMIT,     \* sleeps below it are broken by signals
    Signals,    \* the signals sent: a subset of {"IGN", "CATCH", "KILL"}
    NHIST,      \* entries of the history of synchronisation
    PREEMPT,    \* preemption in supervisor mode (scb.y_preemption_mask)
    NOVOID,     \* u_sema of a process that does not sleep
    Idle        \* the CPU has no process to run

Obj == Lock \cup Sema \cup Event

BUSY == 128     \* the bit 0x80 of a LOCK or an EVENT
BYTE == 256     \* LOCK and EVENT are uchar

ASSUME SyncAssumption ==
    /\ IsFiniteSet(Proc)
    /\ Lock \cap Sema = {} /\ Lock \cap Event = {} /\ Sema \cap Event = {}
    /\ PHASH \in [Obj \cup {NOVOID} -> Bucket]
    /\ NOVOID \notin Obj
    /\ Idle \notin Proc
    /\ Proc \cap Obj = {} /\ NOVOID \notin Proc
    /\ PUSER \in Nat \ {0} /\ PLIMIT \in Nat /\ MaxPri \in Nat
    /\ PUSER < PLIMIT /\ PLIMIT <= MaxPri
    /\ CallPri \in [Obj -> PUSER..MaxPri]
    /\ Signals \subseteq {"IGN", "CATCH", "KILL"}
    /\ NHIST \in Nat \ {0}
    /\ PREEMPT \in BOOLEAN

VARIABLES
    u_state,    \* SRUN, SCORERDY (ready) or SCORESLP (asleep)
    u_pri,      \* priority
    u_sema,     \* object the process is queued on
    u_sigwake,  \* SIGWAKE: woken without the object
    u_sig,      \* pending signals
    u_synch,    \* history of synchronisation
    h_uproc,    \* hash queues of sleepers
    val,        \* the memory of the objects: byte, e_count or byte
    cpu,        \* the process whose context is loaded
    pc,         \* where each process is
    arg,        \* the object, or the victim of kill, it is there for
    hp          \* the queue kill () computed before locking it

sleepVars == <<u_sema, u_sigwake, h_uproc>>
ctlVars == <<pc, arg, hp>>
baseVars == <<u_state, u_pri, u_sema, u_sigwake, u_sig, u_synch, h_uproc,
              val, cpu, pc, arg, hp>>

-----------------------------------------------------------------------------
(* Control *)

\* The process executes: the others only move when it loses the CPU.
Running(p) == cpu = p /\ u_state[p] = "SRUN"

At(p, label) == Running(p) /\ pc[p] = label

Goto(p, label) ==
    /\ pc' = [pc EXCEPT ![p] = label]
    /\ arg' = [arg EXCEPT ![p] = NOVOID]
    /\ UNCHANGED hp

GotoWith(p, label, a) ==
    /\ pc' = [pc EXCEPT ![p] = label]
    /\ arg' = [arg EXCEPT ![p] = a]
    /\ UNCHANGED hp

-----------------------------------------------------------------------------
(* The history of synchronisation (sync.c): a table of NHIST entries *)

Slot == 1..NHIST
NoEntry == <<NOVOID, "E_NULL">>

\* The first entry of the object; of NOVOID, the first one free.
FirstSlot(h, o) == CHOOSE i \in Slot : h[i][1] = o /\ \A j \in 1..(i - 1) : h[j][1] # o

Listed(h, o) == \E i \in Slot : h[i][1] = o

\* A full table keeps no trace of the object ("Tabela Cheia").
syncset(h, o, state) ==
    IF Listed(h, NOVOID) THEN [h EXCEPT ![FirstSlot(h, NOVOID)] = <<o, state>>] ELSE h

syncgot(h, o) ==
    IF Listed(h, o) THEN [h EXCEPT ![FirstSlot(h, o)] = <<o, "E_GOT">>] ELSE h

syncclr(h, o) ==
    IF Listed(h, o) THEN [h EXCEPT ![FirstSlot(h, o)] = NoEntry] ELSE h

-----------------------------------------------------------------------------
(* The hash queues of sleepers *)

\* Where the scan of the queue stops: before the first of lower priority.
InsertionPoints(q, pri) ==
    { i \in 1..(Len(q) + 1) :
        /\ \A j \in 1..(i - 1) : u_pri[q[j]] >= pri
        /\ i <= Len(q) => u_pri[q[i]] < pri }

\* The process puts itself on the queue of the object and gives up the CPU
\* at the next Dispatch.
Enqueue(p, o) ==
    LET b == PHASH[o] IN
    /\ \E i \in InsertionPoints(h_uproc[b], CallPri[o]) :
          h_uproc' = [h_uproc EXCEPT ![b] = InsertAt(@, i, p)]
    /\ u_state' = [u_state EXCEPT ![p] = "SCORESLP"]
    /\ u_sema' = [u_sema EXCEPT ![p] = o]
    /\ u_pri' = [u_pri EXCEPT ![p] = CallPri[o]]
    /\ UNCHANGED u_sigwake

\* Mutant: the scan does not compare u_sema with the object.
WaiterPositionsAnyObject(o) == DOMAIN h_uproc[PHASH[o]]

\* Positions of the processes queued on the object, in its hash queue.
WaiterPositions(o) ==
    { i \in DOMAIN h_uproc[PHASH[o]] : u_sema[h_uproc[PHASH[o]][i]] = o }


\* The first waiter leaves the queue with the object; it does not know yet.
HandOver(o) ==
    LET b == PHASH[o] IN
    /\ \E i \in WaiterPositions(o) :
          /\ \A j \in WaiterPositions(o) : i <= j
          /\ h_uproc' = [h_uproc EXCEPT ![b] = RemoveAt(@, i)]
          /\ u_sema' = [u_sema EXCEPT ![h_uproc[b][i]] = NOVOID]
          /\ u_state' = [u_state EXCEPT ![h_uproc[b][i]] = "SCORERDY"]
    /\ UNCHANGED u_sigwake

-----------------------------------------------------------------------------
(* Signals *)

\* sigpend: a signal that is not ignored; the ignored ones are dropped.
sigpend(p) == u_sig[p] \ {"IGN"} # {}

Interruptible(o) == CallPri[o] < PLIMIT

\* syncundo: what a waiter that gives up leaves in the object.  For an event
\* it decrements the byte although eventwait does not count.
syncundo(o) == IF o \in Sema THEN val[o] + 1 ELSE (val[o] - 1) % BYTE

\* Mutant: the process is woken but stays in the hash queue.
syncwakeupQueued(p, b) ==
    /\ val' = [val EXCEPT ![u_sema[p]] = syncundo(u_sema[p])]
    /\ u_sema' = [u_sema EXCEPT ![p] = NOVOID]
    /\ u_sigwake' = [u_sigwake EXCEPT ![p] = TRUE]
    /\ u_state' = [u_state EXCEPT ![p] = "SCORERDY"]
    /\ UNCHANGED h_uproc

\* syncwakeup: out of the hash queue b (if it is there), without the object.
syncwakeup(p, b) ==
    /\ h_uproc' = [h_uproc EXCEPT ![b] =
          IF p \in ToSet(@)
          THEN RemoveAt(@, CHOOSE i \in DOMAIN @ : @[i] = p) ELSE @]
    /\ val' = [val EXCEPT ![u_sema[p]] = syncundo(u_sema[p])]
    /\ u_sema' = [u_sema EXCEPT ![p] = NOVOID]
    /\ u_sigwake' = [u_sigwake EXCEPT ![p] = TRUE]
    /\ u_state' = IF u_state[p] = "SCORESLP"
                  THEN [u_state EXCEPT ![p] = "SCORERDY"] ELSE u_state

\* First half of sigproc: the signal is marked, the priority corrected (for KILL, as
\* when the superuser sends it).
SignalMark(p, s) ==
    /\ u_sig' = [u_sig EXCEPT ![p] = @ \cup {s}]
    /\ u_pri' = [u_pri EXCEPT ![p] =
          IF @ < PUSER \/ (@ >= PLIMIT /\ s = "KILL") THEN PUSER ELSE @]

\* Second half of sigproc, under the lock of the hash queue b.
SignalWake(p, b, pri) ==
    IF u_sema[p] # NOVOID /\ pri < PLIMIT
    THEN syncwakeup(p, b)
    ELSE UNCHANGED <<sleepVars, val, u_state>>

\* A signal sent by an interrupt routine (terminal, clock): no process runs
\* between the two halves.
SignalFromInterrupt(p, s) ==
    /\ s \notin u_sig[p]
    /\ SignalMark(p, s)
    /\ SignalWake(p, PHASH[u_sema[p]], u_pri'[p])
    /\ UNCHANGED <<u_synch, cpu, ctlVars>>

\* kill () by process k: the queue of the victim is found before it is locked.
KillMark(k, p, s) ==
    /\ At(k, "kernel") /\ k # p /\ s \notin u_sig[p]
    /\ SignalMark(p, s)
    /\ pc' = [pc EXCEPT ![k] = "kill"]
    /\ arg' = [arg EXCEPT ![k] = p]
    /\ hp' = [hp EXCEPT ![k] = PHASH[u_sema[p]]]
    /\ UNCHANGED <<u_state, sleepVars, u_synch, val, cpu>>

KillWake(k) ==
    /\ At(k, "kill")
    /\ SignalWake(arg[k], hp[k], u_pri[arg[k]])
    /\ pc' = [pc EXCEPT ![k] = "kernel"]
    /\ arg' = [arg EXCEPT ![k] = NOVOID]
    /\ hp' = [hp EXCEPT ![k] = PHASH[NOVOID]]
    /\ UNCHANGED <<u_pri, u_sig, u_synch, cpu>>

-----------------------------------------------------------------------------
(* Context switch *)

\* dispatcher (): u.u_pri is written before u changes to the next process, so
\* it is the process leaving the CPU that takes the priority of the next one.
DispatchTo(p, q) ==
    /\ cpu = p /\ u_state[p] # "SRUN" /\ u_state[q] = "SCORERDY"
    /\ u_state' = [u_state EXCEPT ![q] = "SRUN"]
    /\ u_pri' = [u_pri EXCEPT ![p] = u_pri[q]]
    /\ cpu' = q
    /\ UNCHANGED <<sleepVars, u_sig, u_synch, val, ctlVars>>

DispatchIdle(p) ==
    /\ cpu = p /\ u_state[p] # "SRUN"
    /\ \A q \in Proc : u_state[q] # "SCORERDY"
    /\ cpu' = Idle
    /\ UNCHANGED <<u_state, u_pri, sleepVars, u_sig, u_synch, val, ctlVars>>

\* procswitch (): the dispatcher process of the CPU found a ready process.
LeaveIdle(q) ==
    /\ cpu = Idle /\ u_state[q] = "SCORERDY"
    /\ u_state' = [u_state EXCEPT ![q] = "SRUN"]
    /\ cpu' = q
    /\ UNCHANGED <<u_pri, sleepVars, u_sig, u_synch, val, ctlVars>>

\* int_coda and the end of syscall (): the CPU goes to a better process.
Preempt(p) ==
    /\ Running(p) /\ (pc[p] = "user" \/ PREEMPT)
    /\ \E q \in Proc : u_state[q] = "SCORERDY" /\ u_pri[q] > u_pri[p]
    /\ u_state' = [u_state EXCEPT ![p] = "SCORERDY"]
    /\ UNCHANGED <<u_pri, sleepVars, u_sig, u_synch, val, cpu, ctlVars>>

\* Mutant: the priority decays below zero.
DecayedNoFloor(pri) == IF pri > PUSER THEN PUSER - 1 ELSE pri - 1

Decayed(pri) == IF pri > PUSER THEN PUSER - 1 ELSE IF pri > 0 THEN pri - 1 ELSE 0

\* Time slice of clock_int (): the process of the CPU decays below its base
\* even when it is already queued to sleep, the ready ones age.
TimeSlice ==
    /\ u_pri' = [p \in Proc |->
          IF p = cpu THEN Decayed(u_pri[p])
          ELSE IF u_state[p] = "SCORERDY" /\ u_pri[p] < MaxPri THEN u_pri[p] + 1
          ELSE u_pri[p]]
    /\ UNCHANGED <<u_state, sleepVars, u_sig, u_synch, val, cpu, ctlVars>>

-----------------------------------------------------------------------------
(* Entry to and exit from the kernel *)

EnterKernel(p) ==
    /\ At(p, "user")
    /\ Goto(p, "kernel")
    /\ UNCHANGED <<u_state, u_pri, sleepVars, u_sig, u_synch, val, cpu>>

\* jmpdo (u.u_qjmp) lands in syscall (), which gives EINTR; the pending
\* signals are executed (sigexec) on the way back to user mode.
LeaveKernel(p, done) ==
    /\ Running(p) /\ (pc[p] = "eintr" \/ (pc[p] = "kernel" /\ done))
    /\ Goto(p, "user")
    /\ u_sig' = [u_sig EXCEPT ![p] = {}]
    /\ UNCHANGED <<u_state, u_pri, sleepVars, u_synch, val, cpu>>

BaseInit ==
    /\ u_state \in [Proc -> {"SRUN", "SCORERDY"}]
    /\ cpu \in Proc
    /\ \A p \in Proc : u_state[p] = "SRUN" <=> p = cpu
    /\ u_pri = [p \in Proc |-> PUSER]
    /\ u_sema = [p \in Proc |-> NOVOID]
    /\ u_sigwake = [p \in Proc |-> FALSE]
    /\ u_sig = [p \in Proc |-> {}]
    /\ u_synch = [p \in Proc |-> [i \in Slot |-> NoEntry]]
    /\ h_uproc = [b \in Bucket |-> <<>>]
    /\ pc = [p \in Proc |-> "user"]
    /\ arg = [p \in Proc |-> NOVOID]
    /\ hp = [p \in Proc |-> PHASH[NOVOID]]
=============================================================================
