-------------------------------- MODULE Sync --------------------------------
(***************************************************************************)
(* The synchronisation of the kernel as a whole: processes that lock, wait *)
(* and free, interrupt routines that free resources, mark events and send  *)
(* signals, the clock, and the switch of context between processes.        *)
(***************************************************************************)
EXTENDS Semaphore, Events

CONSTANTS
    Rank,       \* order in which a process takes the objects it holds together
    Killers,    \* processes that call kill ()
    CLOCK       \* the time slice of the clock is modelled

ASSUME DriverAssumption ==
    Rank \in [Obj -> Nat] /\ Killers \subseteq Proc /\ CLOCK \in BOOLEAN

vars == <<u_state, u_pri, u_sema, u_sigwake, u_sig, u_synch, h_uproc, val, cpu,
          pc, arg, hp, held, passed>>

Init ==
    /\ BaseInit
    /\ val = [o \in Obj |-> IF o \in Sema THEN SemaCount[o] ELSE 0]
    /\ held = [p \in Proc |-> {}]
    /\ passed = [o \in Sema |-> 0]

\* How the callers in the kernel use the objects: what is held is taken in the
\* order of Rank, and sleeps that signals may break are made holding nothing.
MaySleep(p, o) ==
    held[p] = {} \/ (~Interruptible(o) /\ \A h \in held[p] : Rank[h] < Rank[o])

LockStep(p) ==
    /\ \/ \E o \in Lock : \/ MaySleep(p, o) /\ sleeplock(p, o)
                          \/ sleeptest(p, o)
                          \/ sleepfree(p, o)
       \/ arg[p] \in Lock /\ (SleepLockAgain(p) \/ SleepLockQueue(p) \/ SleepLockAwake(p))
    /\ UNCHANGED passed

SemaStep(p) ==
    \/ \E o \in Sema : \/ MaySleep(p, o) /\ semalock(p, o)
                       \/ sematest(p, o)
                       \/ semafree(p, o)
                       \/ PassSema(p, o)
    \/ arg[p] \in Sema /\ (SemaLockAgain(p) \/ SemaLockAwake(p))

EventStep(p) ==
    /\ \/ \E e \in Event : \/ MaySleep(p, e) /\ eventwait(p, e)
                           \/ eventdone(p, e)
                           \/ eventclear(p, e)
       \/ arg[p] \in Event /\ (EventWaitAgain(p) \/ EventWaitQueue(p) \/ EventWaitAwake(p))
    /\ UNCHANGED <<held, passed>>

KillStep(k) ==
    /\ \/ k \in Killers /\ \E p \in Proc, s \in Signals : KillMark(k, p, s)
       \/ KillWake(k)
    /\ UNCHANGED <<held, passed>>

UserStep(p) ==
    (EnterKernel(p) \/ LeaveKernel(p, held[p] = {})) /\ UNCHANGED <<held, passed>>

SwitchStep(p) ==
    /\ \/ \E q \in Proc : DispatchTo(p, q)
       \/ DispatchIdle(p)
       \/ LeaveIdle(p)
       \/ Preempt(p)
    /\ UNCHANGED <<held, passed>>

InterruptStep ==
    \/ \E p \in Proc, s \in Signals : SignalFromInterrupt(p, s) /\ UNCHANGED <<held, passed>>
    \/ \E o \in Sema : SemaFreeFromInterrupt(o)
    \/ \E e \in Event : EventDone(e) /\ UNCHANGED <<held, passed>>
    \/ CLOCK /\ TimeSlice /\ UNCHANGED <<held, passed>>

ProcessStep(p) ==
    LockStep(p) \/ SemaStep(p) \/ EventStep(p) \/ KillStep(p) \/ UserStep(p)

Next == InterruptStep \/ \E p \in Proc : ProcessStep(p) \/ SwitchStep(p)

Spec == Init /\ [][Next]_vars

-----------------------------------------------------------------------------
(* Who owns and who waits *)

\* The object was handed over while the process slept; it has yet to run.
Granted(p, o) ==
    pc[p] = "asleep" /\ arg[p] = o /\ u_sema[p] = NOVOID /\ ~u_sigwake[p]

Owners(o) == { p \in Proc : o \in held[p] \/ Granted(p, o) }

Waiters(o) == { p \in Proc : u_sema[p] = o }

-----------------------------------------------------------------------------
(* Fairness *)

\* A process in the kernel that has the CPU goes on.  System calls end: some
\* process leaves the kernel, and locks and semaphores are freed.  Interrupts of
\* the clock and of the devices keep coming.  int_coda and the end of syscall
\* look for a better process each time they are reached.  That a ready process is
\* dispatched some day is an assumption: the dispatcher does not see to it, as two
\* processes that sleep and wake in turn may keep a third one out.
Rest == UNCHANGED <<held, passed>>

Fairness ==
    /\ \A p \in Proc :
          /\ WF_vars(pc[p] # "user" /\ ProcessStep(p))
          /\ WF_vars(SwitchStep(p))
          /\ SF_vars((LeaveIdle(p) \/ \E q \in Proc : DispatchTo(q, p)) /\ Rest)
    /\ SF_vars(\E p \in Proc : LeaveKernel(p, held[p] = {}) /\ Rest)
    /\ SF_vars(\E p \in Proc : \/ \E o \in Lock : sleepfree(p, o) /\ UNCHANGED passed
                               \/ \E o \in Sema : semafree(p, o))
    /\ SF_vars(\E p \in Proc : Preempt(p) /\ Rest)
    /\ \A o \in Sema : WF_vars(SemaFreeFromInterrupt(o))
    /\ \A e \in Event : WF_vars(EventDone(e) /\ Rest)
    /\ WF_vars(TimeSlice /\ Rest)

FairSpec == Spec /\ Fairness

-----------------------------------------------------------------------------
(* Properties *)

Label == {"user", "kernel", "eintr", "kill", "asleep", "sleepqueue", "sleepagain",
          "semaagain", "eventqueue", "eventagain"}

\* Types.  The byte of a lock or event stays a byte (uchar).
TypeOK ==
    /\ u_state \in [Proc -> {"SRUN", "SCORERDY", "SCORESLP"}]
    /\ u_pri \in [Proc -> 0..MaxPri]
    /\ u_sema \in [Proc -> Obj \cup {NOVOID}]
    /\ u_sigwake \in [Proc -> BOOLEAN]
    /\ u_sig \in [Proc -> SUBSET Signals]
    /\ u_synch \in [Proc -> [Slot -> (Obj \cup {NOVOID}) \X {"E_NULL", "E_WAIT", "E_GOT"}]]
    /\ h_uproc \in [Bucket -> Seq(Proc)]
    /\ val \in [Obj -> Int]
    /\ \A o \in Lock \cup Event : val[o] \in 0..(BYTE - 1)
    /\ cpu \in Proc \cup {Idle}
    /\ pc \in [Proc -> Label]
    /\ arg \in [Proc -> Obj \cup Proc \cup {NOVOID}]
    /\ hp \in [Proc -> Bucket]
    /\ held \in [Proc -> SUBSET (Lock \cup Sema)]
    /\ passed \in [Sema -> Nat]

\* sleep.c, sema.c, event.c, signal.c: a process is in the hash queue of the
\* object it waits for and in no other, once, and exactly while it sleeps.
QueuesExact ==
    /\ \A p \in Proc : u_sema[p] # NOVOID <=> u_state[p] = "SCORESLP"
    /\ \A b \in Bucket, p \in Proc :
          p \in ToSet(h_uproc[b]) <=> u_sema[p] # NOVOID /\ PHASH[u_sema[p]] = b
    /\ \A b \in Bucket : \A i, j \in DOMAIN h_uproc[b] :
          h_uproc[b][i] = h_uproc[b][j] => i = j

\* sleep.c: a lock has one owner, counting the one it was handed to in its
\* sleep, whatever signals break the sleeps of the others.
LockExclusion == \A o \in Lock : \A p, q \in Owners(o) : p = q

\* sleep.c: the byte of a lock is busy exactly while somebody owns it and counts
\* the processes queued; a lock nobody owns has nobody waiting.
LockByteExact ==
    \A o \in Lock :
        IF Owners(o) = {} THEN val[o] = 0 /\ Waiters(o) = {}
        ELSE val[o] = BUSY + Cardinality(Waiters(o))

\* sema.c: e_count is what is free less what is waited for, so no process waits
\* for a semaphore with a free resource.
SemaCountExact ==
    \A o \in Sema :
        LET used == Cardinality(Owners(o)) + passed[o] IN
        /\ used <= SemaCount[o]
        /\ val[o] = SemaCount[o] - used - Cardinality(Waiters(o))
        /\ Waiters(o) # {} => used = SemaCount[o]

\* event.c: nobody is left asleep on an event that has occurred, and eventdone
\* will scan the queue when somebody is there.
EventWakesAll ==
    \A e \in Event : Waiters(e) # {} => val[e] = 1

\* sync.c, kexit.c: the history of a process that is not asleep has an entry
\* for each object it owns and for nothing else.
HistoryExact ==
    \A p \in Proc : pc[p] \in {"user", "kernel"} =>
        { e[1] : e \in { u_synch[p][i] : i \in Slot } } \ {NOVOID} = held[p]

\* sleep.c:131, event.c:125: only a sleep below PLIMIT is broken by a signal.
OnlyInterruptibleBroken ==
    [][\A p \in Proc : ~u_sigwake[p] /\ u_sigwake'[p] => Interruptible(u_sema[p])]_vars



\* sleep.c, sema.c: locks and semaphores are handed over as Handoff says.
H ==
    INSTANCE Handoff WITH
        Res <- Lock \cup Sema,
        Capacity <- [o \in Lock \cup Sema |-> IF o \in Sema THEN SemaCount[o] ELSE 1],
        owners <- [o \in Lock \cup Sema |-> Owners(o)],
        waiting <- [o \in Lock \cup Sema |-> Waiters(o)],
        out <- [o \in Lock \cup Sema |-> IF o \in Sema THEN passed[o] ELSE 0]

ImplementsHandoff == H!Spec
=============================================================================
