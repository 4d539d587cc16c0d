----------------------------- MODULE Semaphore ------------------------------
(***************************************************************************)
(* Semaphores of several resources (sema.c).  e_count is the number of     *)
(* free resources, or minus the number of processes queued.  A resource    *)
(* may be freed by an interrupt routine: put_it_block () of the network    *)
(* buffers is called from the drivers.                                     *)
(***************************************************************************)
EXTENDS SleepLock

CONSTANT SemaCount      \* SEMAINIT: number of resources of each semaphore

ASSUME SemaAssumption == SemaCount \in [Sema -> Nat \ {0}]

VARIABLE passed         \* resources given to an interrupt routine to free

TakeSema(p, o) ==
    /\ val' = [val EXCEPT ![o] = @ - 1]
    /\ u_synch' = [u_synch EXCEPT ![p] = syncset(@, o, "E_GOT")]
    /\ held' = [held EXCEPT ![p] = @ \cup {o}]
    /\ Goto(p, "kernel")
    /\ UNCHANGED <<u_state, u_pri, sleepVars, u_sig, cpu, passed>>

\* The whole test is under e_lock, and so is the queueing.
TrySema(p, o) ==
    \/ val[o] > 0 /\ TakeSema(p, o)
    \/ /\ val[o] <= 0 /\ Interruptible(o) /\ sigpend(p)
       /\ Goto(p, "eintr")
       /\ UNCHANGED <<u_state, u_pri, sleepVars, u_sig, u_synch, val, cpu, held, passed>>
    \/ /\ val[o] <= 0 /\ ~(Interruptible(o) /\ sigpend(p))
       /\ val' = [val EXCEPT ![o] = @ - 1]
       /\ Enqueue(p, o)
       /\ u_synch' = [u_synch EXCEPT ![p] = syncset(@, o, "E_WAIT")]
       /\ u_sig' = IF Interruptible(o) THEN [u_sig EXCEPT ![p] = {}] ELSE u_sig
       /\ GotoWith(p, "asleep", o)
       /\ UNCHANGED <<cpu, held, passed>>

semalock(p, o) == At(p, "kernel") /\ o \notin held[p] /\ TrySema(p, o)

SemaLockAgain(p) == At(p, "semaagain") /\ TrySema(p, arg[p])

SemaLockAwake(p) ==
    LET o == arg[p] IN
    /\ At(p, "asleep") /\ o \in Sema
    /\ IF ~u_sigwake[p]
       THEN /\ u_synch' = [u_synch EXCEPT ![p] = syncgot(@, o)]
            /\ held' = [held EXCEPT ![p] = @ \cup {o}]
            /\ Goto(p, "kernel")
            /\ UNCHANGED <<u_sigwake, u_sig>>
       ELSE /\ u_sigwake' = [u_sigwake EXCEPT ![p] = FALSE]
            /\ UNCHANGED held
            /\ IF sigpend(p)
               THEN /\ u_synch' = [u_synch EXCEPT ![p] = syncclr(syncgot(@, o), o)]
                    /\ Goto(p, "eintr")
                    /\ UNCHANGED u_sig
               ELSE /\ u_synch' = [u_synch EXCEPT ![p] = syncgot(@, o)]
                    /\ GotoWith(p, "semaagain", o)
                    /\ u_sig' = [u_sig EXCEPT ![p] = {}]
    /\ UNCHANGED <<u_state, u_pri, u_sema, h_uproc, val, cpu, passed>>

\* Mutant: the count is tested after it was incremented.
FreeSemaLateTest(o) ==
    /\ val' = [val EXCEPT ![o] = @ + 1]
    /\ IF val[o] + 1 < 0 /\ WaiterPositions(o) # {} THEN HandOver(o)
       ELSE UNCHANGED <<u_state, sleepVars>>
    /\ UNCHANGED <<u_pri, u_sig, cpu>>

\* What semafree does to the semaphore, whoever calls it.
FreeSema(o) ==
    /\ val' = [val EXCEPT ![o] = @ + 1]
    /\ IF val[o] < 0 /\ WaiterPositions(o) # {} THEN HandOver(o)
       ELSE UNCHANGED <<u_state, sleepVars>>
    /\ UNCHANGED <<u_pri, u_sig, cpu>>

semafree(p, o) ==
    /\ At(p, "kernel") /\ o \in held[p] /\ o \in Sema
    /\ FreeSema(o)
    /\ u_synch' = [u_synch EXCEPT ![p] = syncclr(@, o)]
    /\ held' = [held EXCEPT ![p] = @ \ {o}]
    /\ UNCHANGED <<ctlVars, passed>>

\* The resource goes to a driver (e_flag = 0: no entry in the history) ...
PassSema(p, o) ==
    /\ At(p, "kernel") /\ o \in held[p] /\ o \in Sema
    /\ held' = [held EXCEPT ![p] = @ \ {o}]
    /\ passed' = [passed EXCEPT ![o] = @ + 1]
    /\ u_synch' = [u_synch EXCEPT ![p] = syncclr(@, o)]
    /\ UNCHANGED <<u_state, u_pri, sleepVars, u_sig, val, cpu, ctlVars>>

\* ... whose interrupt routine frees it.
SemaFreeFromInterrupt(o) ==
    /\ passed[o] > 0
    /\ passed' = [passed EXCEPT ![o] = @ - 1]
    /\ FreeSema(o)
    /\ UNCHANGED <<u_synch, held, ctlVars>>

\* Mutant: the test accepts a semaphore with no free resource.
sematestZero(p, o) ==
    At(p, "kernel") /\ o \notin held[p] /\ val[o] >= 0 /\ TakeSema(p, o)

sematest(p, o) ==
    At(p, "kernel") /\ o \notin held[p] /\ val[o] > 0 /\ TakeSema(p, o)
=============================================================================
