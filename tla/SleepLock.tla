----------------------------- MODULE SleepLock ------------------------------
(***************************************************************************)
(* Locks a process may sleep on (sleep.c).  The byte of a lock is the bit  *)
(* 0x80 (busy) plus the number of processes queued; sleepfree hands the    *)
(* lock to the first one queued, without making it free.                   *)
(***************************************************************************)
EXTENDS SyncBase

VARIABLE held       \* what the code of each process knows it owns

BitClear(byte) == byte % BYTE < BUSY

\* TAS succeeded: the process has the lock.
TakeLock(p, o) ==
    /\ val' = [val EXCEPT ![o] = @ + BUSY]
    /\ u_synch' = [u_synch EXCEPT ![p] = syncset(@, o, "E_GOT")]
    /\ held' = [held EXCEPT ![p] = @ \cup {o}]
    /\ Goto(p, "kernel")
    /\ UNCHANGED <<u_state, u_pri, sleepVars, u_sig, cpu>>

\* The test of the byte and, if the lock is busy, of the pending signals.
\* Nothing is decided on the byte: it is tested again under the queue lock.
TryLock(p, o) ==
    \/ BitClear(val[o]) /\ TakeLock(p, o)
    \/ /\ ~BitClear(val[o])
       /\ IF Interruptible(o) /\ sigpend(p)
          THEN Goto(p, "eintr") /\ UNCHANGED u_sig
          ELSE /\ GotoWith(p, "sleepqueue", o)
               /\ u_sig' = IF Interruptible(o) THEN [u_sig EXCEPT ![p] = {}] ELSE u_sig
       /\ UNCHANGED <<u_state, u_pri, sleepVars, u_synch, val, cpu, held>>

sleeplock(p, o) == At(p, "kernel") /\ o \notin held[p] /\ TryLock(p, o)

\* goto again
SleepLockAgain(p) == At(p, "sleepagain") /\ TryLock(p, arg[p])

\* Mutant: the lock is not tested again under the lock of the queue.
SleepLockQueueNoTest(p) ==
    LET o == arg[p] IN
    /\ At(p, "sleepqueue")
    /\ val' = [val EXCEPT ![o] = (@ + 1) % BYTE]
    /\ Enqueue(p, o)
    /\ u_synch' = [u_synch EXCEPT ![p] = syncset(@, o, "E_WAIT")]
    /\ GotoWith(p, "asleep", o)
    /\ UNCHANGED <<u_sig, cpu, held>>

\* The lock is tested again, then the process counts itself and queues.
SleepLockQueue(p) ==
    LET o == arg[p] IN
    /\ At(p, "sleepqueue")
    /\ \/ BitClear(val[o]) /\ TakeLock(p, o)
       \/ /\ ~BitClear(val[o])
          /\ val' = [val EXCEPT ![o] = (@ + 1) % BYTE]
          /\ Enqueue(p, o)
          /\ u_synch' = [u_synch EXCEPT ![p] = syncset(@, o, "E_WAIT")]
          /\ GotoWith(p, "asleep", o)
          /\ UNCHANGED <<u_sig, cpu, held>>

\* After dispatcher (): with the lock, or broken by a signal.
SleepLockAwake(p) ==
    LET o == arg[p] IN
    /\ At(p, "asleep") /\ o \in Lock
    /\ IF ~u_sigwake[p]
       THEN /\ u_synch' = [u_synch EXCEPT ![p] = syncgot(@, o)]
            /\ held' = [held EXCEPT ![p] = @ \cup {o}]
            /\ Goto(p, "kernel")
            /\ UNCHANGED <<u_sigwake, u_sig>>
       ELSE /\ u_sigwake' = [u_sigwake EXCEPT ![p] = FALSE]
            /\ UNCHANGED held
            /\ IF sigpend(p)
               THEN /\ u_synch' = [u_synch EXCEPT ![p] = syncclr(syncgot(@, o), o)]
                    /\ Goto(p, "eintr")
                    /\ UNCHANGED u_sig
               ELSE /\ u_synch' = [u_synch EXCEPT ![p] = syncgot(@, o)]
                    /\ GotoWith(p, "sleepagain", o)
                    /\ u_sig' = [u_sig EXCEPT ![p] = {}]
    /\ UNCHANGED <<u_state, u_pri, u_sema, h_uproc, val, cpu>>

\* Mutant: the lock is made free although somebody gets it.
sleepfreeClear(p, o) ==
    /\ At(p, "kernel") /\ o \in held[p] /\ o \in Lock
    /\ u_synch' = [u_synch EXCEPT ![p] = syncclr(@, o)]
    /\ held' = [held EXCEPT ![p] = @ \ {o}]
    /\ val' = [val EXCEPT ![o] = @ - BUSY]
    /\ IF WaiterPositions(o) # {} THEN HandOver(o) ELSE UNCHANGED <<u_state, sleepVars>>
    /\ UNCHANGED <<u_pri, u_sig, cpu, ctlVars>>

\* Mutant: the entry of the history is not cleared.
sleepfreeKeepEntry(p, o) ==
    /\ At(p, "kernel") /\ o \in held[p] /\ o \in Lock
    /\ held' = [held EXCEPT ![p] = @ \ {o}]
    /\ val' = [val EXCEPT ![o] = IF @ = BUSY THEN 0 ELSE @ - 1]
    /\ IF WaiterPositions(o) # {} THEN HandOver(o) ELSE UNCHANGED <<u_state, sleepVars>>
    /\ UNCHANGED <<u_synch, u_pri, u_sig, cpu, ctlVars>>

sleepfree(p, o) ==
    /\ At(p, "kernel") /\ o \in held[p] /\ o \in Lock
    /\ u_synch' = [u_synch EXCEPT ![p] = syncclr(@, o)]
    /\ held' = [held EXCEPT ![p] = @ \ {o}]
    /\ \/ val[o] = 0 /\ UNCHANGED <<val, u_state, sleepVars>>
       \/ /\ val[o] = BUSY
          /\ val' = [val EXCEPT ![o] = 0]
          /\ UNCHANGED <<u_state, sleepVars>>
       \/ /\ val[o] \notin {0, BUSY}
          /\ val' = [val EXCEPT ![o] = @ - 1]
          /\ IF WaiterPositions(o) # {} THEN HandOver(o)
             ELSE UNCHANGED <<u_state, sleepVars>>
    /\ UNCHANGED <<u_pri, u_sig, cpu, ctlVars>>

sleeptest(p, o) ==
    /\ At(p, "kernel") /\ o \notin held[p]
    /\ BitClear(val[o]) /\ TakeLock(p, o)
=============================================================================
