------------------------------- MODULE Events -------------------------------
(***************************************************************************)
(* Events (event.c).  The byte of an event is 0x80 once it has occurred,   *)
(* otherwise 0x01 if somebody waits and 0 if nobody does.  eventdone is    *)
(* called by processes and by interrupt routines.                          *)
(***************************************************************************)
EXTENDS SyncBase

Occurred(e) == val[e] % BYTE >= BUSY

\* The test of the event and of the signals; tested again under the queue lock.
TryEvent(p, e) ==
    /\ IF Occurred(e)
       THEN Goto(p, "kernel") /\ UNCHANGED u_sig
       ELSE IF Interruptible(e) /\ sigpend(p)
       THEN Goto(p, "eintr") /\ UNCHANGED u_sig
       ELSE /\ GotoWith(p, "eventqueue", e)
            /\ u_sig' = IF Interruptible(e) THEN [u_sig EXCEPT ![p] = {}] ELSE u_sig
    /\ UNCHANGED <<u_state, u_pri, sleepVars, u_synch, val, cpu>>

eventwait(p, e) == At(p, "kernel") /\ TryEvent(p, e)

EventWaitAgain(p) == At(p, "eventagain") /\ TryEvent(p, arg[p])


\* The byte says that somebody waits, not how many.
EventWaitQueue(p) ==
    LET e == arg[p] IN
    /\ At(p, "eventqueue")
    /\ IF Occurred(e)
       THEN Goto(p, "kernel") /\ UNCHANGED <<u_state, u_pri, sleepVars, u_synch, val>>
       ELSE /\ val' = [val EXCEPT ![e] = 1]
            /\ Enqueue(p, e)
            /\ u_synch' = [u_synch EXCEPT ![p] = syncset(@, e, "E_WAIT")]
            /\ GotoWith(p, "asleep", e)
    /\ UNCHANGED <<u_sig, cpu>>

\* Back from the sleep: the event occurred, or a signal came.
EventWaitAwake(p) ==
    LET e == arg[p] IN
    /\ At(p, "asleep") /\ e \in Event
    /\ u_synch' = [u_synch EXCEPT ![p] = syncclr(@, e)]
    /\ u_sigwake' = [u_sigwake EXCEPT ![p] = FALSE]
    /\ IF ~u_sigwake[p]
       THEN Goto(p, "kernel") /\ UNCHANGED u_sig
       ELSE IF sigpend(p)
       THEN Goto(p, "eintr") /\ UNCHANGED u_sig
       ELSE GotoWith(p, "eventagain", e) /\ u_sig' = [u_sig EXCEPT ![p] = {}]
    /\ UNCHANGED <<u_state, u_pri, u_sema, h_uproc, val, cpu>>

\* The elements of S, in the order of the queue q.
InOrder(q, S) ==
    { r \in [1..Cardinality(S) -> S] :
        /\ \A x \in S : \E i \in DOMAIN r : r[i] = x
        /\ \A i, j \in DOMAIN r : i < j =>
              \E k, l \in DOMAIN q : k < l /\ q[k] = r[i] /\ q[l] = r[j] }

\* Everyone queued on the event is woken; the others stay, in their order.
WakeAll(e) ==
    LET b == PHASH[e]
        woken == { p \in ToSet(h_uproc[b]) : u_sema[p] = e }
    IN  /\ \E q \in InOrder(h_uproc[b], ToSet(h_uproc[b]) \ woken) :
              h_uproc' = [h_uproc EXCEPT ![b] = q]
        /\ u_sema' = [p \in Proc |-> IF p \in woken THEN NOVOID ELSE u_sema[p]]
        /\ u_state' = [p \in Proc |-> IF p \in woken THEN "SCORERDY" ELSE u_state[p]]
        /\ UNCHANGED u_sigwake

\* Mutant: only the first process queued is woken.
EventDoneFirst(e) ==
    /\ ~Occurred(e)
    /\ val' = [val EXCEPT ![e] = BUSY]
    /\ IF WaiterPositions(e) = {} THEN UNCHANGED <<u_state, sleepVars>> ELSE HandOver(e)
    /\ UNCHANGED <<u_pri, u_sig, u_synch, cpu, ctlVars>>

\* eventdone: the queue is only scanned if the byte says that somebody waits.
EventDone(e) ==
    /\ ~Occurred(e)
    /\ val' = [val EXCEPT ![e] = BUSY]
    /\ IF val[e] = 0 THEN UNCHANGED <<u_state, sleepVars>> ELSE WakeAll(e)
    /\ UNCHANGED <<u_pri, u_sig, u_synch, cpu, ctlVars>>

eventdone(p, e) == At(p, "kernel") /\ EventDone(e)

\* EVENTCLEAR is a plain store.  Whoever clears an event has seen it occur.
EventClear(e) ==
    /\ Occurred(e)
    /\ val' = [val EXCEPT ![e] = 0]
    /\ UNCHANGED <<u_state, u_pri, sleepVars, u_sig, u_synch, cpu, ctlVars>>

eventclear(p, e) == At(p, "kernel") /\ EventClear(e)
=============================================================================
