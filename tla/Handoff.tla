------------------------------- MODULE Handoff ------------------------------
(***************************************************************************)
(* What locks and semaphores promise: a resource of some capacity, given   *)
(* to at most that many owners.  Freeing it while somebody waits gives it  *)
(* to a waiter in the same step, so it is never free while somebody waits  *)
(* and nobody that comes later can take it first.                          *)
(***************************************************************************)
EXTENDS Naturals, FiniteSets

CONSTANTS Proc, Res, Capacity

VARIABLES
    owners,     \* who has the resource
    waiting,    \* who waits for it
    out         \* units an interrupt routine will free

vars == <<owners, waiting, out>>

Used(r) == Cardinality(owners[r]) + out[r]

Init ==
    /\ owners = [r \in Res |-> {}]
    /\ waiting = [r \in Res |-> {}]
    /\ out = [r \in Res |-> 0]

Take(p, r) ==
    /\ p \notin owners[r] /\ waiting[r] = {} /\ Used(r) < Capacity[r]
    /\ owners' = [owners EXCEPT ![r] = @ \cup {p}]
    /\ UNCHANGED <<waiting, out>>

Wait(p, r) ==
    /\ p \notin owners[r] /\ p \notin waiting[r] /\ Used(r) = Capacity[r]
    /\ waiting' = [waiting EXCEPT ![r] = @ \cup {p}]
    /\ UNCHANGED <<owners, out>>

\* Broken by a signal.
GiveUp(p, r) ==
    /\ p \in waiting[r]
    /\ waiting' = [waiting EXCEPT ![r] = @ \ {p}]
    /\ UNCHANGED <<owners, out>>

\* The unit of an owner goes to a waiter, if there is one.
Free(p, r) ==
    /\ p \in owners[r]
    /\ \/ waiting[r] = {} /\ owners' = [owners EXCEPT ![r] = @ \ {p}] /\ UNCHANGED waiting
       \/ \E q \in waiting[r] :
             /\ owners' = [owners EXCEPT ![r] = (@ \ {p}) \cup {q}]
             /\ waiting' = [waiting EXCEPT ![r] = @ \ {q}]
    /\ UNCHANGED out

Pass(p, r) ==
    /\ p \in owners[r]
    /\ owners' = [owners EXCEPT ![r] = @ \ {p}]
    /\ out' = [out EXCEPT ![r] = @ + 1]
    /\ UNCHANGED waiting

FreeOut(r) ==
    /\ out[r] > 0
    /\ out' = [out EXCEPT ![r] = @ - 1]
    /\ \/ waiting[r] = {} /\ UNCHANGED <<owners, waiting>>
       \/ \E q \in waiting[r] :
             /\ owners' = [owners EXCEPT ![r] = @ \cup {q}]
             /\ waiting' = [waiting EXCEPT ![r] = @ \ {q}]

Next ==
    \E r \in Res :
        \/ FreeOut(r)
        \/ \E p \in Proc : \/ Take(p, r) \/ Wait(p, r) \/ GiveUp(p, r)
                           \/ Free(p, r) \/ Pass(p, r)

Spec == Init /\ [][Next]_vars
=============================================================================
