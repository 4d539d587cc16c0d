------------------------------- MODULE UProc --------------------------------
(***************************************************************************)
(* What the models of pipes and of the life of processes share: the        *)
(* entries of the table of processes, where each process is in the code,   *)
(* and the events it sleeps for.  There is no preemption in the kernel     *)
(* (the default): a stretch of code between two points where a process may *)
(* sleep is one action.  Events keep the promise checked in module Sync    *)
(* for sleeps that no signal breaks: marking one wakes all who wait.       *)
(***************************************************************************)
EXTENDS Integers, Sequences, FiniteSets, SequencesExt

CONSTANTS
    NPROC,      \* entries of the largest table of processes
    Sizes,      \* the systems looked at: entries of the table, KFILEs free for pipes
    NULL

Proc == 1 .. NPROC

\* The entry of INIT (scb.y_initpid).
initp == 1

\* i_notempty and i_notfull of the pipe, and the u_deadchild of each process.
i_notempty == <<"notempty", 0>>
i_notfull == <<"notfull", 0>>
u_deadchild(p) == <<"deadchild", p>>

Event == {i_notempty, i_notfull} \cup { u_deadchild(p) : p \in Proc }

ASSUME UProcAssumption ==
    /\ NPROC \in Nat \ {0, 1} /\ NULL \notin Event /\ NULL \notin Proc
    /\ Sizes \subseteq (2 .. NPROC) \X Nat

VARIABLES
    pc,         \* where the process is: in user mode or in a system call
    u_sema,     \* the event it sleeps for, or NULL
    occurred    \* events marked as occurred

uprocVars == <<pc, u_sema, occurred>>

\* The process may execute.
Runs(p, where) == pc[p] = where /\ u_sema[p] = NULL

\* EVENTWAIT, by a process that looks again at what it waits for when it returns.
Sleeps(p, e) == u_sema' = [u_sema EXCEPT ![p] = IF e \in occurred THEN NULL ELSE e]

\* EVENTDONE of all the events of a set.
EventDone(done) ==
    /\ occurred' = occurred \cup done
    /\ u_sema' = [p \in Proc |-> IF u_sema[p] \in done THEN NULL ELSE u_sema[p]]

Goto(p, where) == pc' = [pc EXCEPT ![p] = where]
=============================================================================
