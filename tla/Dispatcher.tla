----------------------------- MODULE Dispatcher -----------------------------
(***************************************************************************)
(* The scheduler (dispat.c): the list of ready processes, the priority     *)
(* bestpri that int_coda () and syscall () compare with, the dispatcher in *)
(* the steps between which interrupt routines run, and the time slices of  *)
(* the clock (clock.c), by which the ready processes age.  A priority is a *)
(* short: nothing bounds the ageing, and it wraps round.                   *)
(*                                                                         *)
(* Sleeps and wake-ups are left without their objects, which are in Sync.  *)
(***************************************************************************)
EXTENDS Integers, Sequences, FiniteSets, SequencesExt

CONSTANTS
    Proc,       \* processes
    MINPRI,     \* least and greatest value of a short
    MAXPRI,
    PUSER,      \* base priority of user mode
    PLIMIT,     \* signals do not reach sleeps at it or above
    SleepPri,   \* priorities processes sleep at
    Signals,    \* signals sent: some of CATCH and KILL
    PREEMPT,    \* preemption in supervisor mode (scb.y_preemption_mask)
    NOUPROC     \* no process

ASSUME DispatcherAssumption ==
    /\ PUSER \in Nat \ {0} /\ PLIMIT \in Nat
    /\ MINPRI \in Int /\ MAXPRI \in Nat /\ MINPRI < 0
    /\ PUSER < PLIMIT /\ PLIMIT <= MAXPRI
    /\ SleepPri \subseteq PUSER..MAXPRI
    /\ Signals \subseteq {"CATCH", "KILL"}
    /\ PREEMPT \in BOOLEAN
    /\ NOUPROC \notin Proc /\ IsFiniteSet(Proc)

VARIABLES
    u_state,        \* SRUN, SCORERDY or SCORESLP
    u_pri,
    u_sig,          \* pending signals
    corerdylist,    \* the ready processes, best first
    bestpri,
    cpu,            \* process of the CPU; NOUPROC: the dispatcher of the CPU
    next_up,        \* chosen by the dispatcher, its context not loaded yet
    dispatching,    \* between the choice and ctxtld
    mode            \* user or kernel

vars == <<u_state, u_pri, u_sig, corerdylist, bestpri, cpu, next_up, dispatching, mode>>

Running(p) == cpu = p /\ u_state[p] = "SRUN"

\* Where insert_proc_in_corerdylist stops: before the first of lower priority.
Place(pri) ==
    CHOOSE i \in 1..(Len(corerdylist) + 1) :
        /\ i <= Len(corerdylist) => u_pri[corerdylist[i]] < pri
        /\ \A j \in 1..(i - 1) : u_pri[corerdylist[j]] >= pri

\* insert_proc_in_corerdylist
MakeReady(p) ==
    /\ corerdylist' = InsertAt(corerdylist, Place(u_pri[p]), p)
    /\ bestpri' = u_pri[corerdylist'[1]]
    /\ u_state' = [u_state EXCEPT ![p] = "SCORERDY"]

\* proc_ready_search, on a list that is not empty.
TakeFirst ==
    /\ next_up' = Head(corerdylist)
    /\ corerdylist' = Tail(corerdylist)
    /\ bestpri' = IF Len(corerdylist) = 1 THEN 0 ELSE u_pri[corerdylist[2]]

-----------------------------------------------------------------------------
(* Processes *)

EnterKernel(p) ==
    /\ Running(p) /\ mode[p] = "user"
    /\ mode' = [mode EXCEPT ![p] = "kernel"]
    /\ UNCHANGED <<u_state, u_pri, u_sig, corerdylist, bestpri, cpu, next_up, dispatching>>

\* The end of syscall (); the pending signals are executed.
LeaveKernel(p) ==
    /\ Running(p) /\ mode[p] = "kernel"
    /\ mode' = [mode EXCEPT ![p] = "user"]
    /\ IF u_pri[p] < bestpri THEN MakeReady(p) ELSE UNCHANGED <<u_state, corerdylist, bestpri>>
    /\ u_sig' = [u_sig EXCEPT ![p] = {}]
    /\ UNCHANGED <<u_pri, cpu, next_up, dispatching>>

\* A process queues itself to sleep and calls dispatcher ().
Sleep(p) ==
    /\ Running(p) /\ mode[p] = "kernel"
    /\ \E pri \in SleepPri : u_pri' = [u_pri EXCEPT ![p] = pri]
    /\ u_state' = [u_state EXCEPT ![p] = "SCORESLP"]
    /\ UNCHANGED <<u_sig, corerdylist, bestpri, cpu, next_up, dispatching, mode>>

\* Mutant: the state of the process is not looked at.
PreemptAsleep(p) ==
    /\ cpu = p /\ ~dispatching
    /\ mode[p] = "user" \/ PREEMPT
    /\ u_pri[p] < bestpri
    /\ MakeReady(p)
    /\ UNCHANGED <<u_pri, u_sig, cpu, next_up, dispatching, mode>>

\* int_coda: a better process is ready.
Preempt(p) ==
    /\ Running(p) /\ ~dispatching
    /\ mode[p] = "user" \/ PREEMPT
    /\ u_pri[p] < bestpri
    /\ MakeReady(p)
    /\ UNCHANGED <<u_pri, u_sig, cpu, next_up, dispatching, mode>>

\* sleepfree, semafree, eventdone and signals, from any process or interrupt.
Wake(p) ==
    /\ u_state[p] = "SCORESLP"
    /\ MakeReady(p)
    /\ UNCHANGED <<u_pri, u_sig, cpu, next_up, dispatching, mode>>

\* sigproc corrects the priority of a process wherever it is (for KILL, as when the
\* superuser sends it).
Signal(p, s) ==
    /\ s \notin u_sig[p]
    /\ u_sig' = [u_sig EXCEPT ![p] = @ \cup {s}]
    /\ u_pri' = [u_pri EXCEPT ![p] =
          IF @ < PUSER \/ (@ >= PLIMIT /\ s = "KILL") THEN PUSER ELSE @]
    /\ UNCHANGED <<u_state, corerdylist, bestpri, cpu, next_up, dispatching, mode>>

-----------------------------------------------------------------------------
(* The switch of context *)

\* dispatcher (): first half.
Search(p) ==
    /\ cpu = p /\ u_state[p] # "SRUN" /\ ~dispatching
    /\ dispatching' = TRUE
    /\ IF corerdylist = <<>>
       THEN next_up' = NOUPROC /\ UNCHANGED <<corerdylist, bestpri>>
       ELSE TakeFirst
    /\ UNCHANGED <<u_state, u_pri, u_sig, cpu, mode>>

\* Second half; u.u_pri is still that of the process that leaves the CPU.
Load(p) ==
    /\ cpu = p /\ dispatching
    /\ dispatching' = FALSE /\ next_up' = NOUPROC /\ cpu' = next_up
    /\ IF next_up = NOUPROC
       THEN UNCHANGED <<u_state, u_pri>>
       ELSE /\ u_state' = [u_state EXCEPT ![next_up] = "SRUN"]
            /\ u_pri' = [u_pri EXCEPT ![p] = u_pri[next_up]]
    /\ UNCHANGED <<u_sig, corerdylist, bestpri, mode>>

\* procswitch (): the dispatcher of the CPU.
IdleSearch ==
    /\ cpu = NOUPROC /\ ~dispatching /\ corerdylist # <<>>
    /\ dispatching' = TRUE
    /\ TakeFirst
    /\ UNCHANGED <<u_state, u_pri, u_sig, cpu, mode>>

IdleLoad ==
    /\ cpu = NOUPROC /\ dispatching
    /\ dispatching' = FALSE /\ next_up' = NOUPROC /\ cpu' = next_up
    /\ u_state' = [u_state EXCEPT ![next_up] = "SRUN"]
    /\ UNCHANGED <<u_pri, u_sig, corerdylist, bestpri, mode>>

-----------------------------------------------------------------------------
(* The clock *)

\* Mutant: the priority decays below zero.
DecayedNoFloor(pri) == IF pri > PUSER THEN PUSER - 1 ELSE pri - 1

Decayed(pri) == IF pri > PUSER THEN PUSER - 1 ELSE IF pri > 0 THEN pri - 1 ELSE 0

\* Mutant: the processes of the ready list do not age.
TimeSliceNoAgeing ==
    /\ u_pri' = [p \in Proc |-> IF p = cpu THEN Decayed(u_pri[p]) ELSE u_pri[p]]
    /\ bestpri' = IF corerdylist = <<>> THEN 0 ELSE u_pri'[corerdylist[1]]
    /\ UNCHANGED <<u_state, u_sig, corerdylist, cpu, next_up, dispatching, mode>>

\* One y_incpri more, in a short.
Aged(pri) == IF pri = MAXPRI THEN MINPRI ELSE pri + 1

\* The process of the CPU decays, those of the ready list age.
TimeSlice ==
    LET pri == [p \in Proc |-> IF p = cpu THEN Decayed(u_pri[p]) ELSE u_pri[p]]
    IN  /\ u_pri' = [p \in Proc |-> IF p \in ToSet(corerdylist) THEN Aged(pri[p]) ELSE pri[p]]
        /\ bestpri' = IF corerdylist = <<>> THEN 0 ELSE u_pri'[corerdylist[1]]
        /\ UNCHANGED <<u_state, u_sig, corerdylist, cpu, next_up, dispatching, mode>>

-----------------------------------------------------------------------------

Init ==
    /\ cpu \in Proc
    /\ u_state = [p \in Proc |-> IF p = cpu THEN "SRUN" ELSE "SCORERDY"]
    /\ u_pri = [p \in Proc |-> PUSER]
    /\ corerdylist \in SetToSeqs(Proc \ {cpu})
    /\ u_sig = [p \in Proc |-> {}]
    /\ bestpri = IF corerdylist = <<>> THEN 0 ELSE PUSER
    /\ next_up = NOUPROC
    /\ dispatching = FALSE
    /\ mode = [p \in Proc |-> "user"]

InterruptStep == TimeSlice \/ \E p \in Proc : Wake(p) \/ \E s \in Signals : Signal(p, s)

ProcessStep(p) == EnterKernel(p) \/ LeaveKernel(p) \/ Sleep(p) \/ Preempt(p)

SwitchStep == IdleSearch \/ IdleLoad \/ \E p \in Proc : Search(p) \/ Load(p)

Next == InterruptStep \/ SwitchStep \/ \E p \in Proc : ProcessStep(p)

Spec == Init /\ [][Next]_vars

\* The clock ticks, the dispatcher goes on, and a process that has the CPU in the
\* kernel sleeps or leaves.  Every interrupt ends in int_coda, so that it finds a
\* better process again and again if there is one again and again.
Fairness ==
    /\ WF_vars(TimeSlice) /\ WF_vars(SwitchStep)
    /\ \A p \in Proc : WF_vars(LeaveKernel(p) \/ Sleep(p)) /\ SF_vars(Preempt(p))

FairSpec == Spec /\ Fairness

-----------------------------------------------------------------------------
(* Properties *)

\* Types.
TypeOK ==
    /\ u_state \in [Proc -> {"SRUN", "SCORERDY", "SCORESLP"}]
    /\ u_pri \in [Proc -> MINPRI..MAXPRI]
    /\ u_sig \in [Proc -> SUBSET Signals]
    /\ corerdylist \in Seq(Proc)
    /\ bestpri \in MINPRI..MAXPRI
    /\ cpu \in Proc \cup {NOUPROC}
    /\ next_up \in Proc \cup {NOUPROC}
    /\ dispatching \in BOOLEAN
    /\ mode \in [Proc -> {"user", "kernel"}]

\* dispat.c: a process is in the ready list, once, exactly while it is SCORERDY,
\* except between its choice and its dispatch; so the dispatcher never chooses a
\* process that is not ready (the panic of proc_ready_search).
ReadyListExact ==
    /\ IsInjective(corerdylist)
    /\ \A p \in Proc :
          u_state[p] = "SCORERDY" <=> p \in ToSet(corerdylist) \/ (dispatching /\ p = next_up)
    /\ dispatching => next_up \notin ToSet(corerdylist)

\* clock.c, vector.s: a process that computes does not keep the CPU from the ready ones: one of
\* them gets it, unless the process calls the kernel.
ComputingIsShared ==
    \A p \in Proc :
        (Running(p) /\ mode[p] = "user" /\ corerdylist # <<>>) ~>
            (mode[p] = "kernel" \/ \E q \in Proc \ {p} : Running(q))
=============================================================================
