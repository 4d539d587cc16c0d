-------------------------- MODULE DispatcherProofs --------------------------
(***************************************************************************)
(* Theorems about Dispatcher, for any processes and any priorities.        *)
(***************************************************************************)
EXTENDS Dispatcher, QueueLemmas

-----------------------------------------------------------------------------
(* The inductive invariant *)

\* The CPU between the choice of a process and its dispatch: the one that leaves it does not
\* run, and the dispatcher of the CPU only begins when there is one to choose.
Switching ==
    /\ dispatching => cpu = NOUPROC \/ u_state[cpu] # "SRUN"
    /\ dispatching /\ cpu = NOUPROC => next_up # NOUPROC
    /\ ~dispatching => next_up = NOUPROC

IInv == TypeOK /\ ReadyListExact /\ Switching

-----------------------------------------------------------------------------
(* The ready list *)

\* There is a place for every priority.
LEMMA PlaceFacts ==
    ASSUME TypeOK, NEW pri \in MINPRI .. MAXPRI
    PROVE  Place(pri) \in 1 .. (Len(corerdylist) + 1)
<1> DEFINE worse == { i \in 1 .. Len(corerdylist) : u_pri[corerdylist[i]] < pri }
           P(i) == /\ i <= Len(corerdylist) => u_pri[corerdylist[i]] < pri
                   /\ \A j \in 1 .. (i - 1) : u_pri[corerdylist[j]] >= pri
<1>1. /\ Len(corerdylist) \in Nat
      /\ \A i \in 1 .. Len(corerdylist) : u_pri[corerdylist[i]] \in Int
      /\ pri \in Int
  BY DispatcherAssumption DEF TypeOK
<1>2. \E i \in 1 .. (Len(corerdylist) + 1) : P(i)
  <2>1. CASE worse = {}
    <3>1. \A j \in 1 .. Len(corerdylist) : u_pri[corerdylist[j]] >= pri
      BY <1>1, <2>1
    <3>2. Len(corerdylist) + 1 - 1 = Len(corerdylist) /\ ~(Len(corerdylist) + 1 <= Len(corerdylist))
      BY <1>1
    <3>3. P(Len(corerdylist) + 1)
      <4>1. \A j \in 1 .. (Len(corerdylist) + 1 - 1) : u_pri[corerdylist[j]] >= pri
        BY <3>1, <3>2
      <4> QED BY <3>2, <4>1
    <3> QED BY <1>1, <3>3
  <2>2. CASE worse # {}
    <3>0. worse \in SUBSET Nat
      BY <1>1
    <3>1. PICK i \in worse : \A j \in worse : i <= j
      <4> HIDE DEF worse
      <4> QED BY <2>2, <3>0, Least
    <3>2. \A j \in 1 .. (i - 1) : j \in 1 .. Len(corerdylist) /\ ~(i <= j)
      BY <1>1, <3>1
    <3>3. \A j \in 1 .. (i - 1) : u_pri[corerdylist[j]] >= pri
      BY <1>1, <3>1, <3>2
    <3> QED BY <1>1, <3>1, <3>3
  <2> QED BY <2>1, <2>2
<1> QED BY <1>2 DEF Place

\* A process that was not ready is made ready.
LEMMA MakeReadyKeeps ==
    ASSUME IInv, NEW p \in Proc, u_state[p] # "SCORERDY", MakeReady(p)
    PROVE  /\ corerdylist' \in Seq(Proc) /\ NoRepeat(corerdylist')
           /\ ToSet(corerdylist') = ToSet(corerdylist) \cup {p}
           /\ bestpri' \in MINPRI .. MAXPRI
           /\ u_state' = [u_state EXCEPT ![p] = "SCORERDY"]
<1>1. u_pri[p] \in MINPRI .. MAXPRI /\ corerdylist \in Seq(Proc)
  BY DEF IInv, TypeOK
<1>2. Place(u_pri[p]) \in 1 .. (Len(corerdylist) + 1)
  BY <1>1, PlaceFacts DEF IInv
<1>3. NoRepeat(corerdylist) /\ p \notin ToSet(corerdylist)
  BY DEF IInv, ReadyListExact, NoRepeat, IsInjective
<1>4. corerdylist' = InsertAt(corerdylist, Place(u_pri[p]), p)
  BY DEF MakeReady
<1>5. /\ corerdylist' \in Seq(Proc) /\ NoRepeat(corerdylist')
      /\ ToSet(corerdylist') = ToSet(corerdylist) \cup {p}
  BY <1>1, <1>2, <1>3, <1>4, InsertAtElements
<1>6. Len(corerdylist') = Len(corerdylist) + 1
  BY <1>1, <1>2, <1>4, InsertAtShape
<1>7. corerdylist'[1] \in Proc
  BY <1>1, <1>5, <1>6
<1>8. bestpri' \in MINPRI .. MAXPRI
  BY <1>7 DEF MakeReady, IInv, TypeOK
<1> QED BY <1>5, <1>8 DEF MakeReady

\* The first of the list is taken.
LEMMA TakeFirstKeeps ==
    ASSUME IInv, corerdylist # <<>>, TakeFirst
    PROVE  /\ next_up' \in ToSet(corerdylist) /\ next_up' \in Proc
           /\ corerdylist' \in Seq(Proc) /\ NoRepeat(corerdylist')
           /\ ToSet(corerdylist') = ToSet(corerdylist) \ {next_up'}
           /\ bestpri' \in MINPRI .. MAXPRI
<1>1. corerdylist \in Seq(Proc) /\ NoRepeat(corerdylist)
  BY DEF IInv, TypeOK, ReadyListExact, NoRepeat, IsInjective
<1>2. Len(corerdylist) \in Nat /\ Len(corerdylist) > 0
  BY <1>1
<1>3. /\ next_up' \in ToSet(corerdylist) /\ next_up' \in Proc
      /\ corerdylist' \in Seq(Proc) /\ NoRepeat(corerdylist')
      /\ ToSet(corerdylist') = ToSet(corerdylist) \ {next_up'}
  BY <1>1, <1>2, TailElements DEF TakeFirst
<1>4. bestpri' \in MINPRI .. MAXPRI
  <2>1. CASE Len(corerdylist) = 1
    BY <2>1, DispatcherAssumption DEF TakeFirst
  <2>2. CASE Len(corerdylist) # 1
    <3>1. Len(corerdylist) >= 2 /\ 2 \in 1 .. Len(corerdylist)
      BY <1>2, <2>2
    <3>2. corerdylist[2] \in Proc
      BY <1>1, <3>1, ElementOfSeq
    <3> QED BY <2>2, <3>2 DEF TakeFirst, IInv, TypeOK
  <2> QED BY <2>1, <2>2
<1> QED BY <1>3, <1>4

-----------------------------------------------------------------------------
(* The steps *)

\* The invariant holds at first.
LEMMA InitKeeps == Init => IInv
<1> SUFFICES ASSUME Init PROVE IInv
  OBVIOUS
<1>1. IsFiniteSet(Proc \ {cpu}) /\ cpu \in Proc /\ NOUPROC \notin Proc
  BY DispatcherAssumption, FS_RemoveElement DEF Init
<1>2. corerdylist \in Seq(Proc \ {cpu}) /\ NoRepeat(corerdylist) /\ ToSet(corerdylist) = Proc \ {cpu}
  BY <1>1, SeqOfAll DEF Init
<1>3. corerdylist \in Seq(Proc)
  BY <1>2
<1>4. PUSER \in MINPRI .. MAXPRI /\ 0 \in MINPRI .. MAXPRI
  BY DispatcherAssumption
<1>5. TypeOK
  BY <1>1, <1>3, <1>4 DEF Init, TypeOK
<1>6. ReadyListExact
  BY <1>1, <1>2 DEF Init, ReadyListExact, NoRepeat, IsInjective
<1>7. Switching
  BY DEF Init, Switching
<1> QED BY <1>5, <1>6, <1>7 DEF IInv

\* Making ready a process that runs, or sleeps, outside a switch in which it was chosen.
LEMMA ReadyStep ==
    ASSUME IInv, NEW p \in Proc, u_state[p] # "SCORERDY", MakeReady(p),
           UNCHANGED <<u_pri, cpu, next_up, dispatching>>,
           u_sig' \in [Proc -> SUBSET Signals], mode' \in [Proc -> {"user", "kernel"}]
    PROVE  IInv'
<1>1. /\ corerdylist' \in Seq(Proc) /\ NoRepeat(corerdylist')
      /\ ToSet(corerdylist') = ToSet(corerdylist) \cup {p}
      /\ bestpri' \in MINPRI .. MAXPRI
      /\ u_state' = [u_state EXCEPT ![p] = "SCORERDY"]
  BY MakeReadyKeeps
<1>2. TypeOK'
  BY <1>1 DEF IInv, TypeOK
<1>3. ReadyListExact'
  <2>1. \A q \in Proc : u_state'[q] = IF q = p THEN "SCORERDY" ELSE u_state[q]
    BY <1>1 DEF IInv, TypeOK
  <2>2. dispatching => p # next_up
    BY DEF IInv, ReadyListExact
  <2> QED BY <1>1, <2>1, <2>2 DEF IInv, ReadyListExact, NoRepeat, IsInjective
<1>4. Switching'
  <2>1. \A q \in Proc : u_state'[q] = "SRUN" => u_state[q] = "SRUN"
    BY <1>1 DEF IInv, TypeOK
  <2> QED BY <2>1 DEF IInv, Switching, TypeOK
<1> QED BY <1>2, <1>3, <1>4 DEF IInv

\* What a process does.
LEMMA ProcessKeeps ==
    ASSUME IInv, NEW p \in Proc, ProcessStep(p)
    PROVE  IInv'
<1>1. CASE EnterKernel(p)
  <2>1. TypeOK'
    BY <1>1 DEF EnterKernel, IInv, TypeOK
  <2>2. ReadyListExact' /\ Switching'
    BY <1>1 DEF EnterKernel, IInv, ReadyListExact, Switching
  <2> QED BY <2>1, <2>2 DEF IInv
<1>2. CASE LeaveKernel(p)
  <2>1. /\ u_sig' \in [Proc -> SUBSET Signals] /\ mode' \in [Proc -> {"user", "kernel"}]
        /\ UNCHANGED <<u_pri, cpu, next_up, dispatching>> /\ u_state[p] = "SRUN"
    BY <1>2 DEF LeaveKernel, Running, IInv, TypeOK
  <2>2. CASE u_pri[p] < bestpri
    BY <1>2, <2>1, <2>2, ReadyStep DEF LeaveKernel
  <2>3. CASE ~(u_pri[p] < bestpri)
    <3>1. UNCHANGED <<u_state, corerdylist, bestpri>>
      BY <1>2, <2>3 DEF LeaveKernel
    <3> QED BY <2>1, <3>1 DEF IInv, TypeOK, ReadyListExact, Switching
  <2> QED BY <2>2, <2>3
<1>3. CASE Sleep(p)
  <2>1. PICK pri \in SleepPri : u_pri' = [u_pri EXCEPT ![p] = pri]
    BY <1>3 DEF Sleep
  <2>2. pri \in MINPRI .. MAXPRI
    BY DispatcherAssumption
  <2>3. /\ u_state' = [u_state EXCEPT ![p] = "SCORESLP"] /\ u_state[p] = "SRUN"
        /\ UNCHANGED <<u_sig, corerdylist, bestpri, cpu, next_up, dispatching, mode>>
    BY <1>3 DEF Sleep, Running
  <2>4. \A q \in Proc : u_state'[q] = IF q = p THEN "SCORESLP" ELSE u_state[q]
    BY <2>3 DEF IInv, TypeOK
  <2>5. TypeOK'
    BY <2>1, <2>2, <2>3 DEF IInv, TypeOK
  <2>6. ReadyListExact'
    BY <2>3, <2>4 DEF IInv, ReadyListExact
  <2>7. Switching'
    BY <2>3, <2>4 DEF IInv, Switching, TypeOK
  <2> QED BY <2>5, <2>6, <2>7 DEF IInv
<1>4. CASE Preempt(p)
  BY <1>4, ReadyStep DEF Preempt, Running, IInv, TypeOK
<1> QED BY <1>1, <1>2, <1>3, <1>4 DEF ProcessStep

\* What interrupt routines do.
LEMMA InterruptKeeps ==
    ASSUME IInv, InterruptStep
    PROVE  IInv'
<1>1. CASE TimeSlice
  <2>1. u_pri' \in [Proc -> MINPRI .. MAXPRI]
    <3>1. \A p \in Proc : Decayed(u_pri[p]) \in MINPRI .. MAXPRI
      BY DispatcherAssumption DEF Decayed, IInv, TypeOK
    <3>2. \A p \in Proc : u_pri'[p] \in MINPRI .. MAXPRI
      BY <1>1, <3>1, DispatcherAssumption DEF TimeSlice, Aged, IInv, TypeOK
    <3>3. u_pri' = [p \in Proc |-> u_pri'[p]]
      BY <1>1 DEF TimeSlice
    <3> QED BY <3>2, <3>3
  <2>2. bestpri' \in MINPRI .. MAXPRI
    <3>1. CASE corerdylist = <<>>
      BY <1>1, <3>1, DispatcherAssumption DEF TimeSlice
    <3>2. CASE corerdylist # <<>>
      <4>1. corerdylist[1] \in Proc
        BY <3>2 DEF IInv, TypeOK
      <4>2. bestpri' = u_pri'[corerdylist[1]]
        BY <1>1, <3>2 DEF TimeSlice
      <4> QED BY <2>1, <4>1, <4>2
    <3> QED BY <3>1, <3>2
  <2>3. UNCHANGED <<u_state, u_sig, corerdylist, cpu, next_up, dispatching, mode>>
    BY <1>1 DEF TimeSlice
  <2>4. TypeOK'
    BY <2>1, <2>2, <2>3 DEF IInv, TypeOK
  <2> QED BY <2>3, <2>4 DEF IInv, ReadyListExact, Switching
<1>2. ASSUME NEW p \in Proc, Wake(p) PROVE IInv'
  BY <1>2, ReadyStep DEF Wake, IInv, TypeOK
<1>3. ASSUME NEW p \in Proc, NEW s \in Signals, Signal(p, s) PROVE IInv'
  <2>1. u_pri' \in [Proc -> MINPRI .. MAXPRI]
    BY <1>3, DispatcherAssumption DEF Signal, IInv, TypeOK
  <2>2. u_sig' \in [Proc -> SUBSET Signals]
    BY <1>3 DEF Signal, IInv, TypeOK
  <2>3. UNCHANGED <<u_state, corerdylist, bestpri, cpu, next_up, dispatching, mode>>
    BY <1>3 DEF Signal
  <2>4. TypeOK'
    BY <2>1, <2>2, <2>3 DEF IInv, TypeOK
  <2> QED BY <2>3, <2>4 DEF IInv, ReadyListExact, Switching
<1> QED BY <1>1, <1>2, <1>3 DEF InterruptStep

\* The first half of the switch, by a process or by the dispatcher of the CPU.
LEMMA ChooseStep ==
    ASSUME IInv, ~dispatching, dispatching', corerdylist # <<>>, TakeFirst,
           cpu = NOUPROC \/ u_state[cpu] # "SRUN",
           UNCHANGED <<u_state, u_pri, u_sig, cpu, mode>>
    PROVE  IInv'
<1>1. /\ next_up' \in ToSet(corerdylist) /\ next_up' \in Proc
      /\ corerdylist' \in Seq(Proc) /\ NoRepeat(corerdylist')
      /\ ToSet(corerdylist') = ToSet(corerdylist) \ {next_up'}
      /\ bestpri' \in MINPRI .. MAXPRI
  BY TakeFirstKeeps
<1>2. TypeOK'
  BY <1>1 DEF IInv, TypeOK
<1>3. ReadyListExact'
  BY <1>1 DEF IInv, ReadyListExact, NoRepeat, IsInjective
<1>4. Switching'
  BY <1>1, DispatcherAssumption DEF IInv, Switching
<1> QED BY <1>2, <1>3, <1>4 DEF IInv

\* The switch of context.
LEMMA SwitchKeeps ==
    ASSUME IInv, SwitchStep
    PROVE  IInv'
<1>1. CASE IdleSearch
  BY <1>1, ChooseStep DEF IdleSearch
<1>2. ASSUME dispatching, dispatching' = FALSE, next_up' = NOUPROC, next_up # NOUPROC, cpu' = next_up,
             u_state' = [u_state EXCEPT ![next_up] = "SRUN"], u_pri' \in [Proc -> MINPRI .. MAXPRI],
             UNCHANGED <<u_sig, corerdylist, bestpri, mode>>
      PROVE  IInv'
  <2>1. next_up \in Proc
    BY <1>2 DEF IInv, TypeOK
  <2>2. \A q \in Proc : u_state'[q] = IF q = next_up THEN "SRUN" ELSE u_state[q]
    BY <1>2, <2>1 DEF IInv, TypeOK
  <2>3. TypeOK'
    BY <1>2, <2>1 DEF IInv, TypeOK
  <2>4. ReadyListExact'
    BY <1>2, <2>2 DEF IInv, ReadyListExact
  <2>5. Switching'
    BY <1>2 DEF Switching
  <2> QED BY <2>3, <2>4, <2>5 DEF IInv
<1>3. CASE IdleLoad
  <2>1. next_up # NOUPROC
    BY <1>3 DEF IdleLoad, IInv, Switching
  <2> QED BY <1>2, <1>3, <2>1 DEF IdleLoad, IInv, TypeOK
<1>4. ASSUME NEW p \in Proc, Search(p) PROVE IInv'
  <2>1. CASE corerdylist = <<>>
    <3>1. /\ next_up' = NOUPROC /\ dispatching' = TRUE /\ ~dispatching
          /\ cpu = p /\ u_state[p] # "SRUN" /\ cpu # NOUPROC
          /\ UNCHANGED <<u_state, u_pri, u_sig, cpu, mode, corerdylist, bestpri>>
      BY <1>4, <2>1, DispatcherAssumption DEF Search
    <3>2. TypeOK'
      BY <3>1 DEF IInv, TypeOK
    <3>3. ReadyListExact'
      <4>1. ToSet(corerdylist) = {}
        BY <2>1 DEF ToSet
      <4>2. \A q \in Proc : q # NOUPROC
        BY DispatcherAssumption
      <4> QED BY <3>1, <4>1, <4>2 DEF IInv, ReadyListExact
    <3>4. Switching'
      BY <3>1 DEF Switching
    <3> QED BY <3>2, <3>3, <3>4 DEF IInv
  <2>2. CASE corerdylist # <<>>
    BY <1>4, <2>2, ChooseStep DEF Search
  <2> QED BY <2>1, <2>2
<1>5. ASSUME NEW p \in Proc, Load(p) PROVE IInv'
  <2>1. CASE next_up = NOUPROC
    <3>1. /\ dispatching /\ dispatching' = FALSE /\ next_up' = NOUPROC /\ cpu' = NOUPROC
          /\ UNCHANGED <<u_state, u_pri, u_sig, corerdylist, bestpri, mode>>
      BY <1>5, <2>1 DEF Load
    <3>2. TypeOK'
      BY <3>1 DEF IInv, TypeOK
    <3>3. ReadyListExact'
      <4>1. \A q \in Proc : q # NOUPROC
        BY DispatcherAssumption
      <4> QED BY <2>1, <3>1, <4>1 DEF IInv, ReadyListExact
    <3> QED BY <3>1, <3>2, <3>3 DEF IInv, Switching
  <2>2. CASE next_up # NOUPROC
    <3>1. next_up \in Proc
      BY <2>2 DEF IInv, TypeOK
    <3>2. u_pri' \in [Proc -> MINPRI .. MAXPRI]
      BY <1>5, <2>2, <3>1 DEF Load, IInv, TypeOK
    <3> QED BY <1>2, <1>5, <2>2, <3>2 DEF Load
  <2> QED BY <2>1, <2>2
<1> QED BY <1>1, <1>3, <1>4, <1>5 DEF SwitchStep

\* Every step keeps the invariant.
LEMMA NextKeeps == IInv /\ [Next]_vars => IInv'
<1> SUFFICES ASSUME IInv, [Next]_vars PROVE IInv'
  OBVIOUS
<1>1. CASE UNCHANGED vars
  BY <1>1 DEF vars, IInv, TypeOK, ReadyListExact, Switching
<1>2. CASE Next
  BY <1>2, InterruptKeeps, SwitchKeeps, ProcessKeeps DEF Next
<1> QED BY <1>1, <1>2

-----------------------------------------------------------------------------
(* The floor of the priorities *)

\* A ready process ages past the greatest short.
Wraps == TimeSlice /\ \E p \in ToSet(corerdylist) \ {cpu} : u_pri[p] = MAXPRI

NeverNegative == (\A p \in Proc : u_pri[p] >= 0) /\ bestpri >= 0

\* MakeReady leaves the priorities, and bestpri is one of them.
LEMMA MakeReadyFloor ==
    ASSUME IInv, NeverNegative, NEW p \in Proc, u_state[p] # "SCORERDY", MakeReady(p)
    PROVE  bestpri' >= 0
<1>1. corerdylist \in Seq(Proc) /\ corerdylist' \in Seq(Proc)
  BY MakeReadyKeeps DEF IInv, TypeOK
<1>2. Place(u_pri[p]) \in 1 .. (Len(corerdylist) + 1)
  BY PlaceFacts DEF IInv, TypeOK
<1>3. Len(corerdylist') = Len(corerdylist) + 1
  BY <1>1, <1>2, InsertAtShape DEF MakeReady
<1>4. corerdylist'[1] \in Proc
  BY <1>1, <1>3
<1> QED BY <1>4 DEF MakeReady, NeverNegative

\* TakeFirst too.
LEMMA TakeFirstFloor ==
    ASSUME IInv, NeverNegative, corerdylist # <<>>, TakeFirst
    PROVE  bestpri' >= 0
<1>1. corerdylist \in Seq(Proc) /\ Len(corerdylist) \in Nat /\ Len(corerdylist) > 0
  BY DEF IInv, TypeOK
<1>2. CASE Len(corerdylist) = 1
  BY <1>2 DEF TakeFirst
<1>3. CASE Len(corerdylist) # 1
  <2>1. \A n \in Nat : n > 0 /\ n # 1 => 2 \in 1 .. n
    OBVIOUS
  <2>2. 2 \in 1 .. Len(corerdylist)
    BY <1>1, <1>3, <2>1, Zenon
  <2>3. corerdylist[2] \in Proc
    BY <1>1, <2>2, ElementOfSeq
  <2> QED BY <1>3, <2>3 DEF TakeFirst, NeverNegative
<1> QED BY <1>2, <1>3

\* Every step that does not wrap a priority keeps them all from going below zero.
LEMMA FloorStep == IInv /\ NeverNegative /\ [Next]_vars /\ [~Wraps]_vars => NeverNegative'
<1> SUFFICES ASSUME IInv, NeverNegative, [Next]_vars, [~Wraps]_vars PROVE NeverNegative'
  OBVIOUS
<1>t. /\ u_pri \in [Proc -> MINPRI .. MAXPRI] /\ MINPRI \in Int /\ MAXPRI \in Nat
      /\ PUSER \in Nat \ {0} /\ SleepPri \subseteq PUSER .. MAXPRI
  BY DispatcherAssumption DEF IInv, TypeOK
<1>1. CASE UNCHANGED <<u_pri, bestpri>>
  BY <1>1 DEF NeverNegative
<1>2. ASSUME NEW p \in Proc, u_state[p] # "SCORERDY", MakeReady(p), UNCHANGED u_pri PROVE NeverNegative'
  BY <1>2, MakeReadyFloor DEF NeverNegative
<1>3. ASSUME NEW p \in Proc, ProcessStep(p) PROVE NeverNegative'
  <2>1. CASE EnterKernel(p)
    BY <1>1, <2>1 DEF EnterKernel
  <2>2. CASE LeaveKernel(p)
    BY <1>1, <1>2, <2>2 DEF LeaveKernel, Running
  <2>3. CASE Sleep(p)
    <3>1. PICK pri \in SleepPri : u_pri' = [u_pri EXCEPT ![p] = pri]
      BY <2>3 DEF Sleep
    <3>2. bestpri' = bestpri /\ pri >= 0
      BY <1>t, <2>3 DEF Sleep
    <3> QED BY <1>t, <3>1, <3>2 DEF NeverNegative
  <2>4. CASE Preempt(p)
    BY <1>2, <2>4 DEF Preempt, Running
  <2> QED BY <1>3, <2>1, <2>2, <2>3, <2>4 DEF ProcessStep
<1>4. CASE TimeSlice
  <2>1. ASSUME NEW p \in Proc PROVE u_pri'[p] >= 0
    <3> DEFINE pri == IF p = cpu THEN Decayed(u_pri[p]) ELSE u_pri[p]
    <3>1. u_pri'[p] = IF p \in ToSet(corerdylist) THEN Aged(pri) ELSE pri
      BY <1>4 DEF TimeSlice
    <3>2. pri \in MINPRI .. MAXPRI /\ pri >= 0
      BY <1>t, DispatcherAssumption DEF Decayed, NeverNegative
    <3>3. p \in ToSet(corerdylist) => pri # MAXPRI
      <4>1. CASE p = cpu
        BY <1>t, <4>1, DispatcherAssumption DEF Decayed
      <4>2. CASE p # cpu
        <5>1. ~Wraps \/ UNCHANGED vars
          OBVIOUS
        <5>2. CASE ~Wraps
          BY <1>4, <4>2, <5>2 DEF Wraps
        <5>3. CASE UNCHANGED vars
          <6>1. u_pri'[p] = u_pri[p]
            BY <5>3 DEF vars
          <6>2. Aged(pri) # pri
            BY <3>2, DispatcherAssumption DEF Aged
          <6> QED BY <3>1, <4>2, <6>1, <6>2
        <5> QED BY <5>1, <5>2, <5>3
      <4> QED BY <4>1, <4>2
    <3> HIDE DEF pri
    <3> QED BY <1>t, <3>1, <3>2, <3>3 DEF Aged
  <2>2. bestpri' >= 0
    <3>1. CASE corerdylist = <<>>
      BY <1>4, <3>1 DEF TimeSlice
    <3>2. CASE corerdylist # <<>>
      <4>1. corerdylist[1] \in Proc
        BY <3>2 DEF IInv, TypeOK
      <4> QED BY <1>4, <2>1, <3>2, <4>1 DEF TimeSlice
    <3> QED BY <3>1, <3>2
  <2> QED BY <2>1, <2>2 DEF NeverNegative
<1>5. ASSUME NEW p \in Proc, Wake(p) PROVE NeverNegative'
  BY <1>2, <1>5 DEF Wake
<1>6. ASSUME NEW p \in Proc, NEW s \in Signals, Signal(p, s) PROVE NeverNegative'
  BY <1>t, <1>6 DEF Signal, NeverNegative
<1>7. ASSUME corerdylist # <<>>, TakeFirst, UNCHANGED u_pri PROVE NeverNegative'
  BY <1>7, TakeFirstFloor DEF NeverNegative
<1>8. CASE SwitchStep
  <2>1. CASE IdleSearch
    BY <1>7, <2>1 DEF IdleSearch
  <2>2. CASE IdleLoad
    BY <1>1, <2>2 DEF IdleLoad
  <2>3. ASSUME NEW p \in Proc, Search(p) PROVE NeverNegative'
    BY <1>1, <1>7, <2>3 DEF Search
  <2>4. ASSUME NEW p \in Proc, Load(p) PROVE NeverNegative'
    <3>1. next_up \in Proc \cup {NOUPROC} /\ bestpri' = bestpri
      BY <2>4 DEF Load, IInv, TypeOK
    <3>2. CASE next_up = NOUPROC
      BY <1>1, <2>4, <3>2 DEF Load
    <3>3. CASE next_up # NOUPROC
      <4>1. u_pri' = [u_pri EXCEPT ![p] = u_pri[next_up]]
        BY <2>4, <3>3 DEF Load
      <4> QED BY <1>t, <3>1, <3>3, <4>1 DEF NeverNegative
    <3> QED BY <3>2, <3>3
  <2> QED BY <1>8, <2>1, <2>2, <2>3, <2>4 DEF SwitchStep
<1>9. CASE UNCHANGED vars
  BY <1>1, <1>9 DEF vars
<1> QED BY <1>3, <1>4, <1>5, <1>6, <1>8, <1>9 DEF Next, InterruptStep

-----------------------------------------------------------------------------
(* The theorems *)

\* The inductive invariant of the dispatcher.
THEOREM IInvAlways == Spec => []IInv
BY InitKeeps, NextKeeps, PTL DEF Spec

\* The types: the list and the choice of the dispatcher are of processes, and the priorities are shorts
\* (to which the ageing wraps; FloorKept says what else may bring one below zero: nothing).
THEOREM TypesCorrect == Spec => []TypeOK
<1>1. IInv => TypeOK
  BY DEF IInv
<1> QED BY <1>1, IInvAlways, PTL

\* A process is in the ready list, once, exactly while it is SCORERDY and not yet chosen: the
\* dispatcher never takes a process that is not ready, whatever interrupts the switch.
THEOREM ReadyListCorrect == Spec => []ReadyListExact
<1>1. IInv => ReadyListExact
  BY DEF IInv
<1> QED BY <1>1, IInvAlways, PTL

\* dispat.c, clock.c, signal.c: decay, signals, sleeps and the priorities that change hands at a switch
\* leave no priority below zero, nor bestpri: only the wrap of a ready process that aged too long does.
THEOREM FloorKept == Spec /\ [][~Wraps]_vars => []NeverNegative
<1>1. Init => NeverNegative
  BY DispatcherAssumption DEF Init, NeverNegative
<1>2. IInv /\ NeverNegative /\ [Next]_vars /\ [~Wraps]_vars => NeverNegative'
  BY FloorStep
<1> QED BY <1>1, <1>2, IInvAlways, PTL DEF Spec
=============================================================================
