----------------------------- MODULE SyncProofs -----------------------------
(***************************************************************************)
(* Theorems about Sync, for any number of processes, objects and queues.   *)
(***************************************************************************)
EXTENDS Sync, QueueLemmas, FiniteSetTheorems

\* kill () finds the queue of its victim before it locks it; that queue is still
\* the right one if nothing ran in between, or if there is only one queue.
NoKillRace == ~PREEMPT \/ \A a, b \in Bucket : a = b

-----------------------------------------------------------------------------
(* Types *)

\* The process table starts with values of its types.
LEMMA InitTypes == Init => TypeOK
<1> SUFFICES ASSUME Init PROVE TypeOK
  OBVIOUS
<1> USE SyncAssumption, SemaAssumption DEF Init, BaseInit
<1>1. u_synch \in [Proc -> [Slot -> (Obj \cup {NOVOID}) \X {"E_NULL", "E_WAIT", "E_GOT"}]]
  BY DEF NoEntry
<1>2. val \in [Obj -> Int] /\ \A o \in Lock \cup Event : val[o] \in 0..(BYTE - 1)
  BY DEF Obj, BYTE
<1>3. /\ u_state \in [Proc -> {"SRUN", "SCORERDY", "SCORESLP"}]
      /\ u_pri \in [Proc -> 0..MaxPri]
      /\ u_sema \in [Proc -> Obj \cup {NOVOID}]
      /\ u_sigwake \in [Proc -> BOOLEAN]
      /\ u_sig \in [Proc -> SUBSET Signals]
      /\ h_uproc \in [Bucket -> Seq(Proc)]
      /\ cpu \in Proc \cup {Idle}
  OBVIOUS
<1>4. /\ pc \in [Proc -> Label]
      /\ arg \in [Proc -> Obj \cup Proc \cup {NOVOID}]
      /\ hp \in [Proc -> Bucket]
      /\ held \in [Proc -> SUBSET (Lock \cup Sema)]
      /\ passed \in [Sema -> Nat]
  BY DEF Label
<1> QED BY <1>1, <1>2, <1>3, <1>4 DEF TypeOK

\* The history stays a table of entries.
History == [Slot -> (Obj \cup {NOVOID}) \X {"E_NULL", "E_WAIT", "E_GOT"}]

\* syncset, syncgot and syncclr (sync.c) keep the history a table of entries.
LEMMA HistoryTypes ==
    ASSUME NEW h \in History, NEW o \in Obj
    PROVE  /\ \A st \in {"E_WAIT", "E_GOT"} : syncset(h, o, st) \in History
           /\ syncgot(h, o) \in History
           /\ syncclr(h, o) \in History
<1>1. \A e \in (Obj \cup {NOVOID}) \X {"E_NULL", "E_WAIT", "E_GOT"} :
         \A i : [h EXCEPT ![i] = e] \in History
  BY DEF History
<1>2. \A st \in {"E_NULL", "E_WAIT", "E_GOT"}, x \in Obj \cup {NOVOID} :
         <<x, st>> \in (Obj \cup {NOVOID}) \X {"E_NULL", "E_WAIT", "E_GOT"}
  OBVIOUS
<1>3. NoEntry \in (Obj \cup {NOVOID}) \X {"E_NULL", "E_WAIT", "E_GOT"}
  BY <1>2 DEF NoEntry
<1>4. ASSUME NEW st \in {"E_WAIT", "E_GOT"} PROVE syncset(h, o, st) \in History
  BY <1>1, <1>2, <1>4, Zenon DEF syncset
<1>5. syncgot(h, o) \in History
  BY <1>1, <1>2, Zenon DEF syncgot
<1>6. syncclr(h, o) \in History
  BY <1>1, <1>3, Zenon DEF syncclr
<1> QED BY <1>4, <1>5, <1>6

-----------------------------------------------------------------------------
(* The hash queues *)

\* The queues q hold exactly the sleepers of sm, each one once.
QueuesHold(q, sm) ==
    /\ q \in [Bucket -> Seq(Proc)]
    /\ \A b \in Bucket : NoRepeat(q[b])
    /\ \A b \in Bucket, p \in Proc :
          p \in ToSet(q[b]) <=> sm[p] # NOVOID /\ PHASH[sm[p]] = b

\* A process that was not queued puts itself on the queue of the object.
LEMMA EnqueueHolds ==
    ASSUME TypeOK, QueuesHold(h_uproc, u_sema),
           NEW p \in Proc, NEW o \in Obj, u_sema[p] = NOVOID, Enqueue(p, o)
    PROVE  /\ QueuesHold(h_uproc', u_sema')
           /\ u_sema' = [u_sema EXCEPT ![p] = o]
           /\ u_state' = [u_state EXCEPT ![p] = "SCORESLP"]
           /\ u_pri' = [u_pri EXCEPT ![p] = CallPri[o]]
           /\ UNCHANGED u_sigwake
<1> DEFINE b == PHASH[o]
<1>1. b \in Bucket /\ o # NOVOID
  BY SyncAssumption
<1>2. PICK i \in InsertionPoints(h_uproc[b], CallPri[o]) :
         h_uproc' = [h_uproc EXCEPT ![b] = InsertAt(@, i, p)]
  BY DEF Enqueue
<1>3. h_uproc \in [Bucket -> Seq(Proc)] /\ NoRepeat(h_uproc[b]) /\ p \notin ToSet(h_uproc[b])
  BY <1>1 DEF QueuesHold
<1>4. i \in 1..(Len(h_uproc[b]) + 1)
  BY <1>2 DEF InsertionPoints
<1> DEFINE t == InsertAt(h_uproc[b], i, p)
<1>5. t \in Seq(Proc) /\ ToSet(t) = ToSet(h_uproc[b]) \cup {p} /\ NoRepeat(t)
  BY <1>1, <1>3, <1>4, InsertAtElements
<1>6. h_uproc' = [h_uproc EXCEPT ![b] = t]
  BY <1>2
<1>7. u_sema' = [u_sema EXCEPT ![p] = o] /\ u_sema \in [Proc -> Obj \cup {NOVOID}]
  BY DEF Enqueue, TypeOK
<1> HIDE DEF t, b
<1>8. h_uproc' \in [Bucket -> Seq(Proc)] /\ \A c \in Bucket : NoRepeat(h_uproc'[c])
  BY <1>1, <1>3, <1>5, <1>6 DEF QueuesHold
<1>9. ASSUME NEW c \in Bucket, NEW q \in Proc
      PROVE  q \in ToSet(h_uproc'[c]) <=> u_sema'[q] # NOVOID /\ PHASH[u_sema'[q]] = c
  <2>1. q \in ToSet(h_uproc[c]) <=> u_sema[q] # NOVOID /\ PHASH[u_sema[q]] = c
    BY DEF QueuesHold
  <2>2. h_uproc'[c] = IF c = b THEN t ELSE h_uproc[c]
    BY <1>3, <1>6
  <2>3. u_sema'[q] = IF q = p THEN o ELSE u_sema[q]
    BY <1>7
  <2> QED BY <1>1, <1>5, <2>1, <2>2, <2>3 DEF b
<1> QED BY <1>7, <1>8, <1>9 DEF QueuesHold, Enqueue

\* Taking the processes of S out of the queue of one bucket, which becomes t.
LEMMA RemovalHolds ==
    ASSUME QueuesHold(h_uproc, u_sema), NEW b \in Bucket, NEW S, NEW t \in Seq(Proc),
           S \subseteq ToSet(h_uproc[b]), NoRepeat(t), ToSet(t) = ToSet(h_uproc[b]) \ S,
           h_uproc' = [h_uproc EXCEPT ![b] = t],
           \A p \in Proc : u_sema'[p] = IF p \in S THEN NOVOID ELSE u_sema[p]
    PROVE  QueuesHold(h_uproc', u_sema')
<1>1. \A c \in Bucket : h_uproc'[c] = IF c = b THEN t ELSE h_uproc[c]
  BY DEF QueuesHold
<1>2. h_uproc' \in [Bucket -> Seq(Proc)] /\ \A c \in Bucket : NoRepeat(h_uproc'[c])
  BY <1>1 DEF QueuesHold
<1>3. ASSUME NEW c \in Bucket, NEW p \in Proc
      PROVE  p \in ToSet(h_uproc'[c]) <=> u_sema'[p] # NOVOID /\ PHASH[u_sema'[p]] = c
  <2>1. p \in ToSet(h_uproc[c]) <=> u_sema[p] # NOVOID /\ PHASH[u_sema[p]] = c
    BY DEF QueuesHold
  <2>2. p \in S => u_sema[p] # NOVOID /\ PHASH[u_sema[p]] = b
    BY DEF QueuesHold
  <2>3. u_sema'[p] = IF p \in S THEN NOVOID ELSE u_sema[p]
    OBVIOUS
  <2>4. p \in ToSet(h_uproc'[c]) <=> p \in ToSet(h_uproc[c]) /\ ~(c = b /\ p \in S)
    BY <1>1
  <2> QED BY <2>1, <2>2, <2>3, <2>4
<1> QED BY <1>2, <1>3 DEF QueuesHold

\* The lock or semaphore goes to the first process queued on it.
LEMMA HandOverHolds ==
    ASSUME TypeOK, QueuesHold(h_uproc, u_sema), NEW o \in Obj, HandOver(o)
    PROVE  /\ QueuesHold(h_uproc', u_sema')
           /\ \E w \in Waiters(o) :
                 /\ u_sema' = [u_sema EXCEPT ![w] = NOVOID]
                 /\ u_state' = [u_state EXCEPT ![w] = "SCORERDY"]
           /\ UNCHANGED u_sigwake
<1> DEFINE b == PHASH[o]
<1>1. b \in Bucket
  BY SyncAssumption
<1>2. PICK i \in WaiterPositions(o) :
         /\ h_uproc' = [h_uproc EXCEPT ![b] = RemoveAt(@, i)]
         /\ u_sema' = [u_sema EXCEPT ![h_uproc[b][i]] = NOVOID]
         /\ u_state' = [u_state EXCEPT ![h_uproc[b][i]] = "SCORERDY"]
  BY DEF HandOver
<1>3. h_uproc[b] \in Seq(Proc) /\ NoRepeat(h_uproc[b]) /\ i \in 1..Len(h_uproc[b])
  BY <1>1, <1>2 DEF QueuesHold, WaiterPositions
<1> DEFINE w == h_uproc[b][i]
           t == RemoveAt(h_uproc[b], i)
<1>4. w \in Proc /\ w \in ToSet(h_uproc[b]) /\ u_sema[w] = o
  BY <1>2, <1>3 DEF WaiterPositions, ToSet
<1>5. t \in Seq(Proc) /\ ToSet(t) = ToSet(h_uproc[b]) \ {w} /\ NoRepeat(t)
  BY <1>3, RemoveAtElements
<1>6. u_sema \in [Proc -> Obj \cup {NOVOID}]
  BY DEF TypeOK
<1> HIDE DEF t, w
<1>7. h_uproc' = [h_uproc EXCEPT ![b] = t] /\ u_sema' = [u_sema EXCEPT ![w] = NOVOID]
  BY <1>2 DEF t, w
<1>8. \A p \in Proc : u_sema'[p] = IF p \in {w} THEN NOVOID ELSE u_sema[p]
  BY <1>4, <1>6, <1>7
<1>9. {w} \subseteq ToSet(h_uproc[b])
  BY <1>4
<1> HIDE DEF b
<1>10. QueuesHold(h_uproc', u_sema')
  BY <1>1, <1>5, <1>7, <1>8, <1>9, RemovalHolds
<1>11. w \in Waiters(o) /\ u_state' = [u_state EXCEPT ![w] = "SCORERDY"]
  BY <1>2, <1>4 DEF Waiters, w
<1> QED BY <1>7, <1>10, <1>11 DEF HandOver

\* A signal breaks the sleep of p, whose queue is b.
LEMMA WakeupHolds ==
    ASSUME TypeOK, QueuesHold(h_uproc, u_sema), NEW p \in Proc, NEW b \in Bucket,
           u_sema[p] # NOVOID, PHASH[u_sema[p]] = b, syncwakeup(p, b)
    PROVE  /\ QueuesHold(h_uproc', u_sema')
           /\ u_sema' = [u_sema EXCEPT ![p] = NOVOID]
<1>1. p \in ToSet(h_uproc[b]) /\ h_uproc[b] \in Seq(Proc) /\ NoRepeat(h_uproc[b])
  BY DEF QueuesHold
<1> DEFINE i == CHOOSE j \in DOMAIN h_uproc[b] : h_uproc[b][j] = p
<1>2. i \in 1..Len(h_uproc[b]) /\ h_uproc[b][i] = p
  <2>1. \E j \in DOMAIN h_uproc[b] : h_uproc[b][j] = p
    BY <1>1 DEF ToSet
  <2> QED BY <1>1, <2>1
<1> DEFINE t == RemoveAt(h_uproc[b], i)
<1>3. h_uproc' = [h_uproc EXCEPT ![b] = t]
  BY <1>1 DEF syncwakeup
<1> HIDE DEF i
<1>4. t \in Seq(Proc) /\ ToSet(t) = ToSet(h_uproc[b]) \ {p} /\ NoRepeat(t)
  BY <1>1, <1>2, RemoveAtElements
<1>5. u_sema \in [Proc -> Obj \cup {NOVOID}] /\ u_sema' = [u_sema EXCEPT ![p] = NOVOID]
  BY DEF TypeOK, syncwakeup
<1> HIDE DEF t
<1>6. \A q \in Proc : u_sema'[q] = IF q \in {p} THEN NOVOID ELSE u_sema[q]
  BY <1>5
<1>7. {p} \subseteq ToSet(h_uproc[b])
  BY <1>1
<1> QED BY <1>3, <1>4, <1>5, <1>6, <1>7, RemovalHolds

\* An event wakes everyone queued on it.
LEMMA WakeAllHolds ==
    ASSUME TypeOK, QueuesHold(h_uproc, u_sema), NEW e \in Obj, WakeAll(e)
    PROVE  /\ QueuesHold(h_uproc', u_sema')
           /\ u_sema' = [p \in Proc |-> IF u_sema[p] = e THEN NOVOID ELSE u_sema[p]]
           /\ u_state' = [p \in Proc |-> IF u_sema[p] = e THEN "SCORERDY" ELSE u_state[p]]
           /\ UNCHANGED u_sigwake
<1> DEFINE b == PHASH[e]
           woken == { p \in ToSet(h_uproc[b]) : u_sema[p] = e }
           rest == ToSet(h_uproc[b]) \ woken
<1>1. b \in Bucket /\ e # NOVOID /\ h_uproc[b] \in Seq(Proc) /\ NoRepeat(h_uproc[b])
  BY SyncAssumption DEF QueuesHold
<1>2. PICK r \in InOrder(h_uproc[b], rest) : h_uproc' = [h_uproc EXCEPT ![b] = r]
  BY DEF WakeAll
<1>3. ToSet(h_uproc[b]) \subseteq Proc
  BY <1>1 DEF ToSet
<1>4. \A p \in Proc : p \in woken <=> u_sema[p] = e
  BY <1>1, <1>3 DEF QueuesHold
<1>5. rest \subseteq Proc /\ IsFiniteSet(rest) /\ Cardinality(rest) \in Nat
  <2>1. IsFiniteSet(rest)
    BY <1>3, SyncAssumption, FS_Subset
  <2> QED BY <1>3, <2>1, FS_CardinalityType
<1> HIDE DEF rest
<1>6. /\ r \in [1..Cardinality(rest) -> rest]
      /\ \A x \in rest : \E i \in DOMAIN r : r[i] = x
      /\ \A i, j \in DOMAIN r : i < j =>
            \E k, l \in DOMAIN h_uproc[b] : k < l /\ h_uproc[b][k] = r[i] /\ h_uproc[b][l] = r[j]
  BY <1>2 DEF InOrder
<1>7. r \in Seq(Proc) /\ DOMAIN r = 1..Cardinality(rest)
  BY <1>5, <1>6
<1>8. ToSet(r) = rest
  BY <1>6, <1>7 DEF ToSet
<1>9. NoRepeat(r)
  <2>1. ASSUME NEW i \in DOMAIN r, NEW j \in DOMAIN r, i < j PROVE r[i] # r[j]
    <3>1. PICK k, l \in DOMAIN h_uproc[b] : k < l /\ h_uproc[b][k] = r[i] /\ h_uproc[b][l] = r[j]
      BY <1>6, <2>1
    <3>2. k # l
      BY <3>1, <1>1
    <3> QED BY <3>1, <3>2, <1>1 DEF NoRepeat
  <2>2. \A i, j \in DOMAIN r : i < j \/ j < i \/ i = j
    BY <1>5, <1>7
  <2> QED BY <2>1, <2>2 DEF NoRepeat
<1>10. u_sema \in [Proc -> Obj \cup {NOVOID}]
  BY DEF TypeOK
<1>11. /\ u_sema' = [p \in Proc |-> IF p \in woken THEN NOVOID ELSE u_sema[p]]
       /\ u_state' = [p \in Proc |-> IF p \in woken THEN "SCORERDY" ELSE u_state[p]]
       /\ UNCHANGED u_sigwake
  BY DEF WakeAll
<1>12. woken \subseteq ToSet(h_uproc[b]) /\ ToSet(r) = ToSet(h_uproc[b]) \ woken
  BY <1>8 DEF rest
<1>13. QueuesHold(h_uproc', u_sema')
  <2> HIDE DEF woken, b
  <2>1. \A p \in Proc : u_sema'[p] = IF p \in woken THEN NOVOID ELSE u_sema[p]
    BY <1>11
  <2> QED BY <2>1, <1>1, <1>2, <1>7, <1>9, <1>12, RemovalHolds
<1> HIDE DEF woken
<1> QED BY <1>4, <1>11, <1>13

-----------------------------------------------------------------------------
(* The inductive invariant *)

ByteTypes(v) == v \in [Obj -> Int] /\ \A o \in Lock \cup Event : v[o] \in 0..(BYTE - 1)
ProcTypes ==
    /\ u_state \in [Proc -> {"SRUN", "SCORERDY", "SCORESLP"}]
    /\ u_sema \in [Proc -> Obj \cup {NOVOID}]
    /\ u_sigwake \in [Proc -> BOOLEAN]
    /\ cpu \in Proc \cup {Idle}
PriTypes == u_pri \in [Proc -> 0..MaxPri]
SigTypes == u_sig \in [Proc -> SUBSET Signals]
HistTypes == u_synch \in [Proc -> History]
CtlTypes ==
    /\ pc \in [Proc -> Label]
    /\ arg \in [Proc -> Obj \cup Proc \cup {NOVOID}]
    /\ hp \in [Proc -> Bucket]
OwnTypes == held \in [Proc -> SUBSET (Lock \cup Sema)] /\ passed \in [Sema -> Nat]

Types ==
    /\ ProcTypes /\ PriTypes /\ SigTypes /\ HistTypes /\ CtlTypes /\ OwnTypes
    /\ ByteTypes(val)

\* Only the process of the CPU executes; a sleeper is where it went to sleep, and
\* kill () will look for its victim in the right queue.
CpuExact == \A p \in Proc : u_state[p] = "SRUN" => cpu = p
SleepExact ==
    \A p \in Proc : /\ u_sema[p] # NOVOID <=> u_state[p] = "SCORESLP"
                    /\ u_sema[p] # NOVOID => pc[p] = "asleep" /\ arg[p] = u_sema[p]
KillExact ==
    \A k \in Proc : pc[k] = "kill" =>
        /\ arg[k] \in Proc \ {k}
        /\ u_sema[arg[k]] # NOVOID => PHASH[u_sema[arg[k]]] = hp[k]
        /\ ~PREEMPT => Running(k)

Places == QueuesHold(h_uproc, u_sema) /\ CpuExact /\ SleepExact /\ KillExact

IInv == Types /\ Places

\* The inductive invariant gives the types.
LEMMA IInvTypeOK == IInv => TypeOK
BY DEF IInv, Types, Places, QueuesHold, ByteTypes, ProcTypes, PriTypes, SigTypes,
       HistTypes, CtlTypes, OwnTypes, TypeOK, History

\* The inductive invariant gives exact hash queues.
LEMMA IInvQueuesExact == IInv => QueuesExact
BY DEF IInv, Places, QueuesHold, SleepExact, QueuesExact, NoRepeat

\* The inductive invariant holds when the kernel starts.
LEMMA InitIInv == Init => IInv
<1> SUFFICES ASSUME Init PROVE IInv
  OBVIOUS
<1>1. TypeOK
  BY InitTypes
<1>2. Types
  BY <1>1 DEF Types, ByteTypes, ProcTypes, PriTypes, SigTypes, HistTypes, CtlTypes,
              OwnTypes, TypeOK, History
<1>3. QueuesHold(h_uproc, u_sema)
  BY DEF Init, BaseInit, QueuesHold, NoRepeat, ToSet
<1>4. CpuExact /\ SleepExact /\ KillExact
  BY DEF Init, BaseInit, CpuExact, SleepExact, KillExact
<1> QED BY <1>2, <1>3, <1>4 DEF IInv, Places

-----------------------------------------------------------------------------
(* What the pieces of the actions do to the types *)

\* Storing in an object what keeps a lock or an event a byte keeps every type.
LEMMA ByteKept ==
    ASSUME ByteTypes(val), NEW o \in Obj, NEW x \in Int,
           o \in Lock \cup Event => x \in 0..(BYTE - 1), val' = [val EXCEPT ![o] = x]
    PROVE  ByteTypes(val')
BY DEF ByteTypes

\* The values stored without looking at the byte.
LEMMA ByteStored ==
    ASSUME ByteTypes(val), NEW o \in Obj, NEW x \in {0, 1, BUSY}, val' = [val EXCEPT ![o] = x]
    PROVE  ByteTypes(val')
<1>1. x \in Int /\ x \in 0..(BYTE - 1)
  BY DEF BUSY, BYTE
<1> QED BY <1>1, ByteKept

\* Changing the history of one process keeps the types of all.
LEMMA HistKept ==
    ASSUME HistTypes, NEW p \in Proc, NEW h \in History, u_synch' = [u_synch EXCEPT ![p] = h]
    PROVE  HistTypes'
BY DEF HistTypes

\* Dropping or adding signals of one process keeps the types of all.
LEMMA SigKept ==
    ASSUME SigTypes, NEW p \in Proc, NEW s \in SUBSET Signals,
           u_sig' = [u_sig EXCEPT ![p] = s] \/ u_sig' = u_sig
    PROVE  SigTypes'
BY DEF SigTypes

\* A process that goes to a label with an object keeps the types of the control.
LEMMA GotoTypes ==
    ASSUME CtlTypes, NEW p \in Proc, NEW l \in Label, NEW a \in Obj \cup Proc \cup {NOVOID},
           GotoWith(p, l, a)
    PROVE  CtlTypes'
BY DEF CtlTypes, GotoWith

\* Queueing a process (sleep.c, sema.c, event.c) keeps the types of its fields.
LEMMA EnqueueTypes ==
    ASSUME Types, NEW p \in Proc, NEW o \in Obj, Enqueue(p, o), UNCHANGED cpu
    PROVE  ProcTypes' /\ PriTypes'
<1>1. CallPri[o] \in 0..MaxPri
  BY SyncAssumption
<1> QED BY <1>1 DEF Types, ProcTypes, PriTypes, Enqueue

-----------------------------------------------------------------------------
(* What the pieces of the actions do to the places of the processes *)

\* A running process moves on.
LEMMA MoveKeeps ==
    ASSUME IInv, NEW p \in Proc, Running(p), NEW l \in Label, l # "kill",
           NEW a \in Obj \cup Proc \cup {NOVOID}, GotoWith(p, l, a),
           UNCHANGED <<u_state, u_sema, h_uproc, cpu>>
    PROVE  Places'
<1>1. u_sema[p] = NOVOID
  BY DEF IInv, Places, SleepExact, Running
<1>2. /\ \A q \in Proc : q # p => pc'[q] = pc[q] /\ arg'[q] = arg[q] /\ hp'[q] = hp[q]
      /\ pc'[p] = l
  BY DEF GotoWith, IInv, Types, CtlTypes
<1>3. SleepExact'
  BY <1>1, <1>2 DEF IInv, Places, SleepExact
<1>4. KillExact'
  BY <1>2 DEF IInv, Places, KillExact, Running
<1> QED BY <1>3, <1>4 DEF IInv, Places, CpuExact

\* A running process queues itself and sleeps.
LEMMA EnqueueKeeps ==
    ASSUME NoKillRace, IInv, NEW p \in Proc, Running(p), NEW o \in Obj, Enqueue(p, o),
           GotoWith(p, "asleep", o), UNCHANGED cpu
    PROVE  Places'
<1>1. u_sema[p] = NOVOID
  BY DEF IInv, Places, SleepExact, Running
<1>2. /\ QueuesHold(h_uproc', u_sema')
      /\ u_sema' = [u_sema EXCEPT ![p] = o]
      /\ u_state' = [u_state EXCEPT ![p] = "SCORESLP"]
  BY <1>1, EnqueueHolds, IInvTypeOK DEF IInv, Places
<1>3. /\ \A q \in Proc : q # p =>
            /\ pc'[q] = pc[q] /\ arg'[q] = arg[q] /\ hp'[q] = hp[q]
            /\ u_sema'[q] = u_sema[q] /\ u_state'[q] = u_state[q]
      /\ pc'[p] = "asleep" /\ arg'[p] = o /\ u_sema'[p] = o /\ u_state'[p] = "SCORESLP"
  BY <1>2 DEF GotoWith, IInv, Types, CtlTypes, ProcTypes
<1>4. o # NOVOID /\ PHASH[o] \in Bucket
  BY SyncAssumption
<1>5. SleepExact' /\ CpuExact'
  BY <1>3, <1>4 DEF IInv, Places, SleepExact, CpuExact
<1>6. ASSUME NEW k \in Proc, pc'[k] = "kill"
      PROVE  /\ arg'[k] \in Proc \ {k}
             /\ u_sema'[arg'[k]] # NOVOID => PHASH[u_sema'[arg'[k]]] = hp'[k]
             /\ ~PREEMPT => Running(k)'
  <2>1. k # p /\ pc[k] = "kill" /\ arg'[k] = arg[k] /\ hp'[k] = hp[k]
    BY <1>3, <1>6
  <2>2. arg[k] \in Proc \ {k} /\ PREEMPT /\ hp[k] \in Bucket
    BY <2>1 DEF IInv, Places, KillExact, Running, Types, CtlTypes
  <2>3. PHASH[o] = hp[k]
    BY <2>2, <1>4 DEF NoKillRace
  <2> QED BY <1>3, <2>1, <2>2, <2>3 DEF IInv, Places, KillExact
<1> QED BY <1>2, <1>5, <1>6 DEF Places, KillExact

\* Sleepers leave their queues and become ready.
LEMMA AwakeKeeps ==
    ASSUME IInv, QueuesHold(h_uproc', u_sema'), UNCHANGED <<pc, arg, hp, cpu>>,
           \A q \in Proc : \/ u_sema'[q] = u_sema[q] /\ u_state'[q] = u_state[q]
                           \/ /\ u_sema[q] # NOVOID
                              /\ u_sema'[q] = NOVOID /\ u_state'[q] = "SCORERDY"
    PROVE  Places'
<1>1. SleepExact' /\ CpuExact'
  BY DEF IInv, Places, SleepExact, CpuExact
<1>2. \A k \in Proc : Running(k) => Running(k)'
  BY DEF IInv, Places, SleepExact, Running
<1>3. KillExact'
  BY <1>2 DEF IInv, Places, KillExact
<1> QED BY <1>1, <1>3 DEF Places

\* Handing a lock or a semaphore over to the first waiter keeps the places of all.
LEMMA HandOverKeeps ==
    ASSUME IInv, NEW o \in Obj, UNCHANGED <<pc, arg, hp, cpu>>,
           HandOver(o) \/ UNCHANGED <<u_state, sleepVars>>
    PROVE  Places' /\ ProcTypes'
<1>1. CASE UNCHANGED <<u_state, sleepVars>>
  BY <1>1, AwakeKeeps DEF sleepVars, IInv, Places, Types, ProcTypes
<1>2. CASE HandOver(o)
  <2>1. PICK w \in Waiters(o) :
           /\ u_sema' = [u_sema EXCEPT ![w] = NOVOID]
           /\ u_state' = [u_state EXCEPT ![w] = "SCORERDY"]
           /\ QueuesHold(h_uproc', u_sema') /\ UNCHANGED u_sigwake
    BY <1>2, HandOverHolds, IInvTypeOK DEF IInv, Places
  <2>2. w \in Proc /\ u_sema[w] # NOVOID
    BY SyncAssumption DEF Waiters
  <2>3. ProcTypes'
    BY <2>1, <2>2 DEF IInv, Types, ProcTypes
  <2>4. \A q \in Proc : \/ u_sema'[q] = u_sema[q] /\ u_state'[q] = u_state[q]
                        \/ /\ u_sema[q] # NOVOID
                           /\ u_sema'[q] = NOVOID /\ u_state'[q] = "SCORERDY"
    BY <2>1, <2>2 DEF IInv, Types, ProcTypes
  <2> QED BY <2>1, <2>3, <2>4, AwakeKeeps
<1> QED BY <1>1, <1>2

\* Waking everyone queued on an event keeps the places of all.
LEMMA WakeAllKeeps ==
    ASSUME IInv, NEW e \in Obj, WakeAll(e), UNCHANGED <<pc, arg, hp, cpu>>
    PROVE  Places' /\ ProcTypes'
<1>1. /\ QueuesHold(h_uproc', u_sema')
      /\ u_sema' = [p \in Proc |-> IF u_sema[p] = e THEN NOVOID ELSE u_sema[p]]
      /\ u_state' = [p \in Proc |-> IF u_sema[p] = e THEN "SCORERDY" ELSE u_state[p]]
      /\ UNCHANGED u_sigwake
  BY WakeAllHolds, IInvTypeOK DEF IInv, Places
<1>2. ProcTypes'
  BY <1>1 DEF IInv, Types, ProcTypes
<1>3. e # NOVOID
  BY SyncAssumption
<1>4. \A q \in Proc : \/ u_sema'[q] = u_sema[q] /\ u_state'[q] = u_state[q]
                      \/ /\ u_sema[q] # NOVOID
                         /\ u_sema'[q] = NOVOID /\ u_state'[q] = "SCORERDY"
  BY <1>1, <1>3
<1> QED BY <1>1, <1>2, <1>4, AwakeKeeps

\* The second half of sigproc, with the right queue or with no sleep to break.
LEMMA SignalWakeKeeps ==
    ASSUME IInv, NEW p \in Proc, NEW b \in Bucket, NEW pri, SignalWake(p, b, pri),
           u_sema[p] # NOVOID => PHASH[u_sema[p]] = b
    PROVE  /\ UNCHANGED <<pc, arg, hp, cpu>> => Places' /\ ProcTypes'
           /\ QueuesHold(h_uproc', u_sema') /\ ByteTypes(val')
           /\ UNCHANGED cpu => ProcTypes'
           /\ \A q \in Proc : \/ u_sema'[q] = u_sema[q] /\ u_state'[q] = u_state[q]
                              \/ /\ u_sema[q] # NOVOID
                                 /\ u_sema'[q] = NOVOID /\ u_state'[q] = "SCORERDY"
<1>1. CASE UNCHANGED <<sleepVars, val, u_state>>
  BY <1>1, AwakeKeeps DEF sleepVars, IInv, Places, Types, ProcTypes
<1>2. CASE u_sema[p] # NOVOID /\ syncwakeup(p, b)
  <2>1. /\ QueuesHold(h_uproc', u_sema')
        /\ u_sema' = [u_sema EXCEPT ![p] = NOVOID]
    BY <1>2, WakeupHolds, IInvTypeOK DEF IInv, Places
  <2>2. u_state[p] = "SCORESLP" /\ u_sema[p] \in Obj
    BY <1>2 DEF IInv, Places, SleepExact, Types, ProcTypes
  <2>3. u_state' = [u_state EXCEPT ![p] = "SCORERDY"] /\ u_sigwake' = [u_sigwake EXCEPT ![p] = TRUE]
    BY <1>2, <2>2 DEF syncwakeup
  <2>4. UNCHANGED cpu => ProcTypes'
    BY <2>1, <2>3 DEF IInv, Types, ProcTypes
  <2>5. \A q \in Proc : \/ u_sema'[q] = u_sema[q] /\ u_state'[q] = u_state[q]
                        \/ /\ u_sema[q] # NOVOID
                           /\ u_sema'[q] = NOVOID /\ u_state'[q] = "SCORERDY"
    BY <1>2, <2>1, <2>3 DEF IInv, Types, ProcTypes
  <2>6. ByteTypes(val')
    <3>1. syncundo(u_sema[p]) \in Int
          /\ (u_sema[p] \in Lock \cup Event => syncundo(u_sema[p]) \in 0..(BYTE - 1))
      BY <2>2, SyncAssumption, SMTT(40) DEF syncundo, BYTE, IInv, Types, ByteTypes
    <3> QED BY <1>2, <2>2, <3>1, ByteKept DEF syncwakeup, IInv, Types
  <2> QED BY <2>1, <2>4, <2>5, <2>6, AwakeKeeps
<1> QED BY <1>1, <1>2 DEF SignalWake

-----------------------------------------------------------------------------
(* Locks *)

\* Taking a free lock (TAS) keeps the invariant.
LEMMA TakeLockKeeps ==
    ASSUME IInv, NEW p \in Proc, NEW o \in Lock, Running(p), BitClear(val[o]),
           TakeLock(p, o), UNCHANGED passed
    PROVE  IInv'
<1> USE DEF TakeLock
<1>1. o \in Obj /\ val[o] \in 0..(BYTE - 1) /\ ByteTypes(val)
  BY DEF IInv, Types, ByteTypes, Obj
<1>2. Places' /\ CtlTypes'
  BY MoveKeeps, GotoTypes DEF Goto, GotoWith, Label, sleepVars, IInv, Types
<1>3. HistTypes'
  BY <1>1, HistoryTypes, HistKept DEF IInv, Types, HistTypes
<1>4. ByteTypes(val')
  <2>1. val[o] + BUSY \in 0..(BYTE - 1) /\ val[o] + BUSY \in Int
    BY <1>1 DEF BitClear, BYTE, BUSY
  <2>2. val' = [val EXCEPT ![o] = val[o] + BUSY]
    OBVIOUS
  <2> HIDE DEF TakeLock
  <2> QED BY <1>1, <2>1, <2>2, ByteKept
<1>5. OwnTypes' /\ ProcTypes' /\ PriTypes' /\ SigTypes'
  BY DEF sleepVars, IInv, Types, OwnTypes, ProcTypes, PriTypes, SigTypes
<1> QED BY <1>2, <1>3, <1>4, <1>5 DEF IInv, Types

\* The first test of sleeplock keeps the invariant.
LEMMA TryLockKeeps ==
    ASSUME IInv, NEW p \in Proc, NEW o \in Lock, Running(p), TryLock(p, o), UNCHANGED passed
    PROVE  IInv'
<1>1. CASE BitClear(val[o]) /\ TakeLock(p, o)
  BY <1>1, TakeLockKeeps
<1>2. CASE ~(BitClear(val[o]) /\ TakeLock(p, o))
  <2>1. /\ \/ GotoWith(p, "eintr", NOVOID) /\ UNCHANGED u_sig
           \/ GotoWith(p, "sleepqueue", o) /\ (UNCHANGED u_sig \/ u_sig' = [u_sig EXCEPT ![p] = {}])
        /\ UNCHANGED <<u_state, u_pri, sleepVars, u_synch, val, cpu, held>>
    BY <1>2 DEF TryLock, Goto, GotoWith
  <2>2. Places' /\ CtlTypes'
    BY <2>1, MoveKeeps, GotoTypes DEF Label, Obj, sleepVars, IInv, Types
  <2>3. SigTypes'
    BY <2>1, SigKept DEF IInv, Types
  <2>4. OwnTypes' /\ ProcTypes' /\ PriTypes' /\ HistTypes' /\ ByteTypes(val')
    BY <2>1 DEF sleepVars, IInv, Types, OwnTypes, ProcTypes, PriTypes, HistTypes
  <2> QED BY <2>2, <2>3, <2>4 DEF IInv, Types
<1> QED BY <1>1, <1>2

\* A process queues itself on an object whose memory becomes x.
LEMMA QueueKeeps ==
    ASSUME NoKillRace, IInv, NEW p \in Proc, NEW o \in Obj, Running(p), Enqueue(p, o),
           GotoWith(p, "asleep", o), NEW x \in Int, val' = [val EXCEPT ![o] = x],
           o \in Lock \cup Event => x \in 0..(BYTE - 1),
           u_synch' = [u_synch EXCEPT ![p] = syncset(@, o, "E_WAIT")],
           u_sig' = [u_sig EXCEPT ![p] = {}] \/ u_sig' = u_sig, UNCHANGED <<cpu, held, passed>>
    PROVE  IInv'
<1>1. Places' /\ CtlTypes'
  BY EnqueueKeeps, GotoTypes DEF Label, IInv, Types
<1>2. ProcTypes' /\ PriTypes'
  BY EnqueueTypes DEF IInv
<1>3. ByteTypes(val')
  BY ByteKept DEF IInv, Types
<1>4. HistTypes' /\ SigTypes'
  BY HistoryTypes, HistKept, SigKept DEF IInv, Types, HistTypes
<1> QED BY <1>1, <1>2, <1>3, <1>4 DEF IInv, Types, OwnTypes

\* sleeplock under the lock of the queue keeps the invariant: the test again, or the queueing.
LEMMA SleepLockQueueKeeps ==
    ASSUME NoKillRace, IInv, NEW p \in Proc, arg[p] \in Lock, SleepLockQueue(p), UNCHANGED passed
    PROVE  IInv'
<1> DEFINE o == arg[p]
<1>1. o \in Lock /\ o \in Obj /\ Running(p)
  BY DEF Obj, SleepLockQueue, At
<1>2. CASE BitClear(val[o]) /\ TakeLock(p, o)
  BY <1>1, <1>2, TakeLockKeeps
<1>3. CASE ~(BitClear(val[o]) /\ TakeLock(p, o))
  <2>1. (val[o] + 1) % BYTE \in 0..(BYTE - 1)
    BY <1>1 DEF IInv, Types, ByteTypes, BYTE
  <2>2. /\ val' = [val EXCEPT ![o] = (val[o] + 1) % BYTE]
        /\ Enqueue(p, o) /\ GotoWith(p, "asleep", o)
        /\ u_synch' = [u_synch EXCEPT ![p] = syncset(@, o, "E_WAIT")]
        /\ UNCHANGED <<u_sig, cpu, held>>
    BY <1>3 DEF SleepLockQueue
  <2>3. (val[o] + 1) % BYTE \in Int
    BY <2>1 DEF BYTE
  <2> HIDE DEF o
  <2> QED BY <1>1, <2>1, <2>2, <2>3, QueueKeeps
<1> QED BY <1>2, <1>3

\* A process that slept finds the resource, or the signal that woke it up.
LEMMA AwakeTypes ==
    ASSUME IInv, NEW p \in Proc, Running(p), NEW o \in Obj,
           \/ u_synch' = [u_synch EXCEPT ![p] = syncgot(@, o)]
           \/ u_synch' = [u_synch EXCEPT ![p] = syncclr(@, o)]
           \/ u_synch' = [u_synch EXCEPT ![p] = syncclr(syncgot(@, o), o)],
           u_sig' = u_sig \/ u_sig' = [u_sig EXCEPT ![p] = {}],
           u_sigwake' = u_sigwake \/ u_sigwake' = [u_sigwake EXCEPT ![p] = FALSE],
           NEW l \in Label, l # "kill", NEW a \in Obj \cup Proc \cup {NOVOID}, GotoWith(p, l, a),
           UNCHANGED <<u_state, u_pri, u_sema, h_uproc, cpu, val, passed>>, OwnTypes'
    PROVE  IInv'
<1>1. Places' /\ CtlTypes'
  BY MoveKeeps, GotoTypes DEF IInv, Types
<1>2. HistTypes'
  <2>1. u_synch[p] \in History
    BY DEF IInv, Types, HistTypes
  <2> QED BY <2>1, HistoryTypes, HistKept DEF IInv, Types
<1>3. SigTypes'
  BY SigKept DEF IInv, Types
<1>4. ProcTypes' /\ PriTypes' /\ ByteTypes(val')
  BY DEF IInv, Types, ProcTypes, PriTypes
<1> QED BY <1>1, <1>2, <1>3, <1>4 DEF IInv, Types

\* The end of a sleep of sleeplock keeps the invariant, with the lock or broken by a signal.
LEMMA SleepLockAwakeKeeps ==
    ASSUME IInv, NEW p \in Proc, arg[p] \in Lock, SleepLockAwake(p), UNCHANGED passed
    PROVE  IInv'
<1> DEFINE o == arg[p]
<1>1. o \in Obj /\ Running(p)
  BY DEF Obj, SleepLockAwake, At
<1>2. UNCHANGED <<u_state, u_pri, u_sema, h_uproc, cpu, val, passed>>
  BY DEF SleepLockAwake
<1>3. OwnTypes'
  BY DEF SleepLockAwake, IInv, Types, OwnTypes
<1>4. /\ \/ GotoWith(p, "kernel", NOVOID) \/ GotoWith(p, "eintr", NOVOID)
         \/ GotoWith(p, "sleepagain", o)
      /\ u_sig' = u_sig \/ u_sig' = [u_sig EXCEPT ![p] = {}]
      /\ u_sigwake' = u_sigwake \/ u_sigwake' = [u_sigwake EXCEPT ![p] = FALSE]
      /\ \/ u_synch' = [u_synch EXCEPT ![p] = syncgot(@, o)]
         \/ u_synch' = [u_synch EXCEPT ![p] = syncclr(syncgot(@, o), o)]
  BY DEF SleepLockAwake, Goto, GotoWith
<1> HIDE DEF o
<1> QED BY <1>1, <1>2, <1>3, <1>4, AwakeTypes DEF Label

\* sleepfree keeps the invariant, whether somebody waits or not.
LEMMA sleepfreeKeeps ==
    ASSUME IInv, NEW p \in Proc, NEW o \in Lock, sleepfree(p, o), UNCHANGED passed
    PROVE  IInv'
<1>1. o \in Obj /\ val[o] \in 0..(BYTE - 1) /\ ByteTypes(val)
  BY DEF IInv, Types, ByteTypes, Obj
<1>2. UNCHANGED <<pc, arg, hp, cpu, u_pri, u_sig>>
  BY DEF sleepfree, ctlVars
<1>3. HandOver(o) \/ UNCHANGED <<u_state, sleepVars>>
  BY DEF sleepfree
<1>4. Places' /\ ProcTypes'
  BY <1>1, <1>2, <1>3, HandOverKeeps
<1>5. ByteTypes(val')
  <2>1. \/ UNCHANGED val
        \/ val' = [val EXCEPT ![o] = 0]
        \/ val[o] # 0 /\ val' = [val EXCEPT ![o] = val[o] - 1]
    BY DEF sleepfree
  <2>2. val[o] # 0 => val[o] - 1 \in 0..(BYTE - 1)
    BY <1>1 DEF BYTE
  <2>3. 0 \in 0..(BYTE - 1) /\ val[o] - 1 \in Int
    BY <1>1 DEF BYTE
  <2>4. CASE UNCHANGED val
    BY <2>4, <1>1
  <2>5. CASE val' = [val EXCEPT ![o] = 0]
    BY <2>5, <1>1, ByteStored
  <2>6. CASE val[o] # 0 /\ val' = [val EXCEPT ![o] = val[o] - 1]
    BY <2>6, <2>2, <2>3, <1>1, ByteKept
  <2> QED BY <2>1, <2>4, <2>5, <2>6
<1>6. HistTypes'
  BY <1>1, HistoryTypes, HistKept DEF sleepfree, IInv, Types, HistTypes
<1>7. OwnTypes'
  BY DEF sleepfree, IInv, Types, OwnTypes
<1> QED BY <1>2, <1>4, <1>5, <1>6, <1>7 DEF IInv, Types, PriTypes, SigTypes, CtlTypes

\* Every step of sleep.c keeps the invariant.
LEMMA LockStepKeeps ==
    ASSUME NoKillRace, IInv, NEW p \in Proc, LockStep(p)
    PROVE  IInv'
<1>1. UNCHANGED passed
  BY DEF LockStep
<1>2. ASSUME NEW o \in Lock, sleeplock(p, o) PROVE IInv'
  BY <1>1, <1>2, TryLockKeeps DEF sleeplock, At
<1>3. ASSUME NEW o \in Lock, sleeptest(p, o) PROVE IInv'
  BY <1>1, <1>3, TakeLockKeeps DEF sleeptest, At
<1>4. ASSUME NEW o \in Lock, sleepfree(p, o) PROVE IInv'
  BY <1>1, <1>4, sleepfreeKeeps
<1>5. CASE arg[p] \in Lock /\ SleepLockAgain(p)
  BY <1>1, <1>5, TryLockKeeps DEF SleepLockAgain, At
<1>6. CASE arg[p] \in Lock /\ SleepLockQueue(p)
  BY <1>1, <1>6, SleepLockQueueKeeps
<1>7. CASE arg[p] \in Lock /\ SleepLockAwake(p)
  BY <1>1, <1>7, SleepLockAwakeKeeps
<1> QED BY <1>2, <1>3, <1>4, <1>5, <1>6, <1>7 DEF LockStep

-----------------------------------------------------------------------------
(* Semaphores *)

\* Taking a free resource of a semaphore keeps the invariant.
LEMMA TakeSemaKeeps ==
    ASSUME IInv, NEW p \in Proc, NEW o \in Sema, Running(p), TakeSema(p, o)
    PROVE  IInv'
<1> USE DEF TakeSema
<1>1. o \in Obj /\ o \notin Lock \cup Event /\ val[o] \in Int
  BY SyncAssumption DEF IInv, Types, ByteTypes, Obj
<1>2. Places' /\ CtlTypes'
  BY MoveKeeps, GotoTypes DEF Goto, GotoWith, Label, sleepVars, IInv, Types
<1>3. HistTypes'
  BY <1>1, HistoryTypes, HistKept DEF IInv, Types, HistTypes
<1>4. ByteTypes(val')
  <2>1. val' = [val EXCEPT ![o] = val[o] - 1] /\ val[o] - 1 \in Int
    BY <1>1
  <2> HIDE DEF TakeSema
  <2> QED BY <1>1, <2>1, ByteKept DEF IInv, Types
<1>5. OwnTypes' /\ ProcTypes' /\ PriTypes' /\ SigTypes'
  BY DEF sleepVars, IInv, Types, OwnTypes, ProcTypes, PriTypes, SigTypes
<1> QED BY <1>2, <1>3, <1>4, <1>5 DEF IInv, Types

\* semalock under e_lock keeps the invariant: resource, EINTR or queueing.
LEMMA TrySemaKeeps ==
    ASSUME NoKillRace, IInv, NEW p \in Proc, NEW o \in Sema, Running(p), TrySema(p, o)
    PROVE  IInv'
<1>1. o \in Obj /\ o \notin Lock \cup Event /\ val[o] - 1 \in Int
  BY SyncAssumption DEF IInv, Types, ByteTypes, Obj
<1>2. CASE val[o] > 0 /\ TakeSema(p, o)
  BY <1>2, TakeSemaKeeps
<1>3. CASE /\ Goto(p, "eintr")
           /\ UNCHANGED <<u_state, u_pri, sleepVars, u_sig, u_synch, val, cpu, held, passed>>
  <2>1. Places' /\ CtlTypes'
    BY <1>3, MoveKeeps, GotoTypes DEF Goto, GotoWith, Label, sleepVars, IInv, Types
  <2> QED BY <1>3, <2>1 DEF sleepVars, IInv, Types, OwnTypes, ProcTypes, PriTypes, SigTypes, HistTypes
<1>4. CASE /\ val' = [val EXCEPT ![o] = @ - 1]
           /\ Enqueue(p, o)
           /\ u_synch' = [u_synch EXCEPT ![p] = syncset(@, o, "E_WAIT")]
           /\ u_sig' = IF Interruptible(o) THEN [u_sig EXCEPT ![p] = {}] ELSE u_sig
           /\ GotoWith(p, "asleep", o)
           /\ UNCHANGED <<cpu, held, passed>>
  BY <1>1, <1>4, QueueKeeps
<1> QED BY <1>2, <1>3, <1>4 DEF TrySema

\* The end of a sleep of semalock keeps the invariant.
LEMMA SemaLockAwakeKeeps ==
    ASSUME IInv, NEW p \in Proc, arg[p] \in Sema, SemaLockAwake(p)
    PROVE  IInv'
<1> DEFINE o == arg[p]
<1>1. o \in Obj /\ Running(p)
  BY DEF Obj, SemaLockAwake, At
<1>2. UNCHANGED <<u_state, u_pri, u_sema, h_uproc, cpu, val, passed>>
  BY DEF SemaLockAwake
<1>3. OwnTypes'
  BY DEF SemaLockAwake, IInv, Types, OwnTypes
<1>4. /\ \/ GotoWith(p, "kernel", NOVOID) \/ GotoWith(p, "eintr", NOVOID)
         \/ GotoWith(p, "semaagain", o)
      /\ u_sig' = u_sig \/ u_sig' = [u_sig EXCEPT ![p] = {}]
      /\ u_sigwake' = u_sigwake \/ u_sigwake' = [u_sigwake EXCEPT ![p] = FALSE]
      /\ \/ u_synch' = [u_synch EXCEPT ![p] = syncgot(@, o)]
         \/ u_synch' = [u_synch EXCEPT ![p] = syncclr(syncgot(@, o), o)]
  BY DEF SemaLockAwake, Goto, GotoWith
<1> HIDE DEF o
<1> QED BY <1>1, <1>2, <1>3, <1>4, AwakeTypes DEF Label

\* What semafree does to the count and the queue keeps the invariant.
LEMMA FreeSemaKeeps ==
    ASSUME IInv, NEW o \in Sema, FreeSema(o), UNCHANGED <<pc, arg, hp>>
    PROVE  Places' /\ ProcTypes' /\ PriTypes' /\ SigTypes' /\ CtlTypes' /\ ByteTypes(val')
<1>1. o \in Obj /\ o \notin Lock \cup Event /\ val[o] + 1 \in Int
  BY SyncAssumption DEF IInv, Types, ByteTypes, Obj
<1>2. (HandOver(o) \/ UNCHANGED <<u_state, sleepVars>>) /\ UNCHANGED cpu
  BY DEF FreeSema
<1>3. Places' /\ ProcTypes'
  BY <1>1, <1>2, HandOverKeeps
<1>4. ByteTypes(val')
  BY <1>1, ByteKept DEF FreeSema, IInv, Types
<1> QED BY <1>3, <1>4 DEF FreeSema, IInv, Types, PriTypes, SigTypes, CtlTypes

\* Every step of sema.c by a process keeps the invariant.
LEMMA SemaStepKeeps ==
    ASSUME NoKillRace, IInv, NEW p \in Proc, SemaStep(p)
    PROVE  IInv'
<1>1. ASSUME NEW o \in Sema, semalock(p, o) PROVE IInv'
  BY <1>1, TrySemaKeeps DEF semalock, At
<1>2. ASSUME NEW o \in Sema, sematest(p, o) PROVE IInv'
  BY <1>2, TakeSemaKeeps DEF sematest, At
<1>3. ASSUME NEW o \in Sema, semafree(p, o) PROVE IInv'
  <2>1. Places' /\ ProcTypes' /\ PriTypes' /\ SigTypes' /\ CtlTypes' /\ ByteTypes(val')
    BY <1>3, FreeSemaKeeps DEF semafree, ctlVars
  <2>2. HistTypes'
    BY <1>3, HistoryTypes, HistKept DEF semafree, IInv, Types, HistTypes, Obj
  <2>3. OwnTypes'
    BY <1>3 DEF semafree, IInv, Types, OwnTypes
  <2> QED BY <2>1, <2>2, <2>3 DEF IInv, Types
<1>4. ASSUME NEW o \in Sema, PassSema(p, o) PROVE IInv'
  <2>1. Places' /\ ProcTypes' /\ PriTypes' /\ SigTypes' /\ CtlTypes' /\ ByteTypes(val')
    BY <1>4, AwakeKeeps DEF PassSema, ctlVars, sleepVars, IInv, Types, Places, ProcTypes,
                            PriTypes, SigTypes, CtlTypes
  <2>2. HistTypes'
    BY <1>4, HistoryTypes, HistKept DEF PassSema, IInv, Types, HistTypes, Obj
  <2>3. OwnTypes'
    BY <1>4 DEF PassSema, IInv, Types, OwnTypes
  <2> QED BY <2>1, <2>2, <2>3 DEF IInv, Types
<1>5. CASE arg[p] \in Sema /\ SemaLockAgain(p)
  BY <1>5, TrySemaKeeps DEF SemaLockAgain, At
<1>6. CASE arg[p] \in Sema /\ SemaLockAwake(p)
  BY <1>6, SemaLockAwakeKeeps
<1> QED BY <1>1, <1>2, <1>3, <1>4, <1>5, <1>6 DEF SemaStep

\* semafree by an interrupt routine keeps the invariant.
LEMMA SemaFreeFromInterruptKeeps ==
    ASSUME IInv, NEW o \in Sema, SemaFreeFromInterrupt(o)
    PROVE  IInv'
<1>1. Places' /\ ProcTypes' /\ PriTypes' /\ SigTypes' /\ CtlTypes' /\ ByteTypes(val')
  BY FreeSemaKeeps DEF SemaFreeFromInterrupt, ctlVars
<1>2. HistTypes' /\ OwnTypes'
  BY DEF SemaFreeFromInterrupt, IInv, Types, HistTypes, OwnTypes
<1> QED BY <1>1, <1>2 DEF IInv, Types

-----------------------------------------------------------------------------
(* Events *)

\* The first test of eventwait keeps the invariant.
LEMMA TryEventKeeps ==
    ASSUME IInv, NEW p \in Proc, NEW e \in Event, Running(p), TryEvent(p, e),
           UNCHANGED <<held, passed>>
    PROVE  IInv'
<1>1. /\ \/ GotoWith(p, "kernel", NOVOID) \/ GotoWith(p, "eintr", NOVOID)
         \/ GotoWith(p, "eventqueue", e)
      /\ u_sig' = u_sig \/ u_sig' = [u_sig EXCEPT ![p] = {}]
      /\ UNCHANGED <<u_state, u_pri, sleepVars, u_synch, val, cpu>>
  BY DEF TryEvent, Goto, GotoWith
<1>2. Places' /\ CtlTypes'
  BY <1>1, MoveKeeps, GotoTypes DEF Label, Obj, sleepVars, IInv, Types
<1>3. SigTypes'
  BY <1>1, SigKept DEF IInv, Types
<1>4. OwnTypes' /\ ProcTypes' /\ PriTypes' /\ HistTypes' /\ ByteTypes(val')
  BY <1>1 DEF sleepVars, IInv, Types, OwnTypes, ProcTypes, PriTypes, HistTypes
<1> QED BY <1>2, <1>3, <1>4 DEF IInv, Types

\* eventwait under the lock of the queue keeps the invariant.
LEMMA EventWaitQueueKeeps ==
    ASSUME NoKillRace, IInv, NEW p \in Proc, arg[p] \in Event, EventWaitQueue(p),
           UNCHANGED <<held, passed>>
    PROVE  IInv'
<1> DEFINE e == arg[p]
<1>1. e \in Obj /\ Running(p) /\ 1 \in 0..(BYTE - 1) /\ 1 \in Int
  BY DEF Obj, EventWaitQueue, At, BYTE
<1>2. CASE Occurred(e)
  <2>1. GotoWith(p, "kernel", NOVOID) /\ UNCHANGED <<u_state, u_pri, sleepVars, u_synch, val, u_sig, cpu>>
    BY <1>2 DEF EventWaitQueue, Goto, GotoWith
  <2>2. Places' /\ CtlTypes'
    BY <1>1, <2>1, MoveKeeps, GotoTypes DEF Label, sleepVars, IInv, Types
  <2> QED BY <2>1, <2>2 DEF sleepVars, IInv, Types, OwnTypes, ProcTypes, PriTypes, HistTypes, SigTypes
<1>3. CASE ~Occurred(e)
  <2>1. /\ val' = [val EXCEPT ![e] = 1] /\ Enqueue(p, e)
        /\ u_synch' = [u_synch EXCEPT ![p] = syncset(@, e, "E_WAIT")]
        /\ GotoWith(p, "asleep", e) /\ UNCHANGED <<u_sig, cpu>>
    BY <1>3 DEF EventWaitQueue
  <2> HIDE DEF e
  <2> QED BY <1>1, <2>1, QueueKeeps
<1> QED BY <1>2, <1>3

\* The end of a sleep of eventwait keeps the invariant.
LEMMA EventWaitAwakeKeeps ==
    ASSUME IInv, NEW p \in Proc, arg[p] \in Event, EventWaitAwake(p), UNCHANGED <<held, passed>>
    PROVE  IInv'
<1> DEFINE e == arg[p]
<1>1. e \in Obj /\ Running(p)
  BY DEF Obj, EventWaitAwake, At
<1>2. UNCHANGED <<u_state, u_pri, u_sema, h_uproc, cpu, val, passed>> /\ OwnTypes'
  BY DEF EventWaitAwake, IInv, Types, OwnTypes
<1>3. /\ \/ GotoWith(p, "kernel", NOVOID) \/ GotoWith(p, "eintr", NOVOID)
         \/ GotoWith(p, "eventagain", e)
      /\ u_sig' = u_sig \/ u_sig' = [u_sig EXCEPT ![p] = {}]
      /\ u_sigwake' = [u_sigwake EXCEPT ![p] = FALSE]
      /\ u_synch' = [u_synch EXCEPT ![p] = syncclr(@, e)]
  BY DEF EventWaitAwake, Goto, GotoWith
<1> HIDE DEF e
<1> QED BY <1>1, <1>2, <1>3, AwakeTypes DEF Label

\* eventdone keeps the invariant, by processes and by interrupt routines.
LEMMA EventDoneKeeps ==
    ASSUME IInv, NEW e \in Event, EventDone(e), UNCHANGED <<held, passed>>
    PROVE  IInv'
<1>1. e \in Obj /\ BUSY \in 0..(BYTE - 1)
  BY DEF Obj, BUSY, BYTE
<1>2. UNCHANGED <<u_pri, u_sig, u_synch, cpu, pc, arg, hp>>
  BY DEF EventDone, ctlVars
<1>3. Places' /\ ProcTypes'
  <2>1. CASE UNCHANGED <<u_state, sleepVars>>
    BY <1>1, <1>2, <2>1, HandOverKeeps
  <2>2. CASE WakeAll(e)
    BY <1>1, <1>2, <2>2, WakeAllKeeps
  <2> QED BY <2>1, <2>2 DEF EventDone
<1>4. ByteTypes(val')
  BY <1>1, ByteStored DEF EventDone, IInv, Types
<1> QED BY <1>2, <1>3, <1>4 DEF IInv, Types, PriTypes, SigTypes, CtlTypes, HistTypes, OwnTypes

\* Every step of event.c by a process keeps the invariant.
LEMMA EventStepKeeps ==
    ASSUME NoKillRace, IInv, NEW p \in Proc, EventStep(p)
    PROVE  IInv'
<1>1. UNCHANGED <<held, passed>>
  BY DEF EventStep
<1>2. ASSUME NEW e \in Event, eventwait(p, e) PROVE IInv'
  BY <1>1, <1>2, TryEventKeeps DEF eventwait, At
<1>3. ASSUME NEW e \in Event, eventdone(p, e) PROVE IInv'
  BY <1>1, <1>3, EventDoneKeeps DEF eventdone
<1>4. ASSUME NEW e \in Event, eventclear(p, e) PROVE IInv'
  <2>1. ByteTypes(val')
    <3>1. e \in Obj /\ val' = [val EXCEPT ![e] = 0]
      BY <1>4 DEF eventclear, EventClear, Obj
    <3> QED BY <3>1, ByteStored DEF IInv, Types
  <2>2. Places' /\ ProcTypes'
    BY <1>4, AwakeKeeps DEF eventclear, EventClear, ctlVars, sleepVars, IInv, Types, Places, ProcTypes
  <2> QED BY <1>1, <1>4, <2>1, <2>2 DEF eventclear, EventClear, ctlVars, IInv, Types, PriTypes,
                                         SigTypes, CtlTypes, HistTypes, OwnTypes
<1>5. CASE arg[p] \in Event /\ EventWaitAgain(p)
  BY <1>1, <1>5, TryEventKeeps DEF EventWaitAgain, At
<1>6. CASE arg[p] \in Event /\ EventWaitQueue(p)
  BY <1>1, <1>6, EventWaitQueueKeeps
<1>7. CASE arg[p] \in Event /\ EventWaitAwake(p)
  BY <1>1, <1>7, EventWaitAwakeKeeps
<1> QED BY <1>2, <1>3, <1>4, <1>5, <1>6, <1>7 DEF EventStep

-----------------------------------------------------------------------------
(* Signals *)

\* The first half of sigproc keeps the types of signals and priorities.
LEMMA MarkTypes ==
    ASSUME Types, NEW p \in Proc, NEW s \in Signals, SignalMark(p, s)
    PROVE  PriTypes' /\ SigTypes' /\ u_pri'[p] \in 0..MaxPri
<1>1. PUSER \in 0..MaxPri
  BY SyncAssumption
<1>2. PriTypes' /\ u_pri'[p] \in 0..MaxPri
  BY <1>1 DEF SignalMark, Types, PriTypes
<1>3. SigTypes'
  BY DEF SignalMark, Types, SigTypes
<1> QED BY <1>2, <1>3

\* A signal sent by an interrupt routine keeps the invariant.
LEMMA SignalFromInterruptKeeps ==
    ASSUME IInv, NEW p \in Proc, NEW s \in Signals, SignalFromInterrupt(p, s),
           UNCHANGED <<held, passed>>
    PROVE  IInv'
<1>1. PHASH[u_sema[p]] \in Bucket
  BY SyncAssumption DEF IInv, Types, ProcTypes
<1>2. UNCHANGED <<u_synch, cpu, pc, arg, hp>>
  BY DEF SignalFromInterrupt, ctlVars
<1>3. Places' /\ ProcTypes' /\ ByteTypes(val')
  <2>1. SignalWake(p, PHASH[u_sema[p]], u_pri'[p])
    BY DEF SignalFromInterrupt
  <2> QED BY <1>1, <1>2, <2>1, SignalWakeKeeps
<1>4. PriTypes' /\ SigTypes'
  BY MarkTypes DEF SignalFromInterrupt, IInv
<1> QED BY <1>2, <1>3, <1>4 DEF IInv, Types, CtlTypes, HistTypes, OwnTypes

\* The first half of kill () keeps the invariant; it finds the queue of the victim.
LEMMA KillMarkKeeps ==
    ASSUME IInv, NEW k \in Proc, NEW p \in Proc, NEW s \in Signals, KillMark(k, p, s),
           UNCHANGED <<held, passed>>
    PROVE  IInv'
<1>1. /\ Running(k) /\ k # p
      /\ SignalMark(p, s)
      /\ pc' = [pc EXCEPT ![k] = "kill"]
      /\ arg' = [arg EXCEPT ![k] = p]
      /\ hp' = [hp EXCEPT ![k] = PHASH[u_sema[p]]]
      /\ UNCHANGED <<u_state, u_sema, u_sigwake, h_uproc, u_synch, val, cpu>>
  BY DEF KillMark, At, sleepVars
<1>2. PHASH[u_sema[p]] \in Bucket
  BY SyncAssumption DEF IInv, Types, ProcTypes
<1>3. CtlTypes'
  BY <1>1, <1>2 DEF IInv, Types, CtlTypes, Label
<1>4. PriTypes' /\ SigTypes'
  BY <1>1, MarkTypes DEF IInv
<1>5. u_sema[k] = NOVOID
  BY <1>1 DEF IInv, Places, SleepExact, Running
<1>6. SleepExact' /\ CpuExact'
  BY <1>1, <1>5 DEF IInv, Places, SleepExact, CpuExact, Types, CtlTypes
<1>7. KillExact'
  BY <1>1 DEF IInv, Places, KillExact, Running, Types, CtlTypes
<1> QED BY <1>1, <1>3, <1>4, <1>6, <1>7 DEF IInv, Types, Places, ProcTypes, HistTypes, OwnTypes

\* The second half of kill () keeps the invariant: here NoKillRace is needed.
LEMMA KillWakeKeeps ==
    ASSUME IInv, NEW k \in Proc, KillWake(k), UNCHANGED <<held, passed>>
    PROVE  IInv'
<1>1. /\ Running(k) /\ pc[k] = "kill"
      /\ SignalWake(arg[k], hp[k], u_pri[arg[k]])
      /\ pc' = [pc EXCEPT ![k] = "kernel"]
      /\ arg' = [arg EXCEPT ![k] = NOVOID]
      /\ hp' = [hp EXCEPT ![k] = PHASH[NOVOID]]
      /\ UNCHANGED <<u_pri, u_sig, u_synch, cpu>>
  BY DEF KillWake, At
<1>2. /\ arg[k] \in Proc \ {k} /\ hp[k] \in Bucket
      /\ u_sema[arg[k]] # NOVOID => PHASH[u_sema[arg[k]]] = hp[k]
  BY <1>1 DEF IInv, Places, KillExact, Types, CtlTypes
<1>3. /\ QueuesHold(h_uproc', u_sema') /\ ByteTypes(val') /\ ProcTypes'
      /\ \A q \in Proc : \/ u_sema'[q] = u_sema[q] /\ u_state'[q] = u_state[q]
                         \/ /\ u_sema[q] # NOVOID
                            /\ u_sema'[q] = NOVOID /\ u_state'[q] = "SCORERDY"
  BY <1>1, <1>2, SignalWakeKeeps
<1>4. CtlTypes'
  BY <1>1, SyncAssumption DEF IInv, Types, CtlTypes, Label
<1>5. \A q \in Proc : q # k => pc'[q] = pc[q] /\ arg'[q] = arg[q] /\ hp'[q] = hp[q]
  BY <1>1 DEF IInv, Types, CtlTypes
<1>6. pc'[k] = "kernel" /\ u_sema[k] = NOVOID /\ u_sema'[k] = NOVOID
  BY <1>1, <1>3 DEF IInv, Places, SleepExact, Running, Types, CtlTypes
<1>7. SleepExact' /\ CpuExact'
  BY <1>1, <1>3, <1>5, <1>6 DEF IInv, Places, SleepExact, CpuExact
<1>8. KillExact'
  <2>1. \A j \in Proc : Running(j) => Running(j)'
    BY <1>1, <1>3 DEF IInv, Places, SleepExact, Running
  <2> QED BY <1>3, <1>5, <1>6, <2>1 DEF IInv, Places, KillExact
<1> QED BY <1>1, <1>3, <1>4, <1>7, <1>8 DEF IInv, Types, Places, PriTypes, SigTypes, HistTypes, OwnTypes

-----------------------------------------------------------------------------
(* The switch of context, the clock, entry and exit *)

\* The switch of context (dispat.c, int_coda) keeps the invariant.
LEMMA SwitchStepKeeps ==
    ASSUME IInv, NEW p \in Proc, SwitchStep(p)
    PROVE  IInv'
<1>1. UNCHANGED <<held, passed>>
  BY DEF SwitchStep
<1>2. ASSUME UNCHANGED <<u_sema, u_sigwake, h_uproc, u_sig, u_synch, val, pc, arg, hp>>,
             PriTypes', ProcTypes', CpuExact',
             \A q \in Proc : u_state[q] = "SCORESLP" <=> u_state'[q] = "SCORESLP",
             \A k \in Proc : pc[k] = "kill" /\ ~PREEMPT /\ Running(k) => Running(k)'
      PROVE  IInv'
  <2>1. SleepExact'
    BY <1>2 DEF IInv, Places, SleepExact
  <2>2. KillExact'
    BY <1>2 DEF IInv, Places, KillExact
  <2> QED BY <1>1, <1>2, <2>1, <2>2 DEF IInv, Types, Places, SigTypes, HistTypes, CtlTypes, OwnTypes
<1>3. ASSUME NEW q \in Proc, DispatchTo(p, q) PROVE IInv'
  <2>1. UNCHANGED <<u_sema, u_sigwake, h_uproc, u_sig, u_synch, val, pc, arg, hp>>
    BY <1>3 DEF DispatchTo, sleepVars, ctlVars
  <2>2. PriTypes' /\ ProcTypes'
    BY <1>3 DEF DispatchTo, sleepVars, IInv, Types, PriTypes, ProcTypes
  <2>3. CpuExact' /\ \A k \in Proc : ~Running(k)
    BY <1>3 DEF DispatchTo, IInv, Places, CpuExact, Types, ProcTypes, Running
  <2>4. \A r \in Proc : u_state[r] = "SCORESLP" <=> u_state'[r] = "SCORESLP"
    BY <1>3 DEF DispatchTo, IInv, Types, ProcTypes
  <2> QED BY <1>2, <2>1, <2>2, <2>3, <2>4
<1>4. CASE DispatchIdle(p)
  <2>1. CpuExact' /\ \A k \in Proc : ~Running(k)
    BY <1>4, SyncAssumption DEF DispatchIdle, IInv, Places, CpuExact, Running
  <2> QED BY <1>2, <1>4, <2>1 DEF DispatchIdle, sleepVars, ctlVars, IInv, Types, PriTypes, ProcTypes
<1>5. CASE LeaveIdle(p)
  <2>1. UNCHANGED <<u_sema, u_sigwake, h_uproc, u_sig, u_synch, val, pc, arg, hp>>
    BY <1>5 DEF LeaveIdle, sleepVars, ctlVars
  <2>2. PriTypes' /\ ProcTypes'
    BY <1>5 DEF LeaveIdle, sleepVars, IInv, Types, PriTypes, ProcTypes
  <2>3. CpuExact' /\ \A k \in Proc : ~Running(k)
    BY <1>5, SyncAssumption DEF LeaveIdle, IInv, Places, CpuExact, Types, ProcTypes, Running
  <2>4. \A r \in Proc : u_state[r] = "SCORESLP" <=> u_state'[r] = "SCORESLP"
    BY <1>5 DEF LeaveIdle, IInv, Types, ProcTypes
  <2> QED BY <1>2, <2>1, <2>2, <2>3, <2>4
<1>6. CASE Preempt(p)
  <2>1. UNCHANGED <<u_sema, u_sigwake, h_uproc, u_sig, u_synch, val, pc, arg, hp>>
    BY <1>6 DEF Preempt, sleepVars, ctlVars
  <2>2. PriTypes' /\ ProcTypes'
    BY <1>6 DEF Preempt, sleepVars, IInv, Types, PriTypes, ProcTypes
  <2>3. CpuExact'
    BY <1>6 DEF Preempt, IInv, Places, CpuExact, Types, ProcTypes, Running
  <2>4. \A r \in Proc : u_state[r] = "SCORESLP" <=> u_state'[r] = "SCORESLP"
    BY <1>6 DEF Preempt, IInv, Types, ProcTypes, Running
  <2>5. \A k \in Proc : pc[k] = "kill" /\ ~PREEMPT /\ Running(k) => Running(k)'
    BY <1>6 DEF Preempt, IInv, Types, ProcTypes, Running
  <2> QED BY <1>2, <2>1, <2>2, <2>3, <2>4, <2>5
<1> QED BY <1>3, <1>4, <1>5, <1>6 DEF SwitchStep

\* The time slice of the clock keeps the invariant.
LEMMA TimeSliceKeeps ==
    ASSUME IInv, TimeSlice, UNCHANGED <<held, passed>>
    PROVE  IInv'
<1>1. \A pri \in 0..MaxPri : Decayed(pri) \in 0..MaxPri
  BY SyncAssumption DEF Decayed
<1>2. PriTypes'
  <2>1. ASSUME NEW p \in Proc PROVE u_pri'[p] \in 0..MaxPri
    BY <1>1, SyncAssumption DEF TimeSlice, IInv, Types, PriTypes
  <2> QED BY <2>1 DEF TimeSlice, PriTypes
<1>3. Places'
  BY AwakeKeeps DEF TimeSlice, sleepVars, ctlVars, IInv, Places
<1> QED BY <1>2, <1>3 DEF TimeSlice, sleepVars, ctlVars, IInv, Types, ProcTypes, SigTypes,
                          HistTypes, CtlTypes, OwnTypes

\* Entering and leaving the kernel (syscall.c) keep the invariant.
LEMMA UserStepKeeps ==
    ASSUME IInv, NEW p \in Proc, UserStep(p)
    PROVE  IInv'
<1>1. /\ Running(p)
      /\ GotoWith(p, "kernel", NOVOID) \/ GotoWith(p, "user", NOVOID)
      /\ UNCHANGED u_sig \/ u_sig' = [u_sig EXCEPT ![p] = {}]
      /\ UNCHANGED <<u_state, u_pri, u_sema, u_sigwake, h_uproc, u_synch, val, cpu, held, passed>>
  BY DEF UserStep, EnterKernel, LeaveKernel, At, Goto, GotoWith, sleepVars
<1>2. Places' /\ CtlTypes'
  BY <1>1, MoveKeeps, GotoTypes DEF Label, IInv, Types
<1>3. SigTypes'
  BY <1>1, SigKept DEF IInv, Types
<1> QED BY <1>1, <1>2, <1>3 DEF IInv, Types, ProcTypes, PriTypes, HistTypes, OwnTypes

-----------------------------------------------------------------------------
(* The theorems *)

\* Every step of the kernel keeps the invariant.
LEMMA NextKeeps ==
    ASSUME NoKillRace, IInv, [Next]_vars
    PROVE  IInv'
<1>1. CASE UNCHANGED vars
  <2>1. Places'
    BY <1>1, AwakeKeeps DEF vars, IInv, Places
  <2> QED BY <1>1, <2>1 DEF vars, IInv, Types, ProcTypes, PriTypes, SigTypes, HistTypes, CtlTypes, OwnTypes
<1>2. CASE InterruptStep
  <2>1. ASSUME NEW p \in Proc, NEW s \in Signals, SignalFromInterrupt(p, s), UNCHANGED <<held, passed>>
        PROVE  IInv'
    BY <2>1, SignalFromInterruptKeeps
  <2>2. ASSUME NEW o \in Sema, SemaFreeFromInterrupt(o) PROVE IInv'
    BY <2>2, SemaFreeFromInterruptKeeps
  <2>3. ASSUME NEW e \in Event, EventDone(e), UNCHANGED <<held, passed>> PROVE IInv'
    BY <2>3, EventDoneKeeps
  <2>4. CASE TimeSlice /\ UNCHANGED <<held, passed>>
    BY <2>4, TimeSliceKeeps
  <2> QED BY <1>2, <2>1, <2>2, <2>3, <2>4 DEF InterruptStep
<1>3. ASSUME NEW p \in Proc, ProcessStep(p) PROVE IInv'
  <2>1. CASE KillStep(p)
    <3>1. ASSUME NEW q \in Proc, NEW s \in Signals, KillMark(p, q, s), UNCHANGED <<held, passed>>
          PROVE  IInv'
      BY <3>1, KillMarkKeeps
    <3>2. CASE KillWake(p) /\ UNCHANGED <<held, passed>>
      BY <3>2, KillWakeKeeps
    <3> QED BY <2>1, <3>1, <3>2 DEF KillStep
  <2> QED BY <1>3, <2>1, LockStepKeeps, SemaStepKeeps, EventStepKeeps, UserStepKeeps DEF ProcessStep
<1>4. ASSUME NEW p \in Proc, SwitchStep(p) PROVE IInv'
  BY <1>4, SwitchStepKeeps
<1> QED BY <1>1, <1>2, <1>3, <1>4 DEF Next

\* Types, exact queues and the places of sleeping, woken and killing processes
\* hold always: the invariant behind the two theorems below.
THEOREM IInvAlways == ASSUME NoKillRace PROVE Spec => []IInv
BY InitIInv, NextKeeps, PTL DEF Spec

\* Every field of the process table, every object and every queue keeps its type;
\* the byte of a lock or an event stays a byte.
THEOREM TypesCorrect == ASSUME NoKillRace PROVE Spec => []TypeOK
BY IInvAlways, IInvTypeOK, PTL

\* A process is in the hash queue of the object it waits for and in no other,
\* once, and exactly while it sleeps.
THEOREM QueuesCorrect == ASSUME NoKillRace PROVE Spec => []QueuesExact
BY IInvAlways, IInvQueuesExact, PTL

-----------------------------------------------------------------------------
(* The history of synchronisation (sync.c) as a set of objects *)

\* The objects of a history, and a history that has each of them once.
Entries(h) == { h[i][1] : i \in Slot } \ {NOVOID}
Once(h) == \A i, j \in Slot : h[i][1] = h[j][1] /\ h[i][1] # NOVOID => i = j

\* The scan of the table stops at an entry of the object, if there is one.
LEMMA FirstSlotFound ==
    ASSUME NEW h, NEW o, Listed(h, o)
    PROVE  FirstSlot(h, o) \in Slot /\ h[FirstSlot(h, o)][1] = o
<1> DEFINE T == { i \in Slot : h[i][1] = o }
<1>1. T \in SUBSET Nat /\ T # {}
  BY DEF Listed, Slot
<1>2. PICK i \in T : \A j \in T : i <= j
  BY <1>1, Least
<1>3. i \in Slot /\ h[i][1] = o /\ \A j \in 1..(i - 1) : h[j][1] # o
  BY <1>2, SyncAssumption DEF Slot
<1> HIDE DEF T
<1> QED BY <1>3 DEF FirstSlot

\* syncset enters an object that was not there, in a table with room.
LEMMA SetEntries ==
    ASSUME NEW h \in History, Once(h), NEW o \in Obj, o \notin Entries(h), Listed(h, NOVOID), NEW st
    PROVE  Once(syncset(h, o, st)) /\ Entries(syncset(h, o, st)) = Entries(h) \cup {o}
<1> DEFINE k == FirstSlot(h, NOVOID)
           g == [h EXCEPT ![k] = <<o, st>>]
<1>1. k \in Slot /\ h[k][1] = NOVOID /\ syncset(h, o, st) = g /\ o # NOVOID
  BY FirstSlotFound, SyncAssumption DEF syncset
<1> HIDE DEF k
<1>2. \A i \in Slot : g[i][1] = IF i = k THEN o ELSE h[i][1]
  BY DEF History
<1> HIDE DEF g
<1>3. \A i \in Slot : h[i][1] # o
  BY <1>1 DEF Entries
<1>4. Once(g)
  BY <1>1, <1>2, <1>3 DEF Once
<1>5. Entries(g) = Entries(h) \cup {o}
  BY <1>1, <1>2 DEF Entries
<1> QED BY <1>1, <1>4, <1>5

\* syncgot changes the state of an entry and no object.
LEMMA GotEntries ==
    ASSUME NEW h \in History, Once(h), NEW o \in Obj
    PROVE  Once(syncgot(h, o)) /\ Entries(syncgot(h, o)) = Entries(h)
<1> DEFINE k == FirstSlot(h, o)
           g == [h EXCEPT ![k] = <<o, "E_GOT">>]
<1>1. CASE Listed(h, o)
  <2>1. k \in Slot /\ h[k][1] = o /\ syncgot(h, o) = g
    BY <1>1, FirstSlotFound DEF syncgot
  <2> HIDE DEF k
  <2>2. \A i \in Slot : g[i][1] = h[i][1]
    BY <2>1 DEF History
  <2> HIDE DEF g
  <2> QED BY <2>1, <2>2 DEF Once, Entries
<1>2. CASE ~Listed(h, o)
  BY <1>2 DEF syncgot
<1> QED BY <1>1, <1>2

\* syncclr takes the only entry of the object out.
LEMMA ClrEntries ==
    ASSUME NEW h \in History, Once(h), NEW o \in Obj
    PROVE  Once(syncclr(h, o)) /\ Entries(syncclr(h, o)) = Entries(h) \ {o}
<1> DEFINE k == FirstSlot(h, o)
           g == [h EXCEPT ![k] = NoEntry]
<1>1. CASE Listed(h, o)
  <2>1. k \in Slot /\ h[k][1] = o /\ syncclr(h, o) = g /\ o # NOVOID
    BY <1>1, FirstSlotFound, SyncAssumption DEF syncclr
  <2> HIDE DEF k
  <2>2. \A i \in Slot : g[i][1] = IF i = k THEN NOVOID ELSE h[i][1]
    BY <2>1 DEF History, NoEntry
  <2> HIDE DEF g
  <2>3. \A i \in Slot : i # k => h[i][1] # o
    BY <2>1 DEF Once
  <2>4. Once(g)
    BY <2>1, <2>2 DEF Once
  <2>5. Entries(g) = Entries(h) \ {o}
    BY <2>1, <2>2, <2>3 DEF Entries
  <2> QED BY <2>1, <2>4, <2>5
<1>2. CASE ~Listed(h, o)
  <2>1. o \notin Entries(h)
    BY <1>2 DEF Entries, Listed
  <2> QED BY <1>2, <2>1 DEF syncclr
<1> QED BY <1>1, <1>2

\* A table without room has as many objects as entries.
LEMMA FullTable ==
    ASSUME NEW h \in History, Once(h), ~Listed(h, NOVOID)
    PROVE  IsFiniteSet(Entries(h)) /\ Cardinality(Entries(h)) = NHIST
<1> DEFINE f == [i \in Slot |-> h[i][1]]
<1>1. NHIST \in Nat /\ IsFiniteSet(Slot) /\ Cardinality(Slot) = NHIST
  BY SyncAssumption, FS_Interval DEF Slot
<1>2. Entries(h) = { h[i][1] : i \in Slot }
  BY DEF Entries, Listed
<1>3. \A i, j \in Slot : f[i] = f[j] => i = j
  BY DEF Once, Listed
<1>4. f \in Surjection(Slot, Entries(h)) /\ f \in Injection(Slot, Entries(h))
  BY <1>2, <1>3 DEF Surjection, Injection, IsInjective
<1> HIDE DEF f
<1> QED BY <1>1, <1>4, FS_Surjection

\* A history has finitely many objects.
LEMMA EntriesFinite ==
    ASSUME NEW h \in History
    PROVE  IsFiniteSet(Entries(h))
<1> DEFINE f == [i \in Slot |-> h[i][1]]
           S == { h[i][1] : i \in Slot }
<1>1. IsFiniteSet(Slot)
  BY SyncAssumption, FS_Interval DEF Slot
<1>2. f \in Surjection(Slot, S)
  BY DEF Surjection
<1>3. IsFiniteSet(S)
  <2> HIDE DEF f, S
  <2> QED BY <1>1, <1>2, FS_Surjection
<1> HIDE DEF S
<1>4. Entries(h) \subseteq S
  BY DEF Entries, S
<1> QED BY <1>3, <1>4, FS_Subset

-----------------------------------------------------------------------------
(* The inductive invariant of the histories *)

\* No process holds more objects than its history has entries.
HeldFits == \A p \in Proc : Cardinality(held[p]) <= NHIST

\* The signals that are sent interrupt the system call, and kill () is not
\* preempted between the two halves of sigproc.
CaughtSignals == "IGN" \notin Signals /\ (PREEMPT => Killers = {})

\* History h of a process that holds own, is at label l for a, was woken by a
\* signal (w) and has the signals s pending.  Only the object it sleeps for may
\* be there and not held, and may be missing if the table was full.
HistOf(h, own, l, a, w, s) ==
    /\ Once(h)
    /\ l # "asleep" => Entries(h) = own
    /\ l = "asleep" =>
          /\ a \in Obj \ own
          /\ \/ Entries(h) = own \cup {a}
             \/ Entries(h) = own /\ Cardinality(own) = NHIST
    /\ l = "sleepqueue" => a \in Lock \ own
    /\ l \notin {"sleepagain", "semaagain"}
    /\ w => l = "asleep" /\ s # {}

HistInv ==
    \A p \in Proc : HistOf(u_synch[p], held[p], pc[p], arg[p], u_sigwake[p], u_sig[p])

\* The victim of an unfinished kill () has the signal pending.
KillPending == \A k \in Proc : pc[k] = "kill" => k \in Killers /\ u_sig[arg[k]] # {}

\* Taking an object, or being given the one slept for, enters it.
LEMMA TakeHist ==
    ASSUME NEW h \in History, Once(h), NEW own, Entries(h) = own, NEW o \in Obj \ own,
           Cardinality(own \cup {o}) <= NHIST, NEW st
    PROVE  Once(syncset(h, o, st)) /\ Entries(syncset(h, o, st)) = own \cup {o}
<1>1. CASE Listed(h, NOVOID)
  BY <1>1, SetEntries
<1>2. CASE ~Listed(h, NOVOID)
  <2>1. IsFiniteSet(own) /\ Cardinality(own) = NHIST
    BY <1>2, FullTable
  <2>2. Cardinality(own \cup {o}) = NHIST + 1
    BY <2>1, FS_AddElement
  <2> QED BY <2>2, SyncAssumption
<1> QED BY <1>1, <1>2

\* A process that queues itself enters the object, if there is room.
LEMMA WaitHist ==
    ASSUME NEW h \in History, Once(h), NEW own, Entries(h) = own, NEW o \in Obj \ own, NEW st
    PROVE  /\ Once(syncset(h, o, st))
           /\ \/ Entries(syncset(h, o, st)) = own \cup {o}
              \/ Entries(syncset(h, o, st)) = own /\ Cardinality(own) = NHIST
<1>1. CASE Listed(h, NOVOID)
  BY <1>1, SetEntries
<1>2. CASE ~Listed(h, NOVOID)
  <2>1. Cardinality(own) = NHIST /\ syncset(h, o, st) = h
    BY <1>2, FullTable DEF syncset
  <2> QED BY <2>1
<1> QED BY <1>1, <1>2

\* The object slept for was handed over.
LEMMA GrantHist ==
    ASSUME NEW h \in History, Once(h), NEW own, NEW o \in Obj \ own,
           Entries(h) = own \cup {o} \/ (Entries(h) = own /\ Cardinality(own) = NHIST),
           Cardinality(own \cup {o}) <= NHIST
    PROVE  Once(syncgot(h, o)) /\ Entries(syncgot(h, o)) = own \cup {o}
<1>1. Once(syncgot(h, o)) /\ Entries(syncgot(h, o)) = Entries(h)
  BY GotEntries
<1>2. ~(Entries(h) = own /\ Cardinality(own) = NHIST)
  <2> SUFFICES ASSUME Entries(h) = own, Cardinality(own) = NHIST PROVE FALSE
    OBVIOUS
  <2>1. Cardinality(own \cup {o}) = NHIST + 1
    BY EntriesFinite, FS_AddElement
  <2> QED BY <2>1, SyncAssumption
<1> QED BY <1>1, <1>2

\* The sleep was broken, or was for an event.
LEMMA GiveUpHist ==
    ASSUME NEW h \in History, Once(h), NEW own, NEW o \in Obj \ own,
           Entries(h) = own \cup {o} \/ Entries(h) = own
    PROVE  /\ Once(syncclr(h, o)) /\ Entries(syncclr(h, o)) = own
           /\ Once(syncclr(syncgot(h, o), o)) /\ Entries(syncclr(syncgot(h, o), o)) = own
<1>1. Once(syncclr(h, o)) /\ Entries(syncclr(h, o)) = Entries(h) \ {o}
  BY ClrEntries
<1>2. syncgot(h, o) \in History /\ Once(syncgot(h, o)) /\ Entries(syncgot(h, o)) = Entries(h)
  BY GotEntries, HistoryTypes
<1>3. /\ Once(syncclr(syncgot(h, o), o))
      /\ Entries(syncclr(syncgot(h, o), o)) = Entries(syncgot(h, o)) \ {o}
  BY <1>2, ClrEntries
<1> QED BY <1>1, <1>2, <1>3

-----------------------------------------------------------------------------
(* Steps of a process *)

\* A process p changes nothing of the histories of the others.
Alone(p) ==
    \A q \in Proc \ {p} :
        /\ u_synch'[q] = u_synch[q] /\ held'[q] = held[q] /\ pc'[q] = pc[q]
        /\ arg'[q] = arg[q] /\ u_sigwake'[q] = u_sigwake[q] /\ u_sig'[q] = u_sig[q]

\* The others keep their histories, and nobody is in the middle of kill ().
LEMMA OthersHist ==
    ASSUME CaughtSignals, IInv, HistInv, KillPending, NEW p \in Proc, Running(p), Alone(p),
           pc'[p] # "kill",
           HistOf(u_synch'[p], held'[p], pc'[p], arg'[p], u_sigwake'[p], u_sig'[p])
    PROVE  HistInv' /\ KillPending'
<1>1. \A q \in Proc \ {p} :
         HistOf(u_synch'[q], held'[q], pc'[q], arg'[q], u_sigwake'[q], u_sig'[q])
  BY DEF Alone, HistInv
<1>2. HistInv'
  BY <1>1 DEF HistInv
<1>3. \A k \in Proc : pc'[k] # "kill"
  BY DEF Alone, KillPending, IInv, Places, KillExact, Running, CaughtSignals
<1> QED BY <1>2, <1>3 DEF KillPending

\* What every step of a process assumes.
Before(p) == CaughtSignals /\ IInv /\ HistInv /\ KillPending /\ Running(p)
After == HistInv' /\ KillPending'

\* A process that does not sleep goes somewhere.
LEMMA MovedHist ==
    ASSUME NEW p \in Proc, Before(p), pc[p] # "asleep",
           NEW l \in {"kernel", "eintr", "user", "eventqueue", "sleepqueue"}, NEW a,
           l = "sleepqueue" => a \in Lock \ held[p], GotoWith(p, l, a),
           u_sig' = u_sig \/ u_sig' = [u_sig EXCEPT ![p] = {}],
           UNCHANGED <<u_synch, held, u_sigwake>>
    PROVE  After
<1>1. u_synch' = [u_synch EXCEPT ![p] = u_synch[p]] /\ held' = [held EXCEPT ![p] = held[p]]
  BY DEF Before, IInv, Types, HistTypes, OwnTypes
<1>2. /\ Alone(p) /\ pc'[p] = l /\ arg'[p] = a /\ u_synch'[p] = u_synch[p] /\ held'[p] = held[p]
      /\ u_sigwake'[p] => u_sigwake[p]
  BY <1>1 DEF Alone, Before, IInv, GotoWith, Types, CtlTypes, HistTypes, OwnTypes, ProcTypes, SigTypes
<1>3. HistOf(u_synch'[p], held'[p], pc'[p], arg'[p], u_sigwake'[p], u_sig'[p])
  BY <1>2 DEF Before, HistInv, HistOf
<1> QED BY <1>2, <1>3, OthersHist DEF Before, After

\* A process takes an object that is free.
LEMMA TakenHist ==
    ASSUME NEW p \in Proc, Before(p), pc[p] # "asleep", NEW o \in Obj, o \notin held[p], HeldFits',
           u_synch' = [u_synch EXCEPT ![p] = syncset(@, o, "E_GOT")],
           held' = [held EXCEPT ![p] = @ \cup {o}], Goto(p, "kernel"), UNCHANGED <<u_sigwake, u_sig>>
    PROVE  After
<1> DEFINE h == u_synch[p]
           own == held[p]
<1>1. h \in History /\ Once(h) /\ Entries(h) = own /\ ~u_sigwake[p]
  BY DEF Before, HistInv, HistOf, IInv, Types, HistTypes
<1>2. /\ Alone(p) /\ pc'[p] = "kernel" /\ arg'[p] = NOVOID
      /\ u_synch'[p] = syncset(h, o, "E_GOT") /\ held'[p] = own \cup {o}
      /\ u_sigwake'[p] => u_sigwake[p]
  <2>1. /\ GotoWith(p, "kernel", NOVOID)
        /\ u_synch' = [u_synch EXCEPT ![p] = syncset(h, o, "E_GOT")]
        /\ held' = [held EXCEPT ![p] = own \cup {o}]
        /\ u_sigwake' = u_sigwake \/ u_sigwake' = [u_sigwake EXCEPT ![p] = FALSE]
        /\ u_sig' = u_sig \/ u_sig' = [u_sig EXCEPT ![p] = {}]
    BY DEF Goto, GotoWith
  <2> HIDE DEF h, own
  <2>0. Types
    BY DEF Before, IInv
  <2> QED BY <2>0, <2>1 DEF Alone, GotoWith, Types, CtlTypes, HistTypes, OwnTypes, ProcTypes, SigTypes
<1>3. Cardinality(own \cup {o}) <= NHIST
  BY <1>2 DEF HeldFits
<1> HIDE DEF h, own
<1>4. Once(u_synch'[p]) /\ Entries(u_synch'[p]) = held'[p]
  BY <1>1, <1>2, <1>3, TakeHist DEF own
<1>5. HistOf(u_synch'[p], held'[p], pc'[p], arg'[p], u_sigwake'[p], u_sig'[p])
  BY <1>1, <1>2, <1>4 DEF HistOf
<1> QED BY <1>2, <1>5, OthersHist DEF Before, After

\* A process queues itself on an object.
LEMMA QueuedHist ==
    ASSUME NEW p \in Proc, Before(p), pc[p] # "asleep", NEW o \in Obj, o \notin held[p],
           u_synch' = [u_synch EXCEPT ![p] = syncset(@, o, "E_WAIT")], GotoWith(p, "asleep", o),
           u_sig' = u_sig \/ u_sig' = [u_sig EXCEPT ![p] = {}], UNCHANGED <<held, u_sigwake>>
    PROVE  After
<1> DEFINE h == u_synch[p]
           own == held[p]
<1>1. h \in History /\ Once(h) /\ Entries(h) = own /\ ~u_sigwake[p]
  BY DEF Before, HistInv, HistOf, IInv, Types, HistTypes
<1>2. /\ Alone(p) /\ pc'[p] = "asleep" /\ arg'[p] = o
      /\ u_synch'[p] = syncset(h, o, "E_WAIT") /\ held'[p] = own
      /\ u_sigwake'[p] => u_sigwake[p]
  <2>1. /\ u_synch' = [u_synch EXCEPT ![p] = syncset(h, o, "E_WAIT")]
        /\ held' = [held EXCEPT ![p] = own]
        /\ u_sigwake' = u_sigwake \/ u_sigwake' = [u_sigwake EXCEPT ![p] = FALSE]
        /\ u_sig' = u_sig \/ u_sig' = [u_sig EXCEPT ![p] = {}]
    BY DEF Before, IInv, Types, OwnTypes
  <2> HIDE DEF h, own
  <2>0. Types
    BY DEF Before, IInv
  <2> QED BY <2>0, <2>1 DEF Alone, GotoWith, Types, CtlTypes, HistTypes, OwnTypes, ProcTypes, SigTypes
<1> HIDE DEF h, own
<1>3. /\ Once(u_synch'[p])
      /\ Entries(u_synch'[p]) = own \cup {o} \/ (Entries(u_synch'[p]) = own /\ Cardinality(own) = NHIST)
  BY <1>1, <1>2, WaitHist DEF own
<1>4. HistOf(u_synch'[p], held'[p], pc'[p], arg'[p], u_sigwake'[p], u_sig'[p])
  BY <1>1, <1>2, <1>3 DEF HistOf, own
<1> QED BY <1>2, <1>4, OthersHist DEF Before, After

\* The sleep ended with the lock or the semaphore.
LEMMA GrantedHist ==
    ASSUME NEW p \in Proc, Before(p), pc[p] = "asleep", ~u_sigwake[p], HeldFits',
           u_synch' = [u_synch EXCEPT ![p] = syncgot(@, arg[p])],
           held' = [held EXCEPT ![p] = @ \cup {arg[p]}], Goto(p, "kernel"),
           UNCHANGED <<u_sigwake, u_sig>>
    PROVE  After
<1> DEFINE h == u_synch[p]
           own == held[p]
           o == arg[p]
<1>1. h \in History /\ Once(h) /\ o \in Obj \ own
      /\ (Entries(h) = own \cup {o} \/ (Entries(h) = own /\ Cardinality(own) = NHIST))
  BY DEF Before, HistInv, HistOf, IInv, Types, HistTypes
<1>2. /\ Alone(p) /\ pc'[p] = "kernel" /\ arg'[p] = NOVOID
      /\ u_synch'[p] = syncgot(h, o) /\ held'[p] = own \cup {o}
      /\ u_sigwake'[p] => u_sigwake[p]
  <2>1. /\ GotoWith(p, "kernel", NOVOID)
        /\ u_synch' = [u_synch EXCEPT ![p] = syncgot(h, o)]
        /\ held' = [held EXCEPT ![p] = own \cup {o}]
        /\ u_sigwake' = u_sigwake \/ u_sigwake' = [u_sigwake EXCEPT ![p] = FALSE]
        /\ u_sig' = u_sig \/ u_sig' = [u_sig EXCEPT ![p] = {}]
    BY DEF Goto, GotoWith
  <2> HIDE DEF h, own, o
  <2>0. Types
    BY DEF Before, IInv
  <2> QED BY <2>0, <2>1 DEF Alone, GotoWith, Types, CtlTypes, HistTypes, OwnTypes, ProcTypes, SigTypes
<1>3. Cardinality(own \cup {o}) <= NHIST
  BY <1>2 DEF HeldFits
<1> HIDE DEF h, own, o
<1>4. Once(u_synch'[p]) /\ Entries(u_synch'[p]) = held'[p]
  <2>1. o \in Obj /\ o \notin own
    BY <1>1
  <2>2. Once(syncgot(h, o)) /\ Entries(syncgot(h, o)) = own \cup {o}
    BY <1>1, <1>3, <2>1, GrantHist
  <2> QED BY <1>2, <2>2
<1>5. HistOf(u_synch'[p], held'[p], pc'[p], arg'[p], u_sigwake'[p], u_sig'[p])
  BY <1>2, <1>4 DEF HistOf
<1> QED BY <1>2, <1>5, OthersHist DEF Before, After

\* The sleep was for an event, or a signal broke it: the entry goes.
LEMMA GaveUpHist ==
    ASSUME NEW p \in Proc, Before(p), pc[p] = "asleep",
           \/ u_synch' = [u_synch EXCEPT ![p] = syncclr(@, arg[p])]
           \/ u_synch' = [u_synch EXCEPT ![p] = syncclr(syncgot(@, arg[p]), arg[p])],
           NEW l \in {"kernel", "eintr"}, Goto(p, l),
           u_sigwake' = [u_sigwake EXCEPT ![p] = FALSE], UNCHANGED <<held, u_sig>>
    PROVE  After
<1> DEFINE h == u_synch[p]
           own == held[p]
           o == arg[p]
<1>1. h \in History /\ Once(h) /\ o \in Obj \ own /\ (Entries(h) = own \cup {o} \/ Entries(h) = own)
  BY DEF Before, HistInv, HistOf, IInv, Types, HistTypes
<1>2. PICK g \in {syncclr(h, o), syncclr(syncgot(h, o), o)} : u_synch' = [u_synch EXCEPT ![p] = g]
  OBVIOUS
<1>3. /\ Alone(p) /\ pc'[p] = l /\ arg'[p] = NOVOID /\ u_synch'[p] = g /\ held'[p] = own
      /\ ~u_sigwake'[p]
  <2>1. /\ GotoWith(p, l, NOVOID)
        /\ held' = [held EXCEPT ![p] = own]
        /\ u_sigwake' = u_sigwake \/ u_sigwake' = [u_sigwake EXCEPT ![p] = FALSE]
        /\ u_sig' = u_sig \/ u_sig' = [u_sig EXCEPT ![p] = {}]
    BY DEF Goto, GotoWith, Before, IInv, Types, OwnTypes
  <2>2. ~u_sigwake'[p]
    BY DEF Before, IInv, Types, ProcTypes
  <2> HIDE DEF h, own, o
  <2>0. Types
    BY DEF Before, IInv
  <2> QED BY <1>2, <2>0, <2>1, <2>2 DEF Alone, GotoWith, Types, CtlTypes, HistTypes, OwnTypes, ProcTypes, SigTypes
<1> HIDE DEF h, own, o
<1>4. Once(g) /\ Entries(g) = own
  BY <1>1, <1>2, GiveUpHist
<1>5. HistOf(u_synch'[p], held'[p], pc'[p], arg'[p], u_sigwake'[p], u_sig'[p])
  BY <1>3, <1>4 DEF HistOf
<1> QED BY <1>3, <1>5, OthersHist DEF Before, After

\* A process frees what it holds, or passes it on.
LEMMA FreedHist ==
    ASSUME NEW p \in Proc, Before(p), pc[p] = "kernel", NEW o \in held[p],
           u_synch' = [u_synch EXCEPT ![p] = syncclr(@, o)],
           held' = [held EXCEPT ![p] = @ \ {o}], UNCHANGED <<pc, arg, hp, u_sigwake, u_sig>>
    PROVE  After
<1> DEFINE h == u_synch[p]
           own == held[p]
<1>1. h \in History /\ Once(h) /\ Entries(h) = own /\ ~u_sigwake[p] /\ o \in Obj
  BY DEF Before, HistInv, HistOf, IInv, Types, HistTypes, OwnTypes, Obj
<1>2. /\ Alone(p) /\ pc'[p] = "kernel" /\ u_synch'[p] = syncclr(h, o) /\ held'[p] = own \ {o}
      /\ u_sigwake'[p] => u_sigwake[p]
  <2>1. /\ GotoWith(p, "kernel", arg[p])
        /\ u_synch' = [u_synch EXCEPT ![p] = syncclr(h, o)]
        /\ held' = [held EXCEPT ![p] = own \ {o}]
        /\ u_sigwake' = u_sigwake \/ u_sigwake' = [u_sigwake EXCEPT ![p] = FALSE]
        /\ u_sig' = u_sig \/ u_sig' = [u_sig EXCEPT ![p] = {}]
    BY DEF GotoWith, Before, IInv, Types, CtlTypes
  <2> HIDE DEF h, own
  <2>0. Types
    BY DEF Before, IInv
  <2> QED BY <2>0, <2>1 DEF Alone, GotoWith, Types, CtlTypes, HistTypes, OwnTypes, ProcTypes, SigTypes
<1> HIDE DEF h, own
<1>3. Once(u_synch'[p]) /\ Entries(u_synch'[p]) = held'[p]
  BY <1>1, <1>2, ClrEntries
<1>4. HistOf(u_synch'[p], held'[p], pc'[p], arg'[p], u_sigwake'[p], u_sig'[p])
  BY <1>1, <1>2, <1>3 DEF HistOf
<1> QED BY <1>2, <1>4, OthersHist DEF Before, After

\* A broken sleep ends with a signal that interrupts the call.
LEMMA BrokenBySignal ==
    ASSUME NEW p \in Proc, Before(p), u_sigwake[p]
    PROVE  sigpend(p)
<1>1. u_sig[p] # {} /\ u_sig[p] \subseteq Signals /\ "IGN" \notin Signals
  BY DEF Before, HistInv, HistOf, IInv, Types, SigTypes, CaughtSignals
<1> QED BY <1>1 DEF sigpend

\* The tests of sleeplock keep the histories.
LEMMA TryLockHist ==
    ASSUME NEW p \in Proc, Before(p), HeldFits', pc[p] # "asleep", NEW o \in Lock \ held[p], TryLock(p, o)
    PROVE  After
<1>1. CASE TakeLock(p, o)
  <2>1. /\ u_synch' = [u_synch EXCEPT ![p] = syncset(@, o, "E_GOT")]
        /\ held' = [held EXCEPT ![p] = @ \cup {o}]
        /\ Goto(p, "kernel")
        /\ UNCHANGED <<u_sigwake, u_sig>>
    BY <1>1 DEF TakeLock, sleepVars
  <2> QED BY <2>1, TakenHist DEF Obj
<1>2. CASE ~TakeLock(p, o)
  <2>1. /\ \/ GotoWith(p, "eintr", NOVOID)
           \/ GotoWith(p, "sleepqueue", o)
        /\ u_sig' = u_sig \/ u_sig' = [u_sig EXCEPT ![p] = {}]
        /\ UNCHANGED <<u_synch, held, u_sigwake>>
    BY <1>2 DEF TryLock, sleepVars, Goto, GotoWith
  <2> QED BY <2>1, MovedHist
<1> QED BY <1>1, <1>2

\* The steps of sleep.c keep the histories.
LEMMA LockStepHist ==
    ASSUME CaughtSignals, IInv, HistInv, KillPending, HeldFits', NEW p \in Proc, LockStep(p)
    PROVE  After
<1>1. pc[p] # "sleepagain"
  BY DEF HistInv, HistOf
<1>2. ASSUME NEW o \in Lock, sleeplock(p, o) PROVE After
  <2>1. Before(p) /\ pc[p] # "asleep" /\ o \in Lock \ held[p] /\ TryLock(p, o)
    BY <1>2 DEF sleeplock, At, Before
  <2> QED BY <2>1, TryLockHist
<1>3. ASSUME NEW o \in Lock, sleeptest(p, o) PROVE After
  <2>1. Before(p) /\ pc[p] # "asleep" /\ o \in Lock \ held[p] /\ TryLock(p, o)
    BY <1>3 DEF sleeptest, At, Before, TryLock
  <2> QED BY <2>1, TryLockHist
<1>4. ASSUME NEW o \in Lock, sleepfree(p, o) PROVE After
  <2>1. /\ Before(p) /\ pc[p] = "kernel" /\ o \in held[p]
        /\ u_synch' = [u_synch EXCEPT ![p] = syncclr(@, o)]
        /\ held' = [held EXCEPT ![p] = @ \ {o}]
        /\ UNCHANGED <<pc, arg, hp, u_sig>>
    BY <1>4 DEF sleepfree, At, Before, ctlVars
  <2>2. UNCHANGED u_sigwake
    BY <1>4 DEF sleepfree, sleepVars, HandOver
  <2> QED BY <2>1, <2>2, FreedHist
<1>5. CASE arg[p] \in Lock /\ SleepLockQueue(p)
  <2>1. Before(p) /\ pc[p] = "sleepqueue" /\ arg[p] \in Lock \ held[p]
    BY <1>5 DEF SleepLockQueue, At, Before, HistInv, HistOf
  <2>2. CASE BitClear(val[arg[p]]) /\ TakeLock(p, arg[p])
    BY <2>1, <2>2, TryLockHist DEF TryLock
  <2>3. CASE ~(BitClear(val[arg[p]]) /\ TakeLock(p, arg[p]))
    <3>1. /\ u_synch' = [u_synch EXCEPT ![p] = syncset(@, arg[p], "E_WAIT")]
          /\ GotoWith(p, "asleep", arg[p])
          /\ u_sig' = u_sig
          /\ UNCHANGED <<held, u_sigwake>>
      BY <1>5, <2>3 DEF SleepLockQueue, Enqueue
    <3> QED BY <2>1, <3>1, QueuedHist DEF Obj
  <2> QED BY <2>2, <2>3
<1>6. CASE arg[p] \in Lock /\ SleepLockAwake(p)
  <2>1. Before(p) /\ pc[p] = "asleep"
    BY <1>6 DEF SleepLockAwake, At, Before
  <2>2. CASE ~u_sigwake[p]
    BY <1>6, <2>1, <2>2, GrantedHist DEF SleepLockAwake
  <2>3. CASE u_sigwake[p]
    <3>1. sigpend(p)
      BY <2>1, <2>3, BrokenBySignal
    <3>2. /\ u_synch' = [u_synch EXCEPT ![p] = syncclr(syncgot(@, arg[p]), arg[p])]
          /\ Goto(p, "eintr")
          /\ u_sigwake' = [u_sigwake EXCEPT ![p] = FALSE]
          /\ UNCHANGED <<held, u_sig>>
      BY <1>6, <2>3, <3>1 DEF SleepLockAwake
    <3> QED BY <2>1, <3>2, GaveUpHist
  <2> QED BY <2>2, <2>3
<1> QED BY <1>1, <1>2, <1>3, <1>4, <1>5, <1>6 DEF LockStep, SleepLockAgain, At

\* The test of semalock keeps the histories.
LEMMA TrySemaHist ==
    ASSUME NEW p \in Proc, Before(p), HeldFits', pc[p] # "asleep", NEW o \in Sema \ held[p], TrySema(p, o)
    PROVE  After
<1>1. CASE TakeSema(p, o)
  <2>1. /\ u_synch' = [u_synch EXCEPT ![p] = syncset(@, o, "E_GOT")]
        /\ held' = [held EXCEPT ![p] = @ \cup {o}]
        /\ Goto(p, "kernel")
        /\ UNCHANGED <<u_sigwake, u_sig>>
    BY <1>1 DEF TakeSema, sleepVars
  <2> QED BY <2>1, TakenHist DEF Obj
<1>2. CASE /\ Goto(p, "eintr")
           /\ UNCHANGED <<u_state, u_pri, sleepVars, u_sig, u_synch, val, cpu, held, passed>>
  <2>1. GotoWith(p, "eintr", NOVOID) /\ u_sig' = u_sig /\ UNCHANGED <<u_synch, held, u_sigwake>>
    BY <1>2 DEF sleepVars, Goto, GotoWith
  <2> QED BY <2>1, MovedHist
<1>3. CASE /\ Enqueue(p, o)
           /\ u_synch' = [u_synch EXCEPT ![p] = syncset(@, o, "E_WAIT")]
           /\ u_sig' = IF Interruptible(o) THEN [u_sig EXCEPT ![p] = {}] ELSE u_sig
           /\ GotoWith(p, "asleep", o)
           /\ UNCHANGED held
  <2>1. UNCHANGED u_sigwake /\ (u_sig' = u_sig \/ u_sig' = [u_sig EXCEPT ![p] = {}])
    BY <1>3 DEF Enqueue
  <2> QED BY <1>3, <2>1, QueuedHist DEF Obj
<1> QED BY <1>1, <1>2, <1>3 DEF TrySema

\* The steps of sema.c by a process keep the histories.
LEMMA SemaStepHist ==
    ASSUME CaughtSignals, IInv, HistInv, KillPending, HeldFits', NEW p \in Proc, SemaStep(p)
    PROVE  After
<1>1. pc[p] # "semaagain"
  BY DEF HistInv, HistOf
<1>2. ASSUME NEW o \in Sema, semalock(p, o) \/ sematest(p, o) PROVE After
  <2>1. Before(p) /\ pc[p] # "asleep" /\ o \in Sema \ held[p] /\ TrySema(p, o)
    BY <1>2 DEF semalock, sematest, At, Before, TrySema
  <2> QED BY <2>1, TrySemaHist
<1>3. ASSUME NEW o \in Sema, semafree(p, o) \/ PassSema(p, o) PROVE After
  <2>1. /\ Before(p) /\ pc[p] = "kernel" /\ o \in held[p]
        /\ u_synch' = [u_synch EXCEPT ![p] = syncclr(@, o)]
        /\ held' = [held EXCEPT ![p] = @ \ {o}]
        /\ UNCHANGED <<pc, arg, hp, u_sig>>
    BY <1>3 DEF semafree, PassSema, FreeSema, At, Before, ctlVars
  <2>2. UNCHANGED u_sigwake
    BY <1>3 DEF semafree, PassSema, FreeSema, sleepVars, HandOver
  <2> QED BY <2>1, <2>2, FreedHist
<1>4. CASE arg[p] \in Sema /\ SemaLockAwake(p)
  <2>1. Before(p) /\ pc[p] = "asleep"
    BY <1>4 DEF SemaLockAwake, At, Before
  <2>2. CASE ~u_sigwake[p]
    BY <1>4, <2>1, <2>2, GrantedHist DEF SemaLockAwake
  <2>3. CASE u_sigwake[p]
    <3>1. sigpend(p)
      BY <2>1, <2>3, BrokenBySignal
    <3>2. /\ u_synch' = [u_synch EXCEPT ![p] = syncclr(syncgot(@, arg[p]), arg[p])]
          /\ Goto(p, "eintr")
          /\ u_sigwake' = [u_sigwake EXCEPT ![p] = FALSE]
          /\ UNCHANGED <<held, u_sig>>
      BY <1>4, <2>3, <3>1 DEF SemaLockAwake
    <3> QED BY <2>1, <3>2, GaveUpHist
  <2> QED BY <2>2, <2>3
<1> QED BY <1>1, <1>2, <1>3, <1>4 DEF SemaStep, SemaLockAgain, At

\* What changes no history, no owner, no place and no signal.
LEMMA UntouchedHist ==
    ASSUME HistInv, KillPending, UNCHANGED <<u_synch, held, pc, arg, u_sigwake, u_sig>>
    PROVE  After
BY DEF HistInv, KillPending, After

\* The first test of eventwait keeps the histories.
LEMMA TryEventHist ==
    ASSUME NEW p \in Proc, Before(p), pc[p] # "asleep", NEW e \in Event, TryEvent(p, e), UNCHANGED held
    PROVE  After
<1>1. /\ \/ GotoWith(p, "kernel", NOVOID) \/ GotoWith(p, "eintr", NOVOID)
         \/ GotoWith(p, "eventqueue", e)
      /\ u_sig' = u_sig \/ u_sig' = [u_sig EXCEPT ![p] = {}]
      /\ UNCHANGED <<u_synch, held, u_sigwake>>
  BY DEF TryEvent, Goto, GotoWith, sleepVars
<1> QED BY <1>1, MovedHist

\* The steps of event.c by a process keep the histories.
LEMMA EventStepHist ==
    ASSUME CaughtSignals, IInv, HistInv, KillPending, NEW p \in Proc, EventStep(p)
    PROVE  After
<1>1. UNCHANGED held /\ \A e \in Event : e \in Obj /\ e \notin held[p]
  BY SyncAssumption DEF EventStep, Obj, IInv, Types, OwnTypes
<1>2. ASSUME NEW e \in Event, eventwait(p, e) PROVE After
  <2>1. Before(p) /\ pc[p] # "asleep" /\ TryEvent(p, e)
    BY <1>2 DEF eventwait, At, Before
  <2> QED BY <1>1, <2>1, TryEventHist
<1>3. ASSUME NEW e \in Event, eventdone(p, e) \/ eventclear(p, e) PROVE After
  <2>1. UNCHANGED <<u_synch, pc, arg, u_sigwake, u_sig>>
    BY <1>3 DEF eventdone, EventDone, eventclear, EventClear, WakeAll, sleepVars, ctlVars
  <2> QED BY <1>1, <2>1, UntouchedHist
<1>4. CASE arg[p] \in Event /\ EventWaitAgain(p)
  <2>1. Before(p) /\ pc[p] # "asleep" /\ TryEvent(p, arg[p])
    BY <1>4 DEF EventWaitAgain, At, Before
  <2> QED BY <1>1, <1>4, <2>1, TryEventHist
<1>5. CASE arg[p] \in Event /\ EventWaitQueue(p)
  <2>1. Before(p) /\ pc[p] = "eventqueue"
    BY <1>5 DEF EventWaitQueue, At, Before
  <2>2. CASE Occurred(arg[p])
    <3>1. GotoWith(p, "kernel", NOVOID) /\ u_sig' = u_sig /\ UNCHANGED <<u_synch, u_sigwake>>
      BY <1>5, <2>2 DEF EventWaitQueue, Goto, GotoWith, sleepVars
    <3> QED BY <1>1, <2>1, <3>1, MovedHist
  <2>3. CASE ~Occurred(arg[p])
    <3>1. /\ u_synch' = [u_synch EXCEPT ![p] = syncset(@, arg[p], "E_WAIT")]
          /\ GotoWith(p, "asleep", arg[p])
          /\ u_sig' = u_sig
          /\ UNCHANGED u_sigwake
      BY <1>5, <2>3 DEF EventWaitQueue, Enqueue
    <3> QED BY <1>1, <1>5, <2>1, <3>1, QueuedHist
  <2> QED BY <2>2, <2>3
<1>6. CASE arg[p] \in Event /\ EventWaitAwake(p)
  <2>1. Before(p) /\ pc[p] = "asleep"
    BY <1>6 DEF EventWaitAwake, At, Before
  <2>2. u_sigwake[p] => sigpend(p)
    BY <2>1, BrokenBySignal
  <2>3. /\ u_synch' = [u_synch EXCEPT ![p] = syncclr(@, arg[p])]
        /\ Goto(p, "kernel") \/ Goto(p, "eintr")
        /\ u_sigwake' = [u_sigwake EXCEPT ![p] = FALSE]
        /\ UNCHANGED u_sig
    BY <1>6, <2>2 DEF EventWaitAwake
  <2> QED BY <1>1, <2>1, <2>3, GaveUpHist
<1> QED BY <1>2, <1>3, <1>4, <1>5, <1>6 DEF EventStep

-----------------------------------------------------------------------------
(* Signals *)

\* More signals are pending, and sleepers that have one may be woken.
LEMMA SignalledHist ==
    ASSUME IInv, HistInv, UNCHANGED <<u_synch, held>>,
           \A q \in Proc : u_sig[q] \subseteq u_sig'[q],
           \A q \in Proc : u_sigwake'[q] => u_sigwake[q] \/ (u_sema[q] # NOVOID /\ u_sig'[q] # {}),
           \A q \in Proc : \/ pc'[q] = pc[q] /\ arg'[q] = arg[q]
                           \/ pc[q] \in {"kernel", "kill"} /\ pc'[q] \in {"kernel", "kill"}
    PROVE  HistInv'
<1> SUFFICES ASSUME NEW q \in Proc
             PROVE  HistOf(u_synch'[q], held'[q], pc'[q], arg'[q], u_sigwake'[q], u_sig'[q])
  BY DEF HistInv
<1>1. HistOf(u_synch[q], held[q], pc[q], arg[q], u_sigwake[q], u_sig[q])
  BY DEF HistInv
<1>2. u_sema[q] # NOVOID => pc[q] = "asleep"
  BY DEF IInv, Places, SleepExact
<1>3. CASE pc'[q] = pc[q] /\ arg'[q] = arg[q]
  BY <1>1, <1>2, <1>3 DEF HistOf
<1>4. CASE pc[q] \in {"kernel", "kill"} /\ pc'[q] \in {"kernel", "kill"}
  BY <1>1, <1>2, <1>4 DEF HistOf
<1> QED BY <1>3, <1>4

\* Waking a process by a signal marks it, and nobody else.
LEMMA SignalWakeMarks ==
    ASSUME Types, NEW p \in Proc, NEW b, NEW pri, SignalWake(p, b, pri)
    PROVE  \A q \in Proc : u_sigwake'[q] => u_sigwake[q] \/ (q = p /\ u_sema[p] # NOVOID)
BY DEF SignalWake, syncwakeup, sleepVars, Types, ProcTypes

\* A signal sent by an interrupt routine keeps the histories.
LEMMA SignalFromInterruptHist ==
    ASSUME IInv, HistInv, KillPending, NEW p \in Proc, NEW s \in Signals,
           SignalFromInterrupt(p, s), UNCHANGED held
    PROVE  After
<1>1. Types /\ UNCHANGED <<u_synch, held, pc, arg>>
  BY DEF SignalFromInterrupt, ctlVars, IInv
<1>2. s \in u_sig'[p] /\ \A q \in Proc : u_sig[q] \subseteq u_sig'[q]
  BY <1>1 DEF SignalFromInterrupt, SignalMark, Types, SigTypes
<1>3. SignalWake(p, PHASH[u_sema[p]], u_pri'[p])
  BY DEF SignalFromInterrupt
<1>4. \A q \in Proc : u_sigwake'[q] => u_sigwake[q] \/ (q = p /\ u_sema[p] # NOVOID)
  BY <1>1, <1>3, SignalWakeMarks
<1>5. HistInv'
  BY <1>1, <1>2, <1>4, SignalledHist
<1>6. KillPending'
  <2>1. ASSUME NEW k \in Proc, pc[k] = "kill" PROVE k \in Killers /\ u_sig'[arg[k]] # {}
    <3>1. arg[k] \in Proc /\ k \in Killers /\ u_sig[arg[k]] # {}
      BY <2>1 DEF KillPending, IInv, Places, KillExact
    <3> QED BY <1>2, <3>1
  <2> QED BY <1>1, <2>1 DEF KillPending
<1> QED BY <1>5, <1>6 DEF After

\* Both halves of kill () keep the histories.
LEMMA KillStepHist ==
    ASSUME IInv, HistInv, KillPending, NEW k \in Proc, KillStep(k)
    PROVE  After
<1>1. Types /\ UNCHANGED held
  BY DEF KillStep, IInv
<1>2. ASSUME k \in Killers, NEW p \in Proc, NEW s \in Signals, KillMark(k, p, s)
      PROVE  After
  <2>1. UNCHANGED <<u_synch, u_sigwake>> /\ pc[k] = "kernel"
    BY <1>2 DEF KillMark, sleepVars, At
  <2>2. /\ pc'[k] = "kill" /\ arg'[k] = p
        /\ \A q \in Proc \ {k} : pc'[q] = pc[q] /\ arg'[q] = arg[q]
    BY <1>1, <1>2 DEF KillMark, Types, CtlTypes
  <2>3. s \in u_sig'[p] /\ \A q \in Proc : u_sig[q] \subseteq u_sig'[q]
    BY <1>1, <1>2 DEF KillMark, SignalMark, Types, SigTypes
  <2>4. HistInv'
    BY <1>1, <2>1, <2>2, <2>3, SignalledHist
  <2>5. ASSUME NEW q \in Proc, q # k, pc[q] = "kill" PROVE q \in Killers /\ u_sig'[arg[q]] # {}
    <3>1. arg[q] \in Proc /\ q \in Killers /\ u_sig[arg[q]] # {}
      BY <2>5 DEF KillPending, IInv, Places, KillExact
    <3> QED BY <2>3, <3>1
  <2>6. KillPending'
    BY <1>2, <2>2, <2>3, <2>5 DEF KillPending
  <2> QED BY <2>4, <2>6 DEF After
<1>3. CASE KillWake(k)
  <2>1. pc[k] = "kill" /\ UNCHANGED <<u_synch, u_sig>> /\ SignalWake(arg[k], hp[k], u_pri[arg[k]])
    BY <1>3 DEF KillWake, At
  <2>2. arg[k] \in Proc /\ u_sig[arg[k]] # {}
    BY <2>1 DEF KillPending, IInv, Places, KillExact
  <2>3. pc'[k] = "kernel" /\ \A q \in Proc \ {k} : pc'[q] = pc[q] /\ arg'[q] = arg[q]
    BY <1>1, <1>3 DEF KillWake, Types, CtlTypes
  <2>4. \A q \in Proc : u_sigwake'[q] => u_sigwake[q] \/ (q = arg[k] /\ u_sema[arg[k]] # NOVOID)
    BY <1>1, <2>1, <2>2, SignalWakeMarks
  <2>5. HistInv'
    BY <1>1, <2>1, <2>2, <2>3, <2>4, SignalledHist
  <2>6. KillPending'
    BY <2>1, <2>3 DEF KillPending
  <2> QED BY <2>5, <2>6 DEF After
<1> QED BY <1>2, <1>3 DEF KillStep

-----------------------------------------------------------------------------
(* The theorem about the history *)

\* Entering and leaving the kernel keep the histories.
LEMMA UserStepHist ==
    ASSUME CaughtSignals, IInv, HistInv, KillPending, NEW p \in Proc, UserStep(p)
    PROVE  After
<1>1. /\ Before(p) /\ pc[p] # "asleep"
      /\ GotoWith(p, "kernel", NOVOID) \/ GotoWith(p, "user", NOVOID)
      /\ u_sig' = u_sig \/ u_sig' = [u_sig EXCEPT ![p] = {}]
      /\ UNCHANGED <<u_synch, held, u_sigwake>>
  BY DEF UserStep, EnterKernel, LeaveKernel, At, Goto, GotoWith, sleepVars, Before
<1> QED BY <1>1, MovedHist

\* Every step of the kernel keeps the histories, while they are large enough.
LEMMA NextHist ==
    ASSUME CaughtSignals, IInv, HistInv, KillPending, HeldFits', [Next]_vars
    PROVE  After
<1>1. CASE UNCHANGED vars
  BY <1>1, UntouchedHist DEF vars
<1>2. CASE InterruptStep
  <2>1. ASSUME NEW p \in Proc, NEW s \in Signals, SignalFromInterrupt(p, s), UNCHANGED held
        PROVE  After
    BY <2>1, SignalFromInterruptHist
  <2>2. ASSUME NEW o \in Sema, SemaFreeFromInterrupt(o) PROVE After
    <3>1. UNCHANGED <<u_synch, held, pc, arg, u_sig>>
      BY <2>2 DEF SemaFreeFromInterrupt, FreeSema, ctlVars
    <3>2. UNCHANGED u_sigwake
      BY <2>2 DEF SemaFreeFromInterrupt, FreeSema, sleepVars, HandOver
    <3> QED BY <3>1, <3>2, UntouchedHist
  <2>3. ASSUME NEW e \in Event, EventDone(e), UNCHANGED held PROVE After
    <3>1. UNCHANGED <<u_synch, pc, arg, u_sigwake, u_sig>>
      BY <2>3 DEF EventDone, WakeAll, sleepVars, ctlVars
    <3> QED BY <2>3, <3>1, UntouchedHist
  <2>4. CASE TimeSlice /\ UNCHANGED held
    BY <2>4, UntouchedHist DEF TimeSlice, sleepVars, ctlVars
  <2> QED BY <1>2, <2>1, <2>2, <2>3, <2>4 DEF InterruptStep
<1>3. ASSUME NEW p \in Proc, ProcessStep(p) PROVE After
  BY <1>3, LockStepHist, SemaStepHist, EventStepHist, KillStepHist, UserStepHist DEF ProcessStep
<1>4. ASSUME NEW p \in Proc, SwitchStep(p) PROVE After
  BY <1>4, UntouchedHist DEF SwitchStep, DispatchTo, DispatchIdle, LeaveIdle, Preempt, sleepVars, ctlVars
<1> QED BY <1>1, <1>2, <1>3, <1>4 DEF Next

\* The histories are empty when the kernel starts.
LEMMA InitHist == Init => HistInv /\ KillPending
<1> SUFFICES ASSUME Init PROVE HistInv /\ KillPending
  OBVIOUS
<1>1. ASSUME NEW p \in Proc
      PROVE  /\ HistOf(u_synch[p], held[p], pc[p], arg[p], u_sigwake[p], u_sig[p])
             /\ pc[p] # "kill"
  <2>1. /\ u_synch[p] = [i \in Slot |-> NoEntry] /\ held[p] = {} /\ pc[p] = "user"
        /\ ~u_sigwake[p]
    BY DEF Init, BaseInit
  <2>2. \A i \in Slot : u_synch[p][i][1] = NOVOID
    BY <2>1 DEF NoEntry
  <2>3. Once(u_synch[p]) /\ Entries(u_synch[p]) = {}
    BY <2>2 DEF Once, Entries
  <2> QED BY <2>1, <2>3 DEF HistOf
<1> QED BY <1>1 DEF HistInv, KillPending

\* The invariant gives the property.
LEMMA HistInvExact == HistInv => HistoryExact
<1> SUFFICES ASSUME HistInv, NEW p \in Proc, pc[p] \in {"user", "kernel"}
             PROVE  { e[1] : e \in { u_synch[p][i] : i \in Slot } } \ {NOVOID} = held[p]
  BY DEF HistoryExact
<1>1. Entries(u_synch[p]) = held[p]
  BY DEF HistInv, HistOf
<1> QED BY <1>1 DEF Entries

\* sync.c, kexit.c: while no process holds more objects than its history has
\* entries, the history of a process that is not asleep has the objects it owns
\* and no other, so that kexit () frees exactly those.
THEOREM HistoriesCorrect ==
    ASSUME NoKillRace, CaughtSignals
    PROVE  Spec /\ []HeldFits => []HistoryExact
<1>1. Spec => []IInv
  BY IInvAlways
<1>2. CaughtSignals /\ IInv /\ HistInv /\ KillPending /\ HeldFits' /\ [Next]_vars
      => HistInv' /\ KillPending'
  BY NextHist DEF After
<1> QED BY <1>1, <1>2, InitHist, HistInvExact, PTL DEF Spec

-----------------------------------------------------------------------------
(* Events wake everyone, as long as no signal breaks a sleep on one *)

\* A process woken by a signal is in no queue until it runs again.
MarkInv == \A p \in Proc : u_sigwake[p] => u_sema[p] = NOVOID /\ pc[p] = "asleep"

\* No step takes a process out of the queue of an event by a signal.
NoEventBroken == \A p \in Proc : ~u_sigwake[p] /\ u_sigwake'[p] => u_sema[p] \notin Event

EventInv == EventWakesAll /\ MarkInv

\* Steps that touch no event: p and no other moves, nobody starts to wait for an
\* event, and the mark of a broken sleep is only taken away.
Quiet(p) ==
    /\ \A q \in Proc \ {p} : pc'[q] = pc[q]
    /\ \A q \in Proc \ {p} : u_sema'[q] = u_sema[q] \/ u_sema'[q] = NOVOID
    /\ u_sema'[p] \notin Event
    /\ \A e \in Event : val'[e] = val[e]
    /\ \A q \in Proc : u_sigwake'[q] => u_sigwake[q]
    /\ pc[p] = "asleep" => ~u_sigwake'[p]

\* They keep the invariant.
LEMMA QuietKeeps ==
    ASSUME EventInv, NEW p \in Proc, Quiet(p)
    PROVE  EventInv'
<1>1. \A e \in Event : e # NOVOID
  BY SyncAssumption DEF Obj
<1>2. \A e \in Event : Waiters(e)' \subseteq Waiters(e) /\ val'[e] = val[e]
  BY <1>1 DEF Quiet, Waiters
<1>3. EventWakesAll'
  BY <1>2 DEF EventInv, EventWakesAll
<1>4. MarkInv'
  BY DEF EventInv, MarkInv, Quiet
<1> QED BY <1>3, <1>4 DEF EventInv

\* A store in a lock or a semaphore is no store in an event.
LEMMA OtherWord ==
    ASSUME IInv, NEW o \in Lock \cup Sema, NEW x, val' = val \/ val' = [val EXCEPT ![o] = x]
    PROVE  \A e \in Event : val'[e] = val[e]
BY SyncAssumption DEF IInv, Types, ByteTypes, Obj

\* A process that runs waits for nothing.
LEMMA RunnerWaitsNot ==
    ASSUME IInv, NEW p \in Proc, Running(p)
    PROVE  u_sema[p] = NOVOID /\ NOVOID \notin Event
BY SyncAssumption DEF IInv, Places, SleepExact, Running, Obj

\* Taking a lock or a semaphore, or finding it busy.
LEMMA QuietMove ==
    ASSUME IInv, NEW p \in Proc, Running(p), NEW l, NEW a, GotoWith(p, l, a),
           UNCHANGED u_sema, \A e \in Event : val'[e] = val[e],
           \/ u_sigwake' = u_sigwake /\ (pc[p] = "asleep" => ~u_sigwake[p])
           \/ u_sigwake' = [u_sigwake EXCEPT ![p] = FALSE]
    PROVE  Quiet(p)
<1>1. u_sema[p] = NOVOID /\ NOVOID \notin Event
  BY RunnerWaitsNot
<1>2. \A q \in Proc \ {p} : pc'[q] = pc[q]
  BY DEF GotoWith, IInv, Types, CtlTypes
<1>3. (\A q \in Proc : u_sigwake'[q] => u_sigwake[q]) /\ (pc[p] = "asleep" => ~u_sigwake'[p])
  BY DEF IInv, Types, ProcTypes
<1> QED BY <1>1, <1>2, <1>3 DEF Quiet

\* Queueing on a lock or a semaphore.
LEMMA QuietQueue ==
    ASSUME IInv, NEW p \in Proc, Running(p), pc[p] # "asleep", NEW o \in Lock \cup Sema, Enqueue(p, o),
           GotoWith(p, "asleep", o), \A e \in Event : val'[e] = val[e]
    PROVE  Quiet(p)
<1>1. o \notin Event
  BY SyncAssumption
<1>2. u_sema'[p] = o /\ UNCHANGED u_sigwake /\ \A q \in Proc \ {p} : u_sema'[q] = u_sema[q]
  BY DEF Enqueue, IInv, Types, ProcTypes
<1>3. \A q \in Proc \ {p} : pc'[q] = pc[q]
  BY DEF GotoWith, IInv, Types, CtlTypes
<1> QED BY <1>1, <1>2, <1>3 DEF Quiet

\* Freeing a lock or a semaphore, with or without somebody to hand it to, and
\* every step that moves no process and touches no event.
LEMMA FreeKeeps ==
    ASSUME IInv, EventInv, UNCHANGED sleepVars \/ (\E o \in Lock \cup Sema : HandOver(o)),
           UNCHANGED pc, \A e \in Event : val'[e] = val[e]
    PROVE  EventInv'
<1>1. UNCHANGED u_sigwake /\ \A q \in Proc : u_sema'[q] = u_sema[q] \/ u_sema'[q] = NOVOID
  BY DEF HandOver, sleepVars, IInv, Types, ProcTypes
<1>2. \A e \in Event : Waiters(e)' \subseteq Waiters(e)
  BY <1>1, SyncAssumption DEF Waiters, Obj
<1> QED BY <1>1, <1>2 DEF EventInv, EventWakesAll, MarkInv

\* The steps of sleep.c keep it.
LEMMA LockStepEvent ==
    ASSUME IInv, EventInv, NEW p \in Proc, LockStep(p)
    PROVE  EventInv'
<1>1. \A o \in Lock : \A x : val' = [val EXCEPT ![o] = x] => \A e \in Event : val'[e] = val[e]
  BY OtherWord
<1>2. ASSUME NEW o \in Lock, Running(p), pc[p] # "asleep", TryLock(p, o) PROVE EventInv'
  <2>1. \A e \in Event : val'[e] = val[e]
    BY <1>1, <1>2 DEF TryLock, TakeLock
  <2>2. \E l, a : GotoWith(p, l, a)
    BY <1>2 DEF TryLock, TakeLock, Goto, GotoWith
  <2>3. UNCHANGED <<u_sema, u_sigwake>>
    BY <1>2 DEF TryLock, TakeLock, sleepVars
  <2> QED BY <1>2, <2>1, <2>2, <2>3, QuietMove, QuietKeeps
<1>3. ASSUME NEW o \in Lock, sleeplock(p, o) \/ sleeptest(p, o) PROVE EventInv'
  BY <1>2, <1>3 DEF sleeplock, sleeptest, TryLock, At
<1>4. ASSUME NEW o \in Lock, sleepfree(p, o) PROVE EventInv'
  <2>1. UNCHANGED sleepVars \/ HandOver(o)
    BY <1>4 DEF sleepfree
  <2>2. UNCHANGED pc /\ \A e \in Event : val'[e] = val[e]
    BY <1>1, <1>4 DEF sleepfree, ctlVars
  <2> QED BY <2>1, <2>2, FreeKeeps
<1>5. CASE arg[p] \in Lock /\ SleepLockAgain(p)
  BY <1>2, <1>5 DEF SleepLockAgain, At
<1>6. CASE arg[p] \in Lock /\ SleepLockQueue(p)
  <2>1. Running(p) /\ pc[p] # "asleep"
    BY <1>6 DEF SleepLockQueue, At
  <2>2. CASE BitClear(val[arg[p]]) /\ TakeLock(p, arg[p])
    BY <1>2, <1>6, <2>1, <2>2 DEF TryLock
  <2>3. CASE ~(BitClear(val[arg[p]]) /\ TakeLock(p, arg[p]))
    <3>1. /\ Enqueue(p, arg[p]) /\ GotoWith(p, "asleep", arg[p])
          /\ val' = [val EXCEPT ![arg[p]] = (@ + 1) % BYTE]
      BY <1>6, <2>3 DEF SleepLockQueue
    <3>2. \A e \in Event : val'[e] = val[e]
      BY <1>1, <1>6, <3>1
    <3> QED BY <1>6, <2>1, <3>1, <3>2, QuietQueue, QuietKeeps
  <2> QED BY <2>2, <2>3
<1>7. CASE arg[p] \in Lock /\ SleepLockAwake(p)
  <2>1. \/ u_sigwake' = u_sigwake /\ ~u_sigwake[p]
        \/ u_sigwake' = [u_sigwake EXCEPT ![p] = FALSE]
    BY <1>7 DEF SleepLockAwake
  <2>2. Running(p) /\ UNCHANGED <<u_sema, val>> /\ \E l, a : GotoWith(p, l, a)
    BY <1>7 DEF SleepLockAwake, Goto, GotoWith, At
  <2> QED BY <2>1, <2>2, QuietMove, QuietKeeps
<1> QED BY <1>3, <1>4, <1>5, <1>6, <1>7 DEF LockStep

\* The steps of sema.c by a process keep it.
LEMMA SemaStepEvent ==
    ASSUME IInv, EventInv, NEW p \in Proc, SemaStep(p)
    PROVE  EventInv'
<1>1. \A o \in Sema : \A x : val' = val \/ val' = [val EXCEPT ![o] = x] => \A e \in Event : val'[e] = val[e]
  BY OtherWord
<1>2. ASSUME NEW o \in Sema, Running(p), pc[p] # "asleep", TrySema(p, o) PROVE EventInv'
  <2>1. \A e \in Event : val'[e] = val[e]
    BY <1>1, <1>2 DEF TrySema, TakeSema
  <2>2. CASE ~Enqueue(p, o)
    <3>1. (\E l, a : GotoWith(p, l, a)) /\ UNCHANGED <<u_sema, u_sigwake>>
      BY <1>2, <2>2 DEF TrySema, TakeSema, Goto, GotoWith, sleepVars
    <3> QED BY <1>2, <2>1, <3>1, QuietMove, QuietKeeps
  <2>3. CASE Enqueue(p, o) /\ GotoWith(p, "asleep", o)
    BY <1>2, <2>1, <2>3, QuietQueue, QuietKeeps
  <2>4. CASE ~GotoWith(p, "asleep", o)
    <3>1. (\E l, a : GotoWith(p, l, a)) /\ UNCHANGED <<u_sema, u_sigwake>>
      BY <1>2, <2>4 DEF TrySema, TakeSema, Goto, GotoWith, sleepVars
    <3> QED BY <1>2, <2>1, <3>1, QuietMove, QuietKeeps
  <2> QED BY <2>2, <2>3, <2>4
<1>3. ASSUME NEW o \in Sema, semalock(p, o) \/ sematest(p, o) PROVE EventInv'
  BY <1>2, <1>3 DEF semalock, sematest, TrySema, At
<1>4. ASSUME NEW o \in Sema, semafree(p, o) \/ PassSema(p, o) PROVE EventInv'
  <2>1. UNCHANGED sleepVars \/ HandOver(o)
    BY <1>4 DEF semafree, FreeSema, PassSema
  <2>2. UNCHANGED pc /\ \A e \in Event : val'[e] = val[e]
    BY <1>1, <1>4 DEF semafree, FreeSema, PassSema, ctlVars
  <2> QED BY <2>1, <2>2, FreeKeeps
<1>5. CASE arg[p] \in Sema /\ SemaLockAgain(p)
  BY <1>2, <1>5 DEF SemaLockAgain, At
<1>6. CASE arg[p] \in Sema /\ SemaLockAwake(p)
  <2>1. \/ u_sigwake' = u_sigwake /\ ~u_sigwake[p]
        \/ u_sigwake' = [u_sigwake EXCEPT ![p] = FALSE]
    BY <1>6 DEF SemaLockAwake
  <2>2. Running(p) /\ UNCHANGED <<u_sema, val>> /\ \E l, a : GotoWith(p, l, a)
    BY <1>6 DEF SemaLockAwake, Goto, GotoWith, At
  <2> QED BY <2>1, <2>2, QuietMove, QuietKeeps
<1> QED BY <1>3, <1>4, <1>5, <1>6 DEF SemaStep

\* eventdone wakes everyone who waits for the event.
LEMMA EventDoneEvent ==
    ASSUME IInv, EventInv, NEW e \in Event, EventDone(e)
    PROVE  EventInv'
<1>1. /\ val' = [val EXCEPT ![e] = BUSY] /\ UNCHANGED <<pc, u_sigwake>>
      /\ \A f \in Event \ {e} : val'[f] = val[f]
  BY DEF EventDone, WakeAll, sleepVars, ctlVars, IInv, Types, ByteTypes, Obj
<1>2. NOVOID \notin Event /\ PHASH[e] \in Bucket
  BY SyncAssumption DEF Obj
<1>3. CASE val[e] = 0 /\ UNCHANGED sleepVars
  <2>1. Waiters(e)' = {}
    BY <1>3 DEF EventInv, EventWakesAll, Waiters, sleepVars
  <2>2. \A f \in Event : Waiters(f)' = Waiters(f)
    BY <1>3 DEF Waiters, sleepVars
  <2> QED BY <1>1, <1>3, <2>1, <2>2 DEF EventInv, EventWakesAll, MarkInv, sleepVars
<1>4. CASE WakeAll(e)
  <2> DEFINE woken == { p \in ToSet(h_uproc[PHASH[e]]) : u_sema[p] = e }
  <2>1. \A p \in Proc : u_sema'[p] = IF p \in woken THEN NOVOID ELSE u_sema[p]
    BY <1>4 DEF WakeAll
  <2>2. \A p \in Proc : u_sema[p] = e => p \in woken
    BY <1>2 DEF IInv, Places, QueuesHold
  <2> HIDE DEF woken
  <2>3. Waiters(e)' = {}
    BY <1>2, <2>1, <2>2 DEF Waiters
  <2>4. \A f \in Event : Waiters(f)' \subseteq Waiters(f)
    BY <1>2, <2>1 DEF Waiters
  <2> QED BY <1>1, <2>1, <2>3, <2>4 DEF EventInv, EventWakesAll, MarkInv
<1> QED BY <1>3, <1>4 DEF EventDone

\* A process that queues itself under the lock of the queue leaves its mark.
LEMMA EventWaitQueueEvent ==
    ASSUME IInv, EventInv, NEW p \in Proc, arg[p] \in Event, EventWaitQueue(p)
    PROVE  EventInv'
<1>1. Running(p) /\ pc[p] # "asleep"
  BY DEF EventWaitQueue, At
<1>2. CASE Occurred(arg[p])
  <2>1. (\E l, a : GotoWith(p, l, a)) /\ UNCHANGED <<u_sema, u_sigwake, val>>
    BY <1>2 DEF EventWaitQueue, Goto, GotoWith, sleepVars
  <2> QED BY <1>1, <2>1, QuietMove, QuietKeeps
<1>3. CASE ~Occurred(arg[p])
  <2>1. /\ val' = [val EXCEPT ![arg[p]] = 1] /\ Enqueue(p, arg[p])
        /\ GotoWith(p, "asleep", arg[p])
    BY <1>3 DEF EventWaitQueue
  <2>2. /\ u_sema'[p] = arg[p] /\ UNCHANGED u_sigwake
        /\ \A q \in Proc \ {p} : u_sema'[q] = u_sema[q]
    BY <2>1 DEF Enqueue, IInv, Types, ProcTypes
  <2>3. \A q \in Proc \ {p} : pc'[q] = pc[q]
    BY <2>1 DEF GotoWith, IInv, Types, CtlTypes
  <2>4. val'[arg[p]] = 1 /\ \A f \in Event \ {arg[p]} : val'[f] = val[f]
    BY <2>1 DEF IInv, Types, ByteTypes, Obj
  <2>5. \A f \in Event \ {arg[p]} : Waiters(f)' \subseteq Waiters(f)
    BY <2>2 DEF Waiters
  <2>6. EventWakesAll'
    BY <2>4, <2>5 DEF EventInv, EventWakesAll
  <2>7. MarkInv'
    BY <1>1, <2>2, <2>3 DEF EventInv, MarkInv
  <2> QED BY <2>6, <2>7 DEF EventInv
<1> QED BY <1>2, <1>3

\* The steps of event.c by a process keep it.
LEMMA EventStepEvent ==
    ASSUME IInv, EventInv, NEW p \in Proc, EventStep(p)
    PROVE  EventInv'
<1>1. ASSUME NEW e \in Event, Running(p), pc[p] # "asleep", TryEvent(p, e) PROVE EventInv'
  <2>1. (\E l, a : GotoWith(p, l, a)) /\ UNCHANGED <<u_sema, u_sigwake, val>>
    BY <1>1 DEF TryEvent, Goto, GotoWith, sleepVars
  <2> QED BY <1>1, <2>1, QuietMove, QuietKeeps
<1>2. ASSUME NEW e \in Event, eventwait(p, e) PROVE EventInv'
  BY <1>1, <1>2 DEF eventwait, At
<1>3. ASSUME NEW e \in Event, eventdone(p, e) PROVE EventInv'
  BY <1>3, EventDoneEvent DEF eventdone
<1>4. ASSUME NEW e \in Event, eventclear(p, e) PROVE EventInv'
  <2>1. Occurred(e) /\ UNCHANGED <<sleepVars, pc>> /\ \A f \in Event \ {e} : val'[f] = val[f]
    BY <1>4 DEF eventclear, EventClear, ctlVars, IInv, Types, ByteTypes, Obj
  <2>2. Waiters(e) = {}
    BY <2>1 DEF EventInv, EventWakesAll, Occurred, BUSY, BYTE
  <2>3. \A f \in Event : Waiters(f)' = Waiters(f)
    BY <2>1 DEF Waiters, sleepVars
  <2> QED BY <2>1, <2>2, <2>3 DEF EventInv, EventWakesAll, MarkInv, sleepVars
<1>5. CASE arg[p] \in Event /\ EventWaitAgain(p)
  BY <1>1, <1>5 DEF EventWaitAgain, At
<1>6. CASE arg[p] \in Event /\ EventWaitQueue(p)
  BY <1>6, EventWaitQueueEvent
<1>7. CASE arg[p] \in Event /\ EventWaitAwake(p)
  <2>1. /\ u_sigwake' = [u_sigwake EXCEPT ![p] = FALSE] /\ Running(p)
        /\ UNCHANGED <<u_sema, val>> /\ \E l, a : GotoWith(p, l, a)
    BY <1>7 DEF EventWaitAwake, Goto, GotoWith, At
  <2> QED BY <2>1, QuietMove, QuietKeeps
<1> QED BY <1>2, <1>3, <1>4, <1>5, <1>6, <1>7 DEF EventStep

-----------------------------------------------------------------------------
(* Signals, and the theorem *)

\* A signal that breaks no sleep on an event keeps the invariant.
LEMMA SignalWakeEvent ==
    ASSUME IInv, EventInv, NoEventBroken, NEW p \in Proc, NEW b, NEW pri, SignalWake(p, b, pri),
           \A q \in Proc : pc'[q] = pc[q] \/ pc[q] # "asleep"
    PROVE  EventInv'
<1>1. CASE UNCHANGED <<sleepVars, val, u_state>>
  <2>1. \A e \in Event : Waiters(e)' = Waiters(e)
    BY <1>1 DEF Waiters, sleepVars
  <2> QED BY <1>1, <2>1 DEF EventInv, EventWakesAll, MarkInv, sleepVars
<1>2. CASE u_sema[p] # NOVOID /\ syncwakeup(p, b)
  <2>1. ~u_sigwake[p] /\ pc[p] = "asleep" /\ u_sema[p] \in Obj
    BY <1>2 DEF EventInv, MarkInv, IInv, Places, SleepExact, Types, ProcTypes
  <2>2. /\ u_sema' = [u_sema EXCEPT ![p] = NOVOID]
        /\ u_sigwake' = [u_sigwake EXCEPT ![p] = TRUE]
        /\ val' = [val EXCEPT ![u_sema[p]] = syncundo(u_sema[p])]
    BY <1>2 DEF syncwakeup
  <2>3. u_sema[p] \notin Event
    BY <2>1, <2>2 DEF NoEventBroken, IInv, Types, ProcTypes
  <2>4. \A e \in Event : val'[e] = val[e]
    BY <2>1, <2>2, <2>3 DEF IInv, Types, ByteTypes, Obj
  <2>5. \A q \in Proc : u_sema'[q] = IF q = p THEN NOVOID ELSE u_sema[q]
    BY <2>2 DEF IInv, Types, ProcTypes
  <2>6. \A e \in Event : Waiters(e)' \subseteq Waiters(e)
    BY <2>5, SyncAssumption DEF Waiters, Obj
  <2>7. EventWakesAll'
    BY <2>4, <2>6 DEF EventInv, EventWakesAll
  <2>8. \A q \in Proc \ {p} : u_sigwake'[q] = u_sigwake[q]
    BY <2>2 DEF IInv, Types, ProcTypes
  <2>9. MarkInv'
    BY <2>1, <2>5, <2>8 DEF EventInv, MarkInv
  <2> QED BY <2>7, <2>9 DEF EventInv
<1> QED BY <1>1, <1>2 DEF SignalWake

\* Every step of the kernel keeps the invariant, if it breaks no sleep on an event.
LEMMA NextEvent ==
    ASSUME IInv, EventInv, [Next]_vars, [NoEventBroken]_vars
    PROVE  EventInv'
<1>1. CASE UNCHANGED vars
  BY <1>1, FreeKeeps DEF vars, sleepVars
<1>2. CASE ~UNCHANGED vars
  <2>1. NoEventBroken
    BY <1>2
  <2>2. CASE InterruptStep
    <3>1. ASSUME NEW p \in Proc, NEW s \in Signals, SignalFromInterrupt(p, s) PROVE EventInv'
      <4>1. SignalWake(p, PHASH[u_sema[p]], u_pri'[p]) /\ UNCHANGED pc
        BY <3>1 DEF SignalFromInterrupt, ctlVars
      <4> QED BY <2>1, <4>1, SignalWakeEvent
    <3>2. ASSUME NEW o \in Sema, SemaFreeFromInterrupt(o) PROVE EventInv'
      <4>1. UNCHANGED sleepVars \/ HandOver(o)
        BY <3>2 DEF SemaFreeFromInterrupt, FreeSema
      <4>2. UNCHANGED pc /\ val' = [val EXCEPT ![o] = @ + 1]
        BY <3>2 DEF SemaFreeFromInterrupt, FreeSema, ctlVars
      <4>3. \A e \in Event : val'[e] = val[e]
        BY <4>2, OtherWord
      <4> QED BY <4>1, <4>2, <4>3, FreeKeeps
    <3>3. ASSUME NEW e \in Event, EventDone(e) PROVE EventInv'
      BY <3>3, EventDoneEvent
    <3>4. CASE TimeSlice
      BY <3>4, FreeKeeps DEF TimeSlice, ctlVars
    <3> QED BY <2>2, <3>1, <3>2, <3>3, <3>4 DEF InterruptStep
  <2>3. ASSUME NEW p \in Proc, KillStep(p) PROVE EventInv'
    <3>1. ASSUME NEW q \in Proc, NEW s \in Signals, KillMark(p, q, s) PROVE EventInv'
      <4>1. /\ Running(p) /\ pc[p] # "asleep" /\ UNCHANGED <<sleepVars, val>>
            /\ pc' = [pc EXCEPT ![p] = "kill"]
        BY <3>1 DEF KillMark, At
      <4>2. \A r \in Proc \ {p} : pc'[r] = pc[r]
        BY <4>1 DEF IInv, Types, CtlTypes
      <4>3. u_sema[p] = NOVOID /\ NOVOID \notin Event
        BY <4>1, RunnerWaitsNot
      <4>4. Quiet(p)
        BY <4>1, <4>2, <4>3 DEF Quiet, sleepVars
      <4> QED BY <4>4, QuietKeeps
    <3>2. CASE KillWake(p)
      <4>1. arg[p] \in Proc /\ SignalWake(arg[p], hp[p], u_pri[arg[p]])
        BY <3>2 DEF KillWake, At, IInv, Places, KillExact
      <4>2. \A q \in Proc : pc'[q] = pc[q] \/ pc[q] # "asleep"
        BY <3>2 DEF KillWake, At, IInv, Types, CtlTypes
      <4> QED BY <2>1, <4>1, <4>2, SignalWakeEvent
    <3> QED BY <2>3, <3>1, <3>2 DEF KillStep
  <2>4. ASSUME NEW p \in Proc, UserStep(p) PROVE EventInv'
    <3>1. /\ Running(p) /\ pc[p] # "asleep" /\ UNCHANGED <<u_sema, u_sigwake, val>>
          /\ \E l, a : GotoWith(p, l, a)
      BY <2>4 DEF UserStep, EnterKernel, LeaveKernel, At, Goto, GotoWith, sleepVars
    <3> QED BY <3>1, QuietMove, QuietKeeps
  <2>5. ASSUME NEW p \in Proc, SwitchStep(p) PROVE EventInv'
    <3>1. UNCHANGED <<sleepVars, val, pc>>
      BY <2>5 DEF SwitchStep, DispatchTo, DispatchIdle, LeaveIdle, Preempt, ctlVars
    <3> QED BY <3>1, FreeKeeps
  <2> QED BY <1>2, <2>2, <2>3, <2>4, <2>5, LockStepEvent, SemaStepEvent, EventStepEvent
          DEF Next, ProcessStep
<1> QED BY <1>1, <1>2

\* Nobody waits when the kernel starts.
LEMMA InitEvent == Init => EventInv
BY SyncAssumption DEF Init, BaseInit, EventInv, EventWakesAll, MarkInv, Waiters, Obj

\* event.c: as long as no signal breaks a sleep on an event, nobody is left asleep on an
\* event that has occurred, and the byte says so when somebody waits, whatever else the
\* signals break.  The run sync_lost_wakeup shows what a broken sleep does to the byte.
THEOREM EventsWakeAll ==
    ASSUME NoKillRace
    PROVE  Spec /\ [][NoEventBroken]_vars => []EventWakesAll
<1>1. Spec => []IInv
  BY IInvAlways
<1>2. IInv /\ EventInv /\ [Next]_vars /\ [NoEventBroken]_vars => EventInv'
  BY NextEvent
<1>3. EventInv => EventWakesAll
  BY DEF EventInv
<1> QED BY <1>1, <1>2, <1>3, InitEvent, PTL DEF Spec

-----------------------------------------------------------------------------
(* Locks and semaphores are handed over as Handoff says, for any number of objects and for as many *)
(* processes as the byte of a lock can count.                                                      *)

\* The seven low bits of a lock count the processes that wait for it.
FewProcesses == Cardinality(Proc) <= BUSY

Res == Lock \cup Sema
Cap(o) == IF o \in Sema THEN SemaCount[o] ELSE 1
Out(o) == IF o \in Sema THEN passed[o] ELSE 0

\* The memory of an object of which u units are used and for which w processes wait.
Word(o, u, w) == IF o \in Sema THEN SemaCount[o] - u - w ELSE IF u = 0 THEN 0 ELSE BUSY + w

\* Owners O, waiters W, units on their way back and the memory v agree.
Agree(o, O, W, out, v) ==
    /\ O \subseteq Proc /\ W \subseteq Proc /\ O \cap W = {} /\ out \in Nat
    /\ o \in Lock => out = 0
    /\ Cardinality(O) + out <= Cap(o)
    /\ W # {} => Cardinality(O) + out = Cap(o)
    /\ v = Word(o, Cardinality(O) + out, Cardinality(W))

-----------------------------------------------------------------------------
(* Owners, waiters and memory after each operation *)

\* Sets of processes are finite; what adding and removing one does to their number.
LEMMA SetCounts ==
    ASSUME NEW S, S \subseteq Proc, NEW p \in Proc
    PROVE  /\ Cardinality(S) \in Nat /\ (Cardinality(S) = 0 <=> S = {})
           /\ p \notin S => Cardinality(S \cup {p}) = Cardinality(S) + 1
           /\ p \in S => Cardinality(S \ {p}) = Cardinality(S) - 1
           /\ Cardinality(S) <= Cardinality(Proc)
           /\ Cardinality(Proc) \in Nat
<1>1. IsFiniteSet(Proc) /\ IsFiniteSet(S) /\ Cardinality(S) <= Cardinality(Proc)
  BY SyncAssumption, FS_Subset
<1>2. Cardinality(S) \in Nat /\ Cardinality(Proc) \in Nat
  BY <1>1, FS_CardinalityType
<1>3. Cardinality(S) = 0 <=> S = {}
  BY <1>1, FS_EmptySet
<1>4. p \notin S => Cardinality(S \cup {p}) = Cardinality(S) + 1
  BY <1>1, FS_AddElement
<1>5. p \in S => Cardinality(S \ {p}) = Cardinality(S) - 1
  BY <1>1, FS_RemoveElement
<1> QED BY <1>1, <1>2, <1>3, <1>4, <1>5

\* Capacities are positive, and an object is either a lock or a semaphore.
LEMMA CapFacts ==
    ASSUME NEW o \in Res
    PROVE  /\ Cap(o) \in Nat /\ Cap(o) > 0
           /\ o \in Lock => o \notin Sema /\ Cap(o) = 1
           /\ o \notin Lock => o \in Sema /\ Cap(o) = SemaCount[o]
           /\ o \in Obj
BY SyncAssumption, SemaAssumption DEF Cap, Res, Obj

\* With an owner, fewer processes wait than the byte can count.
LEMMA FewWaiters ==
    ASSUME FewProcesses, NEW O, NEW W, O \subseteq Proc, W \subseteq Proc, O \cap W = {}, O # {}
    PROVE  Cardinality(W) \in Nat /\ Cardinality(W) < BUSY
<1>1. PICK p \in O : TRUE
  OBVIOUS
<1>2. p \in Proc /\ W \subseteq Proc \ {p}
  BY <1>1
<1>3. IsFiniteSet(Proc \ {p}) /\ Cardinality(Proc \ {p}) = Cardinality(Proc) - 1
  BY <1>2, SyncAssumption, FS_RemoveElement
<1>4. Cardinality(W) <= Cardinality(Proc \ {p})
  BY <1>2, <1>3, FS_Subset
<1>5. Cardinality(W) \in Nat /\ Cardinality(Proc) \in Nat
  BY <1>2, SetCounts
<1> QED BY <1>3, <1>4, <1>5 DEF FewProcesses, BUSY

\* What the memory says of an object that agrees with its owners and waiters.
LEMMA WordSays ==
    ASSUME FewProcesses, NEW o \in Res, NEW O, NEW W, NEW out, NEW v, Agree(o, O, W, out, v)
    PROVE  /\ Cardinality(O) \in Nat /\ Cardinality(W) \in Nat /\ out \in Nat
           /\ o \in Lock => /\ BitClear(v) <=> O = {}
                            /\ v = 0 <=> O = {}
                            /\ O # {} => v = BUSY + Cardinality(W) /\ Cardinality(W) < BUSY
                            /\ O = {} => W = {}
           /\ o \in Sema => /\ v > 0 <=> Cardinality(O) + out < Cap(o)
                            /\ v < 0 <=> W # {}
                            /\ v = SemaCount[o] - (Cardinality(O) + out) - Cardinality(W)
<1>1. O \subseteq Proc /\ W \subseteq Proc /\ O \cap W = {} /\ out \in Nat
  BY DEF Agree
<1>2. /\ Cardinality(O) \in Nat /\ (Cardinality(O) = 0 <=> O = {})
      /\ Cardinality(W) \in Nat /\ (Cardinality(W) = 0 <=> W = {})
  <2>1. IsFiniteSet(O) /\ IsFiniteSet(W)
    BY <1>1, SyncAssumption, FS_Subset
  <2> QED BY <2>1, FS_CardinalityType, FS_EmptySet
<1>3. Cap(o) \in Nat /\ Cap(o) > 0
      /\ (o \in Lock => o \notin Sema /\ Cap(o) = 1) /\ (o \notin Lock => o \in Sema /\ Cap(o) = SemaCount[o])
  BY CapFacts
<1>4. O # {} => Cardinality(W) < BUSY
  BY <1>1, FewWaiters
<1> DEFINE u == Cardinality(O) + out
           w == Cardinality(W)
<1>5. u \in Nat /\ u <= Cap(o) /\ (W # {} => u = Cap(o)) /\ v = Word(o, u, w)
  BY <1>1, <1>2 DEF Agree
<1>6. ASSUME o \in Lock
      PROVE  /\ BitClear(v) <=> O = {}
             /\ v = 0 <=> O = {}
             /\ O # {} => v = BUSY + w
             /\ O = {} => W = {}
  <2>1. u = Cardinality(O)
    BY <1>2, <1>6 DEF Agree
  <2>2. O = {} => u = 0 /\ v = 0 /\ W = {}
    BY <1>2, <1>3, <1>5, <1>6, <2>1 DEF Word
  <2>3. O # {} => v = BUSY + w
    BY <1>2, <1>3, <1>5, <1>6, <2>1 DEF Word
  <2>4. O # {} => v \in BUSY .. BYTE - 1
    BY <1>2, <1>4, <2>3 DEF BUSY, BYTE
  <2>5. \A x \in BUSY .. BYTE - 1 : x # 0 /\ ~BitClear(x)
    BY DEF BUSY, BYTE, BitClear
  <2>6. BitClear(0)
    BY DEF BUSY, BYTE, BitClear
  <2> QED BY <2>2, <2>3, <2>4, <2>5, <2>6
<1>7. ASSUME o \in Sema
      PROVE  /\ v > 0 <=> u < Cap(o)
             /\ v < 0 <=> W # {}
             /\ v = SemaCount[o] - u - w
  <2>1. v = Cap(o) - u - w /\ Cap(o) = SemaCount[o]
    BY <1>3, <1>5, <1>7, SyncAssumption DEF Word
  <2>2. w \in Nat /\ (w = 0 <=> W = {})
    BY <1>2
  <2> QED BY <1>3, <1>5, <2>1, <2>2
<1> QED BY <1>1, <1>2, <1>4, <1>6, <1>7

\* A unit is taken: the object had one, and nobody waited.
LEMMA AgreeTake ==
    ASSUME FewProcesses, NEW o \in Res, NEW O, NEW W, NEW out, NEW v, Agree(o, O, W, out, v),
           NEW p \in Proc, p \notin O,
           o \in Lock => BitClear(v), o \in Sema => v > 0
    PROVE  /\ p \notin W /\ W = {} /\ Cardinality(O) + out < Cap(o)
           /\ Agree(o, O \cup {p}, W, out, IF o \in Lock THEN v + BUSY ELSE v - 1)
<1>1. O \subseteq Proc /\ W \subseteq Proc /\ O \cap W = {}
  BY DEF Agree
<1>2. /\ Cardinality(O) \in Nat /\ Cardinality(W) \in Nat /\ out \in Nat
      /\ o \in Lock => /\ BitClear(v) <=> O = {}
                       /\ v = 0 <=> O = {}
      /\ o \in Sema => /\ v > 0 <=> Cardinality(O) + out < Cap(o)
                       /\ v = SemaCount[o] - (Cardinality(O) + out) - Cardinality(W)
  BY WordSays
<1>3. /\ Cap(o) \in Nat /\ Cap(o) > 0
      /\ (o \in Lock => o \notin Sema /\ Cap(o) = 1) /\ (o \notin Lock => o \in Sema /\ Cap(o) = SemaCount[o])
  BY CapFacts
<1>4. /\ Cardinality(O \cup {p}) = Cardinality(O) + 1 /\ (Cardinality(O) = 0 <=> O = {})
      /\ (Cardinality(W) = 0 <=> W = {})
  BY <1>1, SetCounts
<1>5. Cardinality(O) + out < Cap(o)
  BY <1>2, <1>3, <1>4 DEF Agree
<1>6. W = {}
  BY <1>2, <1>3, <1>5 DEF Agree
<1>7. CASE o \in Lock
  <2>1. v + BUSY = Word(o, Cardinality(O \cup {p}) + out, Cardinality(W))
    BY <1>2, <1>3, <1>4, <1>6, <1>7 DEF Word, BUSY, Agree
  <2> QED BY <1>1, <1>2, <1>3, <1>4, <1>5, <1>6, <1>7, <2>1 DEF Agree
<1>8. CASE o \notin Lock
  <2>1. v - 1 = Word(o, Cardinality(O \cup {p}) + out, Cardinality(W))
    BY <1>2, <1>3, <1>4, <1>6, <1>8 DEF Word
  <2> QED BY <1>1, <1>2, <1>3, <1>4, <1>5, <1>6, <1>8, <2>1 DEF Agree
<1> QED BY <1>7, <1>8

\* A process queues itself: every unit is used.
LEMMA AgreeWait ==
    ASSUME FewProcesses, NEW o \in Res, NEW O, NEW W, NEW out, NEW v, Agree(o, O, W, out, v),
           NEW p \in Proc, p \notin O, p \notin W,
           o \in Lock => ~BitClear(v), o \in Sema => ~(v > 0)
    PROVE  /\ Cardinality(O) + out = Cap(o)
           /\ Agree(o, O, W \cup {p}, out, IF o \in Lock THEN (v + 1) % BYTE ELSE v - 1)
<1>1. O \subseteq Proc /\ W \subseteq Proc /\ O \cap W = {}
  BY DEF Agree
<1>2. /\ Cardinality(O) \in Nat /\ Cardinality(W) \in Nat /\ out \in Nat
      /\ o \in Lock => /\ BitClear(v) <=> O = {}
                       /\ O # {} => v = BUSY + Cardinality(W) /\ Cardinality(W) < BUSY
      /\ o \in Sema => /\ v > 0 <=> Cardinality(O) + out < Cap(o)
                       /\ v = SemaCount[o] - (Cardinality(O) + out) - Cardinality(W)
  BY WordSays
<1>3. /\ Cap(o) \in Nat /\ Cap(o) > 0
      /\ (o \in Lock => o \notin Sema /\ Cap(o) = 1) /\ (o \notin Lock => o \in Sema /\ Cap(o) = SemaCount[o])
  BY CapFacts
<1>4. /\ Cardinality(W \cup {p}) = Cardinality(W) + 1 /\ (Cardinality(O) = 0 <=> O = {})
  BY <1>1, SetCounts
<1>5. Cardinality(O) + out = Cap(o)
  BY <1>2, <1>3, <1>4 DEF Agree
<1>6. CASE o \in Lock
  <2>1. O # {} /\ v = BUSY + Cardinality(W)
    BY <1>2, <1>6
  <2>2. Cardinality(W \cup {p}) < BUSY
    BY <1>1, <2>1, FewWaiters
  <2>3. v + 1 = BUSY + Cardinality(W \cup {p}) /\ v + 1 \in 0 .. BYTE - 1
    BY <1>2, <1>4, <2>1, <2>2 DEF BUSY, BYTE
  <2>4. (v + 1) % BYTE = v + 1
    BY <2>3 DEF BYTE
  <2>5. (v + 1) % BYTE = Word(o, Cardinality(O) + out, Cardinality(W \cup {p}))
    BY <1>3, <1>5, <1>6, <2>3, <2>4 DEF Word
  <2> QED BY <1>1, <1>2, <1>3, <1>5, <1>6, <2>5 DEF Agree
<1>7. CASE o \notin Lock
  <2>1. v - 1 = Word(o, Cardinality(O) + out, Cardinality(W \cup {p}))
    BY <1>2, <1>3, <1>4, <1>7 DEF Word
  <2> QED BY <1>1, <1>2, <1>3, <1>5, <1>7, <2>1 DEF Agree
<1> QED BY <1>5, <1>6, <1>7

\* A signal takes a waiter away.
LEMMA AgreeGiveUp ==
    ASSUME FewProcesses, NEW o \in Res, NEW O, NEW W, NEW out, NEW v, Agree(o, O, W, out, v),
           NEW p \in Proc, p \in W
    PROVE  Agree(o, O, W \ {p}, out, IF o \in Sema THEN v + 1 ELSE (v - 1) % BYTE)
<1>1. O \subseteq Proc /\ W \subseteq Proc /\ O \cap W = {} /\ W # {} /\ Cardinality(O) + out = Cap(o)
  BY DEF Agree
<1>2. /\ Cardinality(O) \in Nat /\ Cardinality(W) \in Nat /\ out \in Nat
      /\ o \in Lock => /\ O # {} => v = BUSY + Cardinality(W) /\ Cardinality(W) < BUSY
                       /\ O = {} => W = {}
      /\ o \in Sema => v = SemaCount[o] - (Cardinality(O) + out) - Cardinality(W)
  BY WordSays
<1>3. /\ Cap(o) \in Nat /\ Cap(o) > 0
      /\ (o \in Lock => o \notin Sema /\ Cap(o) = 1) /\ (o \notin Lock => o \in Sema /\ Cap(o) = SemaCount[o])
  BY CapFacts
<1>4. Cardinality(W \ {p}) = Cardinality(W) - 1 /\ (Cardinality(W) = 0 <=> W = {})
  BY <1>1, SetCounts
<1>5. CASE o \in Lock
  <2>1. v = BUSY + Cardinality(W) /\ Cardinality(W) < BUSY /\ Cardinality(W) > 0
    BY <1>1, <1>2, <1>4, <1>5
  <2>2. v - 1 = BUSY + Cardinality(W \ {p}) /\ v - 1 \in 0 .. BYTE - 1
    BY <1>2, <1>4, <2>1 DEF BUSY, BYTE
  <2>3. (v - 1) % BYTE = v - 1
    BY <2>2 DEF BYTE
  <2>4. (v - 1) % BYTE = Word(o, Cardinality(O) + out, Cardinality(W \ {p}))
    BY <1>1, <1>3, <1>5, <2>2, <2>3 DEF Word
  <2> QED BY <1>1, <1>2, <1>3, <1>5, <2>4 DEF Agree
<1>6. CASE o \notin Lock
  <2>1. v + 1 = Word(o, Cardinality(O) + out, Cardinality(W \ {p}))
    BY <1>2, <1>3, <1>4, <1>6 DEF Word
  <2> QED BY <1>1, <1>2, <1>3, <1>6, <2>1 DEF Agree
<1> QED BY <1>5, <1>6
\* Owners, waiters and memory after a unit goes to a waiter of W, if there is one.
GoesTo(O, W, O2, W2) ==
    \/ W = {} /\ O2 = O /\ W2 = W
    \/ \E w \in W : O2 = O \cup {w} /\ W2 = W \ {w}

\* The numbers of owners and waiters after a unit goes to a waiter.
LEMMA GoesToCounts ==
    ASSUME NEW O, NEW W, NEW O2, NEW W2, O \subseteq Proc, W \subseteq Proc, O \cap W = {},
           GoesTo(O, W, O2, W2)
    PROVE  /\ O2 \subseteq Proc /\ W2 \subseteq Proc /\ O2 \cap W2 = {}
           /\ Cardinality(O) \in Nat /\ Cardinality(W) \in Nat
           /\ W = {} => /\ Cardinality(O2) = Cardinality(O) /\ W2 = {}
                        /\ Cardinality(W2) = 0 /\ Cardinality(W) = 0
           /\ W # {} => /\ Cardinality(O2) = Cardinality(O) + 1
                        /\ Cardinality(W2) = Cardinality(W) - 1
<1>0. Cardinality(O) \in Nat /\ Cardinality(W) \in Nat
  <2>1. IsFiniteSet(O) /\ IsFiniteSet(W)
    BY SyncAssumption, FS_Subset
  <2> QED BY <2>1, FS_CardinalityType
<1>1. CASE W = {} /\ O2 = O /\ W2 = W
  BY <1>0, <1>1, FS_EmptySet
<1>2. ASSUME NEW w \in W, O2 = O \cup {w}, W2 = W \ {w}
      PROVE  /\ O2 \subseteq Proc /\ W2 \subseteq Proc /\ O2 \cap W2 = {} /\ W # {}
             /\ Cardinality(O2) = Cardinality(O) + 1
             /\ Cardinality(W2) = Cardinality(W) - 1
  <2>1. w \in Proc /\ w \notin O
    OBVIOUS
  <2> QED BY <1>2, <2>1, SetCounts
<1> QED BY <1>0, <1>1, <1>2 DEF GoesTo

\* An owner frees: the unit goes to a waiter, or becomes free.
LEMMA AgreeFree ==
    ASSUME FewProcesses, NEW o \in Res, NEW O, NEW W, NEW out, NEW v, Agree(o, O, W, out, v),
           NEW p \in O, NEW O2, NEW W2, GoesTo(O \ {p}, W, O2, W2)
    PROVE  Agree(o, O2, W2, out,
                 IF o \in Sema THEN v + 1 ELSE IF W = {} THEN 0 ELSE v - 1)
<1>1. O \subseteq Proc /\ W \subseteq Proc /\ O \cap W = {} /\ p \in Proc /\ O # {}
      /\ O \ {p} \subseteq Proc /\ (O \ {p}) \cap W = {}
  BY DEF Agree
<1>2. /\ Cardinality(O) \in Nat /\ Cardinality(W) \in Nat /\ out \in Nat
      /\ o \in Lock => v = BUSY + Cardinality(W)
      /\ o \in Sema => v = SemaCount[o] - (Cardinality(O) + out) - Cardinality(W)
  BY <1>1, WordSays
<1>3. /\ Cap(o) \in Nat /\ Cap(o) > 0
      /\ (o \in Lock => o \notin Sema /\ Cap(o) = 1) /\ (o \notin Lock => o \in Sema /\ Cap(o) = SemaCount[o])
  BY CapFacts
<1>4. Cardinality(O \ {p}) = Cardinality(O) - 1 /\ Cardinality(O \ {p}) \in Nat
  BY <1>1, SetCounts
<1>5. /\ O2 \subseteq Proc /\ W2 \subseteq Proc /\ O2 \cap W2 = {}
      /\ W = {} => /\ Cardinality(O2) = Cardinality(O \ {p}) /\ W2 = {}
                   /\ Cardinality(W2) = 0 /\ Cardinality(W) = 0
      /\ W # {} => /\ Cardinality(O2) = Cardinality(O \ {p}) + 1
                   /\ Cardinality(W2) = Cardinality(W) - 1
  BY <1>1, GoesToCounts
<1> DEFINE v2 == IF o \in Sema THEN v + 1 ELSE IF W = {} THEN 0 ELSE v - 1
           u == Cardinality(O) + out
           u2 == Cardinality(O2) + out
<1>6. /\ u \in Nat /\ u <= Cap(o) /\ (W # {} => u = Cap(o)) /\ (o \in Lock => out = 0)
      /\ (W = {} => u2 = u - 1) /\ (W # {} => u2 = u)
  BY <1>2, <1>4, <1>5 DEF Agree
<1>7. CASE o \in Lock
  <2>1. u = 1
    BY <1>2, <1>3, <1>4, <1>6, <1>7
  <2>2. v2 = Word(o, u2, Cardinality(W2))
    BY <1>2, <1>3, <1>5, <1>6, <1>7, <2>1 DEF Word, BUSY
  <2> QED BY <1>2, <1>3, <1>5, <1>6, <1>7, <2>1, <2>2 DEF Agree
<1>8. CASE o \notin Lock
  <2>1. v2 = Word(o, u2, Cardinality(W2))
    BY <1>2, <1>3, <1>5, <1>6, <1>8 DEF Word
  <2> QED BY <1>2, <1>3, <1>5, <1>6, <1>8, <2>1 DEF Agree
<1> QED BY <1>7, <1>8

\* The owner of a unit of a semaphore gives it to a driver to free.
LEMMA AgreePass ==
    ASSUME FewProcesses, NEW o \in Sema, NEW O, NEW W, NEW out, NEW v, Agree(o, O, W, out, v),
           NEW p \in O
    PROVE  Agree(o, O \ {p}, W, out + 1, v)
<1>1. O \subseteq Proc /\ W \subseteq Proc /\ p \in Proc /\ out \in Nat
  BY DEF Agree
<1>2. Cardinality(O \ {p}) = Cardinality(O) - 1 /\ Cardinality(O) \in Nat
  BY <1>1, SetCounts
<1>3. Cardinality(O \ {p}) + (out + 1) = Cardinality(O) + out
  BY <1>1, <1>2
<1>4. o \notin Lock
  BY SyncAssumption
<1> QED BY <1>1, <1>3, <1>4 DEF Agree

\* A driver frees a unit: it goes to a waiter, or becomes free.
LEMMA AgreeFreeOut ==
    ASSUME FewProcesses, NEW o \in Sema, NEW O, NEW W, NEW out, NEW v, Agree(o, O, W, out, v),
           out > 0, NEW O2, NEW W2, GoesTo(O, W, O2, W2)
    PROVE  Agree(o, O2, W2, out - 1, v + 1)
<1>1. O \subseteq Proc /\ W \subseteq Proc /\ O \cap W = {} /\ out \in Nat /\ o \in Res
  BY DEF Agree, Res
<1>2. /\ Cardinality(O) \in Nat /\ Cardinality(W) \in Nat
      /\ v = SemaCount[o] - (Cardinality(O) + out) - Cardinality(W)
  BY <1>1, WordSays
<1>3. Cap(o) \in Nat /\ Cap(o) = SemaCount[o] /\ o \notin Lock
  BY <1>1, CapFacts, SyncAssumption
<1>5. /\ O2 \subseteq Proc /\ W2 \subseteq Proc /\ O2 \cap W2 = {}
      /\ W = {} => /\ Cardinality(O2) = Cardinality(O) /\ W2 = {}
                   /\ Cardinality(W2) = 0 /\ Cardinality(W) = 0
      /\ W # {} => /\ Cardinality(O2) = Cardinality(O) + 1
                   /\ Cardinality(W2) = Cardinality(W) - 1
  BY <1>1, GoesToCounts
<1> DEFINE u == Cardinality(O) + out
           u2 == Cardinality(O2) + (out - 1)
<1>6. /\ u \in Nat /\ u <= Cap(o) /\ (W # {} => u = Cap(o))
      /\ (W = {} => u2 = u - 1) /\ (W # {} => u2 = u)
  BY <1>1, <1>2, <1>5 DEF Agree
<1>7. v + 1 = Word(o, u2, Cardinality(W2))
  BY <1>2, <1>3, <1>5, <1>6 DEF Word
<1>8. out - 1 \in Nat
  BY <1>1
<1> QED BY <1>2, <1>3, <1>5, <1>6, <1>7, <1>8 DEF Agree
-----------------------------------------------------------------------------
(* What a step does to an object *)

Still(o) ==
    /\ Owners(o)' = Owners(o) /\ Waiters(o)' = Waiters(o)
    /\ Out(o)' = Out(o) /\ val'[o] = val[o]

TakeMove(o) ==
    /\ o \in Lock => BitClear(val[o])
    /\ o \in Sema => val[o] > 0
    /\ \E p \in Proc \ Owners(o) : Owners(o)' = Owners(o) \cup {p}
    /\ Waiters(o)' = Waiters(o) /\ Out(o)' = Out(o)
    /\ val'[o] = IF o \in Lock THEN val[o] + BUSY ELSE val[o] - 1

WaitMove(o) ==
    /\ o \in Lock => ~BitClear(val[o])
    /\ o \in Sema => ~(val[o] > 0)
    /\ \E p \in Proc \ (Owners(o) \cup Waiters(o)) : Waiters(o)' = Waiters(o) \cup {p}
    /\ Owners(o)' = Owners(o) /\ Out(o)' = Out(o)
    /\ val'[o] = IF o \in Lock THEN (val[o] + 1) % BYTE ELSE val[o] - 1

GiveUpMove(o) ==
    /\ \E p \in Waiters(o) : Waiters(o)' = Waiters(o) \ {p}
    /\ Owners(o)' = Owners(o) /\ Out(o)' = Out(o)
    /\ val'[o] = IF o \in Sema THEN val[o] + 1 ELSE (val[o] - 1) % BYTE

FreeMove(o) ==
    /\ \E p \in Owners(o) : GoesTo(Owners(o) \ {p}, Waiters(o), Owners(o)', Waiters(o)')
    /\ Out(o)' = Out(o)
    /\ val'[o] = IF o \in Sema THEN val[o] + 1 ELSE IF Waiters(o) = {} THEN 0 ELSE val[o] - 1

PassMove(o) ==
    /\ o \in Sema
    /\ \E p \in Owners(o) : Owners(o)' = Owners(o) \ {p}
    /\ Waiters(o)' = Waiters(o) /\ Out(o)' = Out(o) + 1
    /\ val'[o] = val[o]

FreeOutMove(o) ==
    /\ o \in Sema /\ Out(o) > 0
    /\ GoesTo(Owners(o), Waiters(o), Owners(o)', Waiters(o)')
    /\ Out(o)' = Out(o) - 1
    /\ val'[o] = val[o] + 1

Move(o) ==
    \/ TakeMove(o) \/ WaitMove(o) \/ GiveUpMove(o)
    \/ FreeMove(o) \/ PassMove(o) \/ FreeOutMove(o)

\* At most one object changes hands.
Moves ==
    \/ \A o \in Res : Still(o)
    \/ \E r \in Res : Move(r) /\ \A o \in Res \ {r} : Still(o)

AgreeAll == \A o \in Res : Agree(o, Owners(o), Waiters(o), Out(o), val[o])

\* A process does not own what it is about to take; a broken sleep is over.
Own(p) ==
    /\ pc[p] \in {"sleepqueue", "sleepagain", "asleep", "semaagain"} /\ arg[p] \in Res
          => arg[p] \notin held[p]
    /\ u_sigwake[p] => pc[p] = "asleep" /\ u_sema[p] = NOVOID

OwnInv == \A p \in Proc : Own(p)

HInv == IInv /\ OwnInv /\ AgreeAll

\* Each of these moves keeps owners, waiters and memory in agreement.
LEMMA MovesAgree ==
    ASSUME FewProcesses, AgreeAll, Moves
    PROVE  AgreeAll'
<1> DEFINE Now(o) == Agree(o, Owners(o), Waiters(o), Out(o), val[o])
           Then(o) == Agree(o, Owners(o)', Waiters(o)', Out(o)', val'[o])
<1>1. ASSUME NEW o \in Res, Still(o) PROVE Then(o)
  BY <1>1 DEF AgreeAll, Still
<1>2. ASSUME NEW o \in Res, Move(o) PROVE Then(o)
  <2>1. Agree(o, Owners(o), Waiters(o), Out(o), val[o])
    BY DEF AgreeAll
  <2>2. Owners(o) \subseteq Proc /\ Waiters(o) \subseteq Proc
    BY DEF Owners, Waiters
  <2>3. CASE TakeMove(o)
    <3>1. PICK p \in Proc \ Owners(o) : Owners(o)' = Owners(o) \cup {p}
      BY <2>3 DEF TakeMove
    <3>2. Agree(o, Owners(o) \cup {p}, Waiters(o), Out(o), IF o \in Lock THEN val[o] + BUSY ELSE val[o] - 1)
      BY <2>1, <2>3, AgreeTake DEF TakeMove
    <3> QED BY <2>3, <3>1, <3>2 DEF TakeMove
  <2>4. CASE WaitMove(o)
    <3>1. PICK p \in Proc \ (Owners(o) \cup Waiters(o)) : Waiters(o)' = Waiters(o) \cup {p}
      BY <2>4 DEF WaitMove
    <3>2. Agree(o, Owners(o), Waiters(o) \cup {p}, Out(o),
                IF o \in Lock THEN (val[o] + 1) % BYTE ELSE val[o] - 1)
      BY <2>1, <2>4, AgreeWait DEF WaitMove
    <3> QED BY <2>4, <3>1, <3>2 DEF WaitMove
  <2>5. CASE GiveUpMove(o)
    <3>1. PICK p \in Waiters(o) : Waiters(o)' = Waiters(o) \ {p}
      BY <2>5 DEF GiveUpMove
    <3>2. Agree(o, Owners(o), Waiters(o) \ {p}, Out(o),
                IF o \in Sema THEN val[o] + 1 ELSE (val[o] - 1) % BYTE)
      BY <2>1, <2>2, AgreeGiveUp
    <3> QED BY <2>5, <3>1, <3>2 DEF GiveUpMove
  <2>6. CASE FreeMove(o)
    <3>1. PICK p \in Owners(o) : GoesTo(Owners(o) \ {p}, Waiters(o), Owners(o)', Waiters(o)')
      BY <2>6 DEF FreeMove
    <3>2. Agree(o, Owners(o)', Waiters(o)', Out(o),
                IF o \in Sema THEN val[o] + 1 ELSE IF Waiters(o) = {} THEN 0 ELSE val[o] - 1)
      BY <2>1, <3>1, AgreeFree
    <3> QED BY <2>6, <3>2 DEF FreeMove
  <2>7. CASE PassMove(o)
    <3>1. PICK p \in Owners(o) : Owners(o)' = Owners(o) \ {p}
      BY <2>7 DEF PassMove
    <3>2. Agree(o, Owners(o) \ {p}, Waiters(o), Out(o) + 1, val[o])
      BY <2>1, <2>7, AgreePass DEF PassMove
    <3> QED BY <2>7, <3>1, <3>2 DEF PassMove
  <2>8. CASE FreeOutMove(o)
    <3>1. Agree(o, Owners(o)', Waiters(o)', Out(o) - 1, val[o] + 1)
      BY <2>1, <2>8, AgreeFreeOut DEF FreeOutMove
    <3> QED BY <2>8, <3>1 DEF FreeOutMove
  <2> QED BY <1>2, <2>3, <2>4, <2>5, <2>6, <2>7, <2>8 DEF Move
<1>3. \A o \in Res : Then(o)
  BY <1>1, <1>2 DEF Moves
<1> QED BY <1>3 DEF AgreeAll
-----------------------------------------------------------------------------
(* Owners and waiters after the pieces of the actions *)

\* Nothing of what makes the process an owner or a waiter changes.
Same(q) ==
    /\ pc'[q] = pc[q] /\ arg'[q] = arg[q] /\ held'[q] = held[q]
    /\ u_sema'[q] = u_sema[q] /\ u_sigwake'[q] = u_sigwake[q]

\* Such a process stays an owner or a waiter of the same objects.
LEMMA SameStays ==
    ASSUME NEW q \in Proc, Same(q)
    PROVE  /\ \A o : q \in Owners(o)' <=> q \in Owners(o)
           /\ \A o : q \in Waiters(o)' <=> q \in Waiters(o)
           /\ Own(q) => Own(q)'
<1>1. \A o : q \in Owners(o)' <=> q \in Owners(o)
  BY DEF Owners, Granted, Same
<1>2. \A o : q \in Waiters(o)' <=> q \in Waiters(o)
  BY DEF Waiters, Same
<1>3. Own(q) => Own(q)'
  BY DEF Own, Same
<1> QED BY <1>1, <1>2, <1>3

\* If nobody changes, no owner and no waiter does.
LEMMA AllSame ==
    ASSUME OwnInv, \A q \in Proc : Same(q)
    PROVE  OwnInv' /\ \A o : Owners(o)' = Owners(o) /\ Waiters(o)' = Waiters(o)
<1>1. \A o : Owners(o) \subseteq Proc /\ Owners(o)' \subseteq Proc
             /\ Waiters(o) \subseteq Proc /\ Waiters(o)' \subseteq Proc
  BY DEF Owners, Waiters
<1>2. \A q \in Proc : /\ \A o : q \in Owners(o)' <=> q \in Owners(o)
                      /\ \A o : q \in Waiters(o)' <=> q \in Waiters(o)
                      /\ Own(q)'
  BY SameStays DEF OwnInv
<1> QED BY <1>1, <1>2 DEF OwnInv

\* A process that is not in a sleep owns what it holds.
LEMMA OwnsHeld ==
    ASSUME NEW p \in Proc, pc[p] # "asleep"
    PROVE  \A o : p \in Owners(o) <=> o \in held[p]
BY DEF Owners, Granted

\* A process that sleeps, or that a signal woke up, owns what it holds too.
LEMMA SleeperOwns ==
    ASSUME NEW p \in Proc, u_sema[p] # NOVOID \/ u_sigwake[p]
    PROVE  \A o : p \in Owners(o) <=> o \in held[p]
BY DEF Owners, Granted

\* A process that runs goes to a point outside the sleep, holding Hold.
LEMMA RunningMoves ==
    ASSUME IInv, OwnInv, NEW p \in Proc, Running(p), NEW l \in Label, l # "asleep", NEW a,
           GotoWith(p, l, a), NEW Hold, held' = [held EXCEPT ![p] = Hold], UNCHANGED u_sema,
           \/ UNCHANGED u_sigwake /\ ~u_sigwake[p]
           \/ u_sigwake' = [u_sigwake EXCEPT ![p] = FALSE],
           l \in {"sleepqueue", "sleepagain", "semaagain"} /\ a \in Res => a \notin Hold
    PROVE  /\ OwnInv'
           /\ \A o : Waiters(o)' = Waiters(o)
           /\ \A o : o \in Hold => Owners(o)' = Owners(o) \cup {p}
           /\ \A o : o \notin Hold => Owners(o)' = Owners(o) \ {p}
<1>1. \A q \in Proc : q # p => Same(q)
  BY DEF Same, GotoWith, IInv, Types, CtlTypes, OwnTypes, ProcTypes
<1>2. /\ pc'[p] = l /\ arg'[p] = a /\ held'[p] = Hold /\ u_sema'[p] = u_sema[p]
      /\ ~u_sigwake'[p]
  BY DEF GotoWith, IInv, Types, CtlTypes, OwnTypes, ProcTypes
<1>3. \A o : p \in Owners(o)' <=> o \in Hold
  BY <1>2 DEF Owners, Granted
<1>4. Own(p)'
  BY <1>2 DEF Own
<1>5. \A q \in Proc : q # p => /\ \A o : q \in Owners(o)' <=> q \in Owners(o)
                               /\ Own(q)'
  BY <1>1, SameStays DEF OwnInv
<1>6. \A o : Owners(o) \subseteq Proc /\ Owners(o)' \subseteq Proc
  BY DEF Owners
<1>7. \A o : Waiters(o)' = Waiters(o)
  BY DEF Waiters
<1> QED BY <1>3, <1>4, <1>5, <1>6, <1>7 DEF OwnInv

\* It holds what it held: no object changes hands.
LEMMA RunningStill ==
    ASSUME IInv, OwnInv, NEW p \in Proc, Running(p), pc[p] # "asleep" \/ u_sigwake[p],
           NEW l \in Label, l # "asleep", NEW a,
           GotoWith(p, l, a), UNCHANGED <<held, passed, u_sema, val>>,
           (UNCHANGED u_sigwake /\ ~u_sigwake[p]) \/ u_sigwake' = [u_sigwake EXCEPT ![p] = FALSE],
           l \in {"sleepqueue", "sleepagain", "semaagain"} /\ a \in Res => a \notin held[p]
    PROVE  OwnInv' /\ Moves
<1>1. held' = [held EXCEPT ![p] = held[p]]
  BY DEF IInv, Types, OwnTypes
<1>2. /\ OwnInv'
      /\ \A o : Waiters(o)' = Waiters(o)
      /\ \A o : o \in held[p] => Owners(o)' = Owners(o) \cup {p}
      /\ \A o : o \notin held[p] => Owners(o)' = Owners(o) \ {p}
  BY <1>1, RunningMoves
<1>3. \A o : p \in Owners(o) <=> o \in held[p]
  BY OwnsHeld, SleeperOwns
<1>4. ASSUME NEW x PROVE Owners(x)' = Owners(x)
  <2>1. CASE x \in held[p]
    <3>1. Owners(x)' = Owners(x) \cup {p}
      BY <1>2, <2>1
    <3>2. p \in Owners(x)
      BY <1>3, <2>1
    <3> QED BY <3>1, <3>2
  <2>2. CASE x \notin held[p]
    <3>1. Owners(x)' = Owners(x) \ {p}
      BY <1>2, <2>2
    <3>2. p \notin Owners(x)
      BY <1>3, <2>2
    <3> QED BY <3>1, <3>2
  <2> QED BY <2>1, <2>2
<1>5. \A o : Out(o)' = Out(o)
  BY DEF Out
<1> QED BY <1>2, <1>4, <1>5 DEF Moves, Still

\* It holds one object more, which becomes x in memory and which it did not own.
LEMMA RunningTakes ==
    ASSUME IInv, OwnInv, NEW p \in Proc, Running(p), pc[p] # "asleep", NEW o \in Res,
           o \notin held[p], Goto(p, "kernel"), held' = [held EXCEPT ![p] = @ \cup {o}],
           UNCHANGED <<passed, u_sema, u_sigwake>>,
           o \in Lock => BitClear(val[o]), o \in Sema => val[o] > 0,
           val' = [val EXCEPT ![o] = IF o \in Lock THEN @ + BUSY ELSE @ - 1]
    PROVE  OwnInv' /\ Moves
<1> DEFINE Hold == held[p] \cup {o}
<1>1. ~u_sigwake[p] /\ GotoWith(p, "kernel", NOVOID) /\ held' = [held EXCEPT ![p] = Hold]
  BY DEF OwnInv, Own, Goto, GotoWith
<1>2. "kernel" \in Label /\ "kernel" \notin {"asleep", "sleepqueue", "sleepagain", "semaagain"}
  BY DEF Label
<1> HIDE DEF Hold
<1>3. /\ OwnInv'
      /\ \A x : Waiters(x)' = Waiters(x)
      /\ \A x : x \in Hold => Owners(x)' = Owners(x) \cup {p}
      /\ \A x : x \notin Hold => Owners(x)' = Owners(x) \ {p}
  BY <1>1, <1>2, RunningMoves
<1>4. \A x : p \in Owners(x) <=> x \in held[p]
  BY OwnsHeld
<1>5. ASSUME NEW x, x # o PROVE Owners(x)' = Owners(x)
  <2>1. CASE x \in held[p]
    <3>1. Owners(x)' = Owners(x) \cup {p}
      BY <1>3, <2>1 DEF Hold
    <3>2. p \in Owners(x)
      BY <1>4, <2>1
    <3> QED BY <3>1, <3>2
  <2>2. CASE x \notin held[p]
    <3>1. Owners(x)' = Owners(x) \ {p}
      BY <1>3, <1>5, <2>2 DEF Hold
    <3>2. p \notin Owners(x)
      BY <1>4, <2>2
    <3> QED BY <3>1, <3>2
  <2> QED BY <2>1, <2>2
<1>6. p \in Proc \ Owners(o) /\ Owners(o)' = Owners(o) \cup {p}
  BY <1>3, <1>4 DEF Hold
<1>7. \A x : Out(x)' = Out(x)
  BY DEF Out
<1>8. /\ val'[o] = IF o \in Lock THEN val[o] + BUSY ELSE val[o] - 1
      /\ \A x \in Res : x # o => val'[x] = val[x]
  BY CapFacts DEF IInv, Types, ByteTypes
<1>9. TakeMove(o)
  BY <1>3, <1>6, <1>7, <1>8 DEF TakeMove
<1>10. \A x \in Res \ {o} : Still(x)
  BY <1>3, <1>5, <1>7, <1>8 DEF Still
<1> QED BY <1>3, <1>9, <1>10 DEF Moves, Move

\* It wakes up with the object it was handed over: it owned it already.
LEMMA RunningGranted ==
    ASSUME IInv, OwnInv, NEW p \in Proc, Running(p), pc[p] = "asleep", ~u_sigwake[p],
           Goto(p, "kernel"), held' = [held EXCEPT ![p] = @ \cup {arg[p]}],
           UNCHANGED <<passed, u_sema, u_sigwake, val>>
    PROVE  OwnInv' /\ Moves
<1> DEFINE Hold == held[p] \cup {arg[p]}
<1>1. GotoWith(p, "kernel", NOVOID) /\ held' = [held EXCEPT ![p] = Hold]
  BY DEF Goto, GotoWith
<1>2. "kernel" \in Label /\ "kernel" \notin {"asleep", "sleepqueue", "sleepagain", "semaagain"}
  BY DEF Label
<1> HIDE DEF Hold
<1>3. /\ OwnInv'
      /\ \A x : Waiters(x)' = Waiters(x)
      /\ \A x : x \in Hold => Owners(x)' = Owners(x) \cup {p}
      /\ \A x : x \notin Hold => Owners(x)' = Owners(x) \ {p}
  BY <1>1, <1>2, RunningMoves, ZenonT(60)
<1>4. u_sema[p] = NOVOID
  BY DEF IInv, Places, SleepExact, Running
<1>5. \A x : p \in Owners(x) <=> x \in Hold
  BY <1>4 DEF Owners, Granted, Hold
<1>6. ASSUME NEW x PROVE Owners(x)' = Owners(x)
  <2>1. CASE x \in Hold
    <3>1. p \in Owners(x) /\ Owners(x)' = Owners(x) \cup {p}
      BY <1>3, <1>5, <2>1
    <3> QED BY <3>1
  <2>2. CASE x \notin Hold
    <3>1. p \notin Owners(x) /\ Owners(x)' = Owners(x) \ {p}
      BY <1>3, <1>5, <2>2
    <3> QED BY <3>1
  <2> QED BY <2>1, <2>2
<1>7. \A x : Out(x)' = Out(x)
  BY DEF Out
<1> QED BY <1>3, <1>6, <1>7 DEF Moves, Still

\* It queues itself on an object, whose memory changes only if it is an event or as when one waits.
LEMMA RunningWaits ==
    ASSUME IInv, OwnInv, NEW p \in Proc, Running(p), pc[p] # "asleep", NEW o \in Obj,
           o \in Res => o \notin held[p], Enqueue(p, o), GotoWith(p, "asleep", o),
           UNCHANGED <<held, passed>>,
           o \in Lock => ~BitClear(val[o]), o \in Sema => ~(val[o] > 0),
           NEW v, val' = [val EXCEPT ![o] = v],
           o \in Lock => v = (val[o] + 1) % BYTE, o \in Sema => v = val[o] - 1
    PROVE  OwnInv' /\ Moves
<1>1. o # NOVOID /\ u_sema[p] = NOVOID /\ ~u_sigwake[p]
  BY SyncAssumption DEF IInv, Places, SleepExact, Running, OwnInv, Own
<1>2. /\ u_sema' = [u_sema EXCEPT ![p] = o] /\ UNCHANGED u_sigwake
      /\ pc' = [pc EXCEPT ![p] = "asleep"] /\ arg' = [arg EXCEPT ![p] = o]
  BY DEF Enqueue, GotoWith
<1>3. \A q \in Proc : q # p => Same(q)
  BY <1>2 DEF Same, IInv, Types, CtlTypes, OwnTypes, ProcTypes
<1>4. pc'[p] = "asleep" /\ arg'[p] = o /\ u_sema'[p] = o /\ ~u_sigwake'[p] /\ held'[p] = held[p]
  BY <1>1, <1>2 DEF IInv, Types, CtlTypes, OwnTypes, ProcTypes
<1>5. \A x : p \in Owners(x)' <=> p \in Owners(x)
  BY <1>1, <1>4, OwnsHeld DEF Owners, Granted
<1>6. \A x \in Res : p \in Waiters(x)' <=> x = o
  BY <1>4 DEF Waiters
<1>7. \A x \in Res : p \notin Waiters(x)
  BY <1>1, CapFacts, SyncAssumption DEF Waiters
<1>8. Own(p)'
  BY <1>4 DEF Own
<1>9. \A q \in Proc : q # p => /\ \A x : q \in Owners(x)' <=> q \in Owners(x)
                               /\ \A x : q \in Waiters(x)' <=> q \in Waiters(x)
                               /\ Own(q)'
  BY <1>3, SameStays DEF OwnInv
<1>10. \A x : Owners(x) \subseteq Proc /\ Owners(x)' \subseteq Proc
              /\ Waiters(x) \subseteq Proc /\ Waiters(x)' \subseteq Proc
  BY DEF Owners, Waiters
<1>11. /\ OwnInv'
       /\ \A x : Owners(x)' = Owners(x)
       /\ \A x \in Res : Waiters(x)' = IF x = o THEN Waiters(x) \cup {p} ELSE Waiters(x)
  <2>1. OwnInv'
    BY <1>8, <1>9 DEF OwnInv
  <2>2. ASSUME NEW x PROVE Owners(x)' = Owners(x)
    <3>1. Owners(x) \subseteq Proc /\ Owners(x)' \subseteq Proc
      BY <1>10
    <3>2. \A q \in Proc : q \in Owners(x)' <=> q \in Owners(x)
      BY <1>5, <1>9
    <3> QED BY <3>1, <3>2
  <2>3. ASSUME NEW x \in Res
        PROVE  Waiters(x)' = IF x = o THEN Waiters(x) \cup {p} ELSE Waiters(x)
    <3>1. /\ Waiters(x) \subseteq Proc /\ Waiters(x)' \subseteq Proc
          /\ p \in Waiters(x)' <=> x = o
          /\ p \notin Waiters(x)
          /\ \A q \in Proc : q # p => (q \in Waiters(x)' <=> q \in Waiters(x))
      BY <1>6, <1>7, <1>9, <1>10
    <3>2. CASE x = o
      <4>1. \A q \in Proc : q \in Waiters(x)' <=> q \in Waiters(x) \cup {p}
        BY <3>1, <3>2
      <4> QED BY <3>1, <3>2, <4>1
    <3>3. CASE x # o
      <4>1. \A q \in Proc : q \in Waiters(x)' <=> q \in Waiters(x)
        BY <3>1, <3>3
      <4> QED BY <3>1, <3>3, <4>1
    <3> QED BY <3>2, <3>3
  <2> QED BY <2>1, <2>2, <2>3
<1>12. /\ \A x : Out(x)' = Out(x)
       /\ val'[o] = v /\ \A x \in Res : x # o => val'[x] = val[x]
  BY CapFacts DEF Out, IInv, Types, ByteTypes
<1>13. \A x \in Res \ {o} : Still(x)
  BY <1>11, <1>12 DEF Still
<1>14. o \in Res => WaitMove(o)
  <2> HAVE o \in Res
  <2>1. p \in Proc \ (Owners(o) \cup Waiters(o))
    BY <1>7, OwnsHeld
  <2>2. val'[o] = IF o \in Lock THEN (val[o] + 1) % BYTE ELSE val[o] - 1
    BY <1>12, CapFacts
  <2> QED BY <1>11, <1>12, <2>1, <2>2 DEF WaitMove
<1> QED BY <1>11, <1>13, <1>14 DEF Moves, Move
\* The hash queue of an object has a process queued on it exactly when somebody waits.
LEMMA SomebodyWaits ==
    ASSUME IInv, NEW o \in Obj
    PROVE  WaiterPositions(o) # {} <=> Waiters(o) # {}
<1> DEFINE b == PHASH[o]
<1>1. o # NOVOID /\ b \in Bucket /\ h_uproc[b] \in Seq(Proc)
  BY SyncAssumption DEF IInv, Places, QueuesHold
<1>2. \A p \in Proc : p \in ToSet(h_uproc[b]) <=> u_sema[p] # NOVOID /\ PHASH[u_sema[p]] = b
  BY <1>1 DEF IInv, Places, QueuesHold
<1>3. ASSUME NEW i \in WaiterPositions(o) PROVE Waiters(o) # {}
  <2>1. h_uproc[b][i] \in Proc /\ u_sema[h_uproc[b][i]] = o
    BY <1>1 DEF WaiterPositions
  <2> QED BY <2>1 DEF Waiters
<1>4. ASSUME NEW p \in Waiters(o) PROVE WaiterPositions(o) # {}
  <2>1. p \in Proc /\ u_sema[p] = o
    BY DEF Waiters
  <2>2. p \in ToSet(h_uproc[b])
    BY <1>1, <1>2, <2>1
  <2>3. PICK i \in DOMAIN h_uproc[b] : h_uproc[b][i] = p
    BY <2>2 DEF ToSet
  <2> QED BY <2>1, <2>3 DEF WaiterPositions
<1> QED BY <1>3, <1>4

\* An object goes to its first waiter, if there is one; D, at most the process that frees
\* it, stops holding it.
LEMMA HandMoves ==
    ASSUME IInv, OwnInv, NEW o \in Res, UNCHANGED <<pc, arg>>,
           IF Waiters(o) # {} THEN HandOver(o) ELSE UNCHANGED <<u_sema, u_sigwake>>,
           NEW D, D \subseteq Proc, \A d \in D : pc[d] # "asleep",
           \A q \in Proc : held'[q] = IF q \in D THEN held[q] \ {o} ELSE held[q]
    PROVE  /\ OwnInv'
           /\ GoesTo(Owners(o) \ D, Waiters(o), Owners(o)', Waiters(o)')
           /\ \A x : x # o => Owners(x)' = Owners(x)
           /\ \A x \in Res : x # o => Waiters(x)' = Waiters(x)
<1> DEFINE W == Waiters(o)
           sent == { w \in W : u_sema'[w] = NOVOID }
<1>1. o # NOVOID /\ o \in Obj /\ \A x \in Res : x # NOVOID
  BY CapFacts, SyncAssumption
<1>2. /\ UNCHANGED u_sigwake
      /\ \A q \in Proc : u_sema'[q] = IF q \in sent THEN NOVOID ELSE u_sema[q]
      /\ (W = {} /\ sent = {}) \/ (\E w \in W : sent = {w})
  <2>1. CASE W = {}
    BY <2>1
  <2>2. CASE W # {}
    <3>1. HandOver(o)
      BY <2>2
    <3>2. PICK w \in W : u_sema' = [u_sema EXCEPT ![w] = NOVOID] /\ UNCHANGED u_sigwake
      BY <1>1, <3>1, HandOverHolds, IInvTypeOK DEF IInv, Places
    <3>3. w \in Proc /\ \A q \in W : q \in Proc /\ u_sema[q] = o
      BY DEF Waiters
    <3>4. u_sema \in [Proc -> Obj \cup {NOVOID}]
      BY DEF IInv, Types, ProcTypes
    <3>5. sent = {w}
      BY <1>1, <3>2, <3>3, <3>4
    <3> QED BY <3>2, <3>3, <3>4, <3>5
  <2> QED BY <2>1, <2>2
<1> HIDE DEF sent
<1>3. \A w \in W : /\ w \in Proc /\ u_sema[w] = o /\ pc[w] = "asleep" /\ arg[w] = o
                   /\ ~u_sigwake[w] /\ w \notin D
  BY <1>1 DEF Waiters, IInv, Places, SleepExact, OwnInv, Own
<1>4. sent \subseteq W
  BY <1>2
<1>5. ASSUME NEW q \in Proc
      PROVE  /\ q \in Owners(o)' <=> (q \in Owners(o) /\ q \notin D) \/ q \in sent
             /\ q \in Waiters(o)' <=> q \in W /\ q \notin sent
             /\ \A x : x # o => (q \in Owners(x)' <=> q \in Owners(x))
             /\ \A x \in Res : x # o => (q \in Waiters(x)' <=> q \in Waiters(x))
             /\ Own(q)'
  <2>1. Own(q)
    BY DEF OwnInv
  <2>2. CASE q \in sent
    <3>1. /\ u_sema[q] = o /\ pc[q] = "asleep" /\ arg[q] = o /\ ~u_sigwake[q] /\ q \notin D
          /\ u_sema'[q] = NOVOID /\ u_sigwake'[q] = u_sigwake[q]
          /\ pc'[q] = pc[q] /\ arg'[q] = arg[q] /\ held'[q] = held[q]
      BY <1>2, <1>3, <1>4, <2>2
    <3>2. q \in Owners(o)' /\ \A x : x # o => (q \in Owners(x)' <=> q \in Owners(x))
      BY <3>1 DEF Owners, Granted
    <3>3. q \notin Waiters(o)' /\ \A x \in Res : x # o => q \notin Waiters(x)' /\ q \notin Waiters(x)
      BY <1>1, <3>1 DEF Waiters
    <3>4. Own(q)'
      BY <2>1, <3>1 DEF Own
    <3> QED BY <2>2, <3>2, <3>3, <3>4
  <2>3. CASE q \in D
    <3>1. /\ pc[q] # "asleep" /\ q \notin W /\ q \notin sent
          /\ u_sema'[q] = u_sema[q] /\ u_sigwake'[q] = u_sigwake[q]
          /\ pc'[q] = pc[q] /\ arg'[q] = arg[q] /\ held'[q] = held[q] \ {o}
      BY <1>2, <1>3, <1>4, <2>3
    <3>2. q \notin Owners(o)' /\ \A x : x # o => (q \in Owners(x)' <=> q \in Owners(x))
      BY <3>1 DEF Owners, Granted
    <3>3. \A x : q \in Waiters(x)' <=> q \in Waiters(x)
      BY <3>1 DEF Waiters
    <3>4. Own(q)'
      BY <2>1, <3>1 DEF Own
    <3> QED BY <2>3, <3>1, <3>2, <3>3, <3>4
  <2>4. CASE q \notin sent /\ q \notin D
    <3>1. Same(q)
      BY <1>2, <2>4 DEF Same
    <3> QED BY <2>1, <2>4, <3>1, SameStays
  <2> QED BY <2>2, <2>3, <2>4
<1>6. \A x : Owners(x) \subseteq Proc /\ Owners(x)' \subseteq Proc
             /\ Waiters(x) \subseteq Proc /\ Waiters(x)' \subseteq Proc
  BY DEF Owners, Waiters
<1>7. ASSUME NEW x, x # o PROVE Owners(x)' = Owners(x)
  <2>1. \A q \in Proc : q \in Owners(x)' <=> q \in Owners(x)
    BY <1>5, <1>7
  <2>2. Owners(x) \subseteq Proc /\ Owners(x)' \subseteq Proc
    BY <1>6
  <2> QED BY <2>1, <2>2
<1>8. ASSUME NEW x \in Res, x # o PROVE Waiters(x)' = Waiters(x)
  <2>1. \A q \in Proc : q \in Waiters(x)' <=> q \in Waiters(x)
    BY <1>5, <1>8
  <2>2. Waiters(x) \subseteq Proc /\ Waiters(x)' \subseteq Proc
    BY <1>6
  <2> QED BY <2>1, <2>2
<1>9. Owners(o)' = (Owners(o) \ D) \cup sent
  <2>1. \A q \in Proc : q \in Owners(o)' <=> q \in (Owners(o) \ D) \cup sent
    BY <1>5
  <2>2. Owners(o) \subseteq Proc /\ Owners(o)' \subseteq Proc /\ sent \subseteq Proc
    BY <1>4, <1>6
  <2> QED BY <2>1, <2>2
<1>10. Waiters(o)' = W \ sent
  <2>1. \A q \in Proc : q \in Waiters(o)' <=> q \in W \ sent
    BY <1>5
  <2>2. W \subseteq Proc /\ Waiters(o)' \subseteq Proc
    BY <1>6
  <2> QED BY <2>1, <2>2
<1>11. GoesTo(Owners(o) \ D, W, (Owners(o) \ D) \cup sent, W \ sent)
  <2>1. CASE W = {} /\ sent = {}
    BY <2>1 DEF GoesTo
  <2>2. ASSUME NEW w \in W, sent = {w}
        PROVE  GoesTo(Owners(o) \ D, W, (Owners(o) \ D) \cup sent, W \ sent)
    BY <2>2 DEF GoesTo
  <2> QED BY <1>2, <2>1, <2>2
<1> QED BY <1>5, <1>7, <1>8, <1>9, <1>10, <1>11 DEF OwnInv
\* An owner frees what it holds; the memory changes as FreeMove says.
LEMMA RunningFrees ==
    ASSUME IInv, OwnInv, NEW p \in Proc, pc[p] # "asleep", NEW o \in Res, o \in held[p],
           held' = [held EXCEPT ![p] = @ \ {o}], UNCHANGED <<pc, arg, passed>>,
           IF Waiters(o) # {} THEN HandOver(o) ELSE UNCHANGED <<u_sema, u_sigwake>>,
           NEW v, val' = [val EXCEPT ![o] = v],
           v = IF o \in Sema THEN val[o] + 1 ELSE IF Waiters(o) = {} THEN 0 ELSE val[o] - 1
    PROVE  OwnInv' /\ Moves
<1>1. \A q \in Proc : held'[q] = IF q \in {p} THEN held[q] \ {o} ELSE held[q]
  BY DEF IInv, Types, OwnTypes
<1>2. {p} \subseteq Proc /\ \A d \in {p} : pc[d] # "asleep"
  OBVIOUS
<1>3. /\ OwnInv'
      /\ GoesTo(Owners(o) \ {p}, Waiters(o), Owners(o)', Waiters(o)')
      /\ \A x : x # o => Owners(x)' = Owners(x)
      /\ \A x \in Res : x # o => Waiters(x)' = Waiters(x)
  BY <1>1, <1>2, HandMoves
<1>4. p \in Owners(o)
  BY OwnsHeld
<1>5. /\ \A x : Out(x)' = Out(x)
      /\ val'[o] = v /\ \A x \in Res : x # o => val'[x] = val[x]
  BY CapFacts DEF Out, IInv, Types, ByteTypes
<1>6. FreeMove(o)
  BY <1>3, <1>4, <1>5 DEF FreeMove
<1>7. \A x \in Res \ {o} : Still(x)
  BY <1>3, <1>5 DEF Still
<1> QED BY <1>3, <1>6, <1>7 DEF Moves, Move

-----------------------------------------------------------------------------
(* Locks *)

\* sleeplock, from its start or after a broken sleep.
LEMMA TryLockMoves ==
    ASSUME IInv, OwnInv, NEW p \in Proc, NEW o \in Lock, Running(p), pc[p] # "asleep",
           o \notin held[p], TryLock(p, o), UNCHANGED passed
    PROVE  OwnInv' /\ Moves
<1>1. o \in Res /\ o \notin Sema
  BY SyncAssumption DEF Res
<1>2. CASE BitClear(val[o]) /\ TakeLock(p, o)
  BY <1>1, <1>2, RunningTakes DEF TakeLock, sleepVars
<1>3. CASE ~(BitClear(val[o]) /\ TakeLock(p, o))
  <2>1. /\ GotoWith(p, "eintr", NOVOID) \/ GotoWith(p, "sleepqueue", o)
        /\ UNCHANGED <<held, passed, u_sema, u_sigwake, val>>
    BY <1>3 DEF TryLock, Goto, GotoWith, sleepVars
  <2>2. ~u_sigwake[p]
    BY DEF OwnInv, Own
  <2>3. "eintr" \in Label /\ "sleepqueue" \in Label /\ "sleepqueue" # "asleep"
        /\ "eintr" \notin {"asleep", "sleepqueue", "sleepagain", "semaagain"}
    BY DEF Label
  <2>4. CASE GotoWith(p, "eintr", NOVOID)
    BY <2>1, <2>2, <2>3, <2>4, RunningStill
  <2>5. CASE GotoWith(p, "sleepqueue", o)
    BY <2>1, <2>2, <2>3, <2>5, RunningStill
  <2> QED BY <2>1, <2>4, <2>5
<1> QED BY <1>2, <1>3

\* sleeplock under the lock of the queue.
LEMMA SleepLockQueueMoves ==
    ASSUME IInv, OwnInv, NEW p \in Proc, arg[p] \in Lock, SleepLockQueue(p), UNCHANGED passed
    PROVE  OwnInv' /\ Moves
<1> DEFINE o == arg[p]
<1>1. o \in Res /\ o \in Obj /\ o \notin Sema /\ Running(p) /\ pc[p] = "sleepqueue"
  BY SyncAssumption DEF Res, Obj, SleepLockQueue, At
<1>2. o \notin held[p]
  BY <1>1 DEF OwnInv, Own
<1>3. CASE BitClear(val[o]) /\ TakeLock(p, o)
  <2> HIDE DEF o
  <2> QED BY <1>1, <1>2, <1>3, RunningTakes DEF TakeLock, sleepVars, o
<1>4. CASE ~(BitClear(val[o]) /\ TakeLock(p, o))
  <2>1. /\ ~BitClear(val[o])
        /\ val' = [val EXCEPT ![o] = (val[o] + 1) % BYTE]
        /\ Enqueue(p, o) /\ GotoWith(p, "asleep", o) /\ UNCHANGED <<held, passed>>
    BY <1>4 DEF SleepLockQueue
  <2> HIDE DEF o
  <2> QED BY <1>1, <1>2, <2>1, RunningWaits
<1> QED BY <1>3, <1>4

\* The end of a sleep of sleeplock.
LEMMA SleepLockAwakeMoves ==
    ASSUME IInv, OwnInv, NEW p \in Proc, arg[p] \in Lock, SleepLockAwake(p), UNCHANGED passed
    PROVE  OwnInv' /\ Moves
<1> DEFINE o == arg[p]
<1>1. o \in Res /\ Running(p) /\ pc[p] = "asleep" /\ UNCHANGED <<u_sema, val, passed>>
  BY DEF Res, SleepLockAwake, At
<1>2. o \notin held[p]
  BY <1>1 DEF OwnInv, Own
<1>3. CASE ~u_sigwake[p]
  BY <1>1, <1>3, RunningGranted DEF SleepLockAwake
<1>4. CASE u_sigwake[p]
  <2>1. /\ GotoWith(p, "eintr", NOVOID) \/ GotoWith(p, "sleepagain", o)
        /\ u_sigwake' = [u_sigwake EXCEPT ![p] = FALSE] /\ UNCHANGED held
    BY <1>4 DEF SleepLockAwake, Goto, GotoWith
  <2>2. "eintr" \in Label /\ "sleepagain" \in Label /\ "sleepagain" # "asleep"
        /\ "eintr" \notin {"asleep", "sleepqueue", "sleepagain", "semaagain"}
    BY DEF Label
  <2> HIDE DEF o
  <2>3. CASE GotoWith(p, "eintr", NOVOID)
    BY <1>1, <1>4, <2>1, <2>2, <2>3, RunningStill
  <2>4. CASE GotoWith(p, "sleepagain", o)
    BY <1>1, <1>2, <1>4, <2>1, <2>2, <2>4, RunningStill
  <2> QED BY <2>1, <2>3, <2>4
<1> QED BY <1>3, <1>4

\* sleepfree: the byte tells whether somebody waits.
LEMMA sleepfreeMoves ==
    ASSUME FewProcesses, HInv, NEW p \in Proc, NEW o \in Lock, sleepfree(p, o), UNCHANGED passed
    PROVE  OwnInv' /\ Moves
<1>1. IInv /\ OwnInv /\ o \in Res /\ o \in Obj /\ o \notin Sema /\ pc[p] # "asleep" /\ o \in held[p]
  BY SyncAssumption DEF HInv, Res, Obj, sleepfree, At
<1>2. Agree(o, Owners(o), Waiters(o), Out(o), val[o]) /\ Owners(o) # {}
  BY <1>1, OwnsHeld DEF HInv, AgreeAll
<1>3. val[o] = BUSY + Cardinality(Waiters(o)) /\ Cardinality(Waiters(o)) \in Nat
  BY <1>1, <1>2, WordSays
<1>4. Waiters(o) = {} <=> Cardinality(Waiters(o)) = 0
  <2>1. Waiters(o) \subseteq Proc
    BY DEF Waiters
  <2>2. IsFiniteSet(Waiters(o))
    BY <2>1, SyncAssumption, FS_Subset
  <2> QED BY <2>2, FS_EmptySet
<1>5. val[o] # 0 /\ (val[o] = BUSY <=> Waiters(o) = {})
  BY <1>3, <1>4 DEF BUSY
<1>6. WaiterPositions(o) # {} <=> Waiters(o) # {}
  BY <1>1, SomebodyWaits
<1>7. /\ IF Waiters(o) # {} THEN HandOver(o) ELSE UNCHANGED <<u_sema, u_sigwake>>
      /\ val' = [val EXCEPT ![o] = IF Waiters(o) = {} THEN 0 ELSE val[o] - 1]
  BY <1>5, <1>6 DEF sleepfree, sleepVars
<1>8. held' = [held EXCEPT ![p] = @ \ {o}] /\ UNCHANGED <<pc, arg, passed>>
  BY DEF sleepfree, ctlVars
<1> QED BY <1>1, <1>7, <1>8, RunningFrees

\* Every step of sleep.c.
LEMMA LockStepMoves ==
    ASSUME FewProcesses, HInv, NEW p \in Proc, LockStep(p)
    PROVE  OwnInv' /\ Moves
<1>1. UNCHANGED passed /\ IInv /\ OwnInv
  BY DEF LockStep, HInv
<1>2. ASSUME NEW o \in Lock, sleeplock(p, o) PROVE OwnInv' /\ Moves
  BY <1>1, <1>2, TryLockMoves DEF sleeplock, At
<1>3. ASSUME NEW o \in Lock, sleeptest(p, o) PROVE OwnInv' /\ Moves
  <2>1. TryLock(p, o)
    BY <1>3 DEF sleeptest, TryLock
  <2> QED BY <1>1, <1>3, <2>1, TryLockMoves DEF sleeptest, At
<1>4. ASSUME NEW o \in Lock, sleepfree(p, o) PROVE OwnInv' /\ Moves
  BY <1>1, <1>4, sleepfreeMoves
<1>5. CASE arg[p] \in Lock /\ SleepLockAgain(p)
  <2>1. arg[p] \notin held[p]
    BY <1>1, <1>5 DEF SleepLockAgain, At, OwnInv, Own, Res
  <2> QED BY <1>1, <1>5, <2>1, TryLockMoves DEF SleepLockAgain, At
<1>6. CASE arg[p] \in Lock /\ SleepLockQueue(p)
  BY <1>1, <1>6, SleepLockQueueMoves
<1>7. CASE arg[p] \in Lock /\ SleepLockAwake(p)
  BY <1>1, <1>7, SleepLockAwakeMoves
<1> QED BY <1>2, <1>3, <1>4, <1>5, <1>6, <1>7 DEF LockStep
-----------------------------------------------------------------------------
(* Semaphores *)

\* semalock, from its start or after a broken sleep.
LEMMA TrySemaMoves ==
    ASSUME IInv, OwnInv, NEW p \in Proc, NEW o \in Sema, Running(p), pc[p] # "asleep",
           o \notin held[p], TrySema(p, o)
    PROVE  OwnInv' /\ Moves
<1>1. o \in Res /\ o \notin Lock /\ o \in Obj /\ ~u_sigwake[p]
  BY SyncAssumption DEF Res, Obj, OwnInv, Own
<1>2. CASE val[o] > 0 /\ TakeSema(p, o)
  BY <1>1, <1>2, RunningTakes DEF TakeSema, sleepVars
<1>3. CASE Goto(p, "eintr") /\ UNCHANGED <<sleepVars, val, held, passed>>
  <2>1. GotoWith(p, "eintr", NOVOID) /\ UNCHANGED <<held, passed, u_sema, u_sigwake, val>>
    BY <1>3 DEF Goto, GotoWith, sleepVars
  <2>2. "eintr" \in Label /\ "eintr" \notin {"asleep", "sleepqueue", "sleepagain", "semaagain"}
    BY DEF Label
  <2> QED BY <1>1, <2>1, <2>2, RunningStill
<1>4. CASE /\ val[o] <= 0
           /\ val' = [val EXCEPT ![o] = @ - 1]
           /\ Enqueue(p, o) /\ GotoWith(p, "asleep", o) /\ UNCHANGED <<held, passed>>
  <2>1. ~(val[o] > 0)
    BY <1>1, <1>4 DEF IInv, Types, ByteTypes
  <2> QED BY <1>1, <1>4, <2>1, RunningWaits
<1> QED BY <1>2, <1>3, <1>4 DEF TrySema

\* The end of a sleep of semalock.
LEMMA SemaLockAwakeMoves ==
    ASSUME IInv, OwnInv, NEW p \in Proc, arg[p] \in Sema, SemaLockAwake(p)
    PROVE  OwnInv' /\ Moves
<1> DEFINE o == arg[p]
<1>1. o \in Res /\ Running(p) /\ pc[p] = "asleep" /\ UNCHANGED <<u_sema, val, passed>>
  BY DEF Res, SemaLockAwake, At
<1>2. o \notin held[p]
  BY <1>1 DEF OwnInv, Own
<1>3. CASE ~u_sigwake[p]
  BY <1>1, <1>3, RunningGranted DEF SemaLockAwake
<1>4. CASE u_sigwake[p]
  <2>1. /\ GotoWith(p, "eintr", NOVOID) \/ GotoWith(p, "semaagain", o)
        /\ u_sigwake' = [u_sigwake EXCEPT ![p] = FALSE] /\ UNCHANGED held
    BY <1>4 DEF SemaLockAwake, Goto, GotoWith
  <2>2. "eintr" \in Label /\ "semaagain" \in Label /\ "semaagain" # "asleep"
        /\ "eintr" \notin {"asleep", "sleepqueue", "sleepagain", "semaagain"}
    BY DEF Label
  <2> HIDE DEF o
  <2>3. CASE GotoWith(p, "eintr", NOVOID)
    BY <1>1, <1>4, <2>1, <2>2, <2>3, RunningStill
  <2>4. CASE GotoWith(p, "semaagain", o)
    BY <1>1, <1>2, <1>4, <2>1, <2>2, <2>4, RunningStill
  <2> QED BY <2>1, <2>3, <2>4
<1> QED BY <1>3, <1>4

\* semafree, by a process or by an interrupt routine: the count tells whether somebody waits.
LEMMA FreeSemaHands ==
    ASSUME FewProcesses, HInv, NEW o \in Sema, FreeSema(o)
    PROVE  /\ IF Waiters(o) # {} THEN HandOver(o) ELSE UNCHANGED <<u_sema, u_sigwake>>
           /\ val' = [val EXCEPT ![o] = val[o] + 1]
<1>1. IInv /\ o \in Res /\ o \in Obj /\ Agree(o, Owners(o), Waiters(o), Out(o), val[o])
  BY DEF HInv, AgreeAll, Res, Obj
<1>2. val[o] < 0 <=> Waiters(o) # {}
  BY <1>1, WordSays
<1>3. WaiterPositions(o) # {} <=> Waiters(o) # {}
  BY <1>1, SomebodyWaits
<1> QED BY <1>2, <1>3 DEF FreeSema, sleepVars

\* The resource goes to a driver.
LEMMA PassSemaMoves ==
    ASSUME IInv, OwnInv, NEW p \in Proc, NEW o \in Sema, PassSema(p, o)
    PROVE  OwnInv' /\ Moves
<1>1. /\ pc[p] # "asleep" /\ o \in held[p] /\ o \in Res
      /\ held' = [held EXCEPT ![p] = held[p] \ {o}]
      /\ passed' = [passed EXCEPT ![o] = @ + 1]
      /\ UNCHANGED <<u_sema, u_sigwake, val, pc, arg>>
  BY DEF PassSema, At, sleepVars, ctlVars, Res
<1>2. \A q \in Proc : q # p => Same(q)
  BY <1>1 DEF Same, IInv, Types, OwnTypes
<1>3. held'[p] = held[p] \ {o}
  BY <1>1 DEF IInv, Types, OwnTypes
<1>4. Own(p)'
  BY <1>1, <1>3 DEF OwnInv, Own
<1>5. \A q \in Proc : q # p => (\A x : q \in Owners(x)' <=> q \in Owners(x)) /\ Own(q)'
  BY <1>2, SameStays DEF OwnInv
<1>6. p \in Owners(o) /\ \A x : p \in Owners(x)' <=> p \in Owners(x) /\ x # o
  BY <1>1, <1>3 DEF Owners, Granted
<1>7. \A x : Owners(x) \subseteq Proc /\ Owners(x)' \subseteq Proc
  BY DEF Owners
<1>8. Owners(o)' = Owners(o) \ {p}
  <2>1. \A q \in Proc : q \in Owners(o)' <=> q \in Owners(o) \ {p}
    BY <1>5, <1>6
  <2>2. Owners(o) \subseteq Proc /\ Owners(o)' \subseteq Proc
    BY <1>7
  <2> QED BY <2>1, <2>2
<1>9. ASSUME NEW x, x # o PROVE Owners(x)' = Owners(x)
  <2>1. \A q \in Proc : q \in Owners(x)' <=> q \in Owners(x)
    BY <1>5, <1>6, <1>9
  <2>2. Owners(x) \subseteq Proc /\ Owners(x)' \subseteq Proc
    BY <1>7
  <2> QED BY <2>1, <2>2
<1>10. \A x : Waiters(x)' = Waiters(x)
  BY <1>1 DEF Waiters
<1>11. Out(o)' = Out(o) + 1 /\ \A x : x # o => Out(x)' = Out(x)
  BY <1>1 DEF Out, IInv, Types, OwnTypes
<1>12. PassMove(o)
  BY <1>1, <1>6, <1>8, <1>10, <1>11 DEF PassMove
<1>13. \A x \in Res \ {o} : Still(x)
  BY <1>1, <1>9, <1>10, <1>11 DEF Still
<1> QED BY <1>1, <1>4, <1>5, <1>12, <1>13 DEF OwnInv, Moves, Move

\* Every step of sema.c by a process.
LEMMA SemaStepMoves ==
    ASSUME FewProcesses, HInv, NEW p \in Proc, SemaStep(p)
    PROVE  OwnInv' /\ Moves
<1>1. IInv /\ OwnInv
  BY DEF HInv
<1>2. ASSUME NEW o \in Sema, semalock(p, o) PROVE OwnInv' /\ Moves
  BY <1>1, <1>2, TrySemaMoves DEF semalock, At
<1>3. ASSUME NEW o \in Sema, sematest(p, o) PROVE OwnInv' /\ Moves
  <2>1. TrySema(p, o)
    BY <1>3 DEF sematest, TrySema
  <2> QED BY <1>1, <1>3, <2>1, TrySemaMoves DEF sematest, At
<1>4. ASSUME NEW o \in Sema, semafree(p, o) PROVE OwnInv' /\ Moves
  <2>1. /\ IF Waiters(o) # {} THEN HandOver(o) ELSE UNCHANGED <<u_sema, u_sigwake>>
        /\ val' = [val EXCEPT ![o] = val[o] + 1]
    BY <1>4, FreeSemaHands DEF semafree
  <2>2. /\ pc[p] # "asleep" /\ o \in held[p] /\ o \in Res
        /\ held' = [held EXCEPT ![p] = @ \ {o}] /\ UNCHANGED <<pc, arg, passed>>
    BY <1>4 DEF semafree, At, ctlVars, Res
  <2> QED BY <1>1, <2>1, <2>2, RunningFrees
<1>5. ASSUME NEW o \in Sema, PassSema(p, o) PROVE OwnInv' /\ Moves
  BY <1>1, <1>5, PassSemaMoves
<1>6. CASE arg[p] \in Sema /\ SemaLockAgain(p)
  <2>1. arg[p] \notin held[p]
    BY <1>1, <1>6 DEF SemaLockAgain, At, OwnInv, Own, Res
  <2> QED BY <1>1, <1>6, <2>1, TrySemaMoves DEF SemaLockAgain, At
<1>7. CASE arg[p] \in Sema /\ SemaLockAwake(p)
  BY <1>1, <1>7, SemaLockAwakeMoves
<1> QED BY <1>2, <1>3, <1>4, <1>5, <1>6, <1>7 DEF SemaStep

\* semafree by an interrupt routine.
LEMMA SemaFreeFromInterruptMoves ==
    ASSUME FewProcesses, HInv, NEW o \in Sema, SemaFreeFromInterrupt(o)
    PROVE  OwnInv' /\ Moves
<1>1. IInv /\ OwnInv /\ o \in Res /\ passed[o] > 0
      /\ passed' = [passed EXCEPT ![o] = @ - 1] /\ UNCHANGED <<held, pc, arg>>
  BY DEF HInv, Res, SemaFreeFromInterrupt, ctlVars
<1>2. /\ IF Waiters(o) # {} THEN HandOver(o) ELSE UNCHANGED <<u_sema, u_sigwake>>
      /\ val' = [val EXCEPT ![o] = val[o] + 1]
  BY FreeSemaHands DEF SemaFreeFromInterrupt
<1>3. \A q \in Proc : held'[q] = IF q \in {} THEN held[q] \ {o} ELSE held[q]
  BY <1>1
<1>4. /\ OwnInv'
      /\ GoesTo(Owners(o) \ {}, Waiters(o), Owners(o)', Waiters(o)')
      /\ \A x : x # o => Owners(x)' = Owners(x)
      /\ \A x \in Res : x # o => Waiters(x)' = Waiters(x)
  BY <1>1, <1>2, <1>3, HandMoves
<1>5. Owners(o) \ {} = Owners(o)
  OBVIOUS
<1>6. /\ Out(o) > 0 /\ Out(o)' = Out(o) - 1 /\ \A x : x # o => Out(x)' = Out(x)
      /\ val'[o] = val[o] + 1 /\ \A x \in Res : x # o => val'[x] = val[x]
  BY <1>1, <1>2, CapFacts DEF Out, IInv, Types, OwnTypes, ByteTypes
<1>7. FreeOutMove(o)
  BY <1>4, <1>5, <1>6 DEF FreeOutMove
<1>8. \A x \in Res \ {o} : Still(x)
  BY <1>4, <1>6 DEF Still
<1> QED BY <1>1, <1>4, <1>7, <1>8 DEF Moves, Move

-----------------------------------------------------------------------------
(* Events *)

\* No event is a lock or a semaphore.
LEMMA EventsApart ==
    ASSUME NEW e \in Event
    PROVE  e \notin Res /\ e \notin Lock /\ e \notin Sema /\ e \in Obj
BY SyncAssumption DEF Res, Obj

\* eventwait, from its start or after a broken sleep.
LEMMA TryEventMoves ==
    ASSUME IInv, OwnInv, NEW p \in Proc, NEW e \in Event, Running(p), pc[p] # "asleep",
           TryEvent(p, e), UNCHANGED <<held, passed>>
    PROVE  OwnInv' /\ Moves
<1>1. \E l \in {"kernel", "eintr", "eventqueue"} : \E a : GotoWith(p, l, a)
  BY DEF TryEvent, Goto, GotoWith
<1>2. UNCHANGED <<held, passed, u_sema, u_sigwake, val>> /\ ~u_sigwake[p]
  BY DEF TryEvent, sleepVars, OwnInv, Own
<1>3. \A l \in {"kernel", "eintr", "eventqueue"} :
         l \in Label /\ l \notin {"asleep", "sleepqueue", "sleepagain", "semaagain"}
  BY DEF Label
<1> QED BY <1>1, <1>2, <1>3, RunningStill

\* eventwait under the lock of the queue.
LEMMA EventWaitQueueMoves ==
    ASSUME IInv, OwnInv, NEW p \in Proc, arg[p] \in Event, EventWaitQueue(p),
           UNCHANGED <<held, passed>>
    PROVE  OwnInv' /\ Moves
<1> DEFINE e == arg[p]
<1>1. Running(p) /\ pc[p] # "asleep" /\ ~u_sigwake[p]
  BY DEF EventWaitQueue, At, OwnInv, Own
<1>2. CASE Occurred(e)
  <2>1. GotoWith(p, "kernel", NOVOID) /\ UNCHANGED <<held, passed, u_sema, u_sigwake, val>>
    BY <1>2 DEF EventWaitQueue, Goto, GotoWith, sleepVars
  <2>2. "kernel" \in Label /\ "kernel" \notin {"asleep", "sleepqueue", "sleepagain", "semaagain"}
    BY DEF Label
  <2> QED BY <1>1, <2>1, <2>2, RunningStill
<1>3. CASE ~Occurred(e)
  <2>1. val' = [val EXCEPT ![e] = 1] /\ Enqueue(p, e) /\ GotoWith(p, "asleep", e)
    BY <1>3 DEF EventWaitQueue
  <2>2. e \notin Res /\ e \notin Lock /\ e \notin Sema /\ e \in Obj
    BY EventsApart
  <2> HIDE DEF e
  <2> QED BY <1>1, <2>1, <2>2, RunningWaits
<1> QED BY <1>2, <1>3

\* The end of a sleep of eventwait.
LEMMA EventWaitAwakeMoves ==
    ASSUME IInv, OwnInv, NEW p \in Proc, arg[p] \in Event, EventWaitAwake(p),
           UNCHANGED <<held, passed>>
    PROVE  OwnInv' /\ Moves
<1>1. /\ Running(p) /\ pc[p] = "asleep"
      /\ u_sigwake' = [u_sigwake EXCEPT ![p] = FALSE]
      /\ UNCHANGED <<held, passed, u_sema, val>>
      /\ \E l \in {"kernel", "eintr", "eventagain"} : \E a : GotoWith(p, l, a)
  BY DEF EventWaitAwake, At, Goto, GotoWith
<1>2. PICK l, a : l \in {"kernel", "eintr", "eventagain"} /\ GotoWith(p, l, a)
  BY <1>1
<1>3. l \in Label /\ l \notin {"asleep", "sleepqueue", "sleepagain", "semaagain"}
  BY <1>2 DEF Label
<1>4. held' = [held EXCEPT ![p] = held[p]]
  BY <1>1 DEF IInv, Types, OwnTypes
<1>5. /\ OwnInv'
      /\ \A x : Waiters(x)' = Waiters(x)
      /\ \A x : x \in held[p] => Owners(x)' = Owners(x) \cup {p}
      /\ \A x : x \notin held[p] => Owners(x)' = Owners(x) \ {p}
  BY <1>1, <1>2, <1>3, <1>4, RunningMoves
<1>6. \A x \in Res : p \in Owners(x) <=> x \in held[p]
  BY EventsApart DEF Owners, Granted
<1>7. ASSUME NEW x \in Res PROVE Owners(x)' = Owners(x)
  <2>1. CASE x \in held[p]
    <3>1. Owners(x)' = Owners(x) \cup {p}
      BY <1>5, <2>1
    <3>2. p \in Owners(x)
      BY <1>6, <2>1
    <3> QED BY <3>1, <3>2
  <2>2. CASE x \notin held[p]
    <3>1. Owners(x)' = Owners(x) \ {p}
      BY <1>5, <2>2
    <3>2. p \notin Owners(x)
      BY <1>6, <2>2
    <3> QED BY <3>1, <3>2
  <2> QED BY <2>1, <2>2
<1>8. \A x : Out(x)' = Out(x)
  BY <1>1 DEF Out
<1> QED BY <1>1, <1>5, <1>7, <1>8 DEF Moves, Still

\* eventdone wakes processes that wait for no lock and no semaphore.
LEMMA EventDoneMoves ==
    ASSUME IInv, OwnInv, NEW e \in Event, EventDone(e), UNCHANGED <<held, passed>>
    PROVE  OwnInv' /\ Moves
<1>1. e \in Obj /\ e \notin Res /\ e # NOVOID
  BY EventsApart, SyncAssumption
<1>2. UNCHANGED <<pc, arg>> /\ val' = [val EXCEPT ![e] = BUSY]
  BY DEF EventDone, ctlVars
<1>3. /\ UNCHANGED u_sigwake
      /\ \A q \in Proc : \/ u_sema'[q] = u_sema[q]
                         \/ u_sema[q] = e /\ u_sema'[q] = NOVOID
  <2>1. CASE UNCHANGED sleepVars
    BY <2>1 DEF sleepVars
  <2>2. CASE WakeAll(e)
    BY <1>1, <2>2, WakeAllHolds, IInvTypeOK DEF IInv, Places
  <2> QED BY <2>1, <2>2 DEF EventDone
<1>4. ASSUME NEW q \in Proc
      PROVE  /\ \A x \in Res : q \in Owners(x)' <=> q \in Owners(x)
             /\ \A x \in Res : q \in Waiters(x)' <=> q \in Waiters(x)
             /\ Own(q)'
  <2>1. CASE u_sema'[q] = u_sema[q]
    BY <1>2, <1>3, <2>1, SameStays DEF Same, OwnInv
  <2>2. CASE u_sema[q] = e /\ u_sema'[q] = NOVOID
    <3>1. arg[q] = e /\ pc[q] = "asleep" /\ ~u_sigwake[q]
      BY <1>1, <2>2 DEF IInv, Places, SleepExact, OwnInv, Own
    <3>2. \A x \in Res : q \in Owners(x)' <=> q \in Owners(x)
      BY <1>1, <1>2, <3>1 DEF Owners, Granted
    <3>3. \A x \in Res : x # NOVOID /\ x # e
      BY <1>1, CapFacts, SyncAssumption
    <3>4. \A x \in Res : q \in Waiters(x)' <=> q \in Waiters(x)
      BY <2>2, <3>3 DEF Waiters
    <3>5. Own(q)'
      BY <1>1, <1>2, <1>3, <3>1 DEF Own
    <3> QED BY <3>2, <3>4, <3>5
  <2> QED BY <1>3, <2>1, <2>2
<1>5. ASSUME NEW x \in Res PROVE Owners(x)' = Owners(x) /\ Waiters(x)' = Waiters(x)
  <2>1. \A q \in Proc : /\ q \in Owners(x)' <=> q \in Owners(x)
                        /\ q \in Waiters(x)' <=> q \in Waiters(x)
    BY <1>4
  <2>2. /\ Owners(x) \subseteq Proc /\ Owners(x)' \subseteq Proc
        /\ Waiters(x) \subseteq Proc /\ Waiters(x)' \subseteq Proc
    BY DEF Owners, Waiters
  <2>3. Owners(x)' = Owners(x)
    BY <2>1, <2>2
  <2>4. Waiters(x)' = Waiters(x)
    BY <2>1, <2>2
  <2> QED BY <2>3, <2>4
<1>6. (\A x : Out(x)' = Out(x)) /\ \A x \in Res : val'[x] = val[x]
  BY <1>1, <1>2, CapFacts DEF Out, IInv, Types, ByteTypes
<1> QED BY <1>4, <1>5, <1>6 DEF OwnInv, Moves, Still

\* Every step of event.c by a process.
LEMMA EventStepMoves ==
    ASSUME IInv, OwnInv, NEW p \in Proc, EventStep(p)
    PROVE  OwnInv' /\ Moves
<1>1. UNCHANGED <<held, passed>>
  BY DEF EventStep
<1>2. ASSUME NEW e \in Event, eventwait(p, e) PROVE OwnInv' /\ Moves
  BY <1>1, <1>2, TryEventMoves DEF eventwait, At
<1>3. ASSUME NEW e \in Event, eventdone(p, e) PROVE OwnInv' /\ Moves
  BY <1>1, <1>3, EventDoneMoves DEF eventdone
<1>4. ASSUME NEW e \in Event, eventclear(p, e) PROVE OwnInv' /\ Moves
  <2>1. \A q \in Proc : Same(q)
    BY <1>1, <1>4 DEF eventclear, EventClear, sleepVars, ctlVars, Same
  <2>2. OwnInv' /\ \A o : Owners(o)' = Owners(o) /\ Waiters(o)' = Waiters(o)
    BY <2>1, AllSame
  <2>3. val' = [val EXCEPT ![e] = 0] /\ e \notin Res
    BY <1>4, EventsApart DEF eventclear, EventClear
  <2>4. (\A x : Out(x)' = Out(x)) /\ \A x \in Res : val'[x] = val[x]
    BY <1>1, <2>3, CapFacts DEF Out, IInv, Types, ByteTypes
  <2> QED BY <2>2, <2>4 DEF Moves, Still
<1>5. CASE arg[p] \in Event /\ EventWaitAgain(p)
  BY <1>1, <1>5, TryEventMoves DEF EventWaitAgain, At
<1>6. CASE arg[p] \in Event /\ EventWaitQueue(p)
  BY <1>1, <1>6, EventWaitQueueMoves
<1>7. CASE arg[p] \in Event /\ EventWaitAwake(p)
  BY <1>1, <1>7, EventWaitAwakeMoves
<1> QED BY <1>2, <1>3, <1>4, <1>5, <1>6, <1>7 DEF EventStep
-----------------------------------------------------------------------------
(* Signals *)

\* The second half of sigproc, by an interrupt routine or by a process k in kill (): the
\* victim p stops waiting and owns nothing more.
LEMMA SignalWakeMoves ==
    ASSUME IInv, OwnInv, NEW p \in Proc, NEW b \in Bucket, NEW pri, SignalWake(p, b, pri),
           u_sema[p] # NOVOID => PHASH[u_sema[p]] = b, UNCHANGED <<held, passed>>,
           \A q \in Proc : \/ pc'[q] = pc[q] /\ arg'[q] = arg[q]
                           \/ /\ q # p /\ pc[q] # "asleep"
                              /\ pc'[q] \notin {"asleep", "sleepqueue", "sleepagain", "semaagain"}
    PROVE  OwnInv' /\ Moves
<1> DEFINE woken == IF u_sema[p] # NOVOID /\ pri < PLIMIT THEN {p} ELSE {}
           e == u_sema[p]
<1>1. /\ \A q \in Proc : u_sema'[q] = IF q \in woken THEN NOVOID ELSE u_sema[q]
      /\ \A q \in Proc : u_sigwake'[q] = IF q \in woken THEN TRUE ELSE u_sigwake[q]
      /\ woken = {} => UNCHANGED val
      /\ woken # {} => woken = {p} /\ e \in Obj /\ val' = [val EXCEPT ![e] = syncundo(e)]
  <2>1. CASE u_sema[p] # NOVOID /\ pri < PLIMIT
    <3>1. syncwakeup(p, b)
      BY <2>1 DEF SignalWake
    <3>2. u_sema' = [u_sema EXCEPT ![p] = NOVOID] /\ u_sigwake' = [u_sigwake EXCEPT ![p] = TRUE]
          /\ val' = [val EXCEPT ![e] = syncundo(e)]
      BY <3>1 DEF syncwakeup
    <3> QED BY <2>1, <3>2 DEF IInv, Types, ProcTypes
  <2>2. CASE ~(u_sema[p] # NOVOID /\ pri < PLIMIT)
    BY <2>2 DEF SignalWake, sleepVars
  <2> QED BY <2>1, <2>2
<1>2. p \in woken => pc[p] = "asleep" /\ arg[p] = e /\ e # NOVOID /\ pc'[p] = pc[p] /\ arg'[p] = arg[p]
  BY DEF IInv, Places, SleepExact
<1> HIDE DEF woken
<1>3. woken = {} \/ woken = {p}
  BY DEF woken
<1>4. ASSUME NEW q \in Proc
      PROVE  /\ \A x : q \in Owners(x)' <=> q \in Owners(x)
             /\ \A x \in Res : q \in Waiters(x)' <=> q \in Waiters(x) /\ q \notin woken
             /\ Own(q)'
  <2>0. Own(q) /\ held'[q] = held[q]
    BY DEF OwnInv
  <2>1. CASE q \in woken
    <3>1. /\ q = p /\ u_sema[q] # NOVOID /\ u_sema'[q] = NOVOID /\ u_sigwake'[q]
          /\ pc'[q] = pc[q] /\ arg'[q] = arg[q] /\ pc[q] = "asleep"
      BY <1>1, <1>2, <1>3, <2>1
    <3>2. \A x : q \in Owners(x)' <=> q \in Owners(x)
      BY <2>0, <3>1 DEF Owners, Granted
    <3>3. \A x \in Res : x # NOVOID
      BY CapFacts, SyncAssumption
    <3>4. \A x \in Res : q \notin Waiters(x)'
      BY <3>1, <3>3 DEF Waiters
    <3>5. Own(q)'
      BY <2>0, <3>1 DEF Own
    <3> QED BY <2>1, <3>2, <3>4, <3>5
  <2>2. CASE q \notin woken /\ pc'[q] = pc[q] /\ arg'[q] = arg[q]
    <3>1. Same(q)
      BY <1>1, <2>0, <2>2 DEF Same
    <3> QED BY <2>0, <2>2, <3>1, SameStays
  <2>3. CASE /\ q \notin woken /\ pc[q] # "asleep"
             /\ pc'[q] \notin {"asleep", "sleepqueue", "sleepagain", "semaagain"}
    <3>1. u_sema'[q] = u_sema[q] /\ u_sigwake'[q] = u_sigwake[q] /\ ~u_sigwake[q]
      BY <1>1, <2>0, <2>3 DEF Own
    <3>2. \A x : q \in Owners(x)' <=> q \in Owners(x)
      BY <2>0, <2>3 DEF Owners, Granted
    <3>3. \A x : q \in Waiters(x)' <=> q \in Waiters(x)
      BY <3>1 DEF Waiters
    <3>4. Own(q)'
      BY <2>3, <3>1 DEF Own
    <3> QED BY <2>3, <3>2, <3>3, <3>4
  <2> QED BY <1>2, <2>1, <2>2, <2>3
<1>5. ASSUME NEW x \in Res PROVE Owners(x)' = Owners(x) /\ Waiters(x)' = Waiters(x) \ woken
  <2>1. \A q \in Proc : /\ q \in Owners(x)' <=> q \in Owners(x)
                        /\ q \in Waiters(x)' <=> q \in Waiters(x) \ woken
    BY <1>4
  <2>2. /\ Owners(x) \subseteq Proc /\ Owners(x)' \subseteq Proc
        /\ Waiters(x) \subseteq Proc /\ Waiters(x)' \subseteq Proc
    BY DEF Owners, Waiters
  <2>3. Owners(x)' = Owners(x)
    BY <2>1, <2>2
  <2>4. Waiters(x)' = Waiters(x) \ woken
    BY <2>1, <2>2
  <2> QED BY <2>3, <2>4
<1>6. \A x : Out(x)' = Out(x)
  BY DEF Out
<1>7. \A x \in Res : x # e \/ woken = {} => Waiters(x)' = Waiters(x) /\ val'[x] = val[x]
  <2>1. ASSUME NEW x \in Res, woken = {} PROVE Waiters(x)' = Waiters(x) /\ val'[x] = val[x]
    BY <1>1, <1>5, <2>1
  <2>2. ASSUME NEW x \in Res, x # e, woken # {} PROVE Waiters(x)' = Waiters(x) /\ val'[x] = val[x]
    <3>1. p \notin Waiters(x)
      BY <2>2 DEF Waiters
    <3>2. Waiters(x)' = Waiters(x) \ {p}
      BY <1>3, <1>5, <2>2
    <3>3. val'[x] = val[x]
      BY <1>1, <2>2, CapFacts DEF IInv, Types, ByteTypes
    <3>4. Waiters(x)' = Waiters(x)
      BY <3>1, <3>2
    <3> QED BY <3>3, <3>4
  <2> QED BY <2>1, <2>2
<1>8. CASE woken = {} \/ e \notin Res
  <2>1. \A x \in Res : Still(x)
    BY <1>5, <1>6, <1>7, <1>8 DEF Still
  <2> QED BY <1>4, <2>1 DEF OwnInv, Moves
<1>9. ASSUME woken # {}, NEW r \in Res, r = e
      PROVE  OwnInv' /\ Moves
  <2>1. p \in Waiters(r) /\ Waiters(r)' = Waiters(r) \ {p}
    BY <1>3, <1>5, <1>9 DEF Waiters
  <2>2. val'[r] = IF r \in Sema THEN val[r] + 1 ELSE (val[r] - 1) % BYTE
    BY <1>1, <1>9 DEF syncundo, IInv, Types, ByteTypes
  <2>3. GiveUpMove(r)
    BY <1>5, <1>6, <2>1, <2>2 DEF GiveUpMove
  <2>4. \A x \in Res \ {r} : Still(x)
    BY <1>5, <1>6, <1>7, <1>9 DEF Still
  <2> QED BY <1>4, <2>3, <2>4 DEF OwnInv, Moves, Move
<1> QED BY <1>8, <1>9

\* A signal sent by an interrupt routine.
LEMMA SignalFromInterruptMoves ==
    ASSUME IInv, OwnInv, NEW p \in Proc, NEW s \in Signals, SignalFromInterrupt(p, s),
           UNCHANGED <<held, passed>>
    PROVE  OwnInv' /\ Moves
<1>1. PHASH[u_sema[p]] \in Bucket
  BY SyncAssumption DEF IInv, Types, ProcTypes
<1>2. UNCHANGED <<pc, arg>> /\ SignalWake(p, PHASH[u_sema[p]], u_pri'[p])
  BY DEF SignalFromInterrupt, ctlVars
<1> QED BY <1>1, <1>2, SignalWakeMoves

\* kill () by a process.
LEMMA KillStepMoves ==
    ASSUME IInv, OwnInv, NEW k \in Proc, KillStep(k)
    PROVE  OwnInv' /\ Moves
<1>1. UNCHANGED <<held, passed>>
  BY DEF KillStep
<1>2. ASSUME NEW p \in Proc, NEW s \in Signals, KillMark(k, p, s) PROVE OwnInv' /\ Moves
  <2>1. /\ Running(k) /\ pc[k] # "asleep" /\ ~u_sigwake[k]
        /\ pc' = [pc EXCEPT ![k] = "kill"] /\ arg' = [arg EXCEPT ![k] = p]
        /\ UNCHANGED <<u_sema, u_sigwake, val, held, passed>>
    BY <1>1, <1>2 DEF KillMark, At, sleepVars, OwnInv, Own
  <2>2. \A q \in Proc : q # k => Same(q)
    BY <2>1 DEF Same, IInv, Types, CtlTypes
  <2>3. pc'[k] = "kill"
    BY <2>1 DEF IInv, Types, CtlTypes
  <2>4. \A x : k \in Owners(x)' <=> k \in Owners(x)
    BY <2>1, <2>3 DEF Owners, Granted
  <2>5. Own(k)'
    BY <2>1, <2>3 DEF Own
  <2>6. \A q \in Proc : q # k => (\A x : q \in Owners(x)' <=> q \in Owners(x)) /\ Own(q)'
    BY <2>2, SameStays DEF OwnInv
  <2>7. ASSUME NEW x PROVE Owners(x)' = Owners(x)
    <3>1. \A q \in Proc : q \in Owners(x)' <=> q \in Owners(x)
      BY <2>4, <2>6
    <3>2. Owners(x) \subseteq Proc /\ Owners(x)' \subseteq Proc
      BY DEF Owners
    <3> QED BY <3>1, <3>2
  <2>8. \A x : Waiters(x)' = Waiters(x) /\ Out(x)' = Out(x)
    BY <2>1 DEF Waiters, Out
  <2> QED BY <2>1, <2>5, <2>6, <2>7, <2>8 DEF OwnInv, Moves, Still
<1>3. CASE KillWake(k)
  <2>1. /\ pc[k] = "kill" /\ SignalWake(arg[k], hp[k], u_pri[arg[k]])
        /\ pc' = [pc EXCEPT ![k] = "kernel"] /\ arg' = [arg EXCEPT ![k] = NOVOID]
    BY <1>3 DEF KillWake, At
  <2>2. /\ arg[k] \in Proc \ {k} /\ hp[k] \in Bucket
        /\ u_sema[arg[k]] # NOVOID => PHASH[u_sema[arg[k]]] = hp[k]
    BY <2>1 DEF IInv, Places, KillExact, Types, CtlTypes
  <2>3. \A q \in Proc : \/ pc'[q] = pc[q] /\ arg'[q] = arg[q]
                        \/ /\ q # arg[k] /\ pc[q] # "asleep"
                           /\ pc'[q] \notin {"asleep", "sleepqueue", "sleepagain", "semaagain"}
    BY <2>1, <2>2 DEF IInv, Types, CtlTypes
  <2> QED BY <1>1, <2>1, <2>2, <2>3, SignalWakeMoves
<1> QED BY <1>2, <1>3 DEF KillStep

-----------------------------------------------------------------------------
(* The switch of context, the clock, entry and exit *)

\* Nobody's place and no object changes.
LEMMA OthersStill ==
    ASSUME OwnInv, UNCHANGED <<pc, arg, held, passed, u_sema, u_sigwake, val>>
    PROVE  OwnInv' /\ Moves
<1>1. \A q \in Proc : Same(q)
  BY DEF Same
<1>2. OwnInv' /\ \A o : Owners(o)' = Owners(o) /\ Waiters(o)' = Waiters(o)
  BY <1>1, AllSame
<1>3. \A x : Out(x)' = Out(x)
  BY DEF Out
<1> QED BY <1>2, <1>3 DEF Moves, Still

\* Entering and leaving the kernel.
LEMMA UserStepMoves ==
    ASSUME IInv, OwnInv, NEW p \in Proc, UserStep(p)
    PROVE  OwnInv' /\ Moves
<1>1. /\ Running(p) /\ pc[p] # "asleep" /\ ~u_sigwake[p]
      /\ GotoWith(p, "kernel", NOVOID) \/ GotoWith(p, "user", NOVOID)
      /\ UNCHANGED <<held, passed, u_sema, u_sigwake, val>>
  BY DEF UserStep, EnterKernel, LeaveKernel, At, Goto, GotoWith, sleepVars, OwnInv, Own
<1>2. \A l \in {"kernel", "user"} :
         l \in Label /\ l \notin {"asleep", "sleepqueue", "sleepagain", "semaagain"}
  BY DEF Label
<1>3. CASE GotoWith(p, "kernel", NOVOID)
  BY <1>1, <1>2, <1>3, RunningStill
<1>4. CASE GotoWith(p, "user", NOVOID)
  BY <1>1, <1>2, <1>4, RunningStill
<1> QED BY <1>1, <1>3, <1>4

-----------------------------------------------------------------------------
(* The theorems *)

\* In every step of the kernel at most one object changes hands, as one of the moves.
LEMMA NextMoves ==
    ASSUME FewProcesses, HInv, [Next]_vars
    PROVE  OwnInv' /\ Moves
<1>1. IInv /\ OwnInv
  BY DEF HInv
<1>2. CASE UNCHANGED vars
  BY <1>1, <1>2, OthersStill DEF vars
<1>3. CASE InterruptStep
  <2>1. ASSUME NEW p \in Proc, NEW s \in Signals, SignalFromInterrupt(p, s), UNCHANGED <<held, passed>>
        PROVE  OwnInv' /\ Moves
    BY <1>1, <2>1, SignalFromInterruptMoves
  <2>2. ASSUME NEW o \in Sema, SemaFreeFromInterrupt(o) PROVE OwnInv' /\ Moves
    BY <2>2, SemaFreeFromInterruptMoves
  <2>3. ASSUME NEW e \in Event, EventDone(e), UNCHANGED <<held, passed>> PROVE OwnInv' /\ Moves
    BY <1>1, <2>3, EventDoneMoves
  <2>4. CASE TimeSlice /\ UNCHANGED <<held, passed>>
    BY <1>1, <2>4, OthersStill DEF TimeSlice, sleepVars, ctlVars
  <2> QED BY <1>3, <2>1, <2>2, <2>3, <2>4 DEF InterruptStep
<1>4. ASSUME NEW p \in Proc, ProcessStep(p) PROVE OwnInv' /\ Moves
  BY <1>1, <1>4, LockStepMoves, SemaStepMoves, EventStepMoves, KillStepMoves, UserStepMoves
     DEF ProcessStep
<1>5. ASSUME NEW p \in Proc, SwitchStep(p) PROVE OwnInv' /\ Moves
  <2>1. UNCHANGED <<pc, arg, held, passed, u_sema, u_sigwake, val>>
    BY <1>5 DEF SwitchStep, DispatchTo, DispatchIdle, LeaveIdle, Preempt, sleepVars, ctlVars
  <2> QED BY <1>1, <2>1, OthersStill
<1> QED BY <1>2, <1>3, <1>4, <1>5 DEF Next

\* When the kernel starts nobody owns and nobody waits.
LEMMA InitHInv == Init => HInv
<1> SUFFICES ASSUME Init PROVE HInv
  OBVIOUS
<1>1. IInv
  BY InitIInv
<1>2. OwnInv
  BY DEF Init, BaseInit, OwnInv, Own
<1>3. ASSUME NEW o \in Res PROVE Agree(o, Owners(o), Waiters(o), Out(o), val[o])
  <2>1. Owners(o) = {} /\ Waiters(o) = {} /\ Out(o) = 0
    BY CapFacts, SyncAssumption DEF Init, BaseInit, Owners, Granted, Waiters, Out
  <2>2. Cardinality({}) = 0
    BY FS_EmptySet
  <2>3. val[o] = IF o \in Sema THEN SemaCount[o] ELSE 0
    BY CapFacts DEF Init
  <2>4. Cap(o) \in Nat /\ Cap(o) > 0 /\ (o \in Sema => SemaCount[o] \in Nat)
    BY CapFacts, SemaAssumption
  <2> QED BY <2>1, <2>2, <2>3, <2>4 DEF Agree, Word
<1> QED BY <1>1, <1>2, <1>3 DEF HInv, AgreeAll

\* Owners, waiters and the memory of every lock and semaphore agree at all times.
THEOREM HInvAlways == ASSUME NoKillRace, FewProcesses PROVE Spec => []HInv
<1>1. HInv /\ [Next]_vars => HInv'
  BY NextKeeps, NextMoves, MovesAgree DEF HInv
<1> QED BY <1>1, InitHInv, PTL DEF Spec

\* sleep.c: a lock has one owner, counting the one it was handed to in its sleep.
THEOREM LocksExclude == ASSUME NoKillRace, FewProcesses PROVE Spec => []LockExclusion
<1>1. HInv => LockExclusion
  <2> SUFFICES ASSUME HInv, NEW o \in Lock, NEW p \in Owners(o), NEW q \in Owners(o), p # q
               PROVE  FALSE
    BY DEF LockExclusion
  <2>1. o \in Res /\ Agree(o, Owners(o), Waiters(o), Out(o), val[o]) /\ Cap(o) = 1
    BY CapFacts DEF HInv, AgreeAll, Res
  <2>2. Owners(o) \subseteq Proc /\ p \in Proc /\ q \in Proc
    BY DEF Owners
  <2>3. Cardinality(Owners(o)) <= 1 /\ Cardinality(Owners(o)) \in Nat
    <3>1. Cardinality(Owners(o)) \in Nat
      BY <2>2, SetCounts
    <3>2. Out(o) = 0 /\ Cardinality(Owners(o)) + Out(o) <= 1
      BY <2>1 DEF Agree
    <3> QED BY <3>1, <3>2
  <2>4. /\ Cardinality(Owners(o) \ {p}) = Cardinality(Owners(o)) - 1
        /\ Owners(o) \ {p} \subseteq Proc /\ q \in Owners(o) \ {p}
    BY <2>2, SetCounts
  <2>5. Cardinality(Owners(o) \ {p}) \in Nat /\ Cardinality(Owners(o) \ {p}) # 0
    BY <2>2, <2>4, SetCounts
  <2> QED BY <2>3, <2>4, <2>5
<1> QED BY <1>1, HInvAlways, PTL

\* sleep.c: the byte of a lock says whether it is owned and how many wait.
THEOREM LockBytesCorrect == ASSUME NoKillRace, FewProcesses PROVE Spec => []LockByteExact
<1>1. HInv => LockByteExact
  <2> SUFFICES ASSUME HInv, NEW o \in Lock
               PROVE  IF Owners(o) = {} THEN val[o] = 0 /\ Waiters(o) = {}
                      ELSE val[o] = BUSY + Cardinality(Waiters(o))
    BY DEF LockByteExact
  <2>1. o \in Res /\ Agree(o, Owners(o), Waiters(o), Out(o), val[o])
    BY DEF HInv, AgreeAll, Res
  <2> QED BY <2>1, WordSays
<1> QED BY <1>1, HInvAlways, PTL

\* sema.c: the count of a semaphore is what is free less what is waited for.
THEOREM SemaCountsCorrect == ASSUME NoKillRace, FewProcesses PROVE Spec => []SemaCountExact
<1>1. HInv => SemaCountExact
  <2> SUFFICES ASSUME HInv, NEW o \in Sema
               PROVE  LET used == Cardinality(Owners(o)) + passed[o] IN
                      /\ used <= SemaCount[o]
                      /\ val[o] = SemaCount[o] - used - Cardinality(Waiters(o))
                      /\ Waiters(o) # {} => used = SemaCount[o]
    BY DEF SemaCountExact
  <2>1. o \in Res /\ Agree(o, Owners(o), Waiters(o), Out(o), val[o]) /\ Out(o) = passed[o]
    BY DEF HInv, AgreeAll, Res, Out
  <2>2. Cap(o) = SemaCount[o]
    BY DEF Cap
  <2> QED BY <2>1, <2>2 DEF Agree, Word
<1> QED BY <1>1, HInvAlways, PTL
-----------------------------------------------------------------------------
(* The implementation of Handoff *)

AllOwners == [o \in Lock \cup Sema |-> Owners(o)]
AllWaiters == [o \in Lock \cup Sema |-> Waiters(o)]
AllOut == [o \in Lock \cup Sema |-> IF o \in Sema THEN passed[o] ELSE 0]
Capacities == [o \in Lock \cup Sema |-> IF o \in Sema THEN SemaCount[o] ELSE 1]

\* The functions of Handoff at one object.
LEMMA AtObject ==
    ASSUME NEW r \in Res
    PROVE  /\ AllOwners[r] = Owners(r) /\ AllWaiters[r] = Waiters(r) /\ AllOut[r] = Out(r)
           /\ Capacities[r] = Cap(r) /\ r \in Lock \cup Sema
BY DEF AllOwners, AllWaiters, AllOut, Capacities, Cap, Out, Res

\* One object changes and the others do not.
LEMMA OneObject ==
    ASSUME NEW r \in Res, \A x \in Res \ {r} : Still(x)
    PROVE  /\ AllOwners' = [AllOwners EXCEPT ![r] = Owners(r)']
           /\ AllWaiters' = [AllWaiters EXCEPT ![r] = Waiters(r)']
           /\ AllOut' = [AllOut EXCEPT ![r] = Out(r)']
<1>1. /\ AllOwners' = [o \in Res |-> Owners(o)'] /\ AllOwners = [o \in Res |-> Owners(o)]
      /\ AllWaiters' = [o \in Res |-> Waiters(o)'] /\ AllWaiters = [o \in Res |-> Waiters(o)]
      /\ AllOut' = [o \in Res |-> Out(o)'] /\ AllOut = [o \in Res |-> Out(o)]
  BY DEF AllOwners, AllWaiters, AllOut, Out, Res
<1>2. \A x \in Res : x # r => /\ Owners(x)' = Owners(x) /\ Waiters(x)' = Waiters(x)
                              /\ Out(x)' = Out(x)
  BY DEF Still
<1>3. AllOwners' = [AllOwners EXCEPT ![r] = Owners(r)']
  BY <1>1, <1>2
<1>4. AllWaiters' = [AllWaiters EXCEPT ![r] = Waiters(r)']
  BY <1>1, <1>2
<1>5. AllOut' = [AllOut EXCEPT ![r] = Out(r)']
  BY <1>1, <1>2
<1> QED BY <1>3, <1>4, <1>5

\* The steps of Handoff, of the owners, the waiters and the units on their way back.
LEMMA HandoffSteps ==
    ASSUME NEW r \in Lock \cup Sema
    PROVE  /\ \A p \in Proc :
                /\ p \notin AllOwners[r] /\ AllWaiters[r] = {}
                /\ Cardinality(AllOwners[r]) + AllOut[r] < Capacities[r]
                /\ AllOwners' = [AllOwners EXCEPT ![r] = @ \cup {p}]
                /\ AllWaiters' = AllWaiters /\ AllOut' = AllOut
                => H!Next
           /\ \A p \in Proc :
                /\ p \notin AllOwners[r] /\ p \notin AllWaiters[r]
                /\ Cardinality(AllOwners[r]) + AllOut[r] = Capacities[r]
                /\ AllWaiters' = [AllWaiters EXCEPT ![r] = @ \cup {p}]
                /\ AllOwners' = AllOwners /\ AllOut' = AllOut
                => H!Next
           /\ \A p \in Proc :
                /\ p \in AllWaiters[r]
                /\ AllWaiters' = [AllWaiters EXCEPT ![r] = @ \ {p}]
                /\ AllOwners' = AllOwners /\ AllOut' = AllOut
                => H!Next
           /\ \A p \in Proc :
                /\ p \in AllOwners[r] /\ AllWaiters[r] = {}
                /\ AllOwners' = [AllOwners EXCEPT ![r] = @ \ {p}]
                /\ AllWaiters' = AllWaiters /\ AllOut' = AllOut
                => H!Next
           /\ \A p \in Proc : \A q \in AllWaiters[r] :
                /\ p \in AllOwners[r]
                /\ AllOwners' = [AllOwners EXCEPT ![r] = (@ \ {p}) \cup {q}]
                /\ AllWaiters' = [AllWaiters EXCEPT ![r] = @ \ {q}]
                /\ AllOut' = AllOut
                => H!Next
           /\ \A p \in Proc :
                /\ p \in AllOwners[r]
                /\ AllOwners' = [AllOwners EXCEPT ![r] = @ \ {p}]
                /\ AllOut' = [AllOut EXCEPT ![r] = @ + 1]
                /\ AllWaiters' = AllWaiters
                => H!Next
           /\ /\ AllOut[r] > 0 /\ AllWaiters[r] = {}
              /\ AllOut' = [AllOut EXCEPT ![r] = @ - 1]
              /\ AllOwners' = AllOwners /\ AllWaiters' = AllWaiters
              => H!Next
           /\ \A q \in AllWaiters[r] :
                /\ AllOut[r] > 0
                /\ AllOut' = [AllOut EXCEPT ![r] = @ - 1]
                /\ AllOwners' = [AllOwners EXCEPT ![r] = @ \cup {q}]
                /\ AllWaiters' = [AllWaiters EXCEPT ![r] = @ \ {q}]
                => H!Next
<1>1. \A S : H!Cardinality(S) = Cardinality(S)
  BY DEF H!Cardinality, Cardinality, H!IsFiniteSet, IsFiniteSet
<1>2. H!Used(r) = Cardinality(AllOwners[r]) + AllOut[r]
  BY <1>1 DEF H!Used, AllOwners, AllOut
<1>3. ASSUME NEW p \in Proc,
                       /\ p \notin AllOwners[r] /\ AllWaiters[r] = {}
                       /\ H!Used(r) < Capacities[r]
                       /\ AllOwners' = [AllOwners EXCEPT ![r] = @ \cup {p}]
                       /\ AllWaiters' = AllWaiters /\ AllOut' = AllOut
      PROVE  H!Take(p, r)
  BY <1>3 DEF H!Take, AllOwners, AllWaiters, AllOut, Capacities
<1>4. ASSUME NEW p \in Proc,
                       /\ p \notin AllOwners[r] /\ p \notin AllWaiters[r]
                       /\ H!Used(r) = Capacities[r]
                       /\ AllWaiters' = [AllWaiters EXCEPT ![r] = @ \cup {p}]
                       /\ AllOwners' = AllOwners /\ AllOut' = AllOut
      PROVE  H!Wait(p, r)
  BY <1>4 DEF H!Wait, AllOwners, AllWaiters, AllOut, Capacities
<1>5. ASSUME NEW p \in Proc,
                       /\ p \in AllWaiters[r]
                       /\ AllWaiters' = [AllWaiters EXCEPT ![r] = @ \ {p}]
                       /\ AllOwners' = AllOwners /\ AllOut' = AllOut
      PROVE  H!GiveUp(p, r)
  BY <1>5 DEF H!GiveUp, AllOwners, AllWaiters, AllOut, Capacities
<1>6. ASSUME NEW p \in Proc,
                       /\ p \in AllOwners[r] /\ AllOut' = AllOut
                       /\ \/ /\ AllWaiters[r] = {} /\ AllWaiters' = AllWaiters
                             /\ AllOwners' = [AllOwners EXCEPT ![r] = @ \ {p}]
                          \/ \E q \in AllWaiters[r] :
                                /\ AllOwners' = [AllOwners EXCEPT ![r] = (@ \ {p}) \cup {q}]
                                /\ AllWaiters' = [AllWaiters EXCEPT ![r] = @ \ {q}]
      PROVE  H!Free(p, r)
  BY <1>6 DEF H!Free, AllOwners, AllWaiters, AllOut, Capacities
<1>7. ASSUME NEW p \in Proc,
                       /\ p \in AllOwners[r]
                       /\ AllOwners' = [AllOwners EXCEPT ![r] = @ \ {p}]
                       /\ AllOut' = [AllOut EXCEPT ![r] = @ + 1]
                       /\ AllWaiters' = AllWaiters
      PROVE  H!Pass(p, r)
  BY <1>7 DEF H!Pass, AllOwners, AllWaiters, AllOut, Capacities
<1>8. ASSUME /\ AllOut[r] > 0
             /\ AllOut' = [AllOut EXCEPT ![r] = @ - 1]
             /\ \/ /\ AllWaiters[r] = {} /\ AllOwners' = AllOwners
                   /\ AllWaiters' = AllWaiters
                \/ \E q \in AllWaiters[r] :
                      /\ AllOwners' = [AllOwners EXCEPT ![r] = @ \cup {q}]
                      /\ AllWaiters' = [AllWaiters EXCEPT ![r] = @ \ {q}]
      PROVE  H!FreeOut(r)
  BY <1>8 DEF H!FreeOut, AllOwners, AllWaiters, AllOut
<1>9. /\ H!FreeOut(r) => H!Next
      /\ \A p \in Proc : \/ H!Take(p, r) \/ H!Wait(p, r) \/ H!GiveUp(p, r)
                          \/ H!Free(p, r) \/ H!Pass(p, r)
                          => H!Next
  BY DEF H!Next
<1> QED BY <1>2, <1>3, <1>4, <1>5, <1>6, <1>7, <1>8, <1>9

\* An object that keeps its owners keeps the function of Handoff.
LEMMA SameFunctions ==
    ASSUME NEW r \in Res
    PROVE  /\ [AllOwners EXCEPT ![r] = Owners(r)] = AllOwners
           /\ [AllWaiters EXCEPT ![r] = Waiters(r)] = AllWaiters
           /\ [AllOut EXCEPT ![r] = Out(r)] = AllOut
<1>1. /\ AllOwners = [o \in Res |-> Owners(o)]
      /\ AllWaiters = [o \in Res |-> Waiters(o)]
      /\ AllOut = [o \in Res |-> Out(o)]
  BY DEF AllOwners, AllWaiters, AllOut, Out, Res
<1> QED BY <1>1

\* Every step of the kernel is a step of Handoff, or leaves owners and waiters alone.
LEMMA MovesHandOff ==
    ASSUME FewProcesses, HInv, Moves
    PROVE  H!Next \/ UNCHANGED <<AllOwners, AllWaiters, AllOut>>
<1>1. CASE \A o \in Res : Still(o)
  <2>1. /\ AllOwners' = [o \in Res |-> Owners(o)'] /\ AllOwners = [o \in Res |-> Owners(o)]
        /\ AllWaiters' = [o \in Res |-> Waiters(o)'] /\ AllWaiters = [o \in Res |-> Waiters(o)]
        /\ AllOut' = [o \in Res |-> Out(o)'] /\ AllOut = [o \in Res |-> Out(o)]
    BY DEF AllOwners, AllWaiters, AllOut, Out, Res
  <2> QED BY <1>1, <2>1 DEF Still
<1>2. ASSUME NEW r \in Res, Move(r), \A x \in Res \ {r} : Still(x)
      PROVE  H!Next
  <2>1. /\ AllOwners[r] = Owners(r) /\ AllWaiters[r] = Waiters(r) /\ AllOut[r] = Out(r)
        /\ Capacities[r] = Cap(r) /\ r \in Lock \cup Sema
    BY AtObject
  <2>2. /\ AllOwners' = [AllOwners EXCEPT ![r] = Owners(r)']
        /\ AllWaiters' = [AllWaiters EXCEPT ![r] = Waiters(r)']
        /\ AllOut' = [AllOut EXCEPT ![r] = Out(r)']
    BY <1>2, OneObject
  <2>3. /\ Owners(r)' = Owners(r) => UNCHANGED AllOwners
        /\ Waiters(r)' = Waiters(r) => UNCHANGED AllWaiters
        /\ Out(r)' = Out(r) => UNCHANGED AllOut
    BY <2>2, SameFunctions
  <2>4. /\ Agree(r, Owners(r), Waiters(r), Out(r), val[r])
        /\ Owners(r) \subseteq Proc /\ Waiters(r) \subseteq Proc
    BY DEF HInv, AgreeAll, Owners, Waiters
  <2>5. CASE TakeMove(r)
    <3>1. PICK p \in Proc \ Owners(r) : Owners(r)' = Owners(r) \cup {p}
      BY <2>5 DEF TakeMove
    <3>2. Waiters(r) = {} /\ Cardinality(Owners(r)) + Out(r) < Cap(r)
      BY <2>4, <2>5, AgreeTake DEF TakeMove
    <3>3. UNCHANGED <<AllWaiters, AllOut>>
      BY <2>3, <2>5 DEF TakeMove
    <3> QED BY <2>1, <2>2, <3>1, <3>2, <3>3, HandoffSteps, ZenonT(60)
  <2>6. CASE WaitMove(r)
    <3>1. PICK p \in Proc \ (Owners(r) \cup Waiters(r)) : Waiters(r)' = Waiters(r) \cup {p}
      BY <2>6 DEF WaitMove
    <3>2. Cardinality(Owners(r)) + Out(r) = Cap(r)
      BY <2>4, <2>6, <3>1, AgreeWait DEF WaitMove
    <3>3. UNCHANGED <<AllOwners, AllOut>>
      BY <2>3, <2>6 DEF WaitMove
    <3>4. AllWaiters' = [AllWaiters EXCEPT ![r] = @ \cup {p}]
      BY <2>1, <2>2, <3>1
    <3>5. p \notin AllOwners[r] /\ p \notin AllWaiters[r]
      BY <2>1, <3>1
    <3> QED BY <2>1, <3>2, <3>3, <3>4, <3>5, HandoffSteps
  <2>7. CASE GiveUpMove(r)
    <3>1. PICK p \in Waiters(r) : Waiters(r)' = Waiters(r) \ {p}
      BY <2>7 DEF GiveUpMove
    <3>2. UNCHANGED <<AllOwners, AllOut>>
      BY <2>3, <2>7 DEF GiveUpMove
    <3>3. AllWaiters' = [AllWaiters EXCEPT ![r] = @ \ {p}]
      BY <2>1, <2>2, <3>1
    <3>4. p \in AllWaiters[r] /\ p \in Proc
      BY <2>1, <2>4, <3>1
    <3> QED BY <2>1, <3>2, <3>3, <3>4, HandoffSteps
  <2>8. CASE FreeMove(r)
    <3>1. PICK p \in Owners(r) : GoesTo(Owners(r) \ {p}, Waiters(r), Owners(r)', Waiters(r)')
      BY <2>8 DEF FreeMove
    <3>2. p \in Proc /\ AllOut' = AllOut
      BY <2>3, <2>4, <2>8 DEF FreeMove
    <3>3. CASE Waiters(r) = {} /\ Owners(r)' = Owners(r) \ {p} /\ Waiters(r)' = Waiters(r)
      <4>1. AllOwners' = [AllOwners EXCEPT ![r] = @ \ {p}]
        BY <2>1, <2>2, <3>3
      <4>2. p \in AllOwners[r] /\ AllWaiters[r] = {} /\ AllWaiters' = AllWaiters
        BY <2>1, <2>3, <3>1, <3>3
      <4> QED BY <2>1, <3>2, <4>1, <4>2, HandoffSteps
    <3>4. ASSUME NEW w \in Waiters(r), Owners(r)' = (Owners(r) \ {p}) \cup {w}, Waiters(r)' = Waiters(r) \ {w}
          PROVE  H!Next
      <4>1. AllOwners' = [AllOwners EXCEPT ![r] = (@ \ {p}) \cup {w}]
        BY <2>1, <2>2, <3>4
      <4>2. AllWaiters' = [AllWaiters EXCEPT ![r] = @ \ {w}]
        BY <2>1, <2>2, <3>4
      <4>3. p \in AllOwners[r] /\ w \in AllWaiters[r]
        BY <2>1, <3>1, <3>4
      <4> QED BY <2>1, <3>2, <4>1, <4>2, <4>3, HandoffSteps
    <3> QED BY <3>1, <3>3, <3>4 DEF GoesTo
  <2>9. CASE PassMove(r)
    <3>1. PICK p \in Owners(r) : Owners(r)' = Owners(r) \ {p}
      BY <2>9 DEF PassMove
    <3>2. UNCHANGED AllWaiters /\ Out(r)' = Out(r) + 1
      BY <2>3, <2>9 DEF PassMove
    <3> QED BY <2>1, <2>2, <2>4, <3>1, <3>2, HandoffSteps, ZenonT(60)
  <2>10. CASE FreeOutMove(r)
    <3>1. Out(r) > 0 /\ Out(r)' = Out(r) - 1 /\ GoesTo(Owners(r), Waiters(r), Owners(r)', Waiters(r)')
      BY <2>10 DEF FreeOutMove
    <3>2. CASE Waiters(r) = {} /\ Owners(r)' = Owners(r) /\ Waiters(r)' = Waiters(r)
      <4>1. AllOut' = [AllOut EXCEPT ![r] = @ - 1]
        BY <2>1, <2>2, <3>1
      <4>2. AllOut[r] > 0 /\ AllWaiters[r] = {} /\ AllWaiters' = AllWaiters /\ AllOwners' = AllOwners
        BY <2>1, <2>3, <3>1, <3>2
      <4> QED BY <2>1, <4>1, <4>2, HandoffSteps
    <3>3. ASSUME NEW w \in Waiters(r), Owners(r)' = Owners(r) \cup {w}, Waiters(r)' = Waiters(r) \ {w}
          PROVE  H!Next
      <4>1. AllOut' = [AllOut EXCEPT ![r] = @ - 1]
        BY <2>1, <2>2, <3>1
      <4>2. AllOwners' = [AllOwners EXCEPT ![r] = @ \cup {w}]
        BY <2>1, <2>2, <3>3
      <4>3. AllWaiters' = [AllWaiters EXCEPT ![r] = @ \ {w}]
        BY <2>1, <2>2, <3>3
      <4>4. AllOut[r] > 0 /\ w \in AllWaiters[r]
        BY <2>1, <3>1, <3>3
      <4> QED BY <2>1, <4>1, <4>2, <4>3, <4>4, HandoffSteps
    <3> QED BY <3>1, <3>2, <3>3 DEF GoesTo
  <2> QED BY <1>2, <2>5, <2>6, <2>7, <2>8, <2>9, <2>10 DEF Move
<1> QED BY <1>1, <1>2 DEF Moves

\* sleep.c, sema.c: locks and semaphores are handed over as Handoff says, whatever signals
\* and interrupts come in between.
THEOREM KernelImplementsHandoff == ASSUME NoKillRace, FewProcesses PROVE Spec => ImplementsHandoff
<1>1. Init => H!Init
  <2> SUFFICES ASSUME Init PROVE H!Init
    OBVIOUS
  <2>1. \A o \in Lock \cup Sema : Owners(o) = {} /\ Waiters(o) = {} /\ Out(o) = 0
    BY CapFacts, SyncAssumption DEF Init, BaseInit, Owners, Granted, Waiters, Out, Res
  <2> QED BY <2>1 DEF H!Init, Out
<1>2. HInv /\ [Next]_vars => [H!Next]_(H!vars)
  BY NextMoves, MovesHandOff DEF H!vars, AllOwners, AllWaiters, AllOut
<1> QED BY <1>1, <1>2, HInvAlways, PTL DEF Spec, ImplementsHandoff, H!Spec
=============================================================================
