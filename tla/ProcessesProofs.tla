-------------------------- MODULE ProcessesProofs ---------------------------
(***************************************************************************)
(* Theorems about Processes, for tables, pipes and calls of any size.      *)
(***************************************************************************)
EXTENDS Processes, QueueLemmas, FiniteSetTheorems

-----------------------------------------------------------------------------
(* The inductive invariant *)

\* Where a process that sleeps is, and for what.
Asleep(p) ==
    \/ u_sema[p] = NULL
    \/ u_sema[p] = i_notempty /\ pc[p] = "read"
    \/ u_sema[p] = i_notfull /\ pc[p] = "write"
    \/ u_sema[p] = u_deadchild(p) /\ pc[p] = "wait"

\* A process has a program counter while it runs, and a child in the making while it
\* is in newproc; INIT does not exit.
Places ==
    /\ u_state[initp] = "SRUN" /\ pc[initp] # "kexit"
    /\ \A p \in Proc : u_state[p] = "SRUN" <=> pc[p] # "none"
    /\ \A p \in Proc : newchild[p] # NULL <=> pc[p] = "newproc"
    /\ \A p \in Proc : u_parent[p] # p
    /\ \A p \in Born \ {initp} : u_parent[p] \in Proc
    /\ \A p \in Proc : newchild[p] # NULL => u_state[newchild[p]] = "SNULL" /\ u_parent[newchild[p]] = p

Sleeping == \A p \in Proc : Asleep(p)

\* A process in read or write has the end it uses; what was read was written.
Using ==
    /\ i_count > 0 => f_offset <= Len(area)
    /\ \A p \in Proc : pc[p] = "read" => "read" \in u_ofile[p]
    /\ \A p \in Proc : pc[p] = "write" => "write" \in u_ofile[p] /\ io_count[p] > 0

IInv ==
    /\ TypeOK /\ Places /\ Sleeping /\ Using
    /\ FamilyExact /\ EntriesExact /\ NoZombieForgotten /\ FileCountExact /\ NoLostWakeup

-----------------------------------------------------------------------------
(* Events and processes *)

\* The events are different, and none is NULL.
LEMMA EventsDiffer ==
    /\ i_notempty # i_notfull
    /\ \A p \in Proc : u_deadchild(p) # i_notempty /\ u_deadchild(p) # i_notfull
    /\ \A p, q \in Proc : u_deadchild(p) = u_deadchild(q) => p = q
    /\ \A e \in Event : e # NULL
    /\ i_notempty \in Event /\ i_notfull \in Event /\ \A p \in Proc : u_deadchild(p) \in Event
BY UProcAssumption DEF i_notempty, i_notfull, u_deadchild, Event

\* INIT is a process, and NULL is none.
LEMMA ProcFacts == initp \in Proc /\ NULL \notin Proc /\ Proc \subseteq Int /\ NPROC \in Nat
BY UProcAssumption DEF initp, Proc

\* The calls about a pipe leave the family alone, and the process in the kernel or not.
LEMMA UsePipeFamily ==
    ASSUME IInv, NEW p \in Proc, UsePipe(p)
    PROVE  /\ UNCHANGED familyVars
           /\ pc[p] \in {"user", "read", "write"}
           /\ \E where \in {"user", "read", "write"} : pc' = [pc EXCEPT ![p] = where]
<1>1. UNCHANGED familyVars
  BY DEF UsePipe
<1>2. pc = [pc EXCEPT ![p] = pc[p]]
  BY DEF IInv, TypeOK
<1>3. CASE pipe(p) \/ Close(p)
  BY <1>1, <1>2, <1>3 DEF pipe, Close, Runs
<1>4. CASE ReadEmpty(p) \/ ReadSome(p)
  BY <1>1, <1>4 DEF ReadEmpty, ReadSome, Reads, Runs, Goto, Answer
<1>5. CASE WriteRefused(p) \/ WriteFull(p) \/ WriteSome(p)
  BY <1>1, <1>5 DEF WriteRefused, WriteFull, WriteSome, Writes, Runs, Goto, WriteEnd, WriteWaits
<1> QED BY <1>3, <1>4, <1>5 DEF UsePipe, PipeStep

-----------------------------------------------------------------------------
(* The family and the table *)

\* What the actions of Family change together.
FamilyInv == Places /\ FamilyExact /\ EntriesExact

\* The type invariant, by what it says of each group of variables.
PcTypes ==
    /\ pc \in [Proc -> {"none", "user", "read", "write", "newproc", "kexit", "wait"}]
    /\ u_sema \in [Proc -> Event \cup {NULL}] /\ occurred \subseteq Event

FamilyTypes ==
    /\ u_state \in [Proc -> {"absent", "none", "SNULL", "SRUN", "SZOMBIE"}]
    /\ uprocfreelist \in Seq(Proc) /\ y_lastuproc \in Proc
    /\ u_parent \in [Proc -> Proc \cup {NULL}] /\ u_child \in [Proc -> Seq(Proc)]
    /\ newchild \in [Proc -> Proc \cup {NULL}]

FileTypes == f_count \in [End -> 0 .. NPROC] /\ u_ofile \in [Proc -> SUBSET End]

AreaTypes ==
    /\ nkfile \in Nat /\ area \in Seq(Byte) /\ Len(area) <= PIPESZ /\ f_offset \in 0 .. PIPESZ
    /\ ndelay \subseteq End /\ io_count \in [Proc -> 0 .. MaxCount]

\* The groups are all of it.
LEMMA TypeGroups == TypeOK <=> PcTypes /\ FamilyTypes /\ FileTypes /\ AreaTypes
BY DEF TypeOK, PcTypes, FamilyTypes, FileTypes, AreaTypes

\* The free entry that newproc takes is nobody's.
LEMMA FreeEntry ==
    ASSUME IInv, MayTakeEntry
    PROVE  /\ Head(uprocfreelist) \in Proc /\ u_state[Head(uprocfreelist)] = "none"
           /\ Tail(uprocfreelist) \in Seq(Proc) /\ IsInjective(Tail(uprocfreelist))
           /\ ToSet(Tail(uprocfreelist)) = ToSet(uprocfreelist) \ {Head(uprocfreelist)}
<1>1. uprocfreelist \in Seq(Proc) /\ NoRepeat(uprocfreelist)
  BY DEF IInv, TypeOK, EntriesExact, IsInjective, NoRepeat
<1>2. Len(uprocfreelist) \in Nat /\ Len(uprocfreelist) > 0
  BY <1>1 DEF MayTakeEntry
<1>3. /\ Head(uprocfreelist) \in ToSet(uprocfreelist) /\ Head(uprocfreelist) \in Proc
      /\ Tail(uprocfreelist) \in Seq(Proc) /\ NoRepeat(Tail(uprocfreelist))
      /\ ToSet(Tail(uprocfreelist)) = ToSet(uprocfreelist) \ {Head(uprocfreelist)}
  BY <1>1, <1>2, TailElements
<1> QED BY <1>3 DEF IInv, EntriesExact, IsInjective, NoRepeat

\* An entry taken from the free list, for a child of p or for nobody.
LEMMA TakeEntryKeeps ==
    ASSUME IInv, MayTakeEntry, NEW p \in Proc, pc[p] = "user",
           TakeEntry(p, Head(uprocfreelist)),
           \/ UNCHANGED <<newchild, pc>>
           \/ /\ newchild' = [newchild EXCEPT ![p] = Head(uprocfreelist)]
              /\ pc' = [pc EXCEPT ![p] = "newproc"]
    PROVE  FamilyTypes' /\ FamilyInv'
<1> DEFINE c == Head(uprocfreelist)
<1>1. /\ c \in Proc /\ u_state[c] = "none"
      /\ Tail(uprocfreelist) \in Seq(Proc) /\ IsInjective(Tail(uprocfreelist))
      /\ ToSet(Tail(uprocfreelist)) = ToSet(uprocfreelist) \ {c}
  BY FreeEntry
<1>2. /\ uprocfreelist' = Tail(uprocfreelist)
      /\ y_lastuproc' = IF c > y_lastuproc THEN c ELSE y_lastuproc
      /\ u_state' = [u_state EXCEPT ![c] = "SNULL"]
      /\ u_parent' = [u_parent EXCEPT ![c] = p]
      /\ u_child' = [u_child EXCEPT ![c] = <<>>]
  BY DEF TakeEntry
<1> HIDE DEF c
<1>3. FamilyTypes /\ Places /\ FamilyExact /\ EntriesExact /\ PcTypes
  BY TypeGroups DEF IInv
<1>4. FamilyTypes'
  <2>1. newchild' \in [Proc -> Proc \cup {NULL}]
    BY <1>1, <1>3 DEF FamilyTypes, c
  <2> QED BY <1>1, <1>2, <1>3, <2>1 DEF FamilyTypes
<1>5. u_state[p] = "SRUN" /\ c # p /\ initp \in Proc /\ c # initp /\ newchild[p] = NULL
  BY <1>1, <1>3, ProcFacts DEF Places
<1>6. ASSUME NEW q \in Proc PROVE newchild[q] # c
  <2>1. c # NULL
    BY <1>1, ProcFacts
  <2>2. newchild[q] # NULL => u_state[newchild[q]] = "SNULL"
    BY <1>3 DEF Places
  <2> QED BY <1>1, <2>1, <2>2
<1>8. Born' = Born
  BY <1>1, <1>2, <1>3 DEF Born, FamilyTypes
<1>7. Places'
  <2>1. u_state'[initp] = "SRUN" /\ pc'[initp] # "kexit"
    BY <1>2, <1>3, <1>5 DEF Places, PcTypes, FamilyTypes
  <2>2. \A q \in Proc : u_state'[q] = "SRUN" <=> pc'[q] # "none"
    BY <1>1, <1>2, <1>3, <1>5 DEF Places, PcTypes, FamilyTypes
  <2>3. \A q \in Proc : newchild'[q] # NULL <=> pc'[q] = "newproc"
    BY <1>1, <1>3, ProcFacts DEF Places, PcTypes, FamilyTypes, c
  <2>4. \A q \in Proc : u_parent'[q] # q
    BY <1>1, <1>2, <1>3, <1>5 DEF Places, FamilyTypes
  <2>5. ASSUME NEW q \in Proc, newchild'[q] # NULL
        PROVE  u_state'[newchild'[q]] = "SNULL" /\ u_parent'[newchild'[q]] = q
    <3>1. CASE newchild'[q] = newchild[q]
      BY <1>1, <1>2, <1>3, <1>6, <2>5, <3>1 DEF Places, FamilyTypes
    <3>2. CASE q = p /\ newchild'[q] = c
      BY <1>1, <1>2, <1>3, <3>2 DEF FamilyTypes
    <3> QED BY <1>3, <3>1, <3>2 DEF c, FamilyTypes
  <2>6. \A q \in Born' \ {initp} : u_parent'[q] \in Proc
    BY <1>2, <1>3, <1>8 DEF Places, FamilyTypes
  <2> QED BY <2>1, <2>2, <2>3, <2>4, <2>5, <2>6 DEF Places
<1>9. FamilyExact'
  <2>1. \A q \in Proc : u_child'[q] = IF q = c THEN <<>> ELSE u_child[q]
    BY <1>1, <1>2, <1>3 DEF FamilyTypes
  <2>2. IsInjective(<<>>) /\ ToSet(<<>>) = {}
    BY DEF IsInjective, ToSet
  <2>3. ToSet(u_child[c]) = {}
    BY <1>1, <1>3 DEF FamilyExact, Born
  <2>4. \A q \in Proc : IsInjective(u_child'[q]) /\ ToSet(u_child'[q]) = ToSet(u_child[q])
    BY <1>3, <2>1, <2>2, <2>3 DEF FamilyExact
  <2>5. \A d \in Born \ {initp} : u_parent'[d] = u_parent[d] /\ u_state'[u_parent[d]] = u_state[u_parent[d]]
    BY <1>1, <1>2, <1>3 DEF FamilyExact, Born, FamilyTypes
  <2> QED BY <1>3, <1>8, <2>4, <2>5 DEF FamilyExact
<1>10. EntriesExact'
  <2>1. ToSet(uprocfreelist') = { q \in Proc : u_state'[q] = "none" }
    BY <1>1, <1>2, <1>3 DEF EntriesExact, FamilyTypes
  <2>2. BeingMade' \subseteq BeingMade \cup {c}
    BY <1>3 DEF BeingMade, FamilyTypes, c
  <2>3. /\ y_lastuproc' \in Proc /\ y_lastuproc' >= c /\ y_lastuproc' >= y_lastuproc
        /\ y_lastuproc' = c \/ y_lastuproc' = y_lastuproc
    BY <1>1, <1>2, <1>3, ProcFacts DEF FamilyTypes
  <2>4. ASSUME NEW q \in Born' \cup BeingMade' PROVE q <= y_lastuproc'
    <3>1. q \in Proc
      BY <1>4, ProcFacts DEF Born, BeingMade, FamilyTypes
    <3>2. y_lastuproc \in Int /\ y_lastuproc' \in Int /\ q \in Int
      BY <1>3, <2>3, <3>1, ProcFacts DEF FamilyTypes
    <3>3. CASE q = c
      BY <2>3, <3>2, <3>3
    <3>4. CASE q \in Born \cup BeingMade
      <4>1. q <= y_lastuproc
        BY <1>3, <3>4 DEF EntriesExact
      <4> QED BY <2>3, <3>2, <4>1
    <3> QED BY <1>8, <2>2, <3>3, <3>4
  <2>5. u_state'[y_lastuproc'] \notin {"none", "absent"}
    BY <1>1, <1>2, <1>3, <2>3 DEF EntriesExact, FamilyTypes
  <2> QED BY <1>1, <1>2, <2>1, <2>4, <2>5 DEF EntriesExact
<1> QED BY <1>4, <1>7, <1>9, <1>10 DEF FamilyInv
\* The child joins the family.
LEMMA NewprocEndKeeps ==
    ASSUME IInv, NEW p \in Proc, newproc_end(p)
    PROVE  FamilyTypes' /\ FamilyInv'
<1> DEFINE c == newchild[p]
<1>1. /\ pc[p] = "newproc"
      /\ u_child' = [u_child EXCEPT ![p] = <<c>> \o @]
      /\ u_state' = [u_state EXCEPT ![c] = "SRUN"]
      /\ newchild' = [newchild EXCEPT ![p] = NULL]
      /\ pc' = [pc EXCEPT ![p] = "user", ![c] = "user"]
      /\ UNCHANGED <<uprocfreelist, y_lastuproc, u_parent>>
  BY DEF newproc_end, Runs
<1>2. FamilyTypes /\ Places /\ FamilyExact /\ EntriesExact /\ PcTypes
  BY TypeGroups DEF IInv
<1>3. c \in Proc /\ u_state[c] = "SNULL" /\ u_parent[c] = p /\ c # NULL
  BY <1>1, <1>2, ProcFacts DEF Places, FamilyTypes
<1>4. \A q \in Proc : newchild[q] = c => q = p
  BY <1>2, <1>3 DEF Places
<1> HIDE DEF c
<1>5. u_state[p] = "SRUN" /\ c # p /\ initp \in Proc /\ c # initp
  BY <1>1, <1>2, <1>3, ProcFacts DEF Places
<1>6. c \notin Born /\ \A q \in Proc : c \notin ToSet(u_child[q])
  BY <1>2, <1>3 DEF Born, FamilyExact
<1>7. /\ <<c>> \o u_child[p] \in Seq(Proc) /\ IsInjective(<<c>> \o u_child[p])
      /\ ToSet(<<c>> \o u_child[p]) = ToSet(u_child[p]) \cup {c}
  <2>1. u_child[p] \in Seq(Proc) /\ NoRepeat(u_child[p]) /\ c \notin ToSet(u_child[p])
    BY <1>2, <1>6 DEF FamilyTypes, FamilyExact, IsInjective, NoRepeat
  <2>2. /\ <<c>> \o u_child[p] \in Seq(Proc) /\ NoRepeat(<<c>> \o u_child[p])
        /\ ToSet(<<c>> \o u_child[p]) = ToSet(u_child[p]) \cup {c}
    BY <1>3, <2>1, ConsElements
  <2> QED BY <2>2 DEF IsInjective, NoRepeat
<1>8. FamilyTypes'
  BY <1>1, <1>2, <1>3, <1>7 DEF FamilyTypes
<1>9. \A q \in Proc : u_child'[q] = IF q = p THEN <<c>> \o u_child[p] ELSE u_child[q]
  BY <1>1, <1>2 DEF FamilyTypes
<1>10. Born' = Born \cup {c}
  BY <1>1, <1>2, <1>3 DEF Born, FamilyTypes
<1>11. Places'
  <2>1. u_state'[initp] = "SRUN" /\ pc'[initp] # "kexit"
    BY <1>1, <1>2, <1>3, <1>5 DEF Places, PcTypes, FamilyTypes
  <2>2. \A q \in Proc : u_state'[q] = "SRUN" <=> pc'[q] # "none"
    BY <1>1, <1>2, <1>3, <1>5 DEF Places, PcTypes, FamilyTypes
  <2>3. \A q \in Proc : newchild'[q] # NULL <=> pc'[q] = "newproc"
    <3>1. pc[c] = "none" /\ newchild[c] = NULL
      BY <1>2, <1>3 DEF Places
    <3> QED BY <1>1, <1>2, <1>3, <1>5, <3>1 DEF Places, PcTypes, FamilyTypes
  <2>4. \A q \in Proc : newchild'[q] # NULL => u_state'[newchild'[q]] = "SNULL" /\ u_parent'[newchild'[q]] = q
    BY <1>1, <1>2, <1>3, <1>4 DEF Places, FamilyTypes
  <2>5. \A q \in Proc : u_parent'[q] # q
    BY <1>1, <1>2 DEF Places
  <2>6. \A q \in Born' \ {initp} : u_parent'[q] \in Proc
    BY <1>1, <1>2, <1>3, <1>10 DEF Places
  <2> QED BY <2>1, <2>2, <2>3, <2>4, <2>5, <2>6 DEF Places
<1>12. FamilyExact'
  <2>1. ASSUME NEW q \in Proc
        PROVE  IsInjective(u_child'[q]) /\ ToSet(u_child'[q]) \subseteq Born' \ {initp}
    BY <1>2, <1>5, <1>7, <1>9, <1>10 DEF FamilyExact
  <2>2. ASSUME NEW d \in Born' \ {initp}
        PROVE  /\ u_state'[u_parent'[d]] = "SRUN"
               /\ \A q \in Proc : d \in ToSet(u_child'[q]) <=> q = u_parent'[d]
    <3>1. CASE d = c
      BY <1>1, <1>2, <1>3, <1>5, <1>6, <1>7, <1>9, <3>1 DEF FamilyTypes
    <3>2. CASE d \in Born \ {initp} /\ d # c
      <4>1. /\ d \in Proc /\ u_parent'[d] = u_parent[d] /\ u_state[u_parent[d]] = "SRUN"
            /\ \A q \in Proc : d \in ToSet(u_child[q]) <=> q = u_parent[d]
        BY <1>1, <1>2, <3>2 DEF FamilyExact, Born
      <4>2. u_state'[u_parent[d]] = "SRUN"
        BY <1>1, <1>2, <1>3, <4>1 DEF FamilyTypes
      <4>3. \A q \in Proc : d \in ToSet(u_child'[q]) <=> d \in ToSet(u_child[q])
        BY <1>7, <1>9, <3>2
      <4> QED BY <4>1, <4>2, <4>3
    <3> QED BY <1>10, <2>2, <3>1, <3>2
  <2> QED BY <2>1, <2>2 DEF FamilyExact
<1>13. EntriesExact'
  <2>1. Born' \cup BeingMade' \subseteq Born \cup BeingMade
    BY <1>1, <1>2, <1>3, <1>10 DEF BeingMade, FamilyTypes, c
  <2> QED BY <1>1, <1>2, <1>3, <2>1 DEF EntriesExact, FamilyTypes
<1> QED BY <1>8, <1>11, <1>12, <1>13 DEF FamilyInv

\* A process dies; its children are INIT's.
LEMMA KexitEndKeeps ==
    ASSUME IInv, NEW p \in Proc, kexit_end(p)
    PROVE  FamilyTypes' /\ FamilyInv'
<1>1. /\ pc[p] = "kexit"
      /\ u_state' = [u_state EXCEPT ![p] = "SZOMBIE"]
      /\ u_parent' = [c \in Proc |-> IF c \in ToSet(u_child[p]) THEN initp ELSE u_parent[c]]
      /\ u_child' = [u_child EXCEPT ![initp] = u_child[p] \o @, ![p] = <<>>]
      /\ pc' = [pc EXCEPT ![p] = "none"]
      /\ UNCHANGED <<uprocfreelist, y_lastuproc, newchild>>
  BY DEF kexit_end, Runs, Goto
<1>2. FamilyTypes /\ Places /\ FamilyExact /\ EntriesExact /\ PcTypes
  BY TypeGroups DEF IInv
<1>3. u_state[p] = "SRUN" /\ p # initp /\ initp \in Proc /\ newchild[p] = NULL
  BY <1>1, <1>2, ProcFacts DEF Places
<1>4. Born' = Born /\ p \in Born
  BY <1>1, <1>2, <1>3 DEF Born, FamilyTypes
<1> DEFINE t == u_child[p] \o u_child[initp]
<1>5. t \in Seq(Proc) /\ IsInjective(t) /\ ToSet(t) = ToSet(u_child[p]) \cup ToSet(u_child[initp])
  <2>1. /\ u_child[p] \in Seq(Proc) /\ u_child[initp] \in Seq(Proc)
        /\ NoRepeat(u_child[p]) /\ NoRepeat(u_child[initp])
    BY <1>2, <1>3 DEF FamilyTypes, FamilyExact, IsInjective, NoRepeat
  <2>2. ToSet(u_child[p]) \cap ToSet(u_child[initp]) = {}
    BY <1>2, <1>3 DEF FamilyExact
  <2>3. t \in Seq(Proc) /\ NoRepeat(t) /\ ToSet(t) = ToSet(u_child[p]) \cup ToSet(u_child[initp])
    BY <2>1, <2>2, ConcatElements
  <2> QED BY <2>3 DEF IsInjective, NoRepeat
<1>6. \A q \in Proc : u_child'[q] = IF q = p THEN <<>> ELSE IF q = initp THEN t ELSE u_child[q]
  BY <1>1, <1>2, <1>3 DEF FamilyTypes
<1> HIDE DEF t
<1>7. IsInjective(<<>>) /\ ToSet(<<>>) = {} /\ <<>> \in Seq(Proc)
  BY DEF IsInjective, ToSet
<1>8. FamilyTypes'
  <2>1. DOMAIN u_child' = Proc /\ u_child' = [q \in Proc |-> u_child'[q]]
    BY <1>1, <1>2 DEF FamilyTypes
  <2>2. \A q \in Proc : u_child'[q] \in Seq(Proc)
    BY <1>2, <1>5, <1>6, <1>7 DEF FamilyTypes
  <2>3. u_child' \in [Proc -> Seq(Proc)]
    BY <2>1, <2>2
  <2> QED BY <1>1, <1>2, <1>3, <2>3 DEF FamilyTypes
<1>9. Places'
  <2>1. ASSUME NEW q \in Proc, newchild'[q] # NULL
        PROVE  u_state'[newchild'[q]] = "SNULL" /\ u_parent'[newchild'[q]] = q
    <3>1. newchild[q] \in Proc /\ u_state[newchild[q]] = "SNULL" /\ u_parent[newchild[q]] = q
      BY <1>1, <1>2, <2>1 DEF Places, FamilyTypes
    <3>2. newchild[q] \notin ToSet(u_child[p]) /\ newchild[q] # p
      BY <1>2, <1>3, <3>1 DEF FamilyExact, Born
    <3> QED BY <1>1, <1>2, <3>1, <3>2 DEF FamilyTypes
  <2>2. \A q \in Proc : u_parent'[q] # q
    BY <1>1, <1>2, <1>3 DEF Places, FamilyTypes, FamilyExact
  <2>3. u_state'[initp] = "SRUN" /\ pc'[initp] # "kexit"
    BY <1>1, <1>2, <1>3 DEF Places, FamilyTypes, PcTypes
  <2>4. \A q \in Proc : u_state'[q] = "SRUN" <=> pc'[q] # "none"
    BY <1>1, <1>2, <1>3 DEF Places, FamilyTypes, PcTypes
  <2>5. \A q \in Proc : newchild'[q] # NULL <=> pc'[q] = "newproc"
    BY <1>1, <1>2, <1>3 DEF Places, FamilyTypes, PcTypes
  <2>6. \A q \in Born' \ {initp} : u_parent'[q] \in Proc
    BY <1>1, <1>2, <1>3, <1>4 DEF Places, Born
  <2> QED BY <2>1, <2>2, <2>3, <2>4, <2>5, <2>6 DEF Places
<1>10. FamilyExact'
  <2>1. ASSUME NEW q \in Proc
        PROVE  IsInjective(u_child'[q]) /\ ToSet(u_child'[q]) \subseteq Born' \ {initp}
    <3>1. ToSet(u_child[p]) \subseteq Born \ {initp} /\ ToSet(u_child[initp]) \subseteq Born \ {initp}
      BY <1>2, <1>3 DEF FamilyExact
    <3>2. IsInjective(u_child[q]) /\ ToSet(u_child[q]) \subseteq Born \ {initp}
      BY <1>2 DEF FamilyExact
    <3> QED BY <1>4, <1>5, <1>6, <1>7, <3>1, <3>2
  <2>2. ASSUME NEW d \in Born' \ {initp}
        PROVE  /\ u_state'[u_parent'[d]] = "SRUN"
               /\ \A q \in Proc : d \in ToSet(u_child'[q]) <=> q = u_parent'[d]
    <3>0. d \in Proc /\ d \in Born \ {initp}
      BY <1>4, <2>2 DEF Born
    <3>1. CASE d \in ToSet(u_child[p])
      <4>1. u_parent'[d] = initp /\ u_parent[d] = p
        BY <1>1, <1>2, <3>0, <3>1 DEF FamilyExact
      <4>2. u_state'[initp] = "SRUN"
        BY <1>1, <1>2, <1>3 DEF Places, FamilyTypes
      <4>3. \A q \in Proc : q # p => d \notin ToSet(u_child[q])
        BY <1>2, <3>0, <4>1 DEF FamilyExact
      <4>4. \A q \in Proc : d \in ToSet(u_child'[q]) <=> q = initp
        BY <1>3, <1>5, <1>6, <1>7, <3>1, <4>3
      <4> QED BY <4>1, <4>2, <4>4
    <3>2. CASE d \notin ToSet(u_child[p])
      <4>1. u_parent'[d] = u_parent[d] /\ u_parent[d] # p
        BY <1>1, <1>2, <3>0, <3>2 DEF FamilyExact
      <4>2. u_state'[u_parent[d]] = u_state[u_parent[d]]
        BY <1>1, <1>2, <4>1 DEF FamilyTypes
      <4> QED BY <1>2, <1>3, <1>5, <1>6, <1>7, <3>0, <3>2, <4>1, <4>2 DEF FamilyExact
    <3> QED BY <3>1, <3>2
  <2> QED BY <2>1, <2>2 DEF FamilyExact
<1>11. EntriesExact'
  <2>1. BeingMade' = BeingMade
    BY <1>1 DEF BeingMade
  <2> QED BY <1>1, <1>2, <1>3, <1>4, <2>1 DEF EntriesExact, FamilyTypes
<1> QED BY <1>8, <1>9, <1>10, <1>11 DEF FamilyInv
\* The child found dead by its parent.
LEMMA DeadChild ==
    ASSUME IInv, NEW p \in Proc, NEW i \in DOMAIN u_child[p]
    PROVE  /\ RemoveAt(u_child[p], i) \in Seq(Proc) /\ IsInjective(RemoveAt(u_child[p], i))
           /\ ToSet(RemoveAt(u_child[p], i)) = ToSet(u_child[p]) \ {u_child[p][i]}
           /\ u_child[p][i] \in ToSet(u_child[p]) /\ u_child[p][i] \in Proc
           /\ u_child[p][i] \in Born \ {initp} /\ u_parent[u_child[p][i]] = p
<1>1. u_child[p] \in Seq(Proc) /\ NoRepeat(u_child[p]) /\ i \in 1 .. Len(u_child[p])
  BY DEF IInv, TypeOK, FamilyExact, IsInjective, NoRepeat
<1>2. u_child[p][i] \in ToSet(u_child[p]) /\ u_child[p][i] \in Proc
  BY <1>1 DEF ToSet
<1>3. /\ RemoveAt(u_child[p], i) \in Seq(Proc) /\ NoRepeat(RemoveAt(u_child[p], i))
      /\ ToSet(RemoveAt(u_child[p], i)) = ToSet(u_child[p]) \ {u_child[p][i]}
  BY <1>1, RemoveAtElements
<1>4. u_child[p][i] \in Born \ {initp} /\ u_parent[u_child[p][i]] = p
  BY <1>2 DEF IInv, FamilyExact
<1> QED BY <1>2, <1>3, <1>4 DEF IsInjective, NoRepeat

\* wait takes the dead child away and frees its entry.
LEMMA WaitFoundKeeps ==
    ASSUME IInv, NEW p \in Proc, wait_found(p)
    PROVE  FamilyTypes' /\ FamilyInv'
<1>1. PICK i \in DOMAIN u_child[p] :
         LET c == u_child[p][i] IN
         /\ u_state[c] = "SZOMBIE"
         /\ u_child' = [u_child EXCEPT ![p] = RemoveAt(@, i)]
         /\ u_state' = [u_state EXCEPT ![c] = "none"]
         /\ u_parent' = [u_parent EXCEPT ![c] = NULL]
         /\ uprocfreelist' = <<c>> \o uprocfreelist
         /\ \E last \in Used \ {c} :
               /\ last <= y_lastuproc /\ \A q \in Used \ {c} : q <= y_lastuproc => q <= last
               /\ y_lastuproc' = last
  BY DEF wait_found
<1> DEFINE c == u_child[p][i]
           rest == RemoveAt(u_child[p], i)
<1>2. /\ u_state[c] = "SZOMBIE"
      /\ u_child' = [u_child EXCEPT ![p] = rest]
      /\ u_state' = [u_state EXCEPT ![c] = "none"]
      /\ u_parent' = [u_parent EXCEPT ![c] = NULL]
      /\ uprocfreelist' = <<c>> \o uprocfreelist
  BY <1>1
<1>last. /\ y_lastuproc' \in Used \ {c}
         /\ \A q \in Used \ {c} : q <= y_lastuproc => q <= y_lastuproc'
  BY <1>1
<1>3. /\ rest \in Seq(Proc) /\ IsInjective(rest) /\ ToSet(rest) = ToSet(u_child[p]) \ {c}
      /\ c \in ToSet(u_child[p]) /\ c \in Proc /\ c \in Born \ {initp} /\ u_parent[c] = p
  BY DeadChild
<1> HIDE DEF c, rest
<1>4. FamilyTypes /\ Places /\ FamilyExact /\ EntriesExact /\ PcTypes
  BY TypeGroups DEF IInv
<1>5. newchild' = newchild /\ pc[p] \in {"user", "wait"} /\ pc' = [pc EXCEPT ![p] = "user"]
  BY DEF wait_found, Waits, Runs, Goto
<1>6. u_state[p] = "SRUN" /\ c # p /\ initp \in Proc /\ c # initp
  BY <1>2, <1>3, <1>4, <1>5, ProcFacts DEF Places
<1>7. /\ <<c>> \o uprocfreelist \in Seq(Proc) /\ IsInjective(<<c>> \o uprocfreelist)
      /\ ToSet(<<c>> \o uprocfreelist) = ToSet(uprocfreelist) \cup {c}
  <2>1. uprocfreelist \in Seq(Proc) /\ NoRepeat(uprocfreelist) /\ c \notin ToSet(uprocfreelist)
    BY <1>2, <1>3, <1>4 DEF FamilyTypes, EntriesExact, IsInjective, NoRepeat
  <2>2. /\ <<c>> \o uprocfreelist \in Seq(Proc) /\ NoRepeat(<<c>> \o uprocfreelist)
        /\ ToSet(<<c>> \o uprocfreelist) = ToSet(uprocfreelist) \cup {c}
    BY <1>3, <2>1, ConsElements
  <2> QED BY <2>2 DEF IsInjective, NoRepeat
<1>8. FamilyTypes'
  BY <1>2, <1>last, <1>3, <1>4, <1>5, <1>7 DEF FamilyTypes, Used
<1>9. \A q \in Proc : u_child'[q] = IF q = p THEN rest ELSE u_child[q]
  BY <1>2, <1>4 DEF FamilyTypes
<1>10. Born' = Born \ {c} /\ BeingMade' = BeingMade
  BY <1>2, <1>3, <1>4, <1>5 DEF Born, BeingMade, FamilyTypes
<1>11. \A q \in Proc : newchild[q] # c
  <2>1. \A q \in Proc : newchild[q] # NULL => u_state[newchild[q]] = "SNULL"
    BY <1>4 DEF Places
  <2> QED BY <1>2, <1>3, <2>1, ProcFacts
<1>12. Places'
  <2>1. u_state'[initp] = "SRUN" /\ pc'[initp] # "kexit"
    BY <1>2, <1>4, <1>5, <1>6 DEF Places, FamilyTypes, PcTypes
  <2>2. \A q \in Proc : u_state'[q] = "SRUN" <=> pc'[q] # "none"
    BY <1>2, <1>3, <1>4, <1>5, <1>6 DEF Places, FamilyTypes, PcTypes
  <2>3. \A q \in Proc : newchild'[q] # NULL <=> pc'[q] = "newproc"
    BY <1>4, <1>5, <1>6 DEF Places, FamilyTypes, PcTypes
  <2>4. \A q \in Proc : u_parent'[q] # q
    BY <1>2, <1>3, <1>4, ProcFacts DEF Places, FamilyTypes
  <2>5. ASSUME NEW q \in Proc, newchild'[q] # NULL
        PROVE  u_state'[newchild'[q]] = "SNULL" /\ u_parent'[newchild'[q]] = q
    <3>1. newchild[q] \in Proc /\ u_state[newchild[q]] = "SNULL" /\ u_parent[newchild[q]] = q /\ newchild[q] # c
      BY <1>4, <1>5, <1>11, <2>5 DEF Places, FamilyTypes
    <3> QED BY <1>2, <1>4, <1>5, <3>1 DEF FamilyTypes
  <2>6. \A q \in Born' \ {initp} : u_parent'[q] \in Proc
    BY <1>2, <1>4, <1>10 DEF Places, FamilyTypes, Born
  <2> QED BY <2>1, <2>2, <2>3, <2>4, <2>5, <2>6 DEF Places
<1>13. FamilyExact'
  <2>1. ASSUME NEW q \in Proc
        PROVE  IsInjective(u_child'[q]) /\ ToSet(u_child'[q]) \subseteq Born' \ {initp}
    <3>1. IsInjective(u_child[q]) /\ ToSet(u_child[q]) \subseteq Born \ {initp}
      BY <1>4 DEF FamilyExact
    <3>2. q # p => c \notin ToSet(u_child[q])
      BY <1>3, <1>4 DEF FamilyExact
    <3> QED BY <1>3, <1>9, <1>10, <3>1, <3>2
  <2>2. ASSUME NEW d \in Born' \ {initp}
        PROVE  /\ u_state'[u_parent'[d]] = "SRUN"
               /\ \A q \in Proc : d \in ToSet(u_child'[q]) <=> q = u_parent'[d]
    <3>1. /\ d \in Proc /\ d # c /\ u_parent'[d] = u_parent[d] /\ u_state[u_parent[d]] = "SRUN"
          /\ \A q \in Proc : d \in ToSet(u_child[q]) <=> q = u_parent[d]
      BY <1>2, <1>4, <1>10, <2>2 DEF FamilyExact, Born, FamilyTypes
    <3>2. u_state'[u_parent[d]] = "SRUN"
      BY <1>2, <1>3, <1>4, <3>1 DEF FamilyTypes
    <3>3. \A q \in Proc : d \in ToSet(u_child'[q]) <=> d \in ToSet(u_child[q])
      BY <1>3, <1>9, <3>1
    <3> QED BY <3>1, <3>2, <3>3
  <2> QED BY <2>1, <2>2 DEF FamilyExact
<1>14. EntriesExact'
  <2>1. ToSet(uprocfreelist') = { q \in Proc : u_state'[q] = "none" }
    <3>1. ToSet(uprocfreelist) = { q \in Proc : u_state[q] = "none" }
      BY <1>4 DEF EntriesExact
    <3>2. \A q \in Proc : u_state'[q] = IF q = c THEN "none" ELSE u_state[q]
      BY <1>2, <1>4 DEF FamilyTypes
    <3>3. ToSet(uprocfreelist') = ToSet(uprocfreelist) \cup {c}
      BY <1>2, <1>7
    <3> QED BY <1>3, <3>1, <3>2, <3>3
  <2>2. Born' \cup BeingMade' \subseteq Used \ {c}
    <3>1. BeingMade \subseteq Used \ {c}
      BY <1>4, <1>11, ProcFacts DEF BeingMade, Used, Places, FamilyTypes
    <3> QED BY <1>10, <3>1 DEF Born, Used
  <2>3. ASSUME NEW q \in Born' \cup BeingMade' PROVE q <= y_lastuproc'
    <3>1. q <= y_lastuproc
      BY <1>4, <1>10 DEF EntriesExact
    <3> QED BY <1>last, <2>2, <3>1
  <2>4. u_state'[y_lastuproc'] \notin {"none", "absent"}
    BY <1>2, <1>last, <1>3, <1>4 DEF Used, FamilyTypes
  <2> QED BY <1>2, <1>7, <2>1, <2>3, <2>4 DEF EntriesExact
<1> QED BY <1>8, <1>12, <1>13, <1>14 DEF FamilyInv

\* setppid moves the process from the list of its parent to the one of INIT.
LEMMA SetppidKeeps ==
    ASSUME IInv, NEW p \in Proc, setppid(p)
    PROVE  FamilyTypes' /\ FamilyInv'
<1> DEFINE par == u_parent[p]
<1>1. /\ pc[p] = "user" /\ p # initp /\ par # initp
      /\ u_parent' = [u_parent EXCEPT ![p] = initp]
      /\ UNCHANGED <<pc, u_state, uprocfreelist, y_lastuproc, newchild>>
  BY DEF setppid, Runs, uprocVars
<1>2. PICK i \in DOMAIN u_child[par] :
         /\ u_child[par][i] = p
         /\ u_child' = [u_child EXCEPT ![par] = RemoveAt(@, i), ![initp] = <<p>> \o @]
  BY DEF setppid
<1>3. FamilyTypes /\ Places /\ FamilyExact /\ EntriesExact /\ PcTypes
  BY TypeGroups DEF IInv
<1>4. u_state[p] = "SRUN" /\ p \in Born /\ initp \in Proc /\ u_state[initp] = "SRUN"
  BY <1>1, <1>3, ProcFacts DEF Places, Born
<1>5. par \in Proc /\ par # p /\ \A q \in Proc : p \in ToSet(u_child[q]) <=> q = par
  BY <1>1, <1>3, <1>4 DEF FamilyExact, Places
<1> DEFINE rest == RemoveAt(u_child[par], i)
           t == <<p>> \o u_child[initp]
<1>6. rest \in Seq(Proc) /\ IsInjective(rest) /\ ToSet(rest) = ToSet(u_child[par]) \ {p}
  <2> HIDE DEF par
  <2>1. /\ RemoveAt(u_child[par], i) \in Seq(Proc) /\ IsInjective(RemoveAt(u_child[par], i))
        /\ ToSet(RemoveAt(u_child[par], i)) = ToSet(u_child[par]) \ {u_child[par][i]}
    BY <1>2, <1>5, DeadChild, Zenon
  <2> QED BY <1>2, <2>1
<1>7. t \in Seq(Proc) /\ IsInjective(t) /\ ToSet(t) = ToSet(u_child[initp]) \cup {p}
  <2>1. u_child[initp] \in Seq(Proc) /\ NoRepeat(u_child[initp]) /\ p \notin ToSet(u_child[initp])
    BY <1>1, <1>3, <1>4, <1>5 DEF FamilyTypes, FamilyExact, IsInjective, NoRepeat
  <2>2. t \in Seq(Proc) /\ NoRepeat(t) /\ ToSet(t) = ToSet(u_child[initp]) \cup {p}
    BY <2>1, ConsElements
  <2> QED BY <2>2 DEF IsInjective, NoRepeat
<1>8. \A q \in Proc : u_child'[q] = IF q = par THEN rest ELSE IF q = initp THEN t ELSE u_child[q]
  BY <1>1, <1>2, <1>3, <1>4, <1>5 DEF FamilyTypes
<1>9. FamilyTypes'
  <2>1. DOMAIN u_child' = Proc /\ u_child' = [q \in Proc |-> u_child'[q]]
    BY <1>2, <1>3 DEF FamilyTypes
  <2> HIDE DEF rest, t
  <2>2. \A q \in Proc : u_child'[q] \in Seq(Proc)
    BY <1>3, <1>6, <1>7, <1>8 DEF FamilyTypes
  <2>3. u_child' \in [Proc -> Seq(Proc)]
    BY <2>1, <2>2
  <2> QED BY <1>1, <1>3, <1>4, <2>3 DEF FamilyTypes
<1> HIDE DEF par, rest, t
<1>10. Born' = Born /\ BeingMade' = BeingMade
  BY <1>1 DEF Born, BeingMade
<1>11. Places'
  <2>1. \A q \in Proc : newchild[q] # NULL => newchild[q] # p
    BY <1>3, <1>4 DEF Places
  <2> QED BY <1>1, <1>3, <1>4, <1>10, <2>1 DEF Places, FamilyTypes
<1>12. FamilyExact'
  <2>1. ASSUME NEW q \in Proc
        PROVE  IsInjective(u_child'[q]) /\ ToSet(u_child'[q]) \subseteq Born' \ {initp}
    <3>1. IsInjective(u_child[q]) /\ ToSet(u_child[q]) \subseteq Born \ {initp}
      BY <1>3 DEF FamilyExact
    <3>2. ToSet(u_child[initp]) \subseteq Born \ {initp} /\ ToSet(u_child[par]) \subseteq Born \ {initp}
      BY <1>3, <1>4, <1>5 DEF FamilyExact
    <3> QED BY <1>1, <1>4, <1>6, <1>7, <1>8, <1>10, <3>1, <3>2
  <2>2. ASSUME NEW d \in Born' \ {initp}
        PROVE  /\ u_state'[u_parent'[d]] = "SRUN"
               /\ \A q \in Proc : d \in ToSet(u_child'[q]) <=> q = u_parent'[d]
    <3>1. /\ d \in Proc /\ u_state[u_parent[d]] = "SRUN"
          /\ \A q \in Proc : d \in ToSet(u_child[q]) <=> q = u_parent[d]
      BY <1>3, <1>10, <2>2 DEF FamilyExact, Born
    <3>2. CASE d = p
      <4>1. u_parent'[d] = initp
        BY <1>1, <1>3, <3>1, <3>2 DEF FamilyTypes
      <4> QED BY <1>1, <1>4, <1>5, <1>6, <1>7, <1>8, <3>2, <4>1
    <3>3. CASE d # p
      <4>1. u_parent'[d] = u_parent[d]
        BY <1>1, <1>3, <3>1, <3>3 DEF FamilyTypes
      <4>2. \A q \in Proc : d \in ToSet(u_child'[q]) <=> d \in ToSet(u_child[q])
        BY <1>6, <1>7, <1>8, <3>3
      <4> QED BY <1>1, <3>1, <4>1, <4>2
    <3> QED BY <3>2, <3>3
  <2> QED BY <2>1, <2>2 DEF FamilyExact
<1>13. EntriesExact'
  BY <1>1, <1>3, <1>10 DEF EntriesExact
<1> QED BY <1>9, <1>11, <1>12, <1>13 DEF FamilyInv

\* Steps that leave the table and the families alone.
LEMMA FamilyStays ==
    ASSUME IInv, UNCHANGED familyVars, NEW p \in Proc, NEW where \in {"user", "read", "write", "wait", "kexit"},
           pc[p] \in {"user", "read", "write", "wait", "kexit"}, where = "kexit" => p # initp,
           pc' = [pc EXCEPT ![p] = where]
    PROVE  FamilyTypes' /\ FamilyInv'
<1>1. FamilyTypes /\ Places /\ FamilyExact /\ EntriesExact /\ PcTypes
  BY TypeGroups DEF IInv
<1>2. Born' = Born /\ BeingMade' = BeingMade
  BY DEF familyVars, Born, BeingMade
<1>3. FamilyTypes' /\ FamilyExact' /\ EntriesExact'
  BY <1>1, <1>2 DEF familyVars, FamilyTypes, FamilyExact, EntriesExact
<1>4. Places'
  <2>1. u_state'[initp] = "SRUN" /\ pc'[initp] # "kexit"
    BY <1>1, ProcFacts DEF Places, PcTypes, familyVars
  <2>2. \A q \in Proc : u_state'[q] = "SRUN" <=> pc'[q] # "none"
    BY <1>1 DEF Places, PcTypes, familyVars
  <2>3. \A q \in Proc : newchild'[q] # NULL <=> pc'[q] = "newproc"
    BY <1>1 DEF Places, PcTypes, familyVars
  <2> QED BY <1>1, <1>2, <2>1, <2>2, <2>3 DEF Places, familyVars
<1> QED BY <1>3, <1>4 DEF FamilyInv

\* Every step keeps the table and the families.
LEMMA FamilyKept ==
    ASSUME IInv, [Next]_vars
    PROVE  FamilyTypes' /\ FamilyInv'
<1>0. PcTypes /\ Places /\ initp \in Proc /\ pc[initp] # "kexit"
  BY TypeGroups, ProcFacts DEF IInv, Places
<1>1. CASE UNCHANGED vars
  <2>1. UNCHANGED <<pc, familyVars>>
    BY <1>1 DEF vars, uprocVars
  <2>2. Born' = Born /\ BeingMade' = BeingMade
    BY <2>1 DEF familyVars, Born, BeingMade
  <2> QED BY <2>1, <2>2, TypeGroups DEF familyVars, IInv, FamilyTypes, FamilyExact, EntriesExact, Places, FamilyInv
<1>2. ASSUME NEW p \in Proc, UsePipe(p) PROVE FamilyTypes' /\ FamilyInv'
  BY <1>2, UsePipeFamily, FamilyStays
<1>3. ASSUME NEW p \in Proc, Live(p) PROVE FamilyTypes' /\ FamilyInv'
  <2>0. pc = [pc EXCEPT ![p] = pc[p]]
    BY <1>0 DEF PcTypes
  <2>1. CASE Fork(p)
    BY <2>1, TakeEntryKeeps DEF Fork, newproc, Runs
  <2>2. CASE ForkEnd(p)
    BY <2>2, NewprocEndKeeps DEF ForkEnd
  <2>3. CASE ForkFails(p)
    BY <2>3, TakeEntryKeeps DEF ForkFails, newproc_fails, Runs, uprocVars
  <2>4. CASE Exit(p)
    BY <2>4, FamilyStays DEF Exit, kexit, Runs, Goto
  <2>5. CASE ExitClose(p)
    <3>1. UNCHANGED <<pc, familyVars>> /\ pc[p] = "kexit" /\ p # initp
      BY <1>0, <2>5 DEF ExitClose, Runs
    <3> QED BY <2>0, <3>1, FamilyStays
  <2>6. CASE ExitEnd(p)
    BY <2>6, KexitEndKeeps DEF ExitEnd
  <2>7. CASE Wait(p)
    <3>1. CASE wait_found(p)
      BY <3>1, WaitFoundKeeps
    <3>2. CASE wait_none(p) \/ wait_sleeps(p)
      BY <3>2, FamilyStays DEF wait_none, wait_sleeps, Waits, Runs, Goto
    <3> QED BY <2>7, <3>1, <3>2 DEF Wait
  <2>8. CASE LeaveParent(p)
    BY <2>8, SetppidKeeps DEF LeaveParent
  <2> QED BY <1>3, <2>1, <2>2, <2>3, <2>4, <2>5, <2>6, <2>7, <2>8 DEF Live
<1> QED BY <1>1, <1>2, <1>3 DEF Next
-----------------------------------------------------------------------------
(* The references to the files *)

\* The processes that have an end open.
Users(e) == { p \in Proc : e \in u_ofile[p] }

\* Sets of processes are counted up to the size of the table.
LEMMA ProcCount ==
    ASSUME NEW S \in SUBSET Proc
    PROVE  IsFiniteSet(S) /\ Cardinality(S) \in 0 .. NPROC
<1>1. IsFiniteSet(Proc) /\ Cardinality(Proc) = NPROC
  BY ProcFacts, FS_Interval DEF Proc
<1>2. IsFiniteSet(S) /\ Cardinality(S) <= NPROC
  BY <1>1, FS_Subset
<1>3. Cardinality(S) \in Nat
  BY <1>2, FS_CardinalityType
<1> QED BY <1>2, <1>3, ProcFacts

\* The number of ends in use: i_count.
Ends(f) == Cardinality({ e \in End : f[e] > 0 })

\* What the number of ends in use says of each.
LEMMA EndCount ==
    ASSUME NEW f \in [End -> 0 .. NPROC]
    PROVE  /\ Ends(f) = 0 <=> f["read"] = 0 /\ f["write"] = 0
           /\ Ends(f) = 2 <=> f["read"] > 0 /\ f["write"] > 0
           /\ Ends(f) \in 0 .. 2
           /\ \A e \in End : f[e] \in Nat
<1> DEFINE S == { e \in End : f[e] > 0 }
<1>0. \A e \in End : f[e] \in Nat
  BY ProcFacts
<1>1. End = {"read", "write"}
  BY DEF End
<1>2. Ends(f) = Cardinality(S)
  BY DEF Ends
<1>3. f["read"] \in Nat /\ f["write"] \in Nat
  BY <1>0, <1>1
<1>4. CASE f["read"] = 0 /\ f["write"] = 0
  <2>1. S = {}
    BY <1>1, <1>4
  <2>2. Ends(f) = 0
    BY <1>2, <2>1, FS_EmptySet
  <2> QED BY <1>0, <1>4, <2>2
<1>5. CASE f["read"] > 0 /\ f["write"] = 0
  <2>1. S = {"read"}
    BY <1>1, <1>5
  <2>2. Ends(f) = 1
    BY <1>2, <2>1, FS_Singleton
  <2> QED BY <1>0, <1>3, <1>5, <2>2
<1>6. CASE f["read"] = 0 /\ f["write"] > 0
  <2>1. S = {"write"}
    BY <1>1, <1>6
  <2>2. Ends(f) = 1
    BY <1>2, <2>1, FS_Singleton
  <2> QED BY <1>0, <1>3, <1>6, <2>2
<1>7. CASE f["read"] > 0 /\ f["write"] > 0
  <2>1. S = {"read"} \cup {"write"}
    BY <1>1, <1>7
  <2>2. Cardinality({"read"}) = 1 /\ IsFiniteSet({"read"}) /\ "write" \notin {"read"}
    BY FS_Singleton
  <2>3. Cardinality({"read"} \cup {"write"}) = 2
    BY <2>2, FS_AddElement
  <2>4. Ends(f) = 2
    BY <1>2, <2>1, <2>3
  <2> QED BY <1>0, <1>3, <1>7, <2>4
<1> QED BY <1>3, <1>4, <1>5, <1>6, <1>7

\* What i_count says of the two counts, in a state
LEMMA InodeCount ==
    ASSUME FileTypes
    PROVE  /\ i_count = 0 <=> f_count["read"] = 0 /\ f_count["write"] = 0
           /\ i_count = 2 <=> f_count["read"] > 0 /\ f_count["write"] > 0
           /\ i_count \in 0 .. 2
           /\ \A e \in End : f_count[e] \in Nat
BY EndCount DEF FileTypes, Ends, i_count

\* and in the next one.
LEMMA InodeCountNext ==
    ASSUME FileTypes'
    PROVE  /\ i_count' = 0 <=> f_count'["read"] = 0 /\ f_count'["write"] = 0
           /\ i_count' = 2 <=> f_count'["read"] > 0 /\ f_count'["write"] > 0
           /\ i_count' \in 0 .. 2
           /\ \A e \in End : f_count'[e] \in Nat
BY EndCount DEF FileTypes, Ends, i_count

\* FileCountExact, in its two parts.
CountsHold == \A e \in End : f_count[e] = Cardinality(Users(e))
OwnersHold == \A p \in Proc : u_ofile[p] # {} => u_state[p] = "SRUN" \/ p \in BeingMade

\* The two parts are all of it.
LEMMA FileParts == FileCountExact <=> CountsHold /\ OwnersHold
BY DEF FileCountExact, CountsHold, OwnersHold, Users

\* Exact counts are of the right type.
LEMMA CountTypes ==
    ASSUME CountsHold', u_ofile' \in [Proc -> SUBSET End], f_count' = [e \in End |-> f_count'[e]]
    PROVE  FileTypes'
<1>1. \A e \in End : f_count'[e] \in 0 .. NPROC
  <2> TAKE e \in End
  <2>1. Users(e)' \in SUBSET Proc
    BY DEF Users
  <2>2. Cardinality(Users(e)') \in 0 .. NPROC
    BY <2>1, ProcCount
  <2> QED BY <2>2 DEF CountsHold
<1> QED BY <1>1 DEF FileTypes

\* A new pipe: no process had an end.
LEMMA PipeCounts ==
    ASSUME IInv, NEW p \in Proc, pipe(p)
    PROVE  FileTypes' /\ CountsHold'
<1>1. FileTypes /\ CountsHold
  BY TypeGroups, FileParts DEF IInv
<1>2. /\ i_count = 0 /\ f_count' = [e \in End |-> 1] /\ u_ofile' = [u_ofile EXCEPT ![p] = End]
  BY DEF pipe
<1>3. \A e \in End : f_count[e] = 0
  BY <1>1, <1>2, InodeCount DEF End
<1>4. \A e \in End : Users(e) = {}
  <2> TAKE e \in End
  <2>1. IsFiniteSet(Users(e))
    BY ProcCount DEF Users
  <2> QED BY <1>1, <1>3, <2>1, FS_EmptySet DEF CountsHold
<1>5. CountsHold'
  <2> SUFFICES ASSUME NEW e \in End PROVE f_count'[e] = Cardinality(Users(e)')
    BY DEF CountsHold
  <2>1. \A q \in Proc : e \notin u_ofile[q]
    BY <1>4 DEF Users
  <2>2. Users(e)' = {p}
    BY <1>1, <1>2, <2>1 DEF Users, FileTypes
  <2> QED BY <1>2, <2>2, FS_Singleton
<1>6. u_ofile' \in [Proc -> SUBSET End] /\ f_count' = [e \in End |-> f_count'[e]]
  BY <1>1, <1>2 DEF FileTypes
<1> QED BY <1>5, <1>6, CountTypes

\* A process closes an end.
LEMMA FcloseCounts ==
    ASSUME IInv, NEW p \in Proc, NEW e \in End, fclose(p, e)
    PROVE  FileTypes' /\ CountsHold'
<1>1. FileTypes /\ CountsHold
  BY TypeGroups, FileParts DEF IInv
<1>2. /\ e \in u_ofile[p]
      /\ u_ofile' = [u_ofile EXCEPT ![p] = @ \ {e}]
      /\ f_count' = [f_count EXCEPT ![e] = @ - 1]
  BY DEF fclose
<1>3. CountsHold'
  <2> SUFFICES ASSUME NEW d \in End PROVE f_count'[d] = Cardinality(Users(d)')
    BY DEF CountsHold
  <2>1. CASE d = e
    <3>1. Users(e)' = Users(e) \ {p} /\ p \in Users(e)
      BY <1>1, <1>2 DEF Users, FileTypes
    <3>2. IsFiniteSet(Users(e))
      BY ProcCount DEF Users
    <3>3. Cardinality(Users(e) \ {p}) = Cardinality(Users(e)) - 1
      BY <3>1, <3>2, FS_RemoveElement
    <3> QED BY <1>1, <1>2, <2>1, <3>1, <3>3 DEF CountsHold, FileTypes
  <2>2. CASE d # e
    <3>1. Users(d)' = Users(d)
      BY <1>1, <1>2, <2>2 DEF Users, FileTypes
    <3> QED BY <1>1, <1>2, <2>2, <3>1 DEF CountsHold, FileTypes
  <2> QED BY <2>1, <2>2
<1>4. u_ofile' \in [Proc -> SUBSET End] /\ f_count' = [d \in End |-> f_count'[d]]
  BY <1>1, <1>2 DEF FileTypes
<1> QED BY <1>3, <1>4, CountTypes

\* The child gets the ends of its parent.
LEMMA InheritCounts ==
    ASSUME IInv, NEW p \in Proc, NEW c \in Proc, u_state[c] = "none", c # p, InheritFiles(p, c)
    PROVE  FileTypes' /\ CountsHold'
<1>1. FileTypes /\ CountsHold /\ OwnersHold
  BY TypeGroups, FileParts DEF IInv
<1>2. /\ u_ofile' = [u_ofile EXCEPT ![c] = u_ofile[p]]
      /\ f_count' = [e \in End |-> IF e \in u_ofile[p] THEN f_count[e] + 1 ELSE f_count[e]]
  BY DEF InheritFiles
<1>3. u_ofile[c] = {}
  <2>1. c \notin BeingMade
    BY ProcFacts DEF BeingMade, IInv, Places
  <2> QED BY <1>1, <2>1 DEF OwnersHold
<1>4. CountsHold'
  <2> SUFFICES ASSUME NEW e \in End PROVE f_count'[e] = Cardinality(Users(e)')
    BY DEF CountsHold
  <2>1. IsFiniteSet(Users(e)) /\ c \notin Users(e)
    BY <1>3, ProcCount DEF Users
  <2>2. CASE e \in u_ofile[p]
    <3>1. Users(e)' = Users(e) \cup {c}
      BY <1>1, <1>2, <2>2 DEF Users, FileTypes
    <3>2. Cardinality(Users(e) \cup {c}) = Cardinality(Users(e)) + 1
      BY <2>1, FS_AddElement
    <3> QED BY <1>1, <1>2, <2>2, <3>1, <3>2 DEF CountsHold
  <2>3. CASE e \notin u_ofile[p]
    <3>1. Users(e)' = Users(e)
      BY <1>1, <1>2, <1>3, <2>3 DEF Users, FileTypes
    <3> QED BY <1>1, <1>2, <2>3, <3>1 DEF CountsHold
  <2> QED BY <2>2, <2>3
<1>5. u_ofile' \in [Proc -> SUBSET End] /\ f_count' = [e \in End |-> f_count'[e]]
  BY <1>1, <1>2 DEF FileTypes
<1> QED BY <1>4, <1>5, CountTypes

\* Nothing changes for who leaves the ends alone.
LEMMA CountsStay ==
    ASSUME IInv, UNCHANGED <<f_count, u_ofile>>
    PROVE  FileTypes' /\ CountsHold'
<1>1. FileTypes /\ CountsHold
  BY TypeGroups, FileParts DEF IInv
<1>2. \A e \in End : Users(e)' = Users(e)
  BY DEF Users
<1> QED BY <1>1, <1>2 DEF FileTypes, CountsHold

\* Every step keeps the counts of the ends.
LEMMA CountsKept ==
    ASSUME IInv, [Next]_vars
    PROVE  FileTypes' /\ CountsHold'
<1>1. CASE UNCHANGED vars
  BY <1>1, CountsStay DEF vars, pipeVars
<1>2. ASSUME NEW p \in Proc, UsePipe(p) PROVE FileTypes' /\ CountsHold'
  <2>1. CASE pipe(p)
    BY <2>1, PipeCounts
  <2>2. CASE Close(p)
    BY <2>2, FcloseCounts DEF Close
  <2>3. CASE ReadEmpty(p) \/ ReadSome(p) \/ WriteRefused(p) \/ WriteFull(p) \/ WriteSome(p)
    <3>1. UNCHANGED <<f_count, u_ofile>>
      BY <2>3 DEF ReadEmpty, ReadSome, WriteRefused, WriteFull, WriteSome, pipeVars
    <3> QED BY <3>1, CountsStay
  <2> QED BY <1>2, <2>1, <2>2, <2>3 DEF UsePipe, PipeStep
<1>3. ASSUME NEW p \in Proc, Live(p) PROVE FileTypes' /\ CountsHold'
  <2>1. CASE Fork(p)
    <3>1. MayTakeEntry /\ InheritFiles(p, Head(uprocfreelist)) /\ pc[p] = "user"
      BY <2>1 DEF Fork, newproc, Runs
    <3>2. Head(uprocfreelist) \in Proc /\ u_state[Head(uprocfreelist)] = "none"
      BY <3>1, FreeEntry
    <3>3. Head(uprocfreelist) # p
      BY <3>1, <3>2 DEF IInv, Places
    <3> QED BY <3>1, <3>2, <3>3, InheritCounts
  <2>2. CASE ExitClose(p)
    BY <2>2, FcloseCounts DEF ExitClose
  <2>3. CASE ForkEnd(p) \/ ForkFails(p) \/ Exit(p) \/ ExitEnd(p) \/ Wait(p) \/ LeaveParent(p)
    <3>1. UNCHANGED <<f_count, u_ofile>>
      BY <2>3 DEF ForkEnd, ForkFails, Exit, ExitEnd, Wait, LeaveParent, pipeVars
    <3> QED BY <3>1, CountsStay
  <2> QED BY <1>3, <2>1, <2>2, <2>3 DEF Live
<1> QED BY <1>1, <1>2, <1>3 DEF Next
\* Every step keeps the ends with processes that run or are being made.
LEMMA OwnersKept ==
    ASSUME IInv, [Next]_vars
    PROVE  OwnersHold'
<1>0. OwnersHold /\ FamilyTypes /\ FileTypes /\ Places
  BY TypeGroups, FileParts DEF IInv
<1>1. ASSUME UNCHANGED familyVars, NEW p \in Proc, u_state[p] = "SRUN",
             \A q \in Proc \ {p} : u_ofile'[q] = u_ofile[q]
      PROVE  OwnersHold'
  BY <1>0, <1>1 DEF OwnersHold, familyVars, BeingMade
<1>2. ASSUME UNCHANGED u_ofile, UNCHANGED newchild,
             \A q \in Proc : u_state[q] = "SRUN" => u_state'[q] = "SRUN" \/ u_ofile[q] = {}
      PROVE  OwnersHold'
  BY <1>0, <1>2 DEF OwnersHold, BeingMade
<1>3. CASE UNCHANGED vars
  BY <1>2, <1>3 DEF vars, familyVars, pipeVars
<1>4. ASSUME NEW p \in Proc, UsePipe(p) PROVE OwnersHold'
  <2>1. UNCHANGED familyVars /\ u_state[p] = "SRUN"
    BY <1>0, <1>4, UsePipeFamily DEF Places
  <2>2. \A q \in Proc \ {p} : u_ofile'[q] = u_ofile[q]
    <3>1. CASE pipe(p)
      BY <1>0, <3>1 DEF pipe, FileTypes
    <3>2. CASE Close(p)
      BY <1>0, <3>2 DEF Close, fclose, FileTypes
    <3>3. CASE ReadEmpty(p) \/ ReadSome(p) \/ WriteRefused(p) \/ WriteFull(p) \/ WriteSome(p)
      BY <3>3 DEF ReadEmpty, ReadSome, WriteRefused, WriteFull, WriteSome, pipeVars
    <3> QED BY <1>4, <3>1, <3>2, <3>3 DEF UsePipe, PipeStep
  <2> QED BY <1>1, <2>1, <2>2
<1>5. ASSUME NEW p \in Proc, Live(p) PROVE OwnersHold'
  <2>1. CASE Fork(p)
    <3> DEFINE c == Head(uprocfreelist)
    <3>1. /\ MayTakeEntry /\ pc[p] = "user" /\ u_state' = [u_state EXCEPT ![c] = "SNULL"]
          /\ newchild' = [newchild EXCEPT ![p] = c]
          /\ u_ofile' = [u_ofile EXCEPT ![c] = u_ofile[p]]
      BY <2>1 DEF Fork, newproc, Runs, TakeEntry, InheritFiles
    <3>2. c \in Proc /\ u_state[c] = "none"
      BY <3>1, FreeEntry
    <3> HIDE DEF c
    <3>3. newchild[p] = NULL
      BY <1>0, <3>1 DEF Places
    <3>4. c \in BeingMade' /\ BeingMade \subseteq BeingMade'
      BY <1>0, <3>1, <3>2, <3>3, ProcFacts DEF BeingMade, FamilyTypes
    <3> QED BY <1>0, <3>1, <3>2, <3>4 DEF OwnersHold, FamilyTypes, FileTypes
  <2>2. CASE ForkEnd(p)
    <3> DEFINE c == newchild[p]
    <3>1. /\ pc[p] = "newproc" /\ u_state' = [u_state EXCEPT ![c] = "SRUN"]
          /\ newchild' = [newchild EXCEPT ![p] = NULL] /\ UNCHANGED u_ofile
      BY <2>2 DEF ForkEnd, newproc_end, Runs, pipeVars
    <3>2. c \in Proc
      BY <1>0, <3>1 DEF Places, FamilyTypes
    <3>3. BeingMade \subseteq BeingMade' \cup {c}
      BY <1>0, <3>1 DEF BeingMade, FamilyTypes
    <3> HIDE DEF c
    <3> QED BY <1>0, <3>1, <3>2, <3>3 DEF OwnersHold, FamilyTypes
  <2>3. CASE ForkFails(p)
    <3>1. /\ MayTakeEntry /\ u_state' = [u_state EXCEPT ![Head(uprocfreelist)] = "SNULL"]
          /\ UNCHANGED newchild /\ UNCHANGED u_ofile
      BY <2>3 DEF ForkFails, newproc_fails, TakeEntry, pipeVars
    <3> QED BY <1>0, <1>2, <3>1, FreeEntry DEF FamilyTypes
  <2>4. CASE Exit(p) \/ LeaveParent(p)
    BY <1>2, <2>4 DEF Exit, kexit, LeaveParent, setppid, familyVars, pipeVars
  <2>5. CASE ExitClose(p)
    <3>1. UNCHANGED familyVars /\ pc[p] = "kexit" /\ \A q \in Proc \ {p} : u_ofile'[q] = u_ofile[q]
      BY <1>0, <2>5 DEF ExitClose, fclose, Runs, FileTypes
    <3> QED BY <1>0, <1>1, <3>1 DEF Places
  <2>6. CASE ExitEnd(p)
    <3>1. u_ofile[p] = {} /\ UNCHANGED newchild /\ UNCHANGED u_ofile /\ u_state' = [u_state EXCEPT ![p] = "SZOMBIE"]
      BY <2>6 DEF ExitEnd, kexit_end, pipeVars
    <3> QED BY <1>0, <1>2, <3>1 DEF FamilyTypes
  <2>7. CASE Wait(p)
    <3>1. UNCHANGED newchild /\ UNCHANGED u_ofile
      BY <2>7 DEF Wait, wait_found, wait_none, wait_sleeps, familyVars, pipeVars
    <3>2. \A q \in Proc : u_state[q] = "SRUN" => u_state'[q] = "SRUN"
      <4>1. CASE wait_found(p)
        BY <1>0, <4>1 DEF wait_found, FamilyTypes
      <4>2. CASE wait_none(p) \/ wait_sleeps(p)
        BY <4>2 DEF wait_none, wait_sleeps, familyVars
      <4> QED BY <2>7, <4>1, <4>2 DEF Wait
    <3> QED BY <1>2, <3>1, <3>2
  <2> QED BY <1>5, <2>1, <2>2, <2>3, <2>4, <2>5, <2>6, <2>7 DEF Live
<1> QED BY <1>3, <1>4, <1>5 DEF Next

-----------------------------------------------------------------------------
(* Sleepers *)

SleepInv == PcTypes /\ Sleeping

\* EVENTDONE only wakes.
LEMMA EventDoneWakes ==
    ASSUME PcTypes, NEW done \in SUBSET Event, EventDone(done)
    PROVE  /\ u_sema' \in [Proc -> Event \cup {NULL}] /\ occurred' \subseteq Event
           /\ \A q \in Proc : u_sema'[q] = u_sema[q] \/ u_sema'[q] = NULL
           /\ \A q \in Proc : u_sema'[q] \notin done
           /\ \A q \in Proc : u_sema[q] \notin done => u_sema'[q] = u_sema[q]
<1>1. /\ occurred' = occurred \cup done
      /\ u_sema' = [p \in Proc |-> IF u_sema[p] \in done THEN NULL ELSE u_sema[p]]
  BY DEF EventDone
<1>2. NULL \notin done
  BY EventsDiffer
<1> QED BY <1>1, <1>2 DEF PcTypes

\* Steps where every other process stays where it is or wakes up.
LEMMA SleepingMoves ==
    ASSUME IInv, \A q \in Proc : \/ u_sema'[q] = NULL
                                 \/ u_sema'[q] = u_sema[q] /\ pc'[q] = pc[q]
                                 \/ Asleep(q)'
    PROVE  Sleeping'
BY DEF IInv, Sleeping, Asleep

\* The calls about a pipe, from what they do to sleepers.
LEMMA UsePipeSleep ==
    ASSUME IInv, NEW p \in Proc, UsePipe(p)
    PROVE  /\ SleepInv'
           /\ \A q \in Proc : u_sema'[q] \in {u_sema[q], NULL, i_notempty, i_notfull}
<1>0. PcTypes /\ Sleeping
  BY TypeGroups DEF IInv
<1>1. /\ i_notempty \in Event /\ i_notfull \in Event /\ NULL \notin Event
  BY EventsDiffer, UProcAssumption
<1>2. pc' \in [Proc -> {"none", "user", "read", "write", "newproc", "kexit", "wait"}]
  BY <1>0, UsePipeFamily DEF PcTypes
<1>3. ASSUME u_sema' \in [Proc -> Event \cup {NULL}], occurred' \subseteq Event,
             pc' = [pc EXCEPT ![p] = pc'[p]],
             \A q \in Proc : u_sema'[q] = u_sema[q] \/ u_sema'[q] = NULL,
             u_sema[p] = NULL
      PROVE  /\ SleepInv'
             /\ \A q \in Proc : u_sema'[q] \in {u_sema[q], NULL, i_notempty, i_notfull}
  BY <1>0, <1>2, <1>3, SleepingMoves DEF SleepInv, PcTypes
<1>4. ASSUME NEW e \in {i_notempty, i_notfull}, NEW where \in {"read", "write"},
             e = i_notempty <=> where = "read",
             pc' = [pc EXCEPT ![p] = where], u_sema[p] = NULL,
             u_sema' \in [Proc -> Event \cup {NULL}], occurred' \subseteq Event,
             u_sema'[p] \in {NULL, e},
             \A q \in Proc \ {p} : u_sema'[q] = u_sema[q] \/ u_sema'[q] = NULL
      PROVE  /\ SleepInv'
             /\ \A q \in Proc : u_sema'[q] \in {u_sema[q], NULL, i_notempty, i_notfull}
  <2>1. Asleep(p)' \/ u_sema'[p] = NULL
    BY <1>0, <1>4 DEF Asleep, PcTypes
  <2>2. \A q \in Proc \ {p} : pc'[q] = pc[q]
    BY <1>0, <1>4 DEF PcTypes
  <2> QED BY <1>2, <1>4, <2>1, <2>2, SleepingMoves DEF SleepInv, PcTypes
<1>5. pc' = [pc EXCEPT ![p] = pc'[p]]
  BY <1>0, UsePipeFamily DEF PcTypes
<1>6. CASE pipe(p)
  BY <1>0, <1>1, <1>3, <1>5, <1>6 DEF pipe, Runs, PcTypes
<1>7. CASE Close(p)
  <2>1. PICK e \in End : fclose(p, e)
    BY <1>7 DEF Close
  <2>2. UNCHANGED <<occurred, u_sema>> \/ EventDone({i_notfull}) \/ EventDone({i_notempty})
    BY <2>1 DEF fclose
  <2>3. /\ u_sema' \in [Proc -> Event \cup {NULL}] /\ occurred' \subseteq Event
        /\ \A q \in Proc : u_sema'[q] = u_sema[q] \/ u_sema'[q] = NULL
    <3>1. {i_notfull} \in SUBSET Event /\ {i_notempty} \in SUBSET Event
      BY <1>1
    <3> QED BY <1>0, <2>2, <3>1, EventDoneWakes DEF PcTypes
  <2> QED BY <1>3, <1>5, <1>7, <2>3 DEF Close, Runs
<1>8. CASE ReadEmpty(p)
  <2>1. u_sema[p] = NULL /\ UNCHANGED occurred
    BY <1>8 DEF ReadEmpty, Reads, Runs
  <2>2. CASE UNCHANGED u_sema
    BY <1>0, <1>3, <1>5, <2>1, <2>2 DEF PcTypes
  <2>3. CASE Goto(p, "read") /\ Sleeps(p, i_notempty)
    <3>1. /\ u_sema' = [u_sema EXCEPT ![p] = IF i_notempty \in occurred THEN NULL ELSE i_notempty]
          /\ pc' = [pc EXCEPT ![p] = "read"]
      BY <2>3 DEF Sleeps, Goto
    <3> QED BY <1>0, <1>1, <1>4, <2>1, <3>1 DEF PcTypes
  <2> QED BY <1>8, <2>2, <2>3 DEF ReadEmpty
<1>9. CASE ReadSome(p)
  <2>1. /\ u_sema[p] = NULL
        /\ \/ UNCHANGED <<occurred, u_sema>>
           \/ /\ occurred' = (occurred \ {i_notempty}) \cup {i_notfull}
              /\ u_sema' = [q \in Proc |-> IF u_sema[q] = i_notfull THEN NULL ELSE u_sema[q]]
    BY <1>9 DEF ReadSome, Reads, Runs
  <2> QED BY <1>0, <1>1, <1>3, <1>5, <2>1 DEF PcTypes
<1>10. CASE WriteRefused(p)
  BY <1>0, <1>1, <1>3, <1>5, <1>10 DEF WriteRefused, Writes, Runs, PcTypes
<1>11. CASE WriteFull(p)
  <2>1. u_sema[p] = NULL /\ UNCHANGED occurred
    BY <1>11 DEF WriteFull, Writes, Runs
  <2>2. CASE UNCHANGED u_sema
    BY <1>0, <1>3, <1>5, <2>1, <2>2 DEF PcTypes
  <2>3. CASE Goto(p, "write") /\ Sleeps(p, i_notfull)
    <3>1. /\ u_sema' = [u_sema EXCEPT ![p] = IF i_notfull \in occurred THEN NULL ELSE i_notfull]
          /\ pc' = [pc EXCEPT ![p] = "write"]
      BY <2>3 DEF Sleeps, Goto
    <3> QED BY <1>0, <1>1, <1>4, <2>1, <3>1, EventsDiffer DEF PcTypes
  <2> QED BY <1>11, <2>2, <2>3 DEF WriteFull, WriteWaits
<1>12. CASE WriteSome(p)
  <2>1. /\ u_sema[p] = NULL
        /\ occurred' \subseteq {i_notempty} \cup occurred
        /\ \/ u_sema' = [q \in Proc |-> IF u_sema[q] = i_notempty THEN NULL ELSE u_sema[q]]
           \/ /\ u_sema' = [q \in Proc |-> IF q = p THEN i_notfull
                                           ELSE IF u_sema[q] = i_notempty THEN NULL ELSE u_sema[q]]
              /\ pc' = [pc EXCEPT ![p] = "write"]
    <3>1. PICK n \in Asked(p) :
             LET room == PIPESZ - Len(area)
                 count == IF n <= room THEN n ELSE room
                 readers == { q \in Proc : u_sema[q] = i_notempty }
             IN  /\ Writes(p)
                 /\ occurred' = {i_notempty} \cup (IF count = room THEN occurred \ {i_notfull} ELSE occurred)
                 /\ \/ u_sema' = [q \in Proc |-> IF q \in readers THEN NULL ELSE u_sema[q]]
                    \/ /\ WriteWaits(p, n - count)
                       /\ u_sema' = [q \in Proc |-> IF q = p THEN i_notfull
                                               ELSE IF q \in readers THEN NULL ELSE u_sema[q]]
      BY <1>12 DEF WriteSome
    <3> QED BY <3>1 DEF Writes, Runs, WriteWaits, Goto
  <2>2. CASE u_sema' = [q \in Proc |-> IF u_sema[q] = i_notempty THEN NULL ELSE u_sema[q]]
    BY <1>0, <1>1, <1>3, <1>5, <2>1, <2>2 DEF PcTypes
  <2>3. CASE /\ u_sema' = [q \in Proc |-> IF q = p THEN i_notfull
                                          ELSE IF u_sema[q] = i_notempty THEN NULL ELSE u_sema[q]]
             /\ pc' = [pc EXCEPT ![p] = "write"]
    BY <1>0, <1>1, <1>4, <2>1, <2>3, EventsDiffer DEF PcTypes
  <2> QED BY <2>1, <2>2, <2>3
<1> QED BY <1>6, <1>7, <1>8, <1>9, <1>10, <1>11, <1>12 DEF UsePipe, PipeStep
\* EVENTWAIT and EVENTDONE of fork, exit and wait.
LEMMA LiveSleep ==
    ASSUME IInv, NEW p \in Proc, Live(p)
    PROVE  SleepInv'
<1>0. PcTypes /\ Sleeping /\ FamilyTypes /\ Places
  BY TypeGroups DEF IInv
<1>1. ASSUME u_sema' \in [Proc -> Event \cup {NULL}], occurred' \subseteq Event,
             pc' \in [Proc -> {"none", "user", "read", "write", "newproc", "kexit", "wait"}],
             \A q \in Proc : \/ u_sema'[q] = NULL
                             \/ u_sema'[q] = u_sema[q] /\ pc'[q] = pc[q]
                             \/ Asleep(q)'
      PROVE  SleepInv'
  BY <1>1, SleepingMoves DEF SleepInv, PcTypes
<1>2. CASE Fork(p)
  BY <1>0, <1>1, <1>2 DEF Fork, newproc, Runs, PcTypes
<1>3. CASE ForkEnd(p)
  <2> DEFINE c == newchild[p]
  <2>1. /\ pc[p] = "newproc" /\ u_sema[p] = NULL /\ UNCHANGED <<u_sema, occurred>>
        /\ pc' = [pc EXCEPT ![p] = "user", ![c] = "user"]
    BY <1>3 DEF ForkEnd, newproc_end, Runs
  <2>2. c \in Proc /\ u_state[c] = "SNULL"
    BY <1>0, <2>1 DEF Places, FamilyTypes
  <2>3. pc[c] = "none"
    BY <1>0, <2>2 DEF Places
  <2>4. u_sema[c] = NULL
    BY <1>0, <2>2, <2>3 DEF Sleeping, Asleep
  <2> HIDE DEF c
  <2> QED BY <1>0, <1>1, <2>1, <2>2, <2>4 DEF PcTypes
<1>4. CASE ForkFails(p) \/ LeaveParent(p)
  BY <1>0, <1>1, <1>4 DEF ForkFails, newproc_fails, LeaveParent, setppid, uprocVars, PcTypes
<1>5. CASE Exit(p)
  BY <1>0, <1>1, <1>5 DEF Exit, kexit, Runs, Goto, PcTypes
<1>6. CASE ExitClose(p)
  <2>1. PICK e \in End : fclose(p, e) /\ UNCHANGED pc
    BY <1>6 DEF ExitClose
  <2>2. UNCHANGED <<occurred, u_sema>> \/ EventDone({i_notfull}) \/ EventDone({i_notempty})
    BY <2>1 DEF fclose
  <2>3. {i_notfull} \in SUBSET Event /\ {i_notempty} \in SUBSET Event
    BY EventsDiffer
  <2>4. /\ u_sema' \in [Proc -> Event \cup {NULL}] /\ occurred' \subseteq Event
        /\ \A q \in Proc : u_sema'[q] = u_sema[q] \/ u_sema'[q] = NULL
    BY <1>0, <2>2, <2>3, EventDoneWakes DEF PcTypes
  <2> QED BY <1>0, <1>1, <2>1, <2>4 DEF PcTypes
<1>7. CASE ExitEnd(p)
  <2> DEFINE done == { u_deadchild(q) : q \in {u_parent[p]} \cup (IF ZombieChildren(p) # {} THEN {initp} ELSE {}) }
  <2>1. /\ pc[p] = "kexit" /\ u_sema[p] = NULL /\ EventDone(done)
        /\ pc' = [pc EXCEPT ![p] = "none"]
    BY <1>7 DEF ExitEnd, kexit_end, Runs, Goto
  <2>2. done \in SUBSET Event
    <3>1. u_parent[p] \in Proc
      BY <1>0, <2>1, ProcFacts DEF Places, Born
    <3> QED BY <3>1, EventsDiffer, ProcFacts
  <2> HIDE DEF done
  <2>3. /\ u_sema' \in [Proc -> Event \cup {NULL}] /\ occurred' \subseteq Event
        /\ \A q \in Proc : u_sema'[q] = u_sema[q] \/ u_sema'[q] = NULL
    BY <1>0, <2>1, <2>2, EventDoneWakes
  <2> QED BY <1>0, <1>1, <2>1, <2>3 DEF PcTypes
<1>8. CASE Wait(p)
  <2>1. CASE wait_found(p) \/ wait_none(p)
    <3>1. u_sema[p] = NULL /\ UNCHANGED u_sema /\ occurred' \subseteq occurred /\ pc' = [pc EXCEPT ![p] = "user"]
      BY <2>1 DEF wait_found, wait_none, Waits, Runs, Goto, Clear
    <3> QED BY <1>0, <1>1, <3>1 DEF PcTypes
  <2>2. CASE wait_sleeps(p)
    <3>1. /\ occurred' = occurred \ {u_deadchild(p)} /\ pc' = [pc EXCEPT ![p] = "wait"]
          /\ u_sema' = [u_sema EXCEPT ![p] = u_deadchild(p)]
      BY <2>2 DEF wait_sleeps, Goto
    <3>2. Asleep(p)'
      BY <1>0, <3>1 DEF Asleep, PcTypes
    <3> QED BY <1>0, <1>1, <3>1, <3>2, EventsDiffer DEF PcTypes
  <2> QED BY <1>8, <2>1, <2>2 DEF Wait
<1> QED BY <1>2, <1>3, <1>4, <1>5, <1>6, <1>7, <1>8 DEF Live

\* Nobody forgets a dead child: what remains to look at is who sleeps and for whom.
LEMMA ZombiesStay ==
    ASSUME IInv, \A q \in Proc : u_sema'[q] = u_deadchild(q) =>
                     \/ u_sema[q] = u_deadchild(q) /\ ZombieChildren(q)' \subseteq ZombieChildren(q)
                     \/ ZombieChildren(q)' = {}
    PROVE  NoZombieForgotten'
BY DEF IInv, NoZombieForgotten

\* Every step keeps it so.
LEMMA ZombiesKept ==
    ASSUME IInv, [Next]_vars
    PROVE  NoZombieForgotten'
<1>0. PcTypes /\ Sleeping /\ FamilyTypes /\ Places /\ FamilyExact /\ NoZombieForgotten
  BY TypeGroups DEF IInv
<1>1. ASSUME UNCHANGED <<u_state, u_child>>, \A q \in Proc : u_sema'[q] = u_deadchild(q) => u_sema[q] = u_deadchild(q)
      PROVE  NoZombieForgotten'
  BY <1>1, ZombiesStay DEF ZombieChildren
<1>2. CASE UNCHANGED vars
  BY <1>1, <1>2 DEF vars, uprocVars, familyVars
<1>3. ASSUME NEW p \in Proc, UsePipe(p) PROVE NoZombieForgotten'
  <2>1. \A q \in Proc : u_sema'[q] \in {u_sema[q], NULL, i_notempty, i_notfull}
    BY <1>3, UsePipeSleep
  <2>2. UNCHANGED familyVars
    BY <1>3, UsePipeFamily
  <2>3. \A q \in Proc : u_deadchild(q) \notin {NULL, i_notempty, i_notfull}
    BY EventsDiffer
  <2> QED BY <1>1, <2>1, <2>2, <2>3 DEF familyVars
<1>4. ASSUME NEW p \in Proc, Live(p) PROVE NoZombieForgotten'
  <2>1. CASE Fork(p) \/ ForkFails(p)
    <3> DEFINE c == Head(uprocfreelist)
    <3>1. /\ MayTakeEntry /\ UNCHANGED u_sema
          /\ u_state' = [u_state EXCEPT ![c] = "SNULL"] /\ u_child' = [u_child EXCEPT ![c] = <<>>]
      BY <2>1 DEF Fork, newproc, ForkFails, newproc_fails, TakeEntry, uprocVars
    <3>2. c \in Proc
      BY <3>1, FreeEntry
    <3> HIDE DEF c
    <3>3. ToSet(<<>>) = {}
      BY DEF ToSet
    <3>4. \A q \in Proc : ZombieChildren(q)' \subseteq ZombieChildren(q)
      <4> TAKE q \in Proc
      <4>1. \A d \in ToSet(u_child[q]) : d \in Proc
        BY <1>0 DEF FamilyExact, Born
      <4> QED BY <1>0, <3>1, <3>2, <3>3, <4>1 DEF ZombieChildren, FamilyTypes
    <3> QED BY <3>1, <3>4, ZombiesStay
  <2>2. CASE ForkEnd(p)
    <3> DEFINE c == newchild[p]
    <3>1. /\ pc[p] = "newproc" /\ UNCHANGED u_sema /\ u_state' = [u_state EXCEPT ![c] = "SRUN"]
          /\ u_child' = [u_child EXCEPT ![p] = <<c>> \o @]
      BY <2>2 DEF ForkEnd, newproc_end, Runs
    <3>2. c \in Proc
      BY <1>0, <3>1 DEF Places, FamilyTypes
    <3> HIDE DEF c
    <3>3. ToSet(<<c>> \o u_child[p]) = ToSet(u_child[p]) \cup {c}
      BY <1>0, <3>2, ConsElements DEF FamilyTypes
    <3>4. \A q \in Proc : ZombieChildren(q)' \subseteq ZombieChildren(q)
      <4> TAKE q \in Proc
      <4>1. \A d \in ToSet(u_child[q]) : d \in Proc
        BY <1>0 DEF FamilyExact, Born
      <4> QED BY <1>0, <3>1, <3>2, <3>3, <4>1 DEF ZombieChildren, FamilyTypes
    <3> QED BY <3>1, <3>4, ZombiesStay
  <2>3. CASE Exit(p)
    BY <1>1, <2>3 DEF Exit, kexit, familyVars
  <2>4. CASE ExitClose(p)
    <3>1. UNCHANGED familyVars
      BY <2>4 DEF ExitClose
    <3>2. PICK e \in End : fclose(p, e)
      BY <2>4 DEF ExitClose
    <3>3. \A q \in Proc : u_sema'[q] = u_sema[q] \/ u_sema'[q] = NULL
      BY <1>0, <3>2, EventDoneWakes, EventsDiffer DEF fclose, PcTypes
    <3> QED BY <1>1, <3>1, <3>3, EventsDiffer DEF familyVars
  <2>5. CASE ExitEnd(p)
    <3> DEFINE done == { u_deadchild(q) : q \in {u_parent[p]} \cup (IF ZombieChildren(p) # {} THEN {initp} ELSE {}) }
    <3>1. /\ pc[p] = "kexit" /\ EventDone(done)
          /\ u_state' = [u_state EXCEPT ![p] = "SZOMBIE"]
          /\ u_child' = [u_child EXCEPT ![initp] = u_child[p] \o @, ![p] = <<>>]
      BY <2>5 DEF ExitEnd, kexit_end, Runs
    <3>2. p \in Born \ {initp} /\ u_parent[p] \in Proc /\ initp \in Proc
      BY <1>0, <3>1, ProcFacts DEF Places, Born
    <3>3. done \in SUBSET Event
      BY <3>2, EventsDiffer
    <3>4. /\ u_deadchild(u_parent[p]) \in done
          /\ ZombieChildren(p) # {} => u_deadchild(initp) \in done
      OBVIOUS
    <3> HIDE DEF done
    <3>5. \A q \in Proc : (u_sema'[q] = u_sema[q] \/ u_sema'[q] = NULL) /\ u_sema'[q] \notin done
      BY <1>0, <3>1, <3>3, EventDoneWakes
    <3>6. ToSet(u_child[p] \o u_child[initp]) = ToSet(u_child[p]) \cup ToSet(u_child[initp])
      BY <1>0, <3>2, ConcatElements DEF FamilyTypes
    <3>7. ASSUME NEW q \in Proc, u_sema'[q] = u_deadchild(q)
          PROVE  u_sema[q] = u_deadchild(q) /\ ZombieChildren(q)' \subseteq ZombieChildren(q)
      <4>1. u_sema[q] = u_deadchild(q) /\ q # u_parent[p] /\ (q = initp => ZombieChildren(p) = {})
        BY <3>4, <3>5, <3>7, EventsDiffer
      <4>2. p \notin ToSet(u_child[q])
        BY <1>0, <3>2, <4>1 DEF FamilyExact
      <4>3. pc[q] = "wait"
        BY <1>0, <4>1, EventsDiffer DEF Sleeping, Asleep
      <4>4. q # p
        BY <3>1, <4>3
      <4>5. ToSet(u_child'[q]) = IF q = initp THEN ToSet(u_child[p]) \cup ToSet(u_child[initp]) ELSE ToSet(u_child[q])
        BY <1>0, <3>1, <3>2, <3>6, <4>4 DEF FamilyTypes
      <4>6. \A d \in ToSet(u_child[q]) \cup ToSet(u_child[p]) : d \in Proc /\ (d # p => u_state'[d] = u_state[d])
        BY <1>0, <3>1 DEF FamilyExact, Born, FamilyTypes
      <4>7. p \notin ToSet(u_child[p])
        BY <1>0, <3>2 DEF FamilyExact, Places
      <4> QED BY <4>1, <4>2, <4>5, <4>6, <4>7 DEF ZombieChildren
    <3> QED BY <3>7, ZombiesStay
  <2>6. CASE Wait(p)
    <3>1. CASE wait_found(p)
      <4>1. PICK i \in DOMAIN u_child[p] :
               /\ u_child' = [u_child EXCEPT ![p] = RemoveAt(@, i)]
               /\ u_state' = [u_state EXCEPT ![u_child[p][i]] = "none"]
        BY <3>1 DEF wait_found
      <4>2. /\ ToSet(RemoveAt(u_child[p], i)) \subseteq ToSet(u_child[p])
            /\ u_child[p][i] \in Proc
        <5>1. /\ ToSet(RemoveAt(u_child[p], i)) = ToSet(u_child[p]) \ {u_child[p][i]}
              /\ u_child[p][i] \in Proc
          BY DeadChild, Zenon
        <5> QED BY <5>1
      <4>3. \A q \in Proc : ToSet(u_child'[q]) \subseteq ToSet(u_child[q])
        BY <1>0, <4>1, <4>2 DEF FamilyTypes
      <4>4. \A q \in Proc : u_state'[q] = "SZOMBIE" => u_state[q] = "SZOMBIE"
        BY <1>0, <4>1, <4>2 DEF FamilyTypes
      <4>5. \A q \in Proc : ToSet(u_child[q]) \subseteq Proc
        BY <1>0 DEF FamilyExact, Born
      <4>6. \A q \in Proc : ZombieChildren(q)' \subseteq ZombieChildren(q)
        BY <4>3, <4>4, <4>5 DEF ZombieChildren
      <4>7. UNCHANGED u_sema
        BY <3>1 DEF wait_found
      <4> QED BY <4>6, <4>7, ZombiesStay
    <3>2. CASE wait_none(p)
      BY <1>1, <3>2 DEF wait_none, familyVars
    <3>3. CASE wait_sleeps(p)
      <4>1. /\ ZombieChildren(p) = {} /\ u_sema' = [u_sema EXCEPT ![p] = u_deadchild(p)] /\ UNCHANGED familyVars
        BY <3>3 DEF wait_sleeps
      <4>2. \A q \in Proc : ZombieChildren(q)' = ZombieChildren(q)
        BY <4>1 DEF ZombieChildren, familyVars
      <4> QED BY <1>0, <4>1, <4>2, ZombiesStay DEF PcTypes
    <3> QED BY <2>6, <3>1, <3>2, <3>3 DEF Wait
  <2>7. CASE LeaveParent(p)
    <3>1. pc[p] = "user" /\ UNCHANGED <<u_state, u_sema>> /\ p # initp /\ u_parent[p] # initp
      BY <2>7 DEF LeaveParent, setppid, Runs, uprocVars
    <3>2. PICK i \in DOMAIN u_child[u_parent[p]] :
             /\ u_child[u_parent[p]][i] = p
             /\ u_child' = [u_child EXCEPT ![u_parent[p]] = RemoveAt(@, i), ![initp] = <<p>> \o @]
      BY <2>7 DEF LeaveParent, setppid
    <3>3. p \in Born \ {initp} /\ u_parent[p] \in Proc /\ initp \in Proc /\ u_state[p] = "SRUN"
      BY <1>0, <3>1, ProcFacts DEF Places, Born
    <3>4. ToSet(RemoveAt(u_child[u_parent[p]], i)) \subseteq ToSet(u_child[u_parent[p]])
      <4> DEFINE par == u_parent[p]
      <4> HIDE DEF par
      <4>1. par \in Proc /\ i \in DOMAIN u_child[par]
        BY <3>2, <3>3 DEF par
      <4>2. ToSet(RemoveAt(u_child[par], i)) = ToSet(u_child[par]) \ {u_child[par][i]}
        BY <4>1, DeadChild
      <4> QED BY <4>2 DEF par
    <3>5. ToSet(<<p>> \o u_child[initp]) = ToSet(u_child[initp]) \cup {p}
      BY <1>0, <3>3, ConsElements DEF FamilyTypes
    <3>6. \A q \in Proc : ToSet(u_child'[q]) \subseteq ToSet(u_child[q]) \cup {p}
      BY <1>0, <3>1, <3>2, <3>3, <3>4, <3>5 DEF FamilyTypes
    <3>7. \A q \in Proc : ZombieChildren(q)' \subseteq ZombieChildren(q)
      BY <3>1, <3>3, <3>6 DEF ZombieChildren
    <3> QED BY <3>1, <3>7, ZombiesStay
  <2> QED BY <1>4, <2>1, <2>2, <2>3, <2>4, <2>5, <2>6, <2>7 DEF Live
<1> QED BY <1>2, <1>3, <1>4 DEF Next
-----------------------------------------------------------------------------
(* The pipe *)

PipeInv == AreaTypes /\ Using /\ NoLostWakeup

\* An end that a process has open is counted.
LEMMA CountPositive ==
    ASSUME NEW uf \in [Proc -> SUBSET End], NEW e \in End, NEW p \in Proc, e \in uf[p]
    PROVE  Cardinality({ q \in Proc : e \in uf[q] }) > 0
<1> DEFINE S == { q \in Proc : e \in uf[q] }
<1>1. IsFiniteSet(S) /\ Cardinality(S) \in 0 .. NPROC
  BY ProcCount
<1>2. S # {}
  OBVIOUS
<1>3. Cardinality(S) # 0
  BY <1>1, <1>2, FS_EmptySet
<1> QED BY <1>1, <1>3

\* An end that somebody has open has a KFILE in use, in this state
LEMMA OpenCounted ==
    ASSUME FileTypes, CountsHold
    PROVE  \A p \in Proc, e \in End : e \in u_ofile[p] => f_count[e] > 0
BY CountPositive DEF FileTypes, CountsHold, Users

\* and in the next one.
LEMMA OpenCountedNext ==
    ASSUME FileTypes', CountsHold'
    PROVE  \A p \in Proc, e \in End : e \in u_ofile'[p] => f_count'[e] > 0
BY CountPositive DEF FileTypes, CountsHold, Users

\* The invariant in terms of the two counts, in a state and in the next one.
NobodyForgotten ==
    /\ \A p \in Proc : /\ u_sema[p] = i_notempty => Empty /\ f_count["write"] > 0
                       /\ u_sema[p] = i_notfull => Full /\ f_count["read"] > 0
    /\ i_notempty \in occurred => ~Empty \/ f_count["write"] = 0
    /\ i_notfull \in occurred => ~Full \/ f_count["read"] = 0

InUse == f_count["read"] > 0 \/ f_count["write"] > 0

\* The references to the inode, by the counts of the ends, in this state
LEMMA InUseCount ==
    ASSUME FileTypes
    PROVE  i_count > 0 <=> InUse
BY InodeCount DEF InUse, End

\* and in the next one.
LEMMA InUseCountNext ==
    ASSUME FileTypes'
    PROVE  i_count' > 0 <=> InUse'
BY InodeCountNext DEF InUse, End

\* What the pipe needs of the state before a step.
LEMMA PipeFacts ==
    ASSUME IInv
    PROVE  /\ PcTypes /\ FileTypes /\ AreaTypes /\ Sleeping
           /\ InUse => NobodyForgotten /\ f_offset <= Len(area)
           /\ \A p \in Proc : pc[p] = "read" => "read" \in u_ofile[p]
           /\ \A p \in Proc : pc[p] = "write" => "write" \in u_ofile[p] /\ io_count[p] > 0
           /\ \A p \in Proc, e \in End : e \in u_ofile[p] => f_count[e] > 0
           /\ \A p \in Proc : u_sema[p] = i_notempty => pc[p] = "read"
           /\ \A p \in Proc : u_sema[p] = i_notfull => pc[p] = "write"
           /\ \A e \in End : f_count[e] \in Nat
           /\ "read" \in End /\ "write" \in End
           /\ i_count = 2 <=> f_count["read"] > 0 /\ f_count["write"] > 0
           /\ i_count = 0 <=> f_count["read"] = 0 /\ f_count["write"] = 0
           /\ i_count \in 0 .. 2
<1>1. PcTypes /\ FileTypes /\ AreaTypes /\ Sleeping /\ CountsHold /\ Using /\ NoLostWakeup
  BY TypeGroups, FileParts DEF IInv
<1>2. InUse => NobodyForgotten /\ f_offset <= Len(area)
  BY <1>1, InUseCount DEF Using, NoLostWakeup, NobodyForgotten
<1>3. \A p \in Proc, e \in End : e \in u_ofile[p] => f_count[e] > 0
  BY <1>1, OpenCounted
<1>4. /\ \A p \in Proc : u_sema[p] = i_notempty => pc[p] = "read"
      /\ \A p \in Proc : u_sema[p] = i_notfull => pc[p] = "write"
  BY <1>1, EventsDiffer DEF Sleeping, Asleep
<1>5. "read" \in End /\ "write" \in End
  BY DEF End
<1> QED BY <1>1, <1>2, <1>3, <1>4, <1>5, InodeCount DEF Using

\* What there is to show of the next state.
LEMMA PipeGoal ==
    ASSUME AreaTypes', FileTypes', InUse' => NobodyForgotten' /\ f_offset' <= Len(area'),
           \A q \in Proc : pc'[q] = "read" => "read" \in u_ofile'[q],
           \A q \in Proc : pc'[q] = "write" => "write" \in u_ofile'[q] /\ io_count'[q] > 0
    PROVE  PipeInv'
BY InUseCountNext DEF PipeInv, Using, NoLostWakeup, NobodyForgotten

\* Steps that leave the pipe alone; readers and writers may only leave.
LEMMA PipeStays ==
    ASSUME IInv, FileTypes', UNCHANGED <<nkfile, area, f_offset, ndelay, io_count>>,
           \A e \in End : f_count'[e] > 0 <=> f_count[e] > 0,
           \A q \in Proc : u_sema'[q] \in {i_notempty, i_notfull} => u_sema'[q] = u_sema[q],
           \A e \in {i_notempty, i_notfull} : e \in occurred' => e \in occurred,
           \A q \in Proc : pc'[q] \in {"read", "write"} => pc'[q] = pc[q] /\ u_ofile'[q] = u_ofile[q]
    PROVE  PipeInv'
<1>1. /\ AreaTypes /\ (InUse => NobodyForgotten /\ f_offset <= Len(area))
      /\ \A p \in Proc : pc[p] = "read" => "read" \in u_ofile[p]
      /\ \A p \in Proc : pc[p] = "write" => "write" \in u_ofile[p] /\ io_count[p] > 0
      /\ "read" \in End /\ "write" \in End /\ \A e \in End : f_count[e] \in Nat
  BY PipeFacts
<1>2. AreaTypes'
  BY <1>1 DEF AreaTypes
<1>3. \A e \in End : f_count'[e] \in Nat
  BY InodeCountNext
<1>4. /\ InUse' => InUse /\ (Empty' <=> Empty) /\ (Full' <=> Full)
      /\ \A e \in End : f_count'[e] = 0 <=> f_count[e] = 0
  BY <1>1, <1>3 DEF InUse, Empty, Full
<1>5. InUse' => NobodyForgotten' /\ f_offset' <= Len(area')
  BY <1>1, <1>4 DEF NobodyForgotten
<1> QED BY <1>1, <1>2, <1>5, PipeGoal

\* A new pipe has nobody asleep.
LEMMA PipeNewKeeps ==
    ASSUME IInv, FileTypes', NEW p \in Proc, pipe(p)
    PROVE  PipeInv'
<1>1. /\ pc[p] = "user" /\ i_count = 0
      /\ area' = <<>> /\ f_offset' = 0 /\ ndelay' \in NDELAYS
      /\ f_count' = [e \in End |-> 1]
      /\ u_ofile' = [u_ofile EXCEPT ![p] = End]
      /\ occurred' = (occurred \ {i_notempty}) \cup {i_notfull}
      /\ UNCHANGED <<pc, u_sema, io_count, nkfile>>
  BY DEF pipe, Runs
<1>2. /\ f_count["read"] = 0 /\ f_count["write"] = 0
      /\ \A q \in Proc : "read" \notin u_ofile[q] /\ "write" \notin u_ofile[q]
  BY <1>1, PipeFacts
<1>3. \A q \in Proc : pc[q] # "read" /\ pc[q] # "write" /\ u_sema[q] # i_notempty /\ u_sema[q] # i_notfull
  BY <1>2, PipeFacts
<1>4. AreaTypes'
  BY <1>1, PipeFacts, PipeAssumption DEF AreaTypes
<1>5. f_count'["read"] = 1 /\ f_count'["write"] = 1 /\ ~Full' /\ Empty'
  BY <1>1, PipeFacts, PipeAssumption DEF Full, Empty
<1>6. NobodyForgotten' /\ f_offset' <= Len(area')
  BY <1>1, <1>3, <1>5, EventsDiffer DEF NobodyForgotten
<1> QED BY <1>1, <1>3, <1>4, <1>6, PipeGoal

\* An end that is closed, by a process that is not in read or write.
LEMMA FcloseKeeps ==
    ASSUME IInv, FileTypes', CountsHold', NEW p \in Proc, pc[p] \in {"user", "kexit"}, UNCHANGED pc,
           NEW e \in End, fclose(p, e)
    PROVE  PipeInv'
<1>1. /\ e \in u_ofile[p]
      /\ u_ofile' = [u_ofile EXCEPT ![p] = @ \ {e}]
      /\ f_count' = [f_count EXCEPT ![e] = @ - 1]
      /\ UNCHANGED <<nkfile, f_offset, ndelay, io_count>>
  BY DEF fclose
<1>2. /\ FileTypes /\ f_count[e] > 0 /\ f_count[e] \in Nat
      /\ \A q \in Proc : pc'[q] \in {"read", "write"} => pc'[q] = pc[q] /\ u_ofile'[q] = u_ofile[q]
  BY <1>1, PipeFacts DEF FileTypes
<1>3. CASE f_count[e] > 1
  <2>1. UNCHANGED <<area, occurred, u_sema>>
    BY <1>3 DEF fclose
  <2>2. \A d \in End : f_count'[d] > 0 <=> f_count[d] > 0
    BY <1>1, <1>2, <1>3 DEF FileTypes
  <2> QED BY <1>1, <1>2, <2>1, <2>2, PipeStays
<1>4. CASE f_count[e] = 1
  <2> DEFINE done == IF e = "read" THEN i_notfull ELSE i_notempty
  <2>1. EventDone({done}) /\ area' = IF i_count = 1 THEN <<>> ELSE area
    BY <1>4 DEF fclose
  <2>2. f_count'[e] = 0 /\ \A d \in End : d # e => f_count'[d] = f_count[d]
    BY <1>1, <1>2, <1>4 DEF FileTypes
  <2>3. {done} \in SUBSET Event
    BY EventsDiffer
  <2>4. /\ \A q \in Proc : u_sema'[q] = u_sema[q] \/ u_sema'[q] = NULL
        /\ \A q \in Proc : u_sema'[q] # done
        /\ occurred' = occurred \cup {done}
    BY <2>1, <2>3, EventDoneWakes, PipeFacts DEF EventDone
  <2>5. AreaTypes'
    BY <1>1, <2>1, PipeFacts, PipeAssumption DEF AreaTypes
  <2>6. \A q \in Proc : u_sema'[q] = i_notempty \/ u_sema'[q] = i_notfull => u_sema'[q] = u_sema[q] /\ u_ofile'[q] = u_ofile[q]
    BY <1>1, <1>2, <2>4, EventsDiffer, PipeFacts
  <2>7. \A q \in Proc : /\ u_sema'[q] = i_notempty => f_count'["read"] > 0
                        /\ u_sema'[q] = i_notfull => f_count'["write"] > 0
    BY <2>6, OpenCountedNext, PipeFacts
  <2>8. ASSUME InUse' PROVE NobodyForgotten' /\ f_offset' <= Len(area')
    <3>1. i_count = 2 /\ InUse
      BY <1>1, <1>2, <1>4, <2>2, <2>8, PipeFacts DEF InUse, End
    <3>2. UNCHANGED <<area, f_offset>> /\ NobodyForgotten /\ f_offset <= Len(area)
      BY <1>1, <2>1, <3>1, PipeFacts
    <3>3. CASE e = "read"
      BY <2>2, <2>4, <2>7, <3>2, <3>3, EventsDiffer, PipeFacts DEF NobodyForgotten, Empty, Full
    <3>4. CASE e = "write"
      BY <2>2, <2>4, <2>7, <3>2, <3>4, EventsDiffer, PipeFacts DEF NobodyForgotten, Empty, Full
    <3> QED BY <3>2, <3>3, <3>4 DEF End
  <2> QED BY <1>1, <1>2, <2>5, <2>8, PipeFacts, PipeGoal
<1> QED BY <1>2, <1>3, <1>4
\* A reader of an empty pipe.
LEMMA ReadEmptyKeeps ==
    ASSUME IInv, NEW p \in Proc, ReadEmpty(p)
    PROVE  PipeInv'
<1>1. /\ Reads(p) /\ Empty
      /\ UNCHANGED <<occurred, nkfile, area, f_offset, ndelay, f_count, u_ofile, io_count>>
  BY DEF ReadEmpty, pipeVars
<1>2. \/ pc' = [pc EXCEPT ![p] = "user"] /\ UNCHANGED u_sema
      \/ /\ i_count = 2 /\ pc' = [pc EXCEPT ![p] = "read"]
         /\ u_sema' = [u_sema EXCEPT ![p] = IF i_notempty \in occurred THEN NULL ELSE i_notempty]
  BY DEF ReadEmpty, Answer, Goto, Sleeps
<1>3. PcTypes /\ FileTypes /\ AreaTypes /\ "read" \in u_ofile[p]
  BY <1>1, PipeFacts DEF Reads, Runs
<1>4. FileTypes' /\ AreaTypes'
  BY <1>1, <1>3 DEF FileTypes, AreaTypes
<1>5. /\ \A q \in Proc : pc'[q] = "read" => "read" \in u_ofile'[q]
      /\ \A q \in Proc : pc'[q] = "write" => "write" \in u_ofile'[q] /\ io_count'[q] > 0
  BY <1>1, <1>2, <1>3, PipeFacts DEF PcTypes
<1>6. \A q \in Proc : /\ u_sema'[q] = i_notempty => u_sema[q] = i_notempty \/ i_count = 2
                      /\ u_sema'[q] = i_notfull => u_sema[q] = i_notfull
  BY <1>2, <1>3, EventsDiffer DEF PcTypes
<1>7. (Empty' <=> Empty) /\ (Full' <=> Full) /\ (InUse' <=> InUse)
  BY <1>1 DEF Empty, Full, InUse
<1>8. InUse => NobodyForgotten' /\ f_offset' <= Len(area')
  BY <1>1, <1>6, <1>7, PipeFacts DEF NobodyForgotten
<1> QED BY <1>4, <1>5, <1>7, <1>8, PipeGoal

\* What a reader takes: part of the bytes between the place in the area and its end.
LEMMA ReadSomeFacts ==
    ASSUME IInv, NEW p \in Proc, ReadSome(p)
    PROVE  /\ "read" \in u_ofile[p] /\ InUse /\ f_offset <= Len(area)
           /\ UNCHANGED <<nkfile, ndelay, f_count, u_ofile, io_count>>
           /\ pc' = [pc EXCEPT ![p] = "user"]
           /\ \E count \in 1 .. Len(area) - f_offset :
                /\ answer' = [what |-> "bytes", bytes |-> SubSeq(area, f_offset + 1, f_offset + count)]
                /\ \/ /\ f_offset + count = Len(area) /\ f_offset' = 0 /\ area' = <<>>
                      /\ occurred' = (occurred \ {i_notempty}) \cup {i_notfull}
                      /\ u_sema' = [q \in Proc |-> IF u_sema[q] = i_notfull THEN NULL ELSE u_sema[q]]
                   \/ /\ f_offset + count < Len(area) /\ f_offset' = f_offset + count
                      /\ UNCHANGED <<area, occurred, u_sema>>
<1>1. "read" \in u_ofile[p]
  BY PipeFacts DEF ReadSome, Reads, Runs
<1>2. InUse
  BY <1>1, PipeFacts DEF InUse
<1>3. f_offset <= Len(area) /\ AreaTypes
  BY <1>2, PipeFacts
<1>4. /\ UNCHANGED <<nkfile, ndelay, f_count, u_ofile, io_count>>
      /\ pc' = [pc EXCEPT ![p] = "user"]
  BY DEF ReadSome, Answer, Goto
<1>5. PICK count \in 1 .. Len(area) - f_offset :
          /\ Answer(p, "bytes", SubSeq(area, f_offset + 1, f_offset + count))
          /\ IF f_offset + count = Len(area)
             THEN /\ f_offset' = 0 /\ area' = <<>>
                  /\ occurred' = (occurred \ {i_notempty}) \cup {i_notfull}
                  /\ u_sema' = [q \in Proc |-> IF u_sema[q] = i_notfull THEN NULL ELSE u_sema[q]]
             ELSE /\ f_offset' = f_offset + count
                  /\ UNCHANGED <<area, occurred, u_sema>>
  BY DEF ReadSome
<1>6. f_offset + count # Len(area) => f_offset + count < Len(area)
  BY <1>3 DEF AreaTypes
<1> QED BY <1>1, <1>2, <1>3, <1>4, <1>5, <1>6 DEF Answer

\* A reader that finds bytes.
LEMMA ReadSomeKeeps ==
    ASSUME IInv, NEW p \in Proc, ReadSome(p)
    PROVE  PipeInv'
<1>1. /\ "read" \in u_ofile[p] /\ InUse /\ f_offset <= Len(area)
      /\ UNCHANGED <<nkfile, ndelay, f_count, u_ofile, io_count>>
      /\ pc' = [pc EXCEPT ![p] = "user"]
  BY ReadSomeFacts
<1>2. PICK count \in 1 .. Len(area) - f_offset :
          \/ /\ f_offset + count = Len(area) /\ f_offset' = 0 /\ area' = <<>>
             /\ occurred' = (occurred \ {i_notempty}) \cup {i_notfull}
             /\ u_sema' = [q \in Proc |-> IF u_sema[q] = i_notfull THEN NULL ELSE u_sema[q]]
          \/ /\ f_offset + count < Len(area) /\ f_offset' = f_offset + count
             /\ UNCHANGED <<area, occurred, u_sema>>
  BY ReadSomeFacts
<1>3. PcTypes /\ FileTypes /\ AreaTypes /\ NobodyForgotten /\ ~Empty
  BY <1>1, PipeFacts DEF ReadSome
<1>4. FileTypes' /\ AreaTypes'
  <2>1. area' \in Seq(Byte) /\ Len(area') <= PIPESZ /\ f_offset' \in 0 .. PIPESZ
    <3>1. area \in Seq(Byte) /\ Len(area) \in Nat /\ Len(area) <= PIPESZ /\ f_offset \in 0 .. PIPESZ
      BY <1>3 DEF AreaTypes
    <3>2. CASE area' = <<>> /\ f_offset' = 0
      BY <3>2, PipeAssumption
    <3>3. CASE area' = area /\ f_offset + count < Len(area) /\ f_offset' = f_offset + count
      BY <3>1, <3>3, PipeAssumption
    <3> QED BY <1>2, <3>2, <3>3
  <2> QED BY <1>1, <1>3, <2>1 DEF FileTypes, AreaTypes
<1>5. /\ \A q \in Proc : pc'[q] = "read" => "read" \in u_ofile'[q]
      /\ \A q \in Proc : pc'[q] = "write" => "write" \in u_ofile'[q] /\ io_count'[q] > 0
  BY <1>1, <1>3, PipeFacts DEF PcTypes
<1>6. f_offset' <= Len(area')
  BY <1>1, <1>2, <1>3 DEF AreaTypes
<1>7. \A q \in Proc : u_sema'[q] # i_notempty /\ (u_sema'[q] = i_notfull => u_sema[q] = i_notfull)
  BY <1>2, <1>3, EventsDiffer DEF NobodyForgotten
<1>8. CASE f_offset + count = Len(area)
  <2>1. /\ f_offset' = 0 /\ area' = <<>> /\ i_notempty \notin occurred'
        /\ \A q \in Proc : u_sema'[q] # i_notfull
    BY <1>2, <1>8, EventsDiffer
  <2>2. ~Full' /\ Empty'
    BY <2>1, PipeAssumption DEF Full, Empty
  <2>3. NobodyForgotten'
    BY <1>7, <2>1, <2>2 DEF NobodyForgotten
  <2> QED BY <1>4, <1>5, <1>6, <2>3, PipeGoal
<1>9. CASE f_offset + count # Len(area)
  <2>1. UNCHANGED <<area, occurred, u_sema>> /\ f_offset' = f_offset + count /\ f_offset + count < Len(area)
    BY <1>2, <1>9
  <2>2. (Full' <=> Full) /\ ~Empty'
    BY <1>3, <2>1 DEF Full, Empty, AreaTypes
  <2>3. NobodyForgotten'
    BY <1>1, <1>3, <1>7, <2>1, <2>2 DEF NobodyForgotten
  <2> QED BY <1>4, <1>5, <1>6, <2>3, PipeGoal
<1> QED BY <1>8, <1>9
\* The bytes that a process in write still has to write.
LEMMA AskedSome ==
    ASSUME IInv, NEW p \in Proc, Writes(p)
    PROVE  Asked(p) \subseteq 1 .. MaxCount /\ "write" \in u_ofile[p]
<1>1. AreaTypes /\ (pc[p] = "write" => "write" \in u_ofile[p] /\ io_count[p] > 0)
  BY PipeFacts
<1>2. io_count[p] \in 0 .. MaxCount
  BY <1>1 DEF AreaTypes
<1> QED BY <1>1, <1>2, PipeAssumption DEF Writes, Runs, Asked

\* A writer that nobody reads any more.
LEMMA WriteRefusedKeeps ==
    ASSUME IInv, NEW p \in Proc, WriteRefused(p)
    PROVE  PipeInv'
<1>1. /\ UNCHANGED <<nkfile, u_sema, occurred, area, f_offset, ndelay, f_count, u_ofile>>
      /\ pc' = [pc EXCEPT ![p] = "user"] /\ io_count' = [io_count EXCEPT ![p] = 0]
  BY DEF WriteRefused, WriteEnd, Goto
<1>2. PcTypes /\ FileTypes /\ AreaTypes
  BY PipeFacts
<1>3. FileTypes' /\ AreaTypes'
  BY <1>1, <1>2, PipeAssumption DEF FileTypes, AreaTypes
<1>4. /\ \A q \in Proc : pc'[q] = "read" => "read" \in u_ofile'[q]
      /\ \A q \in Proc : pc'[q] = "write" => "write" \in u_ofile'[q] /\ io_count'[q] > 0
  BY <1>1, <1>2, PipeFacts DEF PcTypes, AreaTypes
<1>5. (Empty' <=> Empty) /\ (Full' <=> Full) /\ (InUse' <=> InUse)
  BY <1>1 DEF Empty, Full, InUse
<1>6. InUse => NobodyForgotten' /\ f_offset' <= Len(area')
  BY <1>1, <1>5, PipeFacts DEF NobodyForgotten
<1> QED BY <1>3, <1>4, <1>5, <1>6, PipeGoal

\* A writer that finds the pipe full.
LEMMA WriteFullKeeps ==
    ASSUME IInv, NEW p \in Proc, WriteFull(p)
    PROVE  PipeInv'
<1>1. /\ Writes(p) /\ i_count = 2 /\ Full
      /\ UNCHANGED <<nkfile, occurred, area, f_offset, ndelay, f_count, u_ofile>>
  BY DEF WriteFull
<1>2. PICK n \in 0 .. MaxCount :
        /\ io_count' = [io_count EXCEPT ![p] = n]
        /\ \/ pc' = [pc EXCEPT ![p] = "user"] /\ UNCHANGED u_sema
           \/ /\ n > 0 /\ pc' = [pc EXCEPT ![p] = "write"]
              /\ u_sema' = [u_sema EXCEPT ![p] = IF i_notfull \in occurred THEN NULL ELSE i_notfull]
  <2>1. 0 \in 0 .. MaxCount /\ \A n \in Asked(p) : n \in 0 .. MaxCount /\ n > 0
    BY <1>1, AskedSome, PipeAssumption
  <2> QED BY <2>1 DEF WriteFull, WriteEnd, WriteWaits, Goto, Sleeps
<1>3. PcTypes /\ FileTypes /\ AreaTypes /\ "write" \in u_ofile[p]
  BY <1>1, PipeFacts, AskedSome
<1>4. FileTypes' /\ AreaTypes'
  BY <1>1, <1>2, <1>3 DEF FileTypes, AreaTypes
<1>5. /\ \A q \in Proc : pc'[q] = "read" => "read" \in u_ofile'[q]
      /\ \A q \in Proc : pc'[q] = "write" => "write" \in u_ofile'[q] /\ io_count'[q] > 0
  BY <1>1, <1>2, <1>3, PipeFacts DEF PcTypes, AreaTypes
<1>6. \A q \in Proc : u_sema'[q] = i_notempty => u_sema[q] = i_notempty
  BY <1>2, <1>3, EventsDiffer DEF PcTypes
<1>7. (Empty' <=> Empty) /\ Full' /\ f_count'["read"] > 0 /\ InUse
  BY <1>1, PipeFacts DEF Empty, Full, InUse
<1>8. NobodyForgotten' /\ f_offset' <= Len(area')
  BY <1>1, <1>6, <1>7, PipeFacts DEF NobodyForgotten
<1> QED BY <1>4, <1>5, <1>8, PipeGoal

\* What a writer adds: bytes for which there is room, and all of it when it sleeps.
LEMMA WriteSomeFacts ==
    ASSUME IInv, NEW p \in Proc, WriteSome(p)
    PROVE  /\ "write" \in u_ofile[p] /\ f_count["read"] > 0 /\ f_count["write"] > 0
           /\ UNCHANGED <<nkfile, f_offset, ndelay, f_count, u_ofile>>
           /\ answer' = Silence
           /\ \E count \in 1 .. PIPESZ - Len(area) :
                /\ \E bytes \in [1 .. count -> Byte] : area' = area \o bytes
                /\ i_notempty \in occurred'
                /\ i_notfull \in occurred' => i_notfull \in occurred /\ Len(area) + count < PIPESZ
                /\ \A q \in Proc : u_sema'[q] # i_notempty
                /\ \A q \in Proc : u_sema'[q] = i_notfull =>
                        u_sema[q] = i_notfull \/ Len(area) + count = PIPESZ
                /\ \/ pc' = [pc EXCEPT ![p] = "user"] /\ io_count' = [io_count EXCEPT ![p] = 0]
                   \/ \E n \in 1 .. MaxCount :
                         pc' = [pc EXCEPT ![p] = "write"] /\ io_count' = [io_count EXCEPT ![p] = n]
<1> DEFINE room == PIPESZ - Len(area)
           readers == { q \in Proc : u_sema[q] = i_notempty }
<1>1. PICK n \in Asked(p) :
        LET count == IF n <= room THEN n ELSE room
        IN  /\ Writes(p) /\ i_count = 2 /\ ~Full
            /\ \E bytes \in [1 .. count -> Byte] : area' = area \o bytes
            /\ occurred' = {i_notempty} \cup (IF count = room THEN occurred \ {i_notfull} ELSE occurred)
            /\ \/ /\ n = count \/ "write" \in ndelay
                  /\ WriteEnd(p)
                  /\ u_sema' = [q \in Proc |-> IF q \in readers THEN NULL ELSE u_sema[q]]
               \/ /\ n > count
                  /\ WriteWaits(p, n - count)
                  /\ u_sema' = [q \in Proc |-> IF q = p THEN i_notfull
                                               ELSE IF q \in readers THEN NULL ELSE u_sema[q]]
            /\ Silent
            /\ UNCHANGED <<nkfile, f_offset, ndelay, f_count, u_ofile>>
  BY Zenon DEF WriteSome
<1> DEFINE count == IF n <= room THEN n ELSE room
<1>2. /\ Writes(p) /\ i_count = 2 /\ ~Full
      /\ UNCHANGED <<nkfile, f_offset, ndelay, f_count, u_ofile>> /\ answer' = Silence
  BY <1>1 DEF Silent
<1>3. PICK bytes \in [1 .. count -> Byte] : area' = area \o bytes
  BY <1>1
<1>4. occurred' = {i_notempty} \cup (IF count = room THEN occurred \ {i_notfull} ELSE occurred)
  BY <1>1
<1>5. \/ /\ pc' = [pc EXCEPT ![p] = "user"] /\ io_count' = [io_count EXCEPT ![p] = 0]
         /\ u_sema' = [q \in Proc |-> IF q \in readers THEN NULL ELSE u_sema[q]]
      \/ /\ n > count
         /\ pc' = [pc EXCEPT ![p] = "write"] /\ io_count' = [io_count EXCEPT ![p] = n - count]
         /\ u_sema' = [q \in Proc |-> IF q = p THEN i_notfull
                                      ELSE IF q \in readers THEN NULL ELSE u_sema[q]]
  BY <1>1 DEF WriteEnd, WriteWaits, Goto
<1>6. AreaTypes /\ n \in 1 .. MaxCount /\ "write" \in u_ofile[p]
  BY <1>2, AskedSome, PipeFacts
<1>7. room \in 1 .. PIPESZ
  BY <1>2, <1>6, PipeAssumption DEF Full, AreaTypes
<1> HIDE DEF room, readers
<1>8. count \in 1 .. room /\ (n > count => count = room /\ n - count \in 1 .. MaxCount)
  BY <1>6, <1>7, PipeAssumption
<1> HIDE DEF count
<1>9. count = room <=> Len(area) + count = PIPESZ
  BY <1>6, <1>7, <1>8, PipeAssumption DEF room, AreaTypes
<1>10. count # room => Len(area) + count < PIPESZ
  BY <1>6, <1>7, <1>8, PipeAssumption, SMTT(40) DEF room, AreaTypes
<1>11. i_notempty \in occurred' /\ (i_notfull \in occurred' => i_notfull \in occurred /\ count # room)
  BY <1>4, EventsDiffer
<1>12. /\ \A q \in Proc : u_sema'[q] # i_notempty
       /\ \A q \in Proc : u_sema'[q] = i_notfull => u_sema[q] = i_notfull \/ count = room
  BY <1>5, <1>8, EventsDiffer DEF readers
<1>13. \/ pc' = [pc EXCEPT ![p] = "user"] /\ io_count' = [io_count EXCEPT ![p] = 0]
       \/ \E m \in 1 .. MaxCount :
             pc' = [pc EXCEPT ![p] = "write"] /\ io_count' = [io_count EXCEPT ![p] = m]
  BY <1>5, <1>8
<1>14. f_count["read"] > 0 /\ f_count["write"] > 0
  BY <1>2, PipeFacts
<1> QED BY <1>2, <1>3, <1>6, <1>8, <1>9, <1>10, <1>11, <1>12, <1>13, <1>14 DEF room

\* A writer that finds room.
LEMMA WriteSomeKeeps ==
    ASSUME IInv, NEW p \in Proc, WriteSome(p)
    PROVE  PipeInv'
<1>1. /\ "write" \in u_ofile[p] /\ f_count["read"] > 0 /\ f_count["write"] > 0
      /\ UNCHANGED <<nkfile, f_offset, ndelay, f_count, u_ofile>>
  BY WriteSomeFacts
<1>2. PICK count \in 1 .. PIPESZ - Len(area) :
        /\ \E bytes \in [1 .. count -> Byte] : area' = area \o bytes
        /\ i_notempty \in occurred'
        /\ i_notfull \in occurred' => i_notfull \in occurred /\ Len(area) + count < PIPESZ
        /\ \A q \in Proc : u_sema'[q] # i_notempty
        /\ \A q \in Proc : u_sema'[q] = i_notfull => u_sema[q] = i_notfull \/ Len(area) + count = PIPESZ
        /\ \/ pc' = [pc EXCEPT ![p] = "user"] /\ io_count' = [io_count EXCEPT ![p] = 0]
           \/ \E n \in 1 .. MaxCount :
                 pc' = [pc EXCEPT ![p] = "write"] /\ io_count' = [io_count EXCEPT ![p] = n]
  BY WriteSomeFacts
<1>3. PcTypes /\ FileTypes /\ AreaTypes /\ NobodyForgotten /\ f_offset <= Len(area)
  BY <1>1, PipeFacts DEF InUse
<1>4. area' \in Seq(Byte) /\ Len(area') = Len(area) + count
  <2>1. PICK bytes \in [1 .. count -> Byte] : area' = area \o bytes
    BY <1>2
  <2>2. bytes \in Seq(Byte) /\ Len(bytes) = count
    BY <1>3 DEF AreaTypes
  <2> QED BY <1>3, <2>1, <2>2, ConcatProperties DEF AreaTypes
<1>5. Len(area) \in Nat /\ count \in Nat /\ count > 0 /\ Len(area) + count <= PIPESZ /\ f_offset \in Nat
  BY <1>3, PipeAssumption DEF AreaTypes
<1>6. AreaTypes' /\ FileTypes'
  <2>1. io_count \in [Proc -> 0 .. MaxCount]
    BY <1>3 DEF AreaTypes
  <2>2. PICK n \in 0 .. MaxCount : io_count' = [io_count EXCEPT ![p] = n]
    BY <1>2, PipeAssumption
  <2>3. io_count' \in [Proc -> 0 .. MaxCount]
    BY <2>1, <2>2
  <2> QED BY <1>1, <1>3, <1>4, <1>5, <2>3 DEF AreaTypes, FileTypes
<1>7. \A q \in Proc : pc'[q] = "read" => "read" \in u_ofile'[q]
  BY <1>1, <1>2, <1>3, PipeFacts DEF PcTypes
<1>8. \A q \in Proc : pc'[q] = "write" => "write" \in u_ofile'[q] /\ io_count'[q] > 0
  BY <1>1, <1>2, <1>3, PipeFacts DEF PcTypes, AreaTypes
<1>9. ~Empty' /\ f_offset' <= Len(area')
  BY <1>1, <1>3, <1>4, <1>5 DEF Empty
<1>10. Full' <=> Len(area) + count = PIPESZ
  BY <1>4, <1>5, PipeAssumption DEF Full
<1>11. \A q \in Proc : u_sema'[q] = i_notfull => Full' /\ f_count'["read"] > 0
  <2>1. ASSUME NEW q \in Proc, u_sema[q] = i_notfull PROVE FALSE
    <3>1. Full
      BY <1>3, <2>1 DEF NobodyForgotten
    <3> QED BY <3>1, <1>5, PipeAssumption DEF Full
  <2> QED BY <1>1, <1>2, <1>10, <2>1
<1>12. i_notfull \in occurred' => ~Full'
  BY <1>2, <1>5, <1>10, PipeAssumption
<1>13. NobodyForgotten'
  BY <1>2, <1>9, <1>11, <1>12 DEF NobodyForgotten
<1> QED BY <1>6, <1>7, <1>8, <1>9, <1>13, PipeGoal
\* Every step keeps what is said of the pipe.
LEMMA PipeKept ==
    ASSUME IInv, [Next]_vars
    PROVE  PipeInv'
<1>1. FileTypes' /\ CountsHold'
  BY CountsKept
<1>2. CASE UNCHANGED vars
  BY <1>1, <1>2, PipeFacts, PipeStays DEF vars, uprocVars, pipeVars
<1>3. ASSUME NEW p \in Proc, UsePipe(p) PROVE PipeInv'
  <2>1. CASE Close(p)
    BY <1>1, <2>1, FcloseKeeps DEF Close, Runs
  <2> QED BY <1>1, <1>3, <2>1, PipeNewKeeps, ReadEmptyKeeps, ReadSomeKeeps, WriteRefusedKeeps, WriteFullKeeps, WriteSomeKeeps
          DEF UsePipe, PipeStep
<1>4. ASSUME NEW p \in Proc, Live(p) PROVE PipeInv'
  <2>0. /\ PcTypes /\ FileTypes /\ Places
        /\ \A q, r \in Proc : u_deadchild(q) # i_notempty /\ u_deadchild(q) # i_notfull
        /\ i_notempty # NULL /\ i_notfull # NULL
    BY PipeFacts, EventsDiffer DEF IInv
  <2>1. CASE Fork(p)
    <3>1. /\ pc[p] = "user" /\ pc' = [pc EXCEPT ![p] = "newproc"] /\ UNCHANGED u_sema
          /\ occurred' \subseteq occurred /\ MayTakeEntry
          /\ UNCHANGED <<nkfile, area, f_offset, ndelay, io_count>>
      BY <2>1 DEF Fork, newproc, Runs
    <3> DEFINE c == Head(uprocfreelist)
    <3>2. c \in Proc /\ u_state[c] = "none"
      BY <3>1, FreeEntry
    <3>3. u_ofile' = [u_ofile EXCEPT ![c] = u_ofile[p]]
          /\ f_count' = [e \in End |-> IF e \in u_ofile[p] THEN f_count[e] + 1 ELSE f_count[e]]
      BY <2>1 DEF Fork, InheritFiles
    <3> HIDE DEF c
    <3>4. pc[c] = "none"
      BY <2>0, <3>2 DEF Places, PcTypes
    <3>5. \A q \in Proc : pc'[q] \in {"read", "write"} => pc'[q] = pc[q] /\ u_ofile'[q] = u_ofile[q]
      BY <2>0, <3>1, <3>2, <3>3, <3>4 DEF PcTypes, FileTypes
    <3>6. \A e \in End : f_count'[e] > 0 <=> f_count[e] > 0
      BY <3>3, PipeFacts
    <3> QED BY <1>1, <3>1, <3>5, <3>6, PipeStays
  <2>2. CASE ForkEnd(p)
    <3>1. /\ UNCHANGED pipeVars /\ UNCHANGED <<u_sema, occurred>> /\ pc[p] = "newproc"
          /\ pc' = [pc EXCEPT ![p] = "user", ![newchild[p]] = "user"]
      BY <2>2 DEF ForkEnd, newproc_end, Runs
    <3>2. \A q \in Proc : pc'[q] = pc[q] \/ pc'[q] = "user"
      BY <2>0, <3>1 DEF PcTypes
    <3> QED BY <1>1, <3>1, <3>2, PipeStays DEF pipeVars
  <2>3. CASE ForkFails(p) \/ LeaveParent(p)
    BY <1>1, <2>3, PipeStays DEF ForkFails, newproc_fails, LeaveParent, setppid, uprocVars, pipeVars
  <2>4. CASE Exit(p)
    <3>1. /\ UNCHANGED pipeVars /\ UNCHANGED <<u_sema, occurred>>
          /\ pc' = [pc EXCEPT ![p] = "kexit"]
      BY <2>4 DEF Exit, kexit, Goto
    <3> QED BY <1>1, <2>0, <3>1, PipeStays DEF pipeVars, PcTypes
  <2>5. CASE ExitClose(p)
    BY <1>1, <2>5, FcloseKeeps DEF ExitClose, Runs
  <2>6. CASE ExitEnd(p)
    <3> DEFINE done == { u_deadchild(q) : q \in {u_parent[p]} \cup (IF ZombieChildren(p) # {} THEN {initp} ELSE {}) }
    <3>1. /\ pc[p] = "kexit" /\ EventDone(done)
          /\ UNCHANGED pipeVars /\ pc' = [pc EXCEPT ![p] = "none"]
      BY <2>6 DEF ExitEnd, kexit_end, Runs, Goto
    <3>2. p \in Born \ {initp} /\ u_parent[p] \in Proc /\ initp \in Proc
      BY <2>0, <3>1, ProcFacts DEF Places, Born
    <3>3. done \in SUBSET Event /\ i_notempty \notin done /\ i_notfull \notin done
      BY <3>2, EventsDiffer
    <3> HIDE DEF done
    <3>4. \A q \in Proc : u_sema'[q] = u_sema[q] \/ u_sema'[q] = NULL
      BY <2>0, <3>1, <3>3, EventDoneWakes
    <3>5. i_notempty \in occurred' => i_notempty \in occurred
      BY <3>1, <3>3 DEF EventDone
    <3>6. i_notfull \in occurred' => i_notfull \in occurred
      BY <3>1, <3>3 DEF EventDone
    <3>7. \A q \in Proc : pc'[q] = pc[q] \/ pc'[q] = "none"
      BY <2>0, <3>1 DEF PcTypes
    <3> QED BY <1>1, <2>0, <3>1, <3>4, <3>5, <3>6, <3>7, PipeStays DEF pipeVars
  <2>7. CASE Wait(p)
    <3>1. /\ UNCHANGED pipeVars /\ occurred' \subseteq occurred
          /\ \E where \in {"user", "wait"} : pc' = [pc EXCEPT ![p] = where]
          /\ u_sema' = u_sema \/ u_sema' = [u_sema EXCEPT ![p] = u_deadchild(p)]
      BY <2>7 DEF Wait, wait_found, wait_none, wait_sleeps, Clear, Goto
    <3>2. \A q \in Proc : pc'[q] \in {"read", "write"} => pc'[q] = pc[q]
      BY <2>0, <3>1 DEF PcTypes
    <3>3. \A q \in Proc : u_sema'[q] \in {i_notempty, i_notfull} => u_sema'[q] = u_sema[q]
      BY <2>0, <3>1 DEF PcTypes
    <3> QED BY <1>1, <3>1, <3>2, <3>3, PipeStays DEF pipeVars
  <2> QED BY <1>4, <2>1, <2>2, <2>3, <2>4, <2>5, <2>6, <2>7 DEF Live
<1> QED BY <1>2, <1>3, <1>4 DEF Next
-----------------------------------------------------------------------------
(* The theorems *)

\* Every step keeps the processes asleep where they look again.
LEMMA SleepKept ==
    ASSUME IInv, [Next]_vars
    PROVE  SleepInv'
<1>1. CASE UNCHANGED vars
  BY <1>1, PipeFacts DEF SleepInv, PcTypes, Sleeping, Asleep, vars, uprocVars
<1> QED BY <1>1, UsePipeSleep, LiveSleep DEF Next

\* The system as it starts.
LEMMA InitKeeps ==
    ASSUME Init
    PROVE  IInv
<1>1. /\ pc = [p \in Proc |-> IF p = initp THEN "user" ELSE "none"]
      /\ u_sema = [p \in Proc |-> NULL] /\ occurred = {}
  BY DEF Init
<1>2. PICK size \in Sizes : FamilyInit(size[1]) /\ PipeInit(size[2])
  BY DEF Init
<1> DEFINE entries == size[1]
<1>3. entries \in 2 .. NPROC /\ size[2] \in Nat /\ NPROC \in Nat
  BY <1>2, UProcAssumption
<1>4. /\ u_state = [p \in Proc |-> IF p = initp THEN "SRUN" ELSE IF p <= entries THEN "none" ELSE "absent"]
      /\ uprocfreelist = [i \in 1 .. entries - 1 |-> i + 1]
      /\ y_lastuproc = initp
      /\ u_parent = [p \in Proc |-> NULL]
      /\ u_child = [p \in Proc |-> <<>>]
      /\ newchild = [p \in Proc |-> NULL]
  BY <1>2 DEF FamilyInit
<1>5. /\ nkfile = size[2]
      /\ area = <<>> /\ f_offset = 0 /\ ndelay = {}
      /\ f_count = [e \in End |-> 0]
      /\ u_ofile = [p \in Proc |-> {}]
      /\ io_count = [p \in Proc |-> 0]
  BY <1>2 DEF PipeInit
<1> HIDE DEF entries
<1>6. initp \in Proc /\ NULL \notin Proc
  BY ProcFacts
<1>7. PcTypes /\ Sleeping
  BY <1>1 DEF PcTypes, Sleeping, Asleep
<1>8. FamilyTypes
  <2>1. uprocfreelist \in Seq(Proc)
    <3>1. \A i \in 1 .. entries - 1 : i + 1 \in Proc
      BY <1>3 DEF Proc
    <3> QED BY <1>3, <1>4, <3>1
  <2> QED BY <1>4, <1>6, <2>1 DEF FamilyTypes
<1>9. FileTypes /\ AreaTypes
  BY <1>3, <1>5, PipeAssumption DEF FileTypes, AreaTypes
<1>10. Places
  <2>1. \A p \in Proc : u_state[p] = "SRUN" <=> p = initp
    BY <1>4
  <2> QED BY <1>1, <1>4, <1>6, <2>1 DEF Places, Born
<1>11. CountsHold /\ OwnersHold
  <2>1. \A e \in End : Users(e) = {}
    BY <1>5 DEF Users
  <2>2. CountsHold
    BY <1>5, <2>1, FS_EmptySet DEF CountsHold
  <2> QED BY <1>5, <2>2 DEF OwnersHold
<1>12. Using
  BY <1>1, <1>5, FS_EmptySet DEF Using, i_count
<1>13. FamilyExact
  <2>1. \A p \in Proc : IsInjective(u_child[p]) /\ ToSet(u_child[p]) = {}
    BY <1>4 DEF IsInjective, ToSet
  <2>2. Born = {initp}
    BY <1>4, <1>6 DEF Born
  <2> QED BY <2>1, <2>2 DEF FamilyExact
<1>14. EntriesExact
  <2>1. /\ DOMAIN uprocfreelist = 1 .. entries - 1
        /\ \A i \in 1 .. entries - 1 : uprocfreelist[i] = i + 1
    BY <1>4
  <2>2. IsInjective(uprocfreelist)
    BY <1>3, <2>1 DEF IsInjective
  <2>3. ToSet(uprocfreelist) = { p \in Proc : u_state[p] = "none" }
    <3>1. { p \in Proc : u_state[p] = "none" } = 2 .. entries
      BY <1>3, <1>4 DEF Proc, initp
    <3>2. ToSet(uprocfreelist) = { i + 1 : i \in 1 .. entries - 1 }
      BY <2>1 DEF ToSet
    <3>3. \A k \in 2 .. entries : k - 1 \in 1 .. entries - 1 /\ k = (k - 1) + 1
      BY <1>3
    <3>4. \A i \in 1 .. entries - 1 : i + 1 \in 2 .. entries
      BY <1>3
    <3> QED BY <3>1, <3>2, <3>3, <3>4
  <2>4. Born = {initp} /\ BeingMade = {}
    BY <1>4, <1>6 DEF Born, BeingMade
  <2>5. initp <= initp
    BY ProcFacts
  <2> QED BY <1>4, <1>6, <2>2, <2>3, <2>4, <2>5 DEF EntriesExact
<1>15. NoZombieForgotten
  BY <1>1, EventsDiffer DEF NoZombieForgotten
<1>16. NoLostWakeup
  <2>1. { e \in End : f_count[e] > 0 } = {}
    BY <1>5
  <2>2. i_count = 0
    BY <2>1, FS_EmptySet DEF i_count
  <2> QED BY <2>2 DEF NoLostWakeup
<1> QED BY <1>7, <1>8, <1>9, <1>10, <1>11, <1>12, <1>13, <1>14, <1>15, <1>16, TypeGroups, FileParts DEF IInv

\* Every step keeps the inductive invariant.
LEMMA NextKeeps ==
    ASSUME IInv, [Next]_vars
    PROVE  IInv'
<1>1. FamilyTypes' /\ Places' /\ FamilyExact' /\ EntriesExact'
  BY FamilyKept DEF FamilyInv
<1>2. FileTypes' /\ CountsHold' /\ OwnersHold'
  BY CountsKept, OwnersKept
<1>3. PcTypes' /\ Sleeping'
  BY SleepKept DEF SleepInv
<1>4. AreaTypes' /\ Using' /\ NoLostWakeup'
  BY PipeKept DEF PipeInv
<1>5. TypeOK'
  BY <1>1, <1>2, <1>3, <1>4 DEF TypeOK, PcTypes, FamilyTypes, FileTypes, AreaTypes
<1>6. FileCountExact'
  BY <1>2 DEF FileCountExact, CountsHold, OwnersHold, Users
<1> QED BY <1>1, <1>3, <1>4, <1>5, <1>6, ZombiesKept DEF IInv

\* The inductive invariant holds in every state of the system.
THEOREM IInvAlways == Spec => []IInv
<1>1. Init => IInv
  BY InitKeeps
<1>2. IInv /\ [Next]_vars => IInv'
  BY NextKeeps
<1> QED BY <1>1, <1>2, PTL DEF Spec

\* Processes and pipes keep their types: no entry, count or place leaves its range.
THEOREM TypesCorrect == Spec => []TypeOK
<1>1. IInv => TypeOK
  BY DEF IInv
<1> QED BY <1>1, IInvAlways, PTL

\* Fork, exit, adoption, wait and setppid keep every process once in the list of its
\* parent, and no parent that is gone.
THEOREM FamilyCorrect == Spec => []FamilyExact
<1>1. IInv => FamilyExact
  BY DEF IInv
<1> QED BY <1>1, IInvAlways, PTL

\* The table of processes: the free list and the last entry in use.
THEOREM EntriesCorrect == Spec => []EntriesExact
<1>1. IInv => EntriesExact
  BY DEF IInv
<1> QED BY <1>1, IInvAlways, PTL

\* Nobody sleeps in wait with a dead child.
THEOREM ZombiesCorrect == Spec => []NoZombieForgotten
<1>1. IInv => NoZombieForgotten
  BY DEF IInv
<1> QED BY <1>1, IInvAlways, PTL

\* A KFILE counts the processes that have it.
THEOREM FilesCorrect == Spec => []FileCountExact
<1>1. IInv => FileCountExact
  BY DEF IInv
<1> QED BY <1>1, IInvAlways, PTL

\* Nobody sleeps for what a pipe has, or for a partner that is gone.
THEOREM WakeupsCorrect == Spec => []NoLostWakeup
<1>1. IInv => NoLostWakeup
  BY DEF IInv
<1> QED BY <1>1, IInvAlways, PTL
-----------------------------------------------------------------------------
(* A pipe is a channel: the bytes of the area from the place of the reader on *)

Stream == SubSeq(area, f_offset + 1, Len(area))
OpenEnds == { e \in End : f_count[e] > 0 }

\* The steps of a channel, of the stream and the open ends of the pipe.
LEMMA ChannelSteps ==
    ASSUME \/ /\ OpenEnds = {} /\ OpenEnds' = {"read", "write"}
              /\ Stream' = <<>> /\ answer' = Silence
           \/ /\ "read" \in OpenEnds /\ UNCHANGED OpenEnds /\ answer' = Silence
              /\ \E n \in 1 .. PIPESZ - Len(Stream) : \E bytes \in [1 .. n -> Byte] : Stream' = Stream \o bytes
           \/ /\ UNCHANGED OpenEnds
              /\ \E n \in 1 .. Len(Stream) :
                    /\ answer' = [what |-> "bytes", bytes |-> SubSeq(Stream, 1, n)]
                    /\ Stream' = SubSeq(Stream, n + 1, Len(Stream))
           \/ /\ Stream = <<>> /\ "write" \notin OpenEnds
              /\ answer' = [what |-> "eof", bytes |-> <<>>] /\ UNCHANGED <<Stream, OpenEnds>>
           \/ /\ "read" \notin OpenEnds
              /\ answer' = [what |-> "epipe", bytes |-> <<>>] /\ UNCHANGED <<Stream, OpenEnds>>
           \/ /\ \E e \in OpenEnds : OpenEnds' = OpenEnds \ {e}
              /\ Stream' = (IF OpenEnds' = {} THEN <<>> ELSE Stream) /\ answer' = Silence
           \/ answer' = Silence /\ UNCHANGED <<Stream, OpenEnds>>
    PROVE  C!Next
BY DEF C!Next, C!Create, C!Put, C!Take, C!EndOfFile, C!Refuse, C!Close, C!Forget, C!Silence,
       Silence, Stream, OpenEnds

\* The ends that are open, by the references to the inode.
LEMMA OpenByCount ==
    ASSUME IInv
    PROVE  /\ \A e \in End : e \in OpenEnds <=> f_count[e] > 0
           /\ "read" \in End /\ "write" \in End
           /\ i_count = 0 <=> OpenEnds = {}
           /\ i_count = 2 <=> OpenEnds = End
BY PipeFacts DEF OpenEnds, End

\* The stream of a pipe in use.
LEMMA StreamShape ==
    ASSUME AreaTypes, f_offset <= Len(area)
    PROVE  /\ area \in Seq(Byte) /\ f_offset \in 0 .. Len(area)
           /\ Stream \in Seq(Byte) /\ Len(Stream) = Len(area) - f_offset
           /\ Empty => Stream = <<>>
<1>1. area \in Seq(Byte) /\ f_offset \in 0 .. Len(area)
  BY DEF AreaTypes
<1>2. Stream \in Seq(Byte) /\ Len(Stream) = Len(area) - f_offset
  BY <1>1, SuffixShape DEF Stream
<1>3. Empty => Stream = <<>>
  BY <1>1, SubSeqEmpty DEF Empty, Stream
<1> QED BY <1>1, <1>2, <1>3

\* Steps that leave the channel alone.
LEMMA ChannelForgets ==
    ASSUME IInv, answer' = Silence, UNCHANGED <<area, f_offset>>,
           \A e \in End : f_count'[e] > 0 <=> f_count[e] > 0
    PROVE  C!Next
<1>1. UNCHANGED <<Stream, OpenEnds>>
  BY DEF Stream, OpenEnds
<1> QED BY <1>1, ChannelSteps

\* An end that is closed.
LEMMA ChannelCloses ==
    ASSUME IInv, NEW p \in Proc, NEW e \in End, fclose(p, e)
    PROVE  C!Next
<1>1. /\ e \in u_ofile[p] /\ answer' = Silence /\ UNCHANGED f_offset
      /\ f_count' = [f_count EXCEPT ![e] = @ - 1]
  BY DEF fclose, Silent
<1>2. FileTypes /\ f_count[e] > 0 /\ f_count[e] \in Nat
  BY <1>1, PipeFacts
<1>3. CASE f_count[e] > 1
  <2>1. UNCHANGED area
    BY <1>3 DEF fclose
  <2>2. \A d \in End : f_count'[d] > 0 <=> f_count[d] > 0
    BY <1>1, <1>2, <1>3 DEF FileTypes
  <2> QED BY <1>1, <2>1, <2>2, ChannelForgets
<1>4. CASE f_count[e] = 1
  <2>1. area' = IF i_count = 1 THEN <<>> ELSE area
    BY <1>4 DEF fclose
  <2>2. \A d \in End : f_count'[d] > 0 <=> f_count[d] > 0 /\ d # e
    BY <1>1, <1>2, <1>4 DEF FileTypes
  <2>3. OpenEnds' = OpenEnds \ {e} /\ e \in OpenEnds
    BY <1>2, <2>2 DEF OpenEnds
  <2>4. OpenEnds' = {} <=> i_count = 1
    <3>1. i_count = 1 <=> ~(f_count["read"] > 0 /\ f_count["write"] > 0)
      BY <1>2, PipeFacts DEF End
    <3>2. OpenEnds \subseteq {"read", "write"} /\ e \in {"read", "write"}
      BY DEF OpenEnds, End
    <3>3. ("read" \in OpenEnds <=> f_count["read"] > 0) /\ ("write" \in OpenEnds <=> f_count["write"] > 0)
      BY OpenByCount
    <3>4. OpenEnds' = {} <=> ~("read" \in OpenEnds /\ "write" \in OpenEnds)
      BY <2>3, <3>2
    <3> QED BY <3>1, <3>3, <3>4
  <2>5. Stream' = IF OpenEnds' = {} THEN <<>> ELSE Stream
    <3>1. CASE i_count = 1
      <4>1. area' = <<>> /\ f_offset' = f_offset /\ f_offset \in Nat
        BY <1>1, <2>1, <3>1, PipeFacts DEF AreaTypes
      <4>2. f_offset + 1 \in Int /\ 0 \in Int /\ 0 < f_offset + 1
        BY <4>1
      <4>3. SubSeq(area', f_offset + 1, 0) = <<>>
        BY <4>2, SubSeqEmpty
      <4>4. Stream' = <<>>
        BY <4>1, <4>3 DEF Stream
      <4> QED BY <2>4, <3>1, <4>4
    <3>2. CASE i_count # 1
      BY <1>1, <2>1, <2>4, <3>2 DEF Stream
    <3> QED BY <3>1, <3>2
  <2> QED BY <1>1, <2>3, <2>5, ChannelSteps
<1> QED BY <1>2, <1>3, <1>4

\* What a reader gets.
LEMMA ChannelTakes ==
    ASSUME IInv, NEW p \in Proc, ReadSome(p)
    PROVE  C!Next
<1>1. /\ InUse /\ f_offset <= Len(area) /\ UNCHANGED f_count
  BY ReadSomeFacts
<1>2. PICK count \in 1 .. Len(area) - f_offset :
        /\ answer' = [what |-> "bytes", bytes |-> SubSeq(area, f_offset + 1, f_offset + count)]
        /\ \/ f_offset + count = Len(area) /\ f_offset' = 0 /\ area' = <<>>
           \/ f_offset + count < Len(area) /\ f_offset' = f_offset + count /\ UNCHANGED area
  BY ReadSomeFacts
<1>3. /\ area \in Seq(Byte) /\ f_offset \in 0 .. Len(area)
      /\ Stream \in Seq(Byte) /\ Len(Stream) = Len(area) - f_offset
  BY <1>1, StreamShape, PipeFacts
<1>4. count \in 0 .. (Len(area) - f_offset)
  OBVIOUS
<1>5. /\ SubSeq(area, f_offset + 1, f_offset + count) = SubSeq(Stream, 1, count)
      /\ SubSeq(area, f_offset + count + 1, Len(area)) = SubSeq(Stream, count + 1, Len(Stream))
  BY <1>3, <1>4, SuffixTaken DEF Stream
<1>6. Stream' = SubSeq(Stream, count + 1, Len(Stream))
  <2>1. CASE f_offset + count = Len(area) /\ f_offset' = 0 /\ area' = <<>>
    <3>1. Stream' = <<>>
      BY <2>1, SubSeqEmpty DEF Stream
    <3>2. Len(Stream) \in Int /\ count + 1 \in Int /\ Len(Stream) < count + 1
      BY <1>3, <2>1
    <3> QED BY <3>1, <3>2, SubSeqEmpty
  <2>2. CASE f_offset' = f_offset + count /\ UNCHANGED area
    BY <1>5, <2>2 DEF Stream
  <2> QED BY <1>2, <2>1, <2>2
<1>7. UNCHANGED OpenEnds
  BY <1>1 DEF OpenEnds
<1>8. count \in 1 .. Len(Stream)
  BY <1>3
<1> QED BY <1>2, <1>5, <1>6, <1>7, <1>8, ChannelSteps

\* What a writer gives.
LEMMA ChannelPuts ==
    ASSUME IInv, NEW p \in Proc, WriteSome(p)
    PROVE  C!Next
<1>1. /\ f_count["read"] > 0 /\ UNCHANGED <<f_count, f_offset>> /\ answer' = Silence
  BY WriteSomeFacts
<1>2. PICK count \in 1 .. PIPESZ - Len(area) : \E bytes \in [1 .. count -> Byte] : area' = area \o bytes
  BY WriteSomeFacts
<1>3. PICK bytes \in [1 .. count -> Byte] : area' = area \o bytes
  BY <1>2
<1>4. AreaTypes /\ f_offset <= Len(area)
  BY <1>1, PipeFacts DEF InUse
<1>5. /\ area \in Seq(Byte) /\ f_offset \in 0 .. Len(area)
      /\ Len(Stream) = Len(area) - f_offset
  BY <1>4, StreamShape
<1>6. bytes \in Seq(Byte)
  BY <1>5, PipeAssumption
<1>7. Stream' = Stream \o bytes
  BY <1>1, <1>3, <1>5, <1>6, SuffixAdded DEF Stream
<1>8. count \in 1 .. PIPESZ - Len(Stream)
  BY <1>5, PipeAssumption
<1>9. UNCHANGED OpenEnds /\ "read" \in OpenEnds
  BY <1>1, OpenByCount DEF OpenEnds
<1> QED BY <1>1, <1>7, <1>8, <1>9, ChannelSteps
\* Every step of the processes is a step of the channel, or one that it does not see.
LEMMA NextIsChannel ==
    ASSUME IInv, [Next]_vars
    PROVE  C!Next \/ UNCHANGED <<Stream, OpenEnds, answer>>
<1>1. CASE UNCHANGED vars
  BY <1>1 DEF vars, pipeVars, Stream, OpenEnds
<1>2. ASSUME NEW p \in Proc, UsePipe(p) PROVE C!Next
  <2>1. CASE pipe(p)
    <3>1. /\ i_count = 0 /\ area' = <<>> /\ f_offset' = 0 /\ answer' = Silence
          /\ f_count' = [e \in End |-> 1]
      BY <2>1 DEF pipe, Silent
    <3>2. OpenEnds = {} /\ OpenEnds' = {"read", "write"}
      BY <3>1, OpenByCount DEF OpenEnds, End
    <3>3. Stream' = <<>>
      BY <3>1, SubSeqEmpty DEF Stream
    <3> QED BY <3>1, <3>2, <3>3, ChannelSteps
  <2>2. CASE Close(p)
    BY <2>2, ChannelCloses DEF Close
  <2>3. CASE ReadEmpty(p)
    <3>1. /\ Reads(p) /\ Empty /\ UNCHANGED <<area, f_offset, f_count>>
          /\ \/ i_count < 2 /\ answer' = [what |-> "eof", bytes |-> <<>>]
             \/ answer' = Silence
      BY <2>3 DEF ReadEmpty, Answer, Silent, pipeVars
    <3>2. CASE answer' = Silence
      BY <3>1, <3>2, ChannelForgets
    <3>3. CASE i_count < 2 /\ answer' = [what |-> "eof", bytes |-> <<>>]
      <4>1. f_count["read"] > 0
        BY <3>1, PipeFacts DEF Reads, Runs
      <4>2. ~(f_count["write"] > 0)
        BY <3>3, <4>1, PipeFacts
      <4>3. "write" \notin OpenEnds
        BY <4>2, OpenByCount
      <4>4. Stream = <<>>
        BY <3>1, <4>1, StreamShape, PipeFacts DEF InUse
      <4>5. UNCHANGED <<Stream, OpenEnds>>
        BY <3>1 DEF Stream, OpenEnds
      <4> QED BY <3>3, <4>3, <4>4, <4>5, ChannelSteps
    <3> QED BY <3>1, <3>2, <3>3
  <2>4. CASE ReadSome(p)
    BY <2>4, ChannelTakes
  <2>5. CASE WriteRefused(p)
    <3>1. /\ Writes(p) /\ i_count < 2 /\ UNCHANGED <<area, f_offset, f_count>>
          /\ answer' = [what |-> "epipe", bytes |-> <<>>]
      BY <2>5 DEF WriteRefused
    <3>2. ~(f_count["read"] > 0)
      BY <3>1, AskedSome, PipeFacts
    <3>3. "read" \notin OpenEnds
      BY <3>2, OpenByCount
    <3>4. UNCHANGED <<Stream, OpenEnds>>
      BY <3>1 DEF Stream, OpenEnds
    <3> QED BY <3>1, <3>3, <3>4, ChannelSteps
  <2>6. CASE WriteFull(p)
    BY <2>6, ChannelForgets DEF WriteFull, Silent
  <2>7. CASE WriteSome(p)
    BY <2>7, ChannelPuts
  <2> QED BY <1>2, <2>1, <2>2, <2>3, <2>4, <2>5, <2>6, <2>7 DEF UsePipe, PipeStep
<1>3. ASSUME NEW p \in Proc, Live(p) PROVE C!Next
  <2>1. CASE Fork(p)
    <3>1. /\ answer' = Silence /\ UNCHANGED <<area, f_offset>>
          /\ f_count' = [e \in End |-> IF e \in u_ofile[p] THEN f_count[e] + 1 ELSE f_count[e]]
      BY <2>1 DEF Fork, InheritFiles, Silent
    <3>2. \A e \in End : f_count'[e] > 0 <=> f_count[e] > 0
      BY <3>1, PipeFacts
    <3> QED BY <3>1, <3>2, ChannelForgets
  <2>2. CASE ExitClose(p)
    BY <2>2, ChannelCloses DEF ExitClose
  <2>3. CASE ForkEnd(p) \/ ForkFails(p) \/ Exit(p) \/ ExitEnd(p) \/ Wait(p) \/ LeaveParent(p)
    BY <2>3, ChannelForgets DEF ForkEnd, ForkFails, Exit, ExitEnd, Wait, LeaveParent, Silent, pipeVars
  <2> QED BY <1>3, <2>1, <2>2, <2>3 DEF Live
<1> QED BY <1>1, <1>2, <1>3 DEF Next

\* A pipe between processes that fork, exit and wait is a bounded queue of bytes: nothing
\* is lost, read twice or out of order, the end of the file is told only when all is read
\* and nobody can write, and EPIPE only when nobody can read.
THEOREM PipeIsChannel == Spec => ImplementsChannel
<1>1. Init => C!Init
  <2> SUFFICES ASSUME Init PROVE C!Init
    OBVIOUS
  <2>1. PICK size \in Sizes : PipeInit(size[2])
    BY DEF Init
  <2>2. area = <<>> /\ f_offset = 0 /\ f_count = [e \in End |-> 0] /\ answer = Silence
    BY <2>1 DEF PipeInit
  <2>3. SubSeq(area, f_offset + 1, Len(area)) = <<>>
    BY <2>2, SubSeqEmpty
  <2>4. { e \in End : f_count[e] > 0 } = {}
    BY <2>2
  <2> QED BY <2>2, <2>3, <2>4 DEF C!Init, C!Silence, Silence
<1>2. IInv /\ [Next]_vars =>
        [C!Next]_<<SubSeq(area, f_offset + 1, Len(area)), { e \in End : f_count[e] > 0 }, answer>>
  BY NextIsChannel DEF Stream, OpenEnds
<1> QED BY <1>1, <1>2, IInvAlways, PTL DEF Spec, ImplementsChannel, C!Spec
=============================================================================
