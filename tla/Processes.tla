----------------------------- MODULE Processes ------------------------------
(***************************************************************************)
(* Processes that make children, share the ends of a pipe with them, read, *)
(* write, exit and wait: module Pipe and module Family together.           *)
(***************************************************************************)
EXTENDS Pipe, Family

vars == <<uprocVars, pipeVars, answer, familyVars>>

Init ==
    /\ pc = [p \in Proc |-> IF p = initp THEN "user" ELSE "none"]
    /\ u_sema = [p \in Proc |-> NULL]
    /\ occurred = {}
    /\ \E size \in Sizes : FamilyInit(size[1]) /\ PipeInit(size[2])

\* A call about a pipe.
UsePipe(p) == PipeStep(p) /\ UNCHANGED familyVars

\* The child has the files of the parent before it exists for anybody else.
Fork(p) ==
    /\ newproc(p)
    /\ InheritFiles(p, Head(uprocfreelist))
    /\ Silent /\ UNCHANGED <<nkfile, area, f_offset, ndelay, io_count>>

ForkEnd(p) == newproc_end(p) /\ Silent /\ UNCHANGED pipeVars

ForkFails(p) == newproc_fails(p) /\ Silent /\ UNCHANGED pipeVars

Exit(p) == kexit(p) /\ Silent /\ UNCHANGED pipeVars

\* kexit closes the files one by one.
ExitClose(p) ==
    /\ Runs(p, "kexit")
    /\ \E e \in End : fclose(p, e)
    /\ UNCHANGED <<pc, familyVars>>

ExitEnd(p) == u_ofile[p] = {} /\ kexit_end(p) /\ Silent /\ UNCHANGED pipeVars

Wait(p) ==
    /\ wait_found(p) \/ wait_none(p) \/ wait_sleeps(p)
    /\ Silent /\ UNCHANGED pipeVars

LeaveParent(p) == setppid(p) /\ Silent /\ UNCHANGED pipeVars

Live(p) ==
    \/ Fork(p) \/ ForkEnd(p) \/ ForkFails(p)
    \/ Exit(p) \/ ExitClose(p) \/ ExitEnd(p)
    \/ Wait(p) \/ LeaveParent(p)

Next == \E p \in Proc : UsePipe(p) \/ Live(p)

Spec == Init /\ [][Next]_vars

-----------------------------------------------------------------------------
(* Properties *)

Born == { p \in Proc : u_state[p] \in {"SRUN", "SZOMBIE"} }
BeingMade == { newchild[p] : p \in Proc } \ {NULL}

\* Types.
TypeOK ==
    /\ pc \in [Proc -> {"none", "user", "read", "write", "newproc", "kexit", "wait"}]
    /\ u_sema \in [Proc -> Event \cup {NULL}] /\ occurred \subseteq Event
    /\ nkfile \in Nat /\ area \in Seq(Byte) /\ Len(area) <= PIPESZ /\ f_offset \in 0 .. PIPESZ
    /\ ndelay \subseteq End /\ f_count \in [End -> 0 .. NPROC]
    /\ u_ofile \in [Proc -> SUBSET End] /\ io_count \in [Proc -> 0 .. MaxCount]
    /\ u_state \in [Proc -> {"absent", "none", "SNULL", "SRUN", "SZOMBIE"}]
    /\ uprocfreelist \in Seq(Proc) /\ y_lastuproc \in Proc
    /\ u_parent \in [Proc -> Proc \cup {NULL}] /\ u_child \in [Proc -> Seq(Proc)]
    /\ newchild \in [Proc -> Proc \cup {NULL}]

\* nproc.c, kexit.c, sysproc.c, sysfork.c: every process but INIT is once in the list
\* of its parent, in no other, and its parent has not exited.
FamilyExact ==
    /\ \A p \in Proc : IsInjective(u_child[p]) /\ ToSet(u_child[p]) \subseteq Born \ {initp}
    /\ \A c \in Born \ {initp} :
          /\ u_state[u_parent[c]] = "SRUN"
          /\ \A p \in Proc : c \in ToSet(u_child[p]) <=> p = u_parent[c]

\* nproc.c, sysfork.c: the free list holds, once, the entries without UPROC; kill ()
\* and the swapper see every process.
EntriesExact ==
    /\ IsInjective(uprocfreelist)
    /\ ToSet(uprocfreelist) = { p \in Proc : u_state[p] = "none" }
    /\ \A p \in Born \cup BeingMade : p <= y_lastuproc
    /\ u_state[y_lastuproc] \notin {"none", "absent"}

\* sysfork.c, kexit.c: nobody sleeps in wait with a child that is dead already,
\* its own or adopted.
NoZombieForgotten ==
    \A p \in Proc : u_sema[p] = u_deadchild(p) => ZombieChildren(p) = {}

\* file.c, nproc.c, kexit.c: a KFILE counts the processes that have it, the one
\* being made included; the dead have none.
FileCountExact ==
    /\ \A e \in End : f_count[e] = Cardinality({ p \in Proc : e \in u_ofile[p] })
    /\ \A p \in Proc : u_ofile[p] # {} => u_state[p] = "SRUN" \/ p \in BeingMade

\* piperead.c: nobody sleeps for bytes that are there, for room that is there, or for
\* a partner that is gone; and an event is marked only when there is what to wake for, or
\* the process would turn in its loop with the only CPU.
NoLostWakeup ==
    i_count > 0 =>
    /\ \A p \in Proc : /\ u_sema[p] = i_notempty => Empty /\ f_count["write"] > 0
                       /\ u_sema[p] = i_notfull => Full /\ f_count["read"] > 0
    /\ i_notempty \in occurred => ~Empty \/ f_count["write"] = 0
    /\ i_notfull \in occurred => ~Full \/ f_count["read"] = 0

\* A pipe is a bounded queue of bytes; the end of file and EPIPE are told in time.
C == INSTANCE Channel WITH
        Cap <- PIPESZ,
        stream <- SubSeq(area, f_offset + 1, Len(area)),
        open <- { e \in End : f_count[e] > 0 }

ImplementsChannel == C!Spec
=============================================================================
