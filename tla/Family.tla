------------------------------- MODULE Family -------------------------------
(***************************************************************************)
(* The life of processes: newproc (proc/nproc.c), kexit (proc/kexit.c),    *)
(* wait (sys/sysfork.c) and setppid (sys/sysproc.c), with the table of     *)
(* processes, its list of free entries and the lists of children.          *)
(*                                                                         *)
(* A process in kexit does not lose the CPU between SZOMBIE and the        *)
(* dispatcher, so the end of kexit is one action.                          *)
(***************************************************************************)
EXTENDS UProc

CONSTANTS
    SUPER,      \* the processes run for the super-user
    MaxLost     \* bound: entries lost by forks that fail

ASSUME FamilyAssumption == SUPER \in BOOLEAN /\ MaxLost \in Nat

VARIABLES
    u_state,        \* of the UPROC of the entry, or "none"; "absent" past the end of the table
    uprocfreelist,
    y_lastuproc,    \* the last entry that kill () and others look at
    u_parent,
    u_child,        \* the children, in the order of the links u_sibling
    newchild        \* the child that the process is making, or NULL

familyVars == <<u_state, uprocfreelist, y_lastuproc, u_parent, u_child, newchild>>

FamilyInit(entries) ==
    /\ u_state = [p \in Proc |-> IF p = initp THEN "SRUN" ELSE IF p <= entries THEN "none" ELSE "absent"]
    /\ uprocfreelist = [i \in 1 .. entries - 1 |-> i + 1]
    /\ y_lastuproc = initp
    /\ u_parent = [p \in Proc |-> NULL]
    /\ u_child = [p \in Proc |-> <<>>]
    /\ newchild = [p \in Proc |-> NULL]

ZombieChildren(p) == { c \in ToSet(u_child[p]) : u_state[c] = "SZOMBIE" }

-----------------------------------------------------------------------------
(* newproc *)

\* The last entry is kept for the super-user.
MayTakeEntry == Len(uprocfreelist) > IF SUPER THEN 0 ELSE 1

\* Mutant: the last entry in use is not moved on.
TakeEntryUnseen(p, c) ==
    /\ uprocfreelist' = Tail(uprocfreelist)
    /\ UNCHANGED y_lastuproc
    /\ u_state' = [u_state EXCEPT ![c] = "SNULL"]
    /\ u_parent' = [u_parent EXCEPT ![c] = p]
    /\ u_child' = [u_child EXCEPT ![c] = <<>>]

\* The free entry at the head of the list becomes a process that does not run yet.
TakeEntry(p, c) ==
    /\ uprocfreelist' = Tail(uprocfreelist)
    /\ y_lastuproc' = IF c > y_lastuproc THEN c ELSE y_lastuproc
    /\ u_state' = [u_state EXCEPT ![c] = "SNULL"]
    /\ u_parent' = [u_parent EXCEPT ![c] = p]
    /\ u_child' = [u_child EXCEPT ![c] = <<>>]

Lost == { c \in Proc : u_state[c] = "SNULL" /\ \A p \in Proc : newchild[p] # c }

\* No memory for the page directory or for a region: the memory is given back, and
\* the entry, which points to it, is not.
newproc_fails(p) ==
    /\ Runs(p, "user") /\ MayTakeEntry /\ Cardinality(Lost) < MaxLost
    /\ TakeEntry(p, Head(uprocfreelist))
    /\ UNCHANGED <<uprocVars, newchild>>

\* Everything up to the inodes of the parent, for whose locks it may sleep.
newproc(p) ==
    LET c == Head(uprocfreelist) IN
    /\ Runs(p, "user") /\ MayTakeEntry
    /\ TakeEntry(p, c)
    /\ newchild' = [newchild EXCEPT ![p] = c]
    /\ pc' = [pc EXCEPT ![p] = "newproc"]
    /\ occurred' = occurred \ {u_deadchild(c)}
    /\ UNCHANGED u_sema

newproc_end(p) ==
    LET c == newchild[p] IN
    /\ Runs(p, "newproc")
    /\ u_child' = [u_child EXCEPT ![p] = <<c>> \o @]
    /\ u_state' = [u_state EXCEPT ![c] = "SRUN"]
    /\ newchild' = [newchild EXCEPT ![p] = NULL]
    /\ pc' = [pc EXCEPT ![p] = "user", ![c] = "user"]
    /\ UNCHANGED <<u_sema, occurred, uprocfreelist, y_lastuproc, u_parent>>

-----------------------------------------------------------------------------
(* kexit: files and inodes are closed first, which may sleep *)

kexit(p) ==
    /\ Runs(p, "user") /\ p # initp
    /\ Goto(p, "kexit")
    /\ UNCHANGED <<u_sema, occurred, familyVars>>

\* Mutant: the children keep their parent.
kexit_endOrphans(p) ==
    /\ Runs(p, "kexit")
    /\ u_state' = [u_state EXCEPT ![p] = "SZOMBIE"]
    /\ u_child' = [u_child EXCEPT ![initp] = u_child[p] \o @, ![p] = <<>>]
    /\ EventDone({u_deadchild(u_parent[p])})
    /\ Goto(p, "none")
    /\ UNCHANGED <<u_parent, uprocfreelist, y_lastuproc, newchild>>

\* Mutant: INIT does not learn of the dead it adopts.
kexit_endSilent(p) ==
    /\ Runs(p, "kexit")
    /\ u_state' = [u_state EXCEPT ![p] = "SZOMBIE"]
    /\ u_parent' = [c \in Proc |-> IF c \in ToSet(u_child[p]) THEN initp ELSE u_parent[c]]
    /\ u_child' = [u_child EXCEPT ![initp] = u_child[p] \o @, ![p] = <<>>]
    /\ EventDone({u_deadchild(u_parent[p])})
    /\ Goto(p, "none")
    /\ UNCHANGED <<uprocfreelist, y_lastuproc, newchild>>

\* The children go to INIT, in front of its own; the parent, and INIT if one of
\* them is dead already, learn of it.
kexit_end(p) ==
    /\ Runs(p, "kexit")
    /\ u_state' = [u_state EXCEPT ![p] = "SZOMBIE"]
    /\ u_parent' = [c \in Proc |-> IF c \in ToSet(u_child[p]) THEN initp ELSE u_parent[c]]
    /\ u_child' = [u_child EXCEPT ![initp] = u_child[p] \o @, ![p] = <<>>]
    /\ EventDone({ u_deadchild(q) : q \in {u_parent[p]} \cup (IF ZombieChildren(p) # {} THEN {initp} ELSE {}) })
    /\ Goto(p, "none")
    /\ UNCHANGED <<uprocfreelist, y_lastuproc, newchild>>

-----------------------------------------------------------------------------
(* wait *)

Waits(p) == Runs(p, "user") \/ Runs(p, "wait")

\* What a process that woke up does before it looks again: EVENTCLEAR.
Clear(p) == IF pc[p] = "wait" THEN occurred \ {u_deadchild(p)} ELSE occurred

\* The entries that have a UPROC.
Used == { q \in Proc : u_state[q] \notin {"none", "absent"} }

\* The first dead child leaves the list of its parent and frees its entry; the last
\* entry in use goes back to one that has a UPROC.
wait_found(p) ==
    /\ Waits(p)
    /\ \E i \in DOMAIN u_child[p] :
          LET c == u_child[p][i] IN
          /\ u_state[c] = "SZOMBIE"
          /\ \A j \in 1 .. i - 1 : u_state[u_child[p][j]] # "SZOMBIE"
          /\ u_child' = [u_child EXCEPT ![p] = RemoveAt(@, i)]
          /\ u_state' = [u_state EXCEPT ![c] = "none"]
          /\ u_parent' = [u_parent EXCEPT ![c] = NULL]
          /\ uprocfreelist' = <<c>> \o uprocfreelist
          /\ \E last \in Used \ {c} :
                /\ last <= y_lastuproc /\ \A q \in Used \ {c} : q <= y_lastuproc => q <= last
                /\ y_lastuproc' = last
          /\ occurred' = Clear(p) \ {u_deadchild(c)}
    /\ Goto(p, "user")
    /\ UNCHANGED <<u_sema, newchild>>

\* ECHILD.
wait_none(p) ==
    /\ Waits(p) /\ u_child[p] = <<>>
    /\ occurred' = Clear(p)
    /\ Goto(p, "user")
    /\ UNCHANGED <<u_sema, familyVars>>

\* An old mark of the event is cleared, and the list looked at once more, before
\* the process sleeps.
wait_sleeps(p) ==
    /\ Waits(p) /\ u_child[p] # <<>> /\ ZombieChildren(p) = {}
    /\ occurred' = occurred \ {u_deadchild(p)}
    /\ u_sema' = [u_sema EXCEPT ![p] = u_deadchild(p)]
    /\ Goto(p, "wait")
    /\ UNCHANGED familyVars

\* setppid (0): out of the list of the parent, into the one of INIT.
setppid(p) ==
    /\ Runs(p, "user") /\ SUPER /\ p # initp /\ u_parent[p] # initp
    /\ \E i \in DOMAIN u_child[u_parent[p]] :
          /\ u_child[u_parent[p]][i] = p
          /\ u_child' = [u_child EXCEPT ![u_parent[p]] = RemoveAt(@, i), ![initp] = <<p>> \o @]
    /\ u_parent' = [u_parent EXCEPT ![p] = initp]
    /\ UNCHANGED <<uprocVars, u_state, uprocfreelist, y_lastuproc, newchild>>
=============================================================================
