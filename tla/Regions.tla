------------------------------ MODULE Regions -------------------------------
(***************************************************************************)
(* What locks of regions promise: each byte of a file has at most one      *)
(* owner, a lock takes all the bytes asked for in one step, an unlock      *)
(* gives back those bytes and no others, and nobody transfers bytes that   *)
(* another process owns, when the transfer begins or while it lasts.       *)
(***************************************************************************)
EXTENDS Naturals

CONSTANTS Proc, Offset, NULL

VARIABLES
    owner,      \* of each byte
    asked,      \* mode and region of the call that each process is making
    moving      \* the processes in a transfer

vars == <<owner, asked, moving>>

Mode == {"lock", "tlock", "unlock", "test", "rdwr", "trdwr", "close"}

Request == [mode : Mode, begin : Offset, end : { b + 1 : b \in Offset }]

None == [mode |-> NULL, begin |-> 0, end |-> 0]

Bytes(p) == { b \in Offset : asked[p].begin <= b /\ b < asked[p].end }

Open(p) == \A b \in Bytes(p) : owner[b] \in {p, NULL}

Init ==
    /\ owner = [b \in Offset |-> NULL]
    /\ asked = [p \in Proc |-> None]
    /\ moving = {}

Idle(p) == asked[p] = None
Answer(p) == asked' = [asked EXCEPT ![p] = None]

\* Any mode and any region.
Ask(p) ==
    /\ Idle(p) /\ asked'[p] \in Request
    /\ \A q \in Proc \ {p} : asked'[q] = asked[q]
    /\ UNCHANGED <<owner, moving>>

\* Somebody else has a byte, or the wait would be circular, or there are too many regions.
Refuse(p) ==
    /\ ~Idle(p) /\ asked[p].mode # "close" /\ p \notin moving
    /\ asked[p].mode = "test" => ~Open(p)
    /\ Answer(p)
    /\ UNCHANGED <<owner, moving>>

Test(p) ==
    /\ asked[p].mode = "test" /\ Open(p)
    /\ Answer(p)
    /\ UNCHANGED <<owner, moving>>

Lock(p) ==
    /\ asked[p].mode \in {"lock", "tlock"} /\ Open(p)
    /\ \A q \in moving \ {p} : Bytes(p) \cap Bytes(q) = {}
    /\ owner' = [b \in Offset |-> IF b \in Bytes(p) THEN p ELSE owner[b]]
    /\ Answer(p)
    /\ UNCHANGED moving

Unlock(p) ==
    /\ asked[p].mode = "unlock"
    /\ owner' = [b \in Offset |-> IF b \in Bytes(p) /\ owner[b] = p THEN NULL ELSE owner[b]]
    /\ Answer(p)
    /\ UNCHANGED moving

Begin(p) ==
    /\ asked[p].mode \in {"rdwr", "trdwr"} /\ p \notin moving /\ Open(p)
    /\ moving' = moving \cup {p}
    /\ UNCHANGED <<owner, asked>>

End(p) ==
    /\ p \in moving
    /\ moving' = moving \ {p}
    /\ Answer(p)
    /\ UNCHANGED owner

Close(p) ==
    /\ asked[p].mode = "close"
    /\ owner' = [b \in Offset |-> IF owner[b] = p THEN NULL ELSE owner[b]]
    /\ Answer(p)
    /\ UNCHANGED moving

Next ==
    \E p \in Proc :
        Ask(p) \/ Refuse(p) \/ Test(p) \/ Lock(p) \/ Unlock(p) \/ Begin(p) \/ End(p) \/ Close(p)

Spec == Init /\ [][Next]_vars
=============================================================================
