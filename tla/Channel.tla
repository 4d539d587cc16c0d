------------------------------ MODULE Channel -------------------------------
(***************************************************************************)
(* What a pipe promises to the processes that share it: a bounded queue of *)
(* bytes, an end of file only when it is empty and nobody can write, and a *)
(* refusal (EPIPE) only when nobody can read.                              *)
(***************************************************************************)
EXTENDS Integers, Sequences

CONSTANTS
    Cap,        \* bytes that the pipe holds
    Byte

VARIABLES
    stream,     \* the bytes written and not yet read
    open,       \* the ends that some process holds
    answer      \* what the last step answered to a process

Silence == [what |-> "nothing", bytes |-> <<>>]

Init == stream = <<>> /\ open = {} /\ answer = Silence

\* A new pipe, after the last one was closed at both ends.
Create ==
    /\ open = {} /\ open' = {"read", "write"}
    /\ stream' = <<>> /\ answer' = Silence

\* The bytes that fit go to the end of the queue.
Put ==
    /\ "read" \in open
    /\ \E n \in 1 .. Cap - Len(stream) : \E bytes \in [1 .. n -> Byte] : stream' = stream \o bytes
    /\ answer' = Silence /\ UNCHANGED open

\* A reader gets bytes from the head.
Take ==
    /\ \E n \in 1 .. Len(stream) :
          /\ answer' = [what |-> "bytes", bytes |-> SubSeq(stream, 1, n)]
          /\ stream' = SubSeq(stream, n + 1, Len(stream))
    /\ UNCHANGED open

EndOfFile ==
    /\ stream = <<>> /\ "write" \notin open
    /\ answer' = [what |-> "eof", bytes |-> <<>>]
    /\ UNCHANGED <<stream, open>>

Refuse ==
    /\ "read" \notin open
    /\ answer' = [what |-> "epipe", bytes |-> <<>>]
    /\ UNCHANGED <<stream, open>>

\* The last process that holds an end leaves it; with both ends closed the bytes go.
Close ==
    /\ \E end \in open : open' = open \ {end}
    /\ stream' = IF open' = {} THEN <<>> ELSE stream
    /\ answer' = Silence

Forget == answer' = Silence /\ UNCHANGED <<stream, open>>

Next == Create \/ Put \/ Take \/ EndOfFile \/ Refuse \/ Close \/ Forget

Spec == Init /\ [][Next]_<<stream, open, answer>>
=============================================================================
