---------------------------- MODULE MCProcesses -----------------------------
(* Small instances of Processes for TLC. *)
EXTENDS Processes

CONSTANTS b1, b2

\* Nothing in the code depends on the value of a byte.
MCByte == {b1, b2}
MCSymmetry == Permutations(MCByte)

MCNDelays == {{}, End}

\* A small table with a pipe, a larger one without.
MCSizes == {<<3, 2>>, <<4, 0>>}
=============================================================================
