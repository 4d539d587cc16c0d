---------------------------- MODULE MCBlockCache ----------------------------
(* Small instances of BlockCache for TLC. *)
EXTENDS BlockCache, TLC

CONSTANTS u1, u2, v1, v2, um, sw, x1, x2, x3, a1, a2, b1, b2, A, B

MCDev(blk) == IF blk \in {a1, a2} THEN A ELSE B
MCBucket(blk) == IF blk = b2 THEN 1 ELSE 0
MCBuf2 == <<x1, x2>>
MCBuf3 == <<x1, x2, x3>>
MCWork ==
    {u1, u2} \X {<<"overwrite", a1, NULL>>, <<"modify", a2, NULL>>, <<"read", b1, b2>>, <<"write", b2, NULL>>}
MCWorkUmount ==
    {v1, v2} \X {<<"overwrite", a1, NULL>>, <<"modify", b1, NULL>>, <<"write", b2, NULL>>}
MCWorkAll == { <<w[1]>> \o w[2] : w \in MCWork \cup MCWorkUmount }

\* Both users of a company do the same things.
MCSymmetry == Permutations({u1, u2}) \cup Permutations({v1, v2})

MCWorkModify == {<<u1, "modify", b1, NULL>>}
MCWorkFail == {<<u1, "read", b1, NULL>>, <<u1, "overwrite", b1, NULL>>}
=============================================================================
