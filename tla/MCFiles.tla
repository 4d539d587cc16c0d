------------------------------ MODULE MCFiles -------------------------------
(* Small instances of Files for TLC. *)
EXTENDS Files, TLC

CONSTANTS u1, u2, sw, um, l1, l2, l3, R, D, root, dir, dev, f, g

\* The mount point, which leads to the root of the mounted device, and a file of it.
MCOpens == {<<R, dir>>, <<D, f>>, <<D, g>>}
MCLockedFile == <<D, f>>

\* Regions of a file of three bytes; a close names them all.
Region == { r \in (0 .. 3) \X (0 .. 3) : r[1] < r[2] }
CallsOf(modes, regions) == { [mode |-> m, begin |-> r[1], end |-> r[2]] : m \in modes, r \in regions }

\* The users, the swapper and umount.
MCUsers == [who |-> {u1, u2, sw, um}, calls |-> {}]

\* Two processes that make every call; three that wait for each other.
MCTwo == [who |-> {l1, l2},
          calls |-> CallsOf({"lock", "unlock"}, Region \ {<<0, 2>>, <<1, 3>>})
                    \cup CallsOf({"tlock", "test", "rdwr", "trdwr"}, {<<1, 3>>})
                    \cup CallsOf({"close"}, {<<0, 3>>})]
MCThree == [who |-> {l1, l2, l3},
            calls |-> CallsOf({"lock"}, {<<0, 1>>, <<1, 2>>, <<2, 3>>}) \cup CallsOf({"unlock"}, {<<0, 3>>})]

\* A process that keeps a file open and locks a region of it, and those who open it, update the
\* inodes and try to umount.
MCMixed == [who |-> {u1, sw, um, l1}, calls |-> CallsOf({"lock", "rdwr", "unlock"}, {<<0, 2>>})]

MCCompanies == {MCUsers, MCTwo, MCThree, MCMixed}

\* Users do the same things, and so do lockers.
MCSymmetry == Permutations({u1, u2}) \cup Permutations({l1, l2})
=============================================================================
