-------------------------------- MODULE Pipe --------------------------------
(***************************************************************************)
(* Pipes (pipefs/piperead.c): the area, the two events, the counts of its  *)
(* ends, read, write and the closing of an end.  Processes share the ends  *)
(* by fork.  The lock of the inode is never held by a process that sleeps, *)
(* so without preemption nobody ever waits for it.                         *)
(***************************************************************************)
EXTENDS UProc

CONSTANTS
    PIPESZ,
    Byte,       \* what a byte may be
    NDELAYS,    \* what the ends with O_NDELAY of a pipe may be
    MaxCount    \* bound: bytes of a call to write

End == {"read", "write"}

ASSUME PipeAssumption ==
    PIPESZ \in Nat \ {0} /\ MaxCount \in Nat \ {0} /\ NDELAYS \subseteq SUBSET End

VARIABLES
    nkfile,     \* KFILEs free for pipes when the system starts
    area,       \* the bytes in the area of the pipe; its length is i_size
    f_offset,   \* f_offset_low of the KFILE of the reading end
    ndelay,     \* the ends with O_NDELAY
    f_count,    \* of the KFILE of each end
    u_ofile,    \* the ends that each process has open
    io_count,   \* bytes that the process still has to write
    answer      \* history: what the last step answered to a process

pipeVars == <<nkfile, area, f_offset, ndelay, f_count, u_ofile, io_count>>

\* References to the inode: one for each KFILE in use.
i_count == Cardinality({ e \in End : f_count[e] > 0 })

Silence == [what |-> "nothing", bytes |-> <<>>]
Silent == answer' = Silence

PipeInit(kfiles) ==
    /\ nkfile = kfiles
    /\ area = <<>> /\ f_offset = 0 /\ ndelay = {}
    /\ f_count = [e \in End |-> 0]
    /\ u_ofile = [p \in Proc |-> {}]
    /\ io_count = [p \in Proc |-> 0]
    /\ answer = Silence

\* pipe (), and the fcntl () that its caller may do next.  The failures of pipe leave
\* everything as it was.
pipe(p) ==
    /\ Runs(p, "user") /\ i_count = 0 /\ nkfile >= 2
    /\ area' = <<>> /\ f_offset' = 0 /\ ndelay' \in NDELAYS
    /\ f_count' = [e \in End |-> 1]
    /\ u_ofile' = [u_ofile EXCEPT ![p] = End]
    /\ occurred' = (occurred \ {i_notempty}) \cup {i_notfull}
    /\ Silent
    /\ UNCHANGED <<pc, u_sema, io_count, nkfile>>

-----------------------------------------------------------------------------
(* pipe_read *)

\* A process in a call to read, from its beginning or from a sleep.
Reads(p) == (Runs(p, "user") /\ "read" \in u_ofile[p]) \/ Runs(p, "read")

Empty == f_offset = Len(area)

Answer(p, what, bytes) ==
    /\ answer' = [what |-> what, bytes |-> bytes]
    /\ Goto(p, "user")

\* Mutant: whether somebody can still write is looked at before the bytes.
ReadEmptyHasty(p) ==
    /\ Reads(p)
    /\ \/ i_count < 2 /\ Answer(p, "eof", <<>>) /\ UNCHANGED u_sema
       \/ /\ Empty /\ i_count = 2 /\ Goto(p, "read") /\ Sleeps(p, i_notempty) /\ Silent
    /\ UNCHANGED <<occurred, pipeVars>>

\* Nothing to read: the end of the file, or a sleep unless O_NDELAY.
ReadEmpty(p) ==
    /\ Reads(p) /\ Empty
    /\ \/ /\ i_count < 2
          /\ Answer(p, "eof", <<>>)
          /\ UNCHANGED u_sema
       \/ /\ i_count = 2 /\ "read" \in ndelay
          /\ Goto(p, "user") /\ Silent
          /\ UNCHANGED u_sema
       \/ /\ i_count = 2 /\ "read" \notin ndelay
          /\ Goto(p, "read") /\ Sleeps(p, i_notempty) /\ Silent
    /\ UNCHANGED <<occurred, pipeVars>>

\* The bytes there are, up to the number asked for.  A reader that gets to the end
\* of the area starts it again.
ReadSome(p) ==
    /\ Reads(p) /\ ~Empty
    /\ \E count \in 1 .. Len(area) - f_offset :
          /\ Answer(p, "bytes", SubSeq(area, f_offset + 1, f_offset + count))
          /\ IF f_offset + count = Len(area)
             THEN /\ f_offset' = 0 /\ area' = <<>>
                  /\ occurred' = (occurred \ {i_notempty}) \cup {i_notfull}
                  /\ u_sema' = [q \in Proc |-> IF u_sema[q] = i_notfull THEN NULL ELSE u_sema[q]]
             ELSE /\ f_offset' = f_offset + count
                  /\ UNCHANGED <<area, occurred, u_sema>>
    /\ UNCHANGED <<nkfile, ndelay, f_count, u_ofile, io_count>>

-----------------------------------------------------------------------------
(* pipe_write *)

Writes(p) == (Runs(p, "user") /\ "write" \in u_ofile[p]) \/ Runs(p, "write")

\* Bytes still to write.
Asked(p) == IF pc[p] = "user" THEN 1 .. MaxCount ELSE {io_count[p]}

WriteEnd(p) == Goto(p, "user") /\ io_count' = [io_count EXCEPT ![p] = 0]

\* EPIPE, with SIGPIPE: some bytes may have been written before.
WriteRefused(p) ==
    /\ Writes(p) /\ i_count < 2
    /\ WriteEnd(p) /\ answer' = [what |-> "epipe", bytes |-> <<>>]
    /\ UNCHANGED <<nkfile, u_sema, occurred, area, f_offset, ndelay, f_count, u_ofile>>

Full == Len(area) >= PIPESZ

\* The process sleeps until there is room for the n bytes it still has.
WriteWaits(p, n) ==
    /\ "write" \notin ndelay
    /\ io_count' = [io_count EXCEPT ![p] = n]
    /\ Goto(p, "write")

WriteFull(p) ==
    /\ Writes(p) /\ i_count = 2 /\ Full
    /\ \/ "write" \in ndelay /\ WriteEnd(p) /\ UNCHANGED u_sema
       \/ \E n \in Asked(p) : WriteWaits(p, n) /\ Sleeps(p, i_notfull)
    /\ Silent
    /\ UNCHANGED <<nkfile, occurred, area, f_offset, ndelay, f_count, u_ofile>>

\* Mutant: the whole request is written.
WriteSomeMore(p) ==
    \E n \in Asked(p) :
        /\ Writes(p) /\ i_count = 2 /\ ~Full
        /\ \E bytes \in [1 .. n -> Byte] : area' = area \o bytes
        /\ occurred' = occurred \cup {i_notempty}
        /\ u_sema' = [q \in Proc |-> IF u_sema[q] = i_notempty THEN NULL ELSE u_sema[q]]
        /\ WriteEnd(p) /\ Silent
        /\ UNCHANGED <<nkfile, f_offset, ndelay, f_count, u_ofile>>

\* What fits is written, and the readers are woken; a writer that has more finds the
\* pipe full in the next turn of its loop.
WriteSome(p) ==
    \E n \in Asked(p) :
        LET room == PIPESZ - Len(area)
            count == IF n <= room THEN n ELSE room
            readers == { q \in Proc : u_sema[q] = i_notempty }
        IN  /\ Writes(p) /\ i_count = 2 /\ ~Full
            /\ \E bytes \in [1 .. count -> Byte] : area' = area \o bytes
            /\ occurred' = {i_notempty} \cup (IF count = room THEN occurred \ {i_notfull} ELSE occurred)
            /\ \/ /\ n = count \/ "write" \in ndelay
                  /\ WriteEnd(p)
                  /\ u_sema' = [q \in Proc |-> IF q \in readers THEN NULL ELSE u_sema[q]]
               \/ /\ n > count
                  /\ WriteWaits(p, n - count)
                  /\ u_sema' = [q \in Proc |-> IF q = p THEN i_notfull
                                               ELSE IF q \in readers THEN NULL ELSE u_sema[q]]
            /\ Silent
            /\ UNCHANGED <<nkfile, f_offset, ndelay, f_count, u_ofile>>

-----------------------------------------------------------------------------
(* fclose, pipe_kfile_close *)

\* Mutant: the other event is marked.
fcloseSwapped(p, e) ==
    /\ e \in u_ofile[p]
    /\ u_ofile' = [u_ofile EXCEPT ![p] = @ \ {e}]
    /\ f_count' = [f_count EXCEPT ![e] = @ - 1]
    /\ IF f_count[e] > 1
       THEN UNCHANGED <<area, occurred, u_sema>>
       ELSE /\ EventDone({IF e = "read" THEN i_notempty ELSE i_notfull})
            /\ area' = IF i_count = 1 THEN <<>> ELSE area
    /\ Silent
    /\ UNCHANGED <<nkfile, f_offset, ndelay, io_count>>

\* The last close of an end wakes who waits for the other one; the last of both
\* gives the area back.
fclose(p, e) ==
    /\ e \in u_ofile[p]
    /\ u_ofile' = [u_ofile EXCEPT ![p] = @ \ {e}]
    /\ f_count' = [f_count EXCEPT ![e] = @ - 1]
    /\ IF f_count[e] > 1
       THEN UNCHANGED <<area, occurred, u_sema>>
       ELSE /\ EventDone({IF e = "read" THEN i_notfull ELSE i_notempty})
            /\ area' = IF i_count = 1 THEN <<>> ELSE area
    /\ Silent
    /\ UNCHANGED <<nkfile, f_offset, ndelay, io_count>>

Close(p) ==
    /\ Runs(p, "user")
    /\ \E e \in End : fclose(p, e)
    /\ UNCHANGED pc

\* Mutant: the new references are not counted.
InheritFilesUncounted(p, child) ==
    /\ u_ofile' = [u_ofile EXCEPT ![child] = u_ofile[p]]
    /\ UNCHANGED f_count

\* What newproc gives the child: every KFILE of the parent.
InheritFiles(p, child) ==
    /\ u_ofile' = [u_ofile EXCEPT ![child] = u_ofile[p]]
    /\ f_count' = [e \in End |-> IF e \in u_ofile[p] THEN f_count[e] + 1 ELSE f_count[e]]

PipeStep(p) ==
    \/ pipe(p) \/ Close(p)
    \/ ReadEmpty(p) \/ ReadSome(p)
    \/ WriteRefused(p) \/ WriteFull(p) \/ WriteSome(p)
=============================================================================
