---------------------------- MODULE UmountProofs ----------------------------
(***************************************************************************)
(* umount (2) writes every modified block of the device before it discards *)
(* its buffers, for any users, umounts, buffers and blocks, if it begins   *)
(* alone.                                                                  *)
(***************************************************************************)
EXTENDS BlockCacheProofs

\* No umount begins while an update runs, or while a process is inside its device (in the
\* code: has a file of it open, with which it could begin an operation later).
UmountAlone == \A p \in Umounter : UpdateBegin(p) => ~updlock /\ ~Using(proc'[p].dev)

Active(p) == proc[p].pc \notin {"idle", "absent"}

\* The buffer has a block of the device.
On(b, dev) == buf[b].id # NULL /\ Dev(buf[b].id) = dev

\* What the loops of umount over the table have left behind: the buffers written, and the ones whose
\* transfers are ended.
Passed(p, b) == \E j \in 1 .. proc[p].i - 1 : Buf[j] = b
Flushed(p, b) == proc[p].pc # "inodes" /\ (proc[p].pc = "flush" => Passed(p, b))
Waited(p, b) == proc[p].pc \notin {"inodes", "flush"} /\ (proc[p].pc = "wait" => Passed(p, b))

\* A process that is in one of the codes has the buffer.
Taken(b, codes) == \E q \in Proc : proc[q].pc \in codes /\ proc[q].b = b

Loops == {"flush", "wait", "discard"}

\* Nobody comes into the device of an umount; what it has written stays clean; and the buffer that it
\* waits for is not of another umount, nor about to be given to another block when it is discarded.
SaveOf(p) ==
    /\ proc[p].pc \notin Loops => proc[p].i = 1
    /\ proc[p].pc \in Loops /\ proc[p].b # NULL => proc[p].b = Buf[proc[p].i]
    /\ Active(p) =>
          /\ \A u \in User : Active(u) => Dev(proc[u].blk) # proc[p].dev
          /\ \A r \in Umounter : Active(r) /\ r # p => proc[r].dev # proc[p].dev
          /\ \A b \in Bufs : On(b, proc[p].dev) =>
                /\ Flushed(p, b) => ~Has(b, "DIRTY")
                /\ Waited(p, b) => ~InProgress(b) /\ ~Taken(b, {"lruasync"})
    /\ proc[p].pc = "discard" /\ proc[p].b # NULL =>
          /\ buf[proc[p].b].id = NULL \/ On(proc[p].b, proc[p].dev)
          /\ ~Taken(proc[p].b, {"lruasync", "reuse"})
    /\ proc[p].pc = "flush" /\ proc[p].b # NULL =>
          \A r \in Umounter : Active(r) /\ r # p => ~On(proc[p].b, proc[r].dev)

\* What a process that takes a buffer from the list needs of it.
TakerOf(q) ==
    /\ proc[q].pc = "reuse" => cpu = q
    /\ proc[q].pc = "lruasync" => Has(proc[q].b, "ASYNC")

\* breada takes both blocks from one device.
AheadOf(u) == proc[u].next # NULL => Dev(proc[u].next) = Dev(proc[u].blk)

SaveInv ==
    /\ \A p \in Umounter : SaveOf(p)
    /\ \A q \in Proc : TakerOf(q)
    /\ \A u \in User : AheadOf(u)

-----------------------------------------------------------------------------
(* What a step does to the buffers *)

\* The buffer keeps its block, does not become dirty, and is only written if it was dirty.
Calm(c) ==
    /\ buf'[c].id = buf[c].id
    /\ Has(c, "DIRTY")' => Has(c, "DIRTY")
    /\ InProgress(c)' => InProgress(c) \/ Has(c, "DIRTY")

\* The buffer has, or gets, a block of the device that the user is in.
Serves(q, c) ==
    /\ q \in User /\ Active(q) /\ buf'[c].id \in Block /\ Dev(buf'[c].id) = Dev(proc[q].blk)
    /\ buf'[c].id = buf[c].id \/ (proc[q].pc = "reuse" /\ proc[q].b = c)

\* The buffer is written by block_flush.
Sends(q, c) == q \in Umounter /\ proc[q].pc = "flush" /\ proc[q].b = c /\ buf'[c].id = buf[c].id

\* The buffer is discarded.
Drops(q, c) == q \in Umounter /\ proc[q].pc = "discard" /\ proc[q].b = c /\ buf'[c].id = NULL

Touches(q) ==
    \A c \in Bufs :
        /\ Calm(c) \/ Serves(q, c) \/ Sends(q, c) \/ Drops(q, c)
        /\ Has(c, "ASYNC") => Has(c, "ASYNC")' \/ lock[c] = <<>> \/ Head(lock[c]) = q

\* How a process comes to take a buffer from the list.
Takes(q) ==
    /\ proc'[q].pc = "reuse" =>
          /\ cpu' = q /\ proc'[q].b \in Bufs
          /\ lock[proc'[q].b] = <<>> \/ (proc[q].pc = "lruasync" /\ proc[q].b = proc'[q].b)
    /\ proc'[q].pc = "lruasync" =>
          /\ proc'[q].b \in Bufs /\ lock[proc'[q].b] = <<>> /\ InProgress(proc'[q].b) /\ buf' = buf

Acts(q) == cpu \in {q, NULL} /\ Others(q) /\ Touches(q) /\ Takes(q)

\* No buffer changes.
LEMMA TouchesNone ==
    ASSUME NEW q \in Proc, buf' = buf
    PROVE  Touches(q)
BY DEF Touches, Calm, Has, InProgress

\* One buffer changes.
LEMMA TouchesOne ==
    ASSUME NEW q \in Proc, NEW b \in Bufs, \A c \in Bufs : c # b => buf'[c] = buf[c],
           Calm(b) \/ Serves(q, b) \/ Sends(q, b) \/ Drops(q, b),
           lock[b] = <<>> \/ Head(lock[b]) = q \/ (Has(b, "ASYNC") => Has(b, "ASYNC")')
    PROVE  Touches(q)
BY DEF Touches, Calm, Has, InProgress

\* One buffer changes and stays calm.
LEMMA CalmChange ==
    ASSUME NEW b \in Bufs, NEW flags, NEW done, NEW data, NEW op, Changes(b, flags, done, data, op),
           "DIRTY" \in flags => Has(b, "DIRTY"),
           "ASYNC" \in flags /\ ~done => InProgress(b) \/ Has(b, "DIRTY")
    PROVE  Calm(b) /\ \A c \in Bufs : c # b => buf'[c] = buf[c]
BY DEF Calm, Changes, Has, InProgress

\* A buffer put back stays calm.
LEMMA ReleaseCalm ==
    ASSUME TypeOK, NEW b \in Bufs, buf' = [buf EXCEPT ![b] = Released(buf[b])]
    PROVE  /\ Calm(b) /\ (\A c \in Bufs : c # b => buf'[c] = buf[c])
           /\ Has(b, "ASYNC") => Has(b, "ASYNC")'
<1> DEFINE done == buf[b].done /\ ~({"ERROR", "READ"} \subseteq buf[b].flags /\ "ASYNC" \notin buf[b].flags)
<1>1. Changes(b, buf[b].flags, done, buf[b].data, buf[b].op)
  BY ReleaseShape
<1>2. "ASYNC" \in buf[b].flags /\ ~done => InProgress(b)
  BY DEF InProgress, Has
<1> HIDE DEF done
<1>3. Calm(b) /\ \A c \in Bufs : c # b => buf'[c] = buf[c]
  BY <1>1, <1>2, CalmChange DEF Has
<1> QED BY <1>1, <1>3 DEF Changes, Has

\* A dirty buffer written stays calm.
LEMMA AsyncCalm ==
    ASSUME IInv, NEW b \in Bufs, Has(b, "DIRTY"), WriteAsync(b)
    PROVE  Calm(b) /\ (\A c \in Bufs : c # b => buf'[c] = buf[c]) /\ Has(b, "ASYNC")'
<1>1. buf[b].op = "none"
  BY DEF IInv, Buffers, BufferOf
<1>2. Changes(b, (buf[b].flags \cup {"ASYNC"}) \ {"READ", "ERROR", "DIRTY"}, FALSE, buf[b].data, "write")
  BY <1>1, AsyncShape DEF IInv
<1>3. Calm(b) /\ \A c \in Bufs : c # b => buf'[c] = buf[c]
  BY <1>2, CalmChange
<1> QED BY <1>2, <1>3 DEF Changes, Has

\* A process gets new locals.
LEMMA SetProc ==
    ASSUME NEW p \in Proc, NEW r, proc \in [Proc -> ProcType], proc' = [proc EXCEPT ![p] = r]
    PROVE  Others(p) /\ proc'[p] = r
BY DEF Others

\* The steps of users are of users.
LEMMA UserActive ==
    ASSUME IInv, NEW p \in Proc, proc[p].pc \in UserPc
    PROVE  p \in User /\ Active(p) /\ proc[p].blk \in Block
<1>1. LocalsOf(p) /\ (p \in User \/ p \in Umounter \/ p \in Swapper)
  BY Actor DEF Proc
<1> QED BY <1>1 DEF LocalsOf, UserPc, UserGet, UpdatePc, Active

\* The steps of block_get.
LEMMA GetActs ==
    ASSUME IInv, NEW p \in Proc, AheadOf(p), Get(p)
    PROVE  Acts(p)
<1>1. /\ LocalsOf(p) /\ Held(p) /\ HandsOf(p) /\ TypeOK /\ proc \in [Proc -> ProcType]
      /\ proc[p] \in ProcType /\ buf \in [Bufs -> BufType]
  BY Actor DEF IInv
<1>2. CASE Search(p)
  <2>1. buf' = buf /\ cpu \in {p, NULL}
    BY <1>2 DEF Search, At
  <2>2. Others(p) /\ proc'[p].pc \in {"found", "lru"}
    BY <1>1, <1>2 DEF Search, Others, ProcType
  <2> QED BY <2>1, <2>2, TouchesNone DEF Acts, Takes
<1>3. CASE FoundOther(p)
  <2>1. buf' = buf /\ cpu \in {p, NULL}
    BY <1>3 DEF FoundOther, At
  <2>2. Others(p) /\ proc'[p].pc = "get"
    BY <1>1, <1>3 DEF FoundOther, Others, ProcType
  <2> QED BY <2>1, <2>2, TouchesNone DEF Acts, Takes
<1>4. CASE Found(p)
  <2>1. proc[p].pc = "found" /\ Owns(p) /\ cpu \in {p, NULL}
    BY <1>4 DEF Found, At
  <2>2. PICK b \in Bufs : b = proc[p].b /\ Head(lock[b]) = p
    BY <1>1, <2>1, Mine DEF Held, Waiting
  <2>3. CASE buf' = buf /\ proc' = proc
    BY <2>1, <2>3, TouchesNone DEF Acts, Takes, Others
  <2>4. CASE /\ buf' = [buf EXCEPT ![b] = [buf[b] EXCEPT !.flags = buf[b].flags \ {"ASYNC"}]]
             /\ proc' = [proc EXCEPT ![p].pc = "got"]
    <3>1. Others(p) /\ proc'[p].pc = "got"
      BY <1>1, <2>4 DEF Others, ProcType
    <3>2. Calm(b) /\ \A c \in Bufs : c # b => buf'[c] = buf[c]
      BY <1>1, <2>4, ClearShape, CalmChange DEF Has
    <3> QED BY <2>1, <2>2, <3>1, <3>2, TouchesOne DEF Acts, Takes
  <2> QED BY <1>4, <2>2, <2>3, <2>4 DEF Found
<1>5. CASE ScanClean(p) \/ ScanDirty(p) \/ ScanBusy(p)
  <2>1. Scanning(p) /\ cpu \in {p, NULL}
    BY <1>5 DEF ScanClean, ScanDirty, ScanBusy, Scanning, At
  <2>2. PICK b \in Bufs :
           /\ b = Candidate(p) /\ lock[b] = <<>> /\ BufferOf(b)
           /\ buf[b].op # "none" => Has(b, "ASYNC")
    BY <2>1, CandidateUnlocked, Nobodys
  <2>3. CASE ScanClean(p)
    <3>1. /\ buf' = [buf EXCEPT ![b] = [buf[b] EXCEPT !.flags = buf[b].flags \ {"ASYNC"}]]
          /\ proc' = [proc EXCEPT ![p].pc = "reuse", ![p].b = b] /\ cpu' = p
      BY <2>2, <2>3 DEF ScanClean
    <3>2. Others(p) /\ proc'[p].pc = "reuse" /\ proc'[p].b = b
      BY <1>1, <3>1 DEF Others, ProcType
    <3>3. Calm(b) /\ \A c \in Bufs : c # b => buf'[c] = buf[c]
      BY <1>1, <3>1, ClearShape, CalmChange DEF Has
    <3> QED BY <2>1, <2>2, <3>1, <3>2, <3>3, TouchesOne DEF Acts, Takes
  <2>4. CASE ScanDirty(p)
    <3>1. /\ buf' = [buf EXCEPT ![b] = Written([buf[b] EXCEPT !.flags = buf[b].flags \ {"ASYNC"}])]
          /\ proc' = [proc EXCEPT ![p].pc = "lruwrite", ![p].b = b] /\ Has(b, "DIRTY")
      BY <2>2, <2>4 DEF ScanDirty
    <3>2. Others(p) /\ proc'[p].pc = "lruwrite"
      BY <1>1, <3>1 DEF Others, ProcType
    <3>3. buf[b].op = "none"
      BY <2>2, <3>1 DEF BufferOf
    <3>4. Calm(b) /\ \A c \in Bufs : c # b => buf'[c] = buf[c]
      BY <1>1, <3>1, <3>3, WriteShape, CalmChange
    <3> QED BY <2>1, <2>2, <3>2, <3>4, TouchesOne DEF Acts, Takes
  <2>5. CASE ScanBusy(p)
    <3>1. buf' = buf /\ proc' = [proc EXCEPT ![p].pc = "lruasync", ![p].b = b] /\ InProgress(b)
      BY <2>2, <2>5 DEF ScanBusy
    <3>2. Others(p) /\ proc'[p].pc = "lruasync" /\ proc'[p].b = b
      BY <1>1, <3>1 DEF Others, ProcType
    <3> QED BY <2>1, <2>2, <3>1, <3>2, TouchesNone DEF Acts, Takes
  <2> QED BY <1>5, <2>3, <2>4, <2>5
<1>6. CASE ScanWritten(p)
  <2>1. proc[p].pc = "lruwrite" /\ cpu \in {p, NULL}
    BY <1>6 DEF ScanWritten, At
  <2>2. PICK b \in Bufs : b = proc[p].b /\ Head(lock[b]) = p
    BY <2>1, Mine DEF Owning
  <2>3. Others(p) /\ proc'[p].pc = "lruagain"
    BY <1>1, <1>6 DEF ScanWritten, Others, ProcType
  <2>4. buf' = [buf EXCEPT ![b] = Released(buf[b])]
    BY <1>6, <2>2 DEF ScanWritten
  <2>5. Calm(b) /\ \A c \in Bufs : c # b => buf'[c] = buf[c]
    BY <1>1, <2>4, ReleaseCalm
  <2> QED BY <2>1, <2>2, <2>3, <2>5, TouchesOne DEF Acts, Takes
<1>7. CASE ScanDone(p)
  <2>1. proc[p].pc = "lruasync" /\ cpu \in {p, NULL} /\ cpu' = p
    BY <1>7 DEF ScanDone, At
  <2>2. PICK b \in Bufs : b = proc[p].b /\ Head(lock[b]) = p
    BY <2>1, Mine DEF Owning
  <2>3. Others(p) /\ proc'[p].pc = "reuse" /\ proc'[p].b = b
    BY <1>1, <1>7, <2>2 DEF ScanDone, Others, ProcType
  <2>4. buf' = [buf EXCEPT ![b] = [buf[b] EXCEPT !.flags = buf[b].flags \ {"ASYNC"}]]
    BY <1>7, <2>2 DEF ScanDone
  <2>5. Calm(b) /\ \A c \in Bufs : c # b => buf'[c] = buf[c]
    BY <1>1, <2>4, ClearShape, CalmChange DEF Has
  <2> QED BY <2>1, <2>2, <2>3, <2>5, TouchesOne DEF Acts, Takes
<1>8. CASE Reuse(p)
  <2>1. proc[p].pc = "reuse" /\ cpu \in {p, NULL}
    BY <1>8 DEF Reuse, At
  <2>2. PICK b \in Bufs : b = proc[p].b /\ Head(lock[b]) = p
    BY <2>1, Mine DEF Owning
  <2>3. p \in User /\ Active(p) /\ Target(p) \in Block /\ Dev(Target(p)) = Dev(proc[p].blk)
    <3>1. p \in User /\ Active(p) /\ proc[p].blk \in Block
      BY <2>1, UserActive DEF UserPc, UserGet
    <3>2. proc[p].for = "ahead" => proc[p].next \in Block
      BY <1>1, <2>1 DEF LocalsOf, UserGet
    <3>3. proc[p].next \in Block => Dev(proc[p].next) = Dev(proc[p].blk)
      BY <3>1, Constants DEF AheadOf
    <3> QED BY <3>1, <3>2, <3>3 DEF Target
  <2>4. Others(p) /\ proc'[p].pc \in {"get", "got"}
    <3>1. CASE proc' = [proc EXCEPT ![p].pc = "get", ![p].b = NULL]
      BY <1>1, <3>1 DEF Others, ProcType
    <3>2. CASE proc' = [proc EXCEPT ![p].pc = "got"]
      BY <1>1, <3>2 DEF Others, ProcType
    <3> QED BY <1>8, <3>1, <3>2, Zenon DEF Reuse
  <2>5. /\ \A c \in Bufs : c # b => buf'[c] = buf[c]
        /\ buf'[b].id = Target(p)
    <3> DEFINE r == [buf[b] EXCEPT !.id = Target(p), !.flags = {}, !.done = FALSE]
    <3>1. buf' = [buf EXCEPT ![b] = r]
      BY <1>8, <2>2, Zenon DEF Reuse
    <3>2. r.id = Target(p)
      BY <1>1 DEF BufType
    <3> HIDE DEF r
    <3> QED BY <1>1, <3>1, <3>2
  <2>6. Serves(p, b)
    BY <2>1, <2>2, <2>3, <2>5 DEF Serves
  <2> QED BY <2>1, <2>2, <2>4, <2>5, <2>6, TouchesOne DEF Acts, Takes
<1>9. CASE PutEndLru(p)
  <2>1. buf' = buf /\ cpu \in {p, NULL}
    BY <1>9 DEF PutEndLru, At
  <2>2. Others(p) /\ proc'[p].pc = "keep"
    BY <1>1, <1>9 DEF PutEndLru, Others, ProcType
  <2> QED BY <2>1, <2>2, TouchesNone DEF Acts, Takes
<1>10. CASE KeepFree(p)
  <2>1. proc[p].pc = "keep" /\ cpu \in {p, NULL} /\ proc' = proc
    BY <1>10 DEF KeepFree, At
  <2>2. PICK b \in Bufs : lock[b] = <<>> /\ Has(b, "DIRTY") /\ WriteAsync(b)
    BY <1>10, KeepFreeOne
  <2>3. Calm(b) /\ \A c \in Bufs : c # b => buf'[c] = buf[c]
    BY <2>2, AsyncCalm
  <2> QED BY <2>1, <2>2, <2>3, TouchesOne DEF Acts, Takes, Others
<1> QED BY <1>2, <1>3, <1>4, <1>5, <1>6, <1>7, <1>8, <1>9, <1>10 DEF Get

\* The steps of bread and breada.
LEMMA ReadActs ==
    ASSUME IInv, NEW p \in Proc, AheadOf(p), Read(p)
    PROVE  Acts(p)
<1>1. /\ LocalsOf(p) /\ Held(p) /\ HandsOf(p) /\ TypeOK /\ proc \in [Proc -> ProcType]
      /\ proc[p] \in ProcType /\ buf \in [Bufs -> BufType]
  BY Actor DEF IInv
<1> DEFINE Walks(codes) == buf' = buf /\ cpu \in {p, NULL} /\ Others(p) /\ proc'[p].pc \in codes
<1>w. Walks({"use", "reading", "get", "breada2", "breada3"}) => Acts(p)
  BY TouchesNone DEF Acts, Takes
<1>k. ASSUME Kept(p)
      PROVE  /\ cpu \in {p, NULL}
             /\ \E b \in Bufs : b = proc[p].b /\ Head(lock[b]) = p /\ buf[b].op = "none" /\ buf[b].id = Target(p)
  <2>1. proc[p].pc = "keep" /\ cpu \in {p, NULL}
    BY <1>k DEF Kept, At
  <2>2. PICK b \in Bufs : b = proc[p].b /\ Head(lock[b]) = p
    BY <2>1, Mine DEF Owning
  <2> QED BY <1>1, <2>1, <2>2 DEF HandsOf
<1>r. ASSUME NEW b \in Bufs, buf[b].op = "none", Reading(b, {"READ"})
      PROVE  /\ Calm(b) /\ (\A c \in Bufs : c # b => buf'[c] = buf[c])
             /\ Has(b, "ASYNC") => Has(b, "ASYNC")'
  <2>1. Changes(b, buf[b].flags \cup {"READ"}, buf[b].done, buf[b].data, "read")
    BY <1>1, <1>r, ReadShape
  <2>2. Calm(b) /\ \A c \in Bufs : c # b => buf'[c] = buf[c]
    BY <2>1, CalmChange DEF Has, InProgress
  <2> QED BY <2>1, <2>2 DEF Changes, Has
<1>2. CASE Fill(p)
  <2>1. PICK b \in Bufs : b = proc[p].b /\ Head(lock[b]) = p /\ buf[b].op = "none"
    BY <1>2, <1>k DEF Fill
  <2>2. cpu \in {p, NULL}
    BY <1>2, <1>k DEF Fill
  <2>3. Others(p) /\ proc'[p].pc \in {"use", "reading"}
    BY <1>1, <1>2 DEF Fill, Others, ProcType
  <2>4. CASE buf' = buf
    BY <1>w, <2>2, <2>3, <2>4
  <2>5. CASE Reading(b, {"READ"})
    BY <1>r, <2>1, <2>2, <2>3, <2>5, TouchesOne DEF Acts, Takes
  <2> QED BY <1>2, <2>1, <2>4, <2>5 DEF Fill
<1>3. CASE ReadDone(p)
  <2>1. Others(p) /\ proc'[p].pc = "use"
    BY <1>1, <1>3 DEF ReadDone, Others, ProcType
  <2> QED BY <1>3, <1>w, <2>1 DEF ReadDone, At
<1>4. CASE Overwrite(p)
  <2>1. Others(p) /\ proc'[p].pc = "use"
    BY <1>1, <1>4 DEF Overwrite, Others, ProcType
  <2> QED BY <1>4, <1>w, <2>1 DEF Overwrite, Kept, At
<1>5. CASE AheadMain(p)
  <2>1. Others(p) /\ proc'[p].pc \in {"breada2", "get"}
    BY <1>1, <1>5 DEF AheadMain, Others, ProcType
  <2> QED BY <1>5, <1>w, <2>1 DEF AheadMain, At
<1>6. CASE FillMain(p)
  <2>1. PICK b \in Bufs : b = proc[p].b /\ Head(lock[b]) = p /\ buf[b].op = "none"
    BY <1>6, <1>k DEF FillMain
  <2>2. cpu \in {p, NULL}
    BY <1>6, <1>k DEF FillMain
  <2>3. Others(p) /\ proc'[p].pc = "breada2"
    BY <1>1, <1>6 DEF FillMain, Others, ProcType
  <2>4. CASE buf' = buf
    BY <1>w, <2>2, <2>3, <2>4
  <2>5. CASE Reading(b, {"READ"})
    BY <1>r, <2>1, <2>2, <2>3, <2>5, TouchesOne DEF Acts, Takes
  <2> QED BY <1>6, <2>1, <2>4, <2>5 DEF FillMain
<1>7. CASE AheadNext(p)
  <2>1. Others(p) /\ proc'[p].pc \in {"breada3", "get"}
    BY <1>1, <1>7 DEF AheadNext, Others, ProcType
  <2> QED BY <1>7, <1>w, <2>1 DEF AheadNext, At
<1>8. CASE FillAhead(p)
  <2>1. PICK b \in Bufs : b = proc[p].b /\ Head(lock[b]) = p /\ buf[b].op = "none" /\ buf[b].id = Target(p)
    BY <1>8, <1>k DEF FillAhead
  <2>2. cpu \in {p, NULL}
    BY <1>8, <1>k DEF FillAhead
  <2>3. Others(p) /\ proc'[p].pc = "breada3"
    BY <1>1, <1>8 DEF FillAhead, Others, ProcType
  <2>4. CASE buf' = [buf EXCEPT ![b] = Released(buf[b])]
    <3>1. Calm(b) /\ \A c \in Bufs : c # b => buf'[c] = buf[c]
      BY <1>1, <2>4, ReleaseCalm
    <3> QED BY <2>1, <2>2, <2>3, <3>1, TouchesOne DEF Acts, Takes
  <2>5. CASE Reading(b, {"READ", "ASYNC"})
    <3>1. Changes(b, buf[b].flags \cup {"READ", "ASYNC"}, buf[b].done, buf[b].data, "read")
      BY <1>1, <2>1, <2>5, ReadShape
    <3>2. p \in User /\ Active(p) /\ proc[p].pc = "keep" /\ proc[p].for = "ahead"
      BY <1>8, UserActive DEF FillAhead, Kept, At, UserPc, UserGet
    <3>3. Target(p) = proc[p].next /\ proc[p].next \in Block
      BY <1>1, <3>2 DEF Target, LocalsOf, UserGet
    <3>4. Dev(proc[p].next) = Dev(proc[p].blk)
      BY <3>2, <3>3, Constants DEF AheadOf
    <3>5. buf'[b].id = buf[b].id /\ \A c \in Bufs : c # b => buf'[c] = buf[c]
      BY <3>1 DEF Changes
    <3>6. Serves(p, b)
      BY <2>1, <3>2, <3>3, <3>4, <3>5 DEF Serves
    <3> QED BY <2>1, <2>2, <2>3, <3>5, <3>6, TouchesOne DEF Acts, Takes
  <2> QED BY <1>8, <2>1, <2>4, <2>5 DEF FillAhead
<1>9. CASE AheadEnd(p)
  <2>1. Others(p) /\ proc'[p].pc \in {"get", "reading"}
    BY <1>1, <1>9 DEF AheadEnd, Others, ProcType
  <2> QED BY <1>9, <1>w, <2>1 DEF AheadEnd, At
<1> QED BY <1>2, <1>3, <1>4, <1>5, <1>6, <1>7, <1>8, <1>9 DEF Read

\* The steps of bwrite, bdwrite and block_put.
LEMMA UseActs ==
    ASSUME IInv, NEW p \in Proc, Use(p)
    PROVE  Acts(p)
<1>1. /\ LocalsOf(p) /\ Held(p) /\ HandsOf(p) /\ TypeOK /\ proc \in [Proc -> ProcType]
      /\ proc[p] \in ProcType /\ buf \in [Bufs -> BufType]
  BY Actor DEF IInv
<1>2. proc[p].pc \in {"use", "writing"} /\ cpu \in {p, NULL}
  BY DEF Use, UsePut, UseDelayed, UseWrite, WriteDone, At
<1>3. PICK b \in Bufs : b = proc[p].b /\ Head(lock[b]) = p /\ buf[b].id = proc[p].blk
  <2>1. PICK b \in Bufs : b = proc[p].b /\ Head(lock[b]) = p
    BY <1>2, Mine DEF Owning
  <2> QED BY <1>1, <1>2, <2>1 DEF HandsOf
<1>4. p \in User /\ Active(p) /\ proc[p].blk \in Block
  BY <1>2, UserActive DEF UserPc
<1>5. Others(p) /\ proc'[p].pc \in {"idle", "writing"}
  <2>1. CASE proc' = [proc EXCEPT ![p] = Idle]
    BY <1>1, <2>1 DEF Others, Idle
  <2>2. CASE proc' = [proc EXCEPT ![p].pc = "writing"]
    BY <1>1, <2>2 DEF Others, ProcType
  <2> QED BY <2>1, <2>2, Zenon DEF Use, UsePut, UseDelayed, UseWrite, WriteDone, Release
<1>6. CASE UsePut(p) \/ WriteDone(p)
  <2>1. buf' = [buf EXCEPT ![b] = Released(buf[b])]
    BY <1>3, <1>6 DEF UsePut, WriteDone
  <2>2. Calm(b) /\ \A c \in Bufs : c # b => buf'[c] = buf[c]
    BY <1>1, <2>1, ReleaseCalm
  <2> QED BY <1>2, <1>3, <1>5, <2>2, TouchesOne DEF Acts, Takes
<1>7. ASSUME NEW r, buf' = [buf EXCEPT ![b] = r], r.id = buf[b].id PROVE Acts(p)
  <2>1. buf'[b].id = buf[b].id /\ \A c \in Bufs : c # b => buf'[c] = buf[c]
    BY <1>1, <1>7
  <2>2. Serves(p, b)
    BY <1>3, <1>4, <2>1 DEF Serves
  <2> QED BY <1>2, <1>3, <1>5, <2>1, <2>2, TouchesOne DEF Acts, Takes
<1>8. CASE UseDelayed(p)
  <2> DEFINE s == [buf[b] EXCEPT !.flags = @ \cup {"DIRTY"}, !.done = TRUE, !.data = latest'[proc[p].blk]]
  <2>1. buf' = [buf EXCEPT ![b] = Released(s)]
    BY <1>3, <1>8, Zenon DEF UseDelayed
  <2>2. Released(s).id = buf[b].id
    BY <1>1 DEF Released, BufType
  <2> HIDE DEF s
  <2> QED BY <1>7, <2>1, <2>2
<1>9. CASE UseWrite(p)
  <2> DEFINE s == [buf[b] EXCEPT !.data = latest'[proc[p].blk]]
  <2>1. buf' = [buf EXCEPT ![b] = Written(s)]
    BY <1>3, <1>9, Zenon DEF UseWrite
  <2>2. Written(s).id = buf[b].id
    BY <1>1 DEF Written, BufType
  <2> HIDE DEF s
  <2> QED BY <1>7, <2>1, <2>2
<1> QED BY <1>6, <1>8, <1>9 DEF Use

\* The steps of update and umount are of their processes.
LEMMA UpdateActive ==
    ASSUME IInv, NEW p \in Proc, Update(p)
    PROVE  Active(p) /\ p \notin User /\ (proc[p].pc \notin {"inodes", "updated"} => p \in Umounter)
<1>1. LocalsOf(p) /\ (p \in User \/ p \in Umounter \/ p \in Swapper)
  BY Actor DEF Proc
<1>2. proc[p].pc \in UpdatePc \cup {"umount", "discard", "mount"}
  <2>1. UpdateInodes(p) \/ UpdateEnd(p) => proc[p].pc \in UpdatePc
    BY DEF UpdateInodes, UpdateEnd, At, UpdatePc
  <2>2. FlushVisit(p) \/ WaitVisit(p) => proc[p].pc \in UpdatePc
    BY DEF FlushVisit, WaitVisit, Visit, At, UpdatePc
  <2>4. FlushWrite(p) => proc[p].pc \in UpdatePc
    BY DEF FlushWrite, Locked, At, UpdatePc
  <2>5. WaitDone(p) => proc[p].pc \in UpdatePc
    BY DEF WaitDone, Locked, At, UpdatePc
  <2>3. UmountBusy(p) \/ Umount(p) \/ DiscardVisit(p) \/ Discard(p) \/ Mount(p) =>
           proc[p].pc \in {"umount", "discard", "mount"}
    BY DEF UmountBusy, Umount, DiscardVisit, Discard, Mount, Visit, Locked, At
  <2> QED BY <2>1, <2>2, <2>3, <2>4, <2>5 DEF Update
<1> QED BY <1>1, <1>2 DEF LocalsOf, UserPc, UserGet, UpdatePc, Active

\* A process of update or umount comes to another code, or to another buffer of the table.
LEMMA AdvanceTo ==
    ASSUME IInv, NEW p \in Proc, NEW then, Advance(p, then)
    PROVE  /\ Others(p) /\ proc'[p].b = NULL /\ proc'[p].dev = proc[p].dev
           /\ \/ proc[p].i = Len(Buf) /\ proc'[p].pc = then /\ proc'[p].i = 1
              \/ proc[p].i # Len(Buf) /\ proc'[p].pc = proc[p].pc /\ proc'[p].i = proc[p].i + 1
<1>1. proc \in [Proc -> ProcType] /\ proc[p] \in ProcType
  BY Actor
<1>2. CASE proc[p].i = Len(Buf)
  <2>1. proc' = [proc EXCEPT ![p] = [proc[p] EXCEPT !.pc = then, !.i = 1, !.b = NULL]]
    BY <1>2 DEF Advance
  <2> QED BY <1>1, <1>2, <2>1 DEF Others, ProcType
<1>3. CASE proc[p].i # Len(Buf)
  <2>1. proc' = [proc EXCEPT ![p] = [proc[p] EXCEPT !.i = proc[p].i + 1, !.b = NULL]]
    BY <1>3 DEF Advance
  <2> QED BY <1>1, <1>3, <2>1 DEF Others, ProcType
<1> QED BY <1>2, <1>3

\* A process of update or umount looks at a buffer of the table.
LEMMA VisitTo ==
    ASSUME IInv, NEW p \in Proc, NEW here, NEW then, NEW test, Visit(p, here, then, test)
    PROVE  /\ buf' = buf /\ cpu \in {p, NULL} /\ proc[p].pc = here /\ proc[p].b = NULL
           /\ \/ test /\ Others(p) /\ proc'[p] = [proc[p] EXCEPT !.b = Buf[proc[p].i]]
              \/ ~test /\ Advance(p, then)
<1>1. proc \in [Proc -> ProcType]
  BY Actor
<1>2. ASSUME test PROVE Others(p) /\ proc'[p] = [proc[p] EXCEPT !.b = Buf[proc[p].i]]
  <2>1. proc' = [proc EXCEPT ![p] = [proc[p] EXCEPT !.b = Buf[proc[p].i]]]
    BY <1>2 DEF Visit
  <2> QED BY <1>1, <2>1, SetProc
<1> QED BY <1>2 DEF Visit, At

\* The steps of update and umount.
LEMMA UpdateActs ==
    ASSUME IInv, NEW p \in Proc, Update(p)
    PROVE  Acts(p)
<1>1. /\ LocalsOf(p) /\ TypeOK /\ proc \in [Proc -> ProcType]
      /\ proc[p] \in ProcType /\ buf \in [Bufs -> BufType]
  BY Actor DEF IInv
<1>2. Active(p) /\ p \notin User /\ (proc[p].pc \notin {"inodes", "updated"} => p \in Umounter)
  BY UpdateActive
<1> DEFINE Free == proc'[p].pc \notin {"reuse", "lruasync"}
           Walks == buf' = buf /\ cpu \in {p, NULL} /\ Others(p) /\ Free
<1>w. Walks => Acts(p)
  BY TouchesNone DEF Acts, Takes
<1>p. proc[p].pc \notin {"reuse", "lruasync"}
  BY <1>2, UserActive DEF UserPc, UserGet
<1>a. ASSUME NEW then \in {"wait", "updated", "mount"}, Advance(p, then) PROVE Others(p) /\ Free
  BY <1>a, <1>p, AdvanceTo
<1>3. CASE UpdateInodes(p) \/ UpdateEnd(p) \/ UmountBusy(p) \/ Umount(p) \/ Mount(p)
  <2>1. buf' = buf /\ cpu \in {p, NULL}
    BY <1>3 DEF UpdateInodes, UpdateEnd, UmountBusy, Umount, Mount, At
  <2>2. UpdateInodes(p) => Others(p) /\ Free
    BY <1>1 DEF UpdateInodes, Others, ProcType
  <2>3. UpdateEnd(p) => Others(p) /\ Free
    BY <1>1 DEF UpdateEnd, Others, ProcType
  <2>4. UmountBusy(p) \/ Mount(p) => Others(p) /\ Free
    BY <1>1 DEF UmountBusy, Mount, Others, Idle
  <2>5. Umount(p) => Others(p) /\ Free
    BY <1>1 DEF Umount, Others, ProcType
  <2> QED BY <1>3, <1>w, <2>1, <2>2, <2>3, <2>4, <2>5
<1>4. ASSUME NEW here, NEW then \in {"wait", "updated", "mount"}, NEW test, Visit(p, here, then, test)
      PROVE  Acts(p)
  <2>1. buf' = buf /\ cpu \in {p, NULL}
    BY <1>4, VisitTo
  <2>2. CASE Others(p) /\ proc'[p] = [proc[p] EXCEPT !.b = Buf[proc[p].i]]
    <3>1. proc'[p].pc = proc[p].pc
      BY <1>1, <2>2 DEF ProcType
    <3> QED BY <1>p, <1>w, <2>1, <2>2, <3>1
  <2>3. CASE Advance(p, then)
    BY <1>a, <1>w, <2>1, <2>3
  <2> QED BY <1>4, <2>2, <2>3, VisitTo
<1>5. CASE FlushVisit(p) \/ WaitVisit(p) \/ DiscardVisit(p)
  BY <1>4, <1>5 DEF FlushVisit, WaitVisit, DiscardVisit
<1>6. CASE Sleep(p)
  BY <1>p, <1>6, TouchesNone DEF Sleep, Acts, Takes, Others
<1>7. ASSUME NEW here \in Loops, Locked(p, here)
      PROVE  /\ cpu \in {p, NULL} /\ proc[p].pc = here
             /\ \E b \in Bufs : b = proc[p].b /\ Head(lock[b]) = p /\ BufferOf(b)
  <2>1. cpu \in {p, NULL} /\ proc[p].pc = here /\ proc[p].b # NULL /\ Owns(p)
    BY <1>7 DEF Locked, At
  <2> QED BY <2>1, Mine DEF Waiting, Loops
<1>8. CASE FlushWrite(p)
  <2>1. Locked(p, "flush") /\ Advance(p, "wait") /\ WriteAsync(proc[p].b)
    BY <1>8 DEF FlushWrite
  <2>2. PICK b \in Bufs : b = proc[p].b /\ Head(lock[b]) = p /\ BufferOf(b)
    BY <1>7, <2>1 DEF Loops
  <2>3. buf[b].op = "none"
    <3>1. proc[p].pc = "flush" /\ proc[p].b # NULL
      BY <2>1 DEF Locked, At
    <3>2. FlushOf(b)
      BY <2>2, <3>1 DEF IInv, Flushes
    <3> QED BY <2>2, <3>1, <3>2 DEF FlushOf, BufferOf
  <2>4. Changes(b, (buf[b].flags \cup {"ASYNC"}) \ {"READ", "ERROR", "DIRTY"}, FALSE, buf[b].data, "write")
    BY <1>1, <2>1, <2>2, <2>3, AsyncShape
  <2>5. buf'[b].id = buf[b].id /\ \A c \in Bufs : c # b => buf'[c] = buf[c]
    BY <2>4 DEF Changes
  <2>6. Sends(p, b) /\ cpu \in {p, NULL}
    BY <1>2, <1>7, <2>1, <2>2, <2>5 DEF Sends, Loops
  <2> QED BY <1>a, <2>1, <2>2, <2>5, <2>6, TouchesOne DEF Acts, Takes
<1>9. CASE WaitDone(p) /\ ~Sleep(p)
  <2>1. /\ Locked(p, "wait") /\ Advance(p, "updated")
        /\ buf' = [buf EXCEPT ![proc[p].b].flags = @ \ {"ASYNC"}]
    BY <1>9 DEF WaitDone
  <2>2. PICK b \in Bufs : b = proc[p].b /\ Head(lock[b]) = p
    BY <1>7, <2>1 DEF Loops
  <2>3. buf' = [buf EXCEPT ![b] = [buf[b] EXCEPT !.flags = buf[b].flags \ {"ASYNC"}]]
    BY <2>1, <2>2
  <2>4. Calm(b) /\ \A c \in Bufs : c # b => buf'[c] = buf[c]
    BY <1>1, <2>3, ClearShape, CalmChange DEF Has
  <2>5. cpu \in {p, NULL}
    BY <1>7, <2>1 DEF Loops
  <2> QED BY <1>a, <2>1, <2>2, <2>4, <2>5, TouchesOne DEF Acts, Takes
<1>10. CASE Discard(p) /\ ~Sleep(p)
  <2>1. /\ Locked(p, "discard") /\ Advance(p, "mount")
        /\ buf' = [buf EXCEPT ![proc[p].b].id = NULL, ![proc[p].b].flags = {}]
    BY <1>10 DEF Discard
  <2>2. PICK b \in Bufs : b = proc[p].b /\ Head(lock[b]) = p
    BY <1>7, <2>1 DEF Loops
  <2>3. buf'[b].id = NULL /\ \A c \in Bufs : c # b => buf'[c] = buf[c]
    <3> DEFINE r == [buf[b] EXCEPT !.id = NULL, !.flags = {}]
    <3>1. buf' = [buf EXCEPT ![b] = r]
      BY <2>1, <2>2
    <3>2. r.id = NULL
      BY <1>1 DEF BufType
    <3> HIDE DEF r
    <3> QED BY <1>1, <3>1, <3>2
  <2>4. Drops(p, b) /\ cpu \in {p, NULL}
    BY <1>2, <1>7, <2>1, <2>2, <2>3 DEF Drops, Loops
  <2> QED BY <1>a, <2>1, <2>2, <2>3, <2>4, TouchesOne DEF Acts, Takes
<1> QED BY <1>3, <1>5, <1>6, <1>8, <1>9, <1>10 DEF Update
-----------------------------------------------------------------------------
(* What a step of one process leaves of the others *)

\* Nobody is in the device of an umount.
Apart ==
    \A p \in Umounter : Active(p) =>
        /\ \A u \in User : Active(u) => Dev(proc[u].blk) # proc[p].dev
        /\ \A r \in Umounter : Active(r) /\ r # p => proc[r].dev # proc[p].dev

\* The umounts keep away from the devices in use.
LEMMA SaveApart == SaveInv => Apart
BY DEF SaveInv, SaveOf, Apart

\* A process that does not begin stays in its device, or leaves it.
LEMMA ApartKept ==
    ASSUME SaveInv, NEW q \in Proc, Others(q),
           q \in User /\ Active(q)' => Active(q) /\ proc'[q].blk = proc[q].blk,
           q \in Umounter /\ Active(q)' => Active(q) /\ proc'[q].dev = proc[q].dev
    PROVE  Apart'
<1>1. \A u \in User : Active(u)' => Active(u) /\ proc'[u].blk = proc[u].blk
  BY DEF Others, Active, Proc
<1>2. \A r \in Umounter : Active(r)' => Active(r) /\ proc'[r].dev = proc[r].dev
  BY DEF Others, Active, Proc
<1> QED BY <1>1, <1>2, SaveApart DEF Apart

\* What waits for the transfers has done with the writing.
LEMMA WaitedFlushed ==
    ASSUME NEW p, NEW b, Waited(p, b)
    PROVE  Flushed(p, b)
BY DEF Waited, Flushed

\* No umount begins.
NoneBegins == \A r \in Umounter : Active(r)' => Active(r) /\ proc'[r].dev = proc[r].dev

\* The other umounts keep what they have saved.
LEMMA OtherSaves ==
    ASSUME IInv, SaveInv, NEW q \in Proc, Acts(q), Apart', NEW p \in Umounter, p # q,
           proc[p].pc = "flush" => NoneBegins
    PROVE  SaveOf(p)'
<1>1. SaveOf(p) /\ p \in Proc /\ proc'[p] = proc[p] /\ (Active(p)' <=> Active(p))
  BY DEF SaveInv, Acts, Others, Proc, Active
<1>2. Touches(q) /\ Takes(q) /\ NULL \notin Block
  BY Constants DEF Acts
<1>3. ASSUME NEW c \in Bufs, Serves(q, c), NEW r \in Umounter, Active(r)
      PROVE  Dev(buf'[c].id) # proc[r].dev /\ buf'[c].id # NULL
  BY <1>2, <1>3, SaveApart DEF Apart, Serves
<1>4. ASSUME Active(p), NEW b \in Bufs, On(b, proc[p].dev)'
      PROVE  Calm(b) /\ On(b, proc[p].dev)
  <2>1. ~Serves(q, b)
    BY <1>1, <1>3, <1>4 DEF On
  <2>2. ~Drops(q, b)
    BY <1>4 DEF On, Drops
  <2>3. ~Sends(q, b)
    <3>1. SUFFICES ASSUME Sends(q, b) PROVE FALSE
      OBVIOUS
    <3>2. SaveOf(q) /\ proc[q].pc = "flush" /\ proc[q].b = b /\ b # NULL
      BY <3>1, Constants DEF Sends, SaveInv
    <3>3. ~On(b, proc[p].dev)
      BY <1>1, <1>4, <3>2 DEF SaveOf
    <3> QED BY <1>1, <1>4, <3>1, <3>3 DEF Sends, On
  <2>4. Calm(b)
    BY <1>2, <2>1, <2>2, <2>3 DEF Touches
  <2> QED BY <1>1, <1>4, <2>4 DEF Calm, On
<1>5. ASSUME Active(p), NEW b \in Bufs, On(b, proc[p].dev)'
      PROVE  /\ Flushed(p, b)' => ~Has(b, "DIRTY")'
             /\ Waited(p, b)' => ~InProgress(b)' /\ ~Taken(b, {"lruasync"})'
  <2>1. Calm(b) /\ On(b, proc[p].dev)
    BY <1>4, <1>5
  <2>2. (Flushed(p, b)' <=> Flushed(p, b)) /\ (Waited(p, b)' <=> Waited(p, b))
    BY <1>1 DEF Flushed, Waited, Passed
  <2>3. /\ Flushed(p, b) => ~Has(b, "DIRTY")
        /\ Waited(p, b) => ~InProgress(b) /\ ~Taken(b, {"lruasync"})
    BY <1>1, <1>5, <2>1 DEF SaveOf
  <2>4. Flushed(p, b)' => ~Has(b, "DIRTY")'
    BY <2>1, <2>2, <2>3 DEF Calm
  <2>5. Waited(p, b)' => ~InProgress(b)'
    BY <2>1, <2>2, <2>3, WaitedFlushed DEF Calm
  <2>6. Waited(p, b)' => ~Taken(b, {"lruasync"})'
    <3>1. SUFFICES ASSUME Waited(p, b)', NEW x \in Proc, proc'[x].pc = "lruasync", proc'[x].b = b
                   PROVE  FALSE
      BY DEF Taken
    <3>2. x = q
      BY <2>2, <2>3, <3>1 DEF Acts, Others, Taken
    <3>3. InProgress(b)
      BY <1>2, <3>1, <3>2 DEF Takes
    <3> QED BY <2>2, <2>3, <3>1, <3>3
  <2> QED BY <2>4, <2>5, <2>6
<1>6. ASSUME proc[p].pc = "discard", proc[p].b # NULL, NEW b \in Bufs, b = proc[p].b
      PROVE  /\ buf'[b].id = NULL \/ On(b, proc[p].dev)'
             /\ ~Taken(b, {"lruasync", "reuse"})'
  <2>1. Active(p) /\ (buf[b].id = NULL \/ On(b, proc[p].dev)) /\ ~Taken(b, {"lruasync", "reuse"})
    BY <1>1, <1>6 DEF SaveOf, Active
  <2>2. lock[b] # <<>>
    <3>1. p \in ToSet(lock[b])
      BY <1>1, <1>6, Alone DEF Waiting
    <3> QED BY <3>1, InQueue
  <2>3. buf'[b].id = NULL \/ On(b, proc[p].dev)'
    <3>1. CASE Serves(q, b)
      <4>1. buf'[b].id # NULL /\ Dev(buf'[b].id) # proc[p].dev
        BY <1>3, <2>1, <3>1
      <4>2. buf'[b].id # buf[b].id
        BY <2>1, <4>1 DEF On
      <4>3. proc[q].pc = "reuse" /\ proc[q].b = b
        BY <3>1, <4>2 DEF Serves
      <4> QED BY <2>1, <4>3 DEF Taken
    <3>2. CASE buf'[b].id \in {NULL, buf[b].id}
      BY <1>1, <2>1, <3>2 DEF On
    <3> QED BY <1>2, <3>1, <3>2 DEF Touches, Calm, Sends, Drops
  <2>4. ~Taken(b, {"lruasync", "reuse"})'
    <3>1. SUFFICES ASSUME NEW x \in Proc, proc'[x].pc \in {"lruasync", "reuse"}, proc'[x].b = b
                   PROVE  FALSE
      BY DEF Taken
    <3>2. x = q
      BY <2>1, <3>1 DEF Acts, Others, Taken
    <3>3. ~(proc[q].pc = "lruasync" /\ proc[q].b = b)
      BY <2>1 DEF Taken
    <3> QED BY <1>2, <2>2, <3>1, <3>2, <3>3 DEF Takes
  <2> QED BY <2>3, <2>4
<1>7. ASSUME proc[p].pc = "flush", proc[p].b # NULL, NEW b \in Bufs, b = proc[p].b,
             NEW r \in Umounter, Active(r)', r # p
      PROVE  ~On(b, proc[r].dev)'
  <2>1. Active(r) /\ proc'[r].dev = proc[r].dev
    BY <1>7 DEF NoneBegins
  <2>2. ~On(b, proc[r].dev)
    BY <1>1, <1>7, <2>1 DEF SaveOf
  <2>3. Serves(q, b) => ~On(b, proc[r].dev)'
    BY <1>3, <2>1 DEF On
  <2>4. buf'[b].id \in {NULL, buf[b].id} => ~On(b, proc[r].dev)'
    BY <2>1, <2>2 DEF On
  <2> QED BY <1>2, <2>3, <2>4 DEF Touches, Calm, Sends, Drops
<1>8. proc[p].b \in Bufs \cup {NULL}
  BY <1>1, Types DEF IInv
<1>9. /\ proc'[p].pc \notin Loops => proc'[p].i = 1
      /\ proc'[p].pc \in Loops /\ proc'[p].b # NULL => proc'[p].b = Buf[proc'[p].i]
  BY <1>1 DEF SaveOf
<1>10. Active(p)' =>
         /\ \A u \in User : Active(u)' => Dev(proc'[u].blk) # proc'[p].dev
         /\ \A r \in Umounter : Active(r)' /\ r # p => proc'[r].dev # proc'[p].dev
  BY DEF Apart
<1> QED BY <1>1, <1>5, <1>6, <1>7, <1>8, <1>9, <1>10 DEF SaveOf

\* Nobody else takes a buffer from the list, and the buffers waited for keep B_ASYNC.
LEMMA TakersKept ==
    ASSUME IInv, SaveInv, NEW q \in Proc, Acts(q), NEW r \in Proc
    PROVE  TakerOf(r)'
<1>1. TakerOf(r) /\ Touches(q) /\ Takes(q) /\ cpu \in {q, NULL} /\ NULL \notin Proc
  BY Constants DEF SaveInv, Acts
<1>2. CASE r = q
  <2>1. proc'[q].pc = "lruasync" => "ASYNC" \in buf'[proc'[q].b].flags
    BY <1>1 DEF Takes, Has, InProgress
  <2> QED BY <1>1, <1>2, <2>1 DEF TakerOf, Takes, Has
<1>3. CASE r # q
  <2>1. proc'[r] = proc[r]
    BY <1>3 DEF Acts, Others
  <2>2. proc[r].pc # "reuse"
    BY <1>1, <1>3 DEF TakerOf
  <2>3. ASSUME proc[r].pc = "lruasync" PROVE Has(proc[r].b, "ASYNC")'
    <3>1. PICK b \in Bufs : b = proc[r].b /\ Head(lock[b]) = r /\ lock[b] # <<>>
      BY <2>3, Mine DEF Owning
    <3>2. Has(b, "ASYNC")
      BY <1>1, <2>3, <3>1 DEF TakerOf
    <3>3. Has(b, "ASYNC")'
      BY <1>1, <1>3, <3>1, <3>2 DEF Touches
    <3> QED BY <2>1, <3>1, <3>3 DEF Has
  <2> QED BY <2>1, <2>2, <2>3 DEF TakerOf, Has
<1> QED BY <1>2, <1>3

-----------------------------------------------------------------------------
(* The steps of umount *)

\* A step of umount, or of the process that waits, that changes no buffer and goes through no loop.
LEMMA StaySaves ==
    ASSUME IInv, SaveInv, NEW p \in Umounter, Others(p), Apart', buf' = buf,
           proc'[p].dev = proc[p].dev, proc'[p].i = proc[p].i,
           \/ proc'[p].pc = proc[p].pc /\ proc[p].pc \in Loops
           \/ <<proc[p].pc, proc'[p].pc>> = <<"inodes", "flush">> /\ proc[p].i = 1
           \/ proc[p].pc \in {"updated", "umount"} /\ proc'[p].pc \in {"umount", "discard"},
           proc'[p].b # NULL =>
              /\ proc'[p].pc \in Loops /\ proc'[p].b \in Bufs /\ proc'[p].b = Buf[proc[p].i]
              /\ proc'[p].pc # "wait" =>
                    proc'[p].b = proc[p].b \/ (cpu \in {p, NULL} /\ On(proc'[p].b, proc[p].dev)),
           proc[p].pc # proc'[p].pc => proc'[p].b = NULL
    PROVE  SaveOf(p)'
<1>1. SaveOf(p) /\ p \in Proc /\ Active(p) /\ proc[p].pc \notin {"reuse", "lruasync"}
  BY DEF SaveInv, Proc, Active, Loops
<1>2. ASSUME NEW b \in Bufs
      PROVE  /\ Flushed(p, b)' => Flushed(p, b)
             /\ Waited(p, b)' => Waited(p, b)
             /\ Waited(p, b) => Waited(p, b)'
  BY DEF Flushed, Waited, Passed, Loops
<1>3. ASSUME NEW b, NEW codes \in {{"lruasync"}, {"lruasync", "reuse"}}, Taken(b, codes)' PROVE Taken(b, codes)
  BY <1>1, <1>3 DEF Taken, Others, Loops
<1>4. ASSUME NEW b \in Bufs, On(b, proc[p].dev)'
      PROVE  /\ Flushed(p, b)' => ~Has(b, "DIRTY")'
             /\ Waited(p, b)' => ~InProgress(b)' /\ ~Taken(b, {"lruasync"})'
  <2>1. On(b, proc[p].dev) /\ (Has(b, "DIRTY")' <=> Has(b, "DIRTY")) /\ (InProgress(b)' <=> InProgress(b))
    BY <1>4 DEF On, Has, InProgress
  <2>2. /\ Flushed(p, b) => ~Has(b, "DIRTY")
        /\ Waited(p, b) => ~InProgress(b) /\ ~Taken(b, {"lruasync"})
    BY <1>1, <2>1 DEF SaveOf
  <2> QED BY <1>2, <1>3, <2>1, <2>2
<1>5. ASSUME proc'[p].pc = "discard", proc'[p].b # NULL, NEW b \in Bufs, b = proc'[p].b
      PROVE  /\ buf'[b].id = NULL \/ On(b, proc[p].dev)'
             /\ ~Taken(b, {"lruasync", "reuse"})'
  <2>1. proc[p].pc = "discard"
    BY <1>5
  <2>2. CASE b = proc[p].b
    <3>1. (buf[b].id = NULL \/ On(b, proc[p].dev)) /\ ~Taken(b, {"lruasync", "reuse"})
      BY <1>1, <1>5, <2>1, <2>2 DEF SaveOf
    <3> QED BY <1>3, <3>1 DEF On
  <2>3. CASE cpu \in {p, NULL} /\ On(b, proc[p].dev)
    <3>1. ~Taken(b, {"lruasync"})
      BY <1>1, <2>1, <2>3 DEF SaveOf, Waited
    <3>2. ASSUME NEW x \in Proc, proc[x].pc = "reuse" PROVE FALSE
      <4>1. cpu = x
        BY <3>2 DEF SaveInv, TakerOf
      <4> QED BY <1>1, <2>3, <3>2, <4>1, Constants
    <3>3. ~Taken(b, {"lruasync", "reuse"})
      BY <3>1, <3>2 DEF Taken
    <3> QED BY <1>3, <2>3, <3>3 DEF On
  <2> QED BY <1>5, <2>2, <2>3
<1>6. ASSUME proc'[p].pc = "flush", proc'[p].b # NULL, NEW b \in Bufs, b = proc'[p].b,
             NEW r \in Umounter, Active(r)', r # p
      PROVE  ~On(b, proc[r].dev)'
  <2>1. proc'[r] = proc[r] /\ Active(r) /\ proc[r].dev # proc[p].dev
    <3>1. proc'[r] = proc[r] /\ Active(r)
      BY <1>6 DEF Others, Proc, Active
    <3> QED BY <1>1, <1>6, <3>1 DEF SaveOf
  <2>2. proc[p].pc = "flush"
    BY <1>6
  <2>3. ~On(b, proc[r].dev)
    <3>1. CASE b = proc[p].b
      BY <1>1, <1>6, <2>1, <2>2, <3>1 DEF SaveOf
    <3>2. CASE On(b, proc[p].dev)
      BY <2>1, <3>2 DEF On
    <3> QED BY <1>6, <3>1, <3>2
  <2> QED BY <2>1, <2>3 DEF On
<1>7. /\ proc'[p].pc \notin Loops => proc'[p].i = 1
      /\ proc'[p].pc \in Loops /\ proc'[p].b # NULL => proc'[p].b = Buf[proc'[p].i]
  BY <1>1 DEF SaveOf, Loops
<1>8. Active(p)' =>
         /\ \A u \in User : Active(u)' => Dev(proc'[u].blk) # proc'[p].dev
         /\ \A r \in Umounter : Active(r)' /\ r # p => proc'[r].dev # proc'[p].dev
  BY DEF Apart
<1> QED BY <1>4, <1>5, <1>6, <1>7, <1>8 DEF SaveOf

\* The codes of the loops, and the ones that follow.
Follows == {<<"flush", "wait">>, <<"wait", "updated">>, <<"discard", "mount">>}

\* What a loop leaves behind when it goes to the next buffer.
LEMMA LoopAdvance ==
    ASSUME IInv, NEW p \in Proc, NEW then,
           <<proc[p].pc, then>> \in Follows, Advance(p, then), NEW c \in Bufs
    PROVE  /\ Flushed(p, c)' => Flushed(p, c) \/ (proc[p].pc = "flush" /\ c = Buf[proc[p].i])
           /\ Waited(p, c)' =>
                 \/ proc[p].pc # "flush" /\ Waited(p, c)
                 \/ proc[p].pc = "wait" /\ c = Buf[proc[p].i]
<1>1. /\ \/ proc[p].i = Len(Buf) /\ proc'[p].pc = then /\ proc'[p].i = 1
         \/ proc[p].i # Len(Buf) /\ proc'[p].pc = proc[p].pc /\ proc'[p].i = proc[p].i + 1
      /\ proc[p].i \in 1 .. Len(Buf) /\ Len(Buf) \in Nat
  <2>1. proc[p].i \in 1 .. Len(Buf)
    BY Types DEF IInv
  <2> QED BY <2>1, AdvanceTo, Constants
<1>2. PICK j \in 1 .. Len(Buf) : Buf[j] = c
  BY DEF Bufs, ToSet
<1>3. CASE proc[p].i = Len(Buf) /\ proc'[p].pc = then /\ proc'[p].i = 1
  <2>1. ~Passed(p, c)'
    BY <1>3 DEF Passed
  <2>2. Passed(p, c) \/ c = Buf[proc[p].i]
    BY <1>1, <1>2, <1>3 DEF Passed
  <2> QED BY <1>3, <2>1, <2>2 DEF Flushed, Waited, Follows
<1>4. CASE proc[p].i # Len(Buf) /\ proc'[p].pc = proc[p].pc /\ proc'[p].i = proc[p].i + 1
  <2>1. Passed(p, c)' => Passed(p, c) \/ c = Buf[proc[p].i]
    BY <1>1, <1>4 DEF Passed
  <2> QED BY <1>4, <2>1 DEF Flushed, Waited
<1> QED BY <1>1, <1>3, <1>4

\* The buffers keep their blocks, or lose them, and none becomes dirty; none is given to a driver.
NoneDirtied ==
    \A c \in Bufs :
        /\ buf'[c].id \in {NULL, buf[c].id}
        /\ buf'[c].id # NULL /\ Has(c, "DIRTY")' => Has(c, "DIRTY")
NoneStarted == \A c \in Bufs : buf'[c].id # NULL /\ InProgress(c)' => InProgress(c)

\* What a loop has done of the buffer that it visits.
Visited(p, x) ==
    On(x, proc[p].dev) =>
        /\ proc[p].pc = "flush" => ~Has(x, "DIRTY")'
        /\ proc[p].pc = "wait" => ~InProgress(x)' /\ ~Taken(x, {"lruasync"})

\* A step of umount to the next buffer of the table.
LEMMA AdvanceSaves ==
    ASSUME IInv, SaveInv, NEW p \in Umounter, Apart', NEW then,
           <<proc[p].pc, then>> \in Follows, Advance(p, then),
           NoneDirtied, proc[p].pc = "flush" \/ NoneStarted, NEW x, x = Buf[proc[p].i], Visited(p, x)
    PROVE  SaveOf(p)'
<1>1. SaveOf(p) /\ p \in Proc /\ Active(p) /\ proc[p].pc \in Loops
  BY DEF SaveInv, Proc, Active, Loops, Follows
<1>2. /\ Others(p) /\ proc'[p].b = NULL /\ proc'[p].dev = proc[p].dev
      /\ (proc'[p].pc = then /\ proc'[p].i = 1) \/ proc'[p].pc = proc[p].pc
  BY <1>1, AdvanceTo
<1>3. ASSUME NEW b \in Bufs, On(b, proc[p].dev)'
      PROVE  /\ Flushed(p, b)' => ~Has(b, "DIRTY")'
             /\ Waited(p, b)' => ~InProgress(b)' /\ ~Taken(b, {"lruasync"})'
  <2>1. buf'[b].id # NULL /\ On(b, proc[p].dev)
    BY <1>2, <1>3 DEF On, NoneDirtied
  <2>2. /\ Flushed(p, b) => ~Has(b, "DIRTY")
        /\ Waited(p, b) => ~InProgress(b) /\ ~Taken(b, {"lruasync"})
    BY <1>1, <2>1 DEF SaveOf
  <2>3. Taken(b, {"lruasync"})' => Taken(b, {"lruasync"})
    BY <1>1, <1>2 DEF Taken, Others, Loops, Follows
  <2>4. Flushed(p, b)' => ~Has(b, "DIRTY")'
    BY <1>1, <2>1, <2>2, LoopAdvance DEF NoneDirtied, Visited
  <2>5. Waited(p, b)' => ~InProgress(b)' /\ ~Taken(b, {"lruasync"})
    BY <1>1, <2>1, <2>2, LoopAdvance DEF NoneStarted, Visited
  <2> QED BY <2>3, <2>4, <2>5
<1>4. /\ proc'[p].pc \notin Loops => proc'[p].i = 1
      /\ proc'[p].pc \in Loops /\ proc'[p].b # NULL => proc'[p].b = Buf[proc'[p].i]
  BY <1>1, <1>2
<1>5. Active(p)' =>
         /\ \A u \in User : Active(u)' => Dev(proc'[u].blk) # proc'[p].dev
         /\ \A r \in Umounter : Active(r)' /\ r # p => proc'[r].dev # proc'[p].dev
  BY DEF Apart
<1> QED BY <1>2, <1>3, <1>4, <1>5 DEF SaveOf

\* No step of umount changes its device, but the last one.
LEMMA UpdateDev ==
    ASSUME IInv, NEW p \in Proc, Update(p)
    PROVE  Others(p) /\ (Active(p)' => proc'[p].dev = proc[p].dev)
<1>1. proc \in [Proc -> ProcType] /\ proc[p] \in ProcType
  BY Actor
<1>2. Others(p)
  BY UpdateActs DEF Acts
<1>3. ASSUME NEW r, proc' = [proc EXCEPT ![p] = r], r.dev = proc[p].dev \/ r = Idle
      PROVE  Active(p)' => proc'[p].dev = proc[p].dev
  BY <1>1, <1>3 DEF Active, Idle
<1>4. CASE UpdateInodes(p) \/ UpdateEnd(p) \/ Umount(p)
  <2> DEFINE Coded(x) == [proc[p] EXCEPT !.pc = x]
  <2>1. \E x : proc' = [proc EXCEPT ![p] = Coded(x)]
    BY <1>4, Zenon DEF UpdateInodes, UpdateEnd, Umount
  <2>2. \A x : Coded(x).dev = proc[p].dev
    BY <1>1 DEF ProcType
  <2> HIDE DEF Coded
  <2> QED BY <1>2, <1>3, <2>1, <2>2
<1>5. CASE UmountBusy(p) \/ Mount(p)
  BY <1>2, <1>3, <1>5 DEF UmountBusy, Mount
<1>6. ASSUME NEW then, Advance(p, then) PROVE proc'[p].dev = proc[p].dev
  BY <1>6, AdvanceTo
<1>7. ASSUME NEW here, NEW then, NEW test, Visit(p, here, then, test) PROVE proc'[p].dev = proc[p].dev
  <2>1. CASE proc'[p] = [proc[p] EXCEPT !.b = Buf[proc[p].i]]
    BY <1>1, <2>1 DEF ProcType
  <2> QED BY <1>6, <1>7, <2>1, VisitTo
<1>8. CASE FlushVisit(p) \/ WaitVisit(p) \/ DiscardVisit(p)
  BY <1>2, <1>7, <1>8 DEF FlushVisit, WaitVisit, DiscardVisit
<1>9. CASE Sleep(p)
  BY <1>2, <1>9 DEF Sleep
<1>10. CASE FlushWrite(p)
  BY <1>2, <1>6, <1>10 DEF FlushWrite
<1>11. CASE WaitDone(p) /\ ~Sleep(p)
  BY <1>2, <1>6, <1>11, Zenon DEF WaitDone
<1>12. CASE Discard(p) /\ ~Sleep(p)
  BY <1>2, <1>6, <1>12, Zenon DEF Discard
<1> QED BY <1>4, <1>5, <1>8, <1>9, <1>10, <1>11, <1>12 DEF Update

\* The codes that umount goes to without a loop.
LEMMA UmountWalks ==
    ASSUME IInv, SaveInv, NEW p \in Umounter, Apart', UpdateInodes(p) \/ UpdateEnd(p) \/ Umount(p)
    PROVE  SaveOf(p)'
<1>1. /\ p \in Proc /\ LocalsOf(p) /\ SaveOf(p)
      /\ proc \in [Proc -> ProcType] /\ proc[p] \in ProcType
  BY Actor DEF Proc, SaveInv
<1>2. Others(p) /\ buf' = buf
  BY <1>1, UpdateDev DEF Update, UpdateInodes, UpdateEnd, Umount
<1>3. ASSUME NEW x, proc' = [proc EXCEPT ![p].pc = x]
      PROVE  /\ proc'[p].pc = x /\ proc'[p].i = proc[p].i
             /\ proc'[p].b = proc[p].b /\ proc'[p].dev = proc[p].dev
  BY <1>1, <1>3 DEF ProcType
<1>4. ASSUME proc[p].pc \in {"inodes", "updated", "umount"}
      PROVE  proc[p].b = NULL /\ proc[p].i = 1
  BY <1>1, <1>4 DEF LocalsOf, SaveOf, Loops, UserPc, UserGet
<1>5. CASE UpdateInodes(p)
  <2>1. proc[p].pc = "inodes" /\ proc' = [proc EXCEPT ![p].pc = "flush"]
    BY <1>5 DEF UpdateInodes, At
  <2> QED BY <1>2, <1>3, <1>4, <2>1, StaySaves
<1>6. CASE UpdateEnd(p)
  <2>1. proc[p].pc = "updated" /\ proc' = [proc EXCEPT ![p].pc = "umount"]
    BY <1>6 DEF UpdateEnd, At
  <2> QED BY <1>2, <1>3, <1>4, <2>1, StaySaves
<1>7. CASE Umount(p)
  <2>1. proc[p].pc = "umount" /\ proc' = [proc EXCEPT ![p].pc = "discard"]
    BY <1>7 DEF Umount, At
  <2> QED BY <1>2, <1>3, <1>4, <2>1, StaySaves
<1> QED BY <1>5, <1>6, <1>7

\* A process that does not run umount has nothing to save.
LEMMA IdleSaves ==
    ASSUME NEW p, proc'[p] = Idle
    PROVE  SaveOf(p)'
BY DEF SaveOf, Active, Idle, Loops

\* The visits of umount to the buffers of the table.
LEMMA UmountVisits ==
    ASSUME IInv, SaveInv, NEW p \in Umounter, Apart', FlushVisit(p) \/ WaitVisit(p) \/ DiscardVisit(p)
    PROVE  SaveOf(p)'
<1>1. /\ p \in Proc /\ SaveOf(p)
      /\ proc \in [Proc -> ProcType] /\ proc[p] \in ProcType
  BY Actor DEF Proc, SaveInv
<1>x. PICK x \in Bufs : x = Buf[proc[p].i]
  <2>1. proc[p].i \in 1 .. Len(Buf)
    BY <1>1, Types DEF IInv
  <2> QED BY <2>1, Constants
<1>2. ASSUME NEW here, NEW then, NEW test,
             <<here, then>> \in Follows,
             Visit(p, here, then, test), test => here = "wait" \/ On(x, proc[p].dev),
             ~test /\ On(x, proc[p].dev) =>
                /\ here = "flush" => ~Has(x, "DIRTY")
                /\ here = "wait" => ~Has(x, "ASYNC")
      PROVE  SaveOf(p)'
  <2>1. /\ buf' = buf /\ cpu \in {p, NULL} /\ proc[p].pc = here /\ proc[p].b = NULL
        /\ \/ test /\ Others(p) /\ proc'[p] = [proc[p] EXCEPT !.b = x]
           \/ ~test /\ Advance(p, then)
    BY <1>1, <1>2, <1>x, VisitTo
  <2>2. CASE test /\ Others(p) /\ proc'[p] = [proc[p] EXCEPT !.b = x]
    <3>1. /\ proc'[p].pc = here /\ proc'[p].i = proc[p].i /\ proc'[p].b = x
          /\ proc'[p].dev = proc[p].dev /\ here \in Loops
      <4>1. here \in Loops
        BY <1>2 DEF Follows, Loops
      <4> QED BY <1>1, <2>1, <2>2, <4>1 DEF ProcType
    <3>2. x = Buf[proc[p].i]
      BY <1>x
    <3> QED BY <1>1, <1>2, <2>1, <2>2, <3>1, <3>2, StaySaves
  <2>3. CASE ~test /\ Advance(p, then)
    <3>1. NoneDirtied /\ NoneStarted
      BY <2>1 DEF Has, InProgress, NoneDirtied, NoneStarted
    <3>2. x = Buf[proc[p].i]
      BY <1>x
    <3>3. Visited(p, x)
      <4>1. ~Has(x, "ASYNC") => ~Taken(x, {"lruasync"})
        BY DEF Taken, SaveInv, TakerOf, Has
      <4>2. ~Has(x, "ASYNC") => ~InProgress(x)
        BY DEF InProgress
      <4>3. /\ Has(x, "DIRTY")' => Has(x, "DIRTY")
            /\ InProgress(x)' => InProgress(x)
        BY <2>1 DEF Has, InProgress
      <4>4. ASSUME On(x, proc[p].dev), here = "flush" PROVE ~Has(x, "DIRTY")'
        BY <1>2, <2>3, <4>3, <4>4
      <4>5. ASSUME On(x, proc[p].dev), here = "wait" PROVE ~InProgress(x)' /\ ~Taken(x, {"lruasync"})
        <5>1. ~Has(x, "ASYNC")
          BY <1>2, <2>3, <4>5
        <5> QED BY <4>1, <4>2, <4>3, <5>1
      <4> QED BY <2>1, <4>4, <4>5 DEF Visited
    <3>4. <<proc[p].pc, then>> \in Follows
      BY <1>2, <2>1
    <3> QED BY <2>3, <3>1, <3>2, <3>3, <3>4, AdvanceSaves
  <2> QED BY <2>1, <2>2, <2>3
<1>3. proc[p].dev # NULL => (OnDev(Buf[proc[p].i], proc[p].dev) <=> On(x, proc[p].dev))
  BY <1>x DEF OnDev, On
<1>4. Active(p) => proc[p].dev # NULL
  BY <1>1, Actor, Constants DEF LocalsOf, Active
<1>5. CASE FlushVisit(p)
  <2> DEFINE test == OnDev(Buf[proc[p].i], proc[p].dev) /\ Has(Buf[proc[p].i], "DIRTY")
  <2>1. Visit(p, "flush", "wait", test)
    BY <1>5 DEF FlushVisit
  <2>2. Active(p)
    BY <2>1 DEF Visit, At, Active
  <2>3. /\ test => On(x, proc[p].dev)
        /\ ~test /\ On(x, proc[p].dev) => ~Has(x, "DIRTY")
    BY <1>3, <1>4, <1>x, <2>2 DEF Has
  <2> HIDE DEF test
  <2> QED BY <1>2, <2>1, <2>3 DEF Follows
<1>6. CASE WaitVisit(p)
  <2> DEFINE test == OnDev(Buf[proc[p].i], proc[p].dev) /\ Has(Buf[proc[p].i], "ASYNC")
  <2>1. Visit(p, "wait", "updated", test)
    BY <1>6 DEF WaitVisit
  <2>2. Active(p)
    BY <2>1 DEF Visit, At, Active
  <2>3. /\ test => On(x, proc[p].dev)
        /\ ~test /\ On(x, proc[p].dev) => ~Has(x, "ASYNC")
    BY <1>3, <1>4, <1>x, <2>2 DEF Has
  <2> HIDE DEF test
  <2> QED BY <1>2, <2>1, <2>3 DEF Follows
<1>7. CASE DiscardVisit(p)
  <2>1. Visit(p, "discard", "mount", OnDev(Buf[proc[p].i], proc[p].dev))
    BY <1>7 DEF DiscardVisit
  <2>2. Active(p)
    BY <2>1 DEF Visit, At, Active
  <2> QED BY <1>2, <1>3, <1>4, <2>1, <2>2 DEF Follows
<1> QED BY <1>5, <1>6, <1>7

\* The buffer that umount has locked is the one of the table that it visits.
LEMMA LockedIs ==
    ASSUME IInv, SaveInv, NEW p \in Umounter, NEW here \in Loops, Locked(p, here)
    PROVE  /\ p \in Proc /\ SaveOf(p) /\ Active(p) /\ proc[p].pc = here
           /\ proc[p].b \in Bufs /\ proc[p].b = Buf[proc[p].i]
           /\ Head(lock[proc[p].b]) = p /\ BufferOf(proc[p].b)
<1>1. proc[p].pc = here /\ proc[p].b # NULL /\ Owns(p) /\ p \in Proc /\ SaveOf(p)
  BY DEF Locked, At, Proc, SaveInv
<1>2. PICK b \in Bufs : b = proc[p].b /\ Head(lock[b]) = p /\ BufferOf(b)
  BY <1>1, Mine DEF Waiting, Loops
<1>3. b = Buf[proc[p].i] /\ Active(p)
  BY <1>1, <1>2 DEF SaveOf, Active, Loops
<1>4. proc[p].b = Buf[proc[p].i] /\ Head(lock[proc[p].b]) = p /\ BufferOf(proc[p].b) /\ proc[p].b \in Bufs
  BY <1>2, <1>3
<1> QED BY <1>1, <1>3, <1>4

\* umount writes a buffer.
LEMMA FlushSaves ==
    ASSUME IInv, SaveInv, NEW p \in Umounter, Apart', FlushWrite(p)
    PROVE  SaveOf(p)'
<1>1. Locked(p, "flush") /\ Advance(p, "wait") /\ WriteAsync(proc[p].b)
  BY DEF FlushWrite
<1>0. "flush" \in Loops
  BY DEF Loops
<1>2. /\ proc[p].pc = "flush" /\ p \in Proc /\ proc[p].b \in Bufs /\ proc[p].b = Buf[proc[p].i]
      /\ Head(lock[proc[p].b]) = p /\ BufferOf(proc[p].b)
  BY <1>0, <1>1, LockedIs, Zenon
<1>3. PICK b \in Bufs : b = proc[p].b
  BY <1>2, Zenon
<1>b. b = Buf[proc[p].i] /\ Head(lock[b]) = p /\ BufferOf(b)
  <2>1. BufferOf(b)
    BY DEF IInv, Buffers
  <2> QED BY <1>2, <1>3, <2>1
<1>4. buf[b].op = "none"
  <2>1. FlushOf(b)
    BY <1>2, <1>3, Constants DEF IInv, Flushes
  <2> QED BY <1>2, <1>3, <1>b, <2>1 DEF FlushOf, BufferOf
<1>5. Changes(b, (buf[b].flags \cup {"ASYNC"}) \ {"READ", "ERROR", "DIRTY"}, FALSE, buf[b].data, "write")
  BY <1>1, <1>3, <1>4, AsyncShape DEF IInv
<1>6. NoneDirtied
  BY <1>5 DEF Changes, Has, NoneDirtied
<1>7. Visited(p, b)
  BY <1>2, <1>5 DEF Changes, Has, Visited
<1>8. <<proc[p].pc, "wait">> \in Follows
  BY <1>2 DEF Follows
<1> QED BY <1>1, <1>2, <1>6, <1>7, <1>8, <1>b, AdvanceSaves

\* umount waits for the transfer of a buffer.
LEMMA WaitSaves ==
    ASSUME IInv, SaveInv, NEW p \in Umounter, Apart', WaitDone(p), ~Sleep(p)
    PROVE  SaveOf(p)'
<1>1. Locked(p, "wait") /\ Advance(p, "updated")
  BY DEF WaitDone
<1>0. "wait" \in Loops
  BY DEF Loops
<1>2. /\ proc[p].pc = "wait" /\ p \in Proc /\ proc[p].b \in Bufs /\ proc[p].b = Buf[proc[p].i]
      /\ Head(lock[proc[p].b]) = p /\ BufferOf(proc[p].b)
  BY <1>0, <1>1, LockedIs, Zenon
<1>3. PICK b \in Bufs : b = proc[p].b
  BY <1>2, Zenon
<1>b. b = Buf[proc[p].i] /\ Head(lock[b]) = p
  BY <1>2, <1>3
<1>4. Changes(b, buf[b].flags \ {"ASYNC"}, buf[b].done, buf[b].data, buf[b].op)
  <2>1. buf' = [buf EXCEPT ![b] = [buf[b] EXCEPT !.flags = buf[b].flags \ {"ASYNC"}]]
    BY <1>3 DEF WaitDone
  <2> QED BY <2>1, ClearShape DEF IInv
<1>5. NoneDirtied /\ NoneStarted /\ ~InProgress(b)'
  BY <1>4 DEF Changes, Has, InProgress, NoneDirtied, NoneStarted
<1>6. ~Taken(b, {"lruasync"})
  <2>1. SUFFICES ASSUME NEW q \in Proc, proc[q].pc = "lruasync", proc[q].b = b PROVE FALSE
    BY DEF Taken
  <2>2. proc[q].pc \in Owning
    BY <2>1 DEF Owning
  <2>3. Head(lock[b]) = q
    BY <2>1, <2>2, Alone
  <2> QED BY <1>2, <1>b, <2>1, <2>3
<1>7. Visited(p, b)
  BY <1>2, <1>5, <1>6 DEF Visited
<1>8. <<proc[p].pc, "updated">> \in Follows
  BY <1>2 DEF Follows
<1> QED BY <1>1, <1>5, <1>7, <1>8, <1>b, AdvanceSaves

\* umount discards a buffer.
LEMMA DiscardSaves ==
    ASSUME IInv, SaveInv, NEW p \in Umounter, Apart', Discard(p), ~Sleep(p)
    PROVE  SaveOf(p)'
<1>1. Locked(p, "discard") /\ Advance(p, "mount")
  BY DEF Discard
<1>0. "discard" \in Loops
  BY DEF Loops
<1>2. /\ proc[p].pc = "discard" /\ p \in Proc /\ proc[p].b \in Bufs /\ proc[p].b = Buf[proc[p].i]
      /\ Head(lock[proc[p].b]) = p /\ BufferOf(proc[p].b)
  BY <1>0, <1>1, LockedIs, Zenon
<1>3. PICK b \in Bufs : b = proc[p].b
  BY <1>2, Zenon
<1>b. b = Buf[proc[p].i]
  BY <1>2, <1>3
<1>4. buf'[b].id = NULL /\ \A c \in Bufs : c # b => buf'[c] = buf[c]
  <2> DEFINE r == [buf[b] EXCEPT !.id = NULL, !.flags = {}]
  <2>1. buf' = [buf EXCEPT ![b] = r]
    BY <1>3 DEF Discard
  <2>2. buf \in [Bufs -> BufType] /\ r.id = NULL
    BY Types DEF IInv, BufType
  <2> HIDE DEF r
  <2>3. \A c \in Bufs : buf'[c] = IF c = b THEN r ELSE buf[c]
    BY <2>1, <2>2
  <2> QED BY <2>2, <2>3, Zenon
<1>5. NoneDirtied /\ NoneStarted
  BY <1>4 DEF Has, InProgress, NoneDirtied, NoneStarted
<1>6. <<proc[p].pc, "mount">> \in Follows
  BY <1>2 DEF Follows
<1>7. Visited(p, b)
  BY <1>2 DEF Visited
<1> QED BY <1>1, <1>5, <1>6, <1>7, <1>b, AdvanceSaves

\* Each step of umount keeps what it has saved.
LEMMA UmountSaved ==
    ASSUME IInv, SaveInv, NEW p \in Umounter, Apart', Update(p)
    PROVE  SaveOf(p)'
<1>1. p \in Proc /\ proc \in [Proc -> ProcType]
  BY Types DEF Proc, IInv
<1>2. CASE UpdateInodes(p) \/ UpdateEnd(p) \/ Umount(p)
  BY <1>2, UmountWalks
<1>3. CASE FlushVisit(p) \/ WaitVisit(p) \/ DiscardVisit(p)
  BY <1>3, UmountVisits
<1>4. CASE UmountBusy(p) \/ Mount(p)
  <2>1. proc'[p] = Idle
    BY <1>1, <1>4 DEF UmountBusy, Mount
  <2> QED BY <2>1, IdleSaves
<1>5. CASE Sleep(p) /\ (WaitDone(p) \/ Discard(p))
  <2>1. PICK here \in {"wait", "discard"} : Locked(p, here)
    BY <1>5 DEF WaitDone, Discard
  <2>2. proc[p].pc = here /\ proc[p].b \in Bufs /\ proc[p].b = Buf[proc[p].i]
    BY <2>1, LockedIs DEF Loops
  <2>3. buf' = buf /\ proc' = proc
    BY <1>5 DEF Sleep
  <2>4. /\ Others(p) /\ proc'[p].dev = proc[p].dev /\ proc'[p].i = proc[p].i
        /\ proc'[p].pc = proc[p].pc /\ proc[p].pc \in Loops
        /\ proc'[p].pc \in Loops /\ proc'[p].b \in Bufs /\ proc'[p].b = Buf[proc[p].i]
        /\ proc'[p].b = proc[p].b
    BY <2>2, <2>3 DEF Others, Loops
  <2> QED BY <2>3, <2>4, StaySaves
<1>6. CASE FlushWrite(p)
  BY <1>6, FlushSaves
<1>7. CASE WaitDone(p) /\ ~Sleep(p)
  BY <1>7, WaitSaves
<1>8. CASE Discard(p) /\ ~Sleep(p)
  BY <1>8, DiscardSaves
<1> QED BY <1>2, <1>3, <1>4, <1>5, <1>6, <1>7, <1>8 DEF Update

\* The steps of the processes that have begun.
LEMMA WorkSaves ==
    ASSUME IInv, SaveInv, NEW q \in Proc, Get(q) \/ Read(q) \/ Use(q) \/ Update(q)
    PROVE  Acts(q) /\ (\A p \in Umounter : SaveOf(p)') /\ \A r \in Proc : TakerOf(r)'
<1>1. CASE Get(q) \/ Read(q) \/ Use(q)
  <2>1. proc[q].pc \in UserPc
    BY <1>1 DEF Get, Read, Use, Search, FoundOther, Found, ScanClean, ScanDirty, ScanBusy, Scanning,
                ScanWritten, ScanDone, Reuse, PutEndLru, KeepFree, Fill, FillMain, FillAhead, Overwrite, Kept,
                ReadDone, AheadMain, AheadNext, AheadEnd, UsePut, UseDelayed, UseWrite, WriteDone,
                At, UserPc, UserGet
  <2>2. q \in User /\ Active(q) /\ q \notin Umounter
    BY <2>1, UserActive, Constants
  <2>3. AheadOf(q)
    BY <2>2 DEF SaveInv
  <2>4. Acts(q)
    BY <1>1, <2>3, GetActs, ReadActs, UseActs
  <2>5. Active(q)' => proc'[q].blk = proc[q].blk
    <3>1. SameWork(q)
      BY <1>1, WorkSame
    <3> QED BY <3>1 DEF SameWork, Active, Idle
  <2>6. Others(q) /\ Apart'
    BY <2>2, <2>4, <2>5, ApartKept DEF Acts
  <2>7. ASSUME NEW p \in Umounter PROVE SaveOf(p)'
    <3>1. NoneBegins
      BY <2>2, <2>6 DEF Others, Active, Proc, NoneBegins
    <3>2. p # q
      BY <2>2
    <3> QED BY <2>4, <2>6, <3>1, <3>2, OtherSaves
  <2> QED BY <2>4, <2>7, TakersKept
<1>2. CASE Update(q)
  <2>1. Acts(q) /\ Active(q) /\ q \notin User
    BY <1>2, UpdateActs, UpdateActive
  <2>2. Others(q) /\ (Active(q)' => proc'[q].dev = proc[q].dev)
    BY <1>2, UpdateDev
  <2>3. Apart'
    BY <2>1, <2>2, ApartKept
  <2>4. ASSUME NEW p \in Umounter PROVE SaveOf(p)'
    <3>1. CASE p = q
      BY <1>2, <2>3, <3>1, UmountSaved
    <3>2. CASE p # q
      <4>1. NoneBegins
        BY <2>1, <2>2 DEF Others, Active, Proc, NoneBegins
      <4> QED BY <2>1, <2>3, <3>2, <4>1, OtherSaves
    <3> QED BY <3>1, <3>2
  <2> QED BY <2>1, <2>4, TakersKept
<1> QED BY <1>1, <1>2

-----------------------------------------------------------------------------
(* The other steps *)

\* update or umount begins.
LEMMA BeginUpdateSaves ==
    ASSUME IInv, SaveInv, UmountAlone, NEW q \in Proc, UpdateBegin(q)
    PROVE  Acts(q) /\ (\A p \in Umounter : SaveOf(p)') /\ \A r \in Proc : TakerOf(r)'
<1>1. /\ proc \in [Proc -> ProcType] /\ proc[q] \in ProcType
      /\ q \in Umounter \cup Swapper /\ q \notin User /\ proc[q].pc = "idle"
      /\ cpu = NULL /\ cpu' = cpu /\ buf' = buf
  BY Actor, Constants DEF UpdateBegin, At
<1>2. PICK dev \in IF q \in Umounter THEN mounted \ RootDev ELSE {NULL} :
         /\ \A r \in Umounter : dev # NULL => proc[r].dev # dev
         /\ proc' = [proc EXCEPT ![q].dev = dev,
                ![q].pc = IF ~updlock THEN "inodes" ELSE IF q \in Umounter THEN "umount" ELSE "idle"]
  BY DEF UpdateBegin
<1> DEFINE pc == IF ~updlock THEN "inodes" ELSE IF q \in Umounter THEN "umount" ELSE "idle"
<1>3. /\ Others(q) /\ proc'[q].pc = pc /\ proc'[q].dev = dev
      /\ proc'[q].i = proc[q].i /\ proc'[q].b = proc[q].b
  <2>1. proc' = [proc EXCEPT ![q] = [proc[q] EXCEPT !.dev = dev, !.pc = pc]]
    BY <1>2, Zenon
  <2> HIDE DEF pc
  <2>2. Others(q) /\ proc'[q] = [proc[q] EXCEPT !.dev = dev, !.pc = pc]
    BY <1>1, <2>1, SetProc
  <2> QED BY <1>1, <2>2 DEF ProcType
<1>4. Acts(q)
  <2>1. pc \notin {"reuse", "lruasync"}
    OBVIOUS
  <2> QED BY <1>1, <1>3, <2>1, TouchesNone DEF Acts, Takes
<1>5. CASE q \notin Umounter
  <2>1. Apart'
    BY <1>1, <1>3, <1>5, ApartKept
  <2>2. NoneBegins
    BY <1>3, <1>5 DEF NoneBegins, Others, Active, Proc
  <2> QED BY <1>4, <1>5, <2>1, <2>2, OtherSaves, TakersKept
<1>6. CASE q \in Umounter
  <2>1. ~updlock /\ ~Using(dev) /\ pc = "inodes"
    BY <1>3, <1>6 DEF UmountAlone
  <2>2. dev # NULL
    BY <1>1, <1>2, <1>6, Actor, Constants
  <2>3. Apart'
    <3>1. \A u \in User : Active(u)' => Active(u) /\ proc'[u] = proc[u] /\ Dev(proc[u].blk) # dev
      BY <1>1, <1>3, <2>1 DEF Others, Active, Proc, Using
    <3>2. \A r \in Umounter : r # q => proc'[r] = proc[r] /\ proc[r].dev # dev
      BY <1>2, <1>3, <2>2 DEF Others, Proc
    <3>3. \A r \in Umounter : r # q /\ Active(r)' => Active(r)
      BY <3>2 DEF Active
    <3> QED BY <1>3, <3>1, <3>2, <3>3, SaveApart DEF Apart
  <2>4. ASSUME NEW p \in Umounter, p # q PROVE SaveOf(p)'
    <3>1. proc[p].pc # "flush"
      BY <2>1 DEF IInv, Locals, LocalsOf, UpdatePc, Proc
    <3> QED BY <1>4, <2>3, <2>4, <3>1, OtherSaves
  <2>5. SaveOf(q)'
    <3>1. proc'[q].pc = "inodes" /\ proc'[q].i = 1
      BY <1>1, <1>3, <1>6, <2>1 DEF SaveInv, SaveOf, Loops
    <3>2. \A b \in Bufs : ~Flushed(q, b)' /\ ~Waited(q, b)'
      BY <3>1 DEF Flushed, Waited
    <3>3. /\ \A u \in User : Active(u)' => Dev(proc'[u].blk) # proc'[q].dev
          /\ \A r \in Umounter : Active(r)' /\ r # q => proc'[r].dev # proc'[q].dev
      BY <1>6, <2>3, <3>1 DEF Apart, Active
    <3> QED BY <3>1, <3>2, <3>3 DEF SaveOf, Loops
  <2> QED BY <1>4, <2>4, <2>5, TakersKept
<1> QED BY <1>5, <1>6

\* A user begins.
LEMMA BeginSaves ==
    ASSUME IInv, SaveInv, NEW q \in User, NEW op, NEW blk \in Block, NEW next, Begin(q, op, blk, next)
    PROVE  Acts(q) /\ (\A p \in Umounter : SaveOf(p)') /\ \A r \in Proc : TakerOf(r)'
<1>1. /\ q \in Proc /\ proc \in [Proc -> ProcType] /\ q \notin Umounter
      /\ cpu = NULL /\ buf' = buf /\ \A r \in Umounter : proc[r].dev # Dev(blk)
  BY Types, Constants DEF IInv, Begin, Proc
<1>2. Others(q) /\ proc'[q].pc \in {"get", "breada"} /\ proc'[q].blk = blk
  <2> DEFINE r == [Idle EXCEPT !.pc = IF next = NULL THEN "get" ELSE "breada",
                               !.for = IF op = "overwrite" THEN op ELSE "read",
                               !.op = op, !.blk = blk, !.next = next]
  <2>1. proc' = [proc EXCEPT ![q] = r]
    BY DEF Begin
  <2>2. r.pc \in {"get", "breada"} /\ r.blk = blk
    BY DEF Idle
  <2> HIDE DEF r
  <2> QED BY <1>1, <2>1, <2>2, SetProc
<1>3. Acts(q)
  BY <1>1, <1>2, TouchesNone DEF Acts, Takes
<1>4. NoneBegins
  BY <1>1, <1>2 DEF NoneBegins, Others, Active, Proc
<1>5. Apart'
  <2>1. \A u \in User : u # q => proc'[u] = proc[u]
    BY <1>2 DEF Others, Proc
  <2>2. \A r \in Umounter : proc'[r] = proc[r]
    BY <1>1, <1>2 DEF Others, Proc
  <2> QED BY <1>1, <1>2, <2>1, <2>2, SaveApart DEF Apart, Active
<1> QED BY <1>1, <1>3, <1>4, <1>5, OtherSaves, TakersKept

\* A step of a driver, or of the swapper, that writes a buffer.
LEMMA DriverSaves ==
    ASSUME IInv, SaveInv, proc' = proc, cpu' = cpu,
           \A c \in Bufs : Calm(c) /\ (Has(c, "ASYNC") => Has(c, "ASYNC")')
    PROVE  (\A p \in Umounter : SaveOf(p)') /\ \A r \in Proc : TakerOf(r)'
<1>1. ASSUME NEW p \in Umounter PROVE SaveOf(p)'
  <2>1. SaveOf(p) /\ proc[p].b \in Bufs \cup {NULL}
    BY Types DEF SaveInv, IInv, Proc
  <2>2. \A b \in Bufs : \A dev : On(b, dev)' <=> On(b, dev)
    BY DEF Calm, On
  <2>3. \A x, b : (Flushed(x, b)' <=> Flushed(x, b)) /\ (Waited(x, b)' <=> Waited(x, b))
    BY DEF Flushed, Waited, Passed
  <2>4. \A b, codes : Taken(b, codes)' <=> Taken(b, codes)
    BY DEF Taken
  <2>5. \A x : Active(x)' <=> Active(x)
    BY DEF Active
  <2>6. ASSUME NEW b \in Bufs, Active(p), On(b, proc[p].dev)
        PROVE  /\ Flushed(p, b) => ~Has(b, "DIRTY")'
               /\ Waited(p, b) => ~InProgress(b)' /\ ~Taken(b, {"lruasync"})
    <3>1. /\ Flushed(p, b) => ~Has(b, "DIRTY")
          /\ Waited(p, b) => ~InProgress(b) /\ ~Taken(b, {"lruasync"})
      BY <2>1, <2>6 DEF SaveOf
    <3> QED BY <3>1, WaitedFlushed DEF Calm
  <2>7. \A b \in Bufs : buf[b].id = NULL => buf'[b].id = NULL
    BY DEF Calm
  <2> QED BY <2>1, <2>2, <2>3, <2>4, <2>5, <2>6, <2>7 DEF SaveOf
<1>2. ASSUME NEW r \in Proc PROVE TakerOf(r)'
  <2>1. TakerOf(r)
    BY DEF SaveInv
  <2>2. proc[r].pc = "lruasync" => proc[r].b \in Bufs
    BY Alone DEF Owning
  <2> QED BY <2>1, <2>2 DEF TakerOf, Has
<1> QED BY <1>1, <1>2

\* The steps of the drivers, and of the swapper.
LEMMA DriversCalm ==
    ASSUME IInv, NEW b \in Bufs, Driver(b) \/ BlockUpdate(b)
    PROVE  /\ proc' = proc /\ cpu' = cpu
           /\ \A c \in Bufs : Calm(c) /\ (Has(c, "ASYNC") => Has(c, "ASYNC")')
<1>1. proc' = proc /\ cpu' = cpu
  BY DEF Driver, ReadEnds, ReadFails, WriteEnds, BlockUpdate
<1>2. buf \in [Bufs -> BufType] /\ buf[b] \in BufType
  BY Types DEF IInv
<1>3. ASSUME \A c \in Bufs : c # b => buf'[c] = buf[c], buf'[b].id = buf[b].id, buf'[b].done = TRUE,
             buf'[b].flags = buf[b].flags \/ buf'[b].flags = buf[b].flags \cup {"ERROR"}
      PROVE  \A c \in Bufs : Calm(c) /\ (Has(c, "ASYNC") => Has(c, "ASYNC")')
  BY <1>3 DEF Calm, Has, InProgress
<1>4. CASE ReadEnds(b)
  <2> DEFINE r == [buf[b] EXCEPT !.op = "none", !.done = TRUE, !.data = disk[buf[b].id]]
  <2>1. buf' = [buf EXCEPT ![b] = r]
    BY <1>4, Zenon DEF ReadEnds
  <2>2. r.id = buf[b].id /\ r.done = TRUE /\ r.flags = buf[b].flags
    BY <1>2 DEF BufType
  <2> HIDE DEF r
  <2>3. buf'[b] = r /\ \A c \in Bufs : c # b => buf'[c] = buf[c]
    BY <1>2, <2>1
  <2> QED BY <1>1, <1>3, <2>2, <2>3
<1>5. CASE ReadFails(b)
  <2> DEFINE r == [buf[b] EXCEPT !.op = "none", !.done = TRUE, !.flags = buf[b].flags \cup {"ERROR"}]
  <2>1. buf' = [buf EXCEPT ![b] = r]
    BY <1>5 DEF ReadFails
  <2>2. r.id = buf[b].id /\ r.done = TRUE /\ r.flags = buf[b].flags \cup {"ERROR"}
    BY <1>2 DEF BufType
  <2> HIDE DEF r
  <2>3. buf'[b] = r /\ \A c \in Bufs : c # b => buf'[c] = buf[c]
    BY <1>2, <2>1
  <2> QED BY <1>1, <1>3, <2>2, <2>3
<1>6. CASE WriteEnds(b)
  <2> DEFINE r == [buf[b] EXCEPT !.op = "none", !.done = TRUE]
  <2>1. buf' = [buf EXCEPT ![b] = r]
    BY <1>6, Zenon DEF WriteEnds
  <2>2. r.id = buf[b].id /\ r.done = TRUE /\ r.flags = buf[b].flags
    BY <1>2 DEF BufType
  <2> HIDE DEF r
  <2>3. buf'[b] = r /\ \A c \in Bufs : c # b => buf'[c] = buf[c]
    BY <1>2, <2>1
  <2> QED BY <1>1, <1>3, <2>2, <2>3
<1>7. CASE BlockUpdate(b)
  <2>1. Has(b, "DIRTY") /\ WriteAsync(b)
    BY <1>7 DEF BlockUpdate
  <2>2. Calm(b) /\ (\A c \in Bufs : c # b => buf'[c] = buf[c]) /\ Has(b, "ASYNC")'
    BY <2>1, AsyncCalm
  <2> QED BY <1>1, <2>2 DEF Calm, Has, InProgress
<1> QED BY <1>1, <1>4, <1>5, <1>6, <1>7 DEF Driver

\* What a user reads ahead is of the device of its block.
LEMMA AheadKept ==
    ASSUME IInv, SaveInv, Next, NEW q \in User
    PROVE  AheadOf(q)'
<1>1. AheadOf(q) /\ q \in Proc /\ proc \in [Proc -> ProcType]
  BY Types DEF SaveInv, IInv, Proc
<1>2. CASE SameWork(q)
  BY <1>1, <1>2 DEF AheadOf, SameWork, Idle
<1>3. CASE \E p \in Proc : Get(p) \/ Read(p) \/ Use(p) \/ Update(p) \/ UpdateBegin(p)
  BY <1>1, <1>2, <1>3, WorkSame
<1>4. ASSUME NEW w \in Work, Begin(w[1], w[2], w[3], w[4]) PROVE AheadOf(q)'
  <2>1. CASE q = w[1]
    <3>1. proc'[q].blk = w[3] /\ proc'[q].next = w[4]
      BY <1>1, <1>4, <2>1 DEF Begin, Idle
    <3>2. w[4] # NULL => Dev(w[4]) = Dev(w[3])
      BY CacheAssumption
    <3> QED BY <3>1, <3>2 DEF AheadOf
  <2>2. CASE q # w[1]
    BY <1>1, <1>2, <1>4, <2>2 DEF Begin, SameWork
  <2> QED BY <2>1, <2>2
<1>5. CASE \E b \in Bufs : Driver(b) \/ BlockUpdate(b)
  BY <1>2, <1>5 DEF Driver, ReadEnds, ReadFails, WriteEnds, BlockUpdate, SameWork
<1> QED BY <1>3, <1>4, <1>5 DEF Next

\* What umount knows holds at first, and every step keeps it.
LEMMA SaveInit == Init => SaveInv
<1> SUFFICES ASSUME Init PROVE SaveInv
  OBVIOUS
<1>1. \A p \in Proc : /\ proc[p].pc \in {"idle", "absent"} /\ proc[p].i = 1 /\ proc[p].next = NULL
  BY DEF Init, Idle
<1>2. \A p \in Umounter : SaveOf(p)
  BY <1>1 DEF SaveOf, Active, Loops, Proc
<1>3. (\A q \in Proc : TakerOf(q)) /\ \A u \in User : AheadOf(u)
  BY <1>1 DEF TakerOf, AheadOf, Proc
<1> QED BY <1>2, <1>3 DEF SaveInv

LEMMA SaveKept == IInv /\ SaveInv /\ [Next]_vars /\ [UmountAlone]_vars => SaveInv'
<1> SUFFICES ASSUME IInv, SaveInv, [Next]_vars, [UmountAlone]_vars PROVE SaveInv'
  OBVIOUS
<1> DEFINE Goal == (\A p \in Umounter : SaveOf(p)') /\ \A r \in Proc : TakerOf(r)'
<1>1. CASE UNCHANGED vars
  <2>1. Goal
    BY <1>1, DriverSaves DEF vars, Calm, Has, InProgress
  <2>2. \A u \in User : AheadOf(u)'
    BY <1>1 DEF vars, SaveInv, AheadOf
  <2> QED BY <2>1, <2>2 DEF SaveInv
<1>2. CASE Next /\ UmountAlone
  <2>1. ASSUME NEW p \in Proc, Get(p) \/ Read(p) \/ Use(p) \/ Update(p) PROVE Goal
    BY <2>1, WorkSaves
  <2>2. ASSUME NEW p \in Proc, UpdateBegin(p) PROVE Goal
    BY <1>2, <2>2, BeginUpdateSaves
  <2>3. ASSUME NEW w \in Work, Begin(w[1], w[2], w[3], w[4]) PROVE Goal
    <3>1. w[1] \in User /\ w[3] \in Block
      BY CacheAssumption
    <3> QED BY <2>3, <3>1, BeginSaves
  <2>4. ASSUME NEW b \in Bufs, Driver(b) \/ BlockUpdate(b) PROVE Goal
    BY <2>4, DriversCalm, DriverSaves
  <2>5. Goal
    BY <1>2, <2>1, <2>2, <2>3, <2>4 DEF Next
  <2>6. \A u \in User : AheadOf(u)'
    BY <1>2, AheadKept
  <2> QED BY <2>5, <2>6 DEF SaveInv
<1> QED BY <1>1, <1>2

\* Only umount discards a buffer, and it is clean.
LEMMA DiscardsClean ==
    ASSUME IInv, SaveInv, Next, NEW b \in Bufs, Discarded(b)
    PROVE  ~Has(b, "DIRTY")
<1>1. buf[b].id # NULL /\ buf'[b].id = NULL
  BY DEF Discarded
<1>2. ASSUME NEW q \in Proc, Touches(q) PROVE ~Has(b, "DIRTY")
  <2>1. Drops(q, b)
    BY <1>1, <1>2, Constants DEF Touches, Calm, Serves, Sends
  <2>2. SaveOf(q) /\ proc[q].pc = "discard" /\ proc[q].b = b /\ b # NULL
    BY <2>1, Constants DEF Drops, SaveInv
  <2>3. On(b, proc[q].dev) /\ Active(q) /\ Flushed(q, b)
    BY <1>1, <2>2 DEF SaveOf, Active, Flushed
  <2> QED BY <2>2, <2>3 DEF SaveOf
<1>3. ASSUME NEW q \in Proc, Get(q) \/ Read(q) \/ Use(q) \/ Update(q) PROVE ~Has(b, "DIRTY")
  BY <1>2, <1>3, WorkSaves DEF Acts
<1>4. buf' = buf => FALSE
  BY <1>1
<1>5. ASSUME NEW c \in Bufs, Driver(c) \/ BlockUpdate(c) PROVE FALSE
  BY <1>1, <1>5, DriversCalm DEF Calm
<1> QED BY <1>3, <1>4, <1>5 DEF Next, UpdateBegin, Begin

-----------------------------------------------------------------------------
(* Theorem *)

\* systree.c, dcache.c: no buffer is discarded dirty, when umount begins with no update running and
\* nobody inside its device.
THEOREM UmountSavesAll ==
    Spec /\ [][NoErrorKept]_vars /\ [][UmountAlone]_vars => UmountSaves
<1>1. Init => IInv /\ SaveInv
  BY InitInvariant, SaveInit
<1>2. IInv /\ SaveInv /\ [Next]_vars /\ [NoErrorKept]_vars /\ [UmountAlone]_vars => IInv' /\ SaveInv'
  BY NextKeeps, StutterKeeps, SaveKept
<1>3. IInv /\ SaveInv /\ [Next]_vars => [\A b \in Bufs : Discarded(b) => ~Has(b, "DIRTY")]_vars
  BY DiscardsClean
<1> QED BY <1>1, <1>2, <1>3, PTL DEF Spec, UmountSaves
=============================================================================
