---------------------------- MODULE TimeoutProofs ---------------------------
(***************************************************************************)
(* Theorems about Timeout, for any clients, any table of entries, any      *)
(* number of queues, and any width of the counter of ticks.                *)
(***************************************************************************)
EXTENDS Timeout, QueueLemmas

-----------------------------------------------------------------------------
(* The inductive invariant *)

Hash == 0 .. (HASH - 1)
Tick == 0 .. (W - 1)

\* The entries: free, in the queue of their tick, with a function, or in the hands of a client.
Entries ==
    /\ NoRepeat(timeout_free_list)
    /\ \A h \in Hash : NoRepeat(timeout_hash[h])
    /\ \A h \in Hash, e \in Entry :
          e \in ToSet(timeout_hash[h]) => o_func[e] # NULL /\ h = o_time[e] % HASH
    /\ \A e \in Entry : o_func[e] # NULL => e \in ToSet(Queue(o_time[e]))
    /\ \A e \in ToSet(timeout_free_list) : o_func[e] = NULL
    /\ \A c \in Client : \A e \in Holding(c) : o_func[e] = NULL /\ e \notin ToSet(timeout_free_list)
    /\ \A c, d \in Client : \A e \in Holding(c) \cap Holding(d) : c = d
    /\ \A e \in Entry : \/ e \in ToSet(timeout_free_list) \/ o_func[e] # NULL
                        \/ \E c \in Client : e \in Holding(c)

\* The clients: an entry queued is the last that its client was given, and the client expects it
\* to be called; a process that is to be called expects it.
Clients ==
    /\ \A c \in Client : pc[c] # "idle" => c \in ProcClient /\ tp[c] # NULL
    /\ \A e \in Entry : o_func[e] # NULL => tp[o_func[e]] = e /\ armed[o_func[e]]
    /\ \A c \in Client : armed[c] => calling = c \/ \E e \in Entry : o_func[e] = c
    /\ \A c \in Client : pc[c] \in {"got", "timed", "unlinked"} => ~armed[c]
    /\ \A c \in ProcClient : calling = c => armed[c] /\ \A e \in Entry : o_func[e] # c
    /\ calling # NULL => timeout_in_operation

\* What a process read of an entry in toutreset is right while the entry is its own.
Resets ==
    \A c \in Client : pc[c] = "reset" =>
        /\ ticks[c] \in Hash
        /\ o_func[tp[c]] = c => ticks[c] = o_time[tp[c]] % HASH

IInv == TypeOK /\ Entries /\ Clients /\ Resets

-----------------------------------------------------------------------------
(* Ticks *)

\* What the proofs use of the assumption on the constants.
LEMMA Constants ==
    /\ W \in Nat \ {0} /\ HASH \in Nat \ {0} /\ HASH <= W /\ Hash \subseteq Tick
    /\ NULL \notin Client /\ NULL \notin Entry /\ ProcClient \cap DevClient = {}
    /\ MaxTicks + MaxLag + 1 < W \div 2 /\ MaxTicks \in Nat /\ MaxLag \in Nat
<1>1. W \in Nat \ {0} /\ HASH \in Nat \ {0} /\ W % HASH = 0
  BY TimeoutAssumption
<1>2. HASH <= W
  BY <1>1
<1> QED BY <1>1, <1>2, TimeoutAssumption DEF Hash, Tick, Client

\* The remainders of a division.
LEMMA Remainder ==
    ASSUME NEW n \in Int
    PROVE  n % W \in Tick /\ n % HASH \in Hash
BY Constants DEF Tick, Hash

\* A tick some ticks ahead.
LEMMA Ahead ==
    ASSUME TypeOK, NEW n \in 1 .. MaxTicks
    PROVE  (abs_ticks + n) % W \in Tick
<1>1. abs_ticks + n \in Int
  BY Constants DEF TypeOK
<1> QED BY <1>1, Remainder

\* The circular distance of two ticks.
LEMMA Distance ==
    ASSUME NEW a \in Tick, NEW b \in Tick
    PROVE  (a - b) % W = IF b <= a THEN a - b ELSE a - b + W
<1>1. CASE b <= a
  BY <1>1, Constants DEF Tick
<1>2. CASE a < b
  BY <1>2, Constants DEF Tick
<1> QED BY <1>1, <1>2, Constants DEF Tick

\* The tick after b.
LEMMA NextTick ==
    ASSUME NEW b \in Tick
    PROVE  (b + 1) % W = IF b + 1 < W THEN b + 1 ELSE 0
BY Constants DEF Tick

\* A tick in front of b, and other than b, is in front of the next.
LEMMA StillInFront ==
    ASSUME NEW a \in Tick, NEW b \in Tick, a # b, NotBefore(a, b)
    PROVE  NotBefore(a, (b + 1) % W)
<1> DEFINE n == (b + 1) % W
<1>1. n \in Tick /\ n = IF b + 1 < W THEN b + 1 ELSE 0
  BY NextTick, Constants DEF Tick
<1>2. (a - b) % W = (IF b <= a THEN a - b ELSE a - b + W) /\ (a - b) % W < W \div 2
  BY Distance DEF NotBefore
<1> HIDE DEF n
<1>3. (a - n) % W = IF n <= a THEN a - n ELSE a - n + W
  BY <1>1, Distance
<1>4. (a - n) % W = ((a - b) % W) - 1
  BY <1>1, <1>2, <1>3, Constants DEF Tick
<1>5. (a - n) % W < W \div 2
  BY <1>1, <1>2, <1>3, <1>4, Constants DEF Tick
<1> QED BY <1>5 DEF NotBefore, n

-----------------------------------------------------------------------------
(* The properties follow *)

\* The entries queued for a client are those of its function, one at most.
LEMMA QueuedByFunction ==
    ASSUME IInv, NEW c \in Client
    PROVE  /\ Queued(c) = { e \in Entry : o_func[e] = c }
           /\ \A e \in Queued(c) : Queued(c) = {e} /\ armed[c] /\ tp[c] = e
<1>1. c # NULL
  BY Constants
<1>2. Queued(c) = { e \in Entry : o_func[e] = c }
  BY <1>1 DEF IInv, Entries, Queued
<1> QED BY <1>1, <1>2 DEF IInv, Clients

\* The invariant is as strong as EntriesExact.
LEMMA EntriesFollow == IInv => EntriesExact
<1> SUFFICES ASSUME IInv PROVE EntriesExact
  OBVIOUS
<1>1. ASSUME NEW e \in Entry
      PROVE  LET owners == { c \in Client : e \in Holding(c) }
                 free == e \in ToSet(timeout_free_list)
                 queues == { h \in 0..(HASH - 1) : e \in ToSet(timeout_hash[h]) }
             IN  /\ Cardinality(owners) + Cardinality(queues) + (IF free THEN 1 ELSE 0) = 1
                 /\ queues \subseteq {o_time[e] % HASH}
  <2> DEFINE owners == { c \in Client : e \in Holding(c) }
             free == e \in ToSet(timeout_free_list)
             queues == { h \in 0..(HASH - 1) : e \in ToSet(timeout_hash[h]) }
  <2>0. /\ Cardinality({}) = 0 /\ \A x : Cardinality({x}) = 1
        /\ o_time[e] \in Int /\ o_time[e] % HASH \in Hash
    <3>1. o_time[e] \in Int
      BY Constants DEF IInv, TypeOK
    <3> QED BY <3>1, FS_EmptySet, FS_Singleton, Remainder
  <2>1. queues \subseteq {o_time[e] % HASH} /\ (queues # {} <=> o_func[e] # NULL)
    <3>1. \A h \in queues : h = o_time[e] % HASH /\ o_func[e] # NULL
      BY DEF IInv, Entries, Hash
    <3>2. o_func[e] # NULL => o_time[e] % HASH \in queues
      BY <2>0 DEF IInv, Entries, Hash, Queue
    <3> QED BY <3>1, <3>2
  <2>2. \A c, d \in owners : c = d
    BY DEF IInv, Entries
  <2>3. /\ owners # {} => o_func[e] = NULL /\ ~free
        /\ free => o_func[e] = NULL
        /\ owners # {} \/ free \/ o_func[e] # NULL
    BY DEF IInv, Entries
  <2> HIDE DEF owners, free, queues
  <2>4. CASE o_func[e] # NULL
    <3>1. queues = {o_time[e] % HASH} /\ owners = {} /\ ~free
      BY <2>1, <2>3, <2>4
    <3>2. Cardinality(owners) = 0 /\ Cardinality(queues) = 1
      BY <2>0, <3>1
    <3> QED BY <2>1, <3>1, <3>2 DEF owners, queues, free
  <2>5. CASE o_func[e] = NULL /\ free
    <3>1. queues = {} /\ owners = {}
      BY <2>1, <2>3, <2>5
    <3>2. Cardinality(owners) = 0 /\ Cardinality(queues) = 0
      BY <2>0, <3>1
    <3> QED BY <2>1, <2>5, <3>2 DEF owners, queues, free
  <2>6. CASE o_func[e] = NULL /\ ~free
    <3>1. queues = {} /\ owners # {}
      BY <2>1, <2>3, <2>6
    <3>2. \E c : owners = {c}
      BY <2>2, <3>1
    <3>3. Cardinality(owners) = 1 /\ Cardinality(queues) = 0
      BY <2>0, <3>1, <3>2
    <3> QED BY <2>1, <2>6, <3>3 DEF owners, queues, free
  <2> QED BY <2>4, <2>5, <2>6
<1>2. ASSUME NEW c \in Client
      PROVE  /\ Cardinality(Queued(c)) <= 1
             /\ armed[c] => Queued(c) # {} \/ calling = c
             /\ c \in ProcClient => Queued(c) = {} \/ calling # c
  <2>1. /\ Queued(c) = { e \in Entry : o_func[e] = c }
        /\ \A e \in Queued(c) : Queued(c) = {e}
    BY QueuedByFunction
  <2>2. Cardinality(Queued(c)) <= 1
    <3>1. Queued(c) = {} \/ \E e : Queued(c) = {e}
      BY <2>1
    <3>2. CASE Queued(c) = {}
      <4>1. Cardinality(Queued(c)) = 0
        BY <3>2, FS_EmptySet
      <4> QED BY <4>1
    <3>3. ASSUME NEW e, Queued(c) = {e} PROVE Cardinality(Queued(c)) <= 1
      <4>1. Cardinality(Queued(c)) = 1
        BY <3>3, FS_Singleton
      <4> QED BY <4>1
    <3> QED BY <3>1, <3>2, <3>3
  <2> QED BY <2>1, <2>2 DEF IInv, Clients
<1>3. IsInjective(timeout_free_list) /\ \A h \in 0..(HASH - 1) : IsInjective(timeout_hash[h])
  BY DEF IInv, Entries, NoRepeat, IsInjective, Hash
<1> QED BY <1>1, <1>2, <1>3 DEF EntriesExact

-----------------------------------------------------------------------------
(* What the operations do to the queues *)

\* Where an entry with a function is: nowhere else.
LEMMA WhereQueued ==
    ASSUME IInv, NEW e \in Entry, o_func[e] # NULL
    PROVE  /\ e \notin ToSet(timeout_free_list)
           /\ \A c \in Client : e \notin Holding(c)
           /\ o_time[e] \in Tick /\ o_time[e] % HASH \in Hash
           /\ e \in ToSet(timeout_hash[o_time[e] % HASH])
<1>1. o_time[e] \in Tick /\ o_time[e] \in Int
  BY Constants DEF IInv, TypeOK, Tick
<1> QED BY <1>1, Remainder DEF IInv, Entries, Queue

\* The first free entry is in no queue and in no hands.
LEMMA FreeEntry ==
    ASSUME IInv, timeout_free_list # <<>>
    PROVE  /\ Head(timeout_free_list) \in Entry /\ Head(timeout_free_list) # NULL
           /\ Head(timeout_free_list) \in ToSet(timeout_free_list)
           /\ o_func[Head(timeout_free_list)] = NULL
           /\ \A c \in Client : Head(timeout_free_list) \notin Holding(c)
           /\ Tail(timeout_free_list) \in Seq(Entry) /\ NoRepeat(Tail(timeout_free_list))
           /\ ToSet(Tail(timeout_free_list)) = ToSet(timeout_free_list) \ {Head(timeout_free_list)}
<1>1. timeout_free_list \in Seq(Entry) /\ NoRepeat(timeout_free_list)
  BY DEF IInv, TypeOK, Entries
<1>2. Len(timeout_free_list) > 0
  BY <1>1
<1>3. /\ Head(timeout_free_list) \in ToSet(timeout_free_list) /\ Head(timeout_free_list) \in Entry
      /\ Tail(timeout_free_list) \in Seq(Entry) /\ NoRepeat(Tail(timeout_free_list))
      /\ ToSet(Tail(timeout_free_list)) = ToSet(timeout_free_list) \ {Head(timeout_free_list)}
  BY <1>1, <1>2, TailElements
<1> QED BY <1>3, Constants DEF IInv, Entries

\* An entry put in the free list.
LEMMA PutShape ==
    ASSUME TypeOK, NoRepeat(timeout_free_list), NEW e \in Entry, e \notin ToSet(timeout_free_list), Put(e)
    PROVE  /\ timeout_free_list' \in Seq(Entry) /\ NoRepeat(timeout_free_list')
           /\ ToSet(timeout_free_list') = ToSet(timeout_free_list) \cup {e}
BY ConsElements DEF Put, TypeOK

\* A new entry in the queue of its tick.
LEMMA InsertShape ==
    ASSUME IInv, NEW e \in Entry, o_func[e] = NULL, NEW c \in Client, NEW t \in Tick, Insert(e, c, t)
    PROVE  /\ t % HASH \in Hash
           /\ timeout_hash' \in [Hash -> Seq(Entry)]
           /\ \A h \in Hash :
                 /\ NoRepeat(timeout_hash'[h])
                 /\ ToSet(timeout_hash'[h]) =
                       IF h = t % HASH THEN ToSet(timeout_hash[h]) \cup {e} ELSE ToSet(timeout_hash[h])
           /\ o_time' \in [Entry -> Tick] /\ o_func' \in [Entry -> Client \cup {NULL}]
           /\ armed' \in [Client -> BOOLEAN]
           /\ \A x \in Entry : o_time'[x] = IF x = e THEN t ELSE o_time[x]
           /\ \A x \in Entry : o_func'[x] = IF x = e THEN c ELSE o_func[x]
           /\ \A d \in Client : armed'[d] = IF d = c THEN TRUE ELSE armed[d]
<1>1. t \in Int /\ t % HASH \in Hash
  BY Remainder, Constants DEF Tick
<1>2. /\ timeout_hash \in [Hash -> Seq(Entry)] /\ NoRepeat(timeout_hash[t % HASH])
      /\ e \notin ToSet(timeout_hash[t % HASH])
  BY <1>1 DEF IInv, TypeOK, Entries, Hash
<1>3. /\ <<e>> \o timeout_hash[t % HASH] \in Seq(Entry)
      /\ ToSet(<<e>> \o timeout_hash[t % HASH]) = ToSet(timeout_hash[t % HASH]) \cup {e}
      /\ NoRepeat(<<e>> \o timeout_hash[t % HASH])
  BY <1>1, <1>2, ConsElements
<1>4. timeout_hash' = [timeout_hash EXCEPT ![t % HASH] = <<e>> \o timeout_hash[t % HASH]]
  BY DEF Insert
<1>5. /\ timeout_hash' \in [Hash -> Seq(Entry)]
      /\ \A h \in Hash :
            timeout_hash'[h] = IF h = t % HASH THEN <<e>> \o timeout_hash[t % HASH] ELSE timeout_hash[h]
  BY <1>1, <1>2, <1>3, <1>4
<1>6. \A h \in Hash : NoRepeat(timeout_hash[h])
  BY DEF IInv, Entries
<1>7. /\ o_time' \in [Entry -> Tick] /\ o_func' \in [Entry -> Client \cup {NULL}]
      /\ armed' \in [Client -> BOOLEAN]
      /\ \A x \in Entry : o_time'[x] = IF x = e THEN t ELSE o_time[x]
      /\ \A x \in Entry : o_func'[x] = IF x = e THEN c ELSE o_func[x]
      /\ \A d \in Client : armed'[d] = IF d = c THEN TRUE ELSE armed[d]
  BY DEF Insert, IInv, TypeOK, Tick
<1> QED BY <1>1, <1>3, <1>5, <1>6, <1>7

\* An entry that leaves its queue, and loses its function.
LEMMA RemoveShape ==
    ASSUME IInv, NEW e \in Entry, NEW h \in Hash,
           timeout_hash' = [timeout_hash EXCEPT ![h] = RemoveFirst(@, e)],
           o_func' = [o_func EXCEPT ![e] = NULL]
    PROVE  /\ timeout_hash' \in [Hash -> Seq(Entry)]
           /\ \A k \in Hash :
                 /\ NoRepeat(timeout_hash'[k])
                 /\ ToSet(timeout_hash'[k]) =
                       IF k = h THEN ToSet(timeout_hash[k]) \ {e} ELSE ToSet(timeout_hash[k])
           /\ o_func' \in [Entry -> Client \cup {NULL}]
           /\ \A x \in Entry : o_func'[x] = IF x = e THEN NULL ELSE o_func[x]
<1>1. timeout_hash \in [Hash -> Seq(Entry)] /\ \A k \in Hash : NoRepeat(timeout_hash[k])
  BY DEF IInv, TypeOK, Entries, Hash
<1> DEFINE r == RemoveFirst(timeout_hash[h], e)
<1>2. timeout_hash[h] \in Seq(Entry) /\ NoRepeat(timeout_hash[h])
  BY <1>1
<1>3. r \in Seq(Entry) /\ ToSet(r) = ToSet(timeout_hash[h]) \ {e} /\ NoRepeat(r)
  BY <1>2, RemoveFirstElements
<1> HIDE DEF r
<1>4. timeout_hash' = [timeout_hash EXCEPT ![h] = r]
  BY DEF r
<1>5. /\ timeout_hash' \in [Hash -> Seq(Entry)]
      /\ \A k \in Hash : timeout_hash'[k] = IF k = h THEN r ELSE timeout_hash[k]
  BY <1>1, <1>3, <1>4
<1>6. /\ o_func' \in [Entry -> Client \cup {NULL}]
      /\ \A x \in Entry : o_func'[x] = IF x = e THEN NULL ELSE o_func[x]
  BY DEF IInv, TypeOK
<1> QED BY <1>1, <1>3, <1>5, <1>6

\* An entry that leaves its queue is free, or in the hands of one client.
LEMMA EntryLeaves ==
    ASSUME IInv, NEW c \in Client, NEW e \in Entry, NEW h \in Hash, NEW freed \in BOOLEAN,
           o_func[e] # NULL, h = o_time[e] % HASH, Holding(c) = {} \/ freed,
           timeout_hash' = [timeout_hash EXCEPT ![h] = RemoveFirst(@, e)],
           o_func' = [o_func EXCEPT ![e] = NULL], UNCHANGED o_time,
           NoRepeat(timeout_free_list'),
           ToSet(timeout_free_list') = ToSet(timeout_free_list) \cup (IF freed THEN {e} ELSE {}),
           \A d \in Client : Holding(d)' = IF d = c /\ ~freed THEN {e} ELSE Holding(d)
    PROVE  Entries'
<1>1. /\ timeout_hash' \in [Hash -> Seq(Entry)]
      /\ \A k \in Hash :
            /\ NoRepeat(timeout_hash'[k])
            /\ ToSet(timeout_hash'[k]) =
                  IF k = h THEN ToSet(timeout_hash[k]) \ {e} ELSE ToSet(timeout_hash[k])
      /\ o_func' \in [Entry -> Client \cup {NULL}]
      /\ \A x \in Entry : o_func'[x] = IF x = e THEN NULL ELSE o_func[x]
  BY RemoveShape
<1>2. e \notin ToSet(timeout_free_list) /\ \A d \in Client : e \notin Holding(d)
  BY WhereQueued
<1>3. \A k \in Hash, x \in Entry :
         x \in ToSet(timeout_hash'[k]) => o_func'[x] # NULL /\ k = o_time'[x] % HASH
  <2>1. \A k \in Hash, x \in Entry :
         x \in ToSet(timeout_hash[k]) => o_func[x] # NULL /\ k = o_time[x] % HASH
    BY DEF IInv, Entries
  <2> SUFFICES ASSUME NEW k \in Hash, NEW x \in Entry, x \in ToSet(timeout_hash'[k])
               PROVE  o_func'[x] # NULL /\ k = o_time'[x] % HASH
    OBVIOUS
  <2>2. x \in ToSet(timeout_hash[k]) /\ (k = h => x # e)
    BY <1>1, ZenonT(60)
  <2>3. x # e
    BY <2>1, <2>2
  <2> QED BY <1>1, <2>1, <2>2, <2>3
<1>4. \A x \in Entry : o_func'[x] # NULL => x \in ToSet(Queue(o_time[x])')
  <2>1. \A x \in Entry : o_func'[x] # NULL => x \in ToSet(timeout_hash'[o_time'[x] % HASH])
    BY <1>1, WhereQueued
  <2> QED BY <2>1 DEF Queue
<1>5. \A x \in ToSet(timeout_free_list') : o_func'[x] = NULL
  <2>1. \A x \in ToSet(timeout_free_list) : x \in Entry /\ o_func[x] = NULL
    BY DEF ToSet, IInv, Entries, TypeOK
  <2> QED BY <1>1, <2>1
<1>6. /\ \A d \in Client : \A x \in Holding(d)' :
              o_func'[x] = NULL /\ x \notin ToSet(timeout_free_list')
      /\ \A c1, d \in Client : \A x \in Holding(c1)' \cap Holding(d)' : c1 = d
  <2>1. /\ \A d \in Client : \A x \in Holding(d) :
                x \in Entry /\ o_func[x] = NULL /\ x \notin ToSet(timeout_free_list)
        /\ \A c1, d \in Client : \A x \in Holding(c1) \cap Holding(d) : c1 = d
    BY DEF Holding, IInv, TypeOK, Clients, Entries
  <2>2. CASE freed
    <3>1. \A d \in Client : Holding(d)' = Holding(d)
      BY <2>2
    <3>2. ToSet(timeout_free_list') = ToSet(timeout_free_list) \cup {e}
      BY <2>2
    <3> QED BY <1>1, <1>2, <2>1, <3>1, <3>2
  <2>3. CASE ~freed
    <3>1. Holding(c)' = {e} /\ \A d \in Client : d # c => Holding(d)' = Holding(d)
      BY <2>3
    <3>2. ToSet(timeout_free_list') = ToSet(timeout_free_list)
      BY <2>3
    <3>3. \A d \in Client : \A x \in Holding(d)' :
             o_func'[x] = NULL /\ x \notin ToSet(timeout_free_list')
      BY <1>1, <1>2, <2>1, <3>1, <3>2
    <3>4. \A c1, d \in Client : \A x \in Holding(c1)' \cap Holding(d)' : c1 = d
      BY <1>2, <2>1, <3>1
    <3> QED BY <3>3, <3>4
  <2> QED BY <2>2, <2>3
<1>7. \A x \in Entry : \/ x \in ToSet(timeout_free_list') \/ o_func'[x] # NULL
                       \/ \E d \in Client : x \in Holding(d)'
  <2> TAKE x \in Entry
  <2>1. CASE x = e
    BY <1>1, <2>1
  <2>2. CASE x # e
    <3>1. \/ x \in ToSet(timeout_free_list) \/ o_func[x] # NULL
          \/ \E d \in Client : x \in Holding(d)
      BY DEF IInv, Entries
    <3>2. \A d \in Client : x \in Holding(d) => x \in Holding(d)'
      <4>1. Holding(c) # {} => freed
        OBVIOUS
      <4> QED BY <4>1
    <3> QED BY <1>1, <2>2, <3>1, <3>2
  <2> QED BY <2>1, <2>2
<1> QED BY <1>1, <1>3, <1>4, <1>5, <1>6, <1>7 DEF Entries

-----------------------------------------------------------------------------
(* The steps of toutset *)

\* toutset takes an entry from the free list.
LEMMA SetGetKeeps ==
    ASSUME IInv, NEW c \in Client, SetGet(c)
    PROVE  IInv'
<1> DEFINE e == Head(timeout_free_list)
<1>1. /\ c \in ProcClient /\ pc[c] = "idle" /\ ~timeout_in_operation /\ ~armed[c]
      /\ timeout_free_list # <<>>
      /\ pc' = [pc EXCEPT ![c] = "got"] /\ tp' = [tp EXCEPT ![c] = e]
      /\ timeout_free_list' = Tail(timeout_free_list)
      /\ UNCHANGED <<abs_ticks, timeout_abs_ticks, timeout_hash, o_time, o_func,
                     timeout_in_operation, calling, ticks, armed>>
  BY DEF SetGet, Step, TakeEntry
<1>2. /\ e \in Entry /\ e # NULL /\ e \in ToSet(timeout_free_list) /\ o_func[e] = NULL
      /\ \A d \in Client : e \notin Holding(d)
      /\ timeout_free_list' \in Seq(Entry) /\ NoRepeat(timeout_free_list')
      /\ ToSet(timeout_free_list') = ToSet(timeout_free_list) \ {e}
  BY <1>1, FreeEntry
<1> HIDE DEF e
<1>3. /\ \A d \in Client : pc'[d] = IF d = c THEN "got" ELSE pc[d]
      /\ \A d \in Client : tp'[d] = IF d = c THEN e ELSE tp[d]
  BY <1>1 DEF IInv, TypeOK
<1>4. \A d \in Client : Holding(d)' = IF d = c THEN {e} ELSE Holding(d)
  BY <1>3 DEF Holding
<1>5. TypeOK'
  BY <1>1, <1>2 DEF IInv, TypeOK
<1>6. Entries'
  <2>1. Holding(c) = {}
    BY <1>1 DEF Holding
  <2> QED BY <1>1, <1>2, <1>4, <2>1 DEF IInv, Entries, Queue
<1>7. Clients'
  <2>1. \A x \in Entry : o_func[x] # c
    BY <1>1, Constants DEF IInv, Clients
  <2>2. \A x \in Entry : o_func[x] # NULL => o_func[x] \in Client
    BY DEF IInv, TypeOK
  <2> QED BY <1>1, <1>2, <1>3, <2>1, <2>2 DEF IInv, Clients
<1>8. Resets'
  BY <1>1, <1>3 DEF IInv, Resets
<1> QED BY <1>5, <1>6, <1>7, <1>8 DEF IInv

\* toutset computes the tick.
LEMMA SetTimeKeeps ==
    ASSUME IInv, NEW c \in Client, SetTime(c)
    PROVE  IInv'
<1>1. PICK n \in 1 .. MaxTicks : ticks' = [ticks EXCEPT ![c] = (abs_ticks + n) % W]
  BY DEF SetTime
<1>2. (abs_ticks + n) % W \in Tick
  BY Ahead DEF IInv
<1>3. /\ c \in ProcClient /\ pc[c] = "got" /\ pc' = [pc EXCEPT ![c] = "timed"]
      /\ UNCHANGED <<abs_ticks, timeout_abs_ticks, timeout_hash, timeout_free_list, o_time,
                     o_func, timeout_in_operation, calling, tp, armed>>
  BY DEF SetTime, Step
<1>4. /\ \A d \in Client : pc'[d] = IF d = c THEN "timed" ELSE pc[d]
      /\ \A d \in Client : d # c => ticks'[d] = ticks[d]
  BY <1>1, <1>3 DEF IInv, TypeOK
<1>5. \A d \in Client : Holding(d)' = Holding(d)
  BY <1>3, <1>4 DEF Holding
<1>6. TypeOK'
  BY <1>1, <1>2, <1>3 DEF IInv, TypeOK, Tick
<1>7. Entries'
  BY <1>3, <1>5 DEF IInv, Entries, Queue
<1>8. Clients'
  BY <1>3, <1>4 DEF IInv, Clients
<1>9. Resets'
  BY <1>3, <1>4 DEF IInv, Resets
<1> QED BY <1>6, <1>7, <1>8, <1>9 DEF IInv

\* An entry that was free, or in the hands of c, enters the queue of its tick.
LEMMA InsertKeeps ==
    ASSUME IInv, NEW c \in Client, NEW e \in Entry, NEW t \in Tick, Insert(e, c, t),
           o_func[e] = NULL, ~armed[c], e # NULL,
           pc'[c] = "idle", \A d \in Client : d # c => pc'[d] = pc[d] /\ ticks'[d] = ticks[d],
           pc' \in [Client -> {"idle", "got", "timed", "reset", "unlinked"}],
           ticks' \in [Client -> Tick], tp' = [tp EXCEPT ![c] = e],
           timeout_free_list' \in Seq(Entry), NoRepeat(timeout_free_list'),
           ToSet(timeout_free_list') = ToSet(timeout_free_list) \ {e},
           Holding(c) \subseteq {e}, \A d \in Client : d # c => e \notin Holding(d),
           c \in ProcClient => ~timeout_in_operation,
           UNCHANGED <<abs_ticks, timeout_abs_ticks, timeout_in_operation, calling>>
    PROVE  IInv'
<1>1. /\ t % HASH \in Hash
      /\ timeout_hash' \in [Hash -> Seq(Entry)]
      /\ \A h \in Hash :
            /\ NoRepeat(timeout_hash'[h])
            /\ ToSet(timeout_hash'[h]) =
                  IF h = t % HASH THEN ToSet(timeout_hash[h]) \cup {e} ELSE ToSet(timeout_hash[h])
      /\ o_time' \in [Entry -> Tick] /\ o_func' \in [Entry -> Client \cup {NULL}]
      /\ armed' \in [Client -> BOOLEAN]
      /\ \A x \in Entry : o_time'[x] = IF x = e THEN t ELSE o_time[x]
      /\ \A x \in Entry : o_func'[x] = IF x = e THEN c ELSE o_func[x]
      /\ \A d \in Client : armed'[d] = IF d = c THEN TRUE ELSE armed[d]
  BY InsertShape
<1>2. /\ \A d \in Client : tp'[d] = IF d = c THEN e ELSE tp[d]
      /\ tp' \in [Client -> Entry \cup {NULL}]
  BY DEF IInv, TypeOK
<1>3. \A d \in Client : Holding(d)' = IF d = c THEN {} ELSE Holding(d)
  BY <1>2 DEF Holding
<1>4. c # NULL /\ \A x \in Entry : o_func[x] # c
  BY Constants DEF IInv, Clients
<1>5. TypeOK'
  BY <1>1, <1>2 DEF IInv, TypeOK, Tick, Hash
<1>6. Entries'
  <2>1. \A h \in Hash, x \in Entry :
           x \in ToSet(timeout_hash'[h]) => o_func'[x] # NULL /\ h = o_time'[x] % HASH
    BY <1>1, <1>4 DEF IInv, Entries
  <2>2. \A x \in Entry : o_func'[x] # NULL => x \in ToSet(timeout_hash'[o_time'[x] % HASH])
    <3> SUFFICES ASSUME NEW x \in Entry, o_func'[x] # NULL
                 PROVE  x \in ToSet(timeout_hash'[o_time'[x] % HASH])
      OBVIOUS
    <3>1. CASE x = e
      BY <1>1, <3>1
    <3>2. CASE x # e
      BY <1>1, <3>2, WhereQueued, SMTT(40)
    <3> QED BY <3>1, <3>2
  <2>3. \A x \in Entry : o_func'[x] # NULL => x \in ToSet(Queue(o_time[x])')
    BY <2>2 DEF Queue
  <2>4. \A x \in ToSet(timeout_free_list') : o_func'[x] = NULL
    <3>1. \A x \in ToSet(timeout_free_list') : x \in Entry
      BY DEF ToSet
    <3> QED BY <1>1, <3>1 DEF IInv, Entries
  <2>5. /\ \A d \in Client : \A x \in Holding(d)' :
                o_func'[x] = NULL /\ x \notin ToSet(timeout_free_list')
        /\ \A c1, d \in Client : \A x \in Holding(c1)' \cap Holding(d)' : c1 = d
    <3>1. \A d \in Client : \A x \in Holding(d) : d # c => x # NULL /\ x \in Entry /\ x # e
      BY DEF Holding, IInv, TypeOK, Clients
    <3>2. \A d \in Client : \A x \in Holding(d)' : d # c /\ x \in Holding(d)
      BY <1>3
    <3>3. \A d \in Client : \A x \in Holding(d) : o_func[x] = NULL /\ x \notin ToSet(timeout_free_list)
      BY DEF IInv, Entries
    <3>4. \A c1, d \in Client : \A x \in Holding(c1) \cap Holding(d) : c1 = d
      BY DEF IInv, Entries
    <3> QED BY <1>1, <3>1, <3>2, <3>3, <3>4
  <2>6. \A x \in Entry : \/ x \in ToSet(timeout_free_list') \/ o_func'[x] # NULL
                         \/ \E d \in Client : x \in Holding(d)'
    <3> TAKE x \in Entry
    <3>1. CASE x = e
      BY <1>1, <1>4, <3>1
    <3>2. CASE x # e
      <4>1. \/ x \in ToSet(timeout_free_list) \/ o_func[x] # NULL
            \/ \E d \in Client : x \in Holding(d)
        BY DEF IInv, Entries
      <4>2. \A d \in Client : x \in Holding(d) => x \in Holding(d)'
        BY <1>3, <3>2
      <4> QED BY <1>1, <3>2, <4>1, <4>2
    <3> QED BY <3>1, <3>2
  <2> QED BY <1>1, <2>1, <2>3, <2>4, <2>5, <2>6 DEF Entries
<1>7. Clients'
  <2>1. /\ \A d \in Client : pc'[d] # "idle" => d \in ProcClient /\ tp'[d] # NULL
        /\ \A d \in Client : pc'[d] \in {"got", "timed", "unlinked"} => ~armed'[d]
    BY <1>1, <1>2, ZenonT(60) DEF IInv, Clients
  <2>2. \A x \in Entry : o_func'[x] # NULL => tp'[o_func'[x]] = x /\ armed'[o_func'[x]]
    <3> SUFFICES ASSUME NEW x \in Entry, o_func'[x] # NULL
                 PROVE  tp'[o_func'[x]] = x /\ armed'[o_func'[x]]
      OBVIOUS
    <3>1. CASE x = e
      BY <1>1, <1>2, <3>1, ZenonT(60)
    <3>2. CASE x # e
      <4>1. o_func'[x] = o_func[x] /\ o_func[x] \in Client /\ o_func[x] # c
        BY <1>1, <1>4, <3>2 DEF IInv, TypeOK
      <4>2. tp[o_func[x]] = x /\ armed[o_func[x]]
        BY <4>1 DEF IInv, Clients
      <4> QED BY <1>1, <1>2, <4>1, <4>2
    <3> QED BY <3>1, <3>2
  <2>3. \A d \in Client : armed'[d] => calling = d \/ \E x \in Entry : o_func'[x] = d
    <3> SUFFICES ASSUME NEW d \in Client, armed'[d], calling # d
                 PROVE  \E x \in Entry : o_func'[x] = d
      OBVIOUS
    <3>1. CASE d = c
      BY <1>1, <3>1
    <3>2. CASE d # c
      <4>1. PICK x \in Entry : o_func[x] = d
        BY <1>1, <3>2 DEF IInv, Clients
      <4>2. x # e
        BY <4>1, Constants
      <4> QED BY <1>1, <4>1, <4>2
    <3> QED BY <3>1, <3>2
  <2>4. \A d \in ProcClient : calling = d => armed'[d] /\ \A x \in Entry : o_func'[x] # d
    <3> SUFFICES ASSUME NEW d \in ProcClient, calling = d
                 PROVE  armed'[d] /\ \A x \in Entry : o_func'[x] # d
      OBVIOUS
    <3>1. d \in Client /\ d # NULL /\ timeout_in_operation
      BY Constants DEF IInv, Clients, Client
    <3>2. d # c
      BY <3>1
    <3>3. armed[d] /\ \A x \in Entry : o_func[x] # d
      BY DEF IInv, Clients
    <3> QED BY <1>1, <3>1, <3>2, <3>3
  <2>5. calling' # NULL => timeout_in_operation'
    BY DEF IInv, Clients
  <2> QED BY <2>1, <2>2, <2>3, <2>4, <2>5 DEF Clients
<1>8. Resets'
  <2> SUFFICES ASSUME NEW d \in Client, pc'[d] = "reset"
               PROVE  ticks'[d] \in Hash /\ (o_func'[tp'[d]] = d => ticks'[d] = o_time'[tp'[d]] % HASH)
    BY DEF Resets
  <2>1. d # c /\ pc[d] = "reset" /\ tp'[d] = tp[d] /\ ticks'[d] = ticks[d]
    BY <1>2
  <2>2. tp[d] \in Entry
    BY <2>1 DEF IInv, TypeOK, Clients
  <2>3. o_func'[tp[d]] = d => tp[d] # e /\ o_func[tp[d]] = d
    BY <1>1, <2>1, <2>2
  <2> QED BY <1>1, <2>1, <2>2, <2>3 DEF IInv, Resets
<1> QED BY <1>5, <1>6, <1>7, <1>8 DEF IInv

\* toutset puts its entry in the queue of its tick.
LEMMA SetInsertKeeps ==
    ASSUME IInv, NEW c \in Client, SetInsert(c)
    PROVE  IInv'
<1>1. /\ c \in ProcClient /\ pc[c] = "timed" /\ ~timeout_in_operation
      /\ pc' = [pc EXCEPT ![c] = "idle"] /\ ticks' = [ticks EXCEPT ![c] = 0]
      /\ Insert(tp[c], c, ticks[c])
      /\ UNCHANGED <<abs_ticks, timeout_abs_ticks, timeout_free_list, timeout_in_operation, calling, tp>>
  BY DEF SetInsert, Step
<1>2. tp[c] \in Entry /\ tp[c] # NULL /\ ~armed[c] /\ ticks[c] \in Tick
  BY <1>1 DEF IInv, TypeOK, Clients, Tick
<1>3. Holding(c) = {tp[c]}
  BY <1>1 DEF Holding
<1>4. /\ o_func[tp[c]] = NULL /\ tp[c] \notin ToSet(timeout_free_list)
      /\ \A d \in Client : d # c => tp[c] \notin Holding(d)
  BY <1>3 DEF IInv, Entries
<1>5. /\ tp' = [tp EXCEPT ![c] = tp[c]]
      /\ ticks' \in [Client -> Tick]
      /\ timeout_free_list' \in Seq(Entry) /\ NoRepeat(timeout_free_list')
      /\ pc'[c] = "idle" /\ \A d \in Client : d # c => pc'[d] = pc[d] /\ ticks'[d] = ticks[d]
      /\ pc' \in [Client -> {"idle", "got", "timed", "reset", "unlinked"}]
  BY <1>1, Constants DEF IInv, TypeOK, Tick, Entries
<1>6. /\ ToSet(timeout_free_list') = ToSet(timeout_free_list) \ {tp[c]}
      /\ Holding(c) \subseteq {tp[c]} /\ (c \in ProcClient => ~timeout_in_operation)
      /\ UNCHANGED <<abs_ticks, timeout_abs_ticks, timeout_in_operation, calling>>
  BY <1>1, <1>3, <1>4
<1> DEFINE e == tp[c]
           t == ticks[c]
<1>7. /\ e \in Entry /\ t \in Tick /\ Insert(e, c, t) /\ o_func[e] = NULL /\ e # NULL
      /\ tp' = [tp EXCEPT ![c] = e]
      /\ ToSet(timeout_free_list') = ToSet(timeout_free_list) \ {e} /\ Holding(c) \subseteq {e}
      /\ \A d \in Client : d # c => e \notin Holding(d)
  BY <1>1, <1>2, <1>4, <1>5, <1>6
<1> HIDE DEF e, t
<1> QED BY <1>2, <1>5, <1>6, <1>7, InsertKeeps

\* An interrupt routine sets a timeout at once.
LEMMA DeviceSetKeeps ==
    ASSUME IInv, NEW c \in Client, DeviceSet(c)
    PROVE  IInv'
<1> DEFINE e == Head(timeout_free_list)
<1>1. /\ c \in DevClient /\ c \notin ProcClient /\ ~armed[c] /\ timeout_free_list # <<>>
      /\ tp' = [tp EXCEPT ![c] = e] /\ timeout_free_list' = Tail(timeout_free_list)
      /\ UNCHANGED <<abs_ticks, timeout_abs_ticks, timeout_in_operation, calling, pc, ticks>>
  BY Constants DEF DeviceSet, TakeEntry
<1>2. /\ e \in Entry /\ e # NULL /\ o_func[e] = NULL /\ \A d \in Client : e \notin Holding(d)
      /\ timeout_free_list' \in Seq(Entry) /\ NoRepeat(timeout_free_list')
      /\ ToSet(timeout_free_list') = ToSet(timeout_free_list) \ {e}
  BY <1>1, FreeEntry
<1> HIDE DEF e
<1>3. tp'[c] = e
  BY <1>1 DEF IInv, TypeOK
<1>4. PICK n \in 1 .. MaxTicks : Insert(e, c, (abs_ticks + n) % W)
  BY <1>3 DEF DeviceSet
<1>5. (abs_ticks + n) % W \in Tick
  BY Ahead DEF IInv
<1>6. pc[c] = "idle" /\ Holding(c) = {}
  BY <1>1 DEF IInv, Clients, Holding
<1>7. /\ pc' \in [Client -> {"idle", "got", "timed", "reset", "unlinked"}]
      /\ ticks' \in [Client -> Tick]
      /\ pc'[c] = "idle" /\ \A d \in Client : d # c => pc'[d] = pc[d] /\ ticks'[d] = ticks[d]
  BY <1>1, <1>6 DEF IInv, TypeOK, Tick
<1> QED BY <1>1, <1>2, <1>4, <1>5, <1>6, <1>7, InsertKeeps

-----------------------------------------------------------------------------
(* The steps of toutreset *)

\* What a step that leaves the entries, the queues and the free list alone keeps of Entries.
LEMMA EntriesStay ==
    ASSUME Entries, \A d \in Client : Holding(d)' = Holding(d),
           UNCHANGED <<timeout_hash, timeout_free_list, o_time, o_func>>
    PROVE  Entries'
BY DEF Entries, Queue

\* toutreset reads the tick of the entry, which may have another owner by now.
LEMMA ResetReadKeeps ==
    ASSUME IInv, NEW c \in Client, ResetRead(c)
    PROVE  IInv'
<1>1. /\ tp[c] # NULL /\ c \in ProcClient /\ pc[c] = "idle"
      /\ pc' = [pc EXCEPT ![c] = "reset"] /\ ticks' = [ticks EXCEPT ![c] = o_time[tp[c]] % HASH]
      /\ UNCHANGED <<abs_ticks, timeout_abs_ticks, timeout_hash, timeout_free_list, o_time,
                     o_func, timeout_in_operation, calling, tp, armed>>
  BY DEF ResetRead, Step
<1>2. o_time[tp[c]] % HASH \in Hash /\ o_time[tp[c]] % HASH \in Tick
  <2>1. o_time[tp[c]] \in Int
    BY <1>1, Constants DEF IInv, TypeOK
  <2> QED BY <2>1, Remainder, Constants
<1>3. /\ \A d \in Client : pc'[d] = IF d = c THEN "reset" ELSE pc[d]
      /\ \A d \in Client : ticks'[d] = IF d = c THEN o_time[tp[c]] % HASH ELSE ticks[d]
  BY <1>1 DEF IInv, TypeOK
<1>4. \A d \in Client : Holding(d)' = Holding(d)
  BY <1>1, <1>3 DEF Holding
<1>5. TypeOK'
  BY <1>1, <1>2 DEF IInv, TypeOK, Tick
<1>6. Entries'
  BY <1>1, <1>4, EntriesStay DEF IInv
<1>7. Clients'
  BY <1>1, <1>3 DEF IInv, Clients
<1>8. Resets'
  BY <1>1, <1>2, <1>3 DEF IInv, Resets
<1> QED BY <1>5, <1>6, <1>7, <1>8 DEF IInv

\* toutreset takes an entry out of its queue when it is still that of the client, and
\* otherwise changes nothing but the program counter of the client.
LEMMA UnlinkKeeps ==
    ASSUME IInv, NEW c \in Client, NEW e \in Entry, NEW h \in Hash, Unlink(c, e, h),
           tp[c] = e, o_func[e] = c => h = o_time[e] % HASH, Holding(c) = {},
           ticks' \in [Client -> Tick], \A d \in Client : d # c => ticks'[d] = ticks[d],
           c \in ProcClient => ~timeout_in_operation,
           UNCHANGED <<abs_ticks, timeout_abs_ticks, o_time, timeout_in_operation, calling, tp>>
    PROVE  IInv'
<1>1. /\ c # NULL /\ e # NULL
      /\ armed' \in [Client -> BOOLEAN] /\ \A d \in Client : armed'[d] = IF d = c THEN FALSE ELSE armed[d]
  BY Constants DEF Unlink, IInv, TypeOK
<1>2. \A x \in Entry : o_func[x] = c => x = e
  BY <1>1 DEF IInv, Clients
<1>3. \A d \in ProcClient : calling = d => d # c /\ d \in Client
  BY Constants DEF IInv, Clients, Client
<1>4. CASE o_func[e] # c
  <2>1. /\ UNCHANGED <<timeout_hash, o_func, timeout_free_list>>
        /\ pc' = [pc EXCEPT ![c] = "idle"]
    BY <1>4 DEF Unlink
  <2>2. \A d \in Client : pc'[d] = IF d = c THEN "idle" ELSE pc[d]
    BY <2>1 DEF IInv, TypeOK
  <2>3. \A d \in Client : Holding(d)' = Holding(d)
    BY <2>2 DEF Holding
  <2>4. TypeOK'
    BY <1>1, <2>1 DEF IInv, TypeOK, Tick
  <2>5. Entries'
    BY <2>1, <2>3, EntriesStay DEF IInv
  <2>6. Clients'
    <3>1. \A x \in Entry : o_func[x] # c
      BY <1>2, <1>4
    <3>2. \A x \in Entry : o_func[x] # NULL => o_func[x] \in Client
      BY DEF IInv, TypeOK
    <3>3. /\ \A d \in Client : pc'[d] # "idle" => d \in ProcClient /\ tp'[d] # NULL
          /\ \A d \in Client : pc'[d] \in {"got", "timed", "unlinked"} => ~armed'[d]
      BY <1>1, <2>2 DEF IInv, Clients
    <3>4. \A x \in Entry : o_func'[x] # NULL => tp'[o_func'[x]] = x /\ armed'[o_func'[x]]
      BY <1>1, <2>1, <3>1, <3>2 DEF IInv, Clients
    <3>5. \A d \in Client : armed'[d] => calling' = d \/ \E x \in Entry : o_func'[x] = d
      BY <1>1, <2>1 DEF IInv, Clients
    <3>6. \A d \in ProcClient : calling' = d => armed'[d] /\ \A x \in Entry : o_func'[x] # d
      BY <1>1, <1>3, <2>1 DEF IInv, Clients
    <3>7. calling' # NULL => timeout_in_operation'
      BY DEF IInv, Clients
    <3> QED BY <3>3, <3>4, <3>5, <3>6, <3>7 DEF Clients
  <2>7. Resets'
    BY <2>1, <2>2 DEF IInv, Resets
  <2> QED BY <2>4, <2>5, <2>6, <2>7 DEF IInv
<1>5. CASE o_func[e] = c
  <2>1. /\ e \notin ToSet(timeout_free_list) /\ \A d \in Client : e \notin Holding(d)
        /\ e \in ToSet(timeout_hash[h])
    BY <1>1, <1>5, WhereQueued
  <2>2. /\ timeout_hash' = [timeout_hash EXCEPT ![h] = RemoveFirst(@, e)]
        /\ o_func' = [o_func EXCEPT ![e] = NULL]
        /\ pc' = [pc EXCEPT ![c] = IF c \in ProcClient THEN "unlinked" ELSE "idle"]
        /\ IF c \in DevClient THEN Put(e) ELSE UNCHANGED timeout_free_list
    BY <1>5, <2>1 DEF Unlink
  <2>3. /\ timeout_hash' \in [Hash -> Seq(Entry)]
        /\ \A k \in Hash :
              /\ NoRepeat(timeout_hash'[k])
              /\ ToSet(timeout_hash'[k]) =
                    IF k = h THEN ToSet(timeout_hash[k]) \ {e} ELSE ToSet(timeout_hash[k])
        /\ o_func' \in [Entry -> Client \cup {NULL}]
        /\ \A x \in Entry : o_func'[x] = IF x = e THEN NULL ELSE o_func[x]
    BY <2>2, RemoveShape
  <2>4. /\ \A d \in Client : pc'[d] = IF d # c THEN pc[d]
                                      ELSE IF c \in ProcClient THEN "unlinked" ELSE "idle"
        /\ pc' \in [Client -> {"idle", "got", "timed", "reset", "unlinked"}]
    BY <2>2 DEF IInv, TypeOK
  <2>5. /\ timeout_free_list' \in Seq(Entry) /\ NoRepeat(timeout_free_list')
        /\ ToSet(timeout_free_list') =
              IF c \in DevClient THEN ToSet(timeout_free_list) \cup {e} ELSE ToSet(timeout_free_list)
    <3>1. timeout_free_list \in Seq(Entry) /\ NoRepeat(timeout_free_list)
      BY DEF IInv, TypeOK, Entries
    <3> QED BY <2>1, <2>2, <3>1, PutShape DEF IInv
  <2>6. \A d \in Client : Holding(d)' = IF d = c /\ c \in ProcClient THEN {e} ELSE Holding(d)
    BY <2>4 DEF Holding
  <2>7. TypeOK'
    BY <1>1, <2>3, <2>4, <2>5 DEF IInv, TypeOK, Tick, Hash
  <2>8. Entries'
    <3> DEFINE freed == c \notin ProcClient
    <3>1. /\ freed \in BOOLEAN /\ (c \in DevClient <=> freed)
      BY Constants DEF Client
    <3>2. /\ ToSet(timeout_free_list') = ToSet(timeout_free_list) \cup (IF freed THEN {e} ELSE {})
          /\ \A d \in Client : Holding(d)' = IF d = c /\ ~freed THEN {e} ELSE Holding(d)
      BY <2>5, <2>6, <3>1
    <3>3. o_func[e] # NULL /\ h = o_time[e] % HASH
      BY <1>1, <1>5
    <3> HIDE DEF freed
    <3> QED BY <2>2, <2>5, <3>1, <3>2, <3>3, EntryLeaves, ZenonT(60)
  <2>9. Clients'
    <3>1. \A x \in Entry : o_func'[x] # NULL => o_func'[x] = o_func[x] /\ o_func[x] \in Client /\ o_func[x] # c
      BY <1>2, <2>3 DEF IInv, TypeOK
    <3>2. \A x \in Entry : o_func'[x] # NULL => tp'[o_func'[x]] = x /\ armed'[o_func'[x]]
      BY <1>1, <3>1 DEF IInv, Clients
    <3>3. /\ \A d \in Client : pc'[d] # "idle" => d \in ProcClient /\ tp'[d] # NULL
          /\ \A d \in Client : pc'[d] \in {"got", "timed", "unlinked"} => ~armed'[d]
      BY <1>1, <2>4, ZenonT(60) DEF IInv, Clients
    <3>4. \A d \in Client : armed'[d] => calling = d \/ \E x \in Entry : o_func'[x] = d
      <4> SUFFICES ASSUME NEW d \in Client, armed'[d], calling # d
                   PROVE  \E x \in Entry : o_func'[x] = d
        OBVIOUS
      <4>1. d # c /\ armed[d]
        BY <1>1
      <4>2. PICK x \in Entry : o_func[x] = d
        BY <4>1 DEF IInv, Clients
      <4> QED BY <1>5, <2>3, <4>1, <4>2
    <3>5. \A d \in ProcClient : calling = d => armed'[d] /\ \A x \in Entry : o_func'[x] # d
      <4> SUFFICES ASSUME NEW d \in ProcClient, calling = d
                   PROVE  armed'[d] /\ \A x \in Entry : o_func'[x] # d
        OBVIOUS
      <4>1. d # c /\ d \in Client /\ armed[d] /\ \A x \in Entry : o_func[x] # d
        BY <1>3 DEF IInv, Clients
      <4>2. d # NULL
        BY <4>1, Constants
      <4> QED BY <1>1, <2>3, <4>1, <4>2
    <3>6. calling' # NULL => timeout_in_operation'
      BY DEF IInv, Clients
    <3> QED BY <3>2, <3>3, <3>4, <3>5, <3>6 DEF Clients
  <2>10. Resets'
    <3> SUFFICES ASSUME NEW d \in Client, pc'[d] = "reset"
                 PROVE  ticks'[d] \in Hash /\ (o_func'[tp'[d]] = d => ticks'[d] = o_time'[tp'[d]] % HASH)
      BY DEF Resets
    <3>1. d # c /\ pc[d] = "reset" /\ tp'[d] = tp[d] /\ ticks'[d] = ticks[d] /\ d # NULL
      BY <2>4, Constants
    <3>2. tp[d] \in Entry
      BY <3>1 DEF IInv, TypeOK, Clients
    <3>3. o_func'[tp[d]] = d => o_func[tp[d]] = d
      BY <2>3, <3>1, <3>2
    <3> QED BY <3>1, <3>2, <3>3 DEF IInv, Resets
  <2> QED BY <2>7, <2>8, <2>9, <2>10 DEF IInv
<1> QED BY <1>4, <1>5

\* toutreset takes the entry out, if it is still its own.
LEMMA ResetUnlinkKeeps ==
    ASSUME IInv, NEW c \in Client, ResetUnlink(c)
    PROVE  IInv'
<1> DEFINE e == tp[c]
           h == ticks[c]
<1>1. /\ c \in ProcClient /\ pc[c] = "reset" /\ ~timeout_in_operation /\ Unlink(c, e, h)
      /\ ticks' = [ticks EXCEPT ![c] = 0]
      /\ UNCHANGED <<abs_ticks, timeout_abs_ticks, o_time, timeout_in_operation, calling, tp>>
  BY DEF ResetUnlink
<1>2. /\ e \in Entry /\ h \in Hash /\ tp[c] = e /\ (o_func[e] = c => h = o_time[e] % HASH)
      /\ Holding(c) = {}
  BY <1>1 DEF IInv, TypeOK, Clients, Resets, Holding
<1>3. ticks' \in [Client -> Tick] /\ \A d \in Client : d # c => ticks'[d] = ticks[d]
  BY <1>1, Constants DEF IInv, TypeOK, Tick
<1> HIDE DEF e, h
<1> QED BY <1>1, <1>2, <1>3, UnlinkKeeps

\* An interrupt routine resets its timeout at once.
LEMMA DeviceResetKeeps ==
    ASSUME IInv, NEW c \in Client, DeviceReset(c)
    PROVE  IInv'
<1> DEFINE e == tp[c]
           h == o_time[e] % HASH
<1>1. /\ c \in DevClient /\ c \notin ProcClient /\ e # NULL /\ Unlink(c, e, h)
      /\ UNCHANGED <<abs_ticks, timeout_abs_ticks, o_time, timeout_in_operation, calling, tp, ticks>>
  BY Constants DEF DeviceReset
<1>2. e \in Entry /\ tp[c] = e /\ (o_func[e] = c => h = o_time[e] % HASH)
  BY <1>1 DEF IInv, TypeOK
<1>3. h \in Hash
  <2>1. o_time[e] \in Int
    BY <1>2, Constants DEF IInv, TypeOK
  <2> QED BY <2>1, Remainder
<1>4. Holding(c) = {}
  BY <1>1 DEF IInv, Clients, Holding
<1>5. ticks' \in [Client -> Tick] /\ \A d \in Client : d # c => ticks'[d] = ticks[d]
  BY <1>1 DEF IInv, TypeOK, Tick
<1> HIDE DEF e, h
<1> QED BY <1>1, <1>2, <1>3, <1>4, <1>5, UnlinkKeeps

\* toutreset frees the entry.
LEMMA ResetFreeKeeps ==
    ASSUME IInv, NEW c \in Client, ResetFree(c)
    PROVE  IInv'
<1> DEFINE e == tp[c]
<1>1. /\ c \in ProcClient /\ pc[c] = "unlinked" /\ pc' = [pc EXCEPT ![c] = "idle"] /\ Put(e)
      /\ UNCHANGED <<abs_ticks, timeout_abs_ticks, timeout_hash, o_time, o_func,
                     timeout_in_operation, calling, tp, ticks, armed>>
  BY DEF ResetFree, Step
<1>2. e \in Entry /\ e # NULL /\ Holding(c) = {e}
  BY <1>1 DEF IInv, TypeOK, Clients, Holding
<1>3. /\ o_func[e] = NULL /\ e \notin ToSet(timeout_free_list)
      /\ \A d \in Client : d # c => e \notin Holding(d)
  BY <1>2 DEF IInv, Entries
<1> HIDE DEF e
<1>4. /\ timeout_free_list' \in Seq(Entry) /\ NoRepeat(timeout_free_list')
      /\ ToSet(timeout_free_list') = ToSet(timeout_free_list) \cup {e}
  BY <1>1, <1>2, <1>3, PutShape DEF IInv, Entries
<1>5. \A d \in Client : pc'[d] = IF d = c THEN "idle" ELSE pc[d]
  BY <1>1 DEF IInv, TypeOK
<1>6. \A d \in Client : Holding(d)' = IF d = c THEN {} ELSE Holding(d)
  BY <1>1, <1>5 DEF Holding
<1>7. TypeOK'
  BY <1>1, <1>4 DEF IInv, TypeOK
<1>8. Entries'
  <2>1. /\ \A d \in Client : \A x \in Holding(d)' :
                o_func'[x] = NULL /\ x \notin ToSet(timeout_free_list')
        /\ \A c1, d \in Client : \A x \in Holding(c1)' \cap Holding(d)' : c1 = d
    <3>1. /\ \A d \in Client : \A x \in Holding(d) :
                  o_func[x] = NULL /\ x \notin ToSet(timeout_free_list)
          /\ \A c1, d \in Client : \A x \in Holding(c1) \cap Holding(d) : c1 = d
      BY DEF IInv, Entries
    <3> QED BY <1>1, <1>3, <1>4, <1>6, <3>1
  <2>2. \A x \in Entry : \/ x \in ToSet(timeout_free_list') \/ o_func'[x] # NULL
                         \/ \E d \in Client : x \in Holding(d)'
    <3> TAKE x \in Entry
    <3>1. \/ x \in ToSet(timeout_free_list) \/ o_func[x] # NULL
          \/ \E d \in Client : x \in Holding(d)
      BY DEF IInv, Entries
    <3>2. \A d \in Client : x \in Holding(d) => x = e \/ x \in Holding(d)'
      BY <1>2, <1>6
    <3> QED BY <1>1, <1>4, <3>1, <3>2
  <2>3. \A x \in ToSet(timeout_free_list') : o_func'[x] = NULL
    BY <1>1, <1>3, <1>4 DEF IInv, Entries
  <2> QED BY <1>1, <1>4, <2>1, <2>2, <2>3 DEF IInv, Entries, Queue
<1>9. Clients'
  BY <1>1, <1>5 DEF IInv, Clients
<1>10. Resets'
  BY <1>1, <1>5 DEF IInv, Resets
<1> QED BY <1>7, <1>8, <1>9, <1>10 DEF IInv

-----------------------------------------------------------------------------
(* The steps of the clock *)

\* A tick that is only counted.
LEMMA TickCountedKeeps == IInv /\ TickCounted => IInv'
<1> SUFFICES ASSUME IInv, TickCounted PROVE IInv'
  OBVIOUS
<1>1. /\ abs_ticks' = (abs_ticks + 1) % W
      /\ UNCHANGED <<timeout_abs_ticks, timeout_hash, timeout_free_list, o_time, o_func,
                     timeout_in_operation, calling, pc, tp, ticks, armed>>
  BY DEF TickCounted
<1>2. abs_ticks' \in Tick
  BY <1>1, Ahead, TimeoutAssumption DEF IInv
<1>3. TypeOK'
  BY <1>1, <1>2 DEF IInv, TypeOK, Tick
<1>4. \A d \in Client : Holding(d)' = Holding(d)
  BY <1>1 DEF Holding
<1>5. Entries'
  BY <1>1, <1>4, EntriesStay DEF IInv
<1> QED BY <1>1, <1>3, <1>5 DEF IInv, Clients, Resets

\* A tick that begins a scan.
LEMMA TickScansKeeps == IInv /\ TickScans => IInv'
<1> SUFFICES ASSUME IInv, TickScans PROVE IInv'
  OBVIOUS
<1>1. /\ abs_ticks' = (abs_ticks + 1) % W /\ timeout_in_operation' = TRUE
      /\ UNCHANGED <<timeout_abs_ticks, timeout_hash, timeout_free_list, o_time, o_func,
                     calling, pc, tp, ticks, armed>>
  BY DEF TickScans
<1>2. abs_ticks' \in Tick
  BY <1>1, Ahead, TimeoutAssumption DEF IInv
<1>3. TypeOK'
  BY <1>1, <1>2 DEF IInv, TypeOK, Tick
<1>4. \A d \in Client : Holding(d)' = Holding(d)
  BY <1>1 DEF Holding
<1>5. Entries'
  BY <1>1, <1>4, EntriesStay DEF IInv
<1> QED BY <1>1, <1>3, <1>5 DEF IInv, Clients, Resets

\* The entry that the scan takes is due.
LEMMA FirstDue ==
    ASSUME IInv, \E x \in ToSet(Queue(timeout_abs_ticks)) : Due(x)
    PROVE  LET q == Queue(timeout_abs_ticks)
               e == q[SelectInSeq(q, Due)]
           IN  /\ e \in Entry /\ o_time[e] = timeout_abs_ticks
               /\ o_func[e] \in Client /\ o_func[e] # NULL
               /\ timeout_abs_ticks % HASH \in Hash
<1> DEFINE q == Queue(timeout_abs_ticks)
           I == { i \in 1 .. Len(q) : Due(q[i]) }
           e == q[SelectInSeq(q, Due)]
<1>1. timeout_abs_ticks % HASH \in Hash /\ q \in Seq(Entry)
  <2>1. timeout_abs_ticks \in Int
    BY Constants DEF IInv, TypeOK
  <2>2. timeout_abs_ticks % HASH \in Hash
    BY <2>1, Remainder
  <2> QED BY <2>2 DEF Queue, IInv, TypeOK, Hash
<1>2. I \in SUBSET Nat /\ I # {}
  BY <1>1 DEF ToSet
<1>3. Min(I) \in 1 .. Len(q) /\ Due(q[Min(I)])
  <2>1. Min(I) \in I
    <3> HIDE DEF I
    <3> QED BY <1>2, MinIsLeast
  <2> QED BY <2>1
<1>4. SelectInSeq(q, Due) = Min(I)
  BY <1>2 DEF SelectInSeq
<1>5. e \in ToSet(q) /\ e \in Entry /\ o_time[e] = timeout_abs_ticks
  <2>1. e = q[Min(I)]
    BY <1>4
  <2> DEFINE i == Min(I)
  <2>2. q \in Seq(Entry) /\ i \in 1 .. Len(q) /\ Due(q[i]) /\ e = q[i]
    BY <1>1, <1>3, <2>1
  <2> HIDE DEF q, i, e
  <2> QED BY <2>2 DEF Due, ToSet
<1>6. o_func[e] # NULL
  <2> HIDE DEF e
  <2> QED BY <1>1, <1>5 DEF IInv, Entries, Queue
<1>7. o_func[e] \in Client
  <2> HIDE DEF e
  <2> QED BY <1>5, <1>6 DEF IInv, TypeOK
<1> QED BY <1>1, <1>5, <1>6, <1>7

\* The scan takes an entry that is due, or goes on to the next tick.
LEMMA ScanKeeps == IInv /\ Scan => IInv'
<1> SUFFICES ASSUME IInv, Scan PROVE IInv'
  OBVIOUS
<1> DEFINE q == Queue(timeout_abs_ticks)
           e == q[SelectInSeq(q, Due)]
           c == o_func[e]
           h == timeout_abs_ticks % HASH
<1>1. /\ timeout_in_operation /\ calling = NULL
      /\ UNCHANGED <<abs_ticks, o_time, timeout_in_operation, pc, tp, ticks, armed>>
  BY DEF Scan
<1>2. \A d \in Client : Holding(d)' = Holding(d)
  BY <1>1 DEF Holding
<1>3. CASE ~\E x \in ToSet(q) : Due(x)
  <2>1. /\ timeout_abs_ticks' = (timeout_abs_ticks + 1) % W
        /\ UNCHANGED <<timeout_hash, timeout_free_list, o_func, calling>>
    BY <1>3 DEF Scan
  <2>2. timeout_abs_ticks + 1 \in Int
    BY Constants DEF IInv, TypeOK
  <2>3. timeout_abs_ticks' \in Tick
    BY <2>1, <2>2, Remainder
  <2>4. TypeOK'
    BY <1>1, <2>1, <2>3 DEF IInv, TypeOK, Tick
  <2>5. Entries'
    BY <1>1, <1>2, <2>1, EntriesStay DEF IInv
  <2> QED BY <1>1, <2>1, <2>4, <2>5 DEF IInv, Clients, Resets
<1>4. CASE \E x \in ToSet(q) : Due(x)
  <2>1. /\ timeout_hash' = [timeout_hash EXCEPT ![h] = RemoveFirst(@, e)]
        /\ o_func' = [o_func EXCEPT ![e] = NULL]
        /\ calling' = c /\ Put(e) /\ UNCHANGED timeout_abs_ticks
    BY <1>4 DEF Scan
  <2>2. e \in Entry /\ o_time[e] = timeout_abs_ticks /\ c \in Client /\ c # NULL /\ h \in Hash
    BY <1>4, FirstDue
  <2>3. h = o_time[e] % HASH /\ c = o_func[e]
    BY <2>2
  <2> HIDE DEF e, c, h
  <2>4. /\ e \notin ToSet(timeout_free_list) /\ tp[c] = e /\ armed[c]
        /\ \A x \in Entry : o_func[x] = c => x = e
    BY <2>2, <2>3, WhereQueued DEF IInv, Clients
  <2>5. /\ timeout_free_list' \in Seq(Entry) /\ NoRepeat(timeout_free_list')
        /\ ToSet(timeout_free_list') = ToSet(timeout_free_list) \cup {e}
    BY <2>1, <2>2, <2>4, PutShape DEF IInv, Entries
  <2>6. /\ timeout_hash' \in [Hash -> Seq(Entry)]
        /\ o_func' \in [Entry -> Client \cup {NULL}]
        /\ \A x \in Entry : o_func'[x] = IF x = e THEN NULL ELSE o_func[x]
    BY <2>1, <2>2, RemoveShape
  <2>7. TypeOK'
    BY <1>1, <2>1, <2>2, <2>5, <2>6 DEF IInv, TypeOK, Hash
  <2>8. Entries'
    <3> DEFINE freed == TRUE
    <3>1. /\ freed \in BOOLEAN /\ freed /\ o_func[e] # NULL
          /\ ToSet(timeout_free_list') = ToSet(timeout_free_list) \cup (IF freed THEN {e} ELSE {})
          /\ \A d \in Client : Holding(d)' = IF d = c /\ ~freed THEN {e} ELSE Holding(d)
      BY <1>2, <2>2, <2>3, <2>5
    <3> HIDE DEF freed
    <3> QED BY <1>1, <2>1, <2>2, <2>3, <2>5, <3>1, EntryLeaves
  <2>9. Clients'
    <3>1. \A x \in Entry : o_func'[x] # NULL => tp'[o_func'[x]] = x /\ armed'[o_func'[x]]
      BY <1>1, <2>6 DEF IInv, Clients
    <3>2. \A d \in Client : armed'[d] => calling' = d \/ \E x \in Entry : o_func'[x] = d
      <4> SUFFICES ASSUME NEW d \in Client, armed'[d], d # c
                   PROVE  \E x \in Entry : o_func'[x] = d
        BY <2>1
      <4>1. d # NULL /\ armed[d]
        BY <1>1, Constants
      <4>2. PICK x \in Entry : o_func[x] = d
        BY <1>1, <4>1 DEF IInv, Clients
      <4> QED BY <2>3, <2>6, <4>2
    <3>3. \A d \in ProcClient : calling' = d => armed'[d] /\ \A x \in Entry : o_func'[x] # d
      BY <1>1, <2>1, <2>2, <2>4, <2>6
    <3>4. /\ \A d \in Client : pc'[d] # "idle" => d \in ProcClient /\ tp'[d] # NULL
          /\ \A d \in Client : pc'[d] \in {"got", "timed", "unlinked"} => ~armed'[d]
      BY <1>1 DEF IInv, Clients
    <3> QED BY <1>1, <3>1, <3>2, <3>3, <3>4 DEF Clients
  <2>10. Resets'
    <3> SUFFICES ASSUME NEW d \in Client, pc'[d] = "reset"
                 PROVE  ticks'[d] \in Hash /\ (o_func'[tp'[d]] = d => ticks'[d] = o_time'[tp'[d]] % HASH)
      BY DEF Resets
    <3>1. pc[d] = "reset" /\ tp'[d] = tp[d] /\ ticks'[d] = ticks[d] /\ d # NULL
      BY <1>1, Constants
    <3>2. tp[d] \in Entry
      BY <3>1 DEF IInv, TypeOK, Clients
    <3>3. o_func'[tp[d]] = d => o_func[tp[d]] = d
      BY <2>6, <3>1, <3>2
    <3> QED BY <1>1, <3>1, <3>2, <3>3 DEF IInv, Resets
  <2> QED BY <2>7, <2>8, <2>9, <2>10 DEF IInv
<1> QED BY <1>3, <1>4

\* The function of the entry is called.
LEMMA CallKeeps == IInv /\ Call => IInv'
<1> SUFFICES ASSUME IInv, Call PROVE IInv'
  OBVIOUS
<1> DEFINE c == calling
<1>1. /\ c # NULL /\ calling' = NULL
      /\ armed' = [armed EXCEPT ![c] = Queued(c) # {}]
      /\ UNCHANGED <<abs_ticks, timeout_abs_ticks, timeout_hash, timeout_free_list, o_time,
                     o_func, timeout_in_operation, pc, tp, ticks>>
  BY DEF Call
<1>2. c \in Client /\ timeout_in_operation
  BY <1>1 DEF IInv, TypeOK, Clients
<1>3. Queued(c) = { x \in Entry : o_func[x] = c }
  BY <1>2, QueuedByFunction
<1>4. /\ armed' \in [Client -> BOOLEAN]
      /\ \A d \in Client : armed'[d] = IF d = c THEN \E x \in Entry : o_func[x] = c ELSE armed[d]
  <2>1. Queued(c) # {} <=> \E x \in Entry : o_func[x] = c
    BY <1>3
  <2>2. (Queued(c) # {}) \in BOOLEAN
    OBVIOUS
  <2> QED BY <1>1, <1>2, <2>1, <2>2 DEF IInv, TypeOK
<1> HIDE DEF c
<1>5. TypeOK'
  BY <1>1, <1>4 DEF IInv, TypeOK
<1>6. \A d \in Client : Holding(d)' = Holding(d)
  BY <1>1 DEF Holding
<1>7. Entries'
  BY <1>1, <1>6, EntriesStay DEF IInv
<1>8. Clients'
  <2>1. \A d \in Client : pc[d] \in {"got", "timed", "unlinked"} => ~armed'[d]
    <3> SUFFICES ASSUME NEW d \in Client, pc[d] \in {"got", "timed", "unlinked"}, d = c
                 PROVE  ~armed'[d]
      BY <1>4 DEF IInv, Clients
    <3>1. ~armed[d] /\ d # NULL
      BY Constants DEF IInv, Clients
    <3>2. \A x \in Entry : o_func[x] # d
      BY <3>1 DEF IInv, Clients
    <3> QED BY <1>4, <3>2
  <2>2. ASSUME NEW d \in Client, armed'[d] PROVE \E x \in Entry : o_func[x] = d
    <3>1. CASE d = c
      BY <1>4, <2>2, <3>1
    <3>2. CASE d # c
      BY <1>4, <2>2, <3>2 DEF IInv, Clients, c
    <3> QED BY <3>1, <3>2
  <2>3. ASSUME NEW x \in Entry, o_func[x] # NULL
        PROVE  tp[o_func[x]] = x /\ armed'[o_func[x]]
    <3>1. o_func[x] \in Client /\ tp[o_func[x]] = x /\ armed[o_func[x]]
      BY <2>3 DEF IInv, Clients, TypeOK
    <3>2. CASE o_func[x] = c
      BY <1>4, <3>1, <3>2
    <3>3. CASE o_func[x] # c
      BY <1>4, <3>1, <3>3
    <3> QED BY <3>1, <3>2, <3>3
  <2>4. \A d \in ProcClient : d # NULL
    BY Constants DEF Client
  <2>5. \A d \in Client : pc[d] # "idle" => d \in ProcClient /\ tp[d] # NULL
    BY DEF IInv, Clients
  <2> QED BY <1>1, <2>1, <2>2, <2>3, <2>4, <2>5 DEF Clients
<1>9. Resets'
  BY <1>1 DEF IInv, Resets
<1> QED BY <1>5, <1>7, <1>8, <1>9 DEF IInv

\* The scan has reached the present tick.
LEMMA ScanEndKeeps == IInv /\ ScanEnd => IInv'
<1> SUFFICES ASSUME IInv, ScanEnd PROVE IInv'
  OBVIOUS
<1>1. /\ calling = NULL /\ timeout_in_operation' = FALSE
      /\ UNCHANGED <<abs_ticks, timeout_abs_ticks, timeout_hash, timeout_free_list, o_time, o_func,
                     calling, pc, tp, ticks, armed>>
  BY DEF ScanEnd
<1>2. TypeOK'
  BY <1>1 DEF IInv, TypeOK
<1>3. \A d \in Client : Holding(d)' = Holding(d)
  BY <1>1 DEF Holding
<1>4. Entries'
  BY <1>1, <1>3, EntriesStay DEF IInv
<1>5. Clients' /\ Resets'
  BY <1>1 DEF IInv, Clients, Resets
<1> QED BY <1>2, <1>4, <1>5 DEF IInv

-----------------------------------------------------------------------------
(* The theorems *)

\* The invariant holds at the start: every entry is free.
LEMMA InitInvariant == Init => IInv
<1> SUFFICES ASSUME Init PROVE IInv
  OBVIOUS
<1>1. /\ timeout_free_list \in Seq(Entry) /\ NoRepeat(timeout_free_list)
      /\ ToSet(timeout_free_list) = Entry
  BY SeqOfSet, TimeoutAssumption DEF Init
<1>2. 0 \in Tick /\ 1 \in Tick
  BY Constants DEF Tick
<1>3. <<>> \in Seq(Entry) /\ NoRepeat(<<>>) /\ ToSet(<<>>) = {}
  BY DEF NoRepeat, ToSet
<1>4. TypeOK
  BY <1>1, <1>2, <1>3 DEF Init, TypeOK, Tick
<1>5. Entries
  <2>1. \A h \in Hash : timeout_hash[h] = <<>>
    BY DEF Init, Hash
  <2>2. \A c \in Client : Holding(c) = {}
    BY DEF Init, Holding
  <2>3. \A e \in Entry : o_func[e] = NULL
    BY DEF Init
  <2> QED BY <1>1, <1>3, <2>1, <2>2, <2>3 DEF Entries
<1>6. Clients /\ Resets
  <2>1. \A c \in ProcClient : c # NULL /\ c \in Client
    BY Constants DEF Client
  <2> QED BY <2>1 DEF Init, Clients, Resets
<1> QED BY <1>4, <1>5, <1>6 DEF IInv

\* Every step keeps the invariant.
LEMMA NextKeeps == IInv /\ [Next]_vars => IInv'
<1> SUFFICES ASSUME IInv, [Next]_vars PROVE IInv'
  OBVIOUS
<1>1. CASE TickCounted BY <1>1, TickCountedKeeps
<1>2. CASE TickScans BY <1>2, TickScansKeeps
<1>3. CASE Scan BY <1>3, ScanKeeps
<1>4. CASE Call BY <1>4, CallKeeps
<1>5. CASE ScanEnd BY <1>5, ScanEndKeeps
<1>6. ASSUME NEW c \in Client, SetGet(c) PROVE IInv'
  BY <1>6, SetGetKeeps
<1>7. ASSUME NEW c \in Client, SetTime(c) PROVE IInv'
  BY <1>7, SetTimeKeeps
<1>8. ASSUME NEW c \in Client, SetInsert(c) PROVE IInv'
  BY <1>8, SetInsertKeeps
<1>9. ASSUME NEW c \in Client, DeviceSet(c) PROVE IInv'
  BY <1>9, DeviceSetKeeps
<1>10. ASSUME NEW c \in Client, ResetRead(c) PROVE IInv'
  BY <1>10, ResetReadKeeps
<1>11. ASSUME NEW c \in Client, ResetUnlink(c) PROVE IInv'
  BY <1>11, ResetUnlinkKeeps
<1>12. ASSUME NEW c \in Client, ResetFree(c) PROVE IInv'
  BY <1>12, ResetFreeKeeps
<1>13. ASSUME NEW c \in Client, DeviceReset(c) PROVE IInv'
  BY <1>13, DeviceResetKeeps
<1>14. CASE UNCHANGED vars
  BY <1>14 DEF vars, IInv, TypeOK, Entries, Clients, Resets, Holding, Queue
<1> QED
  BY <1>1, <1>2, <1>3, <1>4, <1>5, <1>6, <1>7, <1>8, <1>9, <1>10, <1>11, <1>12, <1>13, <1>14
  DEF Next, ClockStep

\* The invariant holds of every state.
THEOREM IInvAlways == Spec => []IInv
BY InitInvariant, NextKeeps, PTL DEF Spec

\* clock.c: the variables keep their types; ticks stay within the width of the counter.
THEOREM TypesCorrect == Spec => []TypeOK
<1>1. IInv => TypeOK
  BY DEF IInv
<1> QED BY <1>1, IInvAlways, PTL

\* clock.c, toutset and toutreset: no entry is lost, shared or freed twice, and a client that
\* expects a call has one entry queued or is being called.
THEOREM EntriesCorrect == Spec => []EntriesExact
BY EntriesFollow, IInvAlways, PTL

-----------------------------------------------------------------------------
(* What the steps may not do *)

\* In the words of the invariant: a client is in front of the scan when an entry with its
\* function is.
LEMMA InFrontByFunction ==
    IInv => \A c \in Client :
        /\ InFront(c) <=> \E e \in Entry : o_func[e] = c /\ NotBefore(o_time[e], timeout_abs_ticks)
        /\ Queued(c) = { e \in Entry : o_func[e] = c }
<1> SUFFICES ASSUME IInv, NEW c \in Client
             PROVE  /\ InFront(c) <=> \E e \in Entry : o_func[e] = c /\ NotBefore(o_time[e], timeout_abs_ticks)
                    /\ Queued(c) = { e \in Entry : o_func[e] = c }
  OBVIOUS
<1>1. Queued(c) = { e \in Entry : o_func[e] = c }
  BY QueuedByFunction
<1> QED BY <1>1 DEF InFront

\* One step of the clients.  An entry with a function keeps it, and its tick, unless toutreset
\* takes it out; nobody is called.
LEMMA ClientStep ==
    ASSUME IInv, NEW d \in Client,
           \/ SetGet(d) \/ SetTime(d) \/ SetInsert(d) \/ DeviceSet(d)
           \/ ResetRead(d) \/ ResetUnlink(d) \/ ResetFree(d) \/ DeviceReset(d)
    PROVE  /\ UNCHANGED <<timeout_abs_ticks, calling>>
           /\ \A e \in Entry : o_func[e] # NULL =>
                 \/ o_func'[e] = o_func[e] /\ o_time'[e] = o_time[e]
                 \/ ~armed'[o_func[e]]
<1>1. CASE SetGet(d) \/ SetTime(d) \/ ResetRead(d) \/ ResetFree(d)
  BY <1>1 DEF SetGet, SetTime, ResetRead, ResetFree
<1>2. ASSUME NEW x \in Entry, NEW t, o_func[x] = NULL, Insert(x, d, t)
      PROVE  \A e \in Entry : o_func[e] # NULL => o_func'[e] = o_func[e] /\ o_time'[e] = o_time[e]
  BY <1>2 DEF Insert, IInv, TypeOK
<1>3. ASSUME NEW x \in Entry, NEW h, Unlink(d, x, h), UNCHANGED o_time
      PROVE  \A e \in Entry : o_func[e] # NULL =>
                 \/ o_func'[e] = o_func[e] /\ o_time'[e] = o_time[e]
                 \/ ~armed'[o_func[e]]
  <2>1. armed'[d] = FALSE
    BY <1>3 DEF Unlink, IInv, TypeOK
  <2>2. \A e \in Entry : o_func'[e] # o_func[e] => e = x /\ o_func[e] = d
    BY <1>3 DEF Unlink, IInv, TypeOK
  <2> QED BY <1>3, <2>1, <2>2
<1>4. CASE SetInsert(d)
  <2>1. pc[d] = "timed" /\ Insert(tp[d], d, ticks[d]) /\ UNCHANGED <<timeout_abs_ticks, calling>>
    BY <1>4 DEF SetInsert, Step
  <2>2. tp[d] \in Entry /\ tp[d] \in Holding(d)
    BY <2>1 DEF IInv, TypeOK, Clients, Holding
  <2>3. o_func[tp[d]] = NULL
    BY <2>2 DEF IInv, Entries
  <2> QED BY <1>2, <2>1, <2>2, <2>3
<1>5. CASE DeviceSet(d)
  <2> DEFINE x == Head(timeout_free_list)
  <2>1. /\ timeout_free_list # <<>> /\ tp' = [tp EXCEPT ![d] = x]
        /\ UNCHANGED <<timeout_abs_ticks, calling>>
    BY <1>5 DEF DeviceSet, TakeEntry
  <2>2. x \in Entry /\ o_func[x] = NULL
    BY <2>1, FreeEntry
  <2> HIDE DEF x
  <2>3. tp'[d] = x
    BY <2>1 DEF IInv, TypeOK
  <2>4. PICK n \in 1 .. MaxTicks : Insert(x, d, (abs_ticks + n) % W)
    BY <1>5, <2>3 DEF DeviceSet
  <2> QED BY <1>2, <2>1, <2>2, <2>4
<1>6. CASE ResetUnlink(d)
  <2>1. /\ pc[d] = "reset" /\ Unlink(d, tp[d], ticks[d])
        /\ UNCHANGED <<timeout_abs_ticks, calling, o_time>>
    BY <1>6 DEF ResetUnlink
  <2>2. tp[d] \in Entry
    BY <2>1 DEF IInv, TypeOK, Clients
  <2> QED BY <1>3, <2>1, <2>2
<1>7. CASE DeviceReset(d)
  <2>1. /\ tp[d] # NULL /\ Unlink(d, tp[d], o_time[tp[d]] % HASH)
        /\ UNCHANGED <<timeout_abs_ticks, calling, o_time>>
    BY <1>7 DEF DeviceReset
  <2>2. tp[d] \in Entry
    BY <2>1 DEF IInv, TypeOK
  <2> QED BY <1>3, <2>1, <2>2
<1> QED BY <1>1, <1>4, <1>5, <1>6, <1>7

\* The scan skips no entry of its tick, and calls the function of one that is due.
LEMMA ScanStep ==
    ASSUME IInv, Scan
    PROVE  /\ \A e \in Entry : o_func[e] # NULL /\ NotBefore(o_time[e], timeout_abs_ticks) =>
                 \/ /\ o_func'[e] = o_func[e] /\ o_time'[e] = o_time[e]
                    /\ NotBefore(o_time[e], timeout_abs_ticks')
                 \/ calling' = o_func[e]
           /\ calling' # NULL => \E e \in Entry :
                 o_func[e] = calling' /\ NotBefore(abs_ticks, o_time[e])
<1> DEFINE q == Queue(timeout_abs_ticks)
           x == q[SelectInSeq(q, Due)]
<1>1. calling = NULL /\ NotBefore(abs_ticks, timeout_abs_ticks) /\ UNCHANGED o_time
  BY DEF Scan
<1>2. CASE \E e \in ToSet(q) : Due(e)
  <2>1. /\ o_func' = [o_func EXCEPT ![x] = NULL] /\ calling' = o_func[x]
        /\ UNCHANGED timeout_abs_ticks
    BY <1>2 DEF Scan
  <2>2. x \in Entry /\ o_time[x] = timeout_abs_ticks
    BY <1>2, FirstDue
  <2> HIDE DEF x
  <2>3. \A e \in Entry : e # x => o_func'[e] = o_func[e]
    BY <2>1 DEF IInv, TypeOK
  <2> QED BY <1>1, <2>1, <2>2, <2>3
<1>3. CASE ~\E e \in ToSet(q) : Due(e)
  <2>1. /\ timeout_abs_ticks' = (timeout_abs_ticks + 1) % W /\ UNCHANGED <<o_func, calling>>
    BY <1>3 DEF Scan
  <2>2. ASSUME NEW e \in Entry, o_func[e] # NULL, NotBefore(o_time[e], timeout_abs_ticks)
        PROVE  NotBefore(o_time[e], timeout_abs_ticks')
    <3>1. o_time[e] # timeout_abs_ticks
      BY <1>3, <2>2 DEF Due, IInv, Entries
    <3>2. o_time[e] \in Tick /\ timeout_abs_ticks \in Tick
      BY DEF IInv, TypeOK, Tick
    <3> QED BY <2>1, <2>2, <3>1, <3>2, StillInFront
  <2> QED BY <1>1, <2>1, <2>2
<1> QED BY <1>2, <1>3

\* A step, for one client.
LEMMA StepInTurn ==
    ASSUME IInv, IInv', [Next]_vars, NEW c \in Client
    PROVE  /\ InFront(c) => InFront(c)' \/ calling' = c \/ ~armed'[c]
           /\ calling # c /\ calling' = c =>
                \E e \in Queued(c) : NotBefore(abs_ticks, o_time[e])
<1>1. /\ c # NULL
      /\ InFront(c) <=> \E e \in Entry : o_func[e] = c /\ NotBefore(o_time[e], timeout_abs_ticks)
      /\ Queued(c) = { e \in Entry : o_func[e] = c }
  BY InFrontByFunction, Constants
<1>2. ASSUME NEW e \in Entry, o_func'[e] = c, NotBefore(o_time'[e], timeout_abs_ticks')
      PROVE  InFront(c)'
  <2>1. e \in Queued(c)'
    BY <1>1, <1>2 DEF Queued, IInv, Entries
  <2> QED BY <1>2, <2>1 DEF InFront, NotBefore
<1>3. CASE Scan
  BY <1>1, <1>2, <1>3, ScanStep
<1>4. CASE Call
  BY <1>1, <1>2, <1>4 DEF Call
<1>5. CASE ScanEnd \/ TickCounted \/ TickScans \/ UNCHANGED vars
  <2>1. UNCHANGED <<o_func, o_time, timeout_abs_ticks, calling>>
    BY <1>5 DEF ScanEnd, TickCounted, TickScans, vars
  <2> QED BY <1>1, <1>2, <2>1
<1>6. ASSUME NEW d \in Client,
             \/ SetGet(d) \/ SetTime(d) \/ SetInsert(d) \/ DeviceSet(d)
             \/ ResetRead(d) \/ ResetUnlink(d) \/ ResetFree(d) \/ DeviceReset(d)
      PROVE  /\ InFront(c) => InFront(c)' \/ calling' = c \/ ~armed'[c]
             /\ ~(calling # c /\ calling' = c)
  <2>1. /\ UNCHANGED <<timeout_abs_ticks, calling>>
        /\ \A e \in Entry : o_func[e] # NULL =>
              \/ o_func'[e] = o_func[e] /\ o_time'[e] = o_time[e]
              \/ ~armed'[o_func[e]]
    BY <1>6, ClientStep
  <2> QED BY <1>1, <1>2, <2>1
<1> QED BY <1>3, <1>4, <1>5, <1>6 DEF Next, ClockStep

\* clock.c: a timeout in front of the scan stays there until it is called or taken out, and a
\* function is not called before its tick.
THEOREM CalledInOrder == Spec => CalledInTurn
<1>1. IInv /\ IInv' /\ [Next]_vars =>
        [\A c \in Client :
          /\ InFront(c) => InFront(c)' \/ calling' = c \/ ~armed'[c]
          /\ calling # c /\ calling' = c =>
                \E e \in Queued(c) : NotBefore(abs_ticks, o_time[e])]_vars
  BY StepInTurn
<1> QED BY <1>1, IInvAlways, PTL DEF Spec, CalledInTurn

\* clock.c, toutreset: a process that took its timeout out is not called for it.  As in the
\* whole module, without preemption in the kernel: no process runs between two steps of a scan.
THEOREM ResetFinal == Spec => ResetIsFinal
<1>1. IInv => [\A c \in ProcClient : calling = c /\ calling' # c => armed[c]]_vars
  BY DEF IInv, Clients
<1> QED BY <1>1, IInvAlways, PTL DEF ResetIsFinal
=============================================================================
