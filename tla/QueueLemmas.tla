----------------------------- MODULE QueueLemmas ----------------------------
(***************************************************************************)
(* Facts about the queues of the kernel, sequences without repetition:     *)
(* what inserting and removing an element does to the set of elements.     *)
(***************************************************************************)
EXTENDS Integers, Sequences, SequencesExt, SequenceTheorems, FiniteSetTheorems, TLAPS

NoRepeat(s) == \A i, j \in DOMAIN s : s[i] = s[j] => i = j

\* A set of naturals that is not empty has a least element.  With it, what holds of every place
\* of a sequence can be shown by the first place where it would not hold.
LEMMA Least ==
    ASSUME NEW T \in SUBSET Nat, T # {}
    PROVE  \E x \in T : \A y \in T : x <= y
<1>1. PICK n \in T : TRUE
  OBVIOUS
<1> DEFINE S == 0 .. n
           Below == StrictSubsetOrdering(S)
           up == { 0 .. i : i \in T \cap S }
<1>2. IsFiniteSet(S)
  BY <1>1, FS_Interval
<1>3. IsWellFoundedOn(Below, SUBSET S)
  BY <1>2, FS_StrictSubsetOrderingWellFounded, FS_FiniteSubsetsOfFinite
<1>4. up \subseteq SUBSET S /\ up # {}
  BY <1>1
<1>5. PICK u \in up : \A v \in up : ~(<<v, u>> \in Below)
  <2> HIDE DEF up, Below, S
  <2> QED BY <1>3, <1>4, WFMin
<1>6. PICK m \in T \cap S : u = 0 .. m
  BY <1>5
<1>7. ASSUME NEW k \in T, k < m PROVE FALSE
  <2>1. 0 .. k \in up /\ 0 .. k \in SUBSET S /\ 0 .. m \in SUBSET S
    BY <1>6, <1>7
  <2>2. m \in 0 .. m /\ m \notin 0 .. k /\ m \in Nat /\ k \in Nat
    BY <1>7
  <2>3. <<0 .. k, 0 .. m>> \in Below
    BY <2>1, <2>2, <1>7 DEF StrictSubsetOrdering
  <2> QED BY <2>1, <2>3, <1>5, <1>6
<1> QED BY <1>6, <1>7

\* A function with each value from the one before.
Recursive(f, S, n, a, step) ==
    f \in [0 .. n -> S] /\ f[0] = a /\ \A i \in 1 .. n : f[i] = step[i][f[i - 1]]

\* Such a function exists, by recursion from 0 to n.
LEMMA Recursion ==
    ASSUME NEW S, NEW n \in Nat, NEW a \in S, NEW step \in [1 .. n -> [S -> S]]
    PROVE  \E f : Recursive(f, S, n, a, step)
<1> DEFINE Ok(f, m) == f[0] = a /\ \A i \in 1 .. m : f[i] = step[i][f[i - 1]]
           Bad == { m \in 0 .. n : ~ \E f \in [0 .. m -> S] : Ok(f, m) }
<1>1. Bad = {}
  <2> SUFFICES ASSUME Bad # {} PROVE FALSE
    OBVIOUS
  <2>1. Bad \in SUBSET Nat
    OBVIOUS
  <2>2. PICK m \in Bad : \A k \in Bad : m <= k
    <3> HIDE DEF Bad
    <3> QED BY <2>1, Least
  <2>3. m \in 0 .. n
    OBVIOUS
  <2>4. CASE m = 0
    <3> DEFINE f == [i \in 0 .. 0 |-> a]
    <3>1. f \in [0 .. 0 -> S] /\ Ok(f, 0)
      OBVIOUS
    <3> QED BY <2>4, <3>1
  <2>5. CASE m # 0
    <3>0. m - 1 \in 0 .. n /\ m \in Nat /\ ~(m <= m - 1) /\ m \in 1 .. n
      BY <2>3, <2>5
    <3>1. m - 1 \notin Bad
      <4> HIDE DEF Bad
      <4> QED BY <2>2, <3>0
    <3>2. PICK f \in [0 .. m - 1 -> S] : Ok(f, m - 1)
      BY <3>0, <3>1
    <3> DEFINE g == [i \in 0 .. m |-> IF i = m THEN step[m][f[m - 1]] ELSE f[i]]
    <3>3. f[m - 1] \in S /\ step[m][f[m - 1]] \in S
      <4>1. f[m - 1] \in S
        BY <2>5, <2>3
      <4>2. step[m] \in [S -> S]
        BY <3>0
      <4> QED BY <4>1, <4>2
    <3>4. g \in [0 .. m -> S]
      BY <3>3, <2>3
    <3>5. ASSUME NEW i \in 1 .. m PROVE g[i] = step[i][g[i - 1]]
      <4>1. CASE i = m
        <5>1. g[m] = step[m][f[m - 1]] /\ g[m - 1] = f[m - 1]
          <6>1. m \in 0 .. m /\ m - 1 \in 0 .. m /\ m - 1 # m
            BY <3>0
          <6> QED BY <6>1
        <5> HIDE DEF g
        <5> QED BY <4>1, <5>1
      <4>2. CASE i # m
        <5>1. g[i] = f[i] /\ g[i - 1] = f[i - 1] /\ i \in 1 .. m - 1
          <6>1. i \in 1 .. m - 1 /\ i \in 0 .. m /\ i - 1 \in 0 .. m /\ i - 1 # m
            BY <4>2, <2>3
          <6> QED BY <4>2, <6>1
        <5>2. f[i] = step[i][f[i - 1]]
          BY <3>2, <5>1
        <5> HIDE DEF g
        <5> QED BY <5>1, <5>2
      <4> QED BY <4>1, <4>2
    <3>6. g[0] = a
      <4>1. f[0] = a /\ 0 \in 0 .. m
        BY <3>2, <2>3
      <4> QED BY <4>1, <2>5
    <3> HIDE DEF g
    <3>7. \E h \in [0 .. m -> S] : Ok(h, m)
      BY <3>4, <3>5, <3>6
    <3> QED BY <3>7
  <2> QED BY <2>4, <2>5
<1>2. n \in 0 .. n
  OBVIOUS
<1>3. n \notin Bad
  <2> HIDE DEF Bad
  <2> QED BY <1>1
<1> QED BY <1>2, <1>3 DEF Recursive

\* A sequence of all the elements of a finite set, once each.
LEMMA SeqOfAll ==
    ASSUME NEW S, IsFiniteSet(S), NEW s \in SetToSeqs(S)
    PROVE  s \in Seq(S) /\ NoRepeat(s) /\ ToSet(s) = S
<1> DEFINE n == Cardinality(S)
<1>1. /\ n \in Nat /\ s \in [1 .. n -> S]
      /\ \A i, j \in 1 .. n : i # j => s[i] # s[j]
  BY FS_CardinalityType DEF SetToSeqs
<1> HIDE DEF n
<1>2. s \in Injection(1 .. n, S)
  BY <1>1 DEF Injection, IsInjective
<1>3. Cardinality(1 .. n) = n
  BY <1>1, FS_Interval
<1>4. s \in Surjection(1 .. n, S)
  BY <1>2, <1>3, FS_Injection DEF n
<1>5. \A x \in S : \E i \in 1 .. n : s[i] = x
  BY <1>4 DEF Surjection
<1>6. s \in Seq(S) /\ DOMAIN s = 1 .. n
  BY <1>1, IsASeq
<1> QED BY <1>1, <1>5, <1>6 DEF ToSet, NoRepeat

\* The sequence that SetToSeq chooses is one of those.
LEMMA SeqOfSet ==
    ASSUME NEW S, IsFiniteSet(S)
    PROVE  SetToSeq(S) \in Seq(S) /\ NoRepeat(SetToSeq(S)) /\ ToSet(SetToSeq(S)) = S
<1> DEFINE n == Cardinality(S)
           s == SetToSeq(S)
<1>1. PICK f \in Bijection(1 .. n, S) : TRUE
  BY FS_CardinalityType DEF ExistsBijection
<1>2. f \in [1 .. n -> S] /\ IsInjective(f)
  BY DEF Bijection, Injection, IsInjective
<1>3. s \in [1 .. n -> S] /\ IsInjective(s)
  BY <1>2 DEF SetToSeq
<1>4. s \in SetToSeqs(S)
  <2> HIDE DEF s
  <2> QED BY <1>3 DEF SetToSeqs, IsInjective
<1> HIDE DEF s
<1> QED BY <1>4, SeqOfAll DEF s

\* Min chooses the least of a set of naturals.
LEMMA MinIsLeast ==
    ASSUME NEW T \in SUBSET Nat, T # {}
    PROVE  Min(T) \in T /\ \A y \in T : Min(T) <= y
BY Least DEF Min

\* The shape of a sequence after an insertion.
LEMMA InsertAtShape ==
    ASSUME NEW S, NEW s \in Seq(S), NEW e \in S, NEW i \in 1..(Len(s) + 1)
    PROVE  /\ InsertAt(s, i, e) \in Seq(S)
           /\ Len(InsertAt(s, i, e)) = Len(s) + 1
           /\ \A k \in 1..(Len(s) + 1) : InsertAt(s, i, e)[k] =
                 IF k < i THEN s[k] ELSE IF k = i THEN e ELSE s[k - 1]
<1> DEFINE a == SubSeq(s, 1, i - 1)
           z == SubSeq(s, i, Len(s))
           m == <<e>>
<1>0. Len(s) \in Nat /\ \A k \in 1..Len(s) : s[k] \in S
  OBVIOUS
<1>1. a \in Seq(S) /\ Len(a) = i - 1 /\ \A k \in 1..(i - 1) : a[k] = s[k]
  <2>1. \A k \in 1..(i - 1) : s[k] \in S
    BY <1>0
  <2>2. /\ a \in Seq(S)
        /\ Len(a) = IF 1 <= i - 1 THEN (i - 1) - 1 + 1 ELSE 0
        /\ \A k \in 1..((i - 1) - 1 + 1) : a[k] = s[1 + k - 1]
    BY <2>1, SubSeqProperties
  <2> HIDE DEF a
  <2> QED BY <2>2
<1>2. z \in Seq(S) /\ Len(z) = Len(s) - i + 1 /\ \A k \in 1..(Len(s) - i + 1) : z[k] = s[i + k - 1]
  <2>1. \A k \in i..Len(s) : s[k] \in S
    BY <1>0
  <2>2. /\ z \in Seq(S)
        /\ Len(z) = IF i <= Len(s) THEN Len(s) - i + 1 ELSE 0
        /\ \A k \in 1..(Len(s) - i + 1) : z[k] = s[i + k - 1]
    BY <2>1, SubSeqProperties, <1>0
  <2> HIDE DEF z
  <2> QED BY <2>2, <1>0
<1>3. m \in Seq(S) /\ Len(m) = 1 /\ m[1] = e
  OBVIOUS
<1> DEFINE am == a \o m
<1> HIDE DEF a, z, m
<1>4. /\ am \in Seq(S) /\ Len(am) = i
      /\ \A k \in 1..i : am[k] = IF k <= i - 1 THEN a[k] ELSE m[k - (i - 1)]
  <2>1. /\ am \in Seq(S) /\ Len(am) = Len(a) + Len(m)
        /\ \A k \in 1..(Len(a) + Len(m)) : am[k] = IF k <= Len(a) THEN a[k] ELSE m[k - Len(a)]
    BY <1>1, <1>3, ConcatProperties
  <2> HIDE DEF am
  <2> QED BY <2>1, <1>1, <1>3
<1> DEFINE t == am \o z
<1> HIDE DEF am
<1>5. /\ t \in Seq(S) /\ Len(t) = Len(s) + 1
      /\ \A k \in 1..(Len(s) + 1) : t[k] = IF k <= i THEN am[k] ELSE z[k - i]
  <2>1. /\ t \in Seq(S) /\ Len(t) = Len(am) + Len(z)
        /\ \A k \in 1..(Len(am) + Len(z)) : t[k] = IF k <= Len(am) THEN am[k] ELSE z[k - Len(am)]
    BY <1>2, <1>4, ConcatProperties
  <2> HIDE DEF t
  <2> QED BY <2>1, <1>2, <1>4, <1>0
<1>6. InsertAt(s, i, e) = t
  BY DEF InsertAt, t, am, a, m, z
<1> HIDE DEF t
<1>7. \A k \in 1..(Len(s) + 1) : t[k] = IF k < i THEN s[k] ELSE IF k = i THEN e ELSE s[k - 1]
  <2> TAKE k \in 1..(Len(s) + 1)
  <2>1. CASE k < i
    BY <2>1, <1>5, <1>4, <1>1, <1>0
  <2>2. CASE k = i
    BY <2>2, <1>5, <1>4, <1>3, <1>0
  <2>3. CASE k > i
    <3>1. k - i \in 1..(Len(s) - i + 1) /\ i + (k - i) - 1 = k - 1
      BY <2>3, <1>0
    <3>2. z[k - i] = s[k - 1]
      BY <3>1, <1>2
    <3>3. t[k] = z[k - i]
      BY <2>3, <1>5
    <3> QED BY <2>3, <3>2, <3>3
  <2> QED BY <2>1, <2>2, <2>3, <1>0
<1> QED BY <1>5, <1>6, <1>7

\* The shape of a sequence after a removal.
LEMMA RemoveAtShape ==
    ASSUME NEW S, NEW s \in Seq(S), NEW i \in 1..Len(s)
    PROVE  /\ RemoveAt(s, i) \in Seq(S)
           /\ Len(RemoveAt(s, i)) = Len(s) - 1
           /\ \A k \in 1..(Len(s) - 1) : RemoveAt(s, i)[k] = IF k < i THEN s[k] ELSE s[k + 1]
<1> DEFINE a == SubSeq(s, 1, i - 1)
           z == SubSeq(s, i + 1, Len(s))
<1>0. Len(s) \in Nat /\ \A k \in 1..Len(s) : s[k] \in S
  OBVIOUS
<1>1. a \in Seq(S) /\ Len(a) = i - 1 /\ \A k \in 1..(i - 1) : a[k] = s[k]
  <2>1. \A k \in 1..(i - 1) : s[k] \in S
    BY <1>0
  <2>2. /\ a \in Seq(S)
        /\ Len(a) = IF 1 <= i - 1 THEN (i - 1) - 1 + 1 ELSE 0
        /\ \A k \in 1..((i - 1) - 1 + 1) : a[k] = s[1 + k - 1]
    BY <2>1, SubSeqProperties
  <2> HIDE DEF a
  <2> QED BY <2>2
<1>2. z \in Seq(S) /\ Len(z) = Len(s) - i /\ \A k \in 1..(Len(s) - i) : z[k] = s[i + k]
  <2>1. \A k \in (i + 1)..Len(s) : s[k] \in S
    BY <1>0
  <2>2. /\ z \in Seq(S)
        /\ Len(z) = IF i + 1 <= Len(s) THEN Len(s) - (i + 1) + 1 ELSE 0
        /\ \A k \in 1..(Len(s) - (i + 1) + 1) : z[k] = s[(i + 1) + k - 1]
    BY <2>1, SubSeqProperties, <1>0
  <2> HIDE DEF z
  <2> QED BY <2>2, <1>0
<1> DEFINE t == a \o z
<1> HIDE DEF a, z
<1>3. /\ t \in Seq(S) /\ Len(t) = Len(a) + Len(z)
      /\ \A k \in 1..(Len(a) + Len(z)) : t[k] = IF k <= Len(a) THEN a[k] ELSE z[k - Len(a)]
  BY <1>1, <1>2, ConcatProperties
<1>4. RemoveAt(s, i) = t
  BY DEF RemoveAt, t, a, z
<1> HIDE DEF t
<1>5. \A k \in 1..(Len(s) - 1) : t[k] = IF k < i THEN s[k] ELSE s[k + 1]
  <2> TAKE k \in 1..(Len(s) - 1)
  <2>0. /\ k \in Int /\ i \in Int /\ k \in 1..(Len(a) + Len(z))
        /\ t[k] = IF k <= i - 1 THEN a[k] ELSE z[k - (i - 1)]
    BY <1>0, <1>1, <1>2, <1>3
  <2>1. CASE k < i
    <3>1. k \in 1..(i - 1)
      BY <2>0, <2>1
    <3> QED BY <2>0, <3>1, <2>1, <1>1
  <2>2. CASE k >= i
    <3>1. k - (i - 1) \in 1..(Len(s) - i) /\ i + (k - (i - 1)) = k + 1 /\ ~(k <= i - 1)
      BY <2>0, <2>2, <1>0
    <3>2. z[k - (i - 1)] = s[k + 1]
      BY <3>1, <1>2
    <3> QED BY <2>0, <3>1, <3>2, <2>2
  <2> QED BY <2>0, <2>1, <2>2
<1>6. Len(t) = Len(s) - 1
  BY <1>0, <1>1, <1>2, <1>3
<1> QED BY <1>3, <1>4, <1>5, <1>6

\* Inserting an element that is not there adds it and repeats nothing.
LEMMA InsertAtElements ==
    ASSUME NEW S, NEW s \in Seq(S), NEW e \in S, NEW i \in 1..(Len(s) + 1)
    PROVE  /\ InsertAt(s, i, e) \in Seq(S)
           /\ ToSet(InsertAt(s, i, e)) = ToSet(s) \cup {e}
           /\ NoRepeat(s) /\ e \notin ToSet(s) => NoRepeat(InsertAt(s, i, e))
<1> DEFINE t == InsertAt(s, i, e)
<1>1. /\ t \in Seq(S)
      /\ Len(t) = Len(s) + 1
      /\ \A k \in 1..(Len(s) + 1) : t[k] = IF k < i THEN s[k] ELSE IF k = i THEN e ELSE s[k - 1]
  BY InsertAtShape
<1> HIDE DEF t
<1>2. DOMAIN t = 1..(Len(s) + 1) /\ DOMAIN s = 1..Len(s) /\ Len(s) \in Nat
  BY <1>1
<1>3. ASSUME NEW k \in DOMAIN t PROVE t[k] \in ToSet(s) \cup {e}
  <2>1. CASE k < i
    BY <1>1, <1>2, <2>1 DEF ToSet
  <2>2. CASE k = i
    BY <1>1, <1>2, <2>2
  <2>3. CASE k > i
    <3>1. k - 1 \in DOMAIN s /\ t[k] = s[k - 1]
      BY <1>1, <1>2, <2>3
    <3> QED BY <3>1 DEF ToSet
  <2> QED BY <2>1, <2>2, <2>3, <1>2
<1>4. ASSUME NEW k \in DOMAIN s PROVE \E l \in DOMAIN t : t[l] = s[k]
  <2>1. CASE k < i
    BY <1>1, <1>2, <2>1
  <2>2. CASE k >= i
    <3>1. k + 1 \in DOMAIN t /\ t[k + 1] = s[k]
      BY <1>1, <1>2, <2>2
    <3> QED BY <3>1
  <2> QED BY <2>1, <2>2, <1>2
<1>5. i \in DOMAIN t /\ t[i] = e
  BY <1>1, <1>2
<1>6. ToSet(t) = ToSet(s) \cup {e}
  BY <1>3, <1>4, <1>5 DEF ToSet
<1>7. ASSUME NoRepeat(s), e \notin ToSet(s), NEW k \in DOMAIN t, NEW l \in DOMAIN t, t[k] = t[l]
      PROVE  k = l
  <2>1. \A n \in DOMAIN s : s[n] # e
    BY <1>7 DEF ToSet
  <2>2. \A n \in DOMAIN t : n # i => t[n] # e
    <3> TAKE n \in DOMAIN t
    <3>1. CASE n < i
      BY <1>1, <1>2, <2>1, <3>1
    <3>2. CASE n > i
      <4>1. n - 1 \in DOMAIN s /\ t[n] = s[n - 1]
        BY <1>1, <1>2, <3>2
      <4> QED BY <4>1, <2>1
    <3> QED BY <3>1, <3>2, <1>2
  <2> DEFINE m(n) == IF n < i THEN n ELSE n - 1
  <2>3. CASE k # i /\ l # i
    <3>1. m(k) \in DOMAIN s /\ m(l) \in DOMAIN s /\ s[m(k)] = s[m(l)]
      BY <1>1, <1>2, <1>7, <2>3
    <3>2. m(k) = m(l)
      BY <3>1, <1>7 DEF NoRepeat
    <3> QED BY <3>2, <2>3, <1>2
  <2> QED BY <2>2, <2>3, <1>5, <1>7
<1>8. NoRepeat(s) /\ e \notin ToSet(s) => NoRepeat(t)
  BY <1>7 DEF NoRepeat
<1> QED BY <1>1, <1>6, <1>8 DEF t

\* Removing a position of a queue without repetition removes its element.
LEMMA RemoveAtElements ==
    ASSUME NEW S, NEW s \in Seq(S), NEW i \in 1..Len(s), NoRepeat(s)
    PROVE  /\ RemoveAt(s, i) \in Seq(S)
           /\ ToSet(RemoveAt(s, i)) = ToSet(s) \ {s[i]}
           /\ NoRepeat(RemoveAt(s, i))
<1> DEFINE t == RemoveAt(s, i)
<1>1. /\ t \in Seq(S)
      /\ Len(t) = Len(s) - 1
      /\ \A k \in 1..(Len(s) - 1) : t[k] = IF k < i THEN s[k] ELSE s[k + 1]
  BY RemoveAtShape
<1> HIDE DEF t
<1>2. DOMAIN t = 1..(Len(s) - 1) /\ DOMAIN s = 1..Len(s) /\ Len(s) \in Nat
  BY <1>1
<1> DEFINE m(n) == IF n < i THEN n ELSE n + 1
<1>3. \A k \in DOMAIN t : m(k) \in DOMAIN s /\ t[k] = s[m(k)] /\ m(k) # i
  BY <1>1, <1>2
<1>4. ASSUME NEW k \in DOMAIN t PROVE t[k] \in ToSet(s) \ {s[i]}
  <2>1. m(k) \in DOMAIN s /\ t[k] = s[m(k)] /\ m(k) # i
    BY <1>3
  <2> HIDE DEF m
  <2>2. s[m(k)] # s[i]
    BY <2>1, <1>2 DEF NoRepeat
  <2> QED BY <2>1, <2>2 DEF ToSet
<1>5. ASSUME NEW n \in DOMAIN s, s[n] # s[i] PROVE \E k \in DOMAIN t : t[k] = s[n]
  <2>1. CASE n < i
    BY <1>1, <1>2, <2>1
  <2>2. CASE n > i
    <3>1. n - 1 \in DOMAIN t /\ t[n - 1] = s[n]
      BY <1>1, <1>2, <2>2
    <3> QED BY <3>1
  <2> QED BY <2>1, <2>2, <1>5, <1>2
<1>6. ToSet(t) = ToSet(s) \ {s[i]}
  BY <1>4, <1>5 DEF ToSet
<1>7. ASSUME NEW k \in DOMAIN t, NEW l \in DOMAIN t, t[k] = t[l] PROVE k = l
  <2>1. m(k) = m(l)
    BY <1>3, <1>7 DEF NoRepeat
  <2> QED BY <2>1, <1>2
<1> QED BY <1>1, <1>6, <1>7 DEF NoRepeat, t
\* Putting two sequences together puts their elements together.
LEMMA ConcatElements ==
    ASSUME NEW S, NEW s \in Seq(S), NEW t \in Seq(S)
    PROVE  /\ s \o t \in Seq(S)
           /\ ToSet(s \o t) = ToSet(s) \cup ToSet(t)
           /\ NoRepeat(s) /\ NoRepeat(t) /\ ToSet(s) \cap ToSet(t) = {} => NoRepeat(s \o t)
<1> DEFINE w == s \o t
<1>1. /\ w \in Seq(S) /\ Len(w) = Len(s) + Len(t)
      /\ \A i \in 1..(Len(s) + Len(t)) : w[i] = IF i <= Len(s) THEN s[i] ELSE t[i - Len(s)]
  BY ConcatProperties
<1> HIDE DEF w
<1>2. /\ DOMAIN w = 1..(Len(s) + Len(t)) /\ DOMAIN s = 1..Len(s) /\ DOMAIN t = 1..Len(t)
      /\ Len(s) \in Nat /\ Len(t) \in Nat
  BY <1>1
<1>3. ASSUME NEW i \in DOMAIN w
      PROVE  \/ i \in DOMAIN s /\ w[i] = s[i]
             \/ i - Len(s) \in DOMAIN t /\ w[i] = t[i - Len(s)]
  BY <1>1, <1>2
<1>4. ASSUME NEW i \in DOMAIN s PROVE i \in DOMAIN w /\ w[i] = s[i]
  BY <1>1, <1>2
<1>5. ASSUME NEW i \in DOMAIN t PROVE i + Len(s) \in DOMAIN w /\ w[i + Len(s)] = t[i]
  <2>1. i + Len(s) \in DOMAIN w /\ ~(i + Len(s) <= Len(s)) /\ (i + Len(s)) - Len(s) = i
    BY <1>2
  <2> QED BY <1>1, <1>2, <2>1
<1>6. ToSet(w) = ToSet(s) \cup ToSet(t)
  BY <1>3, <1>4, <1>5 DEF ToSet
<1>7. ASSUME NoRepeat(s), NoRepeat(t), ToSet(s) \cap ToSet(t) = {},
             NEW i \in DOMAIN w, NEW j \in DOMAIN w, w[i] = w[j]
      PROVE  i = j
  <2>0. i \in Int /\ j \in Int
    BY <1>2
  <2>1. CASE i \in DOMAIN s /\ w[i] = s[i] /\ j \in DOMAIN s /\ w[j] = s[j]
    BY <1>7, <2>1 DEF NoRepeat
  <2>2. CASE /\ i - Len(s) \in DOMAIN t /\ w[i] = t[i - Len(s)]
             /\ j - Len(s) \in DOMAIN t /\ w[j] = t[j - Len(s)]
    <3>1. i - Len(s) = j - Len(s)
      BY <1>7, <2>2 DEF NoRepeat
    <3> QED BY <3>1, <1>2, <2>0
  <2>3. CASE w[i] \in ToSet(s) /\ w[j] \in ToSet(t)
    BY <1>7, <2>3
  <2>4. CASE w[i] \in ToSet(t) /\ w[j] \in ToSet(s)
    BY <1>7, <2>4
  <2> QED BY <1>3, <2>1, <2>2, <2>3, <2>4 DEF ToSet
<1>8. NoRepeat(s) /\ NoRepeat(t) /\ ToSet(s) \cap ToSet(t) = {} => NoRepeat(w)
  BY <1>7 DEF NoRepeat
<1> QED BY <1>1, <1>6, <1>8 DEF w

\* FlattenSeq puts together more and more of the sequences.
LEMMA FlattenIs ==
    ASSUME NEW S, NEW s \in Seq(Seq(S)), Len(s) # 0
    PROVE  \E f \in [1 .. Len(s) -> Seq(S)] :
              /\ \A i \in 1 .. Len(s) : f[i] = IF i = 1 THEN s[i] ELSE f[i - 1] \o s[i]
              /\ FlattenSeq(s) = f[Len(s)]
<1> DEFINE n == Len(s)
           Ok(f, m) == \A i \in 1 .. m : f[i] = IF i = 1 THEN s[i] ELSE f[i - 1] \o s[i]
           Bad == { m \in 1 .. n : ~ \E f \in [1 .. m -> Seq(S)] : Ok(f, m) }
<1>0. n \in Nat /\ n > 0 /\ \A i \in 1 .. n : s[i] \in Seq(S)
  OBVIOUS
<1>1. Bad = {}
  <2> SUFFICES ASSUME Bad # {} PROVE FALSE
    OBVIOUS
  <2>1. Bad \in SUBSET Nat
    BY <1>0
  <2>2. PICK m \in Bad : \A k \in Bad : m <= k
    <3> HIDE DEF Bad
    <3> QED BY <2>1, Least
  <2>3. m \in 1 .. n
    OBVIOUS
  <2>4. CASE m = 1
    <3> DEFINE f == [i \in 1 .. 1 |-> s[1]]
    <3>1. f \in [1 .. 1 -> Seq(S)] /\ Ok(f, 1)
      BY <1>0
    <3> QED BY <2>4, <3>1
  <2>5. CASE m # 1
    <3>0. m - 1 \in 1 .. n /\ m \in Nat /\ ~(m <= m - 1)
      BY <2>3, <2>5, <1>0
    <3>1. m - 1 \notin Bad
      <4> HIDE DEF Bad
      <4> QED BY <2>2, <3>0
    <3>2. PICK f \in [1 .. m - 1 -> Seq(S)] : Ok(f, m - 1)
      BY <3>0, <3>1
    <3> DEFINE g == [i \in 1 .. m |-> IF i = m THEN f[m - 1] \o s[m] ELSE f[i]]
    <3>3. f[m - 1] \in Seq(S) /\ s[m] \in Seq(S) /\ f[m - 1] \o s[m] \in Seq(S)
      <4>1. f[m - 1] \in Seq(S) /\ s[m] \in Seq(S)
        BY <2>3, <2>5, <1>0
      <4> QED BY <4>1
    <3>4. g \in [1 .. m -> Seq(S)]
      BY <3>3, <2>3, <1>0
    <3>5. ASSUME NEW i \in 1 .. m PROVE g[i] = IF i = 1 THEN s[i] ELSE g[i - 1] \o s[i]
      <4>1. CASE i = m
        <5>1. g[m] = f[m - 1] \o s[m] /\ m - 1 \in 1 .. m /\ m - 1 # m /\ g[m - 1] = f[m - 1]
          <6>1. m \in 1 .. m /\ m - 1 \in 1 .. m /\ m - 1 # m
            BY <3>0, <2>3
          <6> QED BY <6>1
        <5> HIDE DEF g
        <5> QED BY <4>1, <5>1, <2>5
      <4>2. CASE i # m
        <5>1. i \in 1 .. m - 1 /\ g[i] = f[i] /\ (i # 1 => i - 1 \in 1 .. m /\ i - 1 # m /\ g[i - 1] = f[i - 1])
          BY <4>2, <2>3, <1>0
        <5>2. f[i] = IF i = 1 THEN s[i] ELSE f[i - 1] \o s[i]
          BY <3>2, <5>1
        <5> HIDE DEF g
        <5> QED BY <5>1, <5>2
      <4> QED BY <4>1, <4>2
    <3> HIDE DEF g
    <3>6. \E h \in [1 .. m -> Seq(S)] : Ok(h, m)
      BY <3>4, <3>5
    <3> QED BY <3>6
  <2> QED BY <2>4, <2>5
<1>2. PICK f \in [1 .. n -> Seq(S)] : Ok(f, n)
  <2>1. n \in 1 .. n
    BY <1>0
  <2>2. n \notin Bad
    <3> HIDE DEF Bad
    <3> QED BY <1>1
  <2> QED BY <2>1, <2>2
<1> DEFINE Def(h) == [i \in 1 .. n |-> IF i = 1 THEN s[i] ELSE h[i - 1] \o s[i]]
           F == CHOOSE h : h = Def(h)
<1>3. f = Def(f)
  <2>1. \A i \in 1 .. n : f[i] = Def(f)[i]
    BY <1>2
  <2> QED BY <2>1
<1>4. F = Def(F)
  <2> HIDE DEF Def
  <2> QED BY <1>3
<1>5. FlattenSeq(s) = F[n]
  BY <1>0 DEF FlattenSeq
<1> HIDE DEF F
<1>6. \A i \in 1 .. n : F[i] = IF i = 1 THEN s[i] ELSE F[i - 1] \o s[i]
  BY <1>4
<1> DEFINE Other == { i \in 1 .. n : F[i] # f[i] }
<1>7. Other = {}
  <2> SUFFICES ASSUME Other # {} PROVE FALSE
    OBVIOUS
  <2>1. Other \in SUBSET Nat
    BY <1>0
  <2>2. PICK m \in Other : \A k \in Other : m <= k
    <3> HIDE DEF Other
    <3> QED BY <2>1, Least
  <2>3. m \in 1 .. n /\ F[m] # f[m]
    OBVIOUS
  <2>4. m # 1
    BY <2>3, <1>6, <1>2
  <2>5. m - 1 \in 1 .. n /\ m - 1 \notin Other
    <3>1. m - 1 \in 1 .. n /\ ~(m <= m - 1)
      BY <2>3, <2>4, <1>0
    <3> HIDE DEF Other
    <3> QED BY <2>2, <3>1
  <2>6. F[m - 1] = f[m - 1]
    BY <2>5
  <2>7. F[m] = F[m - 1] \o s[m] /\ f[m] = f[m - 1] \o s[m]
    BY <2>3, <2>4, <1>6, <1>2
  <2> HIDE DEF Other
  <2> QED BY <2>3, <2>6, <2>7
<1>8. F[n] = f[n]
  <2>1. n \in 1 .. n
    BY <1>0
  <2> HIDE DEF n
  <2> QED BY <1>7, <2>1
<1> QED BY <1>2, <1>5, <1>8

\* What FlattenSeq puts together.
LEMMA FlattenElements ==
    ASSUME NEW S, NEW s \in Seq(Seq(S))
    PROVE  /\ FlattenSeq(s) \in Seq(S)
           /\ \A x : x \in ToSet(FlattenSeq(s)) <=> \E i \in DOMAIN s : x \in ToSet(s[i])
           /\ (\A i \in DOMAIN s : NoRepeat(s[i])) /\ (\A i, j \in DOMAIN s : i # j => ToSet(s[i]) \cap ToSet(s[j]) = {})
                => NoRepeat(FlattenSeq(s))
<1> DEFINE n == Len(s)
           Apart == (\A i \in DOMAIN s : NoRepeat(s[i])) /\ (\A i, j \in DOMAIN s : i # j => ToSet(s[i]) \cap ToSet(s[j]) = {})
<1>0. n \in Nat /\ DOMAIN s = 1 .. n /\ \A i \in 1 .. n : s[i] \in Seq(S)
  OBVIOUS
<1>1. CASE n = 0
  <2>1. FlattenSeq(s) = s /\ s = <<>> /\ DOMAIN s = {}
    BY <1>1, <1>0 DEF FlattenSeq
  <2> QED BY <2>1 DEF ToSet, NoRepeat
<1>2. CASE n # 0
  <2>1. PICK f \in [1 .. n -> Seq(S)] :
              /\ \A i \in 1 .. n : f[i] = IF i = 1 THEN s[i] ELSE f[i - 1] \o s[i]
              /\ FlattenSeq(s) = f[n]
    BY <1>2, FlattenIs
  <2> DEFINE Right(m) == /\ \A x : x \in ToSet(f[m]) <=> \E i \in 1 .. m : x \in ToSet(s[i])
                         /\ Apart => NoRepeat(f[m])
             Wrong == { m \in 1 .. n : ~Right(m) }
  <2>2. Right(1)
    <3>1. f[1] = s[1] /\ 1 .. 1 = {1} /\ 1 \in DOMAIN s
      BY <2>1, <1>0, <1>2
    <3>2. \A x : x \in ToSet(f[1]) <=> \E i \in 1 .. 1 : x \in ToSet(s[i])
      BY <3>1
    <3>3. Apart => NoRepeat(f[1])
      BY <3>1
    <3> QED BY <3>2, <3>3
  <2>3. ASSUME NEW m \in 1 .. n, m # 1, Right(m - 1) PROVE Right(m)
    <3>1. f[m] = f[m - 1] \o s[m] /\ f[m - 1] \in Seq(S) /\ s[m] \in Seq(S) /\ m \in DOMAIN s
      <4>1. m - 1 \in 1 .. n
      BY <2>3, <1>0
    <4> QED BY <2>1, <2>3, <1>0, <4>1
    <3>2. ToSet(f[m]) = ToSet(f[m - 1]) \cup ToSet(s[m])
      BY <3>1, ConcatElements
    <3>3. \A i : i \in 1 .. m <=> i \in 1 .. m - 1 \/ i = m
      BY <2>3, <1>0
    <3>4. \A x : x \in ToSet(f[m]) <=> \E i \in 1 .. m : x \in ToSet(s[i])
      BY <3>2, <3>3, <2>3
    <3>5. ASSUME Apart PROVE NoRepeat(f[m])
      <4>1. NoRepeat(f[m - 1]) /\ NoRepeat(s[m])
        BY <3>5, <3>1, <2>3
      <4>2. \A i \in 1 .. m - 1 : i \in DOMAIN s /\ i # m
        BY <2>3, <1>0
      <4>3. ToSet(f[m - 1]) \cap ToSet(s[m]) = {}
        BY <3>5, <3>1, <4>2, <2>3
      <4> QED BY <3>1, <4>1, <4>3, ConcatElements
    <3> QED BY <3>4, <3>5
  <2>4. Wrong = {}
    <3> SUFFICES ASSUME Wrong # {} PROVE FALSE
      OBVIOUS
    <3>1. Wrong \in SUBSET Nat
      BY <1>0
    <3>2. PICK m \in Wrong : \A k \in Wrong : m <= k
      <4> HIDE DEF Wrong
      <4> QED BY <3>1, Least
    <3> HIDE DEF Right
    <3>3. m \in 1 .. n /\ ~Right(m)
      OBVIOUS
    <3>4. m # 1
      BY <2>2, <3>3
    <3>5. m - 1 \in 1 .. n /\ m - 1 \notin Wrong
      BY <3>2, <3>3, <3>4, <1>0
    <3> QED BY <2>3, <3>3, <3>4, <3>5
  <2>5. Right(n)
    <3>1. n \in 1 .. n
      BY <1>0, <1>2
    <3>2. n \notin Wrong
      <4> HIDE DEF Wrong
      <4> QED BY <2>4
    <3> HIDE DEF Right
    <3> QED BY <3>1, <3>2
  <2>6. FlattenSeq(s) = f[n] /\ f[n] \in Seq(S)
    BY <2>1, <1>0, <1>2
  <2> QED BY <2>5, <2>6, <1>0
<1> QED BY <1>1, <1>2

\* A sequence of one element.
LEMMA SingleElement ==
    ASSUME NEW S, NEW e \in S
    PROVE  <<e>> \in Seq(S) /\ ToSet(<<e>>) = {e} /\ NoRepeat(<<e>>)
<1>1. <<e>> \in Seq(S) /\ DOMAIN <<e>> = {1} /\ <<e>>[1] = e
  OBVIOUS
<1> QED BY <1>1 DEF ToSet, NoRepeat

\* An element put in front of a sequence where it is not.
LEMMA ConsElements ==
    ASSUME NEW S, NEW s \in Seq(S), NEW e \in S
    PROVE  /\ <<e>> \o s \in Seq(S)
           /\ ToSet(<<e>> \o s) = ToSet(s) \cup {e}
           /\ NoRepeat(s) /\ e \notin ToSet(s) => NoRepeat(<<e>> \o s)
<1>1. <<e>> \in Seq(S) /\ ToSet(<<e>>) = {e} /\ NoRepeat(<<e>>)
  BY SingleElement
<1> DEFINE m == <<e>>
<1> HIDE DEF m
<1>2. /\ m \o s \in Seq(S)
      /\ ToSet(m \o s) = ToSet(m) \cup ToSet(s)
      /\ NoRepeat(m) /\ NoRepeat(s) /\ ToSet(m) \cap ToSet(s) = {} => NoRepeat(m \o s)
  BY <1>1, ConcatElements DEF m
<1> QED BY <1>1, <1>2 DEF m

\* An element put at the end of a sequence where it is not.
LEMMA AppendElements ==
    ASSUME NEW S, NEW s \in Seq(S), NEW e \in S
    PROVE  /\ Append(s, e) \in Seq(S)
           /\ ToSet(Append(s, e)) = ToSet(s) \cup {e}
           /\ NoRepeat(s) /\ e \notin ToSet(s) => NoRepeat(Append(s, e))
<1> DEFINE m == <<e>>
<1>1. m \in Seq(S) /\ ToSet(m) = {e} /\ NoRepeat(m) /\ Append(s, e) = s \o m
  BY SingleElement
<1> HIDE DEF m
<1>2. /\ s \o m \in Seq(S) /\ ToSet(s \o m) = ToSet(s) \cup ToSet(m)
      /\ NoRepeat(s) /\ NoRepeat(m) /\ ToSet(s) \cap ToSet(m) = {} => NoRepeat(s \o m)
  BY <1>1, ConcatElements
<1> QED BY <1>1, <1>2

\* The head of a sequence without repetition is in it, and not in its tail.
LEMMA TailElements ==
    ASSUME NEW S, NEW s \in Seq(S), Len(s) > 0, NoRepeat(s)
    PROVE  /\ Head(s) \in ToSet(s) /\ Head(s) \in S
           /\ Tail(s) \in Seq(S) /\ ToSet(Tail(s)) = ToSet(s) \ {Head(s)}
           /\ NoRepeat(Tail(s))
<1>0. s # <<>> /\ Len(s) \in Nat /\ DOMAIN s = 1..Len(s) /\ Head(s) = s[1]
  OBVIOUS
<1>1. /\ Tail(s) \in Seq(S) /\ Len(Tail(s)) = Len(s) - 1
      /\ \A i \in 1..Len(Tail(s)) : Tail(s)[i] = s[i + 1]
  BY <1>0, HeadTailProperties
<1> DEFINE t == Tail(s)
<1>2. DOMAIN t = 1..(Len(s) - 1)
  BY <1>1
<1>3. \A i \in 1..(Len(s) - 1) : t[i] = s[i + 1] /\ i + 1 \in DOMAIN s /\ i + 1 # 1
  BY <1>0, <1>1
<1> HIDE DEF t
<1>4. Head(s) \in ToSet(s) /\ Head(s) \in S
  BY <1>0 DEF ToSet
<1>5. ASSUME NEW x \in ToSet(t) PROVE x \in ToSet(s) \ {Head(s)}
  <2>1. PICK i \in 1..(Len(s) - 1) : x = s[i + 1] /\ i + 1 \in DOMAIN s /\ i + 1 # 1
    BY <1>2, <1>3 DEF ToSet
  <2>2. 1 \in DOMAIN s
    BY <1>0
  <2>3. s[i + 1] # s[1]
    BY <2>1, <2>2 DEF NoRepeat
  <2> QED BY <1>0, <2>1, <2>3 DEF ToSet
<1>6. ASSUME NEW x \in ToSet(s), x # Head(s) PROVE x \in ToSet(t)
  <2>1. PICK j \in DOMAIN s : x = s[j]
    BY DEF ToSet
  <2>2. j - 1 \in 1..(Len(s) - 1) /\ (j - 1) + 1 = j
    BY <1>0, <1>6, <2>1
  <2>3. t[j - 1] = x
    BY <1>3, <2>1, <2>2
  <2> QED BY <1>2, <2>2, <2>3 DEF ToSet
<1>7. NoRepeat(t)
  <2> SUFFICES ASSUME NEW i \in DOMAIN t, NEW j \in DOMAIN t, t[i] = t[j] PROVE i = j
    BY DEF NoRepeat
  <2>1. i + 1 = j + 1
    BY <1>2, <1>3 DEF NoRepeat
  <2> QED BY <1>2, <2>1
<1> QED BY <1>1, <1>4, <1>5, <1>6, <1>7 DEF t

\* Removing an element of a queue without repetition, or one that is not there.
LEMMA RemoveFirstElements ==
    ASSUME NEW S, NEW s \in Seq(S), NEW e, NoRepeat(s)
    PROVE  /\ RemoveFirst(s, e) \in Seq(S)
           /\ ToSet(RemoveFirst(s, e)) = ToSet(s) \ {e}
           /\ NoRepeat(RemoveFirst(s, e))
<1> DEFINE I == { i \in 1 .. Len(s) : s[i] = e }
<1>0. DOMAIN s = 1 .. Len(s) /\ Len(s) \in Nat
  OBVIOUS
<1>1. CASE I # {}
  <2>1. I \in SUBSET Nat
    BY <1>0
  <2>2. Min(I) \in I
    BY <1>1, <2>1, Least DEF Min
  <2>3. RemoveFirst(s, e) = RemoveAt(s, Min(I))
    BY <1>1 DEF RemoveFirst, SelectInSeq
  <2>4. PICK m \in 1 .. Len(s) : s[m] = e /\ m = Min(I)
    BY <2>2
  <2>5. /\ RemoveAt(s, m) \in Seq(S) /\ ToSet(RemoveAt(s, m)) = ToSet(s) \ {s[m]}
        /\ NoRepeat(RemoveAt(s, m))
    BY RemoveAtElements
  <2>6. RemoveFirst(s, e) = RemoveAt(s, m)
    BY <2>3, <2>4
  <2> QED BY <2>4, <2>5, <2>6
<1>2. CASE I = {}
  <2>1. RemoveFirst(s, e) = s
    BY <1>2 DEF RemoveFirst
  <2>2. e \notin ToSet(s)
    BY <1>0, <1>2 DEF ToSet
  <2> QED BY <2>1, <2>2
<1> QED BY <1>1, <1>2

\* The end of a sequence, from its place i on.
LEMMA SuffixShape ==
    ASSUME NEW S, NEW s \in Seq(S), NEW i \in 0..Len(s)
    PROVE  LET t == SubSeq(s, i + 1, Len(s))
           IN  t \in Seq(S) /\ Len(t) = Len(s) - i /\ \A k \in 1..(Len(s) - i) : t[k] = s[i + k]
<1>1. Len(s) \in Nat /\ \A k \in (i + 1)..Len(s) : s[k] \in S
  OBVIOUS
<1>2. /\ SubSeq(s, i + 1, Len(s)) \in Seq(S)
      /\ Len(SubSeq(s, i + 1, Len(s))) = IF i + 1 <= Len(s) THEN Len(s) - (i + 1) + 1 ELSE 0
      /\ \A k \in 1..(Len(s) - (i + 1) + 1) : SubSeq(s, i + 1, Len(s))[k] = s[i + 1 + k - 1]
  BY <1>1, SubSeqProperties
<1> DEFINE t == SubSeq(s, i + 1, Len(s))
<1> HIDE DEF t
<1>3. t \in Seq(S) /\ Len(t) = Len(s) - i /\ \A k \in 1..(Len(s) - i) : t[k] = s[i + k]
  <2>1. /\ t \in Seq(S)
        /\ Len(t) = IF i + 1 <= Len(s) THEN Len(s) - (i + 1) + 1 ELSE 0
        /\ \A k \in 1..(Len(s) - (i + 1) + 1) : t[k] = s[i + 1 + k - 1]
    BY <1>2 DEF t
  <2> QED BY <1>1, <2>1
<1> QED BY <1>3 DEF t

\* The first n elements of a part of a sequence.
LEMMA PrefixShape ==
    ASSUME NEW S, NEW s \in Seq(S), NEW i \in 0..Len(s), NEW n \in 0..(Len(s) - i)
    PROVE  LET t == SubSeq(s, i + 1, i + n)
           IN  t \in Seq(S) /\ Len(t) = n /\ \A k \in 1..n : t[k] = s[i + k]
<1>1. Len(s) \in Nat /\ \A k \in (i + 1)..(i + n) : s[k] \in S
  OBVIOUS
<1>2. /\ SubSeq(s, i + 1, i + n) \in Seq(S)
      /\ Len(SubSeq(s, i + 1, i + n)) = IF i + 1 <= i + n THEN i + n - (i + 1) + 1 ELSE 0
      /\ \A k \in 1..(i + n - (i + 1) + 1) : SubSeq(s, i + 1, i + n)[k] = s[i + 1 + k - 1]
  BY <1>1, SubSeqProperties
<1> DEFINE t == SubSeq(s, i + 1, i + n)
<1> HIDE DEF t
<1>3. t \in Seq(S) /\ Len(t) = n /\ \A k \in 1..n : t[k] = s[i + k]
  <2>1. /\ t \in Seq(S)
        /\ Len(t) = IF i + 1 <= i + n THEN i + n - (i + 1) + 1 ELSE 0
        /\ \A k \in 1..(i + n - (i + 1) + 1) : t[k] = s[i + 1 + k - 1]
    BY <1>2 DEF t
  <2>2. i \in Int /\ n \in Int /\ i + n - (i + 1) + 1 = n
    BY <1>1
  <2>3. Len(t) = n
    BY <2>1, <2>2
  <2>4. \A k \in 1..n : t[k] = s[i + k]
    BY <2>1, <2>2
  <2> QED BY <2>1, <2>3, <2>4
<1> QED BY <1>3 DEF t

\* Taking n elements from the end of a sequence leaves its end from a later place.
LEMMA SuffixTaken ==
    ASSUME NEW S, NEW s \in Seq(S), NEW i \in 0..Len(s), NEW n \in 0..(Len(s) - i)
    PROVE  LET t == SubSeq(s, i + 1, Len(s))
           IN  /\ SubSeq(s, i + 1, i + n) = SubSeq(t, 1, n)
               /\ SubSeq(s, i + n + 1, Len(s)) = SubSeq(t, n + 1, Len(t))
<1> DEFINE t == SubSeq(s, i + 1, Len(s))
<1>1. t \in Seq(S) /\ Len(t) = Len(s) - i /\ \A k \in 1..(Len(s) - i) : t[k] = s[i + k]
  BY SuffixShape
<1> HIDE DEF t
<1>2. Len(s) \in Nat /\ n \in 0..Len(t) /\ n \in 0..(Len(t) - 0) /\ i + n \in 0..Len(s)
  BY <1>1
<1>3. SubSeq(s, i + 1, i + n) = SubSeq(t, 1, n)
  <2> DEFINE a == SubSeq(s, i + 1, i + n)
             b == SubSeq(t, 0 + 1, 0 + n)
  <2>1. a \in Seq(S) /\ Len(a) = n /\ \A k \in 1..n : a[k] = s[i + k]
    BY PrefixShape
  <2>2. 0 \in 0..Len(t)
    BY <1>1
  <2>3. b \in Seq(S) /\ Len(b) = n /\ \A k \in 1..n : b[k] = t[0 + k]
    BY <1>1, <1>2, <2>2, PrefixShape
  <2>4. b = SubSeq(t, 1, n)
    BY <1>2
  <2> HIDE DEF a, b
  <2>5. ASSUME NEW k \in 1..Len(a) PROVE a[k] = b[k]
    <3>1. k \in 1..n /\ k \in 1..(Len(s) - i) /\ 0 + k = k
      BY <1>1, <1>2, <2>1
    <3> QED BY <1>1, <2>1, <2>3, <3>1
  <2>6. a = b
    BY <2>1, <2>3, <2>5, SeqEqual
  <2> QED BY <2>4, <2>6 DEF a
<1>4. SubSeq(s, i + n + 1, Len(s)) = SubSeq(t, n + 1, Len(t))
  <2> DEFINE a == SubSeq(s, (i + n) + 1, Len(s))
             b == SubSeq(t, n + 1, Len(t))
  <2>1. a \in Seq(S) /\ Len(a) = Len(s) - (i + n) /\ \A k \in 1..(Len(s) - (i + n)) : a[k] = s[(i + n) + k]
    BY <1>2, SuffixShape
  <2>2. b \in Seq(S) /\ Len(b) = Len(t) - n /\ \A k \in 1..(Len(t) - n) : b[k] = t[n + k]
    BY <1>1, <1>2, SuffixShape
  <2> HIDE DEF a, b
  <2>3. Len(a) = Len(b) /\ Len(a) = Len(s) - (i + n)
    BY <1>1, <1>2, <2>1, <2>2
  <2>4. ASSUME NEW k \in 1..Len(a) PROVE a[k] = b[k]
    <3>1. k \in 1..(Len(s) - (i + n)) /\ k \in 1..(Len(t) - n) /\ n + k \in 1..(Len(s) - i) /\ i + (n + k) = (i + n) + k
      BY <1>1, <1>2, <2>3
    <3>2. a[k] = s[(i + n) + k] /\ b[k] = t[n + k] /\ t[n + k] = s[i + (n + k)]
      BY <1>1, <2>1, <2>2, <3>1
    <3> QED BY <3>1, <3>2
  <2>5. a = b
    BY <2>1, <2>2, <2>3, <2>4, SeqEqual
  <2> QED BY <2>5 DEF a, b
<1> QED BY <1>3, <1>4 DEF t

\* Elements added to a sequence are added to its end.
LEMMA SuffixAdded ==
    ASSUME NEW S, NEW s \in Seq(S), NEW u \in Seq(S), NEW i \in 0..Len(s)
    PROVE  SubSeq(s \o u, i + 1, Len(s \o u)) = SubSeq(s, i + 1, Len(s)) \o u
<1> DEFINE w == s \o u
           t == SubSeq(s, i + 1, Len(s))
           a == SubSeq(w, i + 1, Len(w))
           b == t \o u
<1>1. /\ w \in Seq(S) /\ Len(w) = Len(s) + Len(u)
      /\ \A k \in 1..(Len(s) + Len(u)) : w[k] = IF k <= Len(s) THEN s[k] ELSE u[k - Len(s)]
  BY ConcatProperties
<1>2. t \in Seq(S) /\ Len(t) = Len(s) - i /\ \A k \in 1..(Len(s) - i) : t[k] = s[i + k]
  BY SuffixShape
<1> HIDE DEF w, t
<1>3. Len(s) \in Nat /\ Len(u) \in Nat /\ i \in 0..Len(w)
  BY <1>1
<1>4. a \in Seq(S) /\ Len(a) = Len(w) - i /\ \A k \in 1..(Len(w) - i) : a[k] = w[i + k]
  BY <1>1, <1>3, SuffixShape
<1>5. /\ b \in Seq(S) /\ Len(b) = Len(t) + Len(u)
      /\ \A k \in 1..(Len(t) + Len(u)) : b[k] = IF k <= Len(t) THEN t[k] ELSE u[k - Len(t)]
  BY <1>2, ConcatProperties
<1> HIDE DEF a, b
<1>6. Len(a) = Len(b) /\ Len(a) \in Nat
  BY <1>1, <1>2, <1>3, <1>4, <1>5
<1>7. ASSUME NEW k \in 1..Len(a) PROVE a[k] = b[k]
  <2>1. a[k] = w[i + k] /\ i + k \in 1..(Len(s) + Len(u)) /\ k \in 1..(Len(t) + Len(u)) /\ k \in Nat
    BY <1>1, <1>3, <1>4, <1>5, <1>6
  <2>2. CASE k <= Len(t)
    BY <1>1, <1>2, <1>3, <1>5, <2>1, <2>2
  <2>3. CASE ~(k <= Len(t))
    <3>1. ~(i + k <= Len(s)) /\ i + k - Len(s) = k - Len(t)
      BY <1>2, <1>3, <2>1, <2>3
    <3>2. w[i + k] = u[i + k - Len(s)]
      BY <1>1, <2>1, <3>1
    <3>3. b[k] = u[k - Len(t)]
      BY <1>5, <2>1, <2>3
    <3> QED BY <2>1, <3>1, <3>2, <3>3
  <2> QED BY <2>2, <2>3
<1>8. a = b
  BY <1>4, <1>5, <1>6, <1>7, SeqEqual
<1> QED BY <1>8 DEF a, b, w, t
=============================================================================
