---------------------------- MODULE QueueLemmas ----------------------------
(***************************************************************************)
(* Facts about the sequences that model the queues of fdmi_queue.c and the *)
(* work queues of a queue pair: which entries an operation leaves behind.  *)
(***************************************************************************)
EXTENDS Integers, Sequences, SequencesExt, SequenceTheorems,
        WellFoundedInduction, NaturalsInduction, TLAPS

\* Appending (fdmi_queue_enq) keeps the entries and adds one.
LEMMA AppendEntries ==
    ASSUME NEW S, NEW q \in Seq(S), NEW x \in S
    PROVE  /\ Append(q, x) \in Seq(S)
           /\ \A j \in DOMAIN Append(q, x) :
                 \/ Append(q, x)[j] = x
                 \/ \E k \in DOMAIN q : Append(q, x)[j] = q[k]
<1>1. /\ Append(q, x) \in Seq(S) /\ Len(Append(q, x)) = Len(q) + 1
      /\ DOMAIN Append(q, x) = 1 .. Len(q) + 1 /\ DOMAIN q = 1 .. Len(q)
      /\ Append(q, x)[Len(q) + 1] = x
      /\ \A j \in 1 .. Len(q) : Append(q, x)[j] = q[j]
      OBVIOUS
<1> QED BY <1>1, LenProperties

\* Taking the head (fdmi_queue_deq) leaves entries of the queue.
LEMMA TailEntries ==
    ASSUME NEW S, NEW q \in Seq(S), q # <<>>
    PROVE  /\ Head(q) \in S /\ 1 \in DOMAIN q /\ Head(q) = q[1]
           /\ Tail(q) \in Seq(S)
           /\ \A j \in DOMAIN Tail(q) : \E k \in DOMAIN q : Tail(q)[j] = q[k]
<1>1. /\ Head(q) \in S /\ Tail(q) \in Seq(S) /\ Len(Tail(q)) = Len(q) - 1
      /\ \A j \in 1 .. Len(Tail(q)) : Tail(q)[j] = q[j + 1]
      BY HeadTailProperties
<1>2. /\ Len(q) \in Nat \ {0} /\ DOMAIN q = 1 .. Len(q)
      /\ DOMAIN Tail(q) = 1 .. Len(Tail(q)) /\ Head(q) = q[1]
      BY <1>1, EmptySeq, LenProperties
<1> QED BY <1>1, <1>2

\* A contiguous part of a queue consists of entries of the queue.
LEMMA SubSeqEntries ==
    ASSUME NEW S, NEW q \in Seq(S), NEW m \in 1 .. Len(q) + 1, NEW n \in 0 .. Len(q)
    PROVE  /\ SubSeq(q, m, n) \in Seq(S)
           /\ \A j \in DOMAIN SubSeq(q, m, n) :
                 \E k \in DOMAIN q : SubSeq(q, m, n)[j] = q[k]
<1>1. Len(q) \in Nat /\ DOMAIN q = 1 .. Len(q)
      BY LenProperties
<1>2. \A i \in m .. n : q[i] \in S
      BY <1>1, ElementOfSeq
<1>3. /\ SubSeq(q, m, n) \in Seq(S)
      /\ Len(SubSeq(q, m, n)) = IF m <= n THEN n - m + 1 ELSE 0
      /\ \A i \in 1 .. n - m + 1 : SubSeq(q, m, n)[i] = q[m + i - 1]
      BY <1>1, <1>2, SubSeqProperties
<1>4. DOMAIN SubSeq(q, m, n) = 1 .. Len(SubSeq(q, m, n))
      BY <1>3, LenProperties
<1>5. ASSUME NEW j \in 1 .. n - m + 1
      PROVE  m + j - 1 \in 1 .. Len(q)
      BY <1>1
<1> QED BY <1>1, <1>3, <1>4, <1>5

\* Removing one entry (fdmi_queue_remove) leaves entries of the queue.
LEMMA RemoveAtEntries ==
    ASSUME NEW S, NEW q \in Seq(S), NEW i \in 1 .. Len(q)
    PROVE  /\ RemoveAt(q, i) \in Seq(S)
           /\ \A j \in DOMAIN RemoveAt(q, i) :
                 \E k \in DOMAIN q : RemoveAt(q, i)[j] = q[k]
<1> DEFINE a == SubSeq(q, 1, i - 1)
           b == SubSeq(q, i + 1, Len(q))
<1>1. Len(q) \in Nat /\ i \in Nat /\ 1 <= i /\ i <= Len(q)
      BY LenProperties
<1>2. /\ a \in Seq(S)
      /\ \A j \in DOMAIN a : \E k \in DOMAIN q : a[j] = q[k]
      BY <1>1, SubSeqEntries
<1>3. /\ b \in Seq(S)
      /\ \A j \in DOMAIN b : \E k \in DOMAIN q : b[j] = q[k]
      BY <1>1, SubSeqEntries
<1>4. RemoveAt(q, i) = a \o b
      BY DEF RemoveAt
<1> HIDE DEF a, b
<1>5. a \o b \in Seq(S)
      BY <1>2, <1>3, ConcatProperties
<1>6. /\ DOMAIN a = 1 .. Len(a) /\ DOMAIN b = 1 .. Len(b)
      /\ DOMAIN (a \o b) = 1 .. Len(a) + Len(b)
      /\ Len(a) \in Nat /\ Len(b) \in Nat
      BY <1>2, <1>3, <1>5, ConcatProperties, LenProperties
<1>7. ASSUME NEW j \in 1 .. Len(a) + Len(b)
      PROVE  \E k \in DOMAIN q : (a \o b)[j] = q[k]
  <2>1. CASE j <= Len(a)
    <3>1. (a \o b)[j] = a[j] /\ j \in 1 .. Len(a)
          BY <1>2, <1>3, <1>6, <2>1, ConcatProperties
    <3> QED BY <3>1, <1>2, <1>6
  <2>2. CASE j > Len(a)
    <3>1. (a \o b)[j] = b[j - Len(a)] /\ j - Len(a) \in 1 .. Len(b)
          BY <1>2, <1>3, <1>6, <2>2, ConcatProperties
    <3> QED BY <3>1, <1>3, <1>6
  <2> QED BY <2>1, <2>2, <1>6
<1> QED BY <1>4, <1>5, <1>6, <1>7

\* What RemoveAt (fdmi_queue_remove) leaves at each place.
LEMMA RemoveAtPoints ==
    ASSUME NEW S, NEW q \in Seq(S), NEW i \in 1 .. Len(q)
    PROVE  /\ RemoveAt(q, i) \in Seq(S) /\ Len(RemoveAt(q, i)) = Len(q) - 1
           /\ \A j \in 1 .. Len(q) - 1 : RemoveAt(q, i)[j] = IF j < i THEN q[j] ELSE q[j + 1]
<1> DEFINE a == SubSeq(q, 1, i - 1)
           b == SubSeq(q, i + 1, Len(q))
<1>1. Len(q) \in Nat /\ i \in Nat /\ 1 <= i /\ i <= Len(q)
      BY LenProperties
<1>2. /\ a \in Seq(S) /\ Len(a) = i - 1
      /\ \A j \in 1 .. i - 1 : a[j] = q[j]
      BY <1>1, SubSeqProperties
<1>3. /\ b \in Seq(S) /\ Len(b) = Len(q) - i
      /\ \A j \in 1 .. Len(q) - i : b[j] = q[i + j]
  <2>1. \A j \in (i + 1) .. Len(q) : q[j] \in S
        BY <1>1, ElementOfSeq
  <2>2. /\ b \in Seq(S)
        /\ Len(b) = IF i + 1 <= Len(q) THEN Len(q) - (i + 1) + 1 ELSE 0
        /\ \A j \in 1 .. Len(q) - (i + 1) + 1 : b[j] = q[(i + 1) + j - 1]
        BY <1>1, <2>1, SubSeqProperties
  <2> QED BY <1>1, <2>2
<1>4. RemoveAt(q, i) = a \o b
      BY DEF RemoveAt
<1> HIDE DEF a, b
<1>5. /\ a \o b \in Seq(S) /\ Len(a \o b) = Len(q) - 1
      /\ \A j \in 1 .. Len(q) - 1 : (a \o b)[j] = IF j <= i - 1 THEN a[j] ELSE b[j - (i - 1)]
  <2>1. /\ a \o b \in Seq(S) /\ Len(a \o b) = Len(a) + Len(b)
        /\ \A j \in 1 .. Len(a) + Len(b) : (a \o b)[j] = IF j <= Len(a) THEN a[j] ELSE b[j - Len(a)]
        BY <1>2, <1>3, ConcatProperties
  <2>2. Len(a) + Len(b) = Len(q) - 1
        BY <1>1, <1>2, <1>3
  <2> QED BY <1>2, <2>1, <2>2
<1>6. ASSUME NEW j \in 1 .. Len(q) - 1
      PROVE  (a \o b)[j] = IF j < i THEN q[j] ELSE q[j + 1]
  <2>1. CASE j < i
        BY <1>1, <1>2, <1>5, <2>1
  <2>2. CASE ~ (j < i)
    <3>1. j - (i - 1) \in 1 .. Len(q) - i /\ i + (j - (i - 1)) = j + 1
          BY <1>1, <2>2
    <3>2. ~ (j <= i - 1)
          BY <1>1, <2>2
    <3>3. (a \o b)[j] = b[j - (i - 1)]
          BY <1>5, <3>2
    <3> QED BY <1>3, <2>2, <3>1, <3>3
  <2> QED BY <2>1, <2>2
<1> QED BY <1>4, <1>5, <1>6

\* The least of a set of places.
LEMMA LeastPlace ==
    ASSUME NEW I, I \subseteq Nat, I # {}
    PROVE  Min(I) \in I /\ \A y \in I : Min(I) <= y
<1> DEFINE R == {ss \in Nat \X Nat : ss[1] < ss[2]}
<1>0. IsWellFoundedOn(R, Nat)
      BY NatLessThanWellFounded, Zenon DEF OpToRel
<1>2. PICK m \in I : \A y \in I : ~ (<<y, m>> \in R)
  <2> HIDE DEF R
  <2> QED BY <1>0, WFMin
<1>3. ASSUME NEW y \in I PROVE m <= y
  <2>1. y \in Nat /\ m \in Nat
        OBVIOUS
  <2>2. <<y, m>> \notin R
        BY <1>2
  <2>3. ~ (y < m)
        BY <2>1, <2>2
  <2> QED BY <2>1, <2>3
<1> QED BY <1>3 DEF Min

\* Removing the first occurrence of an entry leaves a queue.
LEMMA RemoveFirstType ==
    ASSUME NEW S, NEW q \in Seq(S), NEW e
    PROVE  RemoveFirst(q, e) \in Seq(S)
<1> DEFINE I == {i \in 1 .. Len(q) : q[i] = e}
<1>1. CASE I = {}
      BY <1>1 DEF RemoveFirst
<1>2. CASE I # {}
  <2>1. I \subseteq Nat
        BY LenProperties
  <2>2. Min(I) \in I
    <3> HIDE DEF I
    <3> QED BY <1>2, <2>1, LeastPlace
  <2>3. RemoveFirst(q, e) = RemoveAt(q, Min(I))
        BY <1>2 DEF RemoveFirst, SelectInSeq
  <2> QED BY <2>2, <2>3, RemoveAtEntries
<1> QED BY <1>1, <1>2

\* An entry that is put at the end of a queue without repetitions.
LEMMA PutLast ==
    ASSUME NEW S, NEW s \in Seq(S), NEW x \in S
    PROVE  /\ Append(s, x) \in Seq(S)
           /\ Range(Append(s, x)) = Range(s) \cup {x}
           /\ IsInjective(s) /\ x \notin Range(s) => IsInjective(Append(s, x))
<1>1. /\ Append(s, x) \in Seq(S) /\ Len(s) \in Nat
      /\ DOMAIN Append(s, x) = 1 .. Len(s) + 1 /\ DOMAIN s = 1 .. Len(s)
      /\ Append(s, x)[Len(s) + 1] = x
      /\ \A j \in 1 .. Len(s) : Append(s, x)[j] = s[j]
      BY LenProperties
<1> DEFINE a == Append(s, x)
<1> HIDE DEF a
<1>2. /\ DOMAIN a = 1 .. Len(s) + 1 /\ a[Len(s) + 1] = x
      /\ \A j \in 1 .. Len(s) : a[j] = s[j]
      BY <1>1 DEF a
<1>3. Range(a) = Range(s) \cup {x}
  <2>1. \A y \in Range(a) : y \in Range(s) \cup {x}
        BY <1>1, <1>2 DEF Range
  <2>2. \A y \in Range(s) \cup {x} : y \in Range(a)
        BY <1>1, <1>2 DEF Range
  <2> QED BY <2>1, <2>2
<1>4. ASSUME IsInjective(s), x \notin Range(s) PROVE IsInjective(a)
  <2>1. \A j \in 1 .. Len(s) : s[j] # x
        BY <1>1, <1>4 DEF Range
  <2> QED BY <1>1, <1>2, <1>4, <2>1 DEF IsInjective
<1> QED BY <1>1, <1>3, <1>4 DEF a

\* Taking the head of a queue without repetitions.
LEMMA TakeFirst ==
    ASSUME NEW S, NEW s \in Seq(S), s # <<>>
    PROVE  /\ Head(s) \in S /\ Head(s) \in Range(s) /\ Tail(s) \in Seq(S)
           /\ IsInjective(s) => /\ IsInjective(Tail(s))
                               /\ Range(Tail(s)) = Range(s) \ {Head(s)}
<1>1. /\ Head(s) \in S /\ Tail(s) \in Seq(S) /\ Len(Tail(s)) = Len(s) - 1
      /\ \A j \in 1 .. Len(Tail(s)) : Tail(s)[j] = s[j + 1]
      BY HeadTailProperties
<1>2. /\ Len(s) \in Nat \ {0} /\ DOMAIN s = 1 .. Len(s)
      /\ DOMAIN Tail(s) = 1 .. Len(Tail(s)) /\ Head(s) = s[1]
      BY <1>1, EmptySeq, LenProperties
<1> DEFINE a == Tail(s)
           h == Head(s)
<1> HIDE DEF a, h
<1>3. /\ DOMAIN a = 1 .. Len(s) - 1 /\ h = s[1]
      /\ \A j \in 1 .. Len(s) - 1 : a[j] = s[j + 1]
      BY <1>1, <1>2 DEF a, h
<1>4. h \in Range(s)
      BY <1>2, <1>3 DEF Range
<1>5. ASSUME IsInjective(s) PROVE IsInjective(a) /\ Range(a) = Range(s) \ {h}
  <2>1. IsInjective(a)
        BY <1>2, <1>3, <1>5 DEF IsInjective
  <2>2. \A y \in Range(a) : y \in Range(s) \ {h}
        BY <1>2, <1>3, <1>5 DEF IsInjective, Range
  <2>3. ASSUME NEW y \in Range(s), y # h PROVE y \in Range(a)
    <3>1. PICK j \in 1 .. Len(s) : y = s[j]
          BY <1>2 DEF Range
    <3>2. j - 1 \in 1 .. Len(s) - 1 /\ a[j - 1] = y
          BY <1>2, <1>3, <2>3, <3>1
    <3> QED BY <1>3, <3>2 DEF Range
  <2> QED BY <2>1, <2>2, <2>3
<1> QED BY <1>1, <1>4, <1>5 DEF a, h

\* Removing one entry of a queue without repetitions.
LEMMA TakeAt ==
    ASSUME NEW S, NEW s \in Seq(S), NEW i \in DOMAIN s
    PROVE  /\ s[i] \in S /\ s[i] \in Range(s) /\ RemoveAt(s, i) \in Seq(S)
           /\ IsInjective(s) => /\ IsInjective(RemoveAt(s, i))
                               /\ Range(RemoveAt(s, i)) = Range(s) \ {s[i]}
<1>0. Len(s) \in Nat /\ DOMAIN s = 1 .. Len(s) /\ i \in 1 .. Len(s) /\ s[i] \in S
      BY LenProperties, ElementOfSeq
<1>1. /\ RemoveAt(s, i) \in Seq(S) /\ Len(RemoveAt(s, i)) = Len(s) - 1
      /\ \A j \in 1 .. Len(s) - 1 : RemoveAt(s, i)[j] = IF j < i THEN s[j] ELSE s[j + 1]
      BY <1>0, RemoveAtPoints
<1>2. DOMAIN RemoveAt(s, i) = 1 .. Len(s) - 1
      BY <1>1, LenProperties
<1> DEFINE a == RemoveAt(s, i)
<1> HIDE DEF a
<1>3. /\ DOMAIN a = 1 .. Len(s) - 1
      /\ \A j \in 1 .. Len(s) - 1 : a[j] = IF j < i THEN s[j] ELSE s[j + 1]
      BY <1>1, <1>2 DEF a
<1>4. s[i] \in Range(s)
      BY DEF Range
<1>5. ASSUME IsInjective(s) PROVE IsInjective(a) /\ Range(a) = Range(s) \ {s[i]}
  <2>1. IsInjective(a)
        BY <1>0, <1>3, <1>5 DEF IsInjective
  <2>2. \A y \in Range(a) : y \in Range(s) \ {s[i]}
        BY <1>0, <1>3, <1>5 DEF IsInjective, Range
  <2>3. ASSUME NEW y \in Range(s), y # s[i] PROVE y \in Range(a)
    <3>1. PICK j \in 1 .. Len(s) : y = s[j]
          BY <1>0 DEF Range
    <3>2. CASE j < i
          BY <1>0, <1>3, <3>1, <3>2 DEF Range
    <3>3. CASE j > i
      <4>1. j - 1 \in 1 .. Len(s) - 1 /\ a[j - 1] = y
            BY <1>0, <1>3, <3>1, <3>3
      <4> QED BY <1>3, <4>1 DEF Range
    <3> QED BY <1>0, <2>3, <3>1, <3>2, <3>3
  <2> QED BY <2>1, <2>2, <2>3
<1> QED BY <1>0, <1>1, <1>4, <1>5 DEF a

\* Putting one or two entries at the end of a queue, one after the other.
LEMMA PutTwo ==
    ASSUME NEW S, NEW s \in Seq(S), NEW x \in S, NEW y \in S
    PROVE  s \o <<x>> = Append(s, x) /\ s \o <<x, y>> = Append(Append(s, x), y)
OBVIOUS

\* Changing one queue of a family with a queue for every pair of processes: if
\* the entries of the new queue come from W or from the old one, then so do
\* all entries of the family.
LEMMA PairUpdate ==
    ASSUME NEW P, NEW S, NEW f \in [P -> [P -> Seq(S)]], NEW g,
           NEW p \in P, NEW d \in P, NEW v \in Seq(S), NEW W,
           g = [f EXCEPT ![p][d] = v],
           \A j \in DOMAIN v : v[j] \in W \/ \E k \in DOMAIN f[p][d] : v[j] = f[p][d][k]
    PROVE  /\ g \in [P -> [P -> Seq(S)]]
           /\ \A x, y \in P : \A j \in DOMAIN g[x][y] :
                 g[x][y][j] \in W \/ \E k \in DOMAIN f[x][y] : g[x][y][j] = f[x][y][k]
<1>1. g \in [P -> [P -> Seq(S)]]
      OBVIOUS
<1>2. ASSUME NEW x \in P, NEW y \in P
      PROVE  g[x][y] = IF x = p /\ y = d THEN v ELSE f[x][y]
      OBVIOUS
<1>3. ASSUME NEW x \in P, NEW y \in P, NEW j \in DOMAIN g[x][y]
      PROVE  g[x][y][j] \in W \/ \E k \in DOMAIN f[x][y] : g[x][y][j] = f[x][y][k]
  <2>1. CASE x = p /\ y = d
    <3>1. g[x][y] = v
          BY <1>2, <2>1
    <3> QED BY <2>1, <3>1, Zenon
  <2>2. CASE ~ (x = p /\ y = d)
    <3>1. g[x][y] = f[x][y]
          BY <1>2, <2>2
    <3> QED BY <3>1, Zenon
  <2> QED BY <2>1, <2>2
<1> QED BY <1>1, <1>3

\* Taking the head of one queue of such a family.
LEMMA PairTail ==
    ASSUME NEW P, NEW S, NEW f \in [P -> [P -> Seq(S)]], NEW g,
           NEW p \in P, NEW d \in P, f[p][d] # <<>>,
           g = [f EXCEPT ![p][d] = Tail(f[p][d])]
    PROVE  /\ Head(f[p][d]) \in S /\ 1 \in DOMAIN f[p][d] /\ Head(f[p][d]) = f[p][d][1]
           /\ g \in [P -> [P -> Seq(S)]]
           /\ \A x, y \in P : \A j \in DOMAIN g[x][y] :
                 \E k \in DOMAIN f[x][y] : g[x][y][j] = f[x][y][k]
<1>0. /\ Head(f[p][d]) \in S /\ 1 \in DOMAIN f[p][d] /\ Head(f[p][d]) = f[p][d][1]
  <2> DEFINE q == f[p][d]
  <2>1. q \in Seq(S) /\ q # <<>>
        OBVIOUS
  <2> HIDE DEF q
  <2>2. Head(q) \in S /\ 1 \in DOMAIN q /\ Head(q) = q[1]
        BY <2>1, TailEntries
  <2> QED BY <2>2 DEF q
<1>1. SUFFICES ASSUME NEW v, v = Tail(f[p][d]), g = [f EXCEPT ![p][d] = v]
               PROVE  /\ g \in [P -> [P -> Seq(S)]]
                      /\ \A x, y \in P : \A j \in DOMAIN g[x][y] :
                            \E k \in DOMAIN f[x][y] : g[x][y][j] = f[x][y][k]
      BY <1>0
<1>2. /\ v \in Seq(S)
      /\ \A j \in DOMAIN v : \E k \in DOMAIN f[p][d] : v[j] = f[p][d][k]
  <2> DEFINE q == f[p][d]
  <2>1. q \in Seq(S) /\ q # <<>> /\ v = Tail(q)
        BY <1>1
  <2> HIDE DEF q
  <2>2. /\ v \in Seq(S)
        /\ \A j \in DOMAIN v : \E k \in DOMAIN q : v[j] = q[k]
        BY <2>1, TailEntries
  <2> QED BY <2>2 DEF q
<1>3. g \in [P -> [P -> Seq(S)]]
      BY <1>1, <1>2
<1>4. ASSUME NEW x \in P, NEW y \in P
      PROVE  g[x][y] = IF x = p /\ y = d THEN v ELSE f[x][y]
      BY <1>1, SMTT(60)
<1>5. ASSUME NEW x \in P, NEW y \in P, NEW j \in DOMAIN g[x][y]
      PROVE  \E k \in DOMAIN f[x][y] : g[x][y][j] = f[x][y][k]
  <2>1. CASE x = p /\ y = d
    <3>1. g[x][y] = v
          BY <1>4, <2>1
    <3> QED BY <1>2, <2>1, <3>1, Zenon
  <2>2. CASE ~ (x = p /\ y = d)
    <3>1. g[x][y] = f[x][y]
          BY <1>4, <2>2
    <3> QED BY <3>1, Zenon
  <2> QED BY <2>1, <2>2
<1> QED BY <1>3, <1>5

=============================================================================
