-------------------------- MODULE MmChannelProofs --------------------------
(***************************************************************************)
(* Proofs about MmChannel, for any streams, channels, metadata and bounds. *)
(*                                                                         *)
(* A buffer outside the kernel is in one place of the channel's side (its  *)
(* command queue, the superbuffer queue or the HAL) if the channel uses it, *)
(* and in one place of the application's side (the poll thread, the queue  *)
(* of the stream's thread or the callback) if that does.  The references   *)
(* are counted by these two sets, ChainBufs and AppBufs: a step moves a    *)
(* buffer within one of them, or takes it out and gives a reference up.    *)
(* The order of the superbuffer queue rests on that of the commands: each  *)
(* stream's frames come to it in order.                                    *)
(***************************************************************************)
EXTENDS MmChannel, SequenceTheorems, FiniteSetTheorems, FunctionTheorems,
        WellFoundedInduction, TLAPS

\* The buffers of a list of superbuffers, and that no two share one.
Within(q) == UNION {Bufs(q[i]) : i \in DOMAIN q}
Clean(q) == \A i, j \in DOMAIN q : i # j => Bufs(q[i]) \cap Bufs(q[j]) = {}

\* The lists that hold the buffers W.
Queue(S, W) == {q \in Seq(S) : Clean(q) /\ Within(q) = W}

\* The list q is parted into p and r.
Parts(q, p, r) ==
    /\ Clean(p) /\ Clean(r)
    /\ Within(p) \cap Within(r) = {}
    /\ Within(p) \cup Within(r) = Within(q)

\* The superbuffers of a list from a to b.
Part(q, a, b) == {q[i] : i \in a .. b}

\* A superbuffer of a channel with the streams A.
Super(A) == [idx : Frames, slot : [A -> 0 .. MaxFrame], matched : BOOLEAN,
             expected : BOOLEAN]

LEMMA Naturals4 ==
    NumBufs \in Nat /\ MaxFrame \in Nat /\ MaxRequests \in Nat /\ MaxStarts \in Nat
    /\ NumBufs > 0
  BY BoundsAssumption

-----------------------------------------------------------------------------
(* Minima. *)

LEMMA LeastNat ==
    ASSUME NEW T, T \subseteq Nat, T # {}
    PROVE  \E j \in T : \A k \in T : j <= k
<1> DEFINE R == {ss \in Nat \X Nat : ss[1] < ss[2]}
<1>1. IsWellFoundedOn(R, Nat)
  BY NatLessThanWellFounded, Zenon DEF R, OpToRel
<1>2. PICK j \in T : \A k \in T : ~(<<k, j>> \in R)
  <2> HIDE DEF R
  <2> QED BY <1>1, WFMin
<1>3. \A k \in T : ~(k < j)
  <2> SUFFICES ASSUME NEW k \in T, k < j PROVE <<k, j>> \in R
    BY <1>2
  <2> QED
    OBVIOUS
<1> QED
  BY <1>3

LEMMA MinFacts ==
    ASSUME NEW T, T \subseteq Nat, T # {}
    PROVE  Min(T) \in T /\ \A k \in T : Min(T) <= k
  BY LeastNat DEF Min

LEMMA FirstFacts ==
    ASSUME NEW T, T \subseteq Nat
    PROVE  /\ T = {} => First(T) = 0
           /\ T # {} => First(T) \in T /\ \A k \in T : First(T) <= k
  BY MinFacts DEF First

LEMMA FirstWithin ==
    ASSUME NEW n \in Nat, NEW T, T \subseteq 1 .. n
    PROVE  First(T) \in 0 .. n
<1>1. T \subseteq Nat
  OBVIOUS
<1>2. PICK m : m = First(T)
  OBVIOUS
<1>3. m = 0 \/ m \in T
  BY <1>1, <1>2, FirstFacts
<1>4. m \in 0 .. n
  <2>1. CASE m = 0
    BY <2>1
  <2>2. CASE m \in T
    <3>1. m \in 1 .. n
      BY <2>2
    <3> QED
      BY <3>1
  <2> QED
    BY <1>3, <2>1, <2>2
<1> QED
  BY <1>2, <1>4

-----------------------------------------------------------------------------
(* Lists of superbuffers whose buffers are apart. *)

LEMMA WithinIsAll ==
    ASSUME NEW S, NEW q \in Seq(S)
    PROVE  AllBufs(ToSet(q)) = Within(q)
  BY DEF AllBufs, ToSet, Within

\* A slice of a list.
LEMMA Slice ==
    ASSUME NEW S, NEW q \in Seq(S), NEW a \in Nat, NEW b \in Nat, 1 <= a, b <= Len(q),
           a <= b + 1
    PROVE  /\ SubSeq(q, a, b) \in Seq(S) /\ Len(SubSeq(q, a, b)) = b - a + 1
           /\ DOMAIN SubSeq(q, a, b) = 1 .. b - a + 1
           /\ \A i \in 1 .. b - a + 1 : SubSeq(q, a, b)[i] = q[a + i - 1]
<1>1. Len(q) \in Nat /\ \A i \in 1 .. Len(q) : q[i] \in S
  BY LenProperties
<1>2. \A i \in a .. b : q[i] \in S
  BY <1>1
<1>3. SubSeq(q, a, b) \in Seq(S) /\ Len(SubSeq(q, a, b)) = b - a + 1
      /\ \A i \in 1 .. b - a + 1 : SubSeq(q, a, b)[i] = q[a + i - 1]
  BY <1>2, SubSeqProperties
<1>4. DOMAIN SubSeq(q, a, b) = 1 .. Len(SubSeq(q, a, b))
  BY <1>3, LenProperties
<1> QED
  BY <1>3, <1>4

\* Cut in two.
LEMMA CutQueue ==
    ASSUME NEW S, NEW q \in Seq(S), Clean(q), NEW n \in 0 .. Len(q)
    PROVE  /\ Parts(q, SubSeq(q, 1, n), SubSeq(q, n + 1, Len(q)))
           /\ SubSeq(q, 1, n) \in Seq(S) /\ SubSeq(q, n + 1, Len(q)) \in Seq(S)
           /\ AllBufs(Part(q, 1, n)) = Within(SubSeq(q, 1, n))
<1> DEFINE p == SubSeq(q, 1, n)
           r == SubSeq(q, n + 1, Len(q))
<1>0. Len(q) \in Nat
  BY LenProperties
<1>1. DOMAIN q = 1 .. Len(q)
  BY LenProperties
<1>2. p \in Seq(S) /\ Len(p) = n /\ DOMAIN p = 1 .. n /\ \A i \in 1 .. n : p[i] = q[i]
  BY <1>0, Slice
<1>3. r \in Seq(S) /\ Len(r) = Len(q) - n /\ DOMAIN r = 1 .. Len(q) - n
      /\ \A i \in 1 .. Len(q) - n : r[i] = q[i + n]
  <2>1. SubSeq(q, n + 1, Len(q)) \in Seq(S)
    BY <1>0, Slice
  <2>2. Len(SubSeq(q, n + 1, Len(q))) = Len(q) - n
    <3> HIDE DEF p, r
    <3>1. n + 1 \in Nat /\ 1 <= n + 1 /\ Len(q) <= Len(q) /\ n + 1 <= Len(q) + 1
      BY <1>0
    <3>2. Len(SubSeq(q, n + 1, Len(q))) = Len(q) - (n + 1) + 1
      BY SMTT(60), <1>0, <3>1, Slice, Zenon
    <3> QED
      BY <1>0, <3>2
  <2>3. DOMAIN SubSeq(q, n + 1, Len(q)) = 1 .. Len(q) - n
    BY <1>0, Slice
  <2>4. \A i \in 1 .. Len(q) - n : SubSeq(q, n + 1, Len(q))[i] = q[i + n]
    BY <1>0, Slice
  <2> QED
    BY <2>1, <2>2, <2>3, <2>4 DEF r
<1> HIDE DEF p, r
<1>5. \A i \in DOMAIN p : i \in DOMAIN q /\ i <= n
  BY <1>0, <1>1, <1>2
<1>6. \A i \in DOMAIN r : i + n \in DOMAIN q /\ i + n > n
  BY <1>0, <1>1, <1>3
<1>7. \A i \in DOMAIN q : i \in DOMAIN p \/ i - n \in DOMAIN r
  BY <1>0, <1>1, <1>2, <1>3
<1>8. Clean(p) /\ Clean(r)
  <2>1. Clean(p)
    BY <1>2, <1>5 DEF Clean
  <2>2. ASSUME NEW i \in DOMAIN r, NEW j \in DOMAIN r, i # j
        PROVE  Bufs(r[i]) \cap Bufs(r[j]) = {}
    <3>1. i + n # j + n /\ i + n \in DOMAIN q /\ j + n \in DOMAIN q
      BY <2>2, <1>3, <1>6
    <3>2. r[i] = q[i + n] /\ r[j] = q[j + n]
      BY <1>3
    <3> QED
      BY <3>1, <3>2 DEF Clean
  <2> QED
    BY <2>1, <2>2 DEF Clean
<1>9. Within(p) \cap Within(r) = {}
  <2> SUFFICES ASSUME NEW i \in DOMAIN p, NEW j \in DOMAIN r
               PROVE  Bufs(p[i]) \cap Bufs(r[j]) = {}
    BY DEF Within
  <2>1. i # j + n /\ i \in DOMAIN q /\ j + n \in DOMAIN q
    BY <1>2, <1>3, <1>5, <1>6
  <2>2. p[i] = q[i] /\ r[j] = q[j + n]
    BY <1>2, <1>3
  <2> QED
    BY <2>1, <2>2 DEF Clean
<1>10. Within(p) \cup Within(r) = Within(q)
  <2>1. Within(p) \subseteq Within(q) /\ Within(r) \subseteq Within(q)
    BY <1>2, <1>3, <1>5, <1>6 DEF Within
  <2>2. ASSUME NEW b \in Within(q) PROVE b \in Within(p) \cup Within(r)
    <3>1. PICK i \in DOMAIN q : b \in Bufs(q[i])
      BY <2>2 DEF Within
    <3>2. CASE i \in DOMAIN p
      BY <3>1, <3>2, <1>2 DEF Within
    <3>3. CASE i - n \in DOMAIN r
      <4>1. r[i - n] = q[i]
        BY <3>3, <1>0, <1>1, <1>3
      <4> QED
        BY <3>1, <3>3, <4>1 DEF Within
    <3> QED
      BY <3>2, <3>3, <1>7
  <2> QED
    BY <2>1, <2>2
<1>11. AllBufs(Part(q, 1, n)) = Within(p)
  BY <1>2 DEF AllBufs, Within, Part
<1>12. p \in Seq(S) /\ r \in Seq(S)
  BY <1>2, <1>3
<1> QED
  BY <1>8, <1>9, <1>10, <1>11, <1>12 DEF p, r, Parts

\* A superbuffer put in, and where it moves the others.
Moved(k, at) == IF k < at THEN k ELSE k + 1
Shifted(q, r, at) ==
    \A k \in 1 .. Len(q) : Moved(k, at) \in 1 .. Len(r) /\ r[Moved(k, at)] = q[k]

LEMMA InsertQueue ==
    ASSUME NEW S, NEW q \in Seq(S), Clean(q), NEW x \in S, Bufs(x) \cap Within(q) = {},
           NEW at \in 1 .. Len(q) + 1
    PROVE  /\ InsertAt(q, at, x) \in Queue(S, Within(q) \cup Bufs(x))
           /\ Shifted(q, InsertAt(q, at, x), at)
<1> DEFINE a == SubSeq(q, 1, at - 1)
           b == SubSeq(q, at, Len(q))
           n == Len(q)
           r == InsertAt(q, at, x)
<1>0. n \in Nat
  BY LenProperties
<1>1. DOMAIN q = 1 .. n
  BY LenProperties
<1>2. a \in Seq(S) /\ Len(a) = at - 1 /\ \A i \in 1 .. at - 1 : a[i] = q[i]
  BY <1>0, Slice
<1>3. b \in Seq(S) /\ Len(b) = n - at + 1 /\ \A i \in 1 .. Len(b) : b[i] = q[at + i - 1]
  <2>1. b \in Seq(S)
    BY <1>0, Slice
  <2>2. Len(b) = n - at + 1
    BY <1>0, Slice
  <2>3. \A i \in 1 .. n - at + 1 : b[i] = q[at + i - 1]
    BY <1>0, Slice
  <2> QED
    BY <2>1, <2>2, <2>3
<1>4. r = (a \o <<x>>) \o b
  BY DEF InsertAt
<1> HIDE DEF a, b, r
<1>5. a \o <<x>> \in Seq(S) /\ Len(a \o <<x>>) = at
      /\ \A i \in 1 .. at : (a \o <<x>>)[i] = IF i < at THEN q[i] ELSE x
  <2>1. <<x>> \in Seq(S) /\ Len(<<x>>) = 1 /\ <<x>>[1] = x
    OBVIOUS
  <2> QED
    <3>1. a \o <<x>> \in Seq(S) /\ Len(a \o <<x>>) = Len(a) + Len(<<x>>)
          /\ \A i \in 1 .. Len(a) + Len(<<x>>) : (a \o <<x>>)[i] =
                IF i <= Len(a) THEN a[i] ELSE <<x>>[i - Len(a)]
      <4>1. PICK u : u = <<x>>
        OBVIOUS
      <4>2. a \in Seq(S) /\ u \in Seq(S)
        BY <4>1, <2>1, <1>2
      <4>3. a \o u \in Seq(S) /\ Len(a \o u) = Len(a) + Len(u)
            /\ \A i \in 1 .. Len(a) + Len(u) :
                  (a \o u)[i] = IF i <= Len(a) THEN a[i] ELSE u[i - Len(a)]
        BY <4>2, ConcatProperties, Zenon
      <4> QED
        BY <4>1, <4>3
    <3>2. at \in Nat /\ Len(a) + Len(<<x>>) = at
      BY <2>1, <1>0, <1>2
    <3>3. ASSUME NEW i \in 1 .. at
          PROVE  (a \o <<x>>)[i] = IF i < at THEN q[i] ELSE x
      <4>1. (a \o <<x>>)[i] = IF i <= Len(a) THEN a[i] ELSE <<x>>[i - Len(a)]
        BY <3>1, <3>2
      <4>2. CASE i < at
        BY <4>1, <4>2, <3>2, <1>2
      <4>3. CASE i = at
        BY <4>1, <4>3, <3>2, <2>1, <1>2
      <4> QED
        BY <4>2, <4>3, <3>2
    <3> QED
      BY <3>1, <3>2, <3>3
<1>6. r \in Seq(S) /\ Len(r) = n + 1
  <2>1. r \in Seq(S) /\ Len(r) = Len(a \o <<x>>) + Len(b)
    BY <1>3, <1>4, <1>5, ConcatProperties, Zenon
  <2>2. Len(a \o <<x>>) + Len(b) = n + 1
    <3>1. Len(a \o <<x>>) = at
      BY <1>5, Zenon
    <3>2. Len(b) = n - at + 1
      BY <1>3, Zenon
    <3> QED
      BY <3>1, <3>2, <1>0
  <2> QED
    BY <2>1, <2>2, Zenon
<1>7. \A k \in 1 .. Len(r) : r[k] = IF k < at THEN q[k] ELSE IF k = at THEN x ELSE q[k - 1]
  <2> SUFFICES ASSUME NEW k \in 1 .. Len(r)
               PROVE  r[k] = IF k < at THEN q[k] ELSE IF k = at THEN x ELSE q[k - 1]
    OBVIOUS
  <2>1. r[k] = IF k <= at THEN (a \o <<x>>)[k] ELSE b[k - at]
    BY <1>0, <1>1, <1>3, <1>4, <1>5, <1>6, ConcatProperties
  <2>2. CASE k <= at
    BY <2>1, <2>2, <1>0, <1>1, <1>5, <1>6
  <2>3. CASE k > at
    <3>1. k - at \in 1 .. Len(b) /\ at + (k - at) - 1 = k - 1
      BY <2>3, <1>0, <1>1, <1>3, <1>6
    <3> QED
      BY <2>1, <2>3, <3>1, <1>0, <1>1, <1>3
  <2> QED
    BY <2>2, <2>3, <1>0, <1>1, <1>6
<1> DEFINE P == [i \in 0 .. n |-> IF i = 0 THEN Bufs(x) ELSE Bufs(q[i])]
           m == [k \in 1 .. n + 1 |-> IF k < at THEN k ELSE IF k = at THEN 0 ELSE k - 1]
<1>8. \A i, j \in 0 .. n : i # j => P[i] \cap P[j] = {}
  <2>1. \A i \in 1 .. n : Bufs(q[i]) \subseteq Within(q)
    BY <1>0, <1>1 DEF Within
  <2>2. \A i, j \in 1 .. n : i # j => Bufs(q[i]) \cap Bufs(q[j]) = {}
    BY <1>0, <1>1 DEF Clean
  <2>3. \A i \in 1 .. n : Bufs(q[i]) \cap Bufs(x) = {}
    BY <2>1
  <2> QED
    BY <2>2, <2>3, <1>0, <1>1
<1>9. DOMAIN r = 1 .. n + 1
  BY <1>6, LenProperties
<1>10. \A k \in DOMAIN r : m[k] \in 0 .. n /\ Bufs(r[k]) = P[m[k]]
  BY <1>0, <1>1, <1>6, <1>7, <1>9
<1>11. \A k, l \in DOMAIN r : k # l => m[k] # m[l]
  BY <1>0, <1>1, <1>9
<1>12. \A i \in 0 .. n : \E k \in DOMAIN r : m[k] = i
  <2> TAKE i \in 0 .. n
  <2>1. CASE i = 0
    <3>1. at \in DOMAIN r /\ m[at] = i
      BY <2>1, <1>0, <1>1, <1>9
    <3> QED
      BY <3>1
  <2>2. CASE i > 0 /\ i < at
    <3>1. i \in DOMAIN r /\ m[i] = i
      BY <2>2, <1>0, <1>1, <1>9
    <3> QED
      BY <3>1
  <2>3. CASE i > 0 /\ i >= at
    <3>1. i + 1 \in DOMAIN r /\ m[i + 1] = i
      BY <2>3, <1>0, <1>1, <1>9
    <3> QED
      BY <3>1
  <2> QED
    BY <2>1, <2>2, <2>3, <1>0, <1>1
<1>13. Within(q) \cup Bufs(x) = UNION {P[i] : i \in 0 .. n}
  <2>1. Within(q) = UNION {Bufs(q[i]) : i \in 1 .. n}
    BY <1>0, <1>1 DEF Within
  <2>2. \A i \in 1 .. n : P[i] = Bufs(q[i])
    BY <1>0, <1>1
  <2>3. P[0] = Bufs(x)
    BY <1>0, <1>1
  <2>4. 0 .. n = {0} \cup 1 .. n
    BY <1>0, <1>1
  <2> HIDE DEF P
  <2> QED
    BY <2>1, <2>2, <2>3, <2>4
<1> HIDE DEF P, m
<1>14. Clean(r) /\ Within(r) = UNION {P[m[k]] : k \in DOMAIN r}
  <2>1. Clean(r)
    BY <1>8, <1>10, <1>11 DEF Clean
  <2>2. Within(r) = UNION {P[m[k]] : k \in DOMAIN r}
    BY <1>10 DEF Within
  <2> QED
    BY <2>1, <2>2
<1>15. UNION {P[m[k]] : k \in DOMAIN r} = UNION {P[i] : i \in 0 .. n}
  BY <1>10, <1>12
<1>16. ASSUME NEW k \in 1 .. n
       PROVE  Moved(k, at) \in 1 .. Len(r) /\ r[Moved(k, at)] = q[k]
  <2> DEFINE l == Moved(k, at)
  <2>1. l \in 1 .. Len(r) /\ (k < at => l = k) /\ (~(k < at) => l = k + 1)
    BY <1>0, <1>6 DEF Moved
  <2> HIDE DEF l
  <2>2. CASE k < at
    BY <2>1, <2>2, <1>0, <1>7 DEF l
  <2>3. CASE ~(k < at)
    <3>1. ~(l < at) /\ l # at /\ l - 1 = k
      BY <2>1, <2>3, <1>0
    <3> QED
      BY <3>1, <2>1, <1>7 DEF l
  <2> QED
    BY <2>2, <2>3
<1> QED
  BY <1>6, <1>13, <1>14, <1>15, <1>16 DEF r, Queue, Shifted

\* A superbuffer taken out.
LEMMA RemoveQueue ==
    ASSUME NEW S, NEW q \in Seq(S), Clean(q), NEW v \in 1 .. Len(q)
    PROVE  RemoveAt(q, v) \in Queue(S, Within(q) \ Bufs(q[v]))
<1> DEFINE a == SubSeq(q, 1, v - 1)
           b == SubSeq(q, v + 1, Len(q))
           n == Len(q)
           r == RemoveAt(q, v)
<1>0. n \in Nat
  BY LenProperties
<1>1. DOMAIN q = 1 .. n
  BY LenProperties
<1>2. a \in Seq(S) /\ Len(a) = v - 1 /\ \A i \in 1 .. v - 1 : a[i] = q[i]
  BY <1>0, Slice
<1>3. b \in Seq(S) /\ Len(b) = n - v /\ \A i \in 1 .. n - v : b[i] = q[v + i]
  <2>1. b \in Seq(S)
    BY <1>0, Slice
  <2>2. Len(b) = n - v
    BY <1>0, Slice
  <2>3. \A i \in 1 .. n - v : b[i] = q[v + i]
    BY <1>0, Slice
  <2> QED
    BY <2>1, <2>2, <2>3
<1>4. r = a \o b
  BY DEF RemoveAt
<1> HIDE DEF a, b, r
<1>5. r \in Seq(S) /\ Len(r) = Len(a) + Len(b)
      /\ \A i \in 1 .. Len(a) + Len(b) : r[i] = IF i <= Len(a) THEN a[i] ELSE b[i - Len(a)]
  BY <1>2, <1>3, <1>4, ConcatProperties, Zenon
<1>6. Len(r) = n - 1
  BY <1>0, <1>2, <1>3, <1>5
<1>7. \A k \in 1 .. n - 1 : r[k] = IF k < v THEN q[k] ELSE q[k + 1]
  <2> SUFFICES ASSUME NEW k \in 1 .. n - 1
               PROVE  r[k] = IF k < v THEN q[k] ELSE q[k + 1]
    OBVIOUS
  <2>1. r[k] = IF k <= v - 1 THEN a[k] ELSE b[k - (v - 1)]
    BY <1>0, <1>2, <1>3, <1>5
  <2>2. CASE k < v
    BY <2>1, <2>2, <1>0, <1>2
  <2>3. CASE k >= v
    <3>1. k - (v - 1) \in 1 .. n - v /\ v + (k - (v - 1)) = k + 1 /\ ~(k <= v - 1)
      BY <2>3, <1>0
    <3> QED
      BY <2>1, <2>3, <3>1, <1>0, <1>3
  <2> QED
    BY <2>2, <2>3, <1>0
<1>8. DOMAIN r = 1 .. n - 1
  BY <1>5, <1>6, LenProperties
<1> DEFINE m == [k \in 1 .. n - 1 |-> IF k < v THEN k ELSE k + 1]
<1>9. \A k \in DOMAIN r : m[k] \in DOMAIN q \ {v} /\ r[k] = q[m[k]]
  BY <1>0, <1>1, <1>7, <1>8
<1>10. \A k, l \in DOMAIN r : k # l => m[k] # m[l]
  BY <1>0, <1>8
<1>11. \A i \in DOMAIN q \ {v} : \E k \in DOMAIN r : m[k] = i
  <2> TAKE i \in DOMAIN q \ {v}
  <2>1. CASE i < v
    <3>1. i \in DOMAIN r /\ m[i] = i
      BY <2>1, <1>0, <1>1, <1>8
    <3> QED
      BY <3>1
  <2>2. CASE i > v
    <3>1. i - 1 \in DOMAIN r /\ m[i - 1] = i
      BY <2>2, <1>0, <1>1, <1>8
    <3> QED
      BY <3>1
  <2> QED
    BY <2>1, <2>2, <1>0, <1>1
<1> HIDE DEF m
<1>12. Clean(r)
  BY <1>9, <1>10 DEF Clean
<1>13. Within(r) = Within(q) \ Bufs(q[v])
  <2>1. \A i \in DOMAIN q \ {v} : Bufs(q[i]) \cap Bufs(q[v]) = {}
    BY <1>1 DEF Clean
  <2>2. Within(r) = UNION {Bufs(q[i]) : i \in DOMAIN q \ {v}}
    BY <1>9, <1>11 DEF Within
  <2>3. v \in DOMAIN q
    BY <1>1
  <2> QED
    BY <2>1, <2>2, <2>3 DEF Within
<1> QED
  BY <1>5, <1>12, <1>13 DEF r, Queue

\* A superbuffer that takes one buffer more.
LEMMA FillQueue ==
    ASSUME NEW S, NEW q \in Seq(S), Clean(q), NEW h \in 1 .. Len(q), NEW x \in S,
           NEW b, b \notin Within(q), Bufs(x) = Bufs(q[h]) \cup {b}
    PROVE  [q EXCEPT ![h] = x] \in Queue(S, Within(q) \cup {b})
<1> DEFINE r == [q EXCEPT ![h] = x]
<1>1. DOMAIN q = 1 .. Len(q)
  BY LenProperties
<1>2. r \in Seq(S)
  BY ExceptSeq
<1>3. DOMAIN r = DOMAIN q /\ \A i \in DOMAIN q : r[i] = IF i = h THEN x ELSE q[i]
  OBVIOUS
<1> HIDE DEF r
<1>4. \A i \in DOMAIN q : b \notin Bufs(q[i])
  BY DEF Within
<1>5. Clean(r)
  BY <1>1, <1>3, <1>4 DEF Clean
<1>6. Within(r) = Within(q) \cup {b}
  <2>1. \A i \in DOMAIN q : Bufs(q[i]) \subseteq Bufs(r[i])
                            /\ Bufs(r[i]) \subseteq Bufs(q[i]) \cup {b}
    BY <1>3
  <2>2. b \in Bufs(r[h]) /\ h \in DOMAIN q
    BY <1>1, <1>3
  <2> QED
    BY <2>1, <2>2, <1>3 DEF Within
<1> QED
  BY <1>2, <1>5, <1>6 DEF r, Queue

\* A superbuffer completed, and those between it and an older one taken out.
LEMMA MergeQueue ==
    ASSUME NEW S, NEW p \in Seq(S), NEW q \in Seq(S), Len(p) = Len(q), Clean(q),
           NEW h \in 1 .. Len(q), \A i \in DOMAIN q : i # h => p[i] = q[i],
           NEW f \in 1 .. h
    PROVE  SubSeq(p, 1, f - 1) \o <<q[h]>> \o SubSeq(p, h + 1, Len(p))
              \in Queue(S, Within(q) \ AllBufs(Part(p, f, h - 1)))
<1> DEFINE n == Len(q)
           a == SubSeq(p, 1, f - 1)
           b == SubSeq(p, h + 1, Len(p))
           r == SubSeq(p, 1, f - 1) \o <<q[h]>> \o SubSeq(p, h + 1, Len(p))
           gone == AllBufs(Part(p, f, h - 1))
<1>0. n \in Nat /\ f - 1 \in Nat /\ 1 <= f /\ f <= h /\ h <= n
  BY LenProperties
<1>1. DOMAIN q = 1 .. n
  BY LenProperties
<1>2. a \in Seq(S) /\ Len(a) = f - 1 /\ \A i \in 1 .. f - 1 : a[i] = q[i]
  <2>1. a \in Seq(S)
    BY <1>0, Slice
  <2>2. Len(a) = f - 1
    BY <1>0, Slice
  <2>3. \A i \in 1 .. f - 1 : a[i] = p[i]
    BY <1>0, Slice
  <2>4. \A i \in 1 .. f - 1 : i \in DOMAIN q /\ i # h
    BY <1>0, <1>1
  <2> HIDE DEF a
  <2> QED
    BY <2>1, <2>2, <2>3, <2>4
<1>3. b \in Seq(S) /\ Len(b) = n - h /\ \A i \in 1 .. n - h : b[i] = q[h + i]
  <2>1. b \in Seq(S)
    BY <1>0, Slice
  <2>2. Len(b) = n - h
    BY <1>0, Slice
  <2>3. \A i \in 1 .. n - h : b[i] = p[h + i]
    BY <1>0, Slice
  <2>4. \A i \in 1 .. n - h : h + i \in DOMAIN q /\ h + i # h
    BY <1>0, <1>1
  <2> HIDE DEF b
  <2> QED
    BY <2>1, <2>2, <2>3, <2>4
<1>4. r = (a \o <<q[h]>>) \o b
  OBVIOUS
<1>5. q[h] \in S
  BY LenProperties
<1> HIDE DEF a, b, r
<1>6. <<q[h]>> \in Seq(S) /\ Len(<<q[h]>>) = 1 /\ <<q[h]>>[1] = q[h]
  BY <1>5
<1>7. a \o <<q[h]>> \in Seq(S) /\ Len(a \o <<q[h]>>) = Len(a) + Len(<<q[h]>>)
      /\ \A i \in 1 .. Len(a) + Len(<<q[h]>>) : (a \o <<q[h]>>)[i] =
            IF i <= Len(a) THEN a[i] ELSE <<q[h]>>[i - Len(a)]
  <2>1. a \in Seq(S)
    BY <1>2, Zenon
  <2>2. <<q[h]>> \in Seq(S)
    BY <1>6, Zenon
  <2> QED
    BY <2>1, <2>2, ConcatProperties
<1> DEFINE c == a \o <<q[h]>>
<1>8. c \in Seq(S) /\ Len(c) = f
  <2>1. Len(a) = f - 1 /\ Len(<<q[h]>>) = 1
    BY <1>2, <1>6, Zenon
  <2>2. c \in Seq(S) /\ Len(c) = Len(a) + Len(<<q[h]>>)
    BY <1>7, Zenon
  <2> HIDE DEF c
  <2> QED
    BY <2>1, <2>2, <1>0
<1>9. \A i \in 1 .. f : c[i] = IF i < f THEN q[i] ELSE q[h]
  <2>1. Len(a) = f - 1 /\ Len(<<q[h]>>) = 1 /\ <<q[h]>>[1] = q[h]
    BY <1>2, <1>6, Zenon
  <2>2. \A i \in 1 .. f - 1 : a[i] = q[i]
    BY <1>2
  <2>3. \A i \in 1 .. Len(a) + Len(<<q[h]>>) : c[i] =
            IF i <= Len(a) THEN a[i] ELSE <<q[h]>>[i - Len(a)]
    BY <1>7, Zenon
  <2> HIDE DEF c
  <2> SUFFICES ASSUME NEW i \in 1 .. f PROVE c[i] = IF i < f THEN q[i] ELSE q[h]
    OBVIOUS
  <2>4. i \in 1 .. Len(a) + Len(<<q[h]>>)
    BY <2>1, <1>0
  <2>5. CASE i < f
    <3>1. i <= Len(a) /\ i \in 1 .. f - 1
      BY <2>1, <2>5, <1>0
    <3> QED
      BY <2>2, <2>3, <2>4, <2>5, <3>1, Zenon
  <2>6. CASE i = f
    <3>1. ~(i <= Len(a)) /\ i - Len(a) = 1 /\ ~(i < f)
      BY <2>1, <2>6, <1>0
    <3> QED
      BY <2>1, <2>3, <2>4, <3>1, Zenon
  <2> QED
    BY <2>5, <2>6, <1>0
<1>10. r = c \o b
  BY <1>4
<1> HIDE DEF c
<1>11. r \in Seq(S) /\ Len(r) = Len(c) + Len(b)
      /\ \A i \in 1 .. Len(c) + Len(b) : r[i] = IF i <= Len(c) THEN c[i] ELSE b[i - Len(c)]
  <2>1. b \in Seq(S)
    BY <1>3, Zenon
  <2>2. c \in Seq(S)
    BY <1>8, Zenon
  <2> QED
    BY <2>1, <2>2, <1>10, ConcatProperties
<1>12. Len(r) = n - (h - f)
  <2>1. Len(r) = Len(c) + Len(b) /\ Len(c) = f /\ Len(b) = n - h
    BY <1>3, <1>8, <1>11, Zenon
  <2> QED
    BY <2>1, <1>0
<1>13. \A k \in 1 .. n - (h - f) : r[k] = IF k < f THEN q[k] ELSE q[k + (h - f)]
  <2> SUFFICES ASSUME NEW k \in 1 .. n - (h - f)
               PROVE  r[k] = IF k < f THEN q[k] ELSE q[k + (h - f)]
    OBVIOUS
  <2>1. Len(c) = f /\ Len(b) = n - h
    BY <1>3, <1>8, Zenon
  <2>2. k \in 1 .. Len(c) + Len(b)
    BY <2>1, <1>0
  <2>3. r[k] = IF k <= Len(c) THEN c[k] ELSE b[k - Len(c)]
    BY <2>2, <1>11, Zenon
  <2>4. CASE k <= f
    <3>1. k \in 1 .. f /\ (k = f => k + (h - f) = h)
      BY <2>4, <1>0
    <3>2. r[k] = IF k < f THEN q[k] ELSE q[h]
      BY <3>1, <2>1, <2>3, <2>4, <1>9, Zenon
    <3> QED
      BY <3>1, <3>2, <1>0
  <2>5. CASE k > f
    <3>1. k - f \in 1 .. n - h /\ h + (k - f) = k + (h - f) /\ ~(k <= f) /\ ~(k < f)
      BY <2>5, <1>0
    <3>2. r[k] = b[k - f]
      BY <3>1, <2>1, <2>3, Zenon
    <3>3. b[k - f] = q[h + (k - f)]
      BY <3>1, <1>3, Zenon
    <3> QED
      BY <3>1, <3>2, <3>3, Zenon
  <2> QED
    BY <2>4, <2>5, <1>0
<1>14. DOMAIN r = 1 .. n - (h - f)
  BY <1>11, <1>12, LenProperties
<1> DEFINE m == [k \in 1 .. n - (h - f) |-> IF k < f THEN k ELSE k + (h - f)]
           D == {i \in DOMAIN q : i < f \/ i >= h}
<1>15. \A k \in DOMAIN r : m[k] \in D /\ r[k] = q[m[k]]
  BY <1>0, <1>1, <1>13, <1>14
<1>16. \A k, l \in DOMAIN r : k # l => m[k] # m[l]
  BY <1>0, <1>14
<1>17. \A i \in D : \E k \in DOMAIN r : m[k] = i
  <2> TAKE i \in D
  <2>1. CASE i < f
    <3>1. i \in DOMAIN r /\ m[i] = i
      BY <2>1, <1>0, <1>1, <1>14
    <3> QED
      BY <3>1
  <2>2. CASE i >= h
    <3>1. i - (h - f) \in DOMAIN r /\ m[i - (h - f)] = i
      BY <2>2, <1>0, <1>1, <1>14
    <3> QED
      BY <3>1
  <2> QED
    BY <2>1, <2>2
<1> HIDE DEF m
<1>18. Clean(r)
  BY <1>15, <1>16 DEF Clean
<1>19. gone = UNION {Bufs(q[i]) : i \in DOMAIN q \ D}
  <2>1. \A i \in f .. h - 1 : i \in DOMAIN q \ D /\ i # h
    BY <1>0, <1>1
  <2>2. \A i \in DOMAIN q \ D : i \in f .. h - 1 /\ i # h
    BY <1>0, <1>1
  <2>3. \A i \in f .. h - 1 : p[i] = q[i]
    BY <2>1
  <2> QED
    BY <2>1, <2>2, <2>3 DEF AllBufs, Part
<1>20. Within(r) = UNION {Bufs(q[i]) : i \in D}
  BY <1>15, <1>17 DEF Within
<1>21. \A i \in D, j \in DOMAIN q \ D : Bufs(q[i]) \cap Bufs(q[j]) = {}
  BY DEF Clean
<1>22. Within(r) = Within(q) \ gone /\ gone \subseteq Within(q)
  <2> HIDE DEF D, gone
  <2>1. D \subseteq DOMAIN q
    BY DEF D
  <2> QED
    BY <2>1, <1>19, <1>20, <1>21 DEF Within
<1> QED
  BY <1>11, <1>18, <1>22 DEF r, Queue

LEMMA Merged ==
    ASSUME NEW S, NEW q \in Seq(S), Clean(q), NEW h \in 1 .. Len(q), NEW x \in S,
           NEW b, b \notin Within(q), Bufs(x) = Bufs(q[h]) \cup {b}, NEW f \in 1 .. h
    PROVE  /\ SubSeq(q, 1, f - 1) \o <<x>> \o SubSeq(q, h + 1, Len(q))
                \in Queue(S, (Within(q) \cup {b}) \ AllBufs(Part(q, f, h - 1)))
           /\ AllBufs(Part(q, f, h - 1)) \subseteq Within(q)
<1> DEFINE p == [q EXCEPT ![h] = x]
           gone == AllBufs(Part(q, f, h - 1))
<1>1. p \in Queue(S, Within(q) \cup {b})
  BY FillQueue
<1>2. p \in Seq(S) /\ Clean(p) /\ Within(p) = Within(q) \cup {b}
  BY <1>1 DEF Queue
<1>3. Len(q) = Len(p) /\ DOMAIN q = DOMAIN p /\ h \in DOMAIN q
  BY <1>2, LenProperties
<1>4. p[h] = x /\ \A i \in DOMAIN p : i # h => q[i] = p[i]
  BY <1>3
<1>5. h \in 1 .. Len(p)
  BY <1>3
<1> HIDE DEF p
<1>6. SubSeq(q, 1, f - 1) \o <<p[h]>> \o SubSeq(q, h + 1, Len(q))
         \in Queue(S, Within(p) \ gone)
  BY <1>2, <1>3, <1>4, <1>5, MergeQueue
<1>7. gone \subseteq Within(q)
  <2>1. \A i \in f .. h - 1 : i \in DOMAIN q
    BY <1>3, LenProperties
  <2> QED
    BY <2>1 DEF Within, AllBufs, Part
<1> QED
  BY <1>2, <1>4, <1>6, <1>7

-----------------------------------------------------------------------------
(* The operators of the superbuffer queue: each buffer of the channel C is  *)
(* once in its queue or among those given back, B being all of them.        *)

Chan(A) == [q : Seq(Super(A)), match_cnt : Int, expected_id : Int, nomatch_id : Int,
            diverted_id : Int, pending : Nat, retro : Nat, wait : BOOLEAN,
            spins : BOOLEAN, back : SUBSET (Streams \X Frames), sent : Seq(Super(A))]

Keeps(C, A, B) ==
    /\ C \in Chan(A)
    /\ Clean(C.q)
    /\ C.back \cap Within(C.q) = {} /\ C.back \cup Within(C.q) = B
    /\ C.retro <= C.pending
    /\ C.sent = <<>>

AttrShape == [streams : SUBSET Streams, data_cb : SUBSET Streams, notify_cb : BOOLEAN,
              notify_mode : {"burst", "continuous"}, water_mark : Nat, look_back : Nat,
              post_frame_skip : Nat, max_unmatched : Nat, low : BOOLEAN]

LEMMA FramesAreNatural == \A f \in Frames : f \in Nat /\ f # 0
  BY Naturals4 DEF Frames

LEMMA BufsOfSuper ==
    ASSUME NEW A \in SUBSET Streams, NEW x \in Super(A)
    PROVE  Bufs(x) \subseteq A \X Frames
  BY Naturals4 DEF Bufs, Super, Frames

LEMMA WithinType ==
    ASSUME NEW A \in SUBSET Streams, NEW q \in Seq(Super(A))
    PROVE  Within(q) \subseteq Streams \X Frames
<1>1. \A i \in DOMAIN q : q[i] \in Super(A)
  BY LenProperties
<1> QED
  BY <1>1, BufsOfSuper DEF Within

LEMMA FirstBuf ==
    ASSUME NEW A \in SUBSET Streams, NEW s \in A, NEW f \in Frames, NEW m \in BOOLEAN,
           NEW e \in BOOLEAN, NEW x,
           x = [idx |-> f, slot |-> [t \in A |-> IF t = s THEN f ELSE 0],
                matched |-> m, expected |-> e]
    PROVE  x \in Super(A) /\ Bufs(x) = {<<s, f>>}
  BY Naturals4 DEF Bufs, Super, Frames

LEMMA OneBufMore ==
    ASSUME NEW A \in SUBSET Streams, NEW s \in A, NEW f \in Frames, NEW x \in Super(A),
           x.slot[s] = 0, NEW y \in Super(A), y.slot = [x.slot EXCEPT ![s] = f]
    PROVE  Bufs(y) = Bufs(x) \cup {<<s, f>>}
<1>1. x.slot \in [A -> 0 .. MaxFrame] /\ y.slot \in [A -> 0 .. MaxFrame]
  BY DEF Super
<1>2. f # 0
  BY FramesAreNatural
<1>3. \A t \in A : y.slot[t] = IF t = s THEN f ELSE x.slot[t]
  BY <1>1
<1>4. DOMAIN x.slot = A /\ DOMAIN y.slot = A
  BY <1>1
<1>5. \A b : b \in Bufs(x) <=> \E t \in A : x.slot[t] # 0 /\ b = <<t, x.slot[t]>>
  BY <1>4 DEF Bufs
<1>6. \A b : b \in Bufs(y) <=> \E t \in A : y.slot[t] # 0 /\ b = <<t, y.slot[t]>>
  BY <1>4 DEF Bufs
<1>7. ASSUME NEW b \in Bufs(y) PROVE b \in Bufs(x) \cup {<<s, f>>}
  <2>1. PICK t \in A : y.slot[t] # 0 /\ b = <<t, y.slot[t]>>
    BY <1>6, <1>7
  <2> QED
    BY <2>1, <1>3, <1>5
<1>8. ASSUME NEW b \in Bufs(x) PROVE b \in Bufs(y)
  <2>1. PICK t \in A : x.slot[t] # 0 /\ b = <<t, x.slot[t]>>
    BY <1>5, <1>8
  <2>2. t # s
    BY <2>1
  <2> QED
    BY <2>1, <2>2, <1>3, <1>6
<1>9. <<s, f>> \in Bufs(y)
  BY <1>2, <1>3, <1>6
<1> QED
  BY <1>7, <1>8, <1>9

LEMMA LeadingFits ==
    ASSUME NEW A, NEW C, C.q \in Seq(Super(A))
    PROVE  Leading(C) \in 0 .. Len(C.q)
<1> DEFINE T == {i \in DOMAIN C.q : \A j \in 1 .. i : C.q[j].matched}
<1>1. Len(C.q) \in Nat /\ DOMAIN C.q = 1 .. Len(C.q)
  BY LenProperties
<1>2. IsFiniteSet(1 .. Len(C.q)) /\ Cardinality(1 .. Len(C.q)) = Len(C.q)
  BY <1>1, FS_Interval
<1>3. T \in SUBSET (1 .. Len(C.q))
  BY <1>1
<1> HIDE DEF T
<1>4. IsFiniteSet(T) /\ Cardinality(T) <= Len(C.q)
  BY <1>2, <1>3, FS_Subset
<1>5. Cardinality(T) \in Nat
  BY <1>4, FS_CardinalityType
<1> QED
  BY <1>1, <1>4, <1>5 DEF Leading, T

LEMMA FlushKeeps ==
    ASSUME NEW A \in SUBSET Streams, NEW B, NEW C, Keeps(C, A, B)
    PROVE  Keeps(FlushAll(C), A, B) /\ FlushAll(C).q = <<>>
<1> DEFINE T == {i \in DOMAIN C.q : C.q[i].matched}
           D == FlushAll(C)
<1>1. C \in Chan(A) /\ C.q \in Seq(Super(A))
  BY DEF Keeps, Chan
<1>2. Len(C.q) \in Nat /\ DOMAIN C.q = 1 .. Len(C.q)
  BY <1>1, LenProperties
<1>3. Cardinality(T) \in Nat
  <2>1. T \in SUBSET (1 .. Len(C.q))
    BY <1>2
  <2>2. IsFiniteSet(1 .. Len(C.q))
    BY <1>2, FS_Interval
  <2> HIDE DEF T
  <2> QED
    BY <2>1, <2>2, FS_Subset, FS_CardinalityType
<1>4. AllBufs(ToSet(C.q)) = Within(C.q)
  BY <1>1, WithinIsAll
<1> HIDE DEF T
<1>5. D = [C EXCEPT !.q = <<>>, !.match_cnt = @ - Cardinality(T),
                    !.back = @ \cup Within(C.q)]
  BY <1>1, <1>4 DEF FlushAll, GiveBack, Chan, T
<1> HIDE DEF D
<1>6. Within(C.q) \subseteq Streams \X Frames
  BY <1>1, WithinType
<1>7. <<>> \in Seq(Super(A)) /\ Clean(<<>>) /\ Within(<<>>) = {}
  BY DEF Clean, Within
<1>8. D \in Chan(A)
  <2>1. PICK m : m = C.match_cnt - Cardinality(T)
    OBVIOUS
  <2>2. PICK b : b = C.back \cup Within(C.q)
    OBVIOUS
  <2>3. m \in Int
    BY <2>1, <1>1, <1>3 DEF Chan
  <2>4. b \in SUBSET (Streams \X Frames)
    BY <2>2, <1>1, <1>6 DEF Chan
  <2>5. D = [C EXCEPT !.q = <<>>, !.match_cnt = m, !.back = b]
    BY <2>1, <2>2, <1>5
  <2>6. <<>> \in Seq(Super(A))
    OBVIOUS
  <2> QED
    BY <2>3, <2>4, <2>5, <2>6, <1>1 DEF Chan
<1>9. D.q = <<>> /\ D.back = C.back \cup Within(C.q) /\ D.sent = C.sent
      /\ D.pending = C.pending /\ D.retro = C.retro
  BY <1>1, <1>5 DEF Chan
<1> QED
  BY <1>7, <1>8, <1>9 DEF Keeps, D

LEMMA MetadataKeeps ==
    ASSUME NEW A \in SUBSET Streams, NEW B, NEW C, Keeps(C, A, B), NEW f \in Frames,
           NEW info \in Infos
    PROVE  Keeps(HandleMetadata(C, f, info), A, B)
<1> DEFINE div == IF info.divert = Past THEN 0 ELSE f + info.divert
           D == IF info.divert = Absent THEN C ELSE [C EXCEPT !.diverted_id = div]
           E == IF info.done = None THEN D
                ELSE IF info.done = "now" THEN [D EXCEPT !.wait = FALSE]
                ELSE FlushAll([D EXCEPT !.wait = FALSE, !.expected_id = @ + FutureOffset])
           F == IF info.good = Absent THEN E ELSE [E EXCEPT !.expected_id = f + info.good]
<1>1. f \in Int /\ info.done \in {None, "now", "future"}
      /\ info.good \in Nat \cup {Absent} /\ info.divert \in Nat \cup {Absent, Past}
  BY InfosAssumption, FramesAreNatural
<1>2. Absent \in Int /\ Past \in Int /\ FutureOffset \in Int
  BY DEF Absent, Past, FutureOffset
<1>3. HandleMetadata(C, f, info) = F
  <2>1. CASE info.done = None
    BY <2>1 DEF HandleMetadata, None
  <2>2. CASE info.done = "now"
    BY <2>2 DEF HandleMetadata, None
  <2>3. CASE info.done = "future"
    BY <2>3 DEF HandleMetadata, None
  <2> QED
    BY <2>1, <2>2, <2>3, <1>1
<1>4. div \in Int
  BY <1>1, <1>2
<1> HIDE DEF div
<1>5. Keeps(D, A, B)
  BY <1>4 DEF Keeps, Chan
<1> HIDE DEF D
<1>6. Keeps([D EXCEPT !.wait = FALSE], A, B)
  BY <1>5 DEF Keeps, Chan
<1>7. Keeps([D EXCEPT !.wait = FALSE, !.expected_id = @ + FutureOffset], A, B)
  <2>1. PICK m : m = D.expected_id + FutureOffset
    OBVIOUS
  <2>2. D.expected_id \in Int
    BY <1>5 DEF Keeps, Chan
  <2>3. m \in Int
    BY <2>1, <2>2, <1>2
  <2>4. Keeps([D EXCEPT !.wait = FALSE, !.expected_id = m], A, B)
    BY <2>3, <1>5 DEF Keeps, Chan
  <2> QED
    BY <2>1, <2>4
<1>8. Keeps(E, A, B)
  BY <1>5, <1>6, <1>7, FlushKeeps
<1> HIDE DEF E
<1>9. info.good # Absent => f + info.good \in Int
  BY <1>1, <1>2
<1>10. Keeps(F, A, B)
  BY <1>8, <1>9 DEF Keeps, Chan
<1> QED
  BY <1>3, <1>10

\* n superbuffers taken from the head.
Popped(C, D, A, n) ==
    /\ D \in Chan(A)
    /\ D.q = SubSeq(C.q, n + 1, Len(C.q))
    /\ SubSeq(C.q, 1, n) \in Seq(Super(A))
    /\ Parts(C.q, SubSeq(C.q, 1, n), D.q)
    /\ AllBufs(Part(C.q, 1, n)) = Within(SubSeq(C.q, 1, n))
    /\ D.back = C.back /\ D.sent = <<>> /\ D.pending = C.pending
    /\ D.retro = C.retro /\ D.wait = C.wait /\ D.match_cnt = C.match_cnt - n

LEMMA PopKeeps ==
    ASSUME NEW A \in SUBSET Streams, NEW B, NEW C, Keeps(C, A, B), NEW n \in 0 .. Leading(C)
    PROVE  Popped(C, Pop(C, n), A, n)
<1> DEFINE D == Pop(C, n)
           r == SubSeq(C.q, n + 1, Len(C.q))
<1>1. C \in Chan(A) /\ C.q \in Seq(Super(A)) /\ Clean(C.q) /\ C.sent = <<>>
      /\ C.match_cnt \in Int
  BY DEF Keeps, Chan
<1>2. Leading(C) \in 0 .. Len(C.q) /\ Len(C.q) \in Nat
  BY <1>1, LeadingFits, LenProperties
<1>3. n \in 0 .. Len(C.q) /\ n \in Int
  BY <1>2
<1>4. r \in Seq(Super(A))
  BY <1>1, <1>3, CutQueue
<1> HIDE DEF r
<1>5. C.match_cnt - n \in Int
  BY <1>1, <1>3
<1>6. D = [C EXCEPT !.q = r, !.match_cnt = @ - n]
  BY <1>1 DEF Pop, r, Chan
<1> HIDE DEF D
<1>7. D \in Chan(A)
  BY <1>1, <1>4, <1>5, <1>6 DEF Chan
<1>8. D.q = r /\ D.back = C.back /\ D.sent = <<>> /\ D.pending = C.pending
      /\ D.retro = C.retro /\ D.wait = C.wait /\ D.match_cnt = C.match_cnt - n
  BY <1>1, <1>6 DEF Chan
<1>9. SubSeq(C.q, 1, n) \in Seq(Super(A)) /\ Parts(C.q, SubSeq(C.q, 1, n), r)
      /\ AllBufs(Part(C.q, 1, n)) = Within(SubSeq(C.q, 1, n))
  BY <1>1, <1>3, CutQueue, Zenon DEF r
<1> QED
  BY <1>7, <1>8, <1>9 DEF D, r, Popped

LEMMA DropKeeps ==
    ASSUME NEW A \in SUBSET Streams, NEW B, NEW C, Keeps(C, A, B), NEW limit \in Nat
    PROVE  Keeps(DropTo(C, limit), A, B)
<1> DEFINE n == C.match_cnt - limit
<1>1. n \in Int /\ C \in Chan(A) /\ C.q \in Seq(Super(A))
  BY DEF Keeps, Chan
<1>2. CASE attr.notify_mode = "continuous" \/ n <= 0
  BY <1>2 DEF DropTo
<1>3. CASE ~(attr.notify_mode = "continuous" \/ n <= 0) /\ n > Leading(C)
  <2>1. DropTo(C, limit) = [C EXCEPT !.spins = TRUE]
    BY <1>3 DEF DropTo
  <2> QED
    BY <2>1 DEF Keeps, Chan
<1>4. CASE ~(attr.notify_mode = "continuous" \/ n <= 0) /\ ~(n > Leading(C))
  <2> DEFINE P == Pop(C, n)
             p == SubSeq(C.q, 1, n)
             gone == AllBufs(Part(C.q, 1, n))
             D == DropTo(C, limit)
  <2>1. D = GiveBack(P, gone)
    BY <1>4 DEF DropTo, Part
  <2>2. Leading(C) \in Nat
    BY <1>1, LeadingFits, LenProperties
  <2>3. n \in 0 .. Leading(C)
    BY <1>1, <1>4, <2>2
  <2>4. Popped(C, P, A, n)
    BY <2>3, PopKeeps
  <2> HIDE DEF P, D
  <2>9. /\ P \in Chan(A) /\ Clean(P.q) /\ p \in Seq(Super(A))
        /\ Within(p) \cap Within(P.q) = {} /\ Within(p) \cup Within(P.q) = Within(C.q)
        /\ gone = Within(p) /\ P.back = C.back /\ P.sent = <<>>
        /\ P.pending = C.pending /\ P.retro = C.retro
    BY <2>4 DEF Popped, Parts
  <2> HIDE DEF gone, p
  <2>5. gone \subseteq Streams \X Frames
    BY <2>9, WithinType
  <2>6. D \in Chan(A) /\ D.q = P.q /\ D.back = P.back \cup gone /\ D.sent = P.sent
        /\ D.pending = P.pending /\ D.retro = P.retro
    BY <2>1, <2>9, <2>5 DEF GiveBack, Chan
  <2>7. D.back \cap Within(D.q) = {} /\ D.back \cup Within(D.q) = B
    BY <2>9, <2>6 DEF Keeps
  <2>8. Keeps(D, A, B)
    BY <2>9, <2>6, <2>7 DEF Keeps
  <2> QED
    BY <2>8 DEF D
<1> QED
  BY <1>2, <1>3, <1>4

LEMMA RequestedKeeps ==
    ASSUME NEW A \in SUBSET Streams, NEW B, NEW C, Keeps(C, A, B), NEW n \in Nat,
           NEW retro \in Nat, attr \in AttrShape
    PROVE  Keeps(Requested(C, n, retro), A, B)
<1> DEFINE k == IF n = 0 \/ retro > n THEN n ELSE retro
           D == [C EXCEPT !.pending = n, !.retro = k, !.wait = FALSE]
<1>1. k \in Nat /\ k <= n
  OBVIOUS
<1> HIDE DEF k
<1>2. Keeps(D, A, B)
  BY <1>1 DEF Keeps, Chan
<1> HIDE DEF D
<1>3. attr.look_back \in Nat
  BY DEF AttrShape
<1>4. Keeps(DropTo(D, attr.look_back), A, B)
  BY <1>2, <1>3, DropKeeps
<1> QED
  BY <1>4 DEF Requested, D, k

\* What is sent leaves the queue, and no more is sent than was asked for.
Sends(D, A, B) ==
    /\ D \in Chan(A)
    /\ Clean(D.q) /\ Clean(D.sent)
    /\ D.back \cap Within(D.q) = {} /\ D.back \cap Within(D.sent) = {}
    /\ Within(D.sent) \cap Within(D.q) = {}
    /\ D.back \cup Within(D.q) \cup Within(D.sent) = B
    /\ D.retro <= D.pending

LEMMA LeastOfTwo ==
    ASSUME NEW a \in Nat, NEW b \in Nat
    PROVE  Min({a, b}) \in {a, b} /\ Min({a, b}) <= a /\ Min({a, b}) <= b
  BY MinFacts

LEMMA DispatchKeeps ==
    ASSUME NEW A \in SUBSET Streams, NEW B, NEW C, Keeps(C, A, B)
    PROVE  Sends(Dispatch(C), A, B)
<1> DEFINE burst == attr.notify_mode = "burst"
           limit == IF C.retro > 0 THEN Min({C.retro, C.pending}) ELSE C.pending
           n == IF C.wait THEN 0
                ELSE IF burst THEN Min({limit, Leading(C)}) ELSE Leading(C)
           sent == SubSeq(C.q, 1, n)
           left == [Pop(C, n) EXCEPT !.sent = sent]
           D == Dispatch(C)
<1>1. C.retro \in Nat /\ C.pending \in Nat /\ C.wait \in BOOLEAN /\ C.retro <= C.pending
      /\ C.q \in Seq(Super(A)) /\ C.back \cap Within(C.q) = {}
      /\ C.back \cup Within(C.q) = B
  BY DEF Keeps, Chan
<1>2. Leading(C) \in Nat
  BY <1>1, LeadingFits, LenProperties
<1>3. limit \in Nat /\ limit <= C.pending
  BY <1>1, LeastOfTwo
<1> HIDE DEF limit
<1>4. n \in 0 .. Leading(C) /\ (burst => n <= C.pending)
  <2> DEFINE l == Leading(C)
             least == Min({limit, l})
  <2>1. least \in {limit, l} /\ least <= limit /\ least <= l
    BY <1>2, <1>3, LeastOfTwo
  <2>2. l \in Nat /\ C.pending \in Nat
    BY <1>1, <1>2
  <2> HIDE DEF l, least
  <2>3. n = IF C.wait THEN 0 ELSE IF burst THEN least ELSE l
    BY DEF l, least
  <2>4. n \in 0 .. l /\ (burst => n <= C.pending)
    <3> HIDE DEF n, burst
    <3> QED
      BY <2>1, <2>2, <2>3, <1>3
  <2> QED
    BY <2>4 DEF l
<1>5. D = IF ~burst THEN left
          ELSE [left EXCEPT !.pending = @ - n, !.retro = @ - Min({@, n}),
                            !.wait = @ \/ (n > 0 /\ C.retro = n)]
  BY DEF Dispatch, limit
<1> HIDE DEF n
<1>6. Popped(C, Pop(C, n), A, n)
  BY <1>4, PopKeeps
<1> DEFINE P == Pop(C, n)
<1> HIDE DEF P
<1>7. P \in Chan(A) /\ sent \in Seq(Super(A)) /\ P.pending = C.pending
      /\ P.retro = C.retro /\ P.back = C.back
  BY <1>6 DEF Popped, P
<1>8. Clean(P.q) /\ Clean(sent) /\ Within(sent) \cap Within(P.q) = {}
      /\ Within(sent) \cup Within(P.q) = Within(C.q)
  BY <1>6 DEF Popped, P, Parts
<1> HIDE DEF sent
<1>9. left \in Chan(A) /\ left.q = P.q /\ left.sent = sent /\ left.back = C.back
      /\ left.pending = C.pending /\ left.retro = C.retro
  BY <1>7 DEF P, Chan
<1> HIDE DEF left, D
<1>10. D \in Chan(A) /\ D.q = P.q /\ D.sent = sent /\ D.back = C.back
       /\ D.retro <= D.pending
  <2>1. CASE ~burst
    BY <2>1, <1>1, <1>5, <1>9
  <2>2. CASE burst
    <3> DEFINE least == Min({C.retro, n})
    <3>1. n \in Nat
      BY <1>2, <1>4
    <3>2. least \in {C.retro, n} /\ least <= C.retro /\ least <= n
      BY <3>1, <1>1, LeastOfTwo
    <3>3. D = [left EXCEPT !.pending = C.pending - n, !.retro = C.retro - least,
                           !.wait = @ \/ (n > 0 /\ C.retro = n)]
      BY <2>2, <1>5, <1>9
    <3> HIDE DEF least
    <3>4. PICK a, b : a = C.pending - n /\ b = C.retro - least
      OBVIOUS
    <3>5. PICK w : w = (left.wait \/ (n > 0 /\ C.retro = n))
      OBVIOUS
    <3>6. a \in Nat /\ b \in Nat /\ b <= a
      BY <3>1, <3>2, <3>4, <2>2, <1>1, <1>4
    <3>7. w \in BOOLEAN
      BY <3>5
    <3>8. D = [left EXCEPT !.pending = a, !.retro = b, !.wait = w]
      BY <3>3, <3>4, <3>5, <1>9 DEF Chan
    <3>9. D \in Chan(A)
      BY <3>6, <3>7, <3>8, <1>9 DEF Chan
    <3>10. D.q = left.q /\ D.sent = left.sent /\ D.back = left.back /\ D.pending = a
           /\ D.retro = b
      BY <3>8, <1>9 DEF Chan
    <3> QED
      BY <3>6, <3>9, <3>10, <1>9
  <2> QED
    BY <2>1, <2>2
<1>11. /\ D.back \cap Within(D.q) = {} /\ D.back \cap Within(D.sent) = {}
       /\ D.back \cup Within(D.q) \cup Within(D.sent) = B
  BY <1>1, <1>8, <1>10
<1>12. Sends(D, A, B)
  BY <1>8, <1>10, <1>11 DEF Sends
<1> QED
  BY <1>12 DEF D

-----------------------------------------------------------------------------
(* A buffer that comes in. *)

\* A channel changed in its counts only.
LEMMA GivenBack ==
    ASSUME NEW A \in SUBSET Streams, NEW B, NEW C, Keeps(C, A, B), NEW s \in A,
           NEW f \in Frames, <<s, f>> \notin B
    PROVE  Keeps(GiveBack(C, {<<s, f>>}), A, B \cup {<<s, f>>})
<1>1. GiveBack(C, {<<s, f>>}) = [C EXCEPT !.back = C.back \cup {<<s, f>>}]
  BY DEF GiveBack, Keeps, Chan
<1>2. C.back \cup {<<s, f>>} \in SUBSET (Streams \X Frames)
  BY DEF Keeps, Chan
<1>3. PICK b : b = C.back \cup {<<s, f>>}
  OBVIOUS
<1>4. Keeps([C EXCEPT !.back = b], A, B \cup {<<s, f>>})
  BY <1>2, <1>3 DEF Keeps, Chan
<1> QED
  BY <1>1, <1>3, <1>4

\* A channel whose queue and counts have changed.
LEMMA Changed ==
    ASSUME NEW A, NEW B, NEW C, Keeps(C, A, B), NEW D \in Chan(A), NEW W,
           D.q \in Queue(Super(A), W), D.back \cap W = {}, NEW E, D.back \cup W = E,
           D.pending = C.pending, D.retro = C.retro, D.sent = C.sent
    PROVE  Keeps(D, A, E)
  BY DEF Keeps, Queue

LEMMA JoinKeeps ==
    ASSUME NEW A \in SUBSET Streams, NEW B, NEW C, Keeps(C, A, B), NEW s \in A,
           NEW f \in Frames, <<s, f>> \notin B, NEW hit \in 1 .. Len(C.q),
           attr \in AttrShape
    PROVE  Keeps(Join(C, s, f, hit), A, B \cup {<<s, f>>})
<1> DEFINE q == C.q
           x == [q[hit] EXCEPT !.slot[s] = f]
           old == {i \in 1 .. hit - 1 : ~q[i].matched /\ q[i].idx < f}
           older == First(old)
           from == IF older = 0 THEN hit ELSE older
           found == [C EXCEPT !.nomatch_id = 0]
           gone == AllBufs(Part(q, from, hit - 1))
           D == Join(C, s, f, hit)
<1>1. C \in Chan(A) /\ q \in Seq(Super(A)) /\ Clean(q) /\ C.back \cap Within(q) = {}
      /\ C.back \cup Within(q) = B /\ C.back \in SUBSET (Streams \X Frames)
      /\ C.match_cnt \in Int /\ C.diverted_id \in Int
  BY DEF Keeps, Chan
<1>2. q[hit] \in Super(A) /\ Len(q) \in Nat /\ hit \in Nat
  BY <1>1, LenProperties
<1>3. f \in Nat /\ f # 0 /\ f \in 0 .. MaxFrame
  BY Naturals4 DEF Frames
<1>4. from \in 1 .. hit
  <2>1. old \subseteq Nat /\ \A i \in old : i \in 1 .. hit
    BY <1>2
  <2> HIDE DEF old
  <2>2. older = 0 \/ older \in old
    BY <2>1, FirstFacts
  <2>3. hit \in 1 .. hit
    BY <1>2
  <2> HIDE DEF older
  <2> QED
    BY <2>1, <2>2, <2>3
<1>5. x \in Super(A) /\ x.matched = q[hit].matched
  BY <1>2, <1>3 DEF Super
<1>6. Keeps(found, A, B) /\ found \in Chan(A)
  <2>1. found \in Chan(A)
    <3>1. C \in Chan(A) /\ 0 \in Int
      BY <1>1
    <3> QED
      BY <3>1 DEF Chan
  <2>2. found.q = C.q /\ found.back = C.back /\ found.retro = C.retro
        /\ found.pending = C.pending /\ found.sent = C.sent
    BY <1>1 DEF Chan
  <2> HIDE DEF found, q
  <2> QED
    BY <2>1, <2>2 DEF Keeps
<1>7. D = IF q[hit].slot[s] # 0 THEN GiveBack(found, {<<s, f>>})
          ELSE IF \A t \in DOMAIN x.slot : x.slot[t] # 0 THEN
              GiveBack([found EXCEPT !.q = SubSeq(@, 1, from - 1)
                                  \o <<[x EXCEPT !.matched = TRUE, !.expected = FALSE]>>
                                  \o SubSeq(@, hit + 1, Len(@)),
                                     !.match_cnt = @ + 1,
                                     !.expected_id = f + attr.post_frame_skip],
                       gone)
          ELSE [found EXCEPT !.q[hit] = [x EXCEPT !.expected = @ \/ C.diverted_id = f],
                             !.diverted_id = IF @ = f THEN 0 ELSE @]
  BY DEF Join, Part
<1> HIDE DEF from, D
<1>8. CASE q[hit].slot[s] # 0
  BY <1>6, <1>7, <1>8, GivenBack DEF D
<1>9. ASSUME q[hit].slot[s] = 0, NEW y \in Super(A), y.slot = x.slot
      PROVE  Bufs(y) = Bufs(q[hit]) \cup {<<s, f>>}
  <2>1. x.slot = [q[hit].slot EXCEPT ![s] = f]
    BY <1>2 DEF Super
  <2> HIDE DEF x, q
  <2>2. y.slot = [q[hit].slot EXCEPT ![s] = f] /\ q[hit].slot[s] = 0
    BY <2>1, <1>9
  <2>3. PICK z \in Super(A) : z = q[hit]
    BY <1>2
  <2>4. y.slot = [z.slot EXCEPT ![s] = f] /\ z.slot[s] = 0
    BY <2>2, <2>3
  <2>5. Bufs(y) = Bufs(z) \cup {<<s, f>>}
    BY <2>4, <1>9, OneBufMore
  <2> QED
    BY <2>3, <2>5
<1>10. CASE q[hit].slot[s] = 0 /\ \A t \in DOMAIN x.slot : x.slot[t] # 0
  <2> DEFINE y == [x EXCEPT !.matched = TRUE, !.expected = FALSE]
             r == SubSeq(q, 1, from - 1) \o <<y>> \o SubSeq(q, hit + 1, Len(q))
             W == (Within(q) \cup {<<s, f>>}) \ gone
  <2>1. y \in Super(A) /\ y.slot = x.slot
    BY <1>5 DEF Super
  <2>2. Bufs(y) = Bufs(q[hit]) \cup {<<s, f>>}
    BY <2>1, <1>9, <1>10
  <2>3. PICK m, e : m = C.match_cnt + 1 /\ e = f + attr.post_frame_skip
    OBVIOUS
  <2>4. m \in Int /\ e \in Int
    BY <2>3, <1>1, <1>3 DEF AttrShape
  <2>5. <<s, f>> \notin Within(q)
    BY <1>1
  <2> HIDE DEF y, x, q
  <2>6. r \in Queue(Super(A), W) /\ gone \subseteq Within(q)
    <3> DEFINE b == <<s, f>>
    <3>1. b \notin Within(q) /\ Bufs(y) = Bufs(q[hit]) \cup {b} /\ hit \in 1 .. Len(q)
      BY <2>2, <2>5 DEF q
    <3> HIDE DEF b
    <3>2. SubSeq(q, 1, from - 1) \o <<y>> \o SubSeq(q, hit + 1, Len(q))
            \in Queue(Super(A), (Within(q) \cup {b}) \ AllBufs(Part(q, from, hit - 1)))
      BY <2>1, <3>1, <1>1, <1>4, Merged, Zenon
    <3>3. gone \subseteq Within(q)
      BY <2>1, <3>1, <1>1, <1>4, Merged, Zenon
    <3> QED
      BY <3>2, <3>3 DEF b
  <2>7. PICK b : b = C.back \cup gone
    OBVIOUS
  <2>8. b \in SUBSET (Streams \X Frames)
    BY <2>6, <2>7, <1>1, WithinType
  <2>9. D = [found EXCEPT !.q = r, !.match_cnt = m, !.expected_id = e, !.back = b]
    <3>1. D = GiveBack([found EXCEPT !.q = r, !.match_cnt = m, !.expected_id = e], gone)
      BY <2>3, <1>1, <1>7, <1>10 DEF q, y, Chan
    <3> QED
      BY <3>1, <2>7, <1>6 DEF GiveBack, Chan
  <2>10. r \in Seq(Super(A))
    BY <2>6 DEF Queue
  <2> HIDE DEF r, W
  <2>11. D \in Chan(A) /\ D.q = r /\ D.back = b /\ D.pending = C.pending
         /\ D.retro = C.retro /\ D.sent = C.sent
    <3> HIDE DEF found
    <3>1. D \in Chan(A)
      BY <2>4, <2>8, <2>9, <2>10, <1>6 DEF Chan
    <3>2. D.q = r /\ D.back = b /\ D.pending = found.pending
          /\ D.retro = found.retro /\ D.sent = found.sent
      BY <2>9, <1>6 DEF Chan
    <3> QED
      BY <3>1, <3>2, <1>1 DEF found, Chan
  <2>12. b \cap W = {} /\ b \cup W = B \cup {<<s, f>>}
    BY <2>6, <2>7, <1>1 DEF W, q
  <2>13. Keeps(D, A, B \cup {<<s, f>>})
    BY <2>6, <2>11, <2>12, Changed
  <2> QED
    BY <2>13 DEF D
<1>11. CASE q[hit].slot[s] = 0 /\ ~\A t \in DOMAIN x.slot : x.slot[t] # 0
  <2> DEFINE y == [x EXCEPT !.expected = @ \/ C.diverted_id = f]
             r == [q EXCEPT ![hit] = y]
             W == Within(q) \cup {<<s, f>>}
  <2>1. y \in Super(A) /\ y.slot = x.slot
    BY <1>5 DEF Super
  <2>2. Bufs(y) = Bufs(q[hit]) \cup {<<s, f>>}
    BY <2>1, <1>9, <1>11
  <2>3. PICK d : d = IF C.diverted_id = f THEN 0 ELSE C.diverted_id
    OBVIOUS
  <2>4. d \in Int
    BY <2>3, <1>1
  <2>5. <<s, f>> \notin Within(q)
    BY <1>1
  <2>6. D = [found EXCEPT !.q = r, !.diverted_id = d]
    BY <2>3, <1>6, <1>7, <1>11 DEF Chan
  <2> HIDE DEF y, x, q
  <2>7. r \in Queue(Super(A), W)
    <3>1. hit \in 1 .. Len(q)
      BY DEF q
    <3> QED
      BY <2>1, <2>2, <2>5, <3>1, <1>1, FillQueue, Zenon
  <2>8. r \in Seq(Super(A))
    BY <2>7 DEF Queue
  <2> HIDE DEF r, W
  <2>9. D \in Chan(A) /\ D.q = r /\ D.back = C.back /\ D.pending = C.pending
        /\ D.retro = C.retro /\ D.sent = C.sent
    BY <2>4, <2>6, <2>8, <1>6, <1>1 DEF Chan
  <2>10. C.back \cap W = {} /\ C.back \cup W = B \cup {<<s, f>>}
    BY <1>1 DEF W, q
  <2>11. Keeps(D, A, B \cup {<<s, f>>})
    BY <2>7, <2>9, <2>10, Changed
  <2> QED
    BY <2>11 DEF D
<1> QED
  BY <1>8, <1>10, <1>11

LEMMA InsertKeeps ==
    ASSUME NEW A \in SUBSET Streams, NEW B, NEW C, Keeps(C, A, B), NEW s \in A,
           NEW f \in Frames, <<s, f>> \notin B, attr \in AttrShape, attr.streams = A
    PROVE  Keeps(Insert(C, s, f), A, B \cup {<<s, f>>})
<1> DEFINE q == C.q
           len == Len(C.q)
           loose == {i \in DOMAIN C.q : ~C.q[i].matched}
           below == {i \in loose : C.q[i].idx < f}
           above == {i \in loose : C.q[i].idx > f}
           older == First(below)
           newer == First(above)
           at == IF newer = 0 THEN len + 1 ELSE newer
           full == Cardinality(loose) > attr.max_unmatched
           spare == {i \in older .. len : ~C.q[i].expected /\ i # newer}
           victim == IF spare = {} THEN older ELSE Min(spare)
           alone == attr.streams = {s}
           marked == ~alone /\ C.diverted_id = f
           x == [idx |-> f, slot |-> [t \in attr.streams |-> IF t = s THEN f ELSE 0],
                 matched |-> alone, expected |-> marked]
           placed == [C EXCEPT
            !.q = InsertAt(@, at, x),
            !.diverted_id = IF @ = f THEN 0 ELSE @,
            !.match_cnt = IF alone THEN @ + 1 ELSE @,
            !.expected_id = IF alone THEN f + attr.post_frame_skip ELSE @,
            !.nomatch_id = IF attr.low /\ s # Meta THEN f ELSE @]
           W == Within(q) \cup {<<s, f>>}
           D == Insert(C, s, f)
<1>1. C \in Chan(A) /\ q \in Seq(Super(A)) /\ Clean(q) /\ C.back \cap Within(q) = {}
      /\ C.back \cup Within(q) = B /\ C.back \in SUBSET (Streams \X Frames)
      /\ C.match_cnt \in Int /\ C.diverted_id \in Int /\ C.expected_id \in Int
      /\ C.nomatch_id \in Int
  BY DEF Keeps, Chan
<1>2. len \in Nat /\ DOMAIN q = 1 .. len
  BY <1>1, LenProperties
<1>3. f \in Nat /\ f \in Int
  BY FramesAreNatural
<1>4. below \subseteq 1 .. len /\ above \subseteq 1 .. len
  BY <1>2
<1>5. older \in 0 .. len /\ newer \in 0 .. len
  <2> HIDE DEF below, above
  <2> QED
    BY <1>2, <1>4, FirstWithin
<1> HIDE DEF older, newer
<1>6. at \in 1 .. len + 1
  BY <1>2, <1>5
<1>7. older # 0 => victim \in 1 .. len
  <2> SUFFICES ASSUME older # 0 PROVE victim \in 1 .. len
    OBVIOUS
  <2>1. spare \subseteq 1 .. len /\ spare \subseteq Nat
    BY <1>2, <1>5
  <2>2. spare # {} => Min(spare) \in spare
    <3> HIDE DEF spare
    <3> QED
      BY <2>1, MinFacts
  <2>3. older \in 1 .. len
    BY <1>2, <1>5
  <2> HIDE DEF spare
  <2> QED
    BY <2>1, <2>2, <2>3
<1>8. x \in Super(A) /\ Bufs(x) = {<<s, f>>}
  <2>1. alone \in BOOLEAN /\ marked \in BOOLEAN
    OBVIOUS
  <2>2. x = [idx |-> f, slot |-> [t \in A |-> IF t = s THEN f ELSE 0],
             matched |-> alone, expected |-> marked]
    OBVIOUS
  <2> HIDE DEF x, alone, marked
  <2> QED
    BY <2>1, <2>2, FirstBuf
<1>9. D = IF ~full THEN placed
          ELSE IF older = 0 THEN GiveBack(C, {<<s, f>>})
          ELSE GiveBack([placed EXCEPT
                          !.q = RemoveAt(@, IF victim < at THEN victim ELSE victim + 1)],
                        Bufs(C.q[victim]))
  BY DEF Insert, older, newer
<1> DEFINE r == InsertAt(q, at, x)
<1> HIDE DEF at, x, full, spare, victim, D
<1>10. r \in Queue(Super(A), W) /\ Shifted(q, r, at)
  <2>1. Bufs(x) \cap Within(q) = {}
    BY <1>1, <1>8
  <2>2. at \in 1 .. Len(q) + 1
    BY <1>6
  <2> HIDE DEF q
  <2>3. InsertAt(q, at, x) \in Queue(Super(A), Within(q) \cup Bufs(x))
        /\ Shifted(q, InsertAt(q, at, x), at)
    BY <2>1, <2>2, <1>1, <1>8, InsertQueue
  <2> QED
    BY <2>3, <1>8 DEF q
<1> HIDE DEF r
<1>11. r \in Seq(Super(A)) /\ Clean(r) /\ Within(r) = W
  BY <1>10 DEF Queue
<1>12. placed \in Chan(A) /\ placed.q = r /\ placed.back = C.back /\ placed.sent = C.sent
       /\ placed.pending = C.pending /\ placed.retro = C.retro
  <2>1. PICK m, e, d, k : /\ m = IF alone THEN C.match_cnt + 1 ELSE C.match_cnt
                          /\ e = IF alone THEN f + attr.post_frame_skip ELSE C.expected_id
                          /\ d = IF C.diverted_id = f THEN 0 ELSE C.diverted_id
                          /\ k = IF attr.low /\ s # Meta THEN f ELSE C.nomatch_id
    OBVIOUS
  <2>2. placed = [C EXCEPT !.q = r, !.diverted_id = d, !.match_cnt = m,
                           !.expected_id = e, !.nomatch_id = k]
    BY <2>1, <1>1 DEF r, Chan
  <2>3. attr.post_frame_skip \in Nat
    BY DEF AttrShape
  <2>4. m \in Int /\ e \in Int /\ d \in Int /\ k \in Int
    <3> HIDE DEF alone
    <3> QED
      BY <2>1, <2>3, <1>1, <1>3
  <2> HIDE DEF placed
  <2> QED
    BY <2>2, <2>4, <1>1, <1>11 DEF Chan
<1>13. Keeps(placed, A, B \cup {<<s, f>>})
  <2>1. C.back \cap W = {} /\ C.back \cup W = B \cup {<<s, f>>}
    BY <1>1
  <2> HIDE DEF placed, W
  <2> QED
    BY <2>1, <1>10, <1>12, Changed
<1>14. ASSUME older # 0
       PROVE  Keeps(GiveBack([placed EXCEPT
                          !.q = RemoveAt(@, IF victim < at THEN victim ELSE victim + 1)],
                        Bufs(C.q[victim])), A, B \cup {<<s, f>>})
  <2> DEFINE v == Moved(victim, at)
             gone == Bufs(C.q[victim])
             p == RemoveAt(r, v)
             E == GiveBack([placed EXCEPT
                          !.q = RemoveAt(@, IF victim < at THEN victim ELSE victim + 1)],
                        gone)
  <2>1. victim \in 1 .. len
    BY <1>7, <1>14
  <2>2. v \in 1 .. Len(r) /\ r[v] = C.q[victim]
    BY <2>1, <1>10 DEF Shifted
  <2>3. gone \subseteq Within(q) /\ gone \subseteq Streams \X Frames
    <3>1. gone \subseteq Within(q)
      BY <2>1, <1>2 DEF Within
    <3> QED
      BY <3>1, <1>1, WithinType
  <2> HIDE DEF v
  <2>4. p \in Queue(Super(A), Within(r) \ Bufs(r[v]))
    BY <2>2, <1>11, RemoveQueue
  <2>5. p \in Queue(Super(A), W \ gone)
    BY <2>2, <2>4, <1>11
  <2>6. PICK b : b = C.back \cup gone
    OBVIOUS
  <2>7. E = [placed EXCEPT !.q = p, !.back = b]
    <3>1. E = GiveBack([placed EXCEPT !.q = RemoveAt(placed.q, v)], gone)
      BY <1>12 DEF v, Moved, Chan
    <3> HIDE DEF E
    <3> QED
      BY <3>1, <2>6, <1>12 DEF GiveBack, Chan
  <2>8. p \in Seq(Super(A)) /\ b \in SUBSET (Streams \X Frames)
    BY <2>3, <2>5, <2>6, <1>1 DEF Queue
  <2> HIDE DEF p, E, placed
  <2>9. E \in Chan(A) /\ E.q = p /\ E.back = b /\ E.sent = C.sent
        /\ E.pending = C.pending /\ E.retro = C.retro
    BY <2>7, <2>8, <1>12 DEF Chan
  <2>10. b \cap (W \ gone) = {} /\ b \cup (W \ gone) = B \cup {<<s, f>>}
    BY <2>3, <2>6, <1>1
  <2> DEFINE V == W \ gone
  <2>11. E.q \in Queue(Super(A), V) /\ E.back \cap V = {} /\ E.back \cup V = B \cup {<<s, f>>}
    BY <2>5, <2>9, <2>10
  <2> HIDE DEF V
  <2>12. Keeps(E, A, B \cup {<<s, f>>})
    BY <2>9, <2>11, Changed
  <2> QED
    BY <2>12 DEF E
<1>15. Keeps(GiveBack(C, {<<s, f>>}), A, B \cup {<<s, f>>})
  BY GivenBack
<1>16. Keeps(D, A, B \cup {<<s, f>>})
  <2> HIDE DEF placed
  <2> QED
    BY <1>9, <1>13, <1>14, <1>15
<1> QED
  BY <1>16 DEF D

LEMMA EnqueueKeeps ==
    ASSUME NEW A \in SUBSET Streams, NEW B, NEW C, Keeps(C, A, B), NEW s \in A,
           NEW f \in Frames, <<s, f>> \notin B, attr \in AttrShape, attr.streams = A
    PROVE  Keeps(Enqueue(C, s, f), A, B \cup {<<s, f>>})
<1> DEFINE T == {i \in DOMAIN C.q : Takes(C, s, f, C.q[i])}
           hit == Taker(C, s, f)
<1>1. C.q \in Seq(Super(A))
  BY DEF Keeps, Chan
<1>2. T \subseteq 1 .. Len(C.q) /\ T \subseteq Nat
  <2>1. DOMAIN C.q = 1 .. Len(C.q)
    BY <1>1, LenProperties
  <2> QED
    BY <2>1
<1> HIDE DEF T
<1>3. hit = 0 \/ hit \in 1 .. Len(C.q)
  <2>1. First(T) = 0 \/ First(T) \in T
    BY <1>2, FirstFacts
  <2> QED
    BY <2>1, <1>2 DEF Taker, T
<1> HIDE DEF hit
<1>4. hit # 0 => Keeps(Join(C, s, f, hit), A, B \cup {<<s, f>>})
  BY <1>3, JoinKeeps
<1>5. Keeps(Insert(C, s, f), A, B \cup {<<s, f>>})
  BY InsertKeeps
<1>6. Keeps(GiveBack(C, {<<s, f>>}), A, B \cup {<<s, f>>})
  BY GivenBack
<1> QED
  BY <1>4, <1>5, <1>6 DEF Enqueue, hit

-----------------------------------------------------------------------------
(* The command queue of the channel's thread. *)

Cmd(A) == [type : {"data"}, s : A, f : Frames]
          \cup [type : {"req"}, n : Nat, retro : Nat]
          \cup [type : {"flush"}, f : {0}]

\* The commands that hand a buffer over, those that do not, and the buffers.
DataAt(cs) == {j \in DOMAIN cs : cs[j].type = "data"}
OtherAt(cs) == DOMAIN cs \ DataAt(cs)
BufAt(cs, i) == <<cs[i].s, cs[i].f>>
Data(cs) == {BufAt(cs, i) : i \in DataAt(cs)}
Once(cs) == \A i, j \in DataAt(cs) : i # j => BufAt(cs, i) # BufAt(cs, j)
FlushAt(cs) == {j \in DOMAIN cs : cs[j].type = "flush"}

LEMMA DataType ==
    ASSUME NEW A \in SUBSET Streams, NEW cs \in Seq(Cmd(A))
    PROVE  Data(cs) \subseteq A \X Frames
<1>1. \A i \in DOMAIN cs : cs[i] \in Cmd(A)
  BY LenProperties
<1> QED
  BY <1>1 DEF Data, DataAt, BufAt, Cmd

\* The command d with the frame f of s follows the commands cs.
Extended(A, cs, ds, s, f, d) ==
    /\ ds \in Seq(Cmd(A)) /\ Once(ds) /\ Data(ds) = Data(cs) \cup {<<s, f>>}
    /\ OtherAt(ds) = OtherAt(cs) /\ FlushAt(ds) = FlushAt(cs)

LEMMA DataAppended ==
    ASSUME NEW A \in SUBSET Streams, NEW cs \in Seq(Cmd(A)), NEW s \in A, NEW f \in Frames,
           <<s, f>> \notin Data(cs), Once(cs), NEW d \in Cmd(A), d.type = "data",
           d.s = s, d.f = f, NEW ds, ds = Append(cs, d)
    PROVE  Extended(A, cs, ds, s, f, d)
<1> DEFINE n == Len(cs) + 1
<1>1. d \in Cmd(A) /\ d.type = "data" /\ d.s = s /\ d.f = f
  OBVIOUS
<1>2. Len(cs) \in Nat /\ DOMAIN cs = 1 .. Len(cs)
  BY LenProperties
<1>3. ds \in Seq(Cmd(A)) /\ Len(ds) = n /\ (\A i \in 1 .. Len(cs) : ds[i] = cs[i])
      /\ ds[n] = d
  BY <1>1, AppendProperties
<1>4. DOMAIN ds = DOMAIN cs \cup {n} /\ n \notin DOMAIN cs
  <2>1. DOMAIN ds = 1 .. n
    BY <1>3, LenProperties
  <2> HIDE DEF n
  <2> QED
    BY <2>1, <1>2 DEF n
<1>5. \A i \in DOMAIN cs : ds[i] = cs[i]
  BY <1>2, <1>3
<1> HIDE DEF n
<1>6. DataAt(ds) = DataAt(cs) \cup {n} /\ DataAt(cs) \subseteq DOMAIN cs
  BY <1>1, <1>3, <1>4, <1>5 DEF DataAt
<1>7. BufAt(ds, n) = <<s, f>> /\ \A i \in DataAt(cs) : BufAt(ds, i) = BufAt(cs, i)
  BY <1>1, <1>3, <1>5, <1>6 DEF BufAt
<1>8. Data(ds) = Data(cs) \cup {<<s, f>>}
  BY <1>6, <1>7 DEF Data
<1>9. Once(ds)
  BY <1>4, <1>6, <1>7 DEF Once, Data
<1>10. OtherAt(ds) = OtherAt(cs)
  BY <1>4, <1>6 DEF OtherAt
<1>11. FlushAt(ds) = FlushAt(cs)
  BY <1>1, <1>3, <1>4, <1>5 DEF FlushAt
<1> QED
  BY <1>3, <1>8, <1>9, <1>10, <1>11 DEF Extended

LEMMA OtherAppended ==
    ASSUME NEW A \in SUBSET Streams, NEW cs \in Seq(Cmd(A)), NEW d \in Cmd(A),
           d.type # "data", Once(cs), NEW ds, ds = Append(cs, d)
    PROVE  /\ ds \in Seq(Cmd(A)) /\ Once(ds) /\ Data(ds) = Data(cs)
           /\ OtherAt(ds) = OtherAt(cs) \cup {Len(cs) + 1}
           /\ FlushAt(ds) = FlushAt(cs) \cup (IF d.type = "flush" THEN {Len(cs) + 1} ELSE {})
<1> DEFINE n == Len(cs) + 1
<1>2. Len(cs) \in Nat /\ DOMAIN cs = 1 .. Len(cs)
  BY LenProperties
<1>3. ds \in Seq(Cmd(A)) /\ Len(ds) = n /\ (\A i \in 1 .. Len(cs) : ds[i] = cs[i])
      /\ ds[n] = d
  BY AppendProperties
<1>4. DOMAIN ds = DOMAIN cs \cup {n} /\ n \notin DOMAIN cs
  <2>1. DOMAIN ds = 1 .. n
    BY <1>3, LenProperties
  <2> HIDE DEF n
  <2> QED
    BY <2>1, <1>2 DEF n
<1>5. \A i \in DOMAIN cs : ds[i] = cs[i]
  BY <1>2, <1>3
<1> HIDE DEF n
<1>6. DataAt(ds) = DataAt(cs) /\ DataAt(cs) \subseteq DOMAIN cs
  BY <1>3, <1>4, <1>5 DEF DataAt
<1>7. \A i \in DataAt(cs) : BufAt(ds, i) = BufAt(cs, i)
  BY <1>5, <1>6 DEF BufAt
<1>8. Data(ds) = Data(cs) /\ Once(ds)
  BY <1>6, <1>7 DEF Data, Once
<1>10. OtherAt(ds) = OtherAt(cs) \cup {n}
  BY <1>4, <1>6 DEF OtherAt
<1>11. FlushAt(ds) = FlushAt(cs) \cup (IF d.type = "flush" THEN {n} ELSE {})
  BY <1>3, <1>4, <1>5 DEF FlushAt
<1> QED
  BY <1>3, <1>8, <1>10, <1>11 DEF n

\* The first command is taken: its buffer, if it has one, goes with it.
LEMMA HeadTaken ==
    ASSUME NEW A \in SUBSET Streams, NEW cs \in Seq(Cmd(A)), cs # <<>>, Once(cs)
    PROVE  /\ Head(cs) \in Cmd(A) /\ Tail(cs) \in Seq(Cmd(A)) /\ Once(Tail(cs))
           /\ Head(cs).type = "data" =>
                 /\ <<Head(cs).s, Head(cs).f>> \in Data(cs)
                 /\ Data(Tail(cs)) = Data(cs) \ {<<Head(cs).s, Head(cs).f>>}
           /\ Head(cs).type # "data" => Data(Tail(cs)) = Data(cs)
           /\ \A i \in OtherAt(Tail(cs)) : i + 1 \in OtherAt(cs) /\ i \in Nat
           /\ \A i \in FlushAt(Tail(cs)) : i + 1 \in FlushAt(cs) /\ i + 1 # 1
           /\ Head(cs).type = "flush" => 1 \in FlushAt(cs)
<1> DEFINE ds == Tail(cs)
<1>1. Len(cs) \in Nat /\ DOMAIN cs = 1 .. Len(cs)
  BY LenProperties
<1>2. Head(cs) \in Cmd(A) /\ ds \in Seq(Cmd(A)) /\ Len(ds) = Len(cs) - 1
      /\ \A i \in 1 .. Len(ds) : ds[i] = cs[i + 1]
  BY HeadTailProperties
<1>3. Head(cs) = cs[1]
  OBVIOUS
<1> HIDE DEF ds
<1>4. DOMAIN ds = 1 .. Len(ds) /\ Len(ds) \in Nat
  BY <1>2, LenProperties
<1>5. 1 \in DOMAIN cs /\ \A i \in DOMAIN ds : i + 1 \in DOMAIN cs /\ i + 1 # 1 /\ i \in Nat
                                              /\ ds[i] = cs[i + 1]
  BY <1>1, <1>2, <1>4
<1>6. \A i \in DOMAIN cs : i = 1 \/ (i - 1 \in DOMAIN ds /\ (i - 1) + 1 = i)
  BY <1>1, <1>2, <1>4
<1>7. \A i \in DOMAIN ds : (i \in DataAt(ds) <=> i + 1 \in DataAt(cs))
                           /\ BufAt(ds, i) = BufAt(cs, i + 1)
  BY <1>5 DEF DataAt, BufAt
<1>8. DataAt(ds) \subseteq DOMAIN ds /\ DataAt(cs) \subseteq DOMAIN cs
  BY DEF DataAt
<1>9. Once(ds)
  <2> SUFFICES ASSUME NEW i \in DataAt(ds), NEW j \in DataAt(ds), i # j
               PROVE  BufAt(ds, i) # BufAt(ds, j)
    BY DEF Once
  <2>1. i + 1 # j + 1
    BY <1>5, <1>8
  <2> QED
    BY <2>1, <1>7, <1>8 DEF Once
<1>10. \A b : b \in Data(cs) <=> b \in Data(ds) \/ (1 \in DataAt(cs) /\ b = BufAt(cs, 1))
  <2>1. ASSUME NEW b \in Data(cs)
        PROVE  b \in Data(ds) \/ (1 \in DataAt(cs) /\ b = BufAt(cs, 1))
    <3>1. PICK i \in DataAt(cs) : b = BufAt(cs, i)
      BY <2>1 DEF Data
    <3>2. CASE i = 1
      BY <3>1, <3>2
    <3>3. CASE i # 1
      <4>1. PICK k : k = i - 1
        OBVIOUS
      <4>2. k \in DOMAIN ds /\ k + 1 = i
        BY <3>3, <4>1, <1>6, <1>8
      <4>3. k \in DataAt(ds) /\ BufAt(ds, k) = b
        BY <3>1, <4>2, <1>7
      <4> QED
        BY <4>3 DEF Data
    <3> QED
      BY <3>2, <3>3
  <2>2. ASSUME NEW b \in Data(ds) PROVE b \in Data(cs)
    <3>1. PICK i \in DataAt(ds) : b = BufAt(ds, i)
      BY <2>2 DEF Data
    <3>2. i + 1 \in DataAt(cs) /\ b = BufAt(cs, i + 1)
      BY <3>1, <1>7, <1>8
    <3> QED
      BY <3>2 DEF Data
  <2>3. 1 \in DataAt(cs) => BufAt(cs, 1) \in Data(cs)
    BY DEF Data
  <2> QED
    BY <2>1, <2>2, <2>3
<1>11. 1 \in DataAt(cs) => BufAt(cs, 1) \notin Data(ds)
  <2> SUFFICES ASSUME 1 \in DataAt(cs), NEW i \in DataAt(ds) PROVE BufAt(cs, 1) # BufAt(ds, i)
    BY DEF Data
  <2>1. i + 1 \in DataAt(cs) /\ i + 1 # 1 /\ BufAt(ds, i) = BufAt(cs, i + 1)
    BY <1>5, <1>7, <1>8
  <2> QED
    BY <2>1 DEF Once
<1>12. Head(cs).type = "data" <=> 1 \in DataAt(cs)
  BY <1>3, <1>5 DEF DataAt
<1>13. BufAt(cs, 1) = <<Head(cs).s, Head(cs).f>>
  BY <1>3 DEF BufAt
<1>14. \A i \in OtherAt(ds) : i + 1 \in OtherAt(cs) /\ i \in Nat
  BY <1>5, <1>7 DEF OtherAt
<1> HIDE DEF BufAt
<1>15. Head(cs).type = "data" => /\ <<Head(cs).s, Head(cs).f>> \in Data(cs)
                                 /\ Data(ds) = Data(cs) \ {<<Head(cs).s, Head(cs).f>>}
  BY <1>10, <1>11, <1>12, <1>13
<1>16. Head(cs).type # "data" => Data(ds) = Data(cs)
  BY <1>10, <1>12
<1>17. \A i \in FlushAt(ds) : i + 1 \in FlushAt(cs) /\ i + 1 # 1
  BY <1>5 DEF FlushAt
<1>18. Head(cs).type = "flush" => 1 \in FlushAt(cs)
  BY <1>3, <1>5 DEF FlushAt
<1> QED
  BY <1>2, <1>9, <1>14, <1>15, <1>16, <1>17, <1>18 DEF ds

-----------------------------------------------------------------------------
(* References.  C are the buffers the channel's side has, P those of the     *)
(* application's; t, k and r are the streams' states and counts.              *)

One(b, B) == IF b \in B THEN 1 ELSE 0
Some(r, s) == {f \in Frames : r[s][f] > 0}
CountsOf(s, C, P, k, r) ==
    /\ \A f \in Frames : r[s][f] = One(<<s, f>>, C) + One(<<s, f>>, P)
    /\ k[s] + Cardinality(Some(r, s)) = NumBufs
Counts(C, P, t, k, r) ==
    /\ k \in [Streams -> Nat] /\ r \in [Streams -> [Frames -> 0 .. 2]]
    /\ \A s \in Streams :
          IF t[s] = "none" THEN k[s] = 0 /\ \A f \in Frames : r[s][f] = 0
          ELSE CountsOf(s, C, P, k, r)

LEMMA FramesFinite == IsFiniteSet(Frames) /\ \A T \in SUBSET Frames :
                         IsFiniteSet(T) /\ Cardinality(T) \in Nat
<1>1. IsFiniteSet(Frames)
  BY Naturals4, FS_Interval DEF Frames
<1>2. ASSUME NEW T \in SUBSET Frames PROVE IsFiniteSet(T) /\ Cardinality(T) \in Nat
  BY <1>1, FS_Subset, FS_CardinalityType
<1> QED
  BY <1>1, <1>2

LEMMA Taking ==
    ASSUME NEW T \in SUBSET Frames, NEW U \in SUBSET T
    PROVE  Cardinality(T \ U) + Cardinality(U) = Cardinality(T)
<1>1. PICK W : W = T \ U
  OBVIOUS
<1>2. W \in SUBSET Frames /\ U \in SUBSET Frames /\ W \cup U = T /\ W \cap U = {}
  BY <1>1
<1>3. IsFiniteSet(W) /\ IsFiniteSet(U) /\ Cardinality(W) \in Nat /\ Cardinality(U) \in Nat
  BY <1>2, FramesFinite
<1>4. Cardinality(W \cup U) = Cardinality(W) + Cardinality(U) - Cardinality(W \cap U)
  BY <1>3, FS_Union
<1>5. Cardinality(W \cap U) = 0
  BY <1>2, FS_EmptySet
<1>6. Cardinality(T) = Cardinality(W) + Cardinality(U) - 0
  BY <1>2, <1>4, <1>5
<1> QED
  BY <1>1, <1>3, <1>6

\* Buffers given up once by one side take a reference each; those without any left
\* are in the kernel again.
LEMMA DoneCounts ==
    ASSUME NEW C, NEW P, Counts(C, P, st, queued, refs), NEW R, BufDone(R),
           NEW D, NEW Q, (R \subseteq C /\ D = C \ R /\ Q = P)
                         \/ (R \subseteq P /\ D = C /\ Q = P \ R)
    PROVE  Counts(D, Q, st, queued', refs')
<1> DEFINE done(s) == {f \in Frames : <<s, f>> \in R /\ Held(s, f)}
           last(s) == {f \in done(s) : refs[s][f] = 1}
<1>1. /\ refs' = [s \in Streams |-> [f \in Frames |->
                       refs[s][f] - IF f \in done(s) THEN 1 ELSE 0]]
      /\ queued' = [s \in Streams |-> queued[s] + Cardinality(last(s))]
  BY DEF BufDone
<1>2. queued \in [Streams -> Nat] /\ refs \in [Streams -> [Frames -> 0 .. 2]]
  BY DEF Counts
<1>3. ASSUME NEW s \in Streams PROVE last(s) \in SUBSET Frames /\ Cardinality(last(s)) \in Nat
  <2>1. last(s) \in SUBSET Frames
    OBVIOUS
  <2> HIDE DEF last
  <2> QED
    BY <2>1, FramesFinite
<1>4. \A s \in Streams : queued'[s] = queued[s] + Cardinality(last(s))
  BY <1>1
<1>5. \A s \in Streams, f \in Frames :
         refs'[s][f] = refs[s][f] - IF f \in done(s) THEN 1 ELSE 0
  BY <1>1
<1>6. \A s \in Streams, f \in Frames :
         f \in done(s) <=> <<s, f>> \in R /\ st[s] # "none" /\ refs[s][f] > 0
  BY DEF Held
<1>7. queued' \in [Streams -> Nat]
  <2>1. \A s \in Streams : queued[s] + Cardinality(last(s)) \in Nat
    BY <1>2, <1>3
  <2> HIDE DEF last
  <2> QED
    BY <1>1, <2>1
<1> HIDE DEF done
<1>8. \A s \in Streams, f \in Frames :
         refs[s][f] - (IF f \in done(s) THEN 1 ELSE 0) \in 0 .. 2
  <2> TAKE s \in Streams, f \in Frames
  <2>1. PICK n : n = refs[s][f]
    OBVIOUS
  <2>2. n \in 0 .. 2 /\ (f \in done(s) => n > 0)
    BY <2>1, <1>2, <1>6
  <2>3. n - (IF f \in done(s) THEN 1 ELSE 0) \in 0 .. 2
    BY <2>2
  <2> QED
    BY <2>1, <2>3
<1>9. refs' \in [Streams -> [Frames -> 0 .. 2]]
  BY <1>1, <1>8
<1>10. ASSUME NEW s \in Streams, st[s] = "none"
       PROVE  queued'[s] = 0 /\ \A f \in Frames : refs'[s][f] = 0
  <2>1. done(s) = {}
    BY <1>10 DEF done, Held
  <2>2. last(s) = {}
    BY <2>1
  <2>3. queued[s] = 0 /\ \A f \in Frames : refs[s][f] = 0
    BY <1>10 DEF Counts
  <2>4. Cardinality({}) = 0
    BY FS_EmptySet
  <2>5. queued'[s] = 0
    BY <1>4, <2>2, <2>3, <2>4
  <2>6. \A f \in Frames : refs'[s][f] = 0
    BY <1>5, <2>1, <2>3
  <2> QED
    BY <2>5, <2>6
<1>11. ASSUME NEW s \in Streams, st[s] # "none" PROVE CountsOf(s, D, Q, queued', refs')
  <2>1. CountsOf(s, C, P, queued, refs)
    BY <1>11 DEF Counts
  <2>2. \A f \in Frames : refs[s][f] = One(<<s, f>>, C) + One(<<s, f>>, P)
    BY <2>1 DEF CountsOf
  <2>3. \A f \in Frames : <<s, f>> \in R => refs[s][f] > 0
    BY <2>2 DEF One
  <2>4. \A f \in Frames : f \in done(s) <=> <<s, f>> \in R
    BY <2>3, <1>6, <1>11
  <2>5. \A f \in Frames : One(<<s, f>>, D) + One(<<s, f>>, Q)
            = (One(<<s, f>>, C) + One(<<s, f>>, P)) - IF <<s, f>> \in R THEN 1 ELSE 0
    BY DEF One
  <2>6. \A f \in Frames : refs'[s][f] = One(<<s, f>>, D) + One(<<s, f>>, Q)
    <3> TAKE f \in Frames
    <3>1. (IF f \in done(s) THEN 1 ELSE 0) = (IF <<s, f>> \in R THEN 1 ELSE 0)
      BY <2>4
    <3>2. refs'[s][f] = refs[s][f] - IF f \in done(s) THEN 1 ELSE 0
      BY <1>5
    <3>3. PICK n : n = refs[s][f]
      OBVIOUS
    <3>4. n = One(<<s, f>>, C) + One(<<s, f>>, P)
      BY <3>3, <2>2
    <3>5. refs'[s][f] = n - IF <<s, f>> \in R THEN 1 ELSE 0
      BY <3>1, <3>2, <3>3
    <3>6. One(<<s, f>>, D) + One(<<s, f>>, Q) = n - IF <<s, f>> \in R THEN 1 ELSE 0
      BY <3>4, <2>5
    <3> QED
      BY <3>5, <3>6
  <2>7. Some(refs', s) = Some(refs, s) \ last(s)
    <3>1. \A f \in Frames : refs'[s][f] > 0 <=> refs[s][f] > 0 /\ f \notin last(s)
      <4> SUFFICES ASSUME NEW f \in Frames
                   PROVE  refs'[s][f] > 0 <=> refs[s][f] > 0 /\ f \notin last(s)
        OBVIOUS
      <4>1. refs[s][f] \in 0 .. 2
        BY <1>2
      <4>2. f \in last(s) <=> f \in done(s) /\ refs[s][f] = 1
        OBVIOUS
      <4>3. refs'[s][f] = refs[s][f] - IF f \in done(s) THEN 1 ELSE 0
        BY <1>5
      <4>4. f \in done(s) => refs[s][f] > 0
        BY <1>6
      <4> HIDE DEF last
      <4> QED
        BY <4>1, <4>2, <4>3, <4>4
    <3> HIDE DEF last
    <3> QED
      BY <3>1 DEF Some
  <2>8. Some(refs, s) \in SUBSET Frames /\ last(s) \in SUBSET Some(refs, s)
    <3>1. \A f \in last(s) : f \in Frames /\ refs[s][f] > 0
      BY <1>6 DEF done
    <3> HIDE DEF last
    <3> QED
      BY <3>1 DEF Some
  <2> HIDE DEF last
  <2>9. Cardinality(Some(refs', s)) + Cardinality(last(s)) = Cardinality(Some(refs, s))
    BY <2>7, <2>8, Taking
  <2>10. Some(refs', s) \in SUBSET Frames
    BY DEF Some
  <2>11. Cardinality(Some(refs', s)) \in Nat /\ Cardinality(last(s)) \in Nat
         /\ queued[s] \in Nat
    BY <2>10, <1>2, <1>3, FramesFinite
  <2>12. queued[s] + Cardinality(Some(refs, s)) = NumBufs
    BY <2>1 DEF CountsOf
  <2>13. queued'[s] + Cardinality(Some(refs', s)) = NumBufs
    BY <2>9, <2>11, <2>12, <1>4
  <2> QED
    BY <2>6, <2>13 DEF CountsOf
<1> QED
  BY <1>7, <1>9, <1>10, <1>11 DEF Counts

\* A frame comes from the kernel: one reference for each side that takes it.
LEMMA ReadCounts ==
    ASSUME NEW C, NEW P, Counts(C, P, st, queued, refs), NEW s \in Streams,
           st[s] = "active", queued[s] > 0, NEW f \in Frames,
           <<s, f>> \notin C, <<s, f>> \notin P, NEW D, NEW Q,
           D = C \cup {<<s, f>>} \/ D = C, Q = P \cup {<<s, f>>} \/ Q = P,
           NEW k, k = [queued EXCEPT ![s] = @ - 1],
           NEW r, r = [refs EXCEPT ![s][f] = One(<<s, f>>, D) + One(<<s, f>>, Q)],
           <<s, f>> \in D \cup Q
    PROVE  Counts(D, Q, st, k, r)
<1> DEFINE n == One(<<s, f>>, D) + One(<<s, f>>, Q)
<1>1. queued \in [Streams -> Nat] /\ refs \in [Streams -> [Frames -> 0 .. 2]]
  BY DEF Counts
<1>2. n \in 0 .. 2 /\ n > 0
  BY DEF One
<1>3. r = [refs EXCEPT ![s][f] = n]
  OBVIOUS
<1> HIDE DEF n
<1>4. k \in [Streams -> Nat] /\ r \in [Streams -> [Frames -> 0 .. 2]]
  <2>1. queued[s] - 1 \in Nat
    BY <1>1
  <2>2. k \in [Streams -> Nat]
    BY <1>1, <2>1
  <2>3. r \in [Streams -> [Frames -> 0 .. 2]]
    BY <1>1, <1>2, <1>3
  <2> QED
    BY <2>2, <2>3
<1>5. \A u \in Streams : u # s => k[u] = queued[u] /\ r[u] = refs[u]
  BY <1>1, <1>3
<1>6. k[s] = queued[s] - 1 /\ \A g \in Frames : r[s][g] = IF g = f THEN n ELSE refs[s][g]
  BY <1>1, <1>3
<1>7. \A u \in Streams, g \in Frames : <<u, g>> # <<s, f>> =>
          One(<<u, g>>, D) = One(<<u, g>>, C) /\ One(<<u, g>>, Q) = One(<<u, g>>, P)
  BY DEF One
<1>8. CountsOf(s, C, P, queued, refs)
  BY DEF Counts
<1>9. refs[s][f] = 0
  BY <1>8 DEF CountsOf, One
<1>10. Some(r, s) = Some(refs, s) \cup {f} /\ f \notin Some(refs, s)
  BY <1>2, <1>6, <1>9 DEF Some
<1>11. Some(refs, s) \in SUBSET Frames
  BY DEF Some
<1>12. Cardinality(Some(r, s)) = Cardinality(Some(refs, s)) + 1
       /\ Cardinality(Some(refs, s)) \in Nat
  BY <1>10, <1>11, FramesFinite, FS_AddElement
<1>13. \A g \in Frames : r[s][g] = One(<<s, g>>, D) + One(<<s, g>>, Q)
  <2> TAKE g \in Frames
  <2>1. CASE g = f
    BY <2>1, <1>6 DEF n
  <2>2. CASE g # f
    BY <2>2, <1>6, <1>7, <1>8 DEF CountsOf
  <2> QED
    BY <2>1, <2>2
<1>14. queued[s] + Cardinality(Some(refs, s)) = NumBufs
  BY <1>8 DEF CountsOf
<1>15. CountsOf(s, D, Q, k, r)
  <2>1. k[s] + Cardinality(Some(r, s)) = NumBufs
    BY <1>1, <1>6, <1>12, <1>14
  <2> QED
    BY <2>1, <1>13 DEF CountsOf
<1>16. ASSUME NEW u \in Streams, u # s, st[u] # "none"
       PROVE  CountsOf(u, D, Q, k, r)
  <2>1. CountsOf(u, C, P, queued, refs)
    BY <1>16 DEF Counts
  <2>2. \A g \in Frames : One(<<u, g>>, D) = One(<<u, g>>, C)
                          /\ One(<<u, g>>, Q) = One(<<u, g>>, P)
    BY <1>16, <1>7
  <2>3. Some(r, u) = Some(refs, u)
    BY <1>5, <1>16 DEF Some
  <2> QED
    BY <2>1, <2>2, <2>3, <1>5, <1>16 DEF CountsOf
<1>17. ASSUME NEW u \in Streams, st[u] = "none"
       PROVE  k[u] = 0 /\ \A g \in Frames : r[u][g] = 0
  BY <1>5, <1>17 DEF Counts
<1> QED
  BY <1>4, <1>15, <1>16, <1>17 DEF Counts

-----------------------------------------------------------------------------
(* The application's side: the poll thread's frame p, the queues fr of the   *)
(* streams' threads, and what their callbacks use.                           *)

AppBufs(p, fr, us) ==
    {b \in Streams \X Frames : p = b \/ b[2] \in ToSet(fr[b[1]]) \/ b[2] \in us[b[1]]}
Distinct(q) == \A i, j \in DOMAIN q : i # j => q[i] # q[j]
SingleOf(s, p, fr, us) ==
    /\ Distinct(fr[s])
    /\ ToSet(fr[s]) \cap us[s] = {}
    /\ \A f \in Frames : p = <<s, f>> => f \notin ToSet(fr[s]) /\ f \notin us[s]
Single(p, fr, us) == \A s \in Streams : SingleOf(s, p, fr, us)

LEMMA InApp ==
    ASSUME NEW p, NEW fr, NEW us, NEW s \in Streams, NEW f \in Frames
    PROVE  <<s, f>> \in AppBufs(p, fr, us) <=>
              p = <<s, f>> \/ f \in ToSet(fr[s]) \/ f \in us[s]
<1>1. PICK b : b = <<s, f>>
  OBVIOUS
<1>2. b \in Streams \X Frames /\ b[1] = s /\ b[2] = f
  BY <1>1
<1>3. b \in AppBufs(p, fr, us) <=> p = b \/ b[2] \in ToSet(fr[b[1]]) \/ b[2] \in us[b[1]]
  BY <1>2 DEF AppBufs
<1> QED
  BY <1>1, <1>2, <1>3

\* Two sides that hold the same frames of every stream.
LEMMA SameApp ==
    ASSUME NEW p, NEW fr, NEW us, NEW p2, NEW fr2, NEW us2,
           \A s \in Streams, f \in Frames :
              <<s, f>> \in AppBufs(p, fr, us) <=> <<s, f>> \in AppBufs(p2, fr2, us2)
    PROVE  AppBufs(p, fr, us) = AppBufs(p2, fr2, us2)
  BY DEF AppBufs

LEMMA FrameAppended ==
    ASSUME NEW q \in Seq(Frames), Distinct(q), NEW f \in Frames, f \notin ToSet(q)
    PROVE  /\ Append(q, f) \in Seq(Frames) /\ Distinct(Append(q, f))
           /\ ToSet(Append(q, f)) = ToSet(q) \cup {f}
<1> DEFINE r == Append(q, f)
           n == Len(q) + 1
<1>1. Len(q) \in Nat /\ DOMAIN q = 1 .. Len(q)
  BY LenProperties
<1>2. r \in Seq(Frames) /\ Len(r) = n /\ (\A i \in 1 .. Len(q) : r[i] = q[i]) /\ r[n] = f
  BY AppendProperties
<1> HIDE DEF r
<1>3. DOMAIN r = DOMAIN q \cup {n} /\ n \notin DOMAIN q
  <2>1. DOMAIN r = 1 .. n
    BY <1>2, LenProperties
  <2> HIDE DEF n
  <2> QED
    BY <2>1, <1>1 DEF n
<1>4. \A i \in DOMAIN q : r[i] = q[i]
  BY <1>1, <1>2
<1> HIDE DEF n
<1>5. ToSet(r) = ToSet(q) \cup {f}
  BY <1>2, <1>3, <1>4 DEF ToSet
<1>6. Distinct(r)
  BY <1>2, <1>3, <1>4 DEF Distinct, ToSet
<1> QED
  BY <1>2, <1>5, <1>6 DEF r

LEMMA FrameTaken ==
    ASSUME NEW q \in Seq(Frames), Distinct(q), q # <<>>
    PROVE  /\ Tail(q) \in Seq(Frames) /\ Distinct(Tail(q))
           /\ Head(q) \in Frames /\ Head(q) \in ToSet(q)
           /\ ToSet(Tail(q)) = ToSet(q) \ {Head(q)}
<1> DEFINE r == Tail(q)
           h == Head(q)
<1>1. Len(q) \in Nat /\ DOMAIN q = 1 .. Len(q)
  BY LenProperties
<1>2. h \in Frames /\ r \in Seq(Frames) /\ Len(r) = Len(q) - 1
      /\ \A i \in 1 .. Len(r) : r[i] = q[i + 1]
  BY HeadTailProperties
<1>3. h = q[1]
  OBVIOUS
<1> HIDE DEF r, h
<1>4. DOMAIN r = 1 .. Len(r) /\ Len(r) \in Nat
  BY <1>2, LenProperties
<1>5. 1 \in DOMAIN q /\ \A i \in DOMAIN r : i + 1 \in DOMAIN q /\ i + 1 # 1 /\ i \in Nat
                                             /\ r[i] = q[i + 1]
  BY <1>1, <1>2, <1>4
<1>6. \A i \in DOMAIN q : i = 1 \/ (i - 1 \in DOMAIN r /\ (i - 1) + 1 = i)
  BY <1>1, <1>2, <1>4
<1>7. Distinct(r)
  <2> SUFFICES ASSUME NEW i \in DOMAIN r, NEW j \in DOMAIN r, i # j PROVE r[i] # r[j]
    BY DEF Distinct
  <2>1. i + 1 # j + 1
    BY <1>5
  <2> QED
    BY <2>1, <1>5 DEF Distinct
<1>8. \A i \in DOMAIN r : r[i] # h
  BY <1>3, <1>5 DEF Distinct
<1>9. \A i \in DOMAIN q : q[i] = h \/ \E k \in DOMAIN r : r[k] = q[i]
  <2> TAKE i \in DOMAIN q
  <2>1. CASE i = 1
    BY <2>1, <1>3
  <2>2. CASE i # 1
    <3>1. PICK k : k = i - 1
      OBVIOUS
    <3>2. k \in DOMAIN r /\ k + 1 = i
      BY <2>2, <3>1, <1>6
    <3> QED
      BY <3>2, <1>5
  <2> QED
    BY <2>1, <2>2
<1>10. h \in ToSet(q)
  BY <1>3, <1>5 DEF ToSet
<1>11. ToSet(r) = ToSet(q) \ {h}
  BY <1>5, <1>8, <1>9 DEF ToSet
<1> QED
  BY <1>2, <1>7, <1>10, <1>11 DEF r, h

-----------------------------------------------------------------------------
(* The inductive invariant. *)

Disjoint(xs) == \A x, y \in xs : x # y => Bufs(x) \cap Bufs(y) = {}
Apart(cs, q, xs) ==
    /\ Once(cs) /\ Clean(q) /\ Disjoint(xs)
    /\ Data(cs) \cap Within(q) = {}
    /\ Data(cs) \cap AllBufs(xs) = {}
    /\ Within(q) \cap AllBufs(xs) = {}
ChainBufs == Data(cmds) \cup Within(ch.q) \cup AllBufs(out)
UserBufs == AppBufs(poll, frames, using)

Away == {"none", "added", "stopped", "failed"}
Ending == {"stopping", "undoing"}
Pcs == Away \cup Ending \cup {"starting", "active", "flushing"}

Shape ==
    /\ attr \in Attrs \cup {NoAttr}
    /\ call \in [pc : Pcs, todo : SUBSET attr.streams]
    /\ st \in [Streams -> {"none", "active", "off"}]
    /\ next \in [Streams -> 1 .. MaxFrame + 1]
    /\ poll \in (Streams \X Frames) \cup {Idle}
    /\ cmds \in Seq(Cmd(attr.streams))
    /\ frames \in [Streams -> Seq(Frames)]
    /\ ch.back = {} /\ Keeps(ch, attr.streams, Within(ch.q))
    /\ using \in [Streams -> SUBSET Frames]
    /\ out \subseteq Super(attr.streams)
    /\ asked \in 0 .. MaxRequests /\ starts \in 0 .. MaxStarts

\* A buffer has one place in each side.
ChainApart == Apart(cmds, ch.q, out)
UserApart == Single(poll, frames, using)

\* The kernel has not numbered a frame as yet that somebody holds.
Old == \A s \in Streams, f \in Frames : <<s, f>> \in ChainBufs \cup UserBufs => f < next[s]

Counted == Counts(ChainBufs, UserBufs, st, queued, refs)

\* What a stream may be doing where the HAL's call is.
PhaseOf(s) ==
    /\ st[s] # "none" => s \in attr.streams
    /\ st[s] = "off" => call.pc \in Ending /\ s \in call.todo
    /\ call.pc = "starting" /\ s \in call.todo =>
          st[s] = "none" /\ \A f \in Frames : <<s, f>> \notin ChainBufs
    /\ st[s] # "active" => \A f \in Frames : poll # <<s, f>>
    /\ st[s] = "none" => frames[s] = <<>> /\ using[s] = {}
    /\ call.pc \in Ending /\ s \notin call.todo => st[s] = "none"
Phase ==
    /\ call.pc \in Away => /\ cmds = <<>> /\ out = {} /\ ch.q = <<>> /\ call.todo = {}
                           /\ \A s \in Streams : st[s] = "none"
    /\ call.pc = "none" => attr = NoAttr
    /\ call.pc \in {"active", "flushing"} => call.todo = {}
    /\ \A s \in Streams : PhaseOf(s)

\* The command queue holds each buffer once and a request for each one asked.
FramesIn(s, B) == {f \in Frames : <<s, f>> \in B}
Bounded ==
    /\ \A s \in Streams : Cardinality(FramesIn(s, Data(cmds))) <= NumBufs
    /\ Cardinality(OtherAt(cmds)) <= asked

\* The caller of a flush waits for it, so that there is one flush at most.
Flushing ==
    /\ FlushAt(cmds) # {} => call.pc = "flushing"
    /\ \A i, j \in FlushAt(cmds) : i = j

IInv == /\ Shape /\ ChainApart /\ UserApart /\ Old /\ Counted /\ Phase /\ Bounded
        /\ Flushing

LEMMA AttrHasShape == ASSUME Shape PROVE attr \in AttrShape /\ attr.streams \in SUBSET Streams
<1>1. CASE attr = NoAttr
  BY <1>1 DEF AttrShape, NoAttr
<1>2. CASE attr \in Attrs
  <2>1. attr \in [streams : (SUBSET Streams) \ {{}}, data_cb : SUBSET Streams,
                  notify_cb : BOOLEAN, notify_mode : {"burst", "continuous"},
                  water_mark : Nat, look_back : Nat, post_frame_skip : Nat,
                  max_unmatched : Nat, low : BOOLEAN]
    BY <1>2, AttrsAssumption
  <2> QED
    BY <2>1 DEF AttrShape
<1> QED
  BY <1>1, <1>2 DEF Shape

LEMMA Empties ==
    /\ \A S : <<>> \in Seq(S)
    /\ Data(<<>>) = {} /\ Once(<<>>) /\ OtherAt(<<>>) = {} /\ Clean(<<>>) /\ Within(<<>>) = {}
    /\ AllBufs({}) = {} /\ Disjoint({}) /\ Distinct(<<>>) /\ ToSet(<<>>) = {}
    /\ FlushAt(<<>>) = {}
  BY DEF Data, FlushAt, Once, OtherAt, DataAt, Clean, Within, AllBufs, Disjoint, Distinct, ToSet

LEMMA NoCommands ==
    /\ \A s \in Streams : Cardinality(FramesIn(s, Data(<<>>))) = 0
    /\ Cardinality(OtherAt(<<>>)) = 0
<1>1. \A s \in Streams : FramesIn(s, Data(<<>>)) = {}
  BY Empties DEF FramesIn
<1>2. Cardinality({}) = 0
  BY FS_EmptySet
<1> QED
  BY <1>1, <1>2, Empties

\* A step that moves no buffer keeps what is said of them.
LEMMA Quiet ==
    ASSUME ChainApart, UserApart, Old, Counted, UNCHANGED streamVars, out' = out,
           ch'.q = ch.q, Data(cmds') = Data(cmds), Once(cmds')
    PROVE  /\ ChainApart' /\ UserApart' /\ Old' /\ Counted'
           /\ ChainBufs' = ChainBufs /\ UserBufs' = UserBufs
<1>1. ChainBufs' = ChainBufs /\ UserBufs' = UserBufs
  BY DEF ChainBufs, UserBufs, streamVars
<1>2. ChainApart'
  BY DEF ChainApart, Apart
<1>3. UserApart' /\ Counted'
  BY <1>1 DEF UserApart, Counted, streamVars
<1>4. Old'
  BY <1>1 DEF Old, streamVars
<1> QED
  BY <1>1, <1>2, <1>3, <1>4

LEMMA QuietBounds ==
    ASSUME Bounded, UNCHANGED <<cmds, asked>>
    PROVE  Bounded'
  BY DEF Bounded

LEMMA QuietFlush ==
    ASSUME Flushing, cmds' = cmds, call' = call \/ call.pc # "flushing"
    PROVE  Flushing'
  BY DEF Flushing

-----------------------------------------------------------------------------
(* The HAL's calls move no buffer, except that they end the streams. *)

LEMMA InitialKeeps == ASSUME Init PROVE IInv
<1>1. Shape
  <2>1. Keeps(Fresh, {}, Within(Fresh.q))
    <3>1. Fresh \in Chan({})
      BY Empties DEF Fresh, Chan
    <3> QED
      BY <3>1, Empties DEF Fresh, Keeps
  <2>2. call \in [pc : Pcs, todo : SUBSET NoAttr.streams]
    BY DEF Init, At, Pcs, Away, NoAttr
  <2> QED
    BY <2>1, <2>2, Naturals4, Empties DEF Init, Shape, NoAttr, Fresh
<1>2. ChainApart /\ ChainBufs = {}
  BY Empties DEF Init, ChainApart, Apart, ChainBufs, Fresh
<1>3. UserApart
  BY Empties DEF Init, UserApart, Single, SingleOf, Idle
<1>4. \A s \in Streams, f \in Frames : <<s, f>> \notin UserBufs
  <2> SUFFICES ASSUME NEW s \in Streams, NEW f \in Frames PROVE <<s, f>> \notin UserBufs
    OBVIOUS
  <2>1. poll # <<s, f>>
    BY FramesAreNatural DEF Init, Idle
  <2>2. f \notin ToSet(frames[s]) /\ f \notin using[s]
    BY Empties DEF Init
  <2> QED
    BY <2>1, <2>2, InApp DEF UserBufs
<1>5. Old
  BY <1>2, <1>4 DEF Old
<1>6. Counted
  BY DEF Init, Counted, Counts
<1>7. Phase
  <2>1. \A s \in Streams : PhaseOf(s)
    BY FramesAreNatural DEF Init, PhaseOf, At, Ending, Idle
  <2> QED
    BY <2>1 DEF Init, Phase, At, Fresh
<1>8. Bounded
  <2>1. cmds = <<>> /\ asked = 0 /\ 0 <= NumBufs
    BY Naturals4 DEF Init
  <2> QED
    BY <2>1, NoCommands DEF Bounded
<1>9. Flushing
  BY Empties DEF Init, Flushing
<1> QED
  BY <1>1, <1>2, <1>3, <1>5, <1>6, <1>7, <1>8, <1>9 DEF IInv

LEMMA AddChannelKeeps == ASSUME IInv, AddChannel PROVE IInv'
<1>1. ChainApart' /\ UserApart' /\ Old' /\ Counted'
  BY Quiet DEF IInv, AddChannel, ChainApart, Apart
<1>2. attr = NoAttr /\ cmds = <<>> /\ out = {} /\ ch.q = <<>>
      /\ \A s \in Streams : st[s] = "none"
  BY DEF IInv, Phase, AddChannel, Away
<1>3. Shape'
  <2>1. call' \in [pc : Pcs, todo : SUBSET attr'.streams]
    BY DEF AddChannel, At, Pcs, Away
  <2>2. ch \in Chan(attr'.streams)
    <3>1. ch \in Chan({}) /\ ch.sent = <<>>
      BY <1>2 DEF IInv, Shape, Keeps, NoAttr
    <3> QED
      BY <3>1, <1>2, Empties DEF Chan
  <2>3. Keeps(ch, attr'.streams, Within(ch.q))
    BY <2>2 DEF IInv, Shape, Keeps
  <2> QED
    BY <2>1, <2>3, <1>2, Naturals4, Empties DEF IInv, Shape, AddChannel, streamVars
<1>4. Phase'
  <2>1. \A s \in Streams : PhaseOf(s)'
    BY <1>2 DEF IInv, Phase, PhaseOf, AddChannel, At, Ending, streamVars
  <2> QED
    BY <2>1, <1>2 DEF Phase, AddChannel, At, streamVars
<1>5. Bounded'
  <2>1. cmds' = <<>> /\ asked' = 0 /\ 0 <= NumBufs
    BY <1>2, Naturals4 DEF AddChannel
  <2> QED
    BY <2>1, NoCommands DEF Bounded
<1>20. Flushing'
  BY QuietFlush DEF IInv, AddChannel
<1> QED
  BY <1>1, <1>3, <1>4, <1>5, <1>20 DEF IInv

\* The channel with its counts reset.
LEMMA ChannelReset ==
    ASSUME NEW A, NEW B, NEW C, Keeps(C, A, B), NEW D,
           D = [C EXCEPT !.expected_id = 0] \/ D = [C EXCEPT !.wait = FALSE]
    PROVE  Keeps(D, A, B) /\ D.q = C.q /\ D.back = C.back
<1>1. C \in Chan(A) /\ 0 \in Int /\ FALSE \in BOOLEAN
  BY DEF Keeps
<1>2. D \in Chan(A)
  BY <1>1 DEF Chan
<1>3. D.q = C.q /\ D.back = C.back /\ D.pending = C.pending /\ D.retro = C.retro
      /\ D.sent = C.sent
  BY <1>1 DEF Chan
<1> QED
  BY <1>2, <1>3 DEF Keeps

LEMMA StartChannelKeeps == ASSUME IInv, StartChannel PROVE IInv'
<1>1. cmds = <<>> /\ out = {} /\ ch.q = <<>> /\ \A s \in Streams : st[s] = "none"
  BY DEF IInv, Phase, StartChannel, Away
<1>2. ch' = [ch EXCEPT !.expected_id = 0]
  BY <1>1 DEF IInv, Shape, Keeps, Chan, StartChannel
<1>3. Keeps(ch', attr.streams, Within(ch.q)) /\ ch'.q = ch.q /\ ch'.back = ch.back
  <2>1. PICK a, b : a = attr.streams /\ b = Within(ch.q)
    OBVIOUS
  <2>2. Keeps(ch, a, b)
    BY <2>1 DEF IInv, Shape
  <2>3. Keeps(ch', a, b) /\ ch'.q = ch.q /\ ch'.back = ch.back
    BY <2>2, <1>2, ChannelReset
  <2> QED
    BY <2>1, <2>3
<1>4. ChainApart' /\ UserApart' /\ Old' /\ Counted' /\ ChainBufs' = ChainBufs
  BY <1>3, Quiet DEF IInv, StartChannel, ChainApart, Apart
<1>5. Shape'
  <2>1. call' \in [pc : Pcs, todo : SUBSET attr.streams]
    BY DEF StartChannel, At, Pcs
  <2> QED
    BY <2>1, <1>3, Naturals4 DEF IInv, Shape, StartChannel, streamVars
<1>6. Phase'
  <2>1. ChainBufs = {}
    BY <1>1, Empties DEF ChainBufs
  <2>2. \A s \in Streams : PhaseOf(s)'
    BY <2>1, <1>1, <1>4 DEF IInv, Phase, PhaseOf, StartChannel, At, Ending, streamVars
  <2> QED
    BY <2>2 DEF Phase, StartChannel, At, Away
<1>7. Bounded'
  BY QuietBounds DEF IInv, StartChannel
<1>20. Flushing'
  BY QuietFlush DEF IInv, StartChannel
<1> QED
  BY <1>4, <1>5, <1>6, <1>7, <1>20 DEF IInv

LEMMA StartFailsKeeps == ASSUME IInv, StartFails PROVE IInv'
<1>1. ChainApart' /\ UserApart' /\ Old' /\ Counted' /\ ChainBufs' = ChainBufs
  BY Quiet DEF IInv, StartFails, ChainApart, Apart
<1>2. Shape'
  <2>1. call' \in [pc : Pcs, todo : SUBSET attr.streams]
    BY DEF StartFails, At, Pcs, Ending
  <2> QED
    BY <2>1 DEF IInv, Shape, StartFails, streamVars
<1>3. Phase'
  <2>1. \A s \in Streams : PhaseOf(s)'
    <3> TAKE s \in Streams
    <3>1. PhaseOf(s) /\ call.pc = "starting" /\ attr' = attr /\ st' = st /\ poll' = poll
          /\ frames' = frames /\ using' = using
      BY DEF IInv, Phase, StartFails, streamVars
    <3>2. call'.pc = "undoing" /\ call'.todo = attr.streams \ call.todo
      BY DEF StartFails, At
    <3> QED
      BY <3>1, <3>2 DEF PhaseOf, Ending
  <2> QED
    BY <2>1 DEF Phase, StartFails, At, Away
<1>4. Bounded'
  BY QuietBounds DEF IInv, StartFails
<1>20. Flushing'
  BY QuietFlush DEF IInv, StartFails
<1> QED
  BY <1>1, <1>2, <1>3, <1>4, <1>20 DEF IInv

LEMMA StartDoneKeeps == ASSUME IInv, StartDone PROVE IInv'
<1>1. Keeps(ch', attr.streams, Within(ch.q)) /\ ch'.q = ch.q /\ ch'.back = ch.back
  <2>1. PICK a, b : a = attr.streams /\ b = Within(ch.q)
    OBVIOUS
  <2>2. Keeps(ch, a, b) /\ ch' = [ch EXCEPT !.wait = FALSE]
    BY <2>1 DEF IInv, Shape, StartDone
  <2>3. Keeps(ch', a, b) /\ ch'.q = ch.q /\ ch'.back = ch.back
    BY <2>2, ChannelReset
  <2> QED
    BY <2>1, <2>3
<1>2. ChainApart' /\ UserApart' /\ Old' /\ Counted' /\ ChainBufs' = ChainBufs
  BY <1>1, Quiet DEF IInv, StartDone, ChainApart, Apart
<1>3. Shape'
  <2>1. call' \in [pc : Pcs, todo : SUBSET attr.streams]
    BY DEF StartDone, At, Pcs
  <2> QED
    BY <2>1, <1>1 DEF IInv, Shape, StartDone, streamVars
<1>4. Phase'
  <2>1. \A s \in Streams : PhaseOf(s)'
    BY <1>2 DEF IInv, Phase, PhaseOf, StartDone, At, Ending, streamVars
  <2> QED
    BY <2>1 DEF Phase, StartDone, At, Away
<1>5. Bounded'
  BY QuietBounds DEF IInv, StartDone
<1>20. Flushing'
  BY QuietFlush DEF IInv, StartDone
<1> QED
  BY <1>2, <1>3, <1>4, <1>5, <1>20 DEF IInv

LEMMA StopChannelKeeps == ASSUME IInv, StopChannel PROVE IInv'
<1>1. ChainApart' /\ UserApart' /\ Old' /\ Counted' /\ ChainBufs' = ChainBufs
  BY Quiet DEF IInv, StopChannel, ChainApart, Apart
<1>2. Shape'
  <2>1. call' \in [pc : Pcs, todo : SUBSET attr.streams]
    BY DEF StopChannel, At, Pcs, Ending
  <2> QED
    BY <2>1 DEF IInv, Shape, StopChannel, streamVars
<1>3. Phase'
  <2>1. \A s \in Streams : PhaseOf(s)'
    BY DEF IInv, Phase, PhaseOf, StopChannel, At, Ending, streamVars
  <2> QED
    BY <2>1 DEF Phase, StopChannel, At, Away
<1>4. Bounded'
  BY QuietBounds DEF IInv, StopChannel
<1>20. Flushing'
  BY QuietFlush DEF IInv, StopChannel
<1> QED
  BY <1>1, <1>2, <1>3, <1>4, <1>20 DEF IInv

LEMMA DeleteChannelKeeps == ASSUME IInv, DeleteChannel PROVE IInv'
<1>1. cmds = <<>> /\ out = {} /\ ch.q = <<>> /\ \A s \in Streams : st[s] = "none"
  BY DEF IInv, Phase, DeleteChannel, Away
<1>2. ch'.q = ch.q
  BY <1>1 DEF DeleteChannel, Fresh
<1>3. ChainApart' /\ UserApart' /\ Old' /\ Counted' /\ ChainBufs' = ChainBufs
  BY <1>2, Quiet DEF IInv, DeleteChannel, ChainApart, Apart
<1>4. Shape'
  <2>1. Fresh \in Chan({}) /\ Keeps(Fresh, {}, Within(Fresh.q)) /\ Fresh.back = {}
    <3>1. Fresh \in Chan({})
      BY Empties DEF Fresh, Chan
    <3> QED
      BY <3>1, Empties DEF Fresh, Keeps
  <2>2. call' \in [pc : Pcs, todo : SUBSET attr'.streams]
    BY DEF DeleteChannel, At, Pcs, Away
  <2>3. attr' = NoAttr /\ attr'.streams = {} /\ ch' = Fresh
    BY DEF DeleteChannel, NoAttr
  <2> QED
    BY <2>1, <2>2, <2>3, <1>1, Empties DEF IInv, Shape, DeleteChannel, streamVars
<1>5. Phase'
  <2>1. \A s \in Streams : PhaseOf(s)'
    BY <1>1 DEF IInv, Phase, PhaseOf, DeleteChannel, At, Ending, streamVars
  <2> QED
    BY <2>1, <1>1, <1>2 DEF Phase, DeleteChannel, At, streamVars
<1>6. Bounded'
  BY QuietBounds DEF IInv, DeleteChannel
<1>20. Flushing'
  BY QuietFlush DEF IInv, DeleteChannel
<1> QED
  BY <1>3, <1>4, <1>5, <1>6, <1>20 DEF IInv

LEMMA OtherFinite ==
    ASSUME NEW A \in SUBSET Streams, NEW cs \in Seq(Cmd(A))
    PROVE  IsFiniteSet(OtherAt(cs)) /\ Cardinality(OtherAt(cs)) \in Nat
<1>1. Len(cs) \in Nat /\ DOMAIN cs = 1 .. Len(cs)
  BY LenProperties
<1>2. IsFiniteSet(DOMAIN cs)
  BY <1>1, FS_Interval
<1>3. OtherAt(cs) \in SUBSET (DOMAIN cs)
  BY DEF OtherAt
<1> QED
  BY <1>2, <1>3, FS_Subset, FS_CardinalityType

\* A request joins the command queue.
LEMMA CommandAsked ==
    ASSUME IInv, NEW d \in Cmd(attr.streams), d.type # "data", cmds' = Append(cmds, d),
           asked' = asked + 1, asked < MaxRequests
    PROVE  /\ cmds' \in Seq(Cmd(attr.streams)) /\ Once(cmds') /\ Data(cmds') = Data(cmds)
           /\ Bounded' /\ asked' \in 0 .. MaxRequests
           /\ FlushAt(cmds') = FlushAt(cmds)
                               \cup (IF d.type = "flush" THEN {Len(cmds) + 1} ELSE {})
<1>1. cmds \in Seq(Cmd(attr.streams)) /\ attr.streams \in SUBSET Streams /\ Once(cmds)
      /\ asked \in 0 .. MaxRequests
  BY AttrHasShape DEF IInv, Shape, ChainApart, Apart
<1>2. PICK A, cs, ds : A = attr.streams /\ cs = cmds /\ ds = cmds'
  OBVIOUS
<1>3. A \in SUBSET Streams /\ cs \in Seq(Cmd(A)) /\ d \in Cmd(A) /\ Once(cs)
      /\ ds = Append(cs, d)
  BY <1>1, <1>2
<1>4. ds \in Seq(Cmd(A)) /\ Once(ds) /\ Data(ds) = Data(cs)
      /\ OtherAt(ds) = OtherAt(cs) \cup {Len(cs) + 1}
      /\ FlushAt(ds) = FlushAt(cs) \cup (IF d.type = "flush" THEN {Len(cs) + 1} ELSE {})
  BY ZenonT(60), <1>3, OtherAppended
<1>5. IsFiniteSet(OtherAt(cs)) /\ Cardinality(OtherAt(cs)) \in Nat
  BY <1>3, OtherFinite
<1>6. Cardinality(OtherAt(ds)) <= Cardinality(OtherAt(cs)) + 1
  <2>1. PICK T : T = OtherAt(cs)
    OBVIOUS
  <2>2. PICK n : n = Len(cs) + 1
    OBVIOUS
  <2>3. Cardinality(T \cup {n}) = IF n \in T THEN Cardinality(T) ELSE Cardinality(T) + 1
    BY <2>1, <1>5, FS_AddElement
  <2>4. Cardinality(T) \in Nat
    BY <2>1, <1>5
  <2>5. Cardinality(T \cup {n}) <= Cardinality(T) + 1
    BY <2>3, <2>4
  <2> QED
    BY <2>1, <2>2, <2>5, <1>4
<1>7. Cardinality(OtherAt(cs)) <= asked
  BY <1>2 DEF IInv, Bounded
<1>8. asked + 1 \in 0 .. MaxRequests
  BY <1>1, Naturals4
<1>9. Cardinality(OtherAt(ds)) \in Nat
  BY <1>3, <1>4, OtherFinite
<1>10. Cardinality(OtherAt(ds)) <= asked + 1
  BY <1>1, <1>5, <1>6, <1>7, <1>9
<1>11. \A s \in Streams : Cardinality(FramesIn(s, Data(ds))) <= NumBufs
  BY <1>2, <1>4 DEF IInv, Bounded
<1>12. Bounded'
  BY <1>2, <1>10, <1>11 DEF Bounded
<1> QED
  BY <1>2, <1>4, <1>8, <1>12

LEMMA RequestKeeps == ASSUME IInv, RequestSuperBuf PROVE IInv'
<1>1. PICK d \in Cmd(attr.streams) : d.type = "req" /\ cmds' = Append(cmds, d)
  <2>1. PICK r \in Requests :
           cmds' = Append(cmds, [type |-> "req", n |-> r[1], retro |-> r[2]])
    BY DEF RequestSuperBuf
  <2>2. r[1] \in Nat /\ r[2] \in Nat
    BY RequestsAssumption
  <2>3. [type |-> "req", n |-> r[1], retro |-> r[2]] \in Cmd(attr.streams)
    BY <2>2 DEF Cmd
  <2> QED
    BY <2>1, <2>3
<1>2. asked' = asked + 1 /\ asked < MaxRequests
  BY DEF RequestSuperBuf
<1>3. cmds' \in Seq(Cmd(attr.streams)) /\ Once(cmds') /\ Data(cmds') = Data(cmds)
      /\ Bounded' /\ asked' \in 0 .. MaxRequests
      /\ FlushAt(cmds') = FlushAt(cmds)
                          \cup (IF d.type = "flush" THEN {Len(cmds) + 1} ELSE {})
  BY <1>1, <1>2, CommandAsked
<1>4. ChainApart' /\ UserApart' /\ Old' /\ Counted' /\ ChainBufs' = ChainBufs
  BY <1>3, Quiet DEF IInv, RequestSuperBuf
<1>5. Shape'
  BY <1>3 DEF IInv, Shape, RequestSuperBuf, streamVars
<1>6. Phase'
  <2>1. \A s \in Streams : PhaseOf(s)'
    BY <1>4 DEF IInv, Phase, PhaseOf, RequestSuperBuf, streamVars
  <2> QED
    BY <2>1 DEF IInv, Phase, RequestSuperBuf, Away
<1>20. Flushing'
  BY <1>1, <1>3 DEF IInv, Flushing, RequestSuperBuf
<1> QED
  BY <1>3, <1>4, <1>5, <1>6, <1>20 DEF IInv

LEMMA FlushQueueKeeps == ASSUME IInv, FlushQueue PROVE IInv'
<1>1. PICK d \in Cmd(attr.streams) : d.type = "flush" /\ cmds' = Append(cmds, d)
  <2>1. [type |-> "flush", f |-> 0] \in Cmd(attr.streams)
    BY DEF Cmd
  <2> QED
    BY <2>1 DEF FlushQueue
<1>2. asked' = asked + 1 /\ asked < MaxRequests
  BY DEF FlushQueue
<1>3. cmds' \in Seq(Cmd(attr.streams)) /\ Once(cmds') /\ Data(cmds') = Data(cmds)
      /\ Bounded' /\ asked' \in 0 .. MaxRequests
      /\ FlushAt(cmds') = FlushAt(cmds)
                          \cup (IF d.type = "flush" THEN {Len(cmds) + 1} ELSE {})
  BY <1>1, <1>2, CommandAsked
<1>4. ChainApart' /\ UserApart' /\ Old' /\ Counted' /\ ChainBufs' = ChainBufs
  BY <1>3, Quiet DEF IInv, FlushQueue
<1>5. Shape'
  <2>1. call' \in [pc : Pcs, todo : SUBSET attr.streams]
    BY DEF FlushQueue, At, Pcs
  <2> QED
    BY <2>1, <1>3 DEF IInv, Shape, FlushQueue, streamVars
<1>6. Phase'
  <2>1. \A s \in Streams : PhaseOf(s)'
    BY <1>4 DEF IInv, Phase, PhaseOf, FlushQueue, At, Ending, streamVars
  <2> QED
    BY <2>1 DEF Phase, FlushQueue, At, Away
<1>20. Flushing'
  BY <1>1, <1>3 DEF IInv, Flushing, FlushQueue, At
<1> QED
  BY <1>3, <1>4, <1>5, <1>6, <1>20 DEF IInv

-----------------------------------------------------------------------------
(* A stream starts and stops. *)

\* One stream's counts change.
LEMMA CountsMoved ==
    ASSUME NEW C, NEW P, NEW t, NEW k, NEW r, Counts(C, P, t, k, r), NEW s \in Streams,
           NEW D, NEW Q, NEW t2, NEW k2, NEW r2,
           k2 \in [Streams -> Nat], r2 \in [Streams -> [Frames -> 0 .. 2]],
           \A u \in Streams : u # s => t2[u] = t[u] /\ k2[u] = k[u] /\ r2[u] = r[u],
           \A u \in Streams, f \in Frames : u # s =>
                (<<u, f>> \in D <=> <<u, f>> \in C) /\ (<<u, f>> \in Q <=> <<u, f>> \in P),
           IF t2[s] = "none" THEN k2[s] = 0 /\ \A f \in Frames : r2[s][f] = 0
           ELSE CountsOf(s, D, Q, k2, r2)
    PROVE  Counts(D, Q, t2, k2, r2)
<1>1. ASSUME NEW u \in Streams, u # s, t[u] # "none" PROVE CountsOf(u, D, Q, k2, r2)
  <2>1. CountsOf(u, C, P, k, r)
    BY <1>1 DEF Counts
  <2>2. \A f \in Frames : One(<<u, f>>, D) = One(<<u, f>>, C)
                          /\ One(<<u, f>>, Q) = One(<<u, f>>, P)
    BY <1>1 DEF One
  <2>3. Some(r2, u) = Some(r, u)
    BY <1>1 DEF Some
  <2> QED
    BY <2>1, <2>2, <2>3, <1>1 DEF CountsOf
<1>2. ASSUME NEW u \in Streams, u # s, t[u] = "none"
      PROVE  k2[u] = 0 /\ \A f \in Frames : r2[u][f] = 0
  BY <1>2 DEF Counts
<1>3. ASSUME NEW u \in Streams
      PROVE  IF t2[u] = "none" THEN k2[u] = 0 /\ \A f \in Frames : r2[u][f] = 0
             ELSE CountsOf(u, D, Q, k2, r2)
  <2>1. CASE u = s
    BY <2>1
  <2>2. CASE u # s
    BY <2>2, <1>1, <1>2
  <2> QED
    BY <2>1, <2>2
<1> QED
  BY <1>3 DEF Counts

\* Nobody of the application has a frame of a stream that is not running.
LEMMA NoneHeld ==
    ASSUME IInv, NEW s \in Streams, st[s] = "none", NEW f \in Frames
    PROVE  <<s, f>> \notin UserBufs
<1>1. frames[s] = <<>> /\ using[s] = {} /\ poll # <<s, f>>
  BY DEF IInv, Phase, PhaseOf
<1>2. f \notin ToSet(frames[s])
  BY <1>1, Empties
<1> QED
  BY <1>1, <1>2, InApp DEF UserBufs

LEMMA StartStreamKeeps == ASSUME IInv, NEW s \in Streams, StartStream(s) PROVE IInv'
<1>1. call.pc = "starting" /\ s \in call.todo /\ st[s] = "none"
      /\ \A f \in Frames : <<s, f>> \notin ChainBufs
  BY DEF IInv, Phase, PhaseOf, StartStream, Starts
<1>2. \A f \in Frames : <<s, f>> \notin UserBufs
  BY <1>1, NoneHeld
<1>3. ChainBufs' = ChainBufs /\ UserBufs' = UserBufs /\ ChainApart' /\ UserApart'
  BY DEF StartStream, ChainBufs, UserBufs, ChainApart, UserApart, IInv
<1>4. st \in [Streams -> {"none", "active", "off"}] /\ next \in [Streams -> 1 .. MaxFrame + 1]
      /\ queued \in [Streams -> Nat] /\ refs \in [Streams -> [Frames -> 0 .. 2]]
  BY DEF IInv, Shape, Counted, Counts
<1>5. /\ st' \in [Streams -> {"none", "active", "off"}]
      /\ next' \in [Streams -> 1 .. MaxFrame + 1]
      /\ queued' \in [Streams -> Nat] /\ refs' \in [Streams -> [Frames -> 0 .. 2]]
  BY <1>4, Naturals4 DEF StartStream
<1>6. /\ st'[s] = "active" /\ queued'[s] = NumBufs /\ next'[s] = 1
      /\ \A f \in Frames : refs'[s][f] = 0
      /\ \A u \in Streams : u # s => /\ st'[u] = st[u] /\ queued'[u] = queued[u]
                                    /\ refs'[u] = refs[u] /\ next'[u] = next[u]
  BY <1>4 DEF StartStream
<1>7. Old'
  <2>1. \A u \in Streams, f \in Frames : <<u, f>> \in ChainBufs \cup UserBufs =>
           u # s /\ f < next[u]
    BY <1>1, <1>2 DEF IInv, Old
  <2> QED
    BY <2>1, <1>3, <1>6 DEF Old
<1>8. Counted'
  <2>1. CountsOf(s, ChainBufs, UserBufs, queued', refs')
    <3>1. Some(refs', s) = {}
      BY <1>6 DEF Some
    <3>2. \A f \in Frames : One(<<s, f>>, ChainBufs) = 0 /\ One(<<s, f>>, UserBufs) = 0
      BY <1>1, <1>2 DEF One
    <3>3. queued'[s] + Cardinality(Some(refs', s)) = NumBufs
      BY <3>1, <1>6, Naturals4, FS_EmptySet
    <3>4. \A f \in Frames :
             refs'[s][f] = One(<<s, f>>, ChainBufs) + One(<<s, f>>, UserBufs)
      BY <3>2, <1>6
    <3> QED
      BY <3>3, <3>4 DEF CountsOf
  <2>2. PICK C, P : C = ChainBufs /\ P = UserBufs
    OBVIOUS
  <2>3. PICK t2, k2, r2 : t2 = st' /\ k2 = queued' /\ r2 = refs'
    OBVIOUS
  <2>4. Counts(C, P, st, queued, refs) /\ CountsOf(s, C, P, k2, r2)
    BY <2>1, <2>2, <2>3 DEF IInv, Counted
  <2>5. Counts(C, P, t2, k2, r2)
    BY <2>3, <2>4, <1>5, <1>6, CountsMoved
  <2> QED
    BY <2>2, <2>3, <2>5, <1>3 DEF Counted
<1>9. call' \in [pc : Pcs, todo : SUBSET attr.streams]
      /\ call'.pc = "starting" /\ call'.todo = call.todo \ {s}
  BY DEF IInv, Shape, StartStream, At, Pcs
<1>10. Shape'
  BY <1>5, <1>9 DEF IInv, Shape, StartStream
<1>11. Phase'
  <2>1. ASSUME NEW u \in Streams PROVE PhaseOf(u)'
    <3>1. PhaseOf(u) /\ attr' = attr /\ poll' = poll /\ frames' = frames /\ using' = using
      BY DEF IInv, Phase, StartStream
    <3>2. call.todo \subseteq attr.streams
      BY DEF IInv, Shape
    <3>3. CASE u = s
      BY <3>1, <3>2, <3>3, <1>1, <1>6, <1>9 DEF PhaseOf, Ending
    <3>4. CASE u # s
      BY <3>1, <3>4, <1>1, <1>3, <1>6, <1>9 DEF PhaseOf, Ending
    <3> QED
      BY <3>3, <3>4
  <2> QED
    BY <2>1, <1>9 DEF Phase, Away
<1>12. Bounded'
  BY QuietBounds DEF IInv, StartStream
<1>20. Flushing'
  BY QuietFlush DEF IInv, StartStream, Stops
<1> QED
  BY <1>3, <1>7, <1>8, <1>10, <1>11, <1>12, <1>20 DEF IInv

LEMMA StreamOffKeeps == ASSUME IInv, NEW s \in Streams, StreamOff(s) PROVE IInv'
<1>1. call.pc \in Ending /\ s \in call.todo /\ st[s] = "active" /\ poll = Idle
  BY DEF StreamOff, Stops, Ending
<1>2. ChainBufs' = ChainBufs /\ UserBufs' = UserBufs /\ ChainApart' /\ UserApart' /\ Old'
  BY DEF StreamOff, ChainBufs, UserBufs, ChainApart, UserApart, Old, IInv
<1>3. st \in [Streams -> {"none", "active", "off"}]
  BY DEF IInv, Shape
<1>4. st' \in [Streams -> {"none", "active", "off"}] /\ st'[s] = "off"
      /\ \A u \in Streams : u # s => st'[u] = st[u]
  BY <1>3 DEF StreamOff
<1>5. Counted'
  <2>1. \A u \in Streams : st'[u] = "none" <=> st[u] = "none"
    BY <1>1, <1>4
  <2> QED
    BY <2>1, <1>2 DEF IInv, Counted, Counts, StreamOff
<1>6. Shape'
  BY <1>4 DEF IInv, Shape, StreamOff
<1>7. Phase'
  <2>1. ASSUME NEW u \in Streams PROVE PhaseOf(u)'
    <3>1. PhaseOf(u) /\ attr' = attr /\ poll' = poll /\ frames' = frames /\ using' = using
          /\ call' = call
      BY DEF IInv, Phase, StreamOff
    <3>2. \A f \in Frames : poll # <<u, f>>
      BY <1>1, FramesAreNatural DEF Idle
    <3>3. CASE u = s
      BY <3>1, <3>2, <3>3, <1>1, <1>4 DEF PhaseOf, Ending
    <3>4. CASE u # s
      BY <3>1, <3>4, <1>2, <1>4 DEF PhaseOf
    <3> QED
      BY <3>3, <3>4
  <2> QED
    BY <2>1, <1>1 DEF IInv, Phase, StreamOff, Away, Ending
<1>8. Bounded'
  BY QuietBounds DEF IInv, StreamOff
<1>20. Flushing'
  BY QuietFlush DEF IInv, StreamOff, Stops
<1> QED
  BY <1>2, <1>5, <1>6, <1>7, <1>8, <1>20 DEF IInv

LEMMA StreamJoinKeeps == ASSUME IInv, NEW s \in Streams, StreamJoin(s) PROVE IInv'
<1>1. call.pc \in Ending /\ s \in call.todo /\ st[s] = "off" /\ frames[s] = <<>>
  BY DEF StreamJoin, Stops, Ending
<1>2. \A f \in Frames : poll # <<s, f>>
  BY <1>1 DEF IInv, Phase, PhaseOf
<1>3. st \in [Streams -> {"none", "active", "off"}] /\ using \in [Streams -> SUBSET Frames]
      /\ queued \in [Streams -> Nat] /\ refs \in [Streams -> [Frames -> 0 .. 2]]
  BY DEF IInv, Shape, Counted, Counts
<1>4. /\ st' \in [Streams -> {"none", "active", "off"}]
      /\ using' \in [Streams -> SUBSET Frames]
      /\ queued' \in [Streams -> Nat] /\ refs' \in [Streams -> [Frames -> 0 .. 2]]
  BY <1>3, Naturals4 DEF StreamJoin
<1>5. /\ st'[s] = "none" /\ queued'[s] = 0 /\ using'[s] = {}
      /\ \A f \in Frames : refs'[s][f] = 0
      /\ \A u \in Streams : u # s => /\ st'[u] = st[u] /\ queued'[u] = queued[u]
                                    /\ refs'[u] = refs[u] /\ using'[u] = using[u]
      /\ poll' = poll /\ frames' = frames
  BY <1>3 DEF StreamJoin
<1>6. ChainBufs' = ChainBufs /\ ChainApart'
  BY DEF StreamJoin, ChainBufs, ChainApart, IInv
<1>7. \A f \in Frames : <<s, f>> \notin UserBufs'
  <2> TAKE f \in Frames
  <2>1. f \notin ToSet(frames'[s])
    BY <1>1, <1>5, Empties
  <2>2. poll' # <<s, f>> /\ f \notin using'[s]
    BY <1>2, <1>5
  <2> QED
    BY <2>1, <2>2, InApp DEF UserBufs
<1>8. \A u \in Streams, f \in Frames : u # s => (<<u, f>> \in UserBufs' <=> <<u, f>> \in UserBufs)
  BY <1>5, InApp DEF UserBufs
<1>9. UserApart'
  <2>1. ASSUME NEW u \in Streams PROVE SingleOf(u, poll', frames', using')
    <3>1. SingleOf(u, poll, frames, using)
      BY DEF IInv, UserApart, Single
    <3>2. CASE u = s
      BY <3>1, <3>2, <1>2, <1>5 DEF SingleOf
    <3>3. CASE u # s
      BY <3>1, <3>3, <1>5 DEF SingleOf
    <3> QED
      BY <3>2, <3>3
  <2> QED
    BY <2>1 DEF UserApart, Single
<1>10. Old'
  <2>1. \A u \in Streams, f \in Frames :
           <<u, f>> \in ChainBufs' \cup UserBufs' => <<u, f>> \in ChainBufs \cup UserBufs
    BY <1>6, <1>7, <1>8
  <2>2. next' = next
    BY DEF StreamJoin
  <2> QED
    BY <2>1, <2>2 DEF IInv, Old
<1>11. Counted'
  <2>1. PICK C, P, Q : C = ChainBufs /\ P = UserBufs /\ Q = UserBufs'
    OBVIOUS
  <2>2. PICK t2, k2, r2 : t2 = st' /\ k2 = queued' /\ r2 = refs'
    OBVIOUS
  <2>3. Counts(C, P, st, queued, refs)
    BY <2>1 DEF IInv, Counted
  <2>4. \A u \in Streams, f \in Frames : u # s =>
           (<<u, f>> \in C <=> <<u, f>> \in C) /\ (<<u, f>> \in Q <=> <<u, f>> \in P)
    BY <2>1, <1>8
  <2>5. Counts(C, Q, t2, k2, r2)
    BY <2>2, <2>3, <2>4, <1>4, <1>5, CountsMoved
  <2> QED
    BY <2>1, <2>2, <2>5, <1>6 DEF Counted
<1>12. call' \in [pc : Pcs, todo : SUBSET attr.streams]
       /\ call'.pc = call.pc /\ call'.todo = call.todo \ {s}
  BY DEF IInv, Shape, StreamJoin, At
<1>13. Shape'
  BY <1>4, <1>12 DEF IInv, Shape, StreamJoin
<1>14. Phase'
  <2>1. ASSUME NEW u \in Streams PROVE PhaseOf(u)'
    <3>1. PhaseOf(u) /\ attr' = attr
      BY DEF IInv, Phase, StreamJoin
    <3>2. CASE u = s
      BY <3>1, <3>2, <1>1, <1>2, <1>5, <1>12 DEF PhaseOf, Ending
    <3>3. CASE u # s
      BY <3>1, <3>3, <1>5, <1>6, <1>12 DEF PhaseOf
    <3> QED
      BY <3>2, <3>3
  <2> QED
    BY <2>1, <1>1, <1>12 DEF Phase, Away, Ending
<1>15. Bounded'
  BY QuietBounds DEF IInv, StreamJoin
<1>20. Flushing'
  BY QuietFlush DEF IInv, StreamJoin, Stops
<1> QED
  BY <1>6, <1>9, <1>10, <1>11, <1>13, <1>14, <1>15, <1>20 DEF IInv

LEMMA ThreadsJoinKeeps == ASSUME IInv, ThreadsJoin PROVE IInv'
<1>1. call.pc \in Ending /\ call.todo = {} /\ cmds = <<>> /\ cmds' = <<>>
  BY DEF ThreadsJoin, Ending
<1>2. \A s \in Streams : st[s] = "none"
  BY <1>1 DEF IInv, Phase, PhaseOf
<1>3. ch' = [ch EXCEPT !.q = <<>>] /\ out' = {}
  BY DEF ThreadsJoin
<1>4. Keeps(ch', attr.streams, Within(ch'.q)) /\ ch'.q = <<>> /\ ch'.back = {}
  <2>1. ch \in Chan(attr.streams) /\ ch.back = {} /\ ch.retro <= ch.pending /\ ch.sent = <<>>
    BY DEF IInv, Shape, Keeps
  <2>2. ch' \in Chan(attr.streams)
    BY <2>1, <1>3, Empties DEF Chan
  <2>3. ch'.q = <<>> /\ ch'.back = {} /\ ch'.retro = ch.retro /\ ch'.pending = ch.pending
        /\ ch'.sent = <<>>
    BY <2>1, <1>3 DEF Chan
  <2> QED
    BY <2>1, <2>2, <2>3, Empties DEF Keeps
<1>5. UNCHANGED <<attr, st, queued, refs, next, poll, frames, using, asked, starts>>
  BY DEF ThreadsJoin, streamVars
<1>6. ChainBufs' = {} /\ UserBufs' = UserBufs
  BY <1>1, <1>3, <1>4, <1>5, Empties DEF ChainBufs, UserBufs
<1>7. ChainApart'
  BY <1>1, <1>3, <1>4, Empties DEF ChainApart, Apart
<1>8. UserApart'
  BY <1>5 DEF IInv, UserApart
<1>9. Old'
  BY <1>5, <1>6 DEF IInv, Old
<1>10. Counted'
  BY <1>2, <1>5 DEF IInv, Counted, Counts
<1>11. call' \in [pc : Pcs, todo : SUBSET attr.streams] /\ call'.todo = {}
       /\ call'.pc \in {"stopped", "failed"}
  BY DEF ThreadsJoin, At, Pcs, Away
<1>12. Shape'
  BY <1>1, <1>3, <1>4, <1>5, <1>11, Empties DEF IInv, Shape
<1>13. Phase'
  <2>1. \A s \in Streams : PhaseOf(s)'
    BY <1>2, <1>5, <1>6, <1>11 DEF IInv, Phase, PhaseOf, Ending
  <2> QED
    BY <2>1, <1>1, <1>2, <1>3, <1>4, <1>5, <1>11 DEF Phase
<1>14. Bounded'
  BY QuietBounds DEF IInv, ThreadsJoin
<1>20. Flushing'
  BY QuietFlush DEF IInv, ThreadsJoin
<1> QED
  BY <1>7, <1>8, <1>9, <1>10, <1>12, <1>13, <1>14, <1>20 DEF IInv

-----------------------------------------------------------------------------
(* The poll thread, the streams' threads and their callbacks. *)

LEMMA PollAppKeeps == ASSUME IInv, PollApp PROVE IInv'
<1>1. PICK s \in Streams, f \in Frames : poll = <<s, f>>
  BY DEF IInv, Shape, PollApp
<1>2. st[s] = "active"
  BY <1>1 DEF IInv, Phase, PhaseOf
<1>3. frames \in [Streams -> Seq(Frames)] /\ using \in [Streams -> SUBSET Frames]
  BY DEF IInv, Shape
<1>4. SingleOf(s, poll, frames, using)
  BY DEF IInv, UserApart, Single
<1>5. /\ frames' = [frames EXCEPT ![s] = Append(@, f)] /\ poll' = Idle
      /\ UNCHANGED <<attr, call, st, queued, refs, next, cmds, ch, using, out, asked, starts>>
  BY <1>1 DEF PollApp
<1>6. Append(frames[s], f) \in Seq(Frames) /\ Distinct(Append(frames[s], f))
      /\ ToSet(Append(frames[s], f)) = ToSet(frames[s]) \cup {f}
  <2>1. PICK q : q = frames[s]
    OBVIOUS
  <2>2. q \in Seq(Frames) /\ Distinct(q) /\ f \notin ToSet(q)
    BY <2>1, <1>1, <1>3, <1>4 DEF SingleOf
  <2> QED
    BY <2>1, <2>2, FrameAppended
<1>7. frames' \in [Streams -> Seq(Frames)] /\ frames'[s] = Append(frames[s], f)
      /\ \A u \in Streams : u # s => frames'[u] = frames[u]
  BY <1>3, <1>5, <1>6
<1>8. \A u \in Streams, g \in Frames : poll' # <<u, g>>
  BY <1>5, FramesAreNatural DEF Idle
<1>9. UserBufs' = UserBufs
  <2>1. ASSUME NEW u \in Streams, NEW g \in Frames
        PROVE  <<u, g>> \in UserBufs' <=> <<u, g>> \in UserBufs
    <3>1. <<u, g>> \in UserBufs <=> poll = <<u, g>> \/ g \in ToSet(frames[u]) \/ g \in using[u]
      BY InApp DEF UserBufs
    <3>2. <<u, g>> \in UserBufs' <=> poll' = <<u, g>> \/ g \in ToSet(frames'[u])
                                     \/ g \in using'[u]
      BY InApp DEF UserBufs
    <3>3. poll = <<u, g>> <=> u = s /\ g = f
      BY <1>1
    <3>4. g \in ToSet(frames'[u]) <=> g \in ToSet(frames[u]) \/ (u = s /\ g = f)
      BY <1>6, <1>7
    <3> QED
      BY <3>1, <3>2, <3>3, <3>4, <1>5, <1>8
  <2> QED
    BY <2>1, SameApp DEF UserBufs
<1>10. UserApart'
  <2>1. ASSUME NEW u \in Streams PROVE SingleOf(u, poll', frames', using')
    <3>1. SingleOf(u, poll, frames, using)
      BY DEF IInv, UserApart, Single
    <3>2. CASE u = s
      BY <3>2, <1>1, <1>4, <1>5, <1>6, <1>7, <1>8 DEF SingleOf
    <3>3. CASE u # s
      BY <3>1, <3>3, <1>5, <1>7, <1>8 DEF SingleOf
    <3> QED
      BY <3>2, <3>3
  <2> QED
    BY <2>1 DEF UserApart, Single
<1>11. ChainBufs' = ChainBufs /\ ChainApart' /\ Old' /\ Counted'
  BY <1>5, <1>9 DEF IInv, ChainBufs, ChainApart, Old, Counted
<1>12. Shape'
  BY <1>5, <1>7 DEF IInv, Shape
<1>13. Phase'
  <2>1. ASSUME NEW u \in Streams PROVE PhaseOf(u)'
    <3>1. PhaseOf(u)
      BY DEF IInv, Phase
    <3> QED
      BY <3>1, <1>2, <1>5, <1>7, <1>8, <1>11 DEF PhaseOf
  <2> QED
    BY <2>1, <1>5 DEF IInv, Phase
<1>14. Bounded'
  BY <1>5, QuietBounds DEF IInv
<1>20. Flushing'
  BY QuietFlush DEF IInv, PollApp
<1> QED
  BY <1>10, <1>11, <1>12, <1>13, <1>14, <1>20 DEF IInv

LEMMA AppDispatchKeeps == ASSUME IInv, NEW s \in Streams, AppDispatch(s) PROVE IInv'
<1> DEFINE f == Head(frames[s])
<1>1. frames[s] # <<>>
  BY DEF AppDispatch
<1>2. st[s] # "none"
  BY <1>1 DEF IInv, Phase, PhaseOf
<1>3. frames \in [Streams -> Seq(Frames)] /\ using \in [Streams -> SUBSET Frames]
  BY DEF IInv, Shape
<1>4. SingleOf(s, poll, frames, using)
  BY DEF IInv, UserApart, Single
<1>5. /\ frames' = [frames EXCEPT ![s] = Tail(@)]
      /\ using' = [using EXCEPT ![s] = @ \cup {f}]
      /\ UNCHANGED <<attr, call, st, queued, refs, next, poll, cmds, ch, out, asked, starts>>
  BY DEF AppDispatch
<1>6. /\ Tail(frames[s]) \in Seq(Frames) /\ Distinct(Tail(frames[s]))
      /\ f \in Frames /\ f \in ToSet(frames[s])
      /\ ToSet(Tail(frames[s])) = ToSet(frames[s]) \ {f}
  <2>1. PICK q : q = frames[s]
    OBVIOUS
  <2>2. q \in Seq(Frames) /\ Distinct(q) /\ q # <<>>
    BY <2>1, <1>1, <1>3, <1>4 DEF SingleOf
  <2> QED
    BY <2>1, <2>2, FrameTaken
<1> HIDE DEF f
<1>7. /\ frames' \in [Streams -> Seq(Frames)] /\ frames'[s] = Tail(frames[s])
      /\ using' \in [Streams -> SUBSET Frames] /\ using'[s] = using[s] \cup {f}
      /\ \A u \in Streams : u # s => frames'[u] = frames[u] /\ using'[u] = using[u]
  BY <1>3, <1>5, <1>6
<1>8. UserBufs' = UserBufs
  <2>1. ASSUME NEW u \in Streams, NEW g \in Frames
        PROVE  <<u, g>> \in UserBufs' <=> <<u, g>> \in UserBufs
    <3>1. <<u, g>> \in UserBufs <=> poll = <<u, g>> \/ g \in ToSet(frames[u]) \/ g \in using[u]
      BY InApp DEF UserBufs
    <3>2. <<u, g>> \in UserBufs' <=> poll' = <<u, g>> \/ g \in ToSet(frames'[u])
                                     \/ g \in using'[u]
      BY InApp DEF UserBufs
    <3>3. g \in ToSet(frames'[u]) \/ g \in using'[u] <=> g \in ToSet(frames[u]) \/ g \in using[u]
      BY <1>6, <1>7
    <3> QED
      BY <3>1, <3>2, <3>3, <1>5
  <2> QED
    BY <2>1, SameApp DEF UserBufs
<1>9. UserApart'
  <2>1. ASSUME NEW u \in Streams PROVE SingleOf(u, poll', frames', using')
    <3>1. SingleOf(u, poll, frames, using)
      BY DEF IInv, UserApart, Single
    <3>2. CASE u = s
      BY <3>2, <1>4, <1>5, <1>6, <1>7 DEF SingleOf
    <3>3. CASE u # s
      BY <3>1, <3>3, <1>5, <1>7 DEF SingleOf
    <3> QED
      BY <3>2, <3>3
  <2> QED
    BY <2>1 DEF UserApart, Single
<1>10. ChainBufs' = ChainBufs /\ ChainApart' /\ Old' /\ Counted'
  BY <1>5, <1>8 DEF IInv, ChainBufs, ChainApart, Old, Counted
<1>11. Shape'
  BY <1>5, <1>7 DEF IInv, Shape
<1>12. Phase'
  <2>1. ASSUME NEW u \in Streams PROVE PhaseOf(u)'
    <3>1. PhaseOf(u)
      BY DEF IInv, Phase
    <3> QED
      BY <3>1, <1>2, <1>5, <1>7, <1>10 DEF PhaseOf
  <2> QED
    BY <2>1, <1>5 DEF IInv, Phase
<1>13. Bounded'
  BY <1>5, QuietBounds DEF IInv
<1>20. Flushing'
  BY QuietFlush DEF IInv, AppDispatch
<1> QED
  BY <1>9, <1>10, <1>11, <1>12, <1>13, <1>20 DEF IInv

LEMMA ReturnFrameKeeps == ASSUME IInv, NEW s \in Streams, ReturnFrame(s) PROVE IInv'
<1>1. PICK f \in using[s] : using' = [using EXCEPT ![s] = @ \ {f}] /\ BufDone({<<s, f>>})
  BY DEF ReturnFrame
<1>2. UNCHANGED <<attr, call, st, next, poll, cmds, frames, ch, out, asked, starts>>
  BY DEF ReturnFrame
<1>3. frames \in [Streams -> Seq(Frames)] /\ using \in [Streams -> SUBSET Frames]
  BY DEF IInv, Shape
<1>4. f \in Frames
  BY <1>3
<1>5. using' \in [Streams -> SUBSET Frames] /\ using'[s] = using[s] \ {f}
      /\ \A u \in Streams : u # s => using'[u] = using[u]
  BY <1>1, <1>3
<1>6. ASSUME NEW u \in Streams PROVE SingleOf(u, poll, frames, using)
  BY DEF IInv, UserApart, Single
<1>7. \A u \in Streams, g \in Frames :
         <<u, g>> \in UserBufs' <=> <<u, g>> \in UserBufs \ {<<s, f>>}
  <2> TAKE u \in Streams, g \in Frames
  <2>1. <<u, g>> \in UserBufs <=> poll = <<u, g>> \/ g \in ToSet(frames[u]) \/ g \in using[u]
    BY InApp DEF UserBufs
  <2>2. <<u, g>> \in UserBufs' <=> poll' = <<u, g>> \/ g \in ToSet(frames'[u])
                                   \/ g \in using'[u]
    BY InApp DEF UserBufs
  <2>3. <<u, g>> = <<s, f>> <=> u = s /\ g = f
    OBVIOUS
  <2>4. u = s /\ g = f => poll # <<u, g>> /\ g \notin ToSet(frames[u])
    BY <1>4, <1>6 DEF SingleOf
  <2> QED
    BY <2>1, <2>2, <2>3, <2>4, <1>2, <1>5
<1>8. UserBufs' = UserBufs \ {<<s, f>>}
  <2>1. UserBufs \subseteq Streams \X Frames /\ UserBufs' \subseteq Streams \X Frames
    BY DEF UserBufs, AppBufs
  <2> QED
    BY <2>1, <1>7
<1>9. UserApart'
  <2>1. ASSUME NEW u \in Streams PROVE SingleOf(u, poll', frames', using')
    BY <1>2, <1>5, <1>6 DEF SingleOf
  <2> QED
    BY <2>1 DEF UserApart, Single
<1>10. ChainBufs' = ChainBufs /\ ChainApart'
  BY <1>2 DEF IInv, ChainBufs, ChainApart
<1>11. Old'
  BY <1>2, <1>8, <1>10 DEF IInv, Old
<1>12. Counted'
  <2>1. PICK C, P, Q : C = ChainBufs /\ P = UserBufs /\ Q = P \ {<<s, f>>}
    OBVIOUS
  <2>2. Counts(C, P, st, queued, refs)
    BY <2>1 DEF IInv, Counted
  <2>3. {<<s, f>>} \subseteq P
    BY <2>1, <1>4, InApp DEF UserBufs
  <2>4. Counts(C, Q, st, queued', refs')
    BY <2>1, <2>2, <2>3, <1>1, DoneCounts
  <2> QED
    BY <2>1, <2>4, <1>2, <1>8, <1>10 DEF Counted
<1>13. Shape'
  BY <1>2, <1>5 DEF IInv, Shape
<1>14. Phase'
  <2>1. ASSUME NEW u \in Streams PROVE PhaseOf(u)'
    <3>1. PhaseOf(u)
      BY DEF IInv, Phase
    <3>2. using[u] = {} => using'[u] = {}
      BY <1>5
    <3> QED
      BY <3>1, <3>2, <1>2, <1>10 DEF PhaseOf
  <2> QED
    BY <2>1, <1>2 DEF IInv, Phase
<1>15. Bounded'
  BY <1>2, QuietBounds DEF IInv
<1>20. Flushing'
  BY QuietFlush DEF IInv, ReturnFrame
<1> QED
  BY <1>9, <1>10, <1>11, <1>12, <1>13, <1>14, <1>15, <1>20 DEF IInv

LEMMA ReturnSuperKeeps == ASSUME IInv, ReturnSuper PROVE IInv'
<1>1. PICK x \in out : out' = out \ {x} /\ BufDone(Bufs(x))
  BY DEF ReturnSuper
<1>2. UNCHANGED <<attr, call, st, next, poll, cmds, frames, ch, using, asked, starts>>
  BY DEF ReturnSuper
<1>3. Disjoint(out)
  BY DEF IInv, ChainApart, Apart
<1>4. AllBufs(out') = AllBufs(out) \ Bufs(x)
  <2>1. ASSUME NEW b \in AllBufs(out') PROVE b \in AllBufs(out) \ Bufs(x)
    <3>1. PICK y \in out' : b \in Bufs(y)
      BY <2>1 DEF AllBufs
    <3>2. y \in out /\ y # x
      BY <1>1
    <3>3. Bufs(x) \cap Bufs(y) = {}
      BY <1>3, <3>2 DEF Disjoint
    <3> QED
      BY <3>1, <3>2, <3>3 DEF AllBufs
  <2>2. ASSUME NEW b \in AllBufs(out) \ Bufs(x) PROVE b \in AllBufs(out')
    <3>1. PICK y \in out : b \in Bufs(y)
      BY <2>2 DEF AllBufs
    <3>2. y \in out'
      BY <1>1, <2>2, <3>1
    <3> QED
      BY <3>1, <3>2 DEF AllBufs
  <2> QED
    BY <2>1, <2>2
<1>5. Bufs(x) \subseteq AllBufs(out)
  BY DEF AllBufs
<1>6. ChainBufs' = ChainBufs \ Bufs(x) /\ Bufs(x) \subseteq ChainBufs
  BY <1>2, <1>4, <1>5 DEF IInv, ChainBufs, ChainApart, Apart
<1>7. ChainApart'
  BY <1>1, <1>2, <1>4 DEF IInv, ChainApart, Apart, Disjoint
<1>8. UserBufs' = UserBufs /\ UserApart'
  BY <1>2 DEF IInv, UserBufs, UserApart
<1>9. Old'
  BY <1>2, <1>6, <1>8 DEF IInv, Old
<1>10. Counted'
  <2>1. PICK C, P, D : C = ChainBufs /\ P = UserBufs /\ D = C \ Bufs(x)
    OBVIOUS
  <2>2. Counts(C, P, st, queued, refs) /\ Bufs(x) \subseteq C
    BY <1>6, <2>1 DEF IInv, Counted
  <2>3. Counts(D, P, st, queued', refs')
    BY <2>1, <2>2, <1>1, DoneCounts
  <2> QED
    BY <2>1, <2>3, <1>2, <1>6, <1>8 DEF Counted
<1>11. Shape'
  BY <1>1, <1>2 DEF IInv, Shape
<1>12. Phase'
  <2>1. ASSUME NEW u \in Streams PROVE PhaseOf(u)'
    <3>1. PhaseOf(u)
      BY DEF IInv, Phase
    <3> QED
      BY <3>1, <1>2, <1>6 DEF PhaseOf
  <2>2. out = {} => out' = {}
    BY <1>1
  <2> QED
    BY <2>1, <2>2, <1>2 DEF IInv, Phase
<1>13. Bounded' /\ Flushing'
  BY <1>2, QuietBounds, QuietFlush DEF IInv
<1> QED
  BY <1>7, <1>8, <1>9, <1>10, <1>11, <1>12, <1>13 DEF IInv

-----------------------------------------------------------------------------
\* A frame that nobody holds is new to both sides.
LEMMA NewFrame ==
    ASSUME Old, NEW s \in Streams, NEW f \in Frames, next[s] <= f, next[s] \in Nat
    PROVE  <<s, f>> \notin ChainBufs /\ <<s, f>> \notin UserBufs
<1> SUFFICES ASSUME <<s, f>> \in ChainBufs \cup UserBufs PROVE FALSE
  OBVIOUS
<1>1. f < next[s]
  BY DEF Old
<1> QED
  BY <1>1, FramesAreNatural

\* The command queue holds no more buffers of a stream than it has.
LEMMA QueueBounded ==
    ASSUME NEW C, NEW P, NEW t, NEW k, NEW r, Counts(C, P, t, k, r), NEW s \in Streams,
           t[s] # "none", NEW B \in SUBSET C
    PROVE  Cardinality(FramesIn(s, B)) <= NumBufs
<1>1. CountsOf(s, C, P, k, r) /\ k[s] \in Nat
  BY DEF Counts
<1>2. PICK T, U : T = FramesIn(s, B) /\ U = Some(r, s)
  OBVIOUS
<1>3. U \in SUBSET Frames /\ T \in SUBSET U
  BY <1>1, <1>2 DEF FramesIn, Some, CountsOf, One
<1>4. IsFiniteSet(U) /\ Cardinality(U) \in Nat /\ Cardinality(T) \in Nat
  BY <1>3, FramesFinite
<1>5. Cardinality(T) <= Cardinality(U)
  BY <1>3, <1>4, FS_Subset
<1>6. k[s] + Cardinality(U) = NumBufs
  BY <1>1, <1>2 DEF CountsOf
<1> QED
  BY <1>1, <1>2, <1>4, <1>5, <1>6, Naturals4

LEMMA PollReadKeeps == ASSUME IInv, NEW s \in Streams, PollRead(s) PROVE IInv'
<1>1. PICK f \in next[s] .. MaxFrame :
         /\ next' = [next EXCEPT ![s] = f + 1]
         /\ refs' = [refs EXCEPT ![s][f] = (IF attr.notify_cb THEN 1 ELSE 0)
                                         + (IF s \in attr.data_cb THEN 1 ELSE 0)]
         /\ poll' = IF s \in attr.data_cb THEN <<s, f>> ELSE Idle
         /\ cmds' = IF attr.notify_cb
                    THEN Append(cmds, [type |-> "data", s |-> s, f |-> f]) ELSE cmds
  BY DEF PollRead
<1>2. poll = Idle /\ st[s] = "active" /\ queued[s] > 0 /\ queued' = [queued EXCEPT ![s] = @ - 1]
      /\ UNCHANGED <<attr, call, st, frames, ch, using, out, asked, starts>>
  BY DEF PollRead
<1>3. next \in [Streams -> 1 .. MaxFrame + 1] /\ cmds \in Seq(Cmd(attr.streams))
      /\ attr.streams \in SUBSET Streams
  BY AttrHasShape DEF IInv, Shape
<1>4. f \in Frames /\ next[s] <= f /\ next[s] \in Nat /\ f + 1 \in 1 .. MaxFrame + 1
      /\ f \in Nat /\ next[s] < f + 1
  <2>1. next[s] \in 1 .. MaxFrame + 1 /\ MaxFrame \in Nat
    BY <1>3, Naturals4
  <2> QED
    BY <2>1 DEF Frames
<1>5. <<s, f>> \notin ChainBufs /\ <<s, f>> \notin UserBufs
  BY <1>4, NewFrame DEF IInv
<1>6. s \in attr.streams
  BY <1>2 DEF IInv, Phase, PhaseOf
<1>7. attr.notify_cb \/ s \in attr.data_cb
  <2>1. attr # NoAttr
    BY <1>6 DEF NoAttr
  <2>2. attr \in Attrs
    BY <2>1 DEF IInv, Shape
  <2> QED
    BY <2>2, <1>6, UsersAssumption
<1>8. attr.notify_cb =>
         /\ cmds' \in Seq(Cmd(attr.streams)) /\ Once(cmds')
         /\ Data(cmds') = Data(cmds) \cup {<<s, f>>}
         /\ OtherAt(cmds') = OtherAt(cmds) /\ FlushAt(cmds') = FlushAt(cmds)
  <2> SUFFICES ASSUME attr.notify_cb
               PROVE  /\ cmds' \in Seq(Cmd(attr.streams)) /\ Once(cmds')
                      /\ Data(cmds') = Data(cmds) \cup {<<s, f>>}
                      /\ OtherAt(cmds') = OtherAt(cmds) /\ FlushAt(cmds') = FlushAt(cmds)
    OBVIOUS
  <2>1. PICK A, cs, ds, d : /\ A = attr.streams /\ cs = cmds /\ ds = cmds'
                            /\ d = [type |-> "data", s |-> s, f |-> f]
    OBVIOUS
  <2>2. A \in SUBSET Streams /\ cs \in Seq(Cmd(A)) /\ s \in A /\ f \in Frames
        /\ ds = Append(cs, d) /\ d \in Cmd(A) /\ d.type = "data" /\ d.s = s /\ d.f = f
    BY <2>1, <1>1, <1>3, <1>4, <1>6 DEF Cmd
  <2>3. <<s, f>> \notin Data(cs) /\ Once(cs)
    BY <2>1, <1>5 DEF IInv, ChainBufs, ChainApart, Apart
  <2>4. Extended(A, cs, ds, s, f, d)
    BY <2>2, <2>3, DataAppended
  <2> QED
    BY <2>1, <2>4 DEF Extended
<1>9. ~attr.notify_cb => cmds' = cmds
  BY <1>1
<1>10. /\ cmds' \in Seq(Cmd(attr.streams)) /\ Once(cmds')
       /\ Data(cmds') = Data(cmds) \cup (IF attr.notify_cb THEN {<<s, f>>} ELSE {})
       /\ OtherAt(cmds') = OtherAt(cmds) /\ FlushAt(cmds') = FlushAt(cmds)
  <2>1. CASE attr.notify_cb
    BY <2>1, <1>8
  <2>2. CASE ~attr.notify_cb
    BY <2>2, <1>3, <1>9 DEF IInv, ChainApart, Apart
  <2> QED
    BY <2>1, <2>2
<1>11. ChainBufs' = IF attr.notify_cb THEN ChainBufs \cup {<<s, f>>} ELSE ChainBufs
  BY <1>2, <1>10 DEF ChainBufs
<1>12. ChainApart'
  BY <1>2, <1>5, <1>10 DEF IInv, ChainApart, Apart, ChainBufs
<1>13. \A u \in Streams, g \in Frames : poll # <<u, g>>
  BY <1>2, FramesAreNatural DEF Idle
<1>14. \A u \in Streams, g \in Frames :
          poll' = <<u, g>> <=> s \in attr.data_cb /\ u = s /\ g = f
  BY <1>1, FramesAreNatural DEF Idle
<1>15. \A u \in Streams, g \in Frames :
          <<u, g>> \in UserBufs' <=> <<u, g>> \in UserBufs
                                     \/ (s \in attr.data_cb /\ u = s /\ g = f)
  <2> TAKE u \in Streams, g \in Frames
  <2>1. <<u, g>> \in UserBufs <=> poll = <<u, g>> \/ g \in ToSet(frames[u]) \/ g \in using[u]
    BY InApp DEF UserBufs
  <2>2. <<u, g>> \in UserBufs' <=> poll' = <<u, g>> \/ g \in ToSet(frames'[u])
                                   \/ g \in using'[u]
    BY InApp DEF UserBufs
  <2> QED
    BY <2>1, <2>2, <1>2, <1>13, <1>14
<1>16. UserBufs' = IF s \in attr.data_cb THEN UserBufs \cup {<<s, f>>} ELSE UserBufs
  <2>1. UserBufs \subseteq Streams \X Frames /\ UserBufs' \subseteq Streams \X Frames
    BY DEF UserBufs, AppBufs
  <2>2. <<s, f>> \in Streams \X Frames
    BY <1>4
  <2> QED
    BY <2>1, <2>2, <1>15
<1>17. UserApart'
  <2>1. ASSUME NEW u \in Streams PROVE SingleOf(u, poll', frames', using')
    <3>1. SingleOf(u, poll, frames, using)
      BY DEF IInv, UserApart, Single
    <3>2. f \notin ToSet(frames[s]) /\ f \notin using[s]
      BY <1>4, <1>5, InApp DEF UserBufs
    <3> QED
      BY <3>1, <3>2, <1>2, <1>14 DEF SingleOf
  <2> QED
    BY <2>1 DEF UserApart, Single
<1>18. Old'
  <2> SUFFICES ASSUME NEW u \in Streams, NEW g \in Frames, <<u, g>> \in ChainBufs' \cup UserBufs'
               PROVE  g < next'[u]
    BY DEF Old
  <2>1. <<u, g>> \in ChainBufs \cup UserBufs \/ (u = s /\ g = f)
    BY <1>11, <1>16
  <2>2. next'[u] = IF u = s THEN f + 1 ELSE next[u]
    BY <1>1, <1>3
  <2>3. next[u] \in Nat /\ g \in Nat
    BY <1>3, FramesAreNatural, Naturals4
  <2>4. CASE u = s /\ g = f
    BY <2>2, <2>4, <1>4
  <2>5. CASE <<u, g>> \in ChainBufs \cup UserBufs
    <3>1. g < next[u]
      BY <2>5 DEF IInv, Old
    <3> QED
      BY <3>1, <2>2, <2>3, <1>4
  <2> QED
    BY <2>1, <2>4, <2>5
<1>19. Counted'
  <2>1. PICK C, P, D, Q, k, r : /\ C = ChainBufs /\ P = UserBufs /\ D = ChainBufs'
                                /\ Q = UserBufs' /\ k = queued' /\ r = refs'
    OBVIOUS
  <2>2. Counts(C, P, st, queued, refs) /\ <<s, f>> \notin C /\ <<s, f>> \notin P
    BY <2>1, <1>5 DEF IInv, Counted
  <2>3. (D = C \cup {<<s, f>>} \/ D = C) /\ (Q = P \cup {<<s, f>>} \/ Q = P)
        /\ <<s, f>> \in D \cup Q
    BY <2>1, <1>7, <1>11, <1>16
  <2>4. One(<<s, f>>, D) = (IF attr.notify_cb THEN 1 ELSE 0)
        /\ One(<<s, f>>, Q) = (IF s \in attr.data_cb THEN 1 ELSE 0)
    BY <2>1, <2>2, <1>11, <1>16 DEF One
  <2>5. r = [refs EXCEPT ![s][f] = One(<<s, f>>, D) + One(<<s, f>>, Q)]
    BY <2>1, <2>4, <1>1
  <2>6. k = [queued EXCEPT ![s] = @ - 1]
    BY <2>1, <1>2
  <2>7. Counts(D, Q, st, k, r)
    BY <2>2, <2>3, <2>5, <2>6, <1>2, <1>4, ReadCounts
  <2> QED
    BY <2>1, <2>7, <1>2 DEF Counted
<1>20. next' \in [Streams -> 1 .. MaxFrame + 1]
  BY <1>1, <1>3, <1>4
<1>21. poll' \in (Streams \X Frames) \cup {Idle}
  BY <1>1, <1>4
<1>22. Shape'
  BY <1>2, <1>10, <1>20, <1>21 DEF IInv, Shape
<1>23. call.pc \notin Away
  BY <1>2 DEF IInv, Phase
<1>24. Phase'
  <2>1. ASSUME NEW u \in Streams PROVE PhaseOf(u)'
    <3>1. PhaseOf(u)
      BY DEF IInv, Phase
    <3>2. st[u] # "active" => u # s
      BY <1>2
    <3>3. \A g \in Frames : st[u] = "none" => (<<u, g>> \in ChainBufs' => <<u, g>> \in ChainBufs)
      BY <3>2, <1>11
    <3>4. \A g \in Frames : st[u] # "active" => poll' # <<u, g>>
      BY <3>2, <1>14
    <3> QED
      BY <3>1, <3>3, <3>4, <1>2 DEF PhaseOf
  <2> QED
    BY <2>1, <1>2, <1>23 DEF IInv, Phase
<1>25. \A u \in Streams : Cardinality(FramesIn(u, Data(cmds'))) <= NumBufs
  <2> TAKE u \in Streams
  <2>1. CASE u = s
    <3>1. PICK C, P, k, r, B : /\ C = ChainBufs' /\ P = UserBufs' /\ k = queued' /\ r = refs'
                               /\ B = Data(cmds')
      OBVIOUS
    <3>2. Counts(C, P, st, k, r) /\ B \in SUBSET C
      BY <3>1, <1>2, <1>19 DEF Counted, ChainBufs
    <3>3. Cardinality(FramesIn(s, B)) <= NumBufs
      BY <3>2, <1>2, QueueBounded
    <3> QED
      BY <2>1, <3>1, <3>3
  <2>2. CASE u # s
    <3>1. FramesIn(u, Data(cmds')) = FramesIn(u, Data(cmds))
      BY <2>2, <1>10 DEF FramesIn
    <3> QED
      BY <3>1 DEF IInv, Bounded
  <2> QED
    BY <2>1, <2>2
<1>26. Bounded' /\ Flushing'
  BY <1>2, <1>10, <1>25 DEF IInv, Bounded, Flushing
<1> QED
  BY <1>12, <1>17, <1>18, <1>19, <1>22, <1>24, <1>26 DEF IInv

-----------------------------------------------------------------------------
(* The channel's thread. *)

\* What the channel's thread makes of a command: the command's buffer, if it has one,
\* joins those of the channel.
Brought(n) == IF n.type = "data" THEN {<<n.s, n.f>>} ELSE {}

LEMMA HandledKeeps ==
    ASSUME NEW A \in SUBSET Streams, NEW W, Keeps(ch, A, W), attr \in AttrShape,
           attr.streams = A, NEW n \in Cmd(A), Brought(n) \cap W = {},
           NEW B \in Announced(n)
    PROVE  Keeps(Handled(B, n), A, W \cup Brought(n))
<1>1. CASE n.type = "data"
  <2>1. n.s \in A /\ n.f \in Frames
    BY <1>1 DEF Cmd
  <2>2. Keeps(B, A, W)
    <3>1. CASE n.s = Meta
      <4>1. PICK info \in Infos : B = HandleMetadata(ch, n.f, info)
        BY <1>1, <3>1 DEF Announced
      <4> QED
        BY <4>1, <2>1, MetadataKeeps
    <3>2. CASE n.s # Meta
      BY <1>1, <3>2 DEF Announced
    <3> QED
      BY <3>1, <3>2
  <2>3. <<n.s, n.f>> \notin W /\ Brought(n) = {<<n.s, n.f>>}
    BY <1>1 DEF Brought
  <2>4. PICK s, f : s = n.s /\ f = n.f
    OBVIOUS
  <2>5. Keeps(Enqueue(B, s, f), A, W \cup {<<s, f>>})
    BY <2>1, <2>2, <2>3, <2>4, EnqueueKeeps
  <2>6. Handled(B, n) = Enqueue(B, s, f)
    BY <1>1, <2>4 DEF Handled
  <2> QED
    BY <2>3, <2>4, <2>5, <2>6
<1>2. CASE n.type = "req"
  <2>1. n.n \in Nat /\ n.retro \in Nat
    BY <1>2 DEF Cmd
  <2>2. B = ch /\ Handled(B, n) = Requested(B, n.n, n.retro) /\ W \cup Brought(n) = W
    BY <1>2 DEF Announced, Handled, Brought
  <2>3. Keeps(Requested(ch, n.n, n.retro), A, W)
    BY <2>1, RequestedKeeps
  <2> QED
    BY <2>2, <2>3
<1>3. CASE n.type = "flush"
  <2>1. PICK E : E = [ch EXCEPT !.expected_id = n.f]
    OBVIOUS
  <2>2. n.f \in Int
    BY <1>3 DEF Cmd
  <2>3. ch \in Chan(A)
    BY DEF Keeps
  <2>4. E \in Chan(A) /\ E.q = ch.q /\ E.back = ch.back /\ E.retro = ch.retro
        /\ E.pending = ch.pending /\ E.sent = ch.sent
    BY <2>1, <2>2, <2>3 DEF Chan
  <2>5. Keeps(E, A, W)
    BY <2>4 DEF Keeps
  <2>6. Keeps(FlushAll(E), A, W)
    BY <2>5, FlushKeeps
  <2>7. B = ch /\ Handled(B, n) = FlushAll(E) /\ W \cup Brought(n) = W
    BY <1>3, <2>1 DEF Announced, Handled, Brought
  <2> QED
    BY <2>6, <2>7
<1> QED
  BY <1>1, <1>2, <1>3 DEF Cmd

\* A command that is taken leaves no more requests than there were.
LEMMA FewerOthers ==
    ASSUME NEW A \in SUBSET Streams, NEW cs \in Seq(Cmd(A)), NEW ds \in Seq(Cmd(A)),
           \A i \in OtherAt(ds) : i + 1 \in OtherAt(cs) /\ i \in Nat
    PROVE  Cardinality(OtherAt(ds)) <= Cardinality(OtherAt(cs))
<1>1. PICK S, T : S = OtherAt(ds) /\ T = OtherAt(cs)
  OBVIOUS
<1>2. PICK g : g = [i \in S |-> i + 1]
  OBVIOUS
<1>3. IsFiniteSet(T)
  BY <1>1, OtherFinite
<1>4. g \in [S -> T]
  BY <1>1, <1>2
<1>5. \A i, j \in S : g[i] = g[j] => i = j
  BY <1>1, <1>2
<1>6. g \in Injection(S, T)
  BY <1>4, <1>5 DEF Injection, IsInjective
<1>7. Cardinality(S) <= Cardinality(T)
  BY <1>3, <1>6, FS_Injection
<1> QED
  BY <1>1, <1>7

\* What a step of the thread ends with.
Ended(D) == [D EXCEPT !.back = {}, !.sent = <<>>]

LEMMA EndedKeeps ==
    ASSUME NEW A \in SUBSET Streams, NEW B, NEW D, Sends(D, A, B)
    PROVE  /\ Keeps(Ended(D), A, Within(D.q)) /\ Ended(D).back = {} /\ Ended(D).q = D.q
           /\ ToSet(D.sent) \subseteq Super(A) /\ Disjoint(ToSet(D.sent))
           /\ AllBufs(ToSet(D.sent)) = Within(D.sent)
<1>1. D \in Chan(A) /\ Clean(D.q) /\ Clean(D.sent) /\ D.retro <= D.pending
  BY DEF Sends
<1>2. Ended(D) \in Chan(A) /\ Ended(D).back = {} /\ Ended(D).q = D.q /\ Ended(D).sent = <<>>
      /\ Ended(D).retro = D.retro /\ Ended(D).pending = D.pending
  BY <1>1, Empties DEF Chan, Ended
<1>3. Keeps(Ended(D), A, Within(D.q))
  BY <1>1, <1>2 DEF Keeps
<1>4. D.sent \in Seq(Super(A))
  BY <1>1 DEF Chan
<1>5. AllBufs(ToSet(D.sent)) = Within(D.sent)
  BY <1>4, WithinIsAll
<1>6. ToSet(D.sent) \subseteq Super(A)
  BY <1>4 DEF ToSet
<1>7. Disjoint(ToSet(D.sent))
  BY <1>1 DEF Disjoint, ToSet, Clean
<1> QED
  BY <1>2, <1>3, <1>5, <1>6, <1>7

LEMMA UnsentKeeps ==
    ASSUME NEW A \in SUBSET Streams, NEW B, NEW C, Keeps(C, A, B)
    PROVE  Sends(C, A, B)
<1>1. C.sent = <<>>
  BY DEF Keeps
<1>2. Clean(C.sent) /\ Within(C.sent) = {}
  BY <1>1, Empties
<1> QED
  BY <1>2 DEF Keeps, Sends

LEMMA DisjointUnion ==
    ASSUME NEW X, NEW Y, Disjoint(X), Disjoint(Y), AllBufs(X) \cap AllBufs(Y) = {}
    PROVE  Disjoint(X \cup Y) /\ AllBufs(X \cup Y) = AllBufs(X) \cup AllBufs(Y)
<1>1. AllBufs(X \cup Y) = AllBufs(X) \cup AllBufs(Y)
  BY DEF AllBufs
<1>2. \A x \in X : Bufs(x) \subseteq AllBufs(X)
  BY DEF AllBufs
<1>3. \A y \in Y : Bufs(y) \subseteq AllBufs(Y)
  BY DEF AllBufs
<1>4. Disjoint(X \cup Y)
  <2> SUFFICES ASSUME NEW x \in X \cup Y, NEW y \in X \cup Y, x # y
               PROVE  Bufs(x) \cap Bufs(y) = {}
    BY DEF Disjoint
  <2>1. CASE x \in X /\ y \in X
    BY <2>1 DEF Disjoint
  <2>2. CASE x \in Y /\ y \in Y
    BY <2>2 DEF Disjoint
  <2>3. CASE x \in X /\ y \in Y
    BY <2>3, <1>2, <1>3
  <2>4. CASE x \in Y /\ y \in X
    BY <2>4, <1>2, <1>3
  <2> QED
    BY <2>1, <2>2, <2>3, <2>4
<1> QED
  BY <1>1, <1>4

LEMMA ChannelStepKeeps == ASSUME IInv, ChannelStep PROVE IInv'
<1> DEFINE n == Head(cmds)
           A == attr.streams
           W == Within(ch.q)
           R == Data(Tail(cmds))
<1>1. cmds # <<>> /\ cmds' = Tail(cmds)
      /\ UNCHANGED <<attr, st, next, poll, frames, using, asked, starts>>
  BY DEF ChannelStep
<1>2. A \in SUBSET Streams /\ attr \in AttrShape /\ cmds \in Seq(Cmd(A)) /\ Keeps(ch, A, W)
  BY AttrHasShape DEF IInv, Shape
<1>3. /\ Once(cmds) /\ Clean(ch.q) /\ Disjoint(out)
      /\ Data(cmds) \cap W = {} /\ Data(cmds) \cap AllBufs(out) = {}
      /\ W \cap AllBufs(out) = {}
  BY DEF IInv, ChainApart, Apart
<1>4. /\ n \in Cmd(A) /\ Tail(cmds) \in Seq(Cmd(A)) /\ Once(Tail(cmds))
      /\ n.type = "data" => <<n.s, n.f>> \in Data(cmds) /\ R = Data(cmds) \ {<<n.s, n.f>>}
      /\ n.type # "data" => R = Data(cmds)
      /\ \A i \in OtherAt(Tail(cmds)) : i + 1 \in OtherAt(cmds) /\ i \in Nat
      /\ \A i \in FlushAt(Tail(cmds)) : i + 1 \in FlushAt(cmds) /\ i + 1 # 1
      /\ n.type = "flush" => 1 \in FlushAt(cmds)
  <2>1. PICK E, cs : E = A /\ cs = cmds
    OBVIOUS
  <2>2. E \in SUBSET Streams /\ cs \in Seq(Cmd(E)) /\ cs # <<>> /\ Once(cs)
    BY <2>1, <1>1, <1>2, <1>3
  <2>3. /\ Head(cs) \in Cmd(E) /\ Tail(cs) \in Seq(Cmd(E)) /\ Once(Tail(cs))
        /\ Head(cs).type = "data" =>
              /\ <<Head(cs).s, Head(cs).f>> \in Data(cs)
              /\ Data(Tail(cs)) = Data(cs) \ {<<Head(cs).s, Head(cs).f>>}
        /\ Head(cs).type # "data" => Data(Tail(cs)) = Data(cs)
        /\ \A i \in OtherAt(Tail(cs)) : i + 1 \in OtherAt(cs) /\ i \in Nat
        /\ \A i \in FlushAt(Tail(cs)) : i + 1 \in FlushAt(cs) /\ i + 1 # 1
        /\ Head(cs).type = "flush" => 1 \in FlushAt(cs)
    BY <2>2, HeadTaken
  <2> QED
    BY <2>1, <2>3
<1>5. Brought(n) \subseteq Data(cmds) /\ R = Data(cmds) \ Brought(n)
  BY <1>4 DEF Brought
<1>6. PICK D : /\ Sends(D, A, W \cup Brought(n))
               /\ ch' = Ended(D) /\ out' = out \cup ToSet(D.sent) /\ BufDone(D.back)
               /\ call' = IF n.type = "flush" THEN At("active", {}) ELSE call
  <2>1. PICK B \in Announced(n) :
           \E T \in {IF n.type = "flush" THEN Handled(B, n)
                     ELSE DropTo(Handled(B, n), attr.water_mark)} :
           \E D \in {IF n.type = "flush" THEN T ELSE Dispatch(T)} :
             /\ ch' = [D EXCEPT !.back = {}, !.sent = <<>>]
             /\ out' = out \cup ToSet(D.sent)
             /\ BufDone(D.back)
             /\ call' = IF n.type = "flush" THEN At("active", {}) ELSE call
    BY DEF ChannelStep
  <2>2. PICK C, V : C = Handled(B, n) /\ V = W \cup Brought(n)
    OBVIOUS
  <2>3. Keeps(C, A, V)
    BY <2>2, <1>2, <1>3, <1>4, <1>5, HandledKeeps
  <2>4. PICK T, D : /\ T = (IF n.type = "flush" THEN C ELSE DropTo(C, attr.water_mark))
                    /\ D = (IF n.type = "flush" THEN T ELSE Dispatch(T))
                    /\ ch' = [D EXCEPT !.back = {}, !.sent = <<>>]
                    /\ out' = out \cup ToSet(D.sent)
                    /\ BufDone(D.back)
                    /\ call' = IF n.type = "flush" THEN At("active", {}) ELSE call
    BY <2>1, <2>2
  <2>5. Sends(D, A, V)
    <3>1. CASE n.type = "flush"
      BY <3>1, <2>3, <2>4, <1>2, UnsentKeeps
    <3>2. CASE n.type # "flush"
      <4>1. attr.water_mark \in Nat
        BY <1>2 DEF AttrShape
      <4>2. Keeps(T, A, V)
        BY <3>2, <4>1, <2>3, <2>4, <1>2, DropKeeps
      <4> QED
        BY <3>2, <4>2, <2>4, <1>2, DispatchKeeps
    <3> QED
      BY <3>1, <3>2
  <2> QED
    BY <2>2, <2>4, <2>5 DEF Ended
<1>7. /\ Keeps(ch', A, Within(ch'.q)) /\ ch'.back = {} /\ ch'.q = D.q
      /\ ToSet(D.sent) \subseteq Super(A) /\ Disjoint(ToSet(D.sent))
      /\ AllBufs(ToSet(D.sent)) = Within(D.sent)
  <2>1. PICK E, V : E = A /\ V = W \cup Brought(n)
    OBVIOUS
  <2>2. E \in SUBSET Streams /\ Sends(D, E, V)
    BY <2>1, <1>2, <1>6
  <2>3. /\ Keeps(Ended(D), E, Within(D.q)) /\ Ended(D).back = {} /\ Ended(D).q = D.q
        /\ ToSet(D.sent) \subseteq Super(E) /\ Disjoint(ToSet(D.sent))
        /\ AllBufs(ToSet(D.sent)) = Within(D.sent)
    BY <2>2, EndedKeeps
  <2> QED
    BY <2>1, <2>3, <1>6
<1>8. /\ Clean(D.q) /\ D.back \cap Within(D.q) = {} /\ D.back \cap Within(D.sent) = {}
      /\ Within(D.sent) \cap Within(D.q) = {}
      /\ D.back \cup Within(D.q) \cup Within(D.sent) = W \cup Brought(n)
  BY <1>6 DEF Sends
<1> HIDE DEF n, W, R
<1>9. W \cup Brought(n) \subseteq ChainBufs /\ (W \cup Brought(n)) \cap AllBufs(out) = {}
      /\ (W \cup Brought(n)) \cap R = {}
  BY <1>3, <1>5 DEF ChainBufs, W
<1>10. Disjoint(out') /\ AllBufs(out') = AllBufs(out) \cup Within(D.sent)
  <2>1. PICK X, Y : X = out /\ Y = ToSet(D.sent)
    OBVIOUS
  <2>2. Disjoint(X) /\ Disjoint(Y) /\ AllBufs(X) \cap AllBufs(Y) = {}
    BY <2>1, <1>3, <1>7, <1>8, <1>9
  <2>3. Disjoint(X \cup Y) /\ AllBufs(X \cup Y) = AllBufs(X) \cup AllBufs(Y)
    BY <2>2, DisjointUnion
  <2> QED
    BY <2>1, <2>3, <1>6, <1>7
<1>11. ChainBufs' = R \cup Within(D.q) \cup AllBufs(out) \cup Within(D.sent)
  BY <1>1, <1>7, <1>10 DEF ChainBufs, R
<1>12. D.back \subseteq ChainBufs /\ ChainBufs' = ChainBufs \ D.back
  <2>1. ChainBufs = R \cup (W \cup Brought(n)) \cup AllBufs(out)
    BY <1>5 DEF ChainBufs, W
  <2> QED
    BY <2>1, <1>8, <1>9, <1>11
<1>13. ChainApart'
  <2>1. Once(cmds') /\ Clean(ch'.q) /\ Data(cmds') = R
    BY <1>1, <1>4, <1>7, <1>8 DEF R
  <2>2. R \cap AllBufs(out) = {}
    BY <1>3, <1>5
  <2>3. /\ R \cap Within(D.q) = {}
        /\ R \cap (AllBufs(out) \cup Within(D.sent)) = {}
        /\ Within(D.q) \cap (AllBufs(out) \cup Within(D.sent)) = {}
    BY <2>2, <1>8, <1>9
  <2> QED
    BY <2>1, <2>3, <1>7, <1>10 DEF ChainApart, Apart
<1>14. UserBufs' = UserBufs /\ UserApart'
  BY <1>1 DEF IInv, UserBufs, UserApart
<1>15. Old'
  BY <1>1, <1>12, <1>14 DEF IInv, Old
<1>16. Counted'
  <2>1. PICK C, P, E : C = ChainBufs /\ P = UserBufs /\ E = C \ D.back
    OBVIOUS
  <2>2. Counts(C, P, st, queued, refs) /\ D.back \subseteq C
    BY <1>12, <2>1 DEF IInv, Counted
  <2>3. Counts(E, P, st, queued', refs')
    BY <2>1, <2>2, <1>6, DoneCounts
  <2> QED
    BY <2>1, <2>3, <1>1, <1>12, <1>14 DEF Counted
<1>17. n.type = "flush" => call.pc = "flushing" /\ call.todo = {}
  BY <1>4 DEF IInv, Flushing, Phase
<1>18. call' \in [pc : Pcs, todo : SUBSET A]
  <2>1. At("active", {}) \in [pc : Pcs, todo : SUBSET A]
    BY DEF At, Pcs
  <2> QED
    BY <2>1, <1>6 DEF IInv, Shape
<1>19. out' \subseteq Super(A)
  BY <1>6, <1>7 DEF IInv, Shape
<1>21. Shape'
  BY <1>1, <1>4, <1>7, <1>18, <1>19 DEF IInv, Shape
<1>22. call.pc \notin Away
  BY <1>1 DEF IInv, Phase
<1>23. Phase'
  <2>1. call' = call \/ (call.pc = "flushing" /\ call.todo = {} /\ call'.pc = "active"
                         /\ call'.todo = {})
    BY <1>6, <1>17 DEF At
  <2>2. ASSUME NEW u \in Streams PROVE PhaseOf(u)'
    <3>1. PhaseOf(u)
      BY DEF IInv, Phase
    <3>2. ChainBufs' \subseteq ChainBufs
      BY <1>12
    <3> QED
      BY <3>1, <3>2, <2>1, <1>1 DEF PhaseOf, Ending
  <2>3. call'.pc \notin Away
    BY <2>1, <1>22 DEF Away
  <2> QED
    BY <2>1, <2>2, <2>3, <1>1 DEF IInv, Phase, Away
<1>24. Bounded'
  <2>1. Cardinality(OtherAt(cmds')) <= Cardinality(OtherAt(cmds))
    BY <1>1, <1>2, <1>4, FewerOthers
  <2>2. Cardinality(OtherAt(cmds')) \in Nat /\ Cardinality(OtherAt(cmds)) \in Nat
    BY <1>1, <1>2, <1>4, OtherFinite
  <2>3. Cardinality(OtherAt(cmds')) <= asked'
    <3>1. Cardinality(OtherAt(cmds)) <= asked /\ asked \in Nat
      BY Naturals4 DEF IInv, Bounded, Shape
    <3> QED
      BY <3>1, <2>1, <2>2, <1>1
  <2>4. ASSUME NEW u \in Streams PROVE Cardinality(FramesIn(u, Data(cmds'))) <= NumBufs
    <3>1. PICK X, Y : X = FramesIn(u, Data(cmds')) /\ Y = FramesIn(u, Data(cmds))
      OBVIOUS
    <3>2. Data(cmds') \subseteq Data(cmds)
      BY <1>1, <1>5 DEF R
    <3>3. Y \in SUBSET Frames /\ X \in SUBSET Y
      BY <3>1, <3>2 DEF FramesIn
    <3>4. IsFiniteSet(Y) /\ Cardinality(Y) \in Nat /\ Cardinality(X) \in Nat
      BY <3>3, FramesFinite
    <3>5. Cardinality(X) <= Cardinality(Y)
      BY <3>3, <3>4, FS_Subset
    <3>6. Cardinality(Y) <= NumBufs
      BY <3>1 DEF IInv, Bounded
    <3> QED
      BY <3>1, <3>4, <3>5, <3>6, Naturals4
  <2> QED
    BY <2>3, <2>4 DEF Bounded
<1>25. Flushing'
  <2>1. ASSUME NEW i \in FlushAt(cmds'), NEW j \in FlushAt(cmds') PROVE i = j
    <3>1. i + 1 \in FlushAt(cmds) /\ j + 1 \in FlushAt(cmds)
      BY <2>1, <1>1, <1>4
    <3>2. i + 1 = j + 1
      BY <3>1 DEF IInv, Flushing
    <3>3. i \in Nat /\ j \in Nat
      <4>1. Len(cmds') \in Nat /\ DOMAIN cmds' = 1 .. Len(cmds')
        BY <1>1, <1>4, LenProperties
      <4> QED
        BY <4>1, <2>1 DEF FlushAt
    <3> QED
      BY <3>2, <3>3
  <2>2. ASSUME NEW i \in FlushAt(cmds') PROVE call'.pc = "flushing"
    <3>1. i + 1 \in FlushAt(cmds) /\ i + 1 # 1
      BY <2>2, <1>1, <1>4
    <3>2. n.type # "flush"
      BY <3>1, <1>4 DEF IInv, Flushing
    <3> QED
      BY <3>1, <3>2, <1>6 DEF IInv, Flushing
  <2> QED
    BY <2>1, <2>2 DEF Flushing
<1> QED
  BY <1>13, <1>14, <1>15, <1>16, <1>21, <1>23, <1>24, <1>25 DEF IInv

-----------------------------------------------------------------------------
(* What the invariant implies. *)

\* The inductive invariant: every buffer outside the kernel has one place on each side
\* that uses it, older than the kernel's next frame, and its references count the sides.
THEOREM Inductive == Spec => []IInv
<1>1. Init => IInv
  BY InitialKeeps
<1>2. IInv /\ [Next]_vars => IInv'
  <2> SUFFICES ASSUME IInv, [Next]_vars PROVE IInv'
    OBVIOUS
  <2>1. CASE Calls
    BY <2>1, AddChannelKeeps, StartChannelKeeps, StartFailsKeeps, StopChannelKeeps,
       DeleteChannelKeeps, RequestKeeps, FlushQueueKeeps DEF Calls
  <2>2. CASE CallSteps
    BY <2>2, StartDoneKeeps, ThreadsJoinKeeps, StartStreamKeeps, StreamOffKeeps,
       StreamJoinKeeps DEF CallSteps
  <2>3. CASE Threads
    BY <2>3, PollAppKeeps, ChannelStepKeeps, AppDispatchKeeps DEF Threads
  <2>4. CASE Returns
    BY <2>4, ReturnSuperKeeps, ReturnFrameKeeps DEF Returns
  <2>5. CASE \E s \in Streams : PollRead(s)
    BY <2>5, PollReadKeeps
  <2>6. CASE UNCHANGED vars
    <3>1. UNCHANGED <<attr, call, st, queued, refs, next, poll, cmds, frames, ch, using, out,
                      asked, starts>>
      BY <2>6 DEF vars
    <3>2. ChainBufs' = ChainBufs /\ UserBufs' = UserBufs
      BY <3>1 DEF ChainBufs, UserBufs
    <3>3. Shape' /\ ChainApart' /\ UserApart' /\ Old' /\ Counted'
      BY <3>1, <3>2 DEF IInv, Shape, ChainApart, UserApart, Old, Counted
    <3>4. Phase'
      <4>1. \A s \in Streams : PhaseOf(s)'
        BY <3>1, <3>2 DEF IInv, Phase, PhaseOf
      <4> QED
        BY <4>1, <3>1 DEF IInv, Phase
    <3>5. Bounded' /\ Flushing'
      BY <3>1, QuietBounds, QuietFlush DEF IInv
    <3> QED
      BY <3>3, <3>4, <3>5 DEF IInv
  <2> QED
    BY <2>1, <2>2, <2>3, <2>4, <2>5, <2>6 DEF Next
<1> QED
  BY <1>1, <1>2, PTL DEF Spec

\* A set of no more than n elements can be numbered up to n.
LEMMA Numbered ==
    ASSUME NEW T, IsFiniteSet(T), NEW n \in Nat, Cardinality(T) <= n
    PROVE  \E g : g \in Injection(T, 1 .. n)
<1>1. Cardinality(T) \in Nat /\ ExistsBijection(1 .. Cardinality(T), T)
  BY FS_CardinalityType
<1>2. ExistsBijection(T, 1 .. Cardinality(T))
  BY <1>1, Fun_ExistsBijSymmetric
<1>3. PICK g : g \in Bijection(T, 1 .. Cardinality(T))
  BY <1>2 DEF ExistsBijection
<1>4. g \in [T -> 1 .. Cardinality(T)] /\ IsInjective(g)
  BY <1>3 DEF Bijection, Injection
<1>5. 1 .. Cardinality(T) \subseteq 1 .. n
  BY <1>1
<1>6. g \in [T -> 1 .. n]
  BY <1>4, <1>5
<1> QED
  BY <1>4, <1>6 DEF Injection

\* The queue holds no more buffers than there are.
LEMMA DataFits ==
    ASSUME NEW A \in SUBSET Streams, NEW cs \in Seq(Cmd(A)), Once(cs),
           \A s \in Streams : Cardinality(FramesIn(s, Data(cs))) <= NumBufs
    PROVE  IsFiniteSet(DataAt(cs))
           /\ Cardinality(DataAt(cs)) <= NumBufs * Cardinality(Streams)
<1> DEFINE h == [s \in Streams |->
                    CHOOSE g : g \in Injection(FramesIn(s, Data(cs)), 1 .. NumBufs)]
           F == [i \in DataAt(cs) |-> <<h[cs[i].s][cs[i].f], cs[i].s>>]
           S == DataAt(cs)
           T == (1 .. NumBufs) \X Streams
<1>1. ASSUME NEW s \in Streams PROVE h[s] \in Injection(FramesIn(s, Data(cs)), 1 .. NumBufs)
  <2>1. FramesIn(s, Data(cs)) \in SUBSET Frames
    BY DEF FramesIn
  <2>2. PICK X : X = FramesIn(s, Data(cs))
    OBVIOUS
  <2>3. IsFiniteSet(X) /\ Cardinality(X) <= NumBufs /\ NumBufs \in Nat
    BY <2>1, <2>2, FramesFinite, Naturals4
  <2>4. \E g : g \in Injection(X, 1 .. NumBufs)
    BY <2>3, Numbered
  <2> QED
    BY <2>2, <2>4
<1> HIDE DEF h
<1>2. \A i \in S : cs[i].s \in Streams /\ cs[i].f \in Frames /\ BufAt(cs, i) \in Data(cs)
                   /\ BufAt(cs, i) = <<cs[i].s, cs[i].f>>
  <2>1. \A i \in DOMAIN cs : cs[i] \in Cmd(A)
    BY LenProperties
  <2> QED
    BY <2>1 DEF DataAt, Data, BufAt, Cmd
<1>3. \A i \in S : cs[i].f \in FramesIn(cs[i].s, Data(cs))
  BY <1>2 DEF FramesIn
<1>4. \A i \in S : h[cs[i].s][cs[i].f] \in 1 .. NumBufs
  BY <1>1, <1>2, <1>3 DEF Injection
<1>5. F \in [S -> T]
  BY <1>2, <1>4
<1>6. ASSUME NEW i \in S, NEW j \in S, F[i] = F[j] PROVE i = j
  <2>1. cs[i].s = cs[j].s /\ h[cs[i].s][cs[i].f] = h[cs[j].s][cs[j].f]
    BY <1>6
  <2>2. PICK s, f, g, X : s = cs[i].s /\ f = cs[i].f /\ g = cs[j].f
                          /\ X = FramesIn(s, Data(cs))
    OBVIOUS
  <2>3. s \in Streams /\ f \in X /\ g \in X /\ h[s][f] = h[s][g]
    BY <2>1, <2>2, <1>2, <1>3
  <2>4. h[s] \in Injection(X, 1 .. NumBufs)
    BY <2>2, <2>3, <1>1
  <2>5. f = g
    BY <2>3, <2>4 DEF Injection, IsInjective
  <2>6. BufAt(cs, i) = BufAt(cs, j)
    BY <2>1, <2>2, <2>5, <1>2
  <2> QED
    BY <2>6 DEF Once
<1>7. F \in Injection(S, T)
  BY <1>5, <1>6 DEF Injection, IsInjective
<1>8. IsFiniteSet(1 .. NumBufs) /\ Cardinality(1 .. NumBufs) = NumBufs
  BY Naturals4, FS_Interval
<1>9. IsFiniteSet(T) /\ Cardinality(T) = NumBufs * Cardinality(Streams)
  BY <1>8, StreamsAssumption, FS_Product
<1> HIDE DEF F, S, T
<1>10. IsFiniteSet(S) /\ Cardinality(S) <= Cardinality(T)
  BY <1>7, <1>9, FS_Injection
<1> QED
  BY <1>9, <1>10 DEF S

LEMMA CommandsFit ==
    ASSUME NEW A \in SUBSET Streams, NEW cs \in Seq(Cmd(A)), Once(cs),
           \A s \in Streams : Cardinality(FramesIn(s, Data(cs))) <= NumBufs,
           Cardinality(OtherAt(cs)) <= MaxRequests
    PROVE  Len(cs) <= NumBufs * Cardinality(Streams) + MaxRequests
<1>1. Len(cs) \in Nat /\ DOMAIN cs = 1 .. Len(cs)
  BY LenProperties
<1>2. Cardinality(DOMAIN cs) = Len(cs) /\ IsFiniteSet(DOMAIN cs)
  BY <1>1, FS_Interval
<1>3. PICK S, T : S = DataAt(cs) /\ T = OtherAt(cs)
  OBVIOUS
<1>4. S \cup T = DOMAIN cs /\ S \cap T = {}
  BY <1>3 DEF OtherAt, DataAt
<1>5. IsFiniteSet(S) /\ Cardinality(S) <= NumBufs * Cardinality(Streams)
  BY <1>3, DataFits
<1>6. IsFiniteSet(T) /\ Cardinality(T) \in Nat /\ Cardinality(T) <= MaxRequests
  BY <1>3, OtherFinite
<1>7. Cardinality(S \cup T) = Cardinality(S) + Cardinality(T) - Cardinality(S \cap T)
  BY <1>5, <1>6, FS_Union
<1>8. Cardinality(S \cap T) = 0 /\ Cardinality(S) \in Nat
  BY <1>4, <1>5, FS_EmptySet, FS_CardinalityType
<1>9. PICK k : k = NumBufs * Cardinality(Streams)
  OBVIOUS
<1>10. k \in Nat
  <2>1. Cardinality(Streams) \in Nat
    BY StreamsAssumption, FS_CardinalityType
  <2> QED
    BY <2>1, <1>9, Naturals4
<1>11. Len(cs) = Cardinality(S) + Cardinality(T) - 0
  BY <1>2, <1>4, <1>7, <1>8
<1>12. Len(cs) <= k + MaxRequests
  BY <1>5, <1>6, <1>8, <1>9, <1>10, <1>11, Naturals4
<1> QED
  BY <1>9, <1>12

\* Every variable keeps its shape.  The command queue of the channel's thread never
\* holds more than the buffers of the streams and the requests made, whatever the
\* streams and however the threads take turns.
THEOREM TypeCorrect == Spec => []TypeOK
<1>1. IInv => TypeOK
  <2> SUFFICES ASSUME IInv PROVE TypeOK
    OBVIOUS
  <2>1. attr.streams \in SUBSET Streams /\ Shape
    BY AttrHasShape DEF IInv
  <2>2. /\ call.pc \in {"none", "added", "stopped", "starting", "undoing", "active", "flushing",
                        "stopping", "failed"}
        /\ call.todo \subseteq attr.streams
    BY <2>1 DEF Shape, Pcs, Away, Ending
  <2>3. queued \in [Streams -> 0 .. NumBufs] /\ refs \in [Streams -> [Frames -> 0 .. 2]]
    <3>1. Counts(ChainBufs, UserBufs, st, queued, refs)
      BY DEF IInv, Counted
    <3>2. queued \in [Streams -> Nat] /\ refs \in [Streams -> [Frames -> 0 .. 2]]
      BY <3>1 DEF Counts
    <3>3. ASSUME NEW s \in Streams PROVE queued[s] \in 0 .. NumBufs
      <4>1. queued[s] \in Nat
        BY <3>2
      <4>2. CASE st[s] = "none"
        <5>1. queued[s] = 0
          BY <3>1, <4>2 DEF Counts
        <5> QED
          BY <5>1, Naturals4
      <4>3. CASE st[s] # "none"
        <5>1. queued[s] + Cardinality(Some(refs, s)) = NumBufs
          BY <3>1, <4>3 DEF Counts, CountsOf
        <5>2. Some(refs, s) \in SUBSET Frames
          BY DEF Some
        <5>3. Cardinality(Some(refs, s)) \in Nat
          BY <5>2, FramesFinite
        <5> QED
          BY <5>1, <5>3, <4>1, Naturals4
      <4> QED
        BY <4>2, <4>3
    <3> QED
      BY <3>2, <3>3
  <2>4. Len(cmds) <= NumBufs * Cardinality(Streams) + MaxRequests
    <3>1. PICK A, cs : A = attr.streams /\ cs = cmds
      OBVIOUS
    <3>2. A \in SUBSET Streams /\ cs \in Seq(Cmd(A)) /\ Once(cs)
      BY <2>1, <3>1 DEF IInv, Shape, ChainApart, Apart
    <3>3. Cardinality(OtherAt(cs)) <= MaxRequests
      <4>1. Cardinality(OtherAt(cs)) <= asked /\ asked \in 0 .. MaxRequests
        BY <3>1 DEF IInv, Bounded, Shape
      <4>2. Cardinality(OtherAt(cs)) \in Nat
        BY <3>2, OtherFinite
      <4> QED
        BY <4>1, <4>2, Naturals4
    <3>4. \A s \in Streams : Cardinality(FramesIn(s, Data(cs))) <= NumBufs
      BY <3>1 DEF IInv, Bounded
    <3> QED
      BY <3>1, <3>2, <3>3, <3>4, CommandsFit
  <2>5. Super(attr.streams) \subseteq SuperBufs
    BY <2>1 DEF Super, SuperBufs, Frames
  <2>6. Keeps(ch, attr.streams, Within(ch.q)) /\ ch.back = {}
    BY <2>1 DEF Shape
  <2>7. ch \in Chan(attr.streams) /\ ch.retro <= ch.pending /\ ch.sent = <<>>
    BY <2>6 DEF Keeps
  <2>8. ch.q \in Seq(Super(attr.streams)) /\ ch.pending \in Nat /\ ch.retro \in 0 .. ch.pending
    BY <2>7 DEF Chan
  <2>9. ToSet(ch.q) \subseteq Super(attr.streams)
    BY <2>8 DEF ToSet
  <2>10. ToSet(ch.q) \cup out \subseteq SuperBufs
    BY <2>1, <2>5, <2>9 DEF Shape
  <2>11. /\ attr \in Attrs \cup {NoAttr}
         /\ st \in [Streams -> {"none", "active", "off"}]
         /\ next \in [Streams -> 1 .. MaxFrame + 1]
         /\ poll \in (Streams \X Frames) \cup {Idle}
         /\ frames \in [Streams -> Seq(Frames)]
         /\ using \in [Streams -> SUBSET Frames]
         /\ asked \in 0 .. MaxRequests /\ starts \in 0 .. MaxStarts
    BY <2>1 DEF Shape
  <2> QED
    BY <2>2, <2>3, <2>4, <2>6, <2>7, <2>8, <2>10, <2>11 DEF TypeOK
<1> QED
  BY <1>1, Inductive, PTL

\* A buffer's reference count is the number of its holders among the poll thread, the
\* two command queues, the superbuffer queue, the callback and the HAL, and a buffer of
\* a running stream is with the kernel if and only if nobody holds it, however the
\* threads, the calls and the buffers given back interleave.
THEOREM ReferencesCorrect == Spec => []BuffersHeld
<1>1. IInv => BuffersHeld
  <2> SUFFICES ASSUME IInv, NEW s \in Streams, st[s] # "none"
               PROVE  /\ \A f \in Frames : refs[s][f] = Holders(s, f)
                      /\ queued[s] + Cardinality({f \in Frames : refs[s][f] > 0}) = NumBufs
    BY DEF BuffersHeld
  <2>1. CountsOf(s, ChainBufs, UserBufs, queued, refs)
    BY DEF IInv, Counted, Counts
  <2>2. ch.q \in Seq(Super(attr.streams))
    BY DEF IInv, Shape, Keeps, Chan
  <2>3. AllBufs(ToSet(ch.q)) = Within(ch.q)
    BY <2>2, WithinIsAll
  <2>4. ASSUME NEW f \in Frames PROVE refs[s][f] = Holders(s, f)
    <3> DEFINE b == <<s, f>>
               data == \E i \in DOMAIN cmds : cmds[i].type = "data" /\ cmds[i].s = s
                                              /\ cmds[i].f = f
    <3>1. refs[s][f] = One(b, ChainBufs) + One(b, UserBufs)
      BY <2>1 DEF CountsOf
    <3>2. data <=> b \in Data(cmds)
      BY DEF Data, DataAt, BufAt
    <3>3. One(b, ChainBufs) = (IF data THEN 1 ELSE 0)
                              + (IF b \in Within(ch.q) THEN 1 ELSE 0)
                              + (IF b \in AllBufs(out) THEN 1 ELSE 0)
      <4> HIDE DEF b, data
      <4>1. /\ ~(b \in Data(cmds) /\ b \in Within(ch.q))
            /\ ~(b \in Data(cmds) /\ b \in AllBufs(out))
            /\ ~(b \in Within(ch.q) /\ b \in AllBufs(out))
        BY DEF IInv, ChainApart, Apart
      <4>2. b \in ChainBufs <=> b \in Data(cmds) \/ b \in Within(ch.q) \/ b \in AllBufs(out)
        BY DEF ChainBufs
      <4> QED
        BY <3>2, <4>1, <4>2 DEF One
    <3>4. b \in UserBufs <=> poll = b \/ f \in ToSet(frames[s]) \/ f \in using[s]
      BY InApp DEF UserBufs
    <3>5. /\ ~(f \in ToSet(frames[s]) /\ f \in using[s])
          /\ poll = b => f \notin ToSet(frames[s]) /\ f \notin using[s]
      BY DEF IInv, UserApart, Single, SingleOf
    <3>6. One(b, UserBufs) = (IF poll = b THEN 1 ELSE 0)
                             + (IF f \in ToSet(frames[s]) THEN 1 ELSE 0)
                             + (IF f \in using[s] THEN 1 ELSE 0)
      BY <3>4, <3>5 DEF One
    <3>7. Holders(s, f) = (IF poll = b THEN 1 ELSE 0) + (IF data THEN 1 ELSE 0)
                          + (IF f \in ToSet(frames[s]) THEN 1 ELSE 0)
                          + (IF f \in using[s] THEN 1 ELSE 0)
                          + (IF b \in Within(ch.q) THEN 1 ELSE 0)
                          + (IF b \in AllBufs(out) THEN 1 ELSE 0)
      BY <2>3 DEF Holders
    <3> HIDE DEF b, data
    <3> QED
      BY <3>1, <3>3, <3>6, <3>7
  <2>5. queued[s] + Cardinality({f \in Frames : refs[s][f] > 0}) = NumBufs
    BY <2>1 DEF CountsOf, Some
  <2> QED
    BY <2>4, <2>5
<1> QED
  BY <1>1, Inductive, PTL


-----------------------------------------------------------------------------
(* The superbuffer queue in order.  In a channel that takes what is closest *)
(* an older superbuffer may become complete after a newer one; where each   *)
(* takes its own frame only, the complete ones come first.                  *)

\* A superbuffer holds its own frame of each stream or none of it, and is complete
\* only with all of them.
Even(x) == \A s \in attr.streams : x.slot[s] \in {0, x.idx} /\ (x.matched => x.slot[s] # 0)

\* The first m superbuffers are complete, the others not, and their numbers grow.
Ranked(q, m) ==
    /\ m \in 0 .. Len(q)
    /\ \A i \in DOMAIN q : Even(q[i]) /\ (q[i].matched <=> i <= m)
    /\ \A i, j \in DOMAIN q : i < j => q[i].idx < q[j].idx
Numbers(q) == {q[i].idx : i \in DOMAIN q}

\* The channel C does not spin, waits only to be asked, and looks for the closest
\* frame only if it is of the kind that does.
Steady(C) ==
    /\ ~C.spins
    /\ attr.notify_mode = "continuous" => ~C.wait
    /\ ~attr.low => C.nomatch_id = 0
\* Its queue is in order, with one incomplete superbuffer too many at most, and
\* none if it has one stream.
Alone == \E s \in Streams : attr.streams = {s}
Sized(C) ==
    /\ Ranked(C.q, C.match_cnt)
    /\ Len(C.q) - C.match_cnt <= attr.max_unmatched + 1
    /\ Alone => C.match_cnt = Len(C.q)
Sound(C) == Steady(C) /\ Sized(C)

\* x put in the place of the superbuffers of q from a to b.
Splice(q, a, b, x) == SubSeq(q, 1, a - 1) \o <<x>> \o SubSeq(q, b + 1, Len(q))
Spliced(q, r, a, b, x) ==
    /\ Len(r) = Len(q) - b + a
    /\ DOMAIN r = 1 .. Len(q) - b + a
    /\ \A i \in 1 .. a - 1 : r[i] = q[i]
    /\ r[a] = x
    /\ \A i \in a + 1 .. Len(q) - b + a : r[i] = q[i - a + b]

LEMMA SpliceAt ==
    ASSUME NEW S, NEW q \in Seq(S), NEW x \in S, NEW a \in Nat, NEW b \in Nat, 1 <= a,
           a <= b + 1, b <= Len(q)
    PROVE  Spliced(q, Splice(q, a, b, x), a, b, x)
<1> DEFINE n == Len(q)
           p == SubSeq(q, 1, a - 1)
           t == SubSeq(q, b + 1, n)
           r == Splice(q, a, b, x)
<1>0. n \in Nat /\ a - 1 \in Nat /\ b + 1 \in Nat
  BY LenProperties
<1>1. p \in Seq(S) /\ Len(p) = a - 1 /\ \A i \in 1 .. a - 1 : p[i] = q[i]
  BY <1>0, Slice
<1>2. t \in Seq(S) /\ Len(t) = n - b /\ \A i \in 1 .. n - b : t[i] = q[i + b]
  <2>1. t \in Seq(S) /\ Len(t) = n - (b + 1) + 1
        /\ \A i \in 1 .. n - (b + 1) + 1 : t[i] = q[(b + 1) + i - 1]
    BY <1>0, Slice
  <2>2. \A i \in 1 .. n - b : (b + 1) + i - 1 = i + b
    BY <1>0
  <2>3. n - (b + 1) + 1 = n - b
    BY <1>0
  <2> QED
    BY <2>1, <2>2, <2>3
<1> HIDE DEF p, t
<1>3. p \o <<x>> \in Seq(S) /\ Len(p \o <<x>>) = a /\ (p \o <<x>>)[a] = x
      /\ \A i \in 1 .. a - 1 : (p \o <<x>>)[i] = p[i]
  <2> DEFINE e == <<x>>
  <2>1. e \in Seq(S) /\ Len(e) = 1 /\ e[1] = x
    OBVIOUS
  <2> HIDE DEF e
  <2>2. /\ p \o e \in Seq(S) /\ Len(p \o e) = Len(p) + Len(e)
        /\ \A i \in 1 .. Len(p) + Len(e) : (p \o e)[i] =
                                          IF i <= Len(p) THEN p[i] ELSE e[i - Len(p)]
    BY <2>1, <1>1, ConcatProperties
  <2>3. Len(p) = a - 1 /\ Len(p) + Len(e) = a /\ a - Len(p) = 1 /\ a \in 1 .. a
    BY <2>1, <1>0, <1>1
  <2>4. (p \o e)[a] = x
    BY <2>1, <2>2, <2>3, <1>0
  <2>5. \A i \in 1 .. a - 1 : (p \o e)[i] = p[i]
    BY <2>2, <2>3, <1>0
  <2> QED
    BY <2>2, <2>3, <2>4, <2>5 DEF e
<1> DEFINE u == p \o <<x>>
<1> HIDE DEF u
<1>4. u \in Seq(S) /\ Len(u) = a /\ u[a] = x /\ \A i \in 1 .. a - 1 : u[i] = p[i]
  BY <1>3 DEF u
<1>5. r = u \o t
  BY DEF Splice, p, t, u
<1> HIDE DEF r
<1>6. r \in Seq(S) /\ Len(r) = a + (n - b)
      /\ (\A i \in 1 .. a : r[i] = u[i])
      /\ \A i \in a + 1 .. a + (n - b) : r[i] = t[i - a]
  <2>1. /\ u \o t \in Seq(S) /\ Len(u \o t) = Len(u) + Len(t)
        /\ \A i \in 1 .. Len(u) + Len(t) : (u \o t)[i] =
                                          IF i <= Len(u) THEN u[i] ELSE t[i - Len(u)]
    BY <1>2, <1>4, ConcatProperties
  <2>2. Len(u) = a /\ Len(u) + Len(t) = a + (n - b) /\ n - b \in Nat
    BY <1>0, <1>2, <1>4
  <2> HIDE DEF n
  <2>3. \A i \in 1 .. a : r[i] = u[i]
    BY <2>1, <2>2, <1>5
  <2>4. \A i \in a + 1 .. a + (n - b) : r[i] = t[i - a]
    BY <2>1, <2>2, <1>5
  <2> QED
    BY <2>1, <2>2, <2>3, <2>4, <1>5
<1>7. DOMAIN r = 1 .. n - b + a /\ Len(r) = n - b + a
  <2>1. a + (n - b) = n - b + a
    BY <1>0
  <2> QED
    BY <2>1, <1>6, LenProperties
<1>8. \A i \in 1 .. a - 1 : r[i] = q[i]
  BY <1>0, <1>1, <1>4, <1>6
<1>9. r[a] = x
  BY <1>0, <1>4, <1>6
<1>10. \A i \in a + 1 .. n - b + a : r[i] = q[i - a + b]
  <2> TAKE i \in a + 1 .. n - b + a
  <2>1. i - a \in 1 .. n - b /\ i \in a + 1 .. a + (n - b)
    BY <1>0
  <2> QED
    BY <2>1, <1>2, <1>6
<1> QED
  BY <1>7, <1>8, <1>9, <1>10 DEF Spliced, r

LEMMA SpliceRanked ==
    ASSUME NEW S, NEW q \in Seq(S), NEW r, NEW m, Ranked(q, m),
           \A i \in DOMAIN q : q[i].idx \in Nat, NEW x, x.idx \in Nat, Even(x),
           x.matched \in BOOLEAN, NEW a \in Nat, NEW b \in Nat, m < a, a <= b + 1, b <= Len(q),
           Spliced(q, r, a, b, x), x.matched => a = m + 1,
           \A i \in 1 .. a - 1 : q[i].idx < x.idx,
           \A i \in b + 1 .. Len(q) : x.idx < q[i].idx
    PROVE  /\ Ranked(r, IF x.matched THEN m + 1 ELSE m)
           /\ Numbers(r) \subseteq Numbers(q) \cup {x.idx}
<1> DEFINE n == Len(q)
           k == IF x.matched THEN m + 1 ELSE m
<1>0. n \in Nat /\ DOMAIN q = 1 .. n /\ m \in 0 .. n /\ 1 <= a
  <2>1. n \in Nat /\ DOMAIN q = 1 .. n /\ m \in 0 .. n
    BY LenProperties DEF Ranked
  <2> QED
    BY <2>1
<1>1. \A i \in 1 .. n : Even(q[i]) /\ (q[i].matched <=> i <= m) /\ q[i].idx \in Nat
  BY <1>0 DEF Ranked
<1>2. \A i, j \in 1 .. n : i < j => q[i].idx < q[j].idx
  BY <1>0 DEF Ranked
<1>3. Len(r) = n - b + a /\ DOMAIN r = 1 .. n - b + a /\ r[a] = x
      /\ (\A i \in 1 .. a - 1 : r[i] = q[i])
      /\ \A i \in a + 1 .. n - b + a : r[i] = q[i - a + b]
  BY DEF Spliced
<1> HIDE DEF n
<1>4. k \in 0 .. Len(r)
  BY <1>0, <1>3 DEF n
<1>5. \A i \in 1 .. a - 1 : i \in 1 .. n /\ q[i].idx < x.idx
  BY <1>0 DEF n
<1>6. \A i \in a + 1 .. n - b + a : i - a + b \in 1 .. n /\ x.idx < q[i - a + b].idx
  <2> TAKE i \in a + 1 .. n - b + a
  <2>1. i - a + b \in 1 .. n /\ i - a + b \in b + 1 .. n
    BY <1>0 DEF n
  <2> QED
    BY <2>1 DEF n
<1>7. ASSUME NEW i \in DOMAIN r
      PROVE  Even(r[i]) /\ (r[i].matched <=> i <= k) /\ r[i].idx \in Numbers(q) \cup {x.idx}
  <2>1. CASE i < a
    <3>1. i \in 1 .. a - 1 /\ i \in 1 .. n /\ r[i] = q[i]
      BY <2>1, <1>0, <1>3 DEF n
    <3>2. i <= k <=> i <= m
      BY <2>1, <3>1, <1>0
    <3> QED
      BY <3>1, <3>2, <1>0, <1>1 DEF Numbers
  <2>2. CASE i = a
    <3>1. a <= k <=> x.matched
      BY <1>0
    <3> QED
      BY <2>2, <3>1, <1>3
  <2>3. CASE i > a
    <3>1. i \in a + 1 .. n - b + a
      BY <2>3, <1>0, <1>3 DEF n
    <3>2. PICK j : j = i - a + b
      OBVIOUS
    <3>3. j \in 1 .. n /\ r[i] = q[j]
      BY <3>1, <3>2, <1>3, <1>6
    <3>4. ~(i <= k) /\ ~(j <= m)
      BY <3>1, <3>2, <1>0
    <3> QED
      BY <3>3, <3>4, <1>0, <1>1 DEF Numbers
  <2>4. i \in Int /\ a \in Int
    BY <1>3
  <2> QED
    BY <2>1, <2>2, <2>3, <2>4
<1>8. ASSUME NEW i \in DOMAIN r, NEW j \in DOMAIN r, i < j
      PROVE  r[i].idx < r[j].idx
  <2>0. i \in 1 .. n - b + a /\ j \in 1 .. n - b + a
    BY <1>3
  <2>1. CASE j < a
    <3>1. i \in 1 .. a - 1 /\ j \in 1 .. a - 1
      BY <2>0, <2>1, <1>8
    <3> QED
      BY <3>1, <1>2, <1>3, <1>5, <1>8
  <2>2. CASE i < a /\ j = a
    <3>1. i \in 1 .. a - 1
      BY <2>0, <2>2
    <3> QED
      BY <3>1, <2>2, <1>3, <1>5
  <2>3. CASE i < a /\ j > a
    <3>1. i \in 1 .. a - 1 /\ j \in a + 1 .. n - b + a
      BY <2>0, <2>3
    <3>2. PICK h : h = j - a + b
      OBVIOUS
    <3>3. h \in 1 .. n /\ r[j] = q[h] /\ x.idx < q[h].idx
      BY <3>1, <3>2, <1>3, <1>6
    <3>4. r[i] = q[i] /\ q[i].idx < x.idx /\ i \in 1 .. n
      BY <3>1, <1>3, <1>5
    <3>5. q[i].idx \in Nat /\ q[h].idx \in Nat
      BY <3>3, <3>4, <1>1
    <3> QED
      BY <3>3, <3>4, <3>5
  <2>4. CASE i = a /\ j > a
    <3>1. j \in a + 1 .. n - b + a
      BY <2>0, <2>4
    <3> QED
      BY <3>1, <2>4, <1>3, <1>6
  <2>5. CASE i > a
    <3>1. i \in a + 1 .. n - b + a /\ j \in a + 1 .. n - b + a
      BY <2>0, <2>5, <1>8
    <3>2. PICK g, h : g = i - a + b /\ h = j - a + b
      OBVIOUS
    <3>3. g \in 1 .. n /\ h \in 1 .. n /\ r[i] = q[g] /\ r[j] = q[h]
      BY <3>1, <3>2, <1>3, <1>6
    <3>4. g < h
      BY <3>1, <3>2, <1>0, <1>8
    <3> QED
      BY <3>3, <3>4, <1>2
  <2> QED
    BY <2>0, <2>1, <2>2, <2>3, <2>4, <2>5, <1>8
<1>9. Ranked(r, k)
  <2> HIDE DEF k
  <2> QED
    BY <1>4, <1>7, <1>8 DEF Ranked
<1>10. Numbers(r) \subseteq Numbers(q) \cup {x.idx}
  BY <1>7 DEF Numbers
<1> QED
  BY <1>9, <1>10

LEMMA WholeCounted ==
    ASSUME NEW S, NEW q \in Seq(S), NEW m, Ranked(q, m)
    PROVE  /\ {i \in DOMAIN q : q[i].matched} = 1 .. m
           /\ DOMAIN q \ (1 .. m) = m + 1 .. Len(q)
           /\ Cardinality(1 .. m) = m /\ Cardinality(m + 1 .. Len(q)) = Len(q) - m
           /\ {i \in DOMAIN q : \A j \in 1 .. i : q[j].matched} = 1 .. m
<1>1. Len(q) \in Nat /\ DOMAIN q = 1 .. Len(q) /\ m \in 0 .. Len(q)
      /\ \A i \in 1 .. Len(q) : q[i].matched <=> i <= m
  BY LenProperties DEF Ranked
<1>2. m \in Nat /\ m <= Len(q)
  BY <1>1
<1>3. {i \in DOMAIN q : q[i].matched} = 1 .. m /\ DOMAIN q \ (1 .. m) = m + 1 .. Len(q)
  BY <1>1
<1>4. Cardinality(1 .. m) = m /\ Cardinality(m + 1 .. Len(q)) = Len(q) - m
  <2>1. PICK a, b : a = m + 1 /\ b = Len(q)
    OBVIOUS
  <2>2. a \in Int /\ b \in Int /\ a <= b + 1
    BY <2>1, <1>1, <1>2
  <2>3. Cardinality(a .. b) = IF a > b THEN 0 ELSE b - a + 1
    BY <2>2, FS_Interval
  <2>4. Cardinality(1 .. m) = IF 1 > m THEN 0 ELSE m - 1 + 1
    BY <1>2, FS_Interval
  <2> QED
    BY <2>1, <2>2, <2>3, <2>4, <1>1, <1>2
<1>5. {i \in DOMAIN q : \A j \in 1 .. i : q[j].matched} = 1 .. m
  <2>1. ASSUME NEW i \in DOMAIN q, \A j \in 1 .. i : q[j].matched PROVE i \in 1 .. m
    BY <2>1, <1>1
  <2>2. ASSUME NEW i \in 1 .. m PROVE i \in DOMAIN q /\ \A j \in 1 .. i : q[j].matched
    BY <2>2, <1>1
  <2> QED
    BY <2>1, <2>2
<1> QED
  BY <1>3, <1>4, <1>5

LEMMA LeadingIsCounted ==
    ASSUME NEW A, NEW C \in Chan(A), Sized(C)
    PROVE  Leading(C) = C.match_cnt /\ C.match_cnt \in 0 .. Len(C.q) /\ Len(C.q) \in Nat
<1>1. C.q \in Seq(Super(A)) /\ Ranked(C.q, C.match_cnt)
  BY DEF Chan, Sized
<1>2. {i \in DOMAIN C.q : \A j \in 1 .. i : C.q[j].matched} = 1 .. C.match_cnt
      /\ Cardinality(1 .. C.match_cnt) = C.match_cnt
  BY <1>1, WholeCounted
<1> QED
  BY <1>1, <1>2, LenProperties DEF Leading, Ranked

LEMMA EmptyRanked == Ranked(<<>>, 0) /\ Numbers(<<>>) = {}
  BY DEF Ranked, Numbers

\* What an operator leaves of a queue.
Fares(C, D) == Sound(D) /\ Numbers(D.q) \subseteq Numbers(C.q)

LEMMA FlushSound ==
    ASSUME attr \in AttrShape, NEW A, NEW C \in Chan(A), Sound(C)
    PROVE  Fares(C, FlushAll(C)) /\ FlushAll(C).q = <<>> /\ FlushAll(C).match_cnt = 0
<1> DEFINE D == FlushAll(C)
           T == {i \in DOMAIN C.q : C.q[i].matched}
<1>1. C.q \in Seq(Super(A)) /\ Ranked(C.q, C.match_cnt) /\ C.match_cnt \in Int
  BY DEF Chan, Sound, Sized
<1>2. Cardinality(T) = C.match_cnt
  BY <1>1, WholeCounted
<1>3. D.q = <<>> /\ D.match_cnt = C.match_cnt - Cardinality(T) /\ D.spins = C.spins
      /\ D.wait = C.wait /\ D.nomatch_id = C.nomatch_id
  BY DEF FlushAll, GiveBack, Chan
<1>4. D.match_cnt = 0
  BY <1>1, <1>2, <1>3
<1>5. Len(D.q) = 0 /\ attr.max_unmatched \in Nat
  BY <1>3 DEF AttrShape
<1>6. Steady(D)
  BY <1>3 DEF Sound, Steady
<1>7. Sized(D)
  BY <1>3, <1>4, <1>5, EmptyRanked DEF Sized
<1> QED
  BY <1>3, <1>4, <1>6, <1>7, EmptyRanked DEF Sound, Fares

\* A channel that differs in no field these speak of.
LEMMA SoundSame ==
    ASSUME NEW C, NEW D, Sound(C), D.q = C.q, D.match_cnt = C.match_cnt,
           D.spins = C.spins, D.wait = C.wait \/ D.wait = FALSE, D.nomatch_id = C.nomatch_id
    PROVE  Fares(C, D)
  BY DEF Fares, Sound, Steady, Sized

LEMMA FaresOn ==
    ASSUME NEW C, NEW D, NEW E, Fares(C, D), Fares(D, E)
    PROVE  Fares(C, E)
  BY DEF Fares

LEMMA MetadataSound ==
    ASSUME NEW A \in SUBSET Streams, NEW B, NEW C, Keeps(C, A, B), Sound(C),
           NEW f \in Frames, NEW info \in Infos, attr \in AttrShape
    PROVE  Fares(C, HandleMetadata(C, f, info))
<1> DEFINE div == IF info.divert = Past THEN 0 ELSE f + info.divert
           D == IF info.divert = Absent THEN C ELSE [C EXCEPT !.diverted_id = div]
           G == [D EXCEPT !.wait = FALSE]
           H == [D EXCEPT !.wait = FALSE, !.expected_id = @ + FutureOffset]
           E == IF info.done = None THEN D ELSE IF info.done = "now" THEN G ELSE FlushAll(H)
           F == IF info.good = Absent THEN E ELSE [E EXCEPT !.expected_id = f + info.good]
<1>1. f \in Int /\ info.done \in {None, "now", "future"}
      /\ info.good \in Nat \cup {Absent} /\ info.divert \in Nat \cup {Absent, Past}
  BY InfosAssumption, FramesAreNatural
<1>2. Absent \in Int /\ Past \in Int /\ FutureOffset \in Int
  BY DEF Absent, Past, FutureOffset
<1>3. HandleMetadata(C, f, info) = F
  <2>1. CASE info.done = None
    BY <2>1 DEF HandleMetadata, None
  <2>2. CASE info.done = "now"
    BY <2>2 DEF HandleMetadata, None
  <2>3. CASE info.done = "future"
    BY <2>3 DEF HandleMetadata, None
  <2> QED
    BY <2>1, <2>2, <2>3, <1>1
<1>4. div \in Int
  BY <1>1, <1>2
<1> HIDE DEF div
<1>5. Keeps(D, A, B)
  BY <1>4 DEF Keeps, Chan
<1>6. D.q = C.q /\ D.match_cnt = C.match_cnt /\ D.spins = C.spins /\ D.wait = C.wait
      /\ D.nomatch_id = C.nomatch_id
  BY DEF Keeps, Chan
<1> HIDE DEF D
<1>7. Keeps(G, A, B) /\ Keeps(H, A, B)
  <2>1. PICK m : m = D.expected_id + FutureOffset
    OBVIOUS
  <2>2. m \in Int
    <3>1. D.expected_id \in Int
      BY <1>5 DEF Keeps, Chan
    <3> QED
      BY <2>1, <3>1, <1>2
  <2>3. Keeps([D EXCEPT !.wait = FALSE, !.expected_id = m], A, B)
    BY <2>2, <1>5 DEF Keeps, Chan
  <2>4. Keeps(G, A, B)
    BY <1>5 DEF Keeps, Chan
  <2> QED
    BY <2>1, <2>3, <2>4
<1>8. /\ G.q = C.q /\ G.match_cnt = C.match_cnt /\ G.spins = C.spins /\ G.wait = FALSE
      /\ G.nomatch_id = C.nomatch_id
      /\ H.q = C.q /\ H.match_cnt = C.match_cnt /\ H.spins = C.spins /\ H.wait = FALSE
      /\ H.nomatch_id = C.nomatch_id
  BY <1>5, <1>6 DEF Keeps, Chan
<1> HIDE DEF G, H
<1>9. Fares(C, D) /\ Fares(C, G) /\ Fares(C, H)
  BY <1>6, <1>8, SoundSame
<1>10. Fares(C, FlushAll(H)) /\ Keeps(FlushAll(H), A, B)
  <2>1. H \in Chan(A) /\ Sound(H)
    BY <1>7, <1>9 DEF Keeps, Fares
  <2>2. Fares(H, FlushAll(H))
    BY <2>1, FlushSound
  <2> QED
    BY <2>2, <1>7, <1>9, FaresOn, FlushKeeps
<1>11. Fares(C, E) /\ Keeps(E, A, B)
  BY <1>5, <1>7, <1>9, <1>10
<1> HIDE DEF E
<1>12. /\ F.q = E.q /\ F.match_cnt = E.match_cnt /\ F.spins = E.spins /\ F.wait = E.wait
       /\ F.nomatch_id = E.nomatch_id
  BY <1>11 DEF Keeps, Chan
<1> HIDE DEF F
<1>13. Fares(E, F)
  BY <1>11, <1>12, SoundSame DEF Fares
<1> QED
  BY <1>3, <1>11, <1>13, FaresOn

\* n complete superbuffers taken from the head.
Cut(q, r, m, n) ==
    /\ Ranked(r, m - n) /\ Numbers(r) \subseteq Numbers(q)
    /\ Len(r) = Len(q) - n
    /\ \A i \in 1 .. n : i \in DOMAIN q /\ q[i].matched /\ Even(q[i])
    /\ \A i \in 1 .. n, j \in DOMAIN r : q[i].idx < r[j].idx
LEMMA CutRanked ==
    ASSUME NEW S, NEW q \in Seq(S), NEW m, Ranked(q, m), NEW n \in 0 .. m,
           NEW r, r = SubSeq(q, n + 1, Len(q))
    PROVE  Cut(q, r, m, n)
<1>1. Len(q) \in Nat /\ DOMAIN q = 1 .. Len(q) /\ m \in 0 .. Len(q)
  BY LenProperties DEF Ranked
<1>2. n \in Nat /\ n <= Len(q) /\ n + 1 \in Nat /\ 1 <= n + 1 /\ n + 1 <= Len(q) + 1
  BY <1>1
<1>3. PICK k, l : k = n + 1 /\ l = Len(q)
  OBVIOUS
<1>4. k \in Nat /\ l \in Nat /\ 1 <= k /\ l <= Len(q) /\ k <= l + 1 /\ l - k + 1 = Len(q) - n
  BY <1>1, <1>2, <1>3
<1>14. /\ Len(r) = Len(q) - n /\ DOMAIN r = 1 .. Len(q) - n
       /\ \A i \in 1 .. Len(q) - n : r[i] = q[k + i - 1]
  <2>1. /\ Len(SubSeq(q, k, l)) = l - k + 1 /\ DOMAIN SubSeq(q, k, l) = 1 .. l - k + 1
        /\ \A i \in 1 .. l - k + 1 : SubSeq(q, k, l)[i] = q[k + i - 1]
    BY <1>4, Slice
  <2> QED
    BY <2>1, <1>3, <1>4
<1>5. \A i \in 1 .. Len(q) - n : r[i] = q[i + n] /\ i + n \in DOMAIN q
  <2> TAKE i \in 1 .. Len(q) - n
  <2>1. k + i - 1 = i + n /\ i + n \in 1 .. Len(q)
    BY <1>1, <1>2, <1>3
  <2> QED
    BY <2>1, <1>1, <1>14
<1>6. \A i \in DOMAIN q : Even(q[i]) /\ (q[i].matched <=> i <= m)
  BY DEF Ranked
<1>7. \A i, j \in DOMAIN q : i < j => q[i].idx < q[j].idx
  BY DEF Ranked
<1>8. \A i \in DOMAIN r : Even(r[i]) /\ (r[i].matched <=> i <= m - n)
  <2> TAKE i \in DOMAIN r
  <2>1. i \in 1 .. Len(q) - n
    BY <1>14
  <2>2. i + n <= m <=> i <= m - n
    BY <2>1, <1>1, <1>2
  <2> QED
    BY <2>1, <2>2, <1>5, <1>6
<1>9. \A i, j \in DOMAIN r : i < j => r[i].idx < r[j].idx
  <2> SUFFICES ASSUME NEW i \in DOMAIN r, NEW j \in DOMAIN r, i < j
               PROVE  r[i].idx < r[j].idx
    OBVIOUS
  <2>1. i \in 1 .. Len(q) - n /\ j \in 1 .. Len(q) - n /\ i + n < j + n
    BY <1>1, <1>2, <1>14
  <2> QED
    BY <2>1, <1>5, <1>7
<1>15. n \in Nat /\ m \in Nat /\ n <= m /\ m <= Len(q)
  BY <1>1
<1>10. m - n \in 0 .. Len(r)
  <2>1. Len(r) = Len(q) - n /\ Len(q) \in Nat
    BY <1>1, <1>14
  <2> QED
    BY <2>1, <1>15
<1>11. Numbers(r) \subseteq Numbers(q)
  BY <1>14, <1>5 DEF Numbers
<1>12. \A i \in 1 .. n : i \in DOMAIN q /\ q[i].matched /\ Even(q[i])
  <2> TAKE i \in 1 .. n
  <2>1. i \in DOMAIN q /\ i <= m
    BY <1>1, <1>2
  <2> QED
    BY <2>1, <1>6
<1>13. \A i \in 1 .. n, j \in DOMAIN r : q[i].idx < r[j].idx
  <2> TAKE i \in 1 .. n, j \in DOMAIN r
  <2>1. j \in 1 .. Len(q) - n /\ i < j + n
    <3>1. j \in 1 .. Len(q) - n
      BY <1>14
    <3> QED
      BY <3>1, <1>1, <1>15
  <2> QED
    BY <2>1, <1>5, <1>7, <1>12
<1> QED
  BY <1>14, <1>8, <1>9, <1>10, <1>11, <1>12, <1>13 DEF Ranked, Cut

LEMMA PopSound ==
    ASSUME NEW A \in SUBSET Streams, NEW B, NEW C, Keeps(C, A, B), Sound(C),
           NEW n \in 0 .. C.match_cnt
    PROVE  /\ Fares(C, Pop(C, n)) /\ Popped(C, Pop(C, n), A, n)
           /\ Pop(C, n).match_cnt = C.match_cnt - n
<1> DEFINE D == Pop(C, n)
<1>1. C \in Chan(A) /\ C.q \in Seq(Super(A)) /\ Ranked(C.q, C.match_cnt)
      /\ C.match_cnt \in Int
  BY DEF Keeps, Chan, Sound, Sized
<1>2. Leading(C) = C.match_cnt /\ Len(C.q) \in Nat /\ C.match_cnt \in 0 .. Len(C.q)
  BY <1>1, LeadingIsCounted DEF Sound
<1>3. Popped(C, D, A, n)
  BY <1>2, PopKeeps
<1>4. D.q = SubSeq(C.q, n + 1, Len(C.q)) /\ D.match_cnt = C.match_cnt - n /\ D.wait = C.wait
  BY <1>3 DEF Popped
<1>5. D.spins = C.spins /\ D.nomatch_id = C.nomatch_id
  BY <1>1 DEF Pop, Chan
<1> HIDE DEF D
<1>6. /\ Ranked(D.q, D.match_cnt) /\ Numbers(D.q) \subseteq Numbers(C.q)
      /\ Len(D.q) = Len(C.q) - n
  <2>1. PICK q, m, r : q = C.q /\ m = C.match_cnt /\ r = D.q
    OBVIOUS
  <2>2. q \in Seq(Super(A)) /\ Ranked(q, m) /\ n \in 0 .. m /\ r = SubSeq(q, n + 1, Len(q))
    BY <2>1, <1>1, <1>4
  <2>4. Cut(q, r, m, n)
    BY <2>2, CutRanked
  <2>3. Ranked(r, m - n) /\ Numbers(r) \subseteq Numbers(q) /\ Len(r) = Len(q) - n
    BY <2>4 DEF Cut
  <2> QED
    BY <2>1, <2>3, <1>4
<1>7. /\ Len(C.q) - C.match_cnt <= attr.max_unmatched + 1
      /\ Alone => C.match_cnt = Len(C.q)
  BY DEF Sound, Sized
<1>8. Len(D.q) - D.match_cnt = Len(C.q) - C.match_cnt
  BY <1>1, <1>2, <1>4, <1>6
<1>9. Sized(D)
  BY <1>1, <1>2, <1>4, <1>6, <1>7, <1>8 DEF Sized
<1>10. Steady(D)
  BY <1>4, <1>5 DEF Sound, Steady
<1> QED
  BY <1>3, <1>4, <1>6, <1>9, <1>10 DEF D, Fares, Sound

LEMMA DropSound ==
    ASSUME NEW A \in SUBSET Streams, NEW B, NEW C, Keeps(C, A, B), Sound(C),
           NEW limit \in Nat
    PROVE  /\ Fares(C, DropTo(C, limit))
           /\ attr.notify_mode # "continuous" => DropTo(C, limit).match_cnt <= limit
<1> DEFINE n == C.match_cnt - limit
<1>1. C \in Chan(A) /\ C.match_cnt \in Int
  BY DEF Keeps, Chan
<1>2. Leading(C) = C.match_cnt /\ C.match_cnt \in Nat
  BY <1>1, LeadingIsCounted DEF Sound
<1>3. CASE attr.notify_mode = "continuous" \/ n <= 0
  BY <1>2, <1>3 DEF DropTo, Fares
<1>4. CASE ~(attr.notify_mode = "continuous" \/ n <= 0)
  <2> DEFINE P == Pop(C, n)
             D == DropTo(C, limit)
  <2>1. n \in 0 .. C.match_cnt /\ ~(n > Leading(C)) /\ C.match_cnt - n = limit
    BY <1>2, <1>4
  <2>2. D = GiveBack(P, AllBufs({C.q[i] : i \in 1 .. n}))
    BY <1>4, <2>1 DEF DropTo
  <2> HIDE DEF n
  <2>7. Fares(C, Pop(C, n)) /\ Popped(C, Pop(C, n), A, n)
        /\ Pop(C, n).match_cnt = C.match_cnt - n
    BY <2>1, PopSound
  <2>3. Fares(C, P) /\ P.match_cnt = limit /\ P \in Chan(A)
    BY <2>1, <2>7 DEF Popped
  <2> HIDE DEF P, D
  <2>4. /\ D.q = P.q /\ D.match_cnt = P.match_cnt /\ D.spins = P.spins /\ D.wait = P.wait
        /\ D.nomatch_id = P.nomatch_id
    BY <2>2, <2>3 DEF GiveBack, Chan
  <2>5. Fares(P, D)
    BY <2>3, <2>4, SoundSame DEF Fares
  <2>6. Fares(C, D) /\ D.match_cnt <= limit
    BY <2>3, <2>4, <2>5, FaresOn
  <2> QED
    BY <2>6 DEF D
<1> QED
  BY <1>3, <1>4

LEMMA RequestedSound ==
    ASSUME NEW A \in SUBSET Streams, NEW B, NEW C, Keeps(C, A, B), Sound(C), NEW n \in Nat,
           NEW retro \in Nat, attr \in AttrShape
    PROVE  Fares(C, Requested(C, n, retro))
<1> DEFINE k == IF n = 0 \/ retro > n THEN n ELSE retro
           D == [C EXCEPT !.pending = n, !.retro = k, !.wait = FALSE]
<1>1. k \in Nat /\ k <= n
  OBVIOUS
<1> HIDE DEF k
<1>2. Keeps(D, A, B)
  BY <1>1 DEF Keeps, Chan
<1>3. D.q = C.q /\ D.match_cnt = C.match_cnt /\ D.spins = C.spins /\ D.wait = FALSE
      /\ D.nomatch_id = C.nomatch_id
  BY DEF Keeps, Chan
<1> HIDE DEF D
<1>4. Fares(C, D)
  BY <1>3, SoundSame
<1>5. attr.look_back \in Nat
  BY DEF AttrShape
<1>6. Fares(D, DropTo(D, attr.look_back))
  BY <1>2, <1>4, <1>5, DropSound DEF Fares
<1>7. Fares(C, DropTo(D, attr.look_back))
  BY <1>4, <1>6, FaresOn
<1> QED
  BY <1>7 DEF Requested, D, k

\* What is sent is complete and older than what stays; a continuous channel keeps
\* nothing complete.
Delivers(C, D) ==
    /\ Fares(C, D) /\ D.match_cnt <= C.match_cnt
    /\ attr.notify_mode = "continuous" => D.match_cnt = 0
    /\ \A x \in ToSet(D.sent) : /\ Even(x) /\ x.matched /\ x.idx \in Numbers(C.q)
                                /\ \A j \in DOMAIN D.q : x.idx < D.q[j].idx

LEMMA DispatchSound ==
    ASSUME NEW A \in SUBSET Streams, NEW B, NEW C, Keeps(C, A, B), Sound(C),
           attr \in AttrShape
    PROVE  Delivers(C, Dispatch(C))
<1> DEFINE burst == attr.notify_mode = "burst"
           limit == IF C.retro > 0 THEN Min({C.retro, C.pending}) ELSE C.pending
           n == IF C.wait THEN 0
                ELSE IF burst THEN Min({limit, Leading(C)}) ELSE Leading(C)
           sent == SubSeq(C.q, 1, n)
           left == [Pop(C, n) EXCEPT !.sent = sent]
           D == Dispatch(C)
<1>1. C \in Chan(A) /\ C.retro \in Nat /\ C.pending \in Nat /\ C.wait \in BOOLEAN
      /\ C.q \in Seq(Super(A)) /\ Ranked(C.q, C.match_cnt) /\ C.match_cnt \in Int
      /\ (attr.notify_mode = "continuous" => ~C.wait)
  BY DEF Keeps, Chan, Sound, Sized, Steady
<1>2. Leading(C) = C.match_cnt /\ C.match_cnt \in Nat /\ C.match_cnt \in 0 .. Len(C.q)
      /\ Len(C.q) \in Nat
  BY <1>1, LeadingIsCounted DEF Sound
<1>3. limit \in Nat
  BY <1>1, LeastOfTwo
<1> HIDE DEF limit
<1>4. n \in 0 .. C.match_cnt /\ (~burst => n = C.match_cnt)
  <2>1. Min({limit, Leading(C)}) \in {limit, Leading(C)}
        /\ Min({limit, Leading(C)}) <= Leading(C)
    BY <1>2, <1>3, LeastOfTwo
  <2>2. ~burst => attr.notify_mode = "continuous"
    BY DEF AttrShape
  <2> QED
    BY <2>1, <2>2, <1>1, <1>2, <1>3
<1>5. D = IF ~burst THEN left
          ELSE [left EXCEPT !.pending = @ - n, !.retro = @ - Min({@, n}),
                            !.wait = @ \/ (n > 0 /\ C.retro = n)]
  BY DEF Dispatch, limit
<1> HIDE DEF n
<1> DEFINE P == Pop(C, n)
<1>6. Fares(C, P) /\ Popped(C, P, A, n) /\ P.match_cnt = C.match_cnt - n
  BY <1>4, PopSound
<1> HIDE DEF P
<1>7. P \in Chan(A) /\ P.q = SubSeq(C.q, n + 1, Len(C.q))
  BY <1>6 DEF Popped
<1> HIDE DEF sent
<1>8. left.q = P.q /\ left.sent = sent /\ left.match_cnt = P.match_cnt
      /\ left.spins = P.spins /\ left.wait = P.wait /\ left.nomatch_id = P.nomatch_id
      /\ DOMAIN left = DOMAIN P
  BY <1>7 DEF P, Chan
<1> HIDE DEF left, D
<1>9. D.q = P.q /\ D.sent = sent /\ D.match_cnt = P.match_cnt /\ D.spins = P.spins
      /\ D.nomatch_id = P.nomatch_id /\ (~burst => D.wait = P.wait)
  <2>1. CASE ~burst
    BY <2>1, <1>5, <1>8
  <2>2. CASE burst
    <3> HIDE DEF burst
    <3> QED
      BY <2>2, <1>5, <1>8
  <2> QED
    BY <2>1, <2>2
<1>10. Fares(C, D)
  <2>1. Sound(P)
    BY <1>6 DEF Fares
  <2>2. Steady(D)
    BY <2>1, <1>9 DEF Sound, Steady, AttrShape
  <2>3. Sized(D)
    BY <2>1, <1>9 DEF Sound, Sized
  <2> QED
    BY <2>2, <2>3, <1>6, <1>9 DEF Sound, Fares
<1>11. D.match_cnt <= C.match_cnt /\ (attr.notify_mode = "continuous" => D.match_cnt = 0)
  BY <1>2, <1>4, <1>6, <1>9
<1>12. Cut(C.q, D.q, C.match_cnt, n)
  <2>1. PICK q, m, r : q = C.q /\ m = C.match_cnt /\ r = D.q
    OBVIOUS
  <2>2. q \in Seq(Super(A)) /\ Ranked(q, m) /\ n \in 0 .. m /\ r = SubSeq(q, n + 1, Len(q))
    BY <2>1, <1>1, <1>4, <1>7, <1>9
  <2>3. Cut(q, r, m, n)
    BY <2>2, CutRanked
  <2> QED
    BY <2>1, <2>3
<1>13. DOMAIN sent = 1 .. n /\ \A i \in 1 .. n : sent[i] = C.q[i]
  <2>1. n \in Nat /\ n <= Len(C.q) /\ 1 <= n + 1
    BY <1>2, <1>4
  <2>2. n - 1 + 1 = n /\ \A i \in 1 .. n : 1 + i - 1 = i
    BY <2>1
  <2>3. DOMAIN sent = 1 .. n - 1 + 1 /\ \A i \in 1 .. n - 1 + 1 : sent[i] = C.q[1 + i - 1]
    BY <2>1, <1>1, Slice DEF sent
  <2> QED
    BY <2>2, <2>3
<1>14. \A x \in ToSet(D.sent) : /\ Even(x) /\ x.matched /\ x.idx \in Numbers(C.q)
                                /\ \A j \in DOMAIN D.q : x.idx < D.q[j].idx
  <2> SUFFICES ASSUME NEW x \in ToSet(sent)
               PROVE  /\ Even(x) /\ x.matched /\ x.idx \in Numbers(C.q)
                      /\ \A j \in DOMAIN D.q : x.idx < D.q[j].idx
    BY <1>9
  <2>1. PICK i \in 1 .. n : x = C.q[i]
    BY <1>13 DEF ToSet
  <2> QED
    BY <2>1, <1>12 DEF Cut, Numbers
<1> QED
  BY <1>10, <1>11, <1>14 DEF Delivers, D

\* A frame f that comes in adds its number at most.
Grows(C, D, f) == Sound(D) /\ Numbers(D.q) \subseteq Numbers(C.q) \cup {f}

LEMMA SameGrows ==
    ASSUME NEW A \in SUBSET Streams, NEW B, NEW C, Keeps(C, A, B), Sound(C), NEW f, NEW bufs
    PROVE  Grows(C, GiveBack(C, bufs), f)
<1> DEFINE D == GiveBack(C, bufs)
<1>1. D.q = C.q /\ D.match_cnt = C.match_cnt /\ D.spins = C.spins /\ D.wait = C.wait
      /\ D.nomatch_id = C.nomatch_id
  BY DEF GiveBack, Keeps, Chan
<1> HIDE DEF D
<1>2. Fares(C, D)
  BY <1>1, SoundSame
<1> QED
  BY <1>2 DEF Fares, Grows, D

\* What Even says of the streams A of the channel.
LEMMA EvenType ==
    ASSUME NEW A, attr.streams = A, NEW S, NEW q \in Seq(S), NEW m, Ranked(q, m)
    PROVE  \A i \in 1 .. Len(q) : /\ \A t \in A : q[i].slot[t] \in {0, q[i].idx}
                                  /\ q[i].matched <=> i <= m
                                  /\ i <= m => \A t \in A : q[i].slot[t] = q[i].idx
<1>1. DOMAIN q = 1 .. Len(q)
  BY LenProperties
<1> QED
  BY <1>1 DEF Ranked, Even

LEMMA JoinSound ==
    ASSUME NEW A \in SUBSET Streams, NEW B, NEW C, Keeps(C, A, B), Sound(C), NEW s \in A,
           NEW f \in Frames, attr \in AttrShape, attr.streams = A,
           NEW hit \in 1 .. Len(C.q), ~C.q[hit].matched, C.q[hit].idx = f
    PROVE  Grows(C, Join(C, s, f, hit), f)
<1> DEFINE q == C.q
           m == C.match_cnt
           x == [q[hit] EXCEPT !.slot[s] = f]
           old == {i \in 1 .. hit - 1 : ~q[i].matched /\ q[i].idx < f}
           older == First(old)
           from == IF older = 0 THEN hit ELSE older
           found == [C EXCEPT !.nomatch_id = 0]
           D == Join(C, s, f, hit)
           whole == [x EXCEPT !.matched = TRUE, !.expected = FALSE]
           part == [x EXCEPT !.expected = @ \/ C.diverted_id = f]
<1>1. C \in Chan(A) /\ q \in Seq(Super(A)) /\ Ranked(q, m) /\ Steady(C)
      /\ Len(q) - m <= attr.max_unmatched + 1 /\ (Alone => m = Len(q))
      /\ m \in Int /\ C.diverted_id \in Int
  BY DEF Keeps, Chan, Sound, Sized
<1>2. Len(q) \in Nat /\ DOMAIN q = 1 .. Len(q) /\ hit \in Nat /\ m \in 0 .. Len(q)
      /\ hit \in DOMAIN q
  BY <1>1, LenProperties DEF Ranked
<1>3. q[hit] \in Super(A) /\ \A i \in DOMAIN q : q[i].idx \in Nat
  <2>1. \A i \in DOMAIN q : q[i] \in Super(A)
    BY <1>1, <1>2
  <2> QED
    BY <2>1, <1>2, FramesAreNatural DEF Super
<1>4. m < hit
  <2>1. ~(hit <= m)
    BY <1>1, <1>2 DEF Ranked
  <2> QED
    BY <2>1, <1>2
<1>5. ~Alone
  BY <1>1, <1>2, <1>4
<1>6. f \in Nat /\ f # 0
  BY FramesAreNatural
<1>7. x.slot \in [A -> 0 .. MaxFrame] /\ x.idx = f /\ ~x.matched
      /\ \A t \in A : x.slot[t] = IF t = s THEN f ELSE q[hit].slot[t]
  BY <1>3 DEF Super, Frames
<1>8. \A t \in A : x.slot[t] \in {0, f}
  BY <1>1, <1>2, <1>7, EvenType
<1>9. found.q = q /\ found.match_cnt = m /\ found.spins = C.spins /\ found.wait = C.wait
      /\ found.nomatch_id = 0 /\ found \in Chan(A)
  <2>1. C \in Chan(A) /\ 0 \in Int
    BY <1>1
  <2>2. found \in Chan(A)
    BY <2>1 DEF Chan
  <2> QED
    BY <1>1, <2>2 DEF Chan
<1>10. D = IF q[hit].slot[s] # 0 THEN GiveBack(found, {<<s, f>>})
           ELSE IF \A t \in DOMAIN x.slot : x.slot[t] # 0 THEN
              GiveBack([found EXCEPT !.q = SubSeq(@, 1, from - 1) \o <<whole>>
                                           \o SubSeq(@, hit + 1, Len(@)),
                                     !.match_cnt = @ + 1,
                                     !.expected_id = f + attr.post_frame_skip],
                       AllBufs({q[i] : i \in from .. hit - 1}))
           ELSE [found EXCEPT !.q[hit] = part, !.diverted_id = IF @ = f THEN 0 ELSE @]
  BY DEF Join
<1> HIDE DEF D, from, part, whole, x
<1>11. (\A t \in DOMAIN x.slot : x.slot[t] # 0) /\ q[hit].slot[s] = 0
       => D = GiveBack([found EXCEPT !.q = Splice(q, from, hit, whole),
                                     !.match_cnt = m + 1,
                                     !.expected_id = f + attr.post_frame_skip],
                     AllBufs({q[i] : i \in from .. hit - 1}))
  BY <1>9, <1>10 DEF Splice
<1>12. q[hit].slot[s] # 0 => D = GiveBack(found, {<<s, f>>})
  BY <1>10
<1>16. (~\A t \in DOMAIN x.slot : x.slot[t] # 0) /\ q[hit].slot[s] = 0
       => D = [found EXCEPT !.q[hit] = part, !.diverted_id = IF @ = f THEN 0 ELSE @]
  BY <1>10
<1>13. CASE q[hit].slot[s] # 0
  <2>1. Sound(found) /\ Numbers(found.q) = Numbers(q)
    BY <1>1, <1>9 DEF Sound, Steady, Sized
  <2> HIDE DEF found
  <2>2. D.q = found.q /\ D.match_cnt = found.match_cnt /\ D.spins = found.spins
        /\ D.wait = found.wait /\ D.nomatch_id = found.nomatch_id
    BY <1>12, <1>13, <1>9 DEF GiveBack, Chan
  <2>3. Fares(found, D)
    BY <2>1, <2>2, SoundSame
  <2> QED
    BY <2>1, <2>3 DEF Fares, Grows, D
<1>14. CASE q[hit].slot[s] = 0 /\ \A t \in DOMAIN x.slot : x.slot[t] # 0
  <2>1. old = m + 1 .. hit - 1
    <3>1. \A i \in 1 .. hit - 1 : i \in DOMAIN q /\ q[i].idx < f /\ (q[i].matched <=> i <= m)
      <4> TAKE i \in 1 .. hit - 1
      <4>1. i \in DOMAIN q /\ i < hit
        BY <1>2
      <4> QED
        BY <4>1, <1>1, <1>2 DEF Ranked
    <3> QED
      BY <3>1, <1>2
  <2>2. from = m + 1
    <3> USE DEF from
    <3>1. old \subseteq Nat
      BY <1>2, <2>1
    <3>2. (old = {} => First(old) = 0)
          /\ (old # {} => First(old) \in old /\ \A k \in old : First(old) <= k)
      <4> HIDE DEF old
      <4> QED
        BY <3>1, FirstFacts
    <3> HIDE DEF old
    <3>3. CASE old = {}
      <4>1. hit = m + 1
        BY <3>3, <2>1, <1>2, <1>4
      <4> QED
        BY <4>1, <3>2, <3>3
    <3>4. CASE old # {}
      <4>1. m + 1 \in old
        BY <3>4, <2>1, <1>2, <1>4
      <4>2. PICK o : o = First(old)
        OBVIOUS
      <4>3. o \in m + 1 .. hit - 1 /\ o <= m + 1
        BY <4>1, <4>2, <3>2, <2>1
      <4>4. o = m + 1
        BY <4>3, <1>2
      <4> QED
        BY <4>2, <4>4, <1>2
    <3> QED
      BY <3>3, <3>4
  <2> HIDE DEF from
  <2>3. whole \in Super(A) /\ whole.idx = f /\ whole.matched = TRUE /\ Even(whole)
    <3>1. DOMAIN x.slot = A
      BY <1>7
    <3>2. whole.slot = x.slot /\ whole.idx = f /\ whole.matched = TRUE
      BY <1>3, <1>7 DEF Super, whole, x
    <3>3. Even(whole)
      BY <3>1, <3>2, <1>8, <1>14 DEF Even
    <3>4. whole \in Super(A)
      BY <1>3, <1>7 DEF Super, whole, x
    <3> QED
      BY <3>2, <3>3, <3>4
  <2> HIDE DEF whole
  <2> DEFINE r == Splice(q, from, hit, whole)
  <2>4. from \in Nat /\ 1 <= from /\ from <= hit + 1 /\ hit <= Len(q) /\ m < from
    BY <2>2, <1>2, <1>4
  <2>5. Spliced(q, r, from, hit, whole)
    BY <2>3, <2>4, <1>1, <1>2, SpliceAt
  <2> HIDE DEF r
  <2>6. \A i \in 1 .. from - 1 : q[i].idx < whole.idx
    <3> TAKE i \in 1 .. from - 1
    <3>1. i \in DOMAIN q /\ i < hit
      BY <2>2, <1>2, <1>4
    <3> QED
      BY <3>1, <2>3, <1>1, <1>2 DEF Ranked
  <2>7. \A i \in hit + 1 .. Len(q) : whole.idx < q[i].idx
    <3> TAKE i \in hit + 1 .. Len(q)
    <3>1. i \in DOMAIN q /\ hit < i
      BY <1>2
    <3> QED
      BY <3>1, <2>3, <1>1, <1>2 DEF Ranked
  <2>8. Ranked(r, m + 1) /\ Numbers(r) \subseteq Numbers(q) \cup {f}
    <3>1. PICK p, k, w, a : p = q /\ k = m /\ w = whole /\ a = from
      OBVIOUS
    <3>2. /\ p \in Seq(Super(A)) /\ Ranked(p, k) /\ (\A i \in DOMAIN p : p[i].idx \in Nat)
          /\ w.idx \in Nat /\ Even(w) /\ w.matched \in BOOLEAN /\ a \in Nat /\ k < a
          /\ a <= hit + 1 /\ hit <= Len(p) /\ Spliced(p, r, a, hit, w)
          /\ (w.matched => a = k + 1) /\ (\A i \in 1 .. a - 1 : p[i].idx < w.idx)
          /\ \A i \in hit + 1 .. Len(p) : w.idx < p[i].idx
      BY <3>1, <2>2, <2>3, <2>4, <2>5, <2>6, <2>7, <1>1, <1>2, <1>3, <1>6
    <3>3. Ranked(r, IF w.matched THEN k + 1 ELSE k) /\ Numbers(r) \subseteq Numbers(p) \cup {w.idx}
      <4> HIDE DEF q, m
      <4> QED
        BY <3>2, <1>2, SpliceRanked
    <3> QED
      BY <3>1, <3>3, <2>3
  <2>9. Len(r) = Len(q) - hit + (m + 1)
    BY <2>2, <2>5 DEF Spliced
  <2>10. D.q = r /\ D.match_cnt = m + 1 /\ D.spins = C.spins /\ D.wait = C.wait
         /\ D.nomatch_id = 0
    BY <1>9, <1>11, <1>14 DEF GiveBack, Chan, r
  <2>11. Len(r) - (m + 1) <= attr.max_unmatched + 1
    <3>1. PICK l, u, n, k : l = Len(q) /\ u = attr.max_unmatched + 1 /\ n = Len(r) /\ k = m
      OBVIOUS
    <3>2. l \in Nat /\ u \in Int /\ k \in Int /\ hit \in Int
      BY <3>1, <1>1, <1>2 DEF AttrShape
    <3>3. l - k <= u /\ n = l - hit + (k + 1) /\ k + 1 <= hit
      BY <3>1, <2>9, <1>1, <1>2, <1>4
    <3>4. n - (k + 1) <= u
      BY <3>2, <3>3
    <3> QED
      BY <3>1, <3>4
  <2> HIDE DEF q, m
  <2>12. Sized(D)
    BY <2>8, <2>10, <2>11, <1>5 DEF Sized
  <2>13. Steady(D)
    BY <2>10, <1>1 DEF Steady
  <2> QED
    BY <2>8, <2>10, <2>12, <2>13 DEF Grows, Sound, D, q
<1>15. CASE q[hit].slot[s] = 0 /\ ~\A t \in DOMAIN x.slot : x.slot[t] # 0
  <2>1. part \in Super(A) /\ part.idx = f /\ part.matched = FALSE /\ Even(part)
    <3>1. part.slot = x.slot /\ part.idx = f /\ part.matched = FALSE
      BY <1>3, <1>7 DEF Super, part, x
    <3>2. Even(part)
      BY <3>1, <1>8 DEF Even
    <3>3. part \in Super(A)
      BY <1>3, <1>7 DEF Super, part, x
    <3> QED
      BY <3>1, <3>2, <3>3
  <2> HIDE DEF part
  <2> DEFINE r == [q EXCEPT ![hit] = part]
  <2>2. DOMAIN r = DOMAIN q /\ Len(r) = Len(q) /\ r \in Seq(Super(A))
        /\ \A i \in DOMAIN q : r[i] = IF i = hit THEN part ELSE q[i]
    BY <2>1, <1>1, <1>2, ExceptSeq
  <2> HIDE DEF r
  <2>3. D.q = r /\ D.match_cnt = m /\ D.spins = C.spins /\ D.wait = C.wait
        /\ D.nomatch_id = 0
    <3>1. PICK d : d = IF found.diverted_id = f THEN 0 ELSE found.diverted_id
      OBVIOUS
    <3>2. D = [found EXCEPT !.q[hit] = part, !.diverted_id = d]
      BY <3>1, <1>9, <1>15, <1>16 DEF Chan
    <3> HIDE DEF found
    <3>3. D = [found EXCEPT !.q = r, !.diverted_id = d]
      BY <3>2, <1>9 DEF r
    <3> QED
      BY <3>3, <1>9 DEF Chan
  <2>4. Ranked(r, m)
    <3>1. \A i \in DOMAIN q : r[i].idx = q[i].idx
      BY <2>1, <2>2
    <3>2. \A i \in DOMAIN q : Even(r[i]) /\ (r[i].matched <=> i <= m)
      <4>1. ~(hit <= m)
        BY <1>2, <1>4
      <4> QED
        BY <4>1, <2>1, <2>2, <1>1 DEF Ranked
    <3> QED
      BY <3>1, <3>2, <2>2, <1>1 DEF Ranked
  <2>5. Numbers(r) \subseteq Numbers(q) \cup {f}
    BY <2>1, <2>2 DEF Numbers
  <2> HIDE DEF q, m
  <2>6. Sized(D)
    BY <2>2, <2>3, <2>4, <1>1 DEF Sized
  <2>7. Steady(D)
    BY <2>3, <1>1 DEF Steady
  <2> QED
    BY <2>3, <2>5, <2>6, <2>7 DEF Grows, Sound, D, q
<1> QED
  BY <1>13, <1>14, <1>15 DEF D

LEMMA RemoveRanked ==
    ASSUME NEW S, NEW q \in Seq(S), NEW m, Ranked(q, m), NEW v \in 1 .. Len(q), m < v
    PROVE  /\ Ranked(RemoveAt(q, v), m) /\ Numbers(RemoveAt(q, v)) \subseteq Numbers(q)
           /\ Len(RemoveAt(q, v)) = Len(q) - 1
<1> DEFINE a == SubSeq(q, 1, v - 1)
           b == SubSeq(q, v + 1, Len(q))
           n == Len(q)
           r == RemoveAt(q, v)
<1>0. n \in Nat /\ v - 1 \in Nat /\ v + 1 \in Nat /\ m \in 0 .. n
  BY LenProperties DEF Ranked
<1>1. a \in Seq(S) /\ Len(a) = v - 1 /\ \A i \in 1 .. v - 1 : a[i] = q[i]
  BY <1>0, Slice
<1>2. b \in Seq(S) /\ Len(b) = n - v /\ \A i \in 1 .. n - v : b[i] = q[i + v]
  <2>1. b \in Seq(S) /\ Len(b) = n - (v + 1) + 1
        /\ \A i \in 1 .. n - (v + 1) + 1 : b[i] = q[(v + 1) + i - 1]
    BY <1>0, Slice
  <2>2. \A i \in 1 .. n - v : (v + 1) + i - 1 = i + v
    BY <1>0
  <2>3. n - (v + 1) + 1 = n - v
    BY <1>0
  <2> QED
    BY <2>1, <2>2, <2>3
<1>3. r = a \o b
  BY DEF RemoveAt
<1> HIDE DEF a, b, r
<1>4. /\ r \in Seq(S) /\ Len(r) = Len(a) + Len(b)
      /\ \A i \in 1 .. Len(a) + Len(b) : r[i] =
                                   IF i <= Len(a) THEN a[i] ELSE b[i - Len(a)]
  BY <1>1, <1>2, <1>3, ConcatProperties
<1>5. Len(r) = n - 1 /\ DOMAIN r = 1 .. n - 1 /\ Len(a) + Len(b) = n - 1
  <2>1. Len(a) + Len(b) = n - 1
    BY <1>0, <1>1, <1>2
  <2> QED
    BY <2>1, <1>4, LenProperties
<1>6. \A i \in 1 .. n - 1 : IF i < v THEN r[i] = q[i] ELSE r[i] = q[i + 1]
  <2> TAKE i \in 1 .. n - 1
  <2>1. CASE i < v
    <3>1. i <= Len(a) /\ i \in 1 .. v - 1
      BY <2>1, <1>0, <1>1
    <3> QED
      BY <3>1, <2>1, <1>1, <1>4, <1>5
  <2>2. CASE ~(i < v)
    <3>1. PICK k : k = i - Len(a)
      OBVIOUS
    <3>2. ~(i <= Len(a)) /\ k \in 1 .. n - v /\ k + v = i + 1
      BY <2>2, <3>1, <1>0, <1>1
    <3> QED
      BY <3>1, <3>2, <2>2, <1>2, <1>4, <1>5
  <2> QED
    BY <2>1, <2>2
<1>7. DOMAIN q = 1 .. n
  BY LenProperties
<1>8. \A i \in 1 .. n : Even(q[i]) /\ (q[i].matched <=> i <= m)
  BY <1>7 DEF Ranked
<1>9. \A i, j \in 1 .. n : i < j => q[i].idx < q[j].idx
  BY <1>7 DEF Ranked
<1> HIDE DEF n
<1>10. \A i \in DOMAIN r : /\ Even(r[i]) /\ (r[i].matched <=> i <= m)
                           /\ r[i].idx \in Numbers(q)
  <2> TAKE i \in DOMAIN r
  <2>0. i \in 1 .. n - 1 /\ v \in Nat
    BY <1>5
  <2>1. CASE i < v
    <3>1. i \in 1 .. n /\ r[i] = q[i]
      BY <2>0, <2>1, <1>0, <1>6
    <3> QED
      BY <3>1, <1>7, <1>8 DEF Numbers
  <2>2. CASE ~(i < v)
    <3>1. i + 1 \in 1 .. n /\ r[i] = q[i + 1] /\ ~(i <= m) /\ ~(i + 1 <= m)
      BY <2>0, <2>2, <1>0, <1>6
    <3> QED
      BY <3>1, <1>7, <1>8 DEF Numbers
  <2> QED
    BY <2>1, <2>2
<1>11. ASSUME NEW i \in DOMAIN r, NEW j \in DOMAIN r, i < j PROVE r[i].idx < r[j].idx
  <2>0. i \in 1 .. n - 1 /\ j \in 1 .. n - 1 /\ v \in Nat
    BY <1>5
  <2>1. PICK g, h : g = (IF i < v THEN i ELSE i + 1) /\ h = (IF j < v THEN j ELSE j + 1)
    OBVIOUS
  <2>2. g \in 1 .. n /\ h \in 1 .. n /\ g < h
    BY <2>0, <2>1, <1>0, <1>11
  <2>3. r[i] = q[g] /\ r[j] = q[h]
    BY <2>0, <2>1, <1>6
  <2> QED
    BY <2>2, <2>3, <1>9
<1>12. m \in 0 .. Len(r)
  <2>1. v \in 1 .. n
    BY DEF n
  <2> QED
    BY <2>1, <1>0, <1>5
<1>13. Ranked(r, m)
  BY <1>10, <1>11, <1>12 DEF Ranked
<1>14. Numbers(r) \subseteq Numbers(q)
  BY <1>10 DEF Numbers
<1> QED
  BY <1>5, <1>13, <1>14 DEF r, n

LEMMA InsertSound ==
    ASSUME NEW A \in SUBSET Streams, NEW B, NEW C, Keeps(C, A, B), Sound(C), NEW s \in A,
           NEW f \in Frames, attr \in AttrShape, attr.streams = A,
           \A g \in Frames : <<s, g>> \in Within(C.q) => g < f,
           \A i \in DOMAIN C.q : C.q[i].matched \/ C.q[i].idx # f
    PROVE  Grows(C, Insert(C, s, f), f)
<1> DEFINE q == C.q
           m == C.match_cnt
           len == Len(C.q)
           loose == {i \in DOMAIN C.q : ~C.q[i].matched}
           below == {i \in loose : C.q[i].idx < f}
           above == {i \in loose : C.q[i].idx > f}
           older == First(below)
           newer == First(above)
           at == IF newer = 0 THEN len + 1 ELSE newer
           full == Cardinality(loose) > attr.max_unmatched
           spare == {i \in older .. len : ~C.q[i].expected /\ i # newer}
           victim == IF spare = {} THEN older ELSE Min(spare)
           alone == attr.streams = {s}
           marked == ~alone /\ C.diverted_id = f
           x == [idx |-> f, slot |-> [t \in attr.streams |-> IF t = s THEN f ELSE 0],
                 matched |-> alone, expected |-> marked]
           placed == [C EXCEPT
            !.q = InsertAt(@, at, x),
            !.diverted_id = IF @ = f THEN 0 ELSE @,
            !.match_cnt = IF alone THEN @ + 1 ELSE @,
            !.expected_id = IF alone THEN f + attr.post_frame_skip ELSE @,
            !.nomatch_id = IF attr.low /\ s # Meta THEN f ELSE @]
           removed == GiveBack([placed EXCEPT
                          !.q = RemoveAt(@, IF victim < at THEN victim ELSE victim + 1)],
                        Bufs(C.q[victim]))
           D == Insert(C, s, f)
           M == IF alone THEN m + 1 ELSE m
<1>1. C \in Chan(A) /\ q \in Seq(Super(A)) /\ Ranked(q, m) /\ Steady(C)
      /\ Len(q) - m <= attr.max_unmatched + 1 /\ (Alone => m = Len(q))
      /\ m \in Int /\ C.diverted_id \in Int /\ attr.max_unmatched \in Nat
  BY DEF Keeps, Chan, Sound, Sized, AttrShape
<1>2. len \in Nat /\ DOMAIN q = 1 .. len /\ m \in 0 .. len /\ m \in Nat
  BY <1>1, LenProperties DEF Ranked
<1>3. \A i \in 1 .. len : q[i] \in Super(A) /\ q[i].idx \in Nat /\ q[i].idx \in Frames
  <2>1. \A i \in 1 .. len : q[i] \in Super(A)
    BY <1>1, <1>2
  <2> QED
    BY <2>1, FramesAreNatural DEF Super
<1>4. f \in Nat /\ f # 0
  BY FramesAreNatural
<1>5. \A i \in 1 .. len : q[i].matched <=> i <= m
  BY <1>1, <1>2 DEF Ranked
<1>6. \A i, j \in 1 .. len : i < j => q[i].idx < q[j].idx
  BY <1>1, <1>2 DEF Ranked
<1>7. \A i \in 1 .. m : i \in 1 .. len /\ q[i].idx < f
  <2> TAKE i \in 1 .. m
  <2>1. i \in 1 .. len /\ i <= m
    BY <1>2
  <2>2. q[i].slot[s] = q[i].idx
    BY <2>1, <1>1, EvenType
  <2>3. q[i].slot[s] # 0 /\ q[i].slot \in [A -> 0 .. MaxFrame]
    BY <2>1, <2>2, <1>3, FramesAreNatural DEF Super
  <2>4. <<s, q[i].idx>> \in Bufs(q[i])
    BY <2>2, <2>3 DEF Bufs
  <2>5. <<s, q[i].idx>> \in Within(q)
    BY <2>1, <2>4, <1>2 DEF Within
  <2> QED
    BY <2>1, <2>5, <1>3
<1>8. loose = m + 1 .. len /\ Cardinality(loose) = len - m
  <2>1. DOMAIN q \ (1 .. m) = m + 1 .. Len(q) /\ {i \in DOMAIN q : q[i].matched} = 1 .. m
        /\ Cardinality(m + 1 .. Len(q)) = Len(q) - m
    BY <1>1, WholeCounted
  <2>2. loose = DOMAIN q \ {i \in DOMAIN q : q[i].matched}
    OBVIOUS
  <2> QED
    BY <2>1, <2>2
<1>9. (alone => Alone) /\ (Alone => alone)
  BY DEF Alone
<1>10. below \subseteq Nat /\ above \subseteq Nat /\ below \subseteq loose
       /\ above \subseteq loose
  BY <1>2
<1>11. /\ older = 0 \/ older \in loose
       /\ newer = 0 => above = {}
       /\ newer # 0 => newer \in above /\ \A k \in above : newer <= k
  <2>1. /\ below = {} => older = 0
        /\ below # {} => older \in below
    <3> HIDE DEF below
    <3> QED
      BY <1>10, FirstFacts
  <2>2. /\ above = {} => newer = 0
        /\ above # {} => newer \in above /\ \A k \in above : newer <= k
    <3> HIDE DEF above
    <3> QED
      BY <1>10, FirstFacts
  <2>3. 0 \notin above
    BY <1>2
  <2> HIDE DEF below, above, older, newer
  <2> QED
    BY <2>1, <2>2, <2>3, <1>10
<1> HIDE DEF older, newer
<1>12. at \in 1 .. len + 1 /\ m < at /\ at \in Nat
  BY <1>2, <1>8, <1>11
<1>13. \A i \in 1 .. at - 1 : i \in 1 .. len /\ q[i].idx < f
  <2> TAKE i \in 1 .. at - 1
  <2>1. i \in 1 .. len /\ i < at
    BY <1>2, <1>12
  <2>2. CASE i <= m
    BY <2>1, <2>2, <1>2, <1>7
  <2>3. CASE ~(i <= m)
    <3>1. ~q[i].matched /\ q[i].idx # f /\ i \in loose
      BY <2>1, <2>3, <1>2, <1>5
    <3>2. ~(q[i].idx > f)
      <4>1. SUFFICES ASSUME q[i].idx > f PROVE FALSE
        OBVIOUS
      <4>2. i \in above
        BY <3>1, <4>1
      <4> QED
        BY <4>2, <2>1, <1>11, <1>12
    <3> QED
      BY <2>1, <3>1, <3>2, <1>3, <1>4
  <2> QED
    BY <2>2, <2>3
<1>14. \A i \in at .. len : f < q[i].idx
  <2> TAKE i \in at .. len
  <2>1. newer # 0 /\ at = newer /\ i \in 1 .. len
    BY <1>2, <1>12
  <2>2. newer \in 1 .. len /\ f < q[newer].idx
    BY <2>1, <1>2, <1>11
  <2>3. CASE i = newer
    BY <2>2, <2>3
  <2>4. CASE i # newer
    <3>1. newer < i
      BY <2>1, <2>4, <1>12
    <3>2. q[newer].idx < q[i].idx
      BY <3>1, <2>1, <2>2, <1>6
    <3> QED
      BY <3>2, <2>1, <2>2, <1>3, <1>4
  <2> QED
    BY <2>3, <2>4
<1>15. x \in Super(A) /\ x.idx = f /\ x.matched = alone /\ Even(x)
  <2>1. alone \in BOOLEAN /\ marked \in BOOLEAN
    OBVIOUS
  <2>2. x = [idx |-> f, slot |-> [t \in A |-> IF t = s THEN f ELSE 0],
             matched |-> alone, expected |-> marked]
    OBVIOUS
  <2>3. alone <=> A = {s}
    OBVIOUS
  <2> HIDE DEF x, alone, marked
  <2>4. x \in Super(A) /\ x.idx = f /\ x.matched = alone
    BY <2>1, <2>2, FirstBuf
  <2>5. \A t \in A : x.slot[t] = IF t = s THEN f ELSE 0
    BY <2>2
  <2> QED
    BY <2>3, <2>4, <2>5, <1>4 DEF Even
<1>16. D = IF ~full THEN placed
           ELSE IF older = 0 THEN GiveBack(C, {<<s, f>>}) ELSE removed
  BY DEF Insert, older, newer
<1>17. older # 0 => victim \in m + 1 .. len
  <2> SUFFICES ASSUME older # 0 PROVE victim \in m + 1 .. len
    OBVIOUS
  <2>1. older \in m + 1 .. len
    BY <1>8, <1>11
  <2>2. spare \subseteq m + 1 .. len /\ spare \subseteq Nat
    BY <2>1, <1>2
  <2>3. spare # {} => Min(spare) \in spare
    <3> HIDE DEF spare
    <3> QED
      BY <2>2, MinFacts
  <2> HIDE DEF spare
  <2> QED
    BY <2>1, <2>2, <2>3
<1>18. full <=> len - m > attr.max_unmatched
  BY <1>8
<1>19. alone => at = m + 1
  <2>1. Alone => m = len
    BY <1>1
  <2> QED
    BY <2>1, <1>2, <1>9, <1>12
<1> DEFINE r == InsertAt(q, at, x)
<1> HIDE DEF at, x, full, spare, victim, D, loose, below, above, alone
<1>20. Spliced(q, r, at, at - 1, x)
  <2>1. PICK b : b = at - 1
    OBVIOUS
  <2>2. b \in Nat /\ at <= b + 1 /\ b <= len /\ 1 <= at /\ b + 1 = at
    BY <2>1, <1>2, <1>12
  <2>3. r = Splice(q, at, b, x)
    BY <2>1, <2>2 DEF InsertAt, Splice
  <2>4. Spliced(q, Splice(q, at, b, x), at, b, x)
    <3> HIDE DEF q
    <3> QED
      BY <2>2, <1>1, <1>12, <1>15, SpliceAt DEF q
  <2> QED
    BY <2>1, <2>3, <2>4
<1> HIDE DEF r
<1>21. Ranked(r, M) /\ Numbers(r) \subseteq Numbers(q) \cup {f} /\ Len(r) = len + 1
  <2>1. PICK b : b = at - 1
    OBVIOUS
  <2>2. b \in Nat /\ at <= b + 1 /\ b <= len /\ 1 <= at /\ b + 1 = at
    BY <2>1, <1>2, <1>12
  <2>3. PICK p, k : p = q /\ k = m
    OBVIOUS
  <2>4. /\ p \in Seq(Super(A)) /\ Ranked(p, k) /\ (\A i \in DOMAIN p : p[i].idx \in Nat)
        /\ x.idx \in Nat /\ Even(x) /\ x.matched \in BOOLEAN /\ at \in Nat /\ k < at
        /\ at <= b + 1 /\ b <= Len(p) /\ Spliced(p, r, at, b, x)
        /\ (x.matched => at = k + 1) /\ (\A i \in 1 .. at - 1 : p[i].idx < x.idx)
        /\ \A i \in b + 1 .. Len(p) : x.idx < p[i].idx
    <3>1. x.idx \in Nat /\ Even(x) /\ x.matched \in BOOLEAN /\ (x.matched => at = m + 1)
      BY <1>4, <1>15, <1>19 DEF alone
    <3>2. \A i \in b + 1 .. len : x.idx < q[i].idx
      BY <2>2, <1>14, <1>15
    <3>3. \A i \in 1 .. at - 1 : q[i].idx < x.idx
      BY <1>13, <1>15
    <3> QED
      BY <2>1, <2>2, <2>3, <3>1, <3>2, <3>3, <1>1, <1>2, <1>3, <1>12, <1>20
  <2>5. Ranked(r, IF x.matched THEN k + 1 ELSE k) /\ Numbers(r) \subseteq Numbers(p) \cup {x.idx}
    <3> HIDE DEF q, m
    <3> QED
      BY <2>2, <2>4, SpliceRanked
  <2>6. Len(r) = len - b + at
    BY <2>3, <2>4 DEF Spliced
  <2> QED
    BY <2>2, <2>3, <2>5, <2>6, <1>2, <1>15
<1>22. r \in Seq(Super(A))
  <2>1. <<s, f>> \notin Within(q) /\ Clean(q)
    BY <1>4 DEF Keeps
  <2>2. Bufs(x) \cap Within(q) = {}
    <3>1. Bufs(x) = {<<s, f>>}
      <4>1. PICK e, k : e = marked /\ k = alone
        OBVIOUS
      <4>2. e \in BOOLEAN /\ k \in BOOLEAN
            /\ x = [idx |-> f, slot |-> [t \in A |-> IF t = s THEN f ELSE 0],
                    matched |-> k, expected |-> e]
        BY <4>1 DEF x, alone
      <4> QED
        BY <4>2, FirstBuf
    <3> QED
      BY <2>1, <3>1
  <2>3. at \in 1 .. Len(q) + 1
    BY <1>12
  <2>4. InsertAt(q, at, x) \in Queue(Super(A), Within(q) \cup Bufs(x))
    <3> HIDE DEF q
    <3> QED
      BY <2>1, <2>2, <2>3, <1>1, <1>15, InsertQueue
  <2> QED
    BY <2>4 DEF Queue, r
<1>23. placed.q = r /\ placed.match_cnt = M /\ placed.spins = C.spins
       /\ placed.wait = C.wait
       /\ placed.nomatch_id = (IF attr.low /\ s # Meta THEN f ELSE C.nomatch_id)
       /\ placed.back = C.back /\ DOMAIN placed = DOMAIN C
  BY <1>1 DEF Chan, r
<1>24. Steady(placed)
  <2> HIDE DEF placed
  <2> QED
    BY <1>1, <1>23 DEF Steady
<1>25. ~full => Grows(C, placed, f)
  <2>1. SUFFICES ASSUME ~full PROVE Grows(C, placed, f)
    OBVIOUS
  <2>2. len - m <= attr.max_unmatched
    BY <2>1, <1>1, <1>2, <1>18
  <2>3. Len(r) - M <= attr.max_unmatched + 1
    BY <2>2, <1>1, <1>2, <1>21
  <2>4. Alone => M = Len(r)
    BY <1>1, <1>2, <1>9, <1>21 DEF alone
  <2> HIDE DEF placed, M
  <2>5. Sized(placed)
    BY <2>3, <2>4, <1>21, <1>23 DEF Sized
  <2> QED
    BY <2>5, <1>21, <1>23, <1>24 DEF Grows, Sound
<1>26. full /\ older # 0 => Grows(C, removed, f)
  <2>1. SUFFICES ASSUME full, older # 0 PROVE Grows(C, removed, f)
    OBVIOUS
  <2>2. ~Alone /\ ~alone /\ M = m
    BY <2>1, <1>1, <1>2, <1>9, <1>18
  <2>3. PICK v : v = IF victim < at THEN victim ELSE victim + 1
    OBVIOUS
  <2>4. v \in 1 .. Len(r) /\ m < v
    BY <2>1, <2>3, <1>2, <1>17, <1>21
  <2> DEFINE p == RemoveAt(r, v)
  <2>5. Ranked(p, m) /\ Numbers(p) \subseteq Numbers(r) /\ Len(p) = Len(r) - 1
    <3>1. Ranked(r, m)
      BY <2>2, <1>21
    <3>2. PICK k : k = m
      OBVIOUS
    <3> HIDE DEF m
    <3>3. Ranked(RemoveAt(r, v), k) /\ Numbers(RemoveAt(r, v)) \subseteq Numbers(r)
          /\ Len(RemoveAt(r, v)) = Len(r) - 1
      BY <3>1, <3>2, <2>4, <1>22, RemoveRanked
    <3> QED
      BY <3>2, <3>3
  <2>6. removed = GiveBack([placed EXCEPT !.q = RemoveAt(placed.q, v)], Bufs(C.q[victim]))
    BY <2>3, <1>1 DEF Chan
  <2> HIDE DEF removed, placed, p, M, q, m, len
  <2>7. removed.q = p /\ removed.match_cnt = m /\ removed.spins = C.spins
        /\ removed.wait = C.wait /\ removed.nomatch_id = placed.nomatch_id
    BY <2>2, <2>6, <1>1, <1>23 DEF GiveBack, Chan, p
  <2>8. Len(p) - m <= attr.max_unmatched + 1
    BY <2>5, <1>1, <1>2, <1>21 DEF len, q
  <2>9. Sized(removed)
    BY <2>2, <2>5, <2>7, <2>8 DEF Sized
  <2>10. Steady(removed)
    BY <2>7, <1>1, <1>23, <1>24 DEF Steady
  <2> QED
    BY <2>5, <2>7, <2>9, <2>10, <1>21 DEF Grows, Sound, q
<1>27. Grows(C, GiveBack(C, {<<s, f>>}), f)
  BY SameGrows
<1>28. Grows(C, D, f)
  <2> HIDE DEF placed, removed
  <2> QED
    BY <1>16, <1>25, <1>26, <1>27
<1> QED
  BY <1>28 DEF D

\* A channel that takes what is closest has one stream.
Unmixed == attr.low => Alone

LEMMA EnqueueSound ==
    ASSUME NEW A \in SUBSET Streams, NEW B, NEW C, Keeps(C, A, B), Sound(C), NEW s \in A,
           NEW f \in Frames, attr \in AttrShape, attr.streams = A, Unmixed,
           \A g \in Frames : <<s, g>> \in Within(C.q) => g < f
    PROVE  Grows(C, Enqueue(C, s, f), f)
<1> DEFINE T == {i \in DOMAIN C.q : Takes(C, s, f, C.q[i])}
           hit == Taker(C, s, f)
<1>1. C.q \in Seq(Super(A)) /\ Ranked(C.q, C.match_cnt) /\ Steady(C)
      /\ (Alone => C.match_cnt = Len(C.q))
  BY DEF Keeps, Chan, Sound, Sized
<1>2. DOMAIN C.q = 1 .. Len(C.q) /\ Len(C.q) \in Nat
  BY <1>1, LenProperties
<1>3. \A i \in DOMAIN C.q : Takes(C, s, f, C.q[i]) <=> ~C.q[i].matched /\ C.q[i].idx = f
  <2> TAKE i \in DOMAIN C.q
  <2>1. CASE attr.low
    <3>1. C.q[i].matched
      BY <2>1, <1>1, <1>2 DEF Unmixed, Ranked
    <3> QED
      BY <3>1 DEF Takes
  <2>2. CASE ~attr.low
    <3>1. C.nomatch_id = 0
      BY <2>2, <1>1 DEF Steady
    <3> QED
      BY <2>2, <3>1 DEF Takes
  <2> QED
    BY <2>1, <2>2
<1>4. T \subseteq Nat
  BY <1>2
<1>5. (T = {} => hit = 0) /\ (T # {} => hit \in T)
  <2>1. /\ T = {} => First(T) = 0
        /\ T # {} => First(T) \in T
    <3> HIDE DEF T
    <3> QED
      BY <1>4, FirstFacts
  <2> QED
    BY <2>1 DEF Taker
<1>6. hit # 0 => hit \in DOMAIN C.q /\ ~C.q[hit].matched /\ C.q[hit].idx = f
  <2> HIDE DEF hit
  <2> QED
    BY <1>3, <1>5
<1>7. hit = 0 => \A i \in DOMAIN C.q : C.q[i].matched \/ C.q[i].idx # f
  <2> HIDE DEF hit
  <2>1. 0 \notin T
    BY <1>2
  <2> QED
    BY <2>1, <1>3, <1>5
<1> HIDE DEF hit, T
<1>8. hit # 0 => Grows(C, Join(C, s, f, hit), f)
  BY <1>2, <1>6, JoinSound
<1>9. hit = 0 => Grows(C, Insert(C, s, f), f)
  BY <1>7, InsertSound
<1>10. Grows(C, GiveBack(C, {<<s, f>>}), f)
  BY SameGrows
<1> QED
  BY <1>8, <1>9, <1>10 DEF Enqueue, hit

-----------------------------------------------------------------------------
(* The frames of a stream come in order. *)

InTurn(cs) == \A i, j \in DataAt(cs) : i < j /\ cs[i].s = cs[j].s => cs[i].f < cs[j].f
Ahead(cs, B) == \A j \in DataAt(cs), f \in Frames : <<cs[j].s, f>> \in B => f < cs[j].f
Fifo(cs, B) == InTurn(cs) /\ Ahead(cs, B)

LEMMA NoneInTurn == \A B : Fifo(<<>>, B)
  BY DEF Fifo, InTurn, Ahead, DataAt

LEMMA FewerInTurn ==
    ASSUME NEW cs, NEW B, Fifo(cs, B), NEW W, W \subseteq B
    PROVE  Fifo(cs, W)
  BY DEF Fifo, Ahead

LEMMA HeadInTurn ==
    ASSUME NEW A \in SUBSET Streams, NEW cs \in Seq(Cmd(A)), cs # <<>>, NEW B, Fifo(cs, B),
           NEW W, W \subseteq B \cup Brought(Head(cs))
    PROVE  /\ Fifo(Tail(cs), W)
           /\ Head(cs).type = "data" =>
                 \A f \in Frames : <<Head(cs).s, f>> \in B => f < Head(cs).f
<1> DEFINE ds == Tail(cs)
<1>1. Len(cs) \in Nat /\ DOMAIN cs = 1 .. Len(cs)
  BY LenProperties
<1>2. ds \in Seq(Cmd(A)) /\ Len(ds) = Len(cs) - 1
      /\ \A i \in 1 .. Len(ds) : ds[i] = cs[i + 1]
  BY HeadTailProperties
<1>3. Head(cs) = cs[1] /\ 1 \in DOMAIN cs
  BY <1>1
<1> HIDE DEF ds
<1>4. DOMAIN ds = 1 .. Len(ds) /\ Len(ds) \in Nat
  BY <1>2, LenProperties
<1>5. \A i \in DOMAIN ds : i + 1 \in DOMAIN cs /\ 1 < i + 1 /\ i \in Nat /\ ds[i] = cs[i + 1]
  BY <1>1, <1>2, <1>4
<1>6. \A i \in DataAt(ds) : /\ i \in Nat /\ i + 1 \in DataAt(cs) /\ 1 < i + 1
                            /\ ds[i].s = cs[i + 1].s /\ ds[i].f = cs[i + 1].f
  BY <1>5 DEF DataAt
<1>7. InTurn(ds)
  <2> SUFFICES ASSUME NEW i \in DataAt(ds), NEW j \in DataAt(ds), i < j, ds[i].s = ds[j].s
               PROVE  ds[i].f < ds[j].f
    BY DEF InTurn
  <2>1. i + 1 < j + 1
    BY <1>6
  <2> QED
    BY <2>1, <1>6 DEF Fifo, InTurn
<1>8. Head(cs).type = "data" => 1 \in DataAt(cs)
  BY <1>3 DEF DataAt
<1>9. Ahead(ds, W)
  <2> SUFFICES ASSUME NEW j \in DataAt(ds), NEW f \in Frames, <<ds[j].s, f>> \in W
               PROVE  f < ds[j].f
    BY DEF Ahead
  <2>1. CASE <<ds[j].s, f>> \in B
    BY <2>1, <1>6 DEF Fifo, Ahead
  <2>2. CASE <<ds[j].s, f>> \in Brought(Head(cs))
    <3>1. Head(cs).type = "data" /\ ds[j].s = cs[1].s /\ f = cs[1].f
      BY <2>2, <1>3 DEF Brought
    <3> QED
      BY <3>1, <1>6, <1>8 DEF Fifo, InTurn
  <2> QED
    BY <2>1, <2>2
<1>10. Head(cs).type = "data" => \A f \in Frames : <<Head(cs).s, f>> \in B => f < Head(cs).f
  BY <1>3, <1>8 DEF Fifo, Ahead
<1> QED
  BY <1>7, <1>9, <1>10 DEF Fifo, ds

LEMMA LastInTurn ==
    ASSUME NEW A \in SUBSET Streams, NEW cs \in Seq(Cmd(A)), NEW B, Fifo(cs, B),
           NEW d \in Cmd(A), NEW ds, ds = Append(cs, d),
           d.type = "data" => \A f \in Frames : <<d.s, f>> \in B \cup Data(cs) => f < d.f
    PROVE  Fifo(ds, B)
<1> DEFINE n == Len(cs) + 1
<1>1. Len(cs) \in Nat /\ DOMAIN cs = 1 .. Len(cs)
  BY LenProperties
<1>2. ds \in Seq(Cmd(A)) /\ Len(ds) = n /\ (\A i \in 1 .. Len(cs) : ds[i] = cs[i])
      /\ ds[n] = d
  BY AppendProperties
<1>3. DOMAIN ds = 1 .. n
  BY <1>2, LenProperties
<1>4. \A i \in DOMAIN ds : i = n \/ (i \in DOMAIN cs /\ ds[i] = cs[i] /\ i < n)
  BY <1>1, <1>2, <1>3
<1>5. \A i \in DOMAIN cs : cs[i] \in Cmd(A) /\ i < n /\ i \in Nat
  BY <1>1
<1> HIDE DEF n
<1>6. \A i \in DataAt(ds) : (i = n /\ d.type = "data")
                            \/ (i \in DataAt(cs) /\ ds[i] = cs[i] /\ i < n)
  BY <1>2, <1>4 DEF DataAt
<1>7. \A i \in DataAt(cs) : cs[i].f \in Frames /\ cs[i].s \in A
                            /\ <<cs[i].s, cs[i].f>> \in Data(cs)
  BY <1>5 DEF DataAt, Data, BufAt, Cmd
<1>8. InTurn(ds)
  <2> SUFFICES ASSUME NEW i \in DataAt(ds), NEW j \in DataAt(ds), i < j, ds[i].s = ds[j].s
               PROVE  ds[i].f < ds[j].f
    BY DEF InTurn
  <2>1. i \in 1 .. n /\ j \in 1 .. n /\ n \in Nat
    BY <1>1, <1>3 DEF DataAt, n
  <2>2. i \in DataAt(cs) /\ ds[i] = cs[i]
    <3>1. i # n
      BY <2>1
    <3> QED
      BY <3>1, <1>6
  <2>3. CASE j = n
    <3>1. d.type = "data" /\ ds[j] = d
      BY <2>1, <2>3, <1>2 DEF DataAt
    <3> QED
      BY <3>1, <2>2, <1>7
  <2>4. CASE j # n
    BY <2>2, <2>4, <1>6 DEF Fifo, InTurn
  <2> QED
    BY <2>3, <2>4
<1>9. Ahead(ds, B)
  <2> SUFFICES ASSUME NEW j \in DataAt(ds), NEW f \in Frames, <<ds[j].s, f>> \in B
               PROVE  f < ds[j].f
    BY DEF Ahead
  <2>1. CASE j = n /\ d.type = "data"
    BY <2>1, <1>2
  <2>2. CASE j \in DataAt(cs) /\ ds[j] = cs[j]
    BY <2>2 DEF Fifo, Ahead
  <2> QED
    BY <2>1, <2>2, <1>6
<1> QED
  BY <1>8, <1>9 DEF Fifo

NumberOf(n) == IF n.type = "data" THEN {n.f} ELSE {}
Treats(C, D, n) ==
    /\ Sound(D) /\ Numbers(D.q) \subseteq Numbers(C.q) \cup NumberOf(n)
    /\ n.type = "flush" => D.match_cnt = 0 /\ D.q = <<>>

LEMMA HandledSound ==
    ASSUME NEW A \in SUBSET Streams, NEW W, Keeps(ch, A, W), W = Within(ch.q),
           attr \in AttrShape, attr.streams = A, NEW n \in Cmd(A), NEW B \in Announced(n),
           Sound(ch), Unmixed,
           n.type = "data" => \A g \in Frames : <<n.s, g>> \in W => g < n.f
    PROVE  Treats(ch, Handled(B, n), n)
<1>1. CASE n.type = "data"
  <2>1. n.s \in A /\ n.f \in Frames
    BY <1>1 DEF Cmd
  <2>2. Keeps(B, A, W) /\ Fares(ch, B)
    <3>1. CASE n.s = Meta
      <4>1. PICK info \in Infos : B = HandleMetadata(ch, n.f, info)
        BY <1>1, <3>1 DEF Announced
      <4>2. Keeps(HandleMetadata(ch, n.f, info), A, W)
        BY <2>1, MetadataKeeps
      <4>3. Fares(ch, HandleMetadata(ch, n.f, info))
        BY <2>1, MetadataSound
      <4> QED
        BY <4>1, <4>2, <4>3
    <3>2. CASE n.s # Meta
      BY <1>1, <3>2 DEF Announced, Fares
    <3> QED
      BY <3>1, <3>2
  <2>3. PICK s, f : s = n.s /\ f = n.f
    OBVIOUS
  <2>4. Within(B.q) \subseteq W /\ Sound(B)
    BY <2>2 DEF Keeps, Fares
  <2>5. \A g \in Frames : <<s, g>> \in Within(B.q) => g < f
    BY <2>3, <2>4, <1>1
  <2>6. Grows(B, Enqueue(B, s, f), f)
    BY <2>1, <2>2, <2>3, <2>4, <2>5, EnqueueSound
  <2>7. Handled(B, n) = Enqueue(B, s, f) /\ NumberOf(n) = {f}
    BY <1>1, <2>3 DEF Handled, NumberOf
  <2> QED
    BY <1>1, <2>2, <2>6, <2>7 DEF Treats, Grows, Fares
<1>2. CASE n.type = "req"
  <2>1. n.n \in Nat /\ n.retro \in Nat
    BY <1>2 DEF Cmd
  <2>2. B = ch /\ Handled(B, n) = Requested(B, n.n, n.retro)
    BY <1>2 DEF Announced, Handled
  <2>3. Fares(ch, Requested(ch, n.n, n.retro))
    BY <2>1, RequestedSound
  <2> QED
    BY <1>2, <2>2, <2>3 DEF Treats, Fares
<1>3. CASE n.type = "flush"
  <2>1. PICK E : E = [ch EXCEPT !.expected_id = n.f]
    OBVIOUS
  <2>2. n.f \in Int
    BY <1>3 DEF Cmd
  <2>3. ch \in Chan(A)
    BY DEF Keeps
  <2>4. E \in Chan(A) /\ E.q = ch.q /\ E.match_cnt = ch.match_cnt /\ E.spins = ch.spins
        /\ E.wait = ch.wait /\ E.nomatch_id = ch.nomatch_id
    BY <2>1, <2>2, <2>3 DEF Chan
  <2>5. Fares(ch, E)
    BY <2>4, SoundSame
  <2>6. Fares(E, FlushAll(E)) /\ FlushAll(E).q = <<>> /\ FlushAll(E).match_cnt = 0
    BY <2>4, <2>5, FlushSound DEF Fares
  <2>7. B = ch /\ Handled(B, n) = FlushAll(E)
    BY <1>3, <2>1 DEF Announced, Handled
  <2> QED
    BY <2>5, <2>6, <2>7 DEF Treats, Fares
<1> QED
  BY <1>1, <1>2, <1>3 DEF Cmd

-----------------------------------------------------------------------------
(* The invariant of the order. *)

\* The HAL has complete superbuffers, older than those of the queue.
Above(xs, q) == \A x \in xs : Even(x) /\ x.matched /\ \A i \in DOMAIN q : x.idx < q[i].idx
Limit == IF attr.notify_mode = "burst" THEN attr.water_mark ELSE 0
Waiting == Within(ch.q) \cup AllBufs(out)

\* A channel that has been stopped has an empty queue and counts no more.
Over == {"stopped", "failed"}
Begun == Sized(ch) /\ ch.match_cnt <= Limit
Ordered ==
    /\ Steady(ch)
    /\ call.pc \notin Over => Begun
    /\ ~attr.notify_cb => cmds = <<>> /\ ch.match_cnt = 0
    /\ call.pc \in {"none", "added"} => ch = Fresh
    /\ Above(out, ch.q)
    /\ Fifo(cmds, Waiting)

LEMMA SameSized ==
    ASSUME attr' = attr, ch'.q = ch.q, ch'.match_cnt = ch.match_cnt, Begun
    PROVE  Begun'
<1>1. Alone' = Alone
  BY DEF Alone
<1>2. \A x : Even(x)' <=> Even(x)
  BY DEF Even
<1>3. Ranked(ch.q, ch.match_cnt)'
  BY <1>2 DEF Begun, Sized, Ranked, Even
<1>4. Sized(ch)'
  BY <1>1, <1>3 DEF Begun, Sized
<1>5. Limit' = Limit
  BY DEF Limit
<1> QED
  BY <1>4, <1>5 DEF Begun

LEMMA SameAbove ==
    ASSUME attr' = attr, Above(out, ch.q), out' \subseteq out,
           ch'.q = ch.q \/ out' = {} \/ ch'.q = <<>>
    PROVE  Above(out, ch.q)'
<1>1. \A x : Even(x)' <=> Even(x)
  BY DEF Even
<1>2. DOMAIN <<>> = {}
  OBVIOUS
<1> QED
  BY <1>1, <1>2 DEF Above

LEMMA SameSteady ==
    ASSUME attr' = attr, Steady(ch), ch'.spins = ch.spins, ch'.nomatch_id = ch.nomatch_id,
           ch'.wait = ch.wait \/ ch'.wait = FALSE
    PROVE  Steady(ch)'
  BY DEF Steady

\* The queue emptied, with no complete superbuffer counted.
LEMMA EmptySized ==
    ASSUME attr' \in AttrShape, ch'.q = <<>>, ch'.match_cnt = 0
    PROVE  Begun'
<1>1. Len(<<>>) = 0 /\ DOMAIN <<>> = {}
  OBVIOUS
<1>2. Ranked(ch.q, ch.match_cnt)'
  BY <1>1 DEF Ranked
<1>3. Sized(ch)'
  BY <1>1, <1>2 DEF Sized, AttrShape
<1>4. Limit' \in Nat
  BY DEF Limit, AttrShape
<1> QED
  BY <1>3, <1>4 DEF Begun

LEMMA FreshOrdered ==
    ASSUME attr' \in AttrShape, ch' = Fresh, cmds' = <<>>, out' = {}
    PROVE  Ordered'
<1>1. ch'.q = <<>> /\ ch'.match_cnt = 0 /\ ~ch'.spins /\ ~ch'.wait /\ ch'.nomatch_id = 0
  BY DEF Fresh
<1>2. Begun'
  BY <1>1, EmptySized
<1>3. Steady(ch)'
  BY <1>1 DEF Steady
<1>4. Above(out, ch.q)'
  BY DEF Above
<1>5. Fifo(cmds, Waiting)'
  BY NoneInTurn
<1> QED
  BY <1>1, <1>2, <1>3, <1>4, <1>5 DEF Ordered

\* A step in which no call begins, ends a channel or brings a new one.
CallGoesOn == call' = call \/ (call'.pc \notin {"none", "added"} /\ call.pc \notin Over)

\* A step that changes neither the queue nor its counts.
LEMMA SameOrdered ==
    ASSUME Ordered, attr' = attr, ch' = ch, out' \subseteq out,
           Fifo(cmds', Waiting), attr.notify_cb \/ cmds' = cmds,
           CallGoesOn
    PROVE  Ordered'
<1>1. Steady(ch)'
  BY SameSteady DEF Ordered
<1>2. Above(out, ch.q)'
  BY SameAbove DEF Ordered
<1>3. call'.pc \notin Over => Begun'
  BY SameSized DEF Ordered, CallGoesOn
<1>4. Waiting' \subseteq Waiting
  BY DEF Waiting, AllBufs
<1>5. Fifo(cmds, Waiting)'
  BY <1>4, FewerInTurn
<1> QED
  BY <1>1, <1>2, <1>3, <1>5 DEF Ordered, CallGoesOn

\* The same of a step that leaves the commands and what the HAL holds alone, too.
LEMMA StillOrdered ==
    ASSUME Ordered, attr' = attr, ch' = ch, out' = out, cmds' = cmds,
           CallGoesOn
    PROVE  Ordered'
<1>1. Fifo(cmds', Waiting)
  BY DEF Ordered
<1> QED
  BY <1>1, SameOrdered

LEMMA ChannelRecord ==
    ASSUME IInv
    PROVE  /\ ch \in Chan(attr.streams) /\ attr \in AttrShape
           /\ attr.streams \in SUBSET Streams /\ cmds \in Seq(Cmd(attr.streams))
           /\ out \subseteq Super(attr.streams)
  BY AttrHasShape DEF IInv, Shape, Keeps

LEMMA AddChannelOrders == ASSUME IInv, Ordered, AddChannel PROVE Ordered'
<1>1. cmds' = <<>> /\ out' = {} /\ ch' = Fresh
  BY DEF IInv, Phase, AddChannel, Away, Ordered
<1>2. attr' \in AttrShape
  <2>1. attr' \in Attrs
    BY DEF AddChannel
  <2>2. attr' \in [streams : (SUBSET Streams) \ {{}}, data_cb : SUBSET Streams,
                  notify_cb : BOOLEAN, notify_mode : {"burst", "continuous"},
                  water_mark : Nat, look_back : Nat, post_frame_skip : Nat,
                  max_unmatched : Nat, low : BOOLEAN]
    BY <2>1, AttrsAssumption
  <2> QED
    BY <2>2 DEF AttrShape
<1> QED
  BY <1>1, <1>2, FreshOrdered

LEMMA DeleteChannelOrders == ASSUME IInv, Ordered, DeleteChannel PROVE Ordered'
<1>1. cmds' = <<>> /\ out' = {} /\ ch' = Fresh
  BY DEF IInv, Phase, DeleteChannel, Away
<1>2. attr' \in AttrShape
  BY DEF DeleteChannel, NoAttr, AttrShape
<1> QED
  BY <1>1, <1>2, FreshOrdered

LEMMA StartChannelOrders == ASSUME IInv, Ordered, StartChannel PROVE Ordered'
<1>1. cmds' = <<>> /\ out' = {} /\ ch.q = <<>> /\ attr' = attr
  BY DEF IInv, Phase, StartChannel, Away
<1>2. ch' = [ch EXCEPT !.q = <<>>, !.expected_id = 0]
  BY DEF StartChannel
<1>3. ch'.q = <<>> /\ ch'.match_cnt = ch.match_cnt /\ ch'.spins = ch.spins
      /\ ch'.wait = ch.wait /\ ch'.nomatch_id = ch.nomatch_id
  BY <1>2, ChannelRecord DEF Chan
<1>4. ch.match_cnt = 0
  BY DEF StartChannel, Ordered, Fresh
<1>5. Begun'
  BY <1>1, <1>3, <1>4, ChannelRecord, EmptySized
<1>6. Steady(ch)'
  BY <1>1, <1>3, SameSteady DEF Ordered
<1>7. Above(out, ch.q)'
  BY <1>1 DEF Above
<1>8. Fifo(cmds, Waiting)'
  BY <1>1, NoneInTurn
<1>9. call'.pc = "starting"
  BY DEF StartChannel, At
<1> QED
  BY <1>1, <1>3, <1>4, <1>5, <1>6, <1>7, <1>8, <1>9 DEF Ordered

LEMMA StartDoneOrders == ASSUME IInv, Ordered, StartDone PROVE Ordered'
<1>1. ch' = [ch EXCEPT !.wait = FALSE] /\ UNCHANGED <<attr, cmds, out>>
      /\ call'.pc = "active" /\ call.pc = "starting"
  BY DEF StartDone, At
<1>2. ch'.q = ch.q /\ ch'.match_cnt = ch.match_cnt /\ ch'.spins = ch.spins
      /\ ch'.wait = FALSE /\ ch'.nomatch_id = ch.nomatch_id
  BY <1>1, ChannelRecord DEF Chan
<1>3. Begun'
  BY <1>1, <1>2, SameSized DEF Ordered, Over
<1>4. Steady(ch)'
  BY <1>1, <1>2, SameSteady DEF Ordered
<1>5. Above(out, ch.q)'
  BY <1>1, <1>2, SameAbove DEF Ordered
<1>6. Fifo(cmds, Waiting)'
  BY <1>1, <1>2 DEF Ordered, Waiting
<1> QED
  BY <1>1, <1>2, <1>3, <1>4, <1>5, <1>6 DEF Ordered

LEMMA ThreadsJoinOrders == ASSUME IInv, Ordered, ThreadsJoin PROVE Ordered'
<1>1. ch' = [ch EXCEPT !.q = <<>>] /\ out' = {} /\ cmds = <<>> /\ UNCHANGED <<attr, cmds>>
      /\ call'.pc \in Over
  BY DEF ThreadsJoin, At, Over
<1>2. ch'.match_cnt = ch.match_cnt /\ ch'.spins = ch.spins
      /\ ch'.wait = ch.wait /\ ch'.nomatch_id = ch.nomatch_id
  BY <1>1, ChannelRecord DEF Chan
<1>4. Steady(ch)'
  BY <1>1, <1>2, SameSteady DEF Ordered
<1>5. Above(out, ch.q)'
  BY <1>1 DEF Above
<1>6. Fifo(cmds, Waiting)'
  BY <1>1, NoneInTurn
<1> QED
  BY <1>1, <1>2, <1>4, <1>5, <1>6 DEF Ordered, Over

\* A request or a flush comes last.
LEMMA CommandOrders ==
    ASSUME IInv, Ordered, NEW d \in Cmd(attr.streams), d.type # "data",
           cmds' = Append(cmds, d), attr.notify_cb, attr' = attr, ch' = ch,
           out' = out,
           CallGoesOn
    PROVE  Ordered'
<1>1. PICK A, cs, ds, B : A = attr.streams /\ cs = cmds /\ ds = cmds' /\ B = Waiting
  OBVIOUS
<1>2. A \in SUBSET Streams /\ cs \in Seq(Cmd(A)) /\ Fifo(cs, B) /\ d \in Cmd(A)
      /\ ds = Append(cs, d)
  BY <1>1, ChannelRecord DEF Ordered
<1>3. Fifo(ds, B)
  BY <1>2, LastInTurn
<1> QED
  BY <1>1, <1>3, SameOrdered

LEMMA RequestOrders == ASSUME IInv, Ordered, RequestSuperBuf PROVE Ordered'
<1>1. PICK d \in Cmd(attr.streams) : d.type = "req" /\ cmds' = Append(cmds, d)
  <2>1. PICK r \in Requests :
           cmds' = Append(cmds, [type |-> "req", n |-> r[1], retro |-> r[2]])
    BY DEF RequestSuperBuf
  <2>2. r[1] \in Nat /\ r[2] \in Nat
    BY RequestsAssumption
  <2>3. [type |-> "req", n |-> r[1], retro |-> r[2]] \in Cmd(attr.streams)
    BY <2>2 DEF Cmd
  <2> QED
    BY <2>1, <2>3
<1>2. attr.notify_cb /\ attr' = attr /\ ch' = ch /\ out' = out /\ CallGoesOn
  BY DEF RequestSuperBuf, CallGoesOn
<1> QED
  BY <1>1, <1>2, CommandOrders

LEMMA FlushQueueOrders == ASSUME IInv, Ordered, FlushQueue PROVE Ordered'
<1>1. PICK d \in Cmd(attr.streams) : d.type = "flush" /\ cmds' = Append(cmds, d)
  <2>1. [type |-> "flush", f |-> 0] \in Cmd(attr.streams)
    BY DEF Cmd
  <2> QED
    BY <2>1 DEF FlushQueue
<1>2. attr.notify_cb /\ attr' = attr /\ ch' = ch /\ out' = out /\ CallGoesOn
  BY DEF FlushQueue, At, CallGoesOn, Over
<1> QED
  BY <1>1, <1>2, CommandOrders

LEMMA PollReadOrders == ASSUME IInv, Ordered, NEW s \in Streams, PollRead(s) PROVE Ordered'
<1>1. PICK f \in next[s] .. MaxFrame :
         cmds' = IF attr.notify_cb
                 THEN Append(cmds, [type |-> "data", s |-> s, f |-> f]) ELSE cmds
  BY DEF PollRead
<1>2. attr' = attr /\ ch' = ch /\ out' = out /\ CallGoesOn /\ st[s] = "active"
  BY DEF PollRead, CallGoesOn
<1>3. CASE ~attr.notify_cb
  BY <1>1, <1>2, <1>3, StillOrdered
<1>4. CASE attr.notify_cb
  <2>1. f \in Frames /\ next[s] <= f /\ next[s] \in Nat /\ f \in Nat
    <3>1. next[s] \in 1 .. MaxFrame + 1 /\ MaxFrame \in Nat
      BY Naturals4 DEF IInv, Shape
    <3> QED
      BY <3>1 DEF Frames
  <2>2. s \in attr.streams
    BY <1>2 DEF IInv, Phase, PhaseOf
  <2>3. PICK A, cs, ds, B, d : /\ A = attr.streams /\ cs = cmds /\ ds = cmds' /\ B = Waiting
                               /\ d = [type |-> "data", s |-> s, f |-> f]
    OBVIOUS
  <2>4. A \in SUBSET Streams /\ cs \in Seq(Cmd(A)) /\ Fifo(cs, B) /\ d \in Cmd(A)
        /\ ds = Append(cs, d) /\ d.s = s /\ d.f = f
    BY <2>1, <2>2, <2>3, <1>1, <1>4, ChannelRecord DEF Ordered, Cmd
  <2>5. ASSUME NEW g \in Frames, <<s, g>> \in B \cup Data(cs) PROVE g < f
    <3>1. <<s, g>> \in ChainBufs
      BY <2>3, <2>5 DEF ChainBufs, Waiting
    <3>2. g < next[s] /\ g \in Nat
      BY <3>1, FramesAreNatural DEF IInv, Old
    <3> QED
      BY <3>2, <2>1
  <2>6. Fifo(ds, B)
    BY <2>4, <2>5, LastInTurn
  <2> QED
    BY <2>3, <2>6, <1>2, <1>4, SameOrdered
<1> QED
  BY <1>3, <1>4

LEMMA ReturnSuperOrders == ASSUME IInv, Ordered, ReturnSuper PROVE Ordered'
<1>1. out' \subseteq out /\ attr' = attr /\ ch' = ch /\ cmds' = cmds /\ CallGoesOn
  BY DEF ReturnSuper, CallGoesOn
<1>2. Fifo(cmds', Waiting)
  BY <1>1 DEF Ordered
<1> QED
  BY <1>1, <1>2, SameOrdered

\* What the channel's thread makes of the command n: D is the channel it leaves.
Turns(D, n) ==
    /\ Sends(D, attr.streams, Within(ch.q) \cup Brought(n))
    /\ ch' = Ended(D) /\ out' = out \cup ToSet(D.sent)
    /\ Sound(D) /\ D.match_cnt <= Limit
    /\ Numbers(D.q) \subseteq Numbers(ch.q) \cup NumberOf(n)
    /\ \A x \in ToSet(D.sent) : /\ Even(x) /\ x.matched
                                /\ x.idx \in Numbers(ch.q) \cup NumberOf(n)
                                /\ \A j \in DOMAIN D.q : x.idx < D.q[j].idx

LEMMA ChannelTurns ==
    ASSUME IInv, Ordered, Unmixed, ChannelStep
    PROVE  \E D : Turns(D, Head(cmds))
<1>1. PICK A, W, n : A = attr.streams /\ W = Within(ch.q) /\ n = Head(cmds)
  OBVIOUS
<1>2. cmds # <<>>
  BY DEF ChannelStep
<1>3. A \in SUBSET Streams /\ attr \in AttrShape /\ cmds \in Seq(Cmd(A)) /\ Keeps(ch, A, W)
      /\ attr.streams = A /\ attr.water_mark \in Nat
  BY <1>1, AttrHasShape DEF IInv, Shape, AttrShape
<1>4. n \in Cmd(A) /\ Brought(n) \subseteq Data(cmds)
  <2>1. Once(cmds)
    BY DEF IInv, ChainApart, Apart
  <2>2. PICK cs : cs = cmds
    OBVIOUS
  <2>3. Head(cs) \in Cmd(A)
        /\ (Head(cs).type = "data" => <<Head(cs).s, Head(cs).f>> \in Data(cs))
    BY <2>1, <2>2, <1>2, <1>3, HeadTaken
  <2> QED
    BY <2>2, <2>3, <1>1 DEF Brought
<1>5. Brought(n) \cap W = {}
  BY <1>1, <1>4 DEF IInv, ChainApart, Apart
<1>6. Sound(ch)
  <2>1. call.pc \notin Over
    BY <1>2 DEF IInv, Phase, Away, Over
  <2> QED
    BY <2>1 DEF Ordered, Begun, Sound
<1>7. n.type = "data" => \A g \in Frames : <<n.s, g>> \in W => g < n.f
  <2>1. PICK cs, B : cs = cmds /\ B = Waiting
    OBVIOUS
  <2>2. cs \in Seq(Cmd(A)) /\ cs # <<>> /\ Fifo(cs, B) /\ B \subseteq B \cup Brought(Head(cs))
    BY <2>1, <1>2, <1>3 DEF Ordered
  <2>3. Head(cs).type = "data" => \A f \in Frames : <<Head(cs).s, f>> \in B => f < Head(cs).f
    BY <2>2, <1>3, HeadInTurn
  <2> QED
    BY <2>1, <2>3, <1>1 DEF Waiting
<1>8. PICK B \in Announced(n) :
         \E T \in {IF n.type = "flush" THEN Handled(B, n)
                   ELSE DropTo(Handled(B, n), attr.water_mark)} :
         \E D \in {IF n.type = "flush" THEN T ELSE Dispatch(T)} :
           /\ ch' = [D EXCEPT !.back = {}, !.sent = <<>>]
           /\ out' = out \cup ToSet(D.sent)
  BY <1>1 DEF ChannelStep
<1>9. PICK C, V : C = Handled(B, n) /\ V = W \cup Brought(n)
  OBVIOUS
<1>10. Keeps(C, A, V)
  BY <1>3, <1>4, <1>5, <1>9, HandledKeeps
<1>11. Treats(ch, C, n)
  BY <1>1, <1>3, <1>4, <1>6, <1>7, <1>9, HandledSound
<1>12. Sound(C) /\ Numbers(C.q) \subseteq Numbers(ch.q) \cup NumberOf(n)
       /\ (n.type = "flush" => C.match_cnt = 0 /\ C.q = <<>>)
  BY <1>11 DEF Treats
<1>13. PICK T, D : /\ T = (IF n.type = "flush" THEN C ELSE DropTo(C, attr.water_mark))
                   /\ D = (IF n.type = "flush" THEN T ELSE Dispatch(T))
                   /\ ch' = Ended(D)
                   /\ out' = out \cup ToSet(D.sent)
  BY <1>8, <1>9 DEF Ended
<1>14. CASE n.type = "flush"
  <2>1. D = C
    BY <1>13, <1>14
  <2>2. ToSet(D.sent) = {}
    <3>1. D.sent = <<>>
      BY <2>1, <1>10 DEF Keeps
    <3> QED
      BY <3>1, Empties
  <2>3. Sends(D, A, V)
    BY <2>1, <1>3, <1>10, UnsentKeeps
  <2>4. D.match_cnt <= Limit
    BY <2>1, <1>3, <1>12, <1>14 DEF Limit
  <2>5. Turns(D, n)
    BY <2>1, <2>2, <2>3, <2>4, <1>1, <1>9, <1>12, <1>13 DEF Turns
  <2> QED
    BY <2>5, <1>1
<1>15. CASE n.type # "flush"
  <2>1. T = DropTo(C, attr.water_mark) /\ D = Dispatch(T)
    BY <1>13, <1>15
  <2>2. Keeps(T, A, V)
    BY <2>1, <1>3, <1>10, DropKeeps
  <2>3. Fares(C, T) /\ (attr.notify_mode # "continuous" => T.match_cnt <= attr.water_mark)
    BY <2>1, <1>3, <1>10, <1>12, DropSound
  <2>4. Sends(D, A, V)
    BY <2>1, <2>2, <1>3, DispatchKeeps
  <2>5. Delivers(T, D)
    BY <2>1, <2>2, <2>3, <1>3, DispatchSound DEF Fares
  <2>6. Numbers(T.q) \subseteq Numbers(ch.q) \cup NumberOf(n)
    BY <2>3, <1>12 DEF Fares
  <2>7. Sound(D) /\ Numbers(D.q) \subseteq Numbers(ch.q) \cup NumberOf(n)
    BY <2>5, <2>6 DEF Delivers, Fares
  <2>8. \A x \in ToSet(D.sent) : /\ Even(x) /\ x.matched
                                 /\ x.idx \in Numbers(ch.q) \cup NumberOf(n)
                                 /\ \A j \in DOMAIN D.q : x.idx < D.q[j].idx
    BY <2>5, <2>6 DEF Delivers
  <2>9. D.match_cnt <= Limit
    <3>1. D.match_cnt \in Int /\ T.match_cnt \in Int
      BY <2>2, <2>4 DEF Keeps, Sends, Chan
    <3>2. CASE attr.notify_mode = "continuous"
      BY <3>2, <2>5, <1>3 DEF Delivers, Limit
    <3>3. CASE attr.notify_mode = "burst"
      BY <3>1, <3>3, <2>3, <2>5, <1>3 DEF Delivers, Limit
    <3> QED
      BY <3>2, <3>3, <1>3 DEF AttrShape
  <2>10. Turns(D, n)
    BY <2>4, <2>7, <2>8, <2>9, <1>1, <1>9, <1>13 DEF Turns
  <2> QED
    BY <2>10, <1>1
<1> QED
  BY <1>14, <1>15

\* What the HAL holds is older than all the thread works on.
LEMMA OutIsOlder ==
    ASSUME IInv, Ordered, cmds # <<>>, NEW x \in out,
           NEW k \in Numbers(ch.q) \cup NumberOf(Head(cmds))
    PROVE  x.idx < k
<1>1. x \in Super(attr.streams) /\ Even(x) /\ x.matched
      /\ \A i \in DOMAIN ch.q : x.idx < ch.q[i].idx
  BY ChannelRecord DEF Ordered, Above
<1>2. CASE k \in Numbers(ch.q)
  BY <1>1, <1>2 DEF Numbers
<1>3. CASE k \in NumberOf(Head(cmds))
  <2>1. PICK A, cs, B : A = attr.streams /\ cs = cmds /\ B = Waiting
    OBVIOUS
  <2>2. A \in SUBSET Streams /\ cs \in Seq(Cmd(A)) /\ cs # <<>> /\ Fifo(cs, B) /\ Once(cs)
        /\ B \subseteq B \cup Brought(Head(cs))
    BY <2>1, ChannelRecord DEF Ordered, IInv, ChainApart, Apart
  <2>3. Head(cs).type = "data" => \A f \in Frames : <<Head(cs).s, f>> \in B => f < Head(cs).f
    BY <2>2, HeadInTurn
  <2>4. Head(cs).type = "data" /\ k = Head(cs).f
    BY <2>1, <1>3 DEF NumberOf
  <2>5. Head(cs) \in Cmd(A)
    BY <2>2, HeadTaken
  <2>6. PICK s : s = Head(cs).s
    OBVIOUS
  <2>7. s \in A
    BY <2>4, <2>5, <2>6 DEF Cmd
  <2>8. x.slot[s] = x.idx /\ x.idx \in Frames /\ x.slot[s] # 0 /\ DOMAIN x.slot = A
    BY <2>1, <2>7, <1>1 DEF Even, Super
  <2>9. <<s, x.idx>> \in B
    BY <2>1, <2>7, <2>8 DEF Bufs, AllBufs, Waiting
  <2> QED
    BY <2>3, <2>4, <2>6, <2>8, <2>9
<1> QED
  BY <1>2, <1>3

LEMMA ChannelStepOrders == ASSUME IInv, Ordered, Unmixed, ChannelStep PROVE Ordered'
<1>1. PICK D : Turns(D, Head(cmds))
  BY ChannelTurns
<1>2. cmds # <<>> /\ cmds' = Tail(cmds) /\ attr' = attr
      /\ (call' = call \/ call' = At("active", {}))
  BY DEF ChannelStep
<1>3. PICK A, W, n : A = attr.streams /\ W = Within(ch.q) /\ n = Head(cmds)
  OBVIOUS
<1>4. /\ Sends(D, A, W \cup Brought(n)) /\ ch' = Ended(D) /\ out' = out \cup ToSet(D.sent)
      /\ Sound(D) /\ D.match_cnt <= Limit
      /\ Numbers(D.q) \subseteq Numbers(ch.q) \cup NumberOf(n)
      /\ \A x \in ToSet(D.sent) : /\ Even(x) /\ x.matched
                                  /\ \A j \in DOMAIN D.q : x.idx < D.q[j].idx
  BY <1>1, <1>3 DEF Turns
<1>5. D \in Chan(A)
  BY <1>4 DEF Sends
<1>6. ch'.q = D.q /\ ch'.match_cnt = D.match_cnt /\ ch'.spins = D.spins
      /\ ch'.wait = D.wait /\ ch'.nomatch_id = D.nomatch_id
  BY <1>4, <1>5 DEF Ended, Chan
<1>7. Steady(ch)'
  BY <1>2, <1>4, <1>6 DEF Sound, Steady
<1>8. Begun'
  <2>1. Alone' = Alone /\ Limit' = Limit
    BY <1>2 DEF Alone, Limit
  <2>2. \A x : Even(x)' <=> Even(x)
    BY <1>2 DEF Even
  <2>3. Ranked(D.q, D.match_cnt) /\ Len(D.q) - D.match_cnt <= attr.max_unmatched + 1
        /\ (Alone => D.match_cnt = Len(D.q))
    BY <1>4 DEF Sound, Sized
  <2>4. Ranked(ch.q, ch.match_cnt)'
    BY <2>2, <2>3, <1>6 DEF Ranked, Even
  <2>5. Sized(ch)'
    BY <2>1, <2>3, <2>4, <1>2, <1>6 DEF Sized
  <2> QED
    BY <2>1, <2>5, <1>4, <1>6 DEF Begun
<1>9. Above(out, ch.q)'
  <2>1. \A x : Even(x)' <=> Even(x)
    BY <1>2 DEF Even
  <2>2. ASSUME NEW x \in out, NEW j \in DOMAIN D.q PROVE x.idx < D.q[j].idx
    <3>1. D.q[j].idx \in Numbers(D.q)
      BY DEF Numbers
    <3>2. D.q[j].idx \in Numbers(ch.q) \cup NumberOf(Head(cmds))
      BY <3>1, <1>3, <1>4
    <3> QED
      BY <3>2, <1>2, OutIsOlder
  <2>3. \A x \in out : Even(x) /\ x.matched
    BY DEF Ordered, Above
  <2> QED
    BY <2>1, <2>2, <2>3, <1>4, <1>6 DEF Above, Even
<1>10. Fifo(cmds, Waiting)'
  <2>1. PICK cs, ds, B, X : cs = cmds /\ ds = cmds' /\ B = Waiting /\ X = Waiting'
    OBVIOUS
  <2>2. X \subseteq B \cup Brought(n)
    <3>1. PICK V : V = W \cup Brought(n)
      OBVIOUS
    <3>2. A \in SUBSET Streams /\ Sends(D, A, V)
      BY <3>1, <1>3, <1>4, ChannelRecord
    <3>3. AllBufs(ToSet(D.sent)) = Within(D.sent)
      BY <3>2, EndedKeeps
    <3>4. Within(D.q) \subseteq V /\ Within(D.sent) \subseteq V
      BY <3>2 DEF Sends
    <3>5. AllBufs(out') = AllBufs(out) \cup AllBufs(ToSet(D.sent))
      BY <1>4 DEF AllBufs
    <3> QED
      BY <2>1, <3>1, <3>3, <3>4, <3>5, <1>3, <1>6 DEF Waiting
  <2>3. A \in SUBSET Streams /\ cs \in Seq(Cmd(A)) /\ cs # <<>> /\ Fifo(cs, B)
        /\ X \subseteq B \cup Brought(Head(cs)) /\ ds = Tail(cs)
    BY <2>1, <2>2, <1>2, <1>3, ChannelRecord DEF Ordered
  <2>4. Fifo(Tail(cs), X)
    BY <2>3, HeadInTurn
  <2> QED
    BY <2>1, <2>3, <2>4
<1>11. attr.notify_cb
  BY <1>2 DEF Ordered
<1>12. call'.pc \notin {"none", "added"}
  <2>1. call.pc \notin {"none", "added"}
    BY <1>2 DEF IInv, Phase, Away
  <2> QED
    BY <2>1, <1>2 DEF At
<1> QED
  BY <1>2, <1>7, <1>8, <1>9, <1>10, <1>11, <1>12 DEF Ordered

LEMMA StreamIsAlone == ASSUME IInv PROVE Unmixed
<1>1. CASE attr = NoAttr
  BY <1>1 DEF NoAttr, Unmixed
<1>2. CASE attr \in Attrs
  BY <1>2, PriorityAssumption DEF Unmixed, Alone
<1> QED
  BY <1>1, <1>2 DEF IInv, Shape

LEMMA InitialOrdered == ASSUME Init PROVE Ordered
<1>1. /\ attr.streams = {} /\ attr.notify_mode = "burst" /\ attr.water_mark = 0
      /\ attr.max_unmatched = 0
  BY DEF Init, NoAttr
<1>2. /\ ch = Fresh /\ ch.q = <<>> /\ ch.match_cnt = 0 /\ ~ch.spins /\ ~ch.wait
      /\ ch.nomatch_id = 0
  BY DEF Init, Fresh
<1>3. Steady(ch)
  BY <1>2 DEF Steady
<1>4. Begun
  <2>1. Len(<<>>) = 0
    OBVIOUS
  <2> QED
    BY <1>1, <1>2, <2>1, EmptyRanked DEF Begun, Sized, Limit
<1>5. Above(out, ch.q) /\ Fifo(cmds, Waiting) /\ cmds = <<>>
  BY NoneInTurn DEF Init, Above
<1> QED
  BY <1>2, <1>3, <1>4, <1>5 DEF Ordered

\* The steps of the streams and of their callers.
LEMMA OthersOrder ==
    ASSUME Ordered, NEW s \in Streams,
           \/ StartFails \/ StopChannel \/ PollApp \/ UNCHANGED vars
           \/ StartStream(s) \/ StreamOff(s) \/ StreamJoin(s)
           \/ AppDispatch(s) \/ ReturnFrame(s)
    PROVE  Ordered'
<1>1. attr' = attr /\ ch' = ch /\ out' = out /\ cmds' = cmds
  BY DEF StartFails, StopChannel, PollApp, vars, StartStream, StreamOff, StreamJoin,
         AppDispatch, ReturnFrame
<1>2. CallGoesOn
  <2>1. CASE StartFails \/ StopChannel \/ StartStream(s)
    BY <2>1 DEF StartFails, StopChannel, StartStream, At, Over, CallGoesOn
  <2>2. CASE StreamJoin(s)
    BY <2>2 DEF StreamJoin, Stops, At, Over, CallGoesOn
  <2>3. CASE PollApp \/ UNCHANGED vars \/ StreamOff(s) \/ AppDispatch(s) \/ ReturnFrame(s)
    BY <2>3 DEF PollApp, vars, StreamOff, AppDispatch, ReturnFrame, CallGoesOn
  <2> QED
    BY <2>1, <2>2, <2>3
<1> QED
  BY <1>1, <1>2, StillOrdered

\* The invariant of the order: the complete superbuffers come first in the queue, in
\* the order of their numbers and no more than the channel keeps, what the HAL holds is
\* older, and each stream's frames reach the channel's thread in order.
THEOREM OrderInductive == Spec => [](IInv /\ Ordered)
<1>1. Init => Ordered
  BY InitialOrdered
<1>2. IInv /\ Ordered /\ [Next]_vars => Ordered'
  <2> SUFFICES ASSUME IInv, Ordered, [Next]_vars PROVE Ordered'
    OBVIOUS
  <2>1. Unmixed
    BY StreamIsAlone
  <2>2. CASE AddChannel \/ StartChannel \/ DeleteChannel \/ RequestSuperBuf \/ FlushQueue
    BY <2>2, AddChannelOrders, StartChannelOrders, DeleteChannelOrders, RequestOrders,
       FlushQueueOrders
  <2>3. CASE StartDone \/ ThreadsJoin \/ ChannelStep \/ ReturnSuper
    BY <2>1, <2>3, StartDoneOrders, ThreadsJoinOrders, ChannelStepOrders, ReturnSuperOrders
  <2>4. CASE \E s \in Streams : PollRead(s)
    BY <2>4, PollReadOrders
  <2>5. CASE \E s \in Streams : \/ StartStream(s) \/ StreamOff(s) \/ StreamJoin(s)
                                \/ AppDispatch(s) \/ ReturnFrame(s)
    BY <2>5, OthersOrder
  <2>6. CASE StartFails \/ StopChannel \/ PollApp \/ UNCHANGED vars
    <3>1. attr' = attr /\ ch' = ch /\ out' = out /\ cmds' = cmds
      BY <2>6 DEF StartFails, StopChannel, PollApp, vars
    <3>2. CallGoesOn
      BY <2>6 DEF StartFails, StopChannel, PollApp, vars, At, Over, CallGoesOn
    <3> QED
      BY <3>1, <3>2, StillOrdered
  <2> QED
    BY <2>2, <2>3, <2>4, <2>5, <2>6 DEF Next, Calls, CallSteps, Threads, Returns
<1> QED
  BY <1>1, <1>2, Inductive, PTL DEF Spec

\* The superbuffer queue is what its loops rely on, whatever the kernel delivers, the
\* metadata announces and the HAL asks for: they end, one removal makes room, and the
\* counter is the number of complete superbuffers, within what the channel keeps.
THEOREM QueueCorrect == Spec => []QueueSound
<1>1. IInv /\ Ordered => QueueSound
  <2> SUFFICES ASSUME IInv, Ordered PROVE QueueSound
    OBVIOUS
  <2> DEFINE whole == {i \in DOMAIN ch.q : ch.q[i].matched}
             loose == DOMAIN ch.q \ whole
  <2>1. ch.q \in Seq(Super(attr.streams)) /\ ch.match_cnt \in Int /\ attr \in AttrShape
        /\ ~ch.spins /\ attr.max_unmatched \in Nat /\ attr.water_mark \in Nat
    BY ChannelRecord DEF Chan, Ordered, Steady, AttrShape
  <2>2. CASE call.pc \in Over
    <3>1. ch.q = <<>>
      BY <2>2 DEF Over, Away, IInv, Phase
    <3>2. DOMAIN <<>> = {} /\ Cardinality({}) = 0
      BY FS_EmptySet
    <3>3. whole = {} /\ loose = {}
      BY <3>1, <3>2
    <3>4. Cardinality(whole) = 0 /\ Cardinality(loose) = 0
      BY <3>2, <3>3
    <3>5. call.pc \in {"stopped", "failed"}
      BY <2>2 DEF Over
    <3>6. Cardinality(loose) <= attr.max_unmatched + 1 /\ Cardinality(whole) <= Limit
      BY <2>1, <3>4 DEF Limit
    <3> QED
      BY <2>1, <3>3, <3>5, <3>6 DEF QueueSound, Limit
  <2>3. CASE call.pc \notin Over
    <3>1. PICK q, m : q = ch.q /\ m = ch.match_cnt
      OBVIOUS
    <3>2. q \in Seq(Super(attr.streams)) /\ Ranked(q, m)
          /\ Len(q) - m <= attr.max_unmatched + 1 /\ m <= Limit
      BY <2>1, <2>3, <3>1 DEF Ordered, Begun, Sized
    <3>3. /\ {i \in DOMAIN q : q[i].matched} = 1 .. m /\ DOMAIN q \ (1 .. m) = m + 1 .. Len(q)
          /\ Cardinality(1 .. m) = m /\ Cardinality(m + 1 .. Len(q)) = Len(q) - m
      BY <3>2, WholeCounted
    <3>4. whole = 1 .. m /\ loose = m + 1 .. Len(q)
      BY <3>1, <3>3
    <3>5. \A i \in 1 .. m, j \in m + 1 .. Len(q) : i < j
      BY <2>1, <3>1, <3>2, LenProperties
    <3>6. /\ ch.match_cnt = Cardinality(whole)
          /\ Cardinality(loose) <= attr.max_unmatched + 1 /\ Cardinality(whole) <= Limit
      BY <3>1, <3>2, <3>3, <3>4
    <3> QED
      BY <2>1, <3>4, <3>5, <3>6 DEF QueueSound, Limit
  <2> QED
    BY <2>2, <2>3
<1> QED
  BY <1>1, OrderInductive, PTL

\* What the HAL gets is complete, holds one frame of every stream and is newer than all
\* it got before and has not given back, however frames arrive late or are missing, and
\* whatever it asks for and flushes meanwhile.
THEOREM FramesCorrect == Spec => FramesMatch
<1> DEFINE Matches ==
      \A x \in out' \ out :
         /\ \A s \in attr.streams : x.slot[s] # 0
         /\ attr.low \/ \A s \in attr.streams : x.slot[s] = x.idx
         /\ \A y \in out : \A s \in attr.streams : y.slot[s] < x.slot[s]
<1>1. IInv /\ Ordered /\ [Next]_vars => [Matches]_vars
  <2> SUFFICES ASSUME IInv, Ordered, [Next]_vars PROVE Matches
    OBVIOUS
  <2>1. CASE ChannelStep
    <3>1. PICK D : Turns(D, Head(cmds))
      BY <2>1, StreamIsAlone, ChannelTurns
    <3>2. /\ out' = out \cup ToSet(D.sent)
          /\ \A x \in ToSet(D.sent) : /\ Even(x) /\ x.matched
                                      /\ x.idx \in Numbers(ch.q) \cup NumberOf(Head(cmds))
      BY <3>1 DEF Turns
    <3>3. cmds # <<>>
      BY <2>1 DEF ChannelStep
    <3> SUFFICES ASSUME NEW x \in out' \ out
                 PROVE  /\ \A s \in attr.streams : x.slot[s] # 0 /\ x.slot[s] = x.idx
                        /\ \A y \in out : \A s \in attr.streams : y.slot[s] < x.slot[s]
      OBVIOUS
    <3>4. Even(x) /\ x.matched /\ x.idx \in Numbers(ch.q) \cup NumberOf(Head(cmds))
      BY <3>2
    <3>5. \A s \in attr.streams : x.slot[s] # 0 /\ x.slot[s] = x.idx
      BY <3>4 DEF Even
    <3>6. ASSUME NEW y \in out, NEW s \in attr.streams PROVE y.slot[s] < x.slot[s]
      <4>1. y.idx < x.idx
        BY <3>3, <3>4, OutIsOlder
      <4>2. y.slot[s] = y.idx
        BY DEF Ordered, Above, Even
      <4> QED
        BY <3>5, <4>1, <4>2
    <3> QED
      BY <3>5, <3>6
  <2>2. CASE ~ChannelStep
    <3>1. out' \subseteq out
      <4>1. CASE Calls
        BY <4>1 DEF Calls, AddChannel, StartChannel, StartFails, StopChannel, DeleteChannel,
           RequestSuperBuf, FlushQueue
      <4>2. CASE CallSteps
        BY <4>2 DEF CallSteps, StartDone, ThreadsJoin, StartStream, StreamOff, StreamJoin
      <4>3. CASE Threads
        BY <2>2, <4>3 DEF Threads, PollApp, AppDispatch
      <4>4. CASE Returns
        BY <4>4 DEF Returns, ReturnSuper, ReturnFrame
      <4>5. CASE (\E s \in Streams : PollRead(s)) \/ UNCHANGED vars
        BY <4>5 DEF PollRead, vars
      <4> QED
        BY <4>1, <4>2, <4>3, <4>4, <4>5 DEF Next
    <3> QED
      BY <3>1
  <2> QED
    BY <2>1, <2>2
<1>2. Spec => [][Matches]_vars
  BY <1>1, OrderInductive, PTL DEF Spec
<1> QED
  BY <1>2 DEF FramesMatch

=============================================================================
