--------------------------- MODULE CmdQueueProofs ---------------------------
(***************************************************************************)
(* Proofs about CmdQueue, for any memory and any events: its lists hold the *)
(* messages posted and not taken, and every step of the threads is a step  *)
(* of EventQueue or none.  That no event waits for ever is TLC's to check. *)
(***************************************************************************)
EXTENDS CmdQueue, SequenceTheorems, FiniteSetTheorems, WellFoundedInduction, TLAPS

Distinct(s) == \A j, k \in 1 .. Len(s) : s[j] = s[k] => j = k

LEMMA QueueOfIsQueue == \A e : QueueOf(e) \in Queue
  BY DEF QueueOf, Queue

LEMMA ServedIsQueue == Served \in Queue
  BY DEF Served, Queue

-----------------------------------------------------------------------------
(* A list has one sequence of messages.                                    *)

LEMMA LeastExists ==
    ASSUME NEW S \in SUBSET Nat, S # {}
    PROVE  \E x \in S : \A y \in S : x <= y
<1> DEFINE R == {rs \in Nat \X Nat : rs[1] < rs[2]}
<1>1. IsWellFoundedOn(R, Nat)
  BY NatLessThanWellFounded DEF R, OpToRel
<1>2. PICK x \in S : \A y \in S : <<y, x>> \notin R
  BY <1>1, WFMin
<1>3. \A y \in S : ~(y < x)
  BY <1>2 DEF R
<1> QED
  BY <1>3

LEMMA SameUpTo ==
    ASSUME NEW s \in Seq(Node), NEW t \in Seq(Node), NEW first, NEW nxt,
           Linked(first, nxt, s), Linked(first, nxt, t)
    PROVE  \A k \in 1 .. Len(s) : k \in 1 .. Len(t) => s[k] = t[k]
<1> DEFINE D == {k \in 1 .. Len(s) : k \in 1 .. Len(t) /\ s[k] # t[k]}
<1> SUFFICES ASSUME D # {} PROVE FALSE
  OBVIOUS
<1>0. D \in SUBSET Nat
  BY LenProperties
<1>1. PICK k \in D : \A j \in D : k <= j
  BY <1>0, LeastExists
<1>2. s # << >> /\ t # << >> /\ Len(s) \in Nat /\ Len(t) \in Nat
  BY <1>1
<1>3. s[1] = t[1]
  BY <1>2 DEF Linked
<1>4. k - 1 \in 1 .. Len(s) /\ k - 1 \in 1 .. Len(t) /\ k - 1 \notin D
  BY SMTT(60), <1>1, <1>2, <1>3
<1>5. nxt[s[k - 1]] = s[k] /\ nxt[t[k - 1]] = t[k]
  BY <1>1, <1>2, <1>4 DEF Linked
<1> QED
  BY <1>1, <1>4, <1>5

LEMMA NotShorter ==
    ASSUME NEW s \in Seq(Node), NEW t \in Seq(Node), NEW first, NEW nxt,
           Linked(first, nxt, s), Linked(first, nxt, t)
    PROVE  ~(Len(s) < Len(t))
<1> SUFFICES ASSUME Len(s) < Len(t) PROVE FALSE
  OBVIOUS
<1>0. NoNode \notin Node /\ Len(s) \in Nat /\ Len(t) \in Nat
  BY NothingIsNoNode
<1>1. CASE Len(s) = 0
  <2>1. s = << >> /\ t # << >> /\ t[1] \in Node
    BY <1>0, <1>1
  <2> QED
    BY <1>0, <2>1 DEF Linked
<1>2. CASE Len(s) > 0
  <2> DEFINE k == Len(s)
  <2>1. k \in 1 .. Len(s) /\ k \in 1 .. Len(t) /\ k # Len(t) /\ t[k + 1] \in Node
    BY <1>0, <1>2
  <2>2. s[k] = t[k]
    BY <2>1, SameUpTo
  <2>3. nxt[s[k]] = NoNode /\ nxt[t[k]] = t[k + 1]
    BY <2>1 DEF Linked
  <2> QED
    BY <1>0, <2>1, <2>2, <2>3
<1> QED
  BY <1>0, <1>1, <1>2

LEMMA OneList ==
    ASSUME NEW s \in Seq(Node), NEW t \in Seq(Node), NEW first, NEW nxt,
           Linked(first, nxt, s), Linked(first, nxt, t)
    PROVE  s = t
<1>1. Len(s) = Len(t) /\ Len(s) \in Nat
  BY NotShorter
<1>2. \A k \in 1 .. Len(s) : s[k] = t[k]
  BY <1>1, SameUpTo
<1> QED
  BY <1>1, <1>2, SeqEqual

\* A sequence of distinct messages along the links is what Messages finds.
LEMMA MessagesAre ==
    ASSUME NEW s \in Seq(Node), Distinct(s), NEW first, NEW nxt, Linked(first, nxt, s)
    PROVE  Messages(first, nxt) = s
<1> DEFINE all == BoundedSeq(Node, Cardinality(Node))
<1>1. s \in Injection(1 .. Len(s), Node)
  BY DEF Distinct, Injection, IsInjective
<1>2. Cardinality(1 .. Len(s)) <= Cardinality(Node)
  BY <1>1, FS_Injection, MemoryIsFinite
<1>3. Len(s) \in Nat /\ Cardinality(1 .. Len(s)) = Len(s)
  BY SMTT(60), LenProperties, FS_Interval
<1>4. Cardinality(Node) \in Nat
  BY FS_CardinalityType, MemoryIsFinite
<1>5. Len(s) \in 0 .. Cardinality(Node) /\ s \in [1 .. Len(s) -> Node]
  BY <1>2, <1>3, <1>4, LenProperties
<1>6. s \in all
  BY <1>5 DEF BoundedSeq, SeqOf
<1>7. all \subseteq Seq(Node)
  <2>1. all = UNION {[1 .. n -> Node] : n \in 0 .. Cardinality(Node)}
    BY DEF BoundedSeq, SeqOf
  <2>2. Seq(Node) = UNION {[1 .. n -> Node] : n \in Nat}
    BY SeqDef
  <2> QED
    BY <1>4, <2>1, <2>2
<1>8. Messages(first, nxt) \in all /\ Linked(first, nxt, Messages(first, nxt))
  BY <1>6 DEF Messages
<1> QED
  BY <1>7, <1>8, OneList

-----------------------------------------------------------------------------
(* The invariant: each queue is a list of distinct messages of its own kind, *)
(* in memory the other queue and the callback do not use, with its tail at   *)
(* the last one.                                                           *)

Holds(q, s, hd, tl, nx, ev, it) ==
    /\ s \in Seq(Node) /\ Distinct(s) /\ Linked(hd[q], nx, s)
    /\ s # << >> => tl[q] = s[Len(s)]
    /\ \A k \in 1 .. Len(s) :
          ev[s[k]] \in Event /\ QueueOf(ev[s[k]]) = q /\ s[k] # it

QueuesHold == \A q \in Queue : \E s : Holds(q, s, head, tail, next, evt, item)

IInv == TypeOK /\ QueuesHold

LEMMA InitIInv == Init => IInv
<1> SUFFICES ASSUME Init PROVE IInv
  OBVIOUS
<1>1. TypeOK
  BY NothingIsNoNode DEF Init, TypeOK
<1>2. \A q \in Queue : Holds(q, << >>, head, tail, next, evt, item)
  BY DEF Init, Holds, Distinct, Linked
<1> QED
  BY <1>1, <1>2 DEF IInv, QueuesHold

\* What is read of a list: whether it is empty, and its first message.
LEMMA HeadOfList ==
    ASSUME NEW q, NEW s, NEW hd, NEW tl, NEW nx, NEW ev, NEW it,
           Holds(q, s, hd, tl, nx, ev, it)
    PROVE  /\ hd[q] = NoNode <=> s = << >>
           /\ s # << >> => hd[q] = s[1] /\ s[1] \in Node /\ Len(s) \in Nat \ {0}
           /\ Messages(hd[q], nx) = s
<1>1. s \in Seq(Node) /\ Linked(hd[q], nx, s) /\ Distinct(s)
  BY DEF Holds
<1>2. s # << >> => s[1] \in Node /\ Len(s) \in Nat \ {0}
  BY <1>1
<1> QED
  BY <1>1, <1>2, NothingIsNoNode, MessagesAre DEF Linked

LEMMA OtherKind ==
    ASSUME NEW q, NEW r, q # r, NEW s, NEW t, NEW hd, NEW tl, NEW nx, NEW ev, NEW it,
           Holds(q, s, hd, tl, nx, ev, it), Holds(r, t, hd, tl, nx, ev, it)
    PROVE  \A j \in 1 .. Len(s), k \in 1 .. Len(t) : s[j] # t[k]
  BY DEF Holds

-----------------------------------------------------------------------------
(* A message joins its queue at the tail.                                  *)

LEMMA ListGrows ==
    ASSUME TypeOK, NEW q \in Queue, NEW s, Holds(q, s, head, tail, next, evt, item),
           NEW e \in Event, QueueOf(e) = q, NEW n \in Node, evt[n] = NoEvent,
           evt' = [evt EXCEPT ![n] = e], Enqueue(q, n), item' = item
    PROVE  Holds(q, Append(s, n), head', tail', next', evt', item')
<1> DEFINE t == Append(s, n)
           L == Len(s)
<1>0. /\ s \in Seq(Node) /\ Distinct(s) /\ Linked(head[q], next, s)
      /\ s # << >> => tail[q] = s[L]
      /\ \A k \in 1 .. L : evt[s[k]] \in Event /\ QueueOf(evt[s[k]]) = q /\ s[k] # item
  BY DEF Holds
<1>1. /\ t \in Seq(Node) /\ L \in Nat /\ Len(t) = L + 1 /\ t[L + 1] = n
      /\ \A k \in 1 .. L : t[k] = s[k] /\ s[k] \in Node
  BY <1>0, AppendProperties
<1>2. \A k \in 1 .. L : s[k] # n
  BY <1>0, NothingIsNoNode
<1>3. n # item
  BY NothingIsNoNode DEF TypeOK
<1>4. Distinct(t)
  BY <1>0, <1>1, <1>2 DEF Distinct
<1>5. /\ tail' = [tail EXCEPT ![q] = n] /\ tail'[q] = n
      /\ head \in [Queue -> Node \cup {NoNode}] /\ next \in [Node -> Node \cup {NoNode}]
      /\ evt \in [Node -> Event \cup {NoEvent}]
  BY DEF Enqueue, TypeOK
<1>6. Linked(head'[q], next', t)
  <2>1. CASE s = << >>
    <3>1. head[q] = NoNode
      BY <1>0, <2>1 DEF Linked
    <3>2. head'[q] = n /\ next'[n] = NoNode
      BY <1>5, <3>1 DEF Enqueue
    <3>3. t = <<n>>
      BY <2>1
    <3> QED
      BY <3>2, <3>3 DEF Linked
  <2>2. CASE s # << >>
    <3>1. L \in 1 .. L /\ head[q] = s[1] /\ head[q] # NoNode /\ tail[q] = s[L]
      BY <1>0, <1>1, <2>2, HeadOfList, NothingIsNoNode
    <3>2. s[L] \in Node /\ s[L] # n /\ s[L] # NoNode
      BY <1>1, <1>2, <3>1, NothingIsNoNode
    <3>3. head' = head /\ next' = [next EXCEPT ![n] = NoNode, ![s[L]] = n]
      BY <3>1, <3>2 DEF Enqueue
    <3>4. /\ next'[n] = NoNode /\ next'[s[L]] = n
          /\ \A m \in Node : m \notin {n, s[L]} => next'[m] = next[m]
      BY <1>5, <3>2, <3>3
    <3>5. t # << >> /\ head'[q] = t[1]
      BY <1>1, <3>1, <3>3
    <3>6. ASSUME NEW k \in 1 .. Len(t)
          PROVE  next'[t[k]] = IF k = Len(t) THEN NoNode ELSE t[k + 1]
      <4>1. CASE k = L + 1
        BY <1>1, <3>4, <4>1
      <4>2. CASE k = L
        BY <1>1, <3>1, <3>4, <4>2
      <4>3. CASE k < L
        <5>1. k \in 1 .. L /\ k + 1 \in 1 .. L /\ s[k] # s[L]
          BY <1>0, <1>1, <3>1, <4>3 DEF Distinct
        <5>2. next[s[k]] = s[k + 1]
          BY <1>0, <4>3, <5>1 DEF Linked
        <5> QED
          BY <1>1, <1>2, <3>4, <5>1, <5>2
      <4> QED
        BY <1>1, <4>1, <4>2, <4>3
    <3> QED
      BY <3>5, <3>6 DEF Linked
  <2> QED
    BY <2>1, <2>2
<1>7. \A k \in 1 .. Len(t) : evt'[t[k]] \in Event /\ QueueOf(evt'[t[k]]) = q /\ t[k] # item'
  <2> SUFFICES ASSUME NEW k \in 1 .. Len(t)
               PROVE  evt'[t[k]] \in Event /\ QueueOf(evt'[t[k]]) = q /\ t[k] # item'
    OBVIOUS
  <2>1. CASE k = L + 1
    BY <1>1, <1>3, <1>5, <2>1
  <2>2. CASE k \in 1 .. L
    BY <1>0, <1>1, <1>2, <1>5, <2>2
  <2> QED
    BY <1>1, <2>1, <2>2
<1> QED
  BY <1>1, <1>4, <1>5, <1>6, <1>7 DEF Holds

LEMMA OtherListStays ==
    ASSUME TypeOK, NEW q \in Queue, NEW r \in Queue, q # r,
           NEW s, Holds(q, s, head, tail, next, evt, item),
           NEW t, Holds(r, t, head, tail, next, evt, item),
           NEW e, NEW n \in Node, evt[n] = NoEvent,
           evt' = [evt EXCEPT ![n] = e], Enqueue(q, n), item' = item
    PROVE  Holds(r, t, head', tail', next', evt', item')
<1>0. /\ t \in Seq(Node) /\ Distinct(t) /\ Linked(head[r], next, t)
      /\ t # << >> => tail[r] = t[Len(t)]
      /\ \A k \in 1 .. Len(t) : evt[t[k]] \in Event /\ QueueOf(evt[t[k]]) = r /\ t[k] # item
      /\ \A k \in 1 .. Len(t) : t[k] \in Node
  BY DEF Holds
<1>1. \A k \in 1 .. Len(t) : t[k] # n
  BY <1>0, NothingIsNoNode
<1>2. head[q] # NoNode => \A k \in 1 .. Len(t) : t[k] # tail[q]
  <2> SUFFICES ASSUME head[q] # NoNode PROVE \A k \in 1 .. Len(t) : t[k] # tail[q]
    OBVIOUS
  <2>1. s # << >> /\ Len(s) \in Nat \ {0}
    BY HeadOfList
  <2>2. Len(s) \in 1 .. Len(s) /\ tail[q] = s[Len(s)]
    BY <2>1 DEF Holds
  <2> QED
    BY <2>2, OtherKind
<1>3. head[q] # NoNode => tail[q] # NoNode
  <2> SUFFICES ASSUME head[q] # NoNode PROVE tail[q] # NoNode
    OBVIOUS
  <2>1. s # << >> /\ Len(s) \in Nat \ {0}
    BY HeadOfList
  <2>2. tail[q] = s[Len(s)] /\ s \in Seq(Node)
    BY <2>1 DEF Holds
  <2> QED
    BY <2>1, <2>2, NothingIsNoNode
<1>4. \A k \in 1 .. Len(t) : next'[t[k]] = next[t[k]] /\ evt'[t[k]] = evt[t[k]]
  BY <1>0, <1>1, <1>2, <1>3 DEF Enqueue, TypeOK
<1>5. head'[r] = head[r] /\ tail'[r] = tail[r]
  BY DEF Enqueue, TypeOK
<1>6. Linked(head'[r], next', t)
  BY <1>0, <1>4, <1>5 DEF Linked
<1> QED
  BY <1>0, <1>4, <1>5, <1>6 DEF Holds

-----------------------------------------------------------------------------
(* The first message leaves, and is deleted after its callback.            *)

LEMMA ListShrinks ==
    ASSUME TypeOK, NEW q \in Queue, NEW s, Holds(q, s, head, tail, next, evt, item),
           head[q] # NoNode, item' = head[q],
           head' = [head EXCEPT ![q] = next[head[q]]],
           UNCHANGED <<tail, next, evt>>
    PROVE  Holds(q, Tail(s), head', tail', next', evt', item')
<1> DEFINE t == Tail(s)
           L == Len(s)
<1>0. /\ s \in Seq(Node) /\ Distinct(s) /\ Linked(head[q], next, s)
      /\ tail[q] = s[L] /\ s # << >> /\ L \in Nat \ {0} /\ head[q] = s[1]
      /\ \A k \in 1 .. L : evt[s[k]] \in Event /\ QueueOf(evt[s[k]]) = q
  <2>1. s # << >> /\ L \in Nat \ {0} /\ head[q] = s[1]
    BY HeadOfList
  <2> QED
    BY <2>1 DEF Holds
<1>1. /\ t \in Seq(Node) /\ Len(t) = L - 1 /\ \A k \in 1 .. L - 1 : t[k] = s[k + 1]
  BY <1>0, HeadTailProperties
<1>2. Distinct(t) /\ \A k \in 1 .. L - 1 : t[k] # s[1]
  BY <1>0, <1>1 DEF Distinct
<1>3. head'[q] = next[s[1]]
  BY <1>0 DEF TypeOK
<1>4. Linked(head'[q], next', t)
  <2>1. \A k \in 1 .. L : next[s[k]] = IF k = L THEN NoNode ELSE s[k + 1]
    BY <1>0 DEF Linked
  <2>2. t = << >> <=> L = 1
    BY SMTT(60), <1>0, <1>1, EmptySeq
  <2>0. L \in Nat /\ L >= 1 /\ Len(t) = L - 1 /\ \A k \in 1 .. L - 1 : t[k] = s[k + 1]
    BY <1>0, <1>1
  <2> HIDE DEF t, L
  <2>3. next[s[1]] = IF t = << >> THEN NoNode ELSE t[1]
    <3>1. next[s[1]] = IF 1 = L THEN NoNode ELSE s[1 + 1]
      BY <2>0, <2>1
    <3>2. L # 1 => t[1] = s[1 + 1]
      BY <2>0
    <3> QED
      BY <2>2, <3>1, <3>2
  <2>4. ASSUME NEW k \in 1 .. Len(t)
        PROVE  next[t[k]] = IF k = Len(t) THEN NoNode ELSE t[k + 1]
    <3>1. /\ k \in 1 .. L - 1 /\ k + 1 \in 1 .. L /\ t[k] = s[k + 1]
          /\ k + 1 = L <=> k = Len(t)
          /\ k # Len(t) => k + 1 \in 1 .. L - 1
      BY <2>0
    <3>2. next[s[k + 1]] = IF k + 1 = L THEN NoNode ELSE s[k + 1 + 1]
      BY <2>1, <3>1
    <3>3. k # Len(t) => t[k + 1] = s[k + 1 + 1]
      BY <2>0, <3>1
    <3> QED
      BY <3>1, <3>2, <3>3
  <2>5. next' = next
    OBVIOUS
  <2> QED
    BY <1>3, <2>3, <2>4, <2>5 DEF Linked
<1>5. t # << >> => tail'[q] = t[Len(t)]
  BY <1>0, <1>1
<1>6. \A k \in 1 .. Len(t) : evt'[t[k]] \in Event /\ QueueOf(evt'[t[k]]) = q /\ t[k] # item'
  BY <1>0, <1>1, <1>2
<1> QED
  BY <1>1, <1>2, <1>4, <1>5, <1>6 DEF Holds

LEMMA RestStays ==
    ASSUME TypeOK, NEW q \in Queue, NEW r \in Queue, q # r,
           NEW s, Holds(q, s, head, tail, next, evt, item),
           NEW t, Holds(r, t, head, tail, next, evt, item),
           head[q] # NoNode, item' = head[q],
           head' = [head EXCEPT ![q] = next[head[q]]],
           UNCHANGED <<tail, next, evt>>
    PROVE  Holds(r, t, head', tail', next', evt', item')
<1>1. s # << >> /\ 1 \in 1 .. Len(s) /\ head[q] = s[1]
  BY HeadOfList
<1>2. \A k \in 1 .. Len(t) : t[k] # item'
  BY <1>1, OtherKind
<1>3. head'[r] = head[r]
  BY DEF TypeOK
<1> QED
  BY <1>2, <1>3 DEF Holds

LEMMA DeletedElsewhere ==
    ASSUME TypeOK, NEW q \in Queue, NEW s, Holds(q, s, head, tail, next, evt, item),
           Process
    PROVE  Holds(q, s, head', tail', next', evt', item')
<1>1. \A k \in 1 .. Len(s) : s[k] \in Node /\ s[k] # item
  BY DEF Holds
<1>2. \A k \in 1 .. Len(s) : evt'[s[k]] = evt[s[k]] /\ s[k] # item'
  BY <1>1, NothingIsNoNode DEF Process, TypeOK
<1> QED
  BY <1>2 DEF Holds, Process

-----------------------------------------------------------------------------
(* Every step keeps the invariant and is a step of EventQueue.             *)

\* The events of a queue, from the sequence of its messages.
LEMMA EventsAre ==
    ASSUME NEW q, NEW s, NEW hd, NEW tl, NEW nx, NEW ev, NEW it,
           Holds(q, s, hd, tl, nx, ev, it)
    PROVE  LET m == Messages(hd[q], nx)
           IN  [k \in 1 .. Len(m) |-> ev[m[k]]] = [k \in 1 .. Len(s) |-> ev[s[k]]]
  BY HeadOfList

LEMMA PostStep ==
    ASSUME IInv, NEW e \in Event, PostEvt(e)
    PROVE  /\ QueuesHold'
           /\ Events(QueueOf(e))' = Append(Events(QueueOf(e)), e)
           /\ \A r \in Queue : r # QueueOf(e) => Events(r)' = Events(r)
<1> DEFINE q == QueueOf(e)
<1>0. TypeOK /\ QueuesHold /\ q \in Queue
  BY QueueOfIsQueue DEF IInv
<1>1. PICK n \in Node : /\ evt[n] = NoEvent /\ evt' = [evt EXCEPT ![n] = e]
                        /\ Enqueue(q, n) /\ item' = item
  BY DEF PostEvt
<1>2. PICK s : Holds(q, s, head, tail, next, evt, item)
  BY <1>0 DEF QueuesHold
<1>3. Holds(q, Append(s, n), head', tail', next', evt', item')
  BY <1>0, <1>1, <1>2, ListGrows
<1>4. ASSUME NEW r \in Queue, r # q, NEW t, Holds(r, t, head, tail, next, evt, item)
      PROVE  Holds(r, t, head', tail', next', evt', item')
  BY <1>0, <1>1, <1>2, <1>4, OtherListStays
<1>5. QueuesHold'
  BY <1>0, <1>3, <1>4 DEF QueuesHold
<1>6. Events(q)' = Append(Events(q), e)
  <2> DEFINE t == Append(s, n)
  <2>1. Events(q) = [k \in 1 .. Len(s) |-> evt[s[k]]]
    BY <1>2, EventsAre DEF Events
  <2>2. Events(q)' = [k \in 1 .. Len(t) |-> evt'[t[k]]]
    <3>1. Holds(q, t, head', tail', next', evt', item')
      BY <1>3
    <3> HIDE DEF t, q
    <3> QED
      BY <3>1, EventsAre DEF Events
  <2>3. s \in Seq(Node) /\ \A k \in 1 .. Len(s) : s[k] # n /\ s[k] \in Node
    BY <1>1, <1>2, NothingIsNoNode DEF Holds
  <2>4. /\ Len(s) \in Nat /\ Len(t) = Len(s) + 1 /\ t[Len(s) + 1] = n
        /\ \A k \in 1 .. Len(s) : t[k] = s[k]
    BY <2>3, AppendProperties
  <2>5. \A k \in 1 .. Len(s) : evt'[t[k]] = evt[s[k]]
    BY <1>0, <1>1, <2>3, <2>4 DEF TypeOK
  <2>6. evt'[t[Len(s) + 1]] = e
    BY <1>0, <1>1, <2>4 DEF TypeOK
  <2>7. Len(Events(q)) = Len(s)
    BY <2>1, <2>4
  <2> HIDE DEF t
  <2> QED
    BY <2>1, <2>2, <2>4, <2>5, <2>6, <2>7
<1>7. ASSUME NEW r \in Queue, r # q PROVE Events(r)' = Events(r)
  <2>1. PICK t : Holds(r, t, head, tail, next, evt, item)
    BY <1>0 DEF QueuesHold
  <2>2. Holds(r, t, head', tail', next', evt', item')
    BY <1>4, <1>7, <2>1
  <2>3. Events(r) = [k \in 1 .. Len(t) |-> evt[t[k]]]
    BY <2>1, EventsAre DEF Events
  <2>4. Events(r)' = [k \in 1 .. Len(t) |-> evt'[t[k]]]
    BY <2>2, EventsAre DEF Events
  <2>5. \A k \in 1 .. Len(t) : t[k] \in Node /\ t[k] # n
    BY <1>1, <2>1, NothingIsNoNode DEF Holds
  <2>6. \A k \in 1 .. Len(t) : evt'[t[k]] = evt[t[k]]
    BY <1>0, <1>1, <2>5 DEF TypeOK
  <2> QED
    BY <2>3, <2>4, <2>6
<1> QED
  BY <1>5, <1>6, <1>7

LEMMA TakeStep ==
    ASSUME IInv, Dequeue, NEW q \in Queue, q = Served, head[q] # NoNode
    PROVE  /\ QueuesHold'
           /\ Events(q) # << >> /\ evt[item'] = Head(Events(q))
           /\ Events(q)' = Tail(Events(q))
           /\ \A r \in Queue : r # q => Events(r)' = Events(r)
           /\ item' \in Node /\ evt[item'] \in Event
<1>0. /\ TypeOK /\ QueuesHold
      /\ item' = head[q] /\ head' = [head EXCEPT ![q] = next[head[q]]]
      /\ UNCHANGED <<tail, next, evt>>
  BY DEF IInv, Dequeue
<1>1. PICK s : Holds(q, s, head, tail, next, evt, item)
  BY <1>0 DEF QueuesHold
<1>2. Holds(q, Tail(s), head', tail', next', evt', item')
  BY <1>0, <1>1, ListShrinks
<1>3. ASSUME NEW r \in Queue, r # q, NEW t, Holds(r, t, head, tail, next, evt, item)
      PROVE  Holds(r, t, head', tail', next', evt', item')
  BY <1>0, <1>1, <1>3, RestStays
<1>4. QueuesHold'
  BY <1>0, <1>2, <1>3 DEF QueuesHold
<1>5. /\ s # << >> /\ s \in Seq(Node) /\ Len(s) \in Nat \ {0} /\ head[q] = s[1]
      /\ s[1] \in Node /\ evt[s[1]] \in Event
  <2>1. s # << >> /\ Len(s) \in Nat \ {0} /\ head[q] = s[1] /\ s[1] \in Node
    BY <1>1, HeadOfList
  <2> QED
    BY <1>1, <2>1 DEF Holds
<1>6. Events(q) = [k \in 1 .. Len(s) |-> evt[s[k]]]
  BY <1>1, EventsAre DEF Events
<1>7. Events(q) # << >> /\ evt[item'] = Head(Events(q))
  BY <1>0, <1>5, <1>6
<1>8. Events(q)' = Tail(Events(q))
  <2> DEFINE t == Tail(s)
  <2>1. Events(q)' = [k \in 1 .. Len(t) |-> evt'[t[k]]]
    <3>1. Holds(q, t, head', tail', next', evt', item')
      BY <1>2
    <3> HIDE DEF t
    <3> QED
      BY <3>1, EventsAre DEF Events
  <2>2. Len(t) = Len(s) - 1 /\ \A k \in 1 .. Len(s) - 1 : t[k] = s[k + 1]
    BY <1>5, HeadTailProperties
  <2> HIDE DEF t
  <2>3. evt' = evt
    BY <1>0
  <2> QED
    BY <1>5, <1>6, <2>1, <2>2, <2>3
<1>9. ASSUME NEW r \in Queue, r # q PROVE Events(r)' = Events(r)
  <2>1. PICK t : Holds(r, t, head, tail, next, evt, item)
    BY <1>0 DEF QueuesHold
  <2>2. Holds(r, t, head', tail', next', evt', item')
    BY <1>3, <1>9, <2>1
  <2>3. Events(r) = [k \in 1 .. Len(t) |-> evt[t[k]]]
    BY <2>1, EventsAre DEF Events
  <2>4. Events(r)' = [k \in 1 .. Len(t) |-> evt'[t[k]]]
    BY <2>2, EventsAre DEF Events
  <2> QED
    BY <1>0, <2>3, <2>4
<1> QED
  BY <1>0, <1>4, <1>5, <1>7, <1>8, <1>9

LEMMA DeleteStep ==
    ASSUME IInv, Process
    PROVE  /\ QueuesHold'
           /\ \A q \in Queue : Events(q)' = Events(q)
<1>0. TypeOK /\ QueuesHold
  BY DEF IInv
<1>1. ASSUME NEW q \in Queue
      PROVE  (\E s : Holds(q, s, head', tail', next', evt', item')) /\ Events(q)' = Events(q)
  <2>1. PICK s : Holds(q, s, head, tail, next, evt, item)
    BY <1>0 DEF QueuesHold
  <2>2. Holds(q, s, head', tail', next', evt', item')
    BY <1>0, <2>1, DeletedElsewhere
  <2>3. Events(q) = [k \in 1 .. Len(s) |-> evt[s[k]]]
    BY <2>1, EventsAre DEF Events
  <2>4. Events(q)' = [k \in 1 .. Len(s) |-> evt'[s[k]]]
    BY <2>2, EventsAre DEF Events
  <2>5. \A k \in 1 .. Len(s) : evt'[s[k]] = evt[s[k]]
    BY <1>0, <2>1 DEF Holds, Process, TypeOK
  <2> QED
    BY <2>2, <2>3, <2>4, <2>5
<1> QED
  BY <1>1 DEF QueuesHold

\* A step of the thread that touches no message.
LEMMA SameQueues ==
    ASSUME QueuesHold, UNCHANGED <<head, tail, next, evt, item>>
    PROVE  QueuesHold' /\ \A q \in Queue : Events(q)' = Events(q)
<1>1. QueuesHold'
  BY DEF QueuesHold
<1>2. ASSUME NEW q \in Queue PROVE Events(q)' = Events(q)
  BY DEF Events
<1> QED
  BY <1>1, <1>2

LEMMA NextType == ASSUME IInv, [Next]_vars PROVE TypeOK'
<1>0. TypeOK
  BY DEF IInv
<1>1. ASSUME NEW e \in Event, PostEvt(e) PROVE TypeOK'
  <2>1. PICK n \in Node : /\ evt[n] = NoEvent /\ evt' = [evt EXCEPT ![n] = e]
                          /\ Enqueue(QueueOf(e), n)
    BY <1>1 DEF PostEvt
  <2>2. QueueOf(e) \in Queue
    BY QueueOfIsQueue
  <2>3. /\ head' \in [Queue -> Node \cup {NoNode}] /\ tail' \in [Queue -> Node \cup {NoNode}]
        /\ next' \in [Node -> Node \cup {NoNode}] /\ evt' \in [Node -> Event \cup {NoEvent}]
    BY <1>0, <2>1, <2>2 DEF Enqueue, TypeOK
  <2>4. item' = item /\ pc' = pc /\ woken' \in BOOLEAN
    BY <1>0, <1>1 DEF PostEvt, Signal, TypeOK
  <2>5. item # NoNode => evt'[item] # NoEvent
    BY <1>0, <2>1, NothingIsNoNode DEF TypeOK
  <2> QED
    BY <1>0, <2>3, <2>4, <2>5 DEF TypeOK
<1>2. CASE Dequeue /\ head[Served] # NoNode
  <2>1. item' \in Node /\ evt[item'] \in Event
    BY <1>2, ServedIsQueue, TakeStep
  <2>2. head' \in [Queue -> Node \cup {NoNode}]
    BY <1>0, <1>2 DEF Dequeue, TypeOK
  <2> QED
    BY <1>0, <1>2, <2>1, <2>2, NothingIsNoNode DEF Dequeue, TypeOK
<1>3. CASE Dequeue /\ head[Served] = NoNode
  BY <1>0, <1>3 DEF Dequeue, TypeOK
<1>4. CASE Leave
  BY <1>0, <1>4 DEF Leave, TypeOK
<1>5. CASE Process
  BY <1>0, <1>5 DEF Process, TypeOK
<1>6. CASE UNCHANGED vars
  BY <1>0, <1>6 DEF vars, TypeOK
<1> QED
  BY <1>1, <1>2, <1>3, <1>4, <1>5, <1>6 DEF Next

LEMMA NextIInv == IInv /\ [Next]_vars => IInv'
<1> SUFFICES ASSUME IInv, [Next]_vars PROVE IInv'
  OBVIOUS
<1>1. Leave \/ UNCHANGED vars \/ (Dequeue /\ head[Served] = NoNode)
         => UNCHANGED <<head, tail, next, evt, item>>
  BY DEF Leave, vars, Dequeue
<1>2. QueuesHold'
  BY <1>1, PostStep, ServedIsQueue, TakeStep, DeleteStep, SameQueues DEF Next, IInv
<1> QED
  BY <1>2, NextType DEF IInv

\* The queues' variables keep their form, and the message in a callback is
\* allocated: its memory is not used again before it is deleted.
THEOREM TypeCorrect == Spec => []TypeOK
<1>1. IInv => TypeOK
  BY DEF IInv
<1> QED
  BY <1>1, InitIInv, NextIInv, PTL DEF Spec

-----------------------------------------------------------------------------
(* The refinement.                                                         *)

LEMMA InitImplements == Init => Abs!Init
<1> SUFFICES ASSUME Init PROVE Abs!Init
  OBVIOUS
<1>1. \A q \in Queue : Holds(q, << >>, head, tail, next, evt, item)
  BY DEF Init, Holds, Distinct, Linked
<1>2. \A q \in Queue : Events(q) = [k \in 1 .. Len(<< >>) |-> evt[<< >>[k]]]
  BY <1>1, EventsAre DEF Events
<1>3. \A q \in Queue : Events(q) = << >>
  BY <1>2
<1> QED
  BY <1>3 DEF Init, Abs!Init, Queue

LEMMA StepImplements == IInv /\ [Next]_vars => [Abs!Next]_(Abs!vars)
<1> SUFFICES ASSUME IInv, [Next]_vars PROVE [Abs!Next]_(Abs!vars)
  OBVIOUS
<1> DEFINE handled == IF item = NoNode THEN NoEvent ELSE evt[item]
<1>0. TypeOK /\ QueuesHold /\ "internal" \in Queue /\ "external" \in Queue
  BY DEF IInv, Queue
<1>1. ASSUME NEW e \in Event, PostEvt(e) PROVE Abs!Post(e) /\ handled' = handled
  <2>1. handled' = handled
    BY <1>0, <1>1, NothingIsNoNode DEF PostEvt, TypeOK
  <2>2. e \in Internal <=> QueueOf(e) = "internal"
    BY DEF QueueOf
  <2> QED
    BY <1>0, <1>1, <2>1, <2>2, PostStep DEF QueueOf, Abs!Post
<1>2. CASE Dequeue /\ head[Served] # NoNode
  <2>1. /\ handled = NoEvent /\ handled' = evt[item'] /\ item = NoNode
    BY <1>0, <1>2, ServedIsQueue, TakeStep, NothingIsNoNode DEF Dequeue, TypeOK
  <2>2. Served = "internal" <=> Events("internal") # << >>
    <3>1. PICK s : Holds("internal", s, head, tail, next, evt, item)
      BY <1>0 DEF QueuesHold
    <3>2. Events("internal") = [k \in 1 .. Len(s) |-> evt[s[k]]]
      BY <3>1, EventsAre DEF Events
    <3>3. head["internal"] # NoNode <=> s # << >>
      BY <3>1, HeadOfList
    <3>4. s # << >> <=> Len(s) # 0
      BY <3>1, EmptySeq DEF Holds
    <3> QED
      BY <3>1, <3>2, <3>3, <3>4 DEF Served, Holds
  <2>3. Abs!TakeInternalFirst
    <3>1. CASE Served = "internal"
      <4>1. /\ evt[item'] = Head(Events("internal"))
            /\ Events("internal")' = Tail(Events("internal"))
            /\ Events("external")' = Events("external")
        BY <1>0, <1>2, <3>1, TakeStep
      <4> QED
        BY <2>1, <2>2, <3>1, <4>1 DEF Abs!TakeInternalFirst
    <3>2. CASE Served = "external"
      <4>1. /\ Events("external") # << >>
            /\ evt[item'] = Head(Events("external"))
            /\ Events("external")' = Tail(Events("external"))
            /\ Events("internal")' = Events("internal")
        BY <1>0, <1>2, <3>2, TakeStep
      <4> QED
        BY <2>1, <2>2, <3>2, <4>1 DEF Abs!TakeInternalFirst
    <3> QED
      BY <3>1, <3>2 DEF Served
  <2> QED
    BY <2>1, <2>3 DEF Abs!Next, Abs!Take
<1>3. CASE Process
  <2>1. item # NoNode /\ handled # NoEvent /\ handled' = NoEvent
    BY <1>0, <1>3 DEF Process, TypeOK
  <2>2. Events("internal")' = Events("internal") /\ Events("external")' = Events("external")
    BY <1>0, <1>3, DeleteStep
  <2> QED
    BY <2>1, <2>2 DEF Abs!Next, Abs!Finish
<1>4. CASE UNCHANGED <<head, tail, next, evt, item>>
  BY <1>0, <1>4, SameQueues DEF Abs!vars
<1>5. Leave \/ UNCHANGED vars \/ (Dequeue /\ head[Served] = NoNode)
         => UNCHANGED <<head, tail, next, evt, item>>
  BY DEF Leave, vars, Dequeue
<1> QED
  BY <1>1, <1>2, <1>3, <1>4, <1>5 DEF Next, Abs!Next

\* Every step of the posting threads and the command-queue thread is a step of
\* two first-in first-out queues, the internal one served first, or none: no
\* event is lost, repeated or overtaken within its queue, whatever memory the
\* messages reuse and whenever the thread wakes.
THEOREM QueuesAreFifo == Spec => Abs!Init /\ [][Abs!Next]_(Abs!vars)
  BY InitIInv, NextIInv, InitImplements, StepImplements, PTL DEF Spec
=============================================================================
