------------------------- MODULE IfaceManagerProofs -------------------------
(***************************************************************************)
(* Proofs about IfaceManager, for every set of interfaces with any         *)
(* categories, any memory for instances and any number of waiting events:  *)
(* type correctness, that the walk of the dispatcher never follows a freed *)
(* registration, that a closing instance is deleted by one event, and that *)
(* no link event is lost.                                                  *)
(*                                                                         *)
(* The invariant has the shape of the list (the manager's registrations,   *)
(* then those of each instance in one block), the shape of the instances,  *)
(* and for each interface what an event in progress still owes it (Steady) *)
(* and that the events that wait lead to what was asked (Trace).  A visit  *)
(* is one of four things: Quiet, Creates, Deletes or Closes.               *)
(***************************************************************************)
EXTENDS IfaceManager, SequenceTheorems, FiniteSetTheorems, WellFoundedInduction, TLAPS

-----------------------------------------------------------------------------
(* What the classes register.                                              *)

Events == LinkEvent \cup {"ADDR_ADD", "SSR_NOTICE", "LAN_DELETE_SELF"}
Node == Events \X (Obj \cup {Manager})
Down(c) == IF c \in {"Lan", "Wan"} THEN "LINK_DOWN" ELSE "WLAN_LINK_DOWN"

\* Registrations differ, the down event among them, the event to itself last.
LEMMA RegisteredFacts ==
    ASSUME NEW c \in Class
    PROVE  /\ Registered(c) \in Seq(Events) /\ Len(Registered(c)) \in 2 .. 4
           /\ \A j, k \in 1 .. Len(Registered(c)) :
                 Registered(c)[j] = Registered(c)[k] => j = k
           /\ \A k \in 1 .. Len(Registered(c)) :
                 Registered(c)[k] \in LinkEvent => Registered(c)[k] = Down(c)
           /\ \E k \in 1 .. Len(Registered(c)) : Registered(c)[k] = Down(c)
           /\ c \in {"Lan", "Wlan"} =>
                 Registered(c)[Len(Registered(c))] = "LAN_DELETE_SELF"
           /\ c \notin {"Lan", "Wlan"} =>
                 /\ Registered(c)[Len(Registered(c))] = Down(c)
                 /\ \A k \in 1 .. Len(Registered(c)) : Registered(c)[k] # "LAN_DELETE_SELF"
<1>1. CASE c = "Lan"
  <2> DEFINE R == Registered(c)
  <2>1. R = <<"ADDR_ADD", "LINK_DOWN", "LAN_DELETE_SELF">>
    BY <1>1 DEF Registered
  <2>2. R \in Seq(Events) /\ Len(R) = 3
    BY <2>1 DEF Events, LinkEvent
  <2>3. R[1] = "ADDR_ADD" /\ R[2] = "LINK_DOWN" /\ R[3] = "LAN_DELETE_SELF"
    BY <2>1
  <2>4. \A k \in 1 .. 3 : k = 1 \/ k = 2 \/ k = 3
    OBVIOUS
  <2> HIDE DEF R
  <2>5. /\ Len(R) \in 2 .. 4
        /\ \A j, k \in 1 .. Len(R) : R[j] = R[k] => j = k
        /\ \A k \in 1 .. Len(R) : R[k] \in LinkEvent => R[k] = Down(c)
        /\ \E k \in 1 .. Len(R) : R[k] = Down(c)
    BY <1>1, <2>2, <2>3, <2>4 DEF LinkEvent, Down
  <2> QED
    BY <1>1, <2>2, <2>3, <2>4, <2>5 DEF Down, R
<1>2. CASE c = "Wlan"
  <2> DEFINE R == Registered(c)
  <2>1. R = <<"ADDR_ADD", "SSR_NOTICE", "WLAN_LINK_DOWN", "LAN_DELETE_SELF">>
    BY <1>2 DEF Registered
  <2>2. R \in Seq(Events) /\ Len(R) = 4
    BY <2>1 DEF Events, LinkEvent
  <2>3. R[1] = "ADDR_ADD" /\ R[2] = "SSR_NOTICE" /\ R[3] = "WLAN_LINK_DOWN" /\ R[4] = "LAN_DELETE_SELF"
    BY <2>1
  <2>4. \A k \in 1 .. 4 : k = 1 \/ k = 2 \/ k = 3 \/ k = 4
    OBVIOUS
  <2> HIDE DEF R
  <2>5. /\ Len(R) \in 2 .. 4
        /\ \A j, k \in 1 .. Len(R) : R[j] = R[k] => j = k
        /\ \A k \in 1 .. Len(R) : R[k] \in LinkEvent => R[k] = Down(c)
        /\ \E k \in 1 .. Len(R) : R[k] = Down(c)
    BY <1>2, <2>2, <2>3, <2>4 DEF LinkEvent, Down
  <2> QED
    BY <1>2, <2>2, <2>3, <2>4, <2>5 DEF Down, R
<1>3. CASE c = "WanSta"
  <2> DEFINE R == Registered(c)
  <2>1. R = <<"ADDR_ADD", "WLAN_LINK_DOWN">>
    BY <1>3 DEF Registered
  <2>2. R \in Seq(Events) /\ Len(R) = 2
    BY <2>1 DEF Events, LinkEvent
  <2>3. R[1] = "ADDR_ADD" /\ R[2] = "WLAN_LINK_DOWN"
    BY <2>1
  <2>4. \A k \in 1 .. 2 : k = 1 \/ k = 2
    OBVIOUS
  <2> HIDE DEF R
  <2>5. /\ Len(R) \in 2 .. 4
        /\ \A j, k \in 1 .. Len(R) : R[j] = R[k] => j = k
        /\ \A k \in 1 .. Len(R) : R[k] \in LinkEvent => R[k] = Down(c)
        /\ \E k \in 1 .. Len(R) : R[k] = Down(c)
    BY <1>3, <2>2, <2>3, <2>4 DEF LinkEvent, Down
  <2> QED
    BY <1>3, <2>2, <2>3, <2>4, <2>5 DEF Down, R
<1>4. CASE c = "Wan"
  <2> DEFINE R == Registered(c)
  <2>1. R = <<"ADDR_ADD", "LINK_DOWN">>
    BY <1>4 DEF Registered
  <2>2. R \in Seq(Events) /\ Len(R) = 2
    BY <2>1 DEF Events, LinkEvent
  <2>3. R[1] = "ADDR_ADD" /\ R[2] = "LINK_DOWN"
    BY <2>1
  <2>4. \A k \in 1 .. 2 : k = 1 \/ k = 2
    OBVIOUS
  <2> HIDE DEF R
  <2>5. /\ Len(R) \in 2 .. 4
        /\ \A j, k \in 1 .. Len(R) : R[j] = R[k] => j = k
        /\ \A k \in 1 .. Len(R) : R[k] \in LinkEvent => R[k] = Down(c)
        /\ \E k \in 1 .. Len(R) : R[k] = Down(c)
    BY <1>4, <2>2, <2>3, <2>4 DEF LinkEvent, Down
  <2> QED
    BY <1>4, <2>2, <2>3, <2>4, <2>5 DEF Down, R
<1> QED
  BY <1>1, <1>2, <1>3, <1>4 DEF Class

LEMMA NodesFacts ==
    ASSUME NEW o \in Obj, NEW c \in Class
    PROVE  /\ NodesOf(o, c) \in Seq(Node) /\ Len(NodesOf(o, c)) = Len(Registered(c))
           /\ \A k \in 1 .. Len(Registered(c)) : NodesOf(o, c)[k] = <<Registered(c)[k], o>>
<1>1. Registered(c) \in Seq(Events) /\ Len(Registered(c)) \in Nat
  BY RegisteredFacts
<1>2. \A k \in 1 .. Len(Registered(c)) : <<Registered(c)[k], o>> \in Node
  BY <1>1 DEF Node

<1> QED
  BY <1>1, <1>2 DEF NodesOf

LEMMA ManagerFacts ==
    /\ ManagerNodes \in Seq(Node) /\ Len(ManagerNodes) = 4
    /\ \A k \in 1 .. 4 : ManagerNodes[k][2] = Manager
    /\ \A j, k \in 1 .. 4 : ManagerNodes[j] = ManagerNodes[k] => j = k
    /\ \A k \in 1 .. 4 : ManagerNodes[k][1] \in
          {"LINK_UP", "WLAN_AP_LINK_UP", "WLAN_STA_LINK_UP", "USB_LINK_UP"}
    /\ \A e \in {"LINK_UP", "WLAN_AP_LINK_UP", "WLAN_STA_LINK_UP", "USB_LINK_UP"} :
          \E k \in 1 .. 4 : ManagerNodes[k] = <<e, Manager>>
<1> DEFINE m == Manager
<1>1. /\ <<"LINK_UP", m>> \in Node /\ <<"WLAN_AP_LINK_UP", m>> \in Node
      /\ <<"WLAN_STA_LINK_UP", m>> \in Node /\ <<"USB_LINK_UP", m>> \in Node
  BY DEF Node, Events, LinkEvent
<1>2. /\ ManagerNodes[1] = <<"LINK_UP", m>> /\ ManagerNodes[2] = <<"WLAN_AP_LINK_UP", m>>
      /\ ManagerNodes[3] = <<"WLAN_STA_LINK_UP", m>> /\ ManagerNodes[4] = <<"USB_LINK_UP", m>>
  BY DEF ManagerNodes
<1>3. ManagerNodes \in Seq(Node) /\ Len(ManagerNodes) = 4
  BY <1>1 DEF ManagerNodes
<1>4. \A k \in 1 .. 4 : k = 1 \/ k = 2 \/ k = 3 \/ k = 4
  OBVIOUS
<1> QED
  BY <1>2, <1>3, <1>4

-----------------------------------------------------------------------------
(* The list of registrations, for a list L and instances O.                *)

LiveIn(O) == {o \in Obj : O[o] # Free}

BlockAt(L, o, c, b) ==
    /\ b \in Nat /\ b + Len(Registered(c)) <= Len(L)
    /\ \A k \in 1 .. Len(L) : (L[k][2] = o) <=> (b < k /\ k <= b + Len(Registered(c)))
    /\ \A k \in 1 .. Len(Registered(c)) : L[b + k][1] = Registered(c)[k]

ListShape(L, O) ==
    /\ L \in Seq(Node)
    /\ \A o \in LiveIn(O) : \E b \in Nat : BlockAt(L, o, O[o].class, b)
    /\ \A k \in 1 .. Len(L) : L[k][2] \in LiveIn(O) \cup {Manager}
    /\ 4 <= Len(L)
    /\ \A k \in 1 .. 4 : L[k] = ManagerNodes[k]
    /\ \A k \in 1 .. Len(L) : L[k][2] = Manager => k <= 4

Objects(O) == O \in [Obj -> Instance \cup {Free}]

LEMMA FreeIsNoInstance ==
    ASSUME NEW O, Objects(O), NEW o \in LiveIn(O)
    PROVE  O[o] \in Instance /\ O[o].class \in Class /\ O[o].iface \in Iface
           /\ O[o].active \in BOOLEAN
  BY DEF LiveIn, Objects, Instance

LEMMA InstanceIsLive ==
    ASSUME NEW x \in Instance
    PROVE  x # Free
  BY NothingIsNoObj DEF Instance, Free

LEMMA NodesDiffer ==
    ASSUME NEW L, NEW O, Objects(O), ListShape(L, O),
           NEW j \in 1 .. Len(L), NEW k \in 1 .. Len(L), L[j] = L[k]
    PROVE  j = k
<1>0. Len(L) \in Nat
  BY DEF ListShape
<1>1. CASE L[j][2] = Manager
  <2>1. j \in 1 .. 4 /\ k \in 1 .. 4
    BY <1>0, <1>1 DEF ListShape
  <2> QED
    BY <2>1, ManagerFacts DEF ListShape
<1>2. CASE L[j][2] # Manager
  <2>1. PICK o \in LiveIn(O) : L[j][2] = o /\ L[k][2] = o
    BY <1>2 DEF ListShape
  <2>2. PICK b \in Nat : BlockAt(L, o, O[o].class, b)
    BY <2>1 DEF ListShape
  <2> DEFINE R == Registered(O[o].class)
  <2>3. /\ Len(R) \in Nat
        /\ \A i, l \in 1 .. Len(R) : R[i] = R[l] => i = l
    BY FreeIsNoInstance, RegisteredFacts
  <2>4. /\ b < j /\ j <= b + Len(R) /\ b < k /\ k <= b + Len(R)
        /\ \A i \in 1 .. Len(R) : L[b + i][1] = R[i]
    BY <2>1, <2>2 DEF BlockAt
  <2> HIDE DEF R
  <2>5. j - b \in 1 .. Len(R) /\ k - b \in 1 .. Len(R) /\ b + (j - b) = j /\ b + (k - b) = k
    BY SMTT(60), <1>0, <2>2, <2>3, <2>4
  <2>6. L[j][1] = R[j - b] /\ L[k][1] = R[k - b]
    BY <2>4, <2>5
  <2>7. R[j - b] = R[k - b]
    BY <2>6
  <2>8. j - b = k - b
    BY <2>3, <2>5, <2>7
  <2> QED
    BY <2>2, <2>5, <2>8
<1> QED
  BY <1>1, <1>2

Before(L, x, y) == \E j, k \in 1 .. Len(L) : j <= k /\ L[j] = x /\ L[k] = y

\* A list to which nodes are appended.
LEMMA AppendedList ==
    ASSUME NEW L \in Seq(Node), NEW N \in Seq(Node)
    PROVE  /\ L \o N \in Seq(Node) /\ Len(L \o N) = Len(L) + Len(N)
           /\ \A k \in 1 .. Len(L) : (L \o N)[k] = L[k] /\ k \in 1 .. Len(L \o N)
           /\ \A k \in 1 .. Len(L \o N) :
                 k \in 1 .. Len(L) \/ (k - Len(L) \in 1 .. Len(N) /\ (L \o N)[k] = N[k - Len(L)])
  OBVIOUS

\* Registering an instance at the end of the list.
LEMMA CreateKeepsShape ==
    ASSUME NEW L, NEW O, Objects(O), ListShape(L, O), NEW o \in Obj \ LiveIn(O),
           NEW x \in Instance
    PROVE  ListShape(L \o NodesOf(o, x.class), [O EXCEPT ![o] = x])
<1> DEFINE c == x.class
           N == NodesOf(o, c)
           M == L \o N
           P == [O EXCEPT ![o] = x]
<1>1. /\ c \in Class /\ Len(N) = Len(Registered(c)) /\ N \in Seq(Node) /\ L \in Seq(Node)
      /\ \A k \in 1 .. Len(N) : N[k][1] = Registered(c)[k] /\ N[k][2] = o
      /\ o # Manager /\ o \notin LiveIn(O) /\ o \in Obj
  BY NodesFacts, NothingIsNoObj DEF Instance, ListShape
<1>2. LiveIn(P) = LiveIn(O) \cup {o} /\ P[o] = x /\ \A p \in LiveIn(O) : P[p] = O[p]
  BY InstanceIsLive DEF LiveIn, Objects
<1> HIDE DEF N
<1>3. /\ M \in Seq(Node) /\ Len(M) = Len(L) + Len(N) /\ Len(L) \in Nat /\ Len(N) \in Nat
      /\ \A k \in 1 .. Len(L) : M[k] = L[k] /\ k \in 1 .. Len(M)
      /\ \A k \in 1 .. Len(M) :
            k \in 1 .. Len(L) \/ (k - Len(L) \in 1 .. Len(N) /\ M[k] = N[k - Len(L)])
  <2>1. L \in Seq(Node) /\ N \in Seq(Node)
    BY <1>1
  <2> QED
    BY <2>1, AppendedList
<1> HIDE DEF M, P
<1>4. ASSUME NEW k \in 1 .. Len(M), k \notin 1 .. Len(L)
      PROVE  M[k][2] = o /\ k > Len(L)
  <2>1. k - Len(L) \in 1 .. Len(N) /\ M[k] = N[k - Len(L)]
    BY <1>3, <1>4
  <2> QED
    BY <1>1, <1>3, <2>1
<1>5. \A k \in 1 .. Len(L) : L[k][2] # o
  BY <1>1 DEF ListShape
<1>6. BlockAt(M, o, c, Len(L))
  <2>1. \A k \in 1 .. Len(M) : (M[k][2] = o) <=> (Len(L) < k /\ k <= Len(L) + Len(N))
    BY <1>3, <1>4, <1>5
  <2>2. ASSUME NEW k \in 1 .. Len(N) PROVE M[Len(L) + k][1] = Registered(c)[k]
    <3>1. Len(L) + k \in 1 .. Len(M) /\ Len(L) + k \notin 1 .. Len(L)
          /\ (Len(L) + k) - Len(L) = k
      BY <1>3
    <3> QED
      BY ZenonT(60), <1>1, <1>3, <3>1
  <2> QED
    BY <1>1, <1>3, <2>1, <2>2 DEF BlockAt
<1>7. ASSUME NEW p \in LiveIn(O) PROVE \E b \in Nat : BlockAt(M, p, P[p].class, b)
  <2>1. PICK b \in Nat : BlockAt(L, p, O[p].class, b)
    BY DEF ListShape
  <2>2. p # o /\ P[p] = O[p] /\ Len(Registered(O[p].class)) \in Nat
    BY <1>2, FreeIsNoInstance, RegisteredFacts
  <2>3. /\ b + Len(Registered(O[p].class)) <= Len(M)
        /\ \A k \in 1 .. Len(Registered(O[p].class)) : b + k \in 1 .. Len(L)
    BY <1>3, <2>1, <2>2 DEF BlockAt
  <2>4. \A k \in 1 .. Len(M) :
           (M[k][2] = p) <=> (b < k /\ k <= b + Len(Registered(O[p].class)))
    BY SMTT(60), <1>3, <1>4, <2>1, <2>2 DEF BlockAt
  <2>5. \A k \in 1 .. Len(Registered(O[p].class)) :
           M[b + k][1] = Registered(O[p].class)[k]
    BY <1>3, <2>1, <2>2, <2>3 DEF BlockAt
  <2> QED
    BY <2>2, <2>3, <2>4, <2>5 DEF BlockAt
<1>8. \A p \in LiveIn(P) : \E b \in Nat : BlockAt(M, p, P[p].class, b)
  BY <1>2, <1>3, <1>6, <1>7
<1>9. \A k \in 1 .. Len(M) : M[k][2] \in LiveIn(P) \cup {Manager}
  BY <1>2, <1>3, <1>4 DEF ListShape
<1>10. \A k \in 1 .. Len(M) : M[k][2] = Manager => k <= 4
  BY <1>1, <1>3, <1>4 DEF ListShape
<1>11. 4 <= Len(M) /\ \A k \in 1 .. 4 : M[k] = ManagerNodes[k]
  BY <1>3 DEF ListShape
<1>12. ListShape(M, P)
  BY <1>3, <1>8, <1>9, <1>10, <1>11 DEF ListShape
<1> QED
  BY <1>12 DEF M, N, P

\* A list from which n nodes after the b-th are taken.
Cut(L, b, n) == SubSeq(L, 1, b) \o SubSeq(L, b + n + 1, Len(L))

LEMMA CutList ==
    ASSUME NEW L \in Seq(Node), NEW b \in Nat, NEW n \in Nat, b + n <= Len(L)
    PROVE  /\ Cut(L, b, n) \in Seq(Node) /\ Len(Cut(L, b, n)) = Len(L) - n
           /\ Len(L) \in Nat
           /\ \A k \in 1 .. Len(L) - n :
                 /\ k <= b => Cut(L, b, n)[k] = L[k]
                 /\ k > b => Cut(L, b, n)[k] = L[k + n]
<1> DEFINE M1 == SubSeq(L, 1, b)
           M2 == SubSeq(L, b + n + 1, Len(L))
<1>1. Len(L) \in Nat
  OBVIOUS
<1>2. M1 \in Seq(Node) /\ Len(M1) = b /\ \A k \in 1 .. b : M1[k] = L[k]
  BY <1>1
<1>3. /\ M2 \in Seq(Node) /\ Len(M2) = Len(L) - (b + n)
      /\ \A k \in 1 .. Len(L) - (b + n) : M2[k] = L[b + n + k]
  BY <1>1
<1> HIDE DEF M1, M2
<1>4. /\ M1 \o M2 \in Seq(Node) /\ Len(M1 \o M2) = Len(L) - n
      /\ \A k \in 1 .. Len(L) - n :
            (M1 \o M2)[k] = IF k <= b THEN M1[k] ELSE M2[k - b]
  BY <1>1, <1>2, <1>3
<1>5. ASSUME NEW k \in 1 .. Len(L) - n
      PROVE  /\ k <= b => (M1 \o M2)[k] = L[k]
             /\ k > b => (M1 \o M2)[k] = L[k + n]
  <2>1. CASE k <= b
    BY <1>2, <1>4, <2>1
  <2>2. CASE k > b
    <3>1. k - b \in 1 .. Len(L) - (b + n) /\ b + n + (k - b) = k + n
      BY <1>1, <2>2
    <3> QED
      BY <1>3, <1>4, <2>2, <3>1
  <2> QED
    BY <1>1, <2>1, <2>2
<1> QED
  BY <1>1, <1>4, <1>5 DEF Cut, M1, M2

LEMMA CutKeepsNodes ==
    ASSUME NEW L \in Seq(Node), NEW b \in Nat, NEW n \in Nat, b + n <= Len(L),
           NEW k \in 1 .. Len(L), k <= b \/ k > b + n
    PROVE  LET j == IF k <= b THEN k ELSE k - n
           IN  j \in 1 .. Len(Cut(L, b, n)) /\ Cut(L, b, n)[j] = L[k]
<1>1. CASE k <= b
  <2>1. k \in 1 .. Len(L) - n
    BY <1>1, CutList
  <2>2. k \in 1 .. Len(Cut(L, b, n)) /\ Cut(L, b, n)[k] = L[k]
    BY <1>1, <2>1, CutList
  <2> QED
    BY <1>1, <2>2
<1>2. CASE k > b + n
  <2>1. k - n \in 1 .. Len(L) - n /\ k - n > b /\ (k - n) + n = k /\ ~(k <= b)
    BY <1>2, CutList
  <2>2. k - n \in 1 .. Len(Cut(L, b, n)) /\ Cut(L, b, n)[k - n] = L[k]
    BY <2>1, CutList
  <2> QED
    BY <2>1, <2>2
<1> QED
  BY <1>1, <1>2

\* Delete, and what it leaves.
LEMMA DeleteCuts ==
    ASSUME NEW o \in Obj, NEW c \in Class, NEW b, list \in Seq(Node),
           BlockAt(list, o, c, b), Delete(o)
    PROVE  /\ list' = Cut(list, b, Len(Registered(c)))
           /\ obj' = [obj EXCEPT ![o] = Free]
<1> DEFINE n == Len(Registered(c))
<1>1. /\ b \in Nat /\ n \in Nat /\ n >= 2 /\ b + n <= Len(list) /\ Len(list) \in Nat
      /\ \A k \in 1 .. Len(list) : (list[k][2] = o) <=> (b < k /\ k <= b + n)
  <2>1. n \in 2 .. 4
    BY RegisteredFacts
  <2>2. \A k \in 1 .. Len(list) : (list[k][2] = o) <=> (b < k /\ k <= b + n)
    BY Zenon DEF BlockAt
  <2>3. b \in Nat /\ b + n <= Len(list)
    BY Zenon DEF BlockAt
  <2>4. Len(list) \in Nat
    OBVIOUS
  <2> HIDE DEF n
  <2>5. n \in Nat /\ n >= 2
    BY <2>1
  <2> QED
    BY <2>2, <2>3, <2>4, <2>5
<1> HIDE DEF n
<1>2. Mine(o) = b + 1 .. b + n
  BY <1>1 DEF Mine
<1>3. Cardinality(Mine(o)) = n
  <2>1. Cardinality(b + 1 .. b + n) = (b + n) - (b + 1) + 1
    BY <1>1, FS_Interval
  <2> QED
    BY <1>1, <1>2, <2>1
<1>4. PICK a \in Mine(o) :
         /\ Mine(o) = a .. a + n - 1
         /\ list' = SubSeq(list, 1, a - 1) \o SubSeq(list, a + n, Len(list))
  BY <1>3 DEF Delete
<1>5. a = b + 1
  <2>1. a \in Nat /\ a \in b + 1 .. b + n /\ b + 1 \in a .. a + n - 1
    BY SMTT(60), <1>1, <1>2, <1>4
  <2> QED
    BY <1>1, <2>1
<1>6. a - 1 = b /\ a + n = b + n + 1
  BY <1>1, <1>5
<1> QED
  BY <1>4, <1>6 DEF Delete, Cut, n

\* The registrations of another instance stay together.
LEMMA CutKeepsBlock ==
    ASSUME NEW L \in Seq(Node), NEW b \in Nat, NEW n \in Nat, n >= 1, b + n <= Len(L),
           NEW o, NEW p, o # p, NEW c \in Class, NEW a, BlockAt(L, p, c, a),
           \A k \in 1 .. Len(L) : b < k /\ k <= b + n => L[k][2] = o
    PROVE  \E d \in Nat : BlockAt(Cut(L, b, n), p, c, d)
<1> DEFINE r == Len(Registered(c))
           M == Cut(L, b, n)
<1>0. r \in 2 .. 4
  BY RegisteredFacts
<1>1. /\ a \in Nat /\ a + r <= Len(L)
      /\ \A k \in 1 .. Len(L) : (L[k][2] = p) <=> (a < k /\ k <= a + r)
      /\ \A k \in 1 .. r : L[a + k][1] = Registered(c)[k]
  BY DEF BlockAt
<1>2. /\ M \in Seq(Node) /\ Len(M) = Len(L) - n /\ Len(L) \in Nat
      /\ \A k \in 1 .. Len(L) - n :
            /\ k <= b => M[k] = L[k]
            /\ k > b => M[k] = L[k + n]
  BY CutList
<1> HIDE DEF M, r
<1>3. ASSUME NEW k \in 1 .. Len(L), b < k, k <= b + n, a < k, k <= a + r
      PROVE  FALSE
  BY <1>1, <1>3
<1>4. a + r <= b \/ a >= b + n
  <2>1. CASE a < b + n /\ a + r > b /\ a >= b
    <3>1. a + 1 \in 1 .. Len(L)
      BY SMTT(60), <1>0, <1>1, <1>2
    <3> QED
      BY <1>0, <1>1, <1>3, <2>1, <3>1
  <2>2. CASE a < b + n /\ a + r > b /\ a < b
    <3>1. b + 1 \in 1 .. Len(L)
      BY <1>2
    <3> QED
      BY <1>0, <1>1, <1>3, <2>2, <3>1
  <2> QED
    BY <1>0, <1>1, <2>1, <2>2
<1>5. CASE a + r <= b
  <2>1. \A k \in 1 .. Len(M) : (M[k][2] = p) <=> (a < k /\ k <= a + r)
    <3> SUFFICES ASSUME NEW k \in 1 .. Len(M)
                 PROVE  (M[k][2] = p) <=> (a < k /\ k <= a + r)
      OBVIOUS
    <3>1. CASE k <= b
      BY <1>1, <1>2, <3>1
    <3>2. CASE k > b
      <4>1. k + n \in 1 .. Len(L) /\ k \in 1 .. Len(L) - n /\ ~(k + n <= a + r) /\ ~(k <= a + r)
        BY <1>0, <1>1, <1>2, <1>5, <3>2
      <4> QED
        BY <1>1, <1>2, <3>2, <4>1
    <3> QED
      BY <1>2, <3>1, <3>2
  <2>2. \A k \in 1 .. r : M[a + k][1] = Registered(c)[k]
    <3> SUFFICES ASSUME NEW k \in 1 .. r
                 PROVE  M[a + k][1] = Registered(c)[k]
      OBVIOUS
    <3>1. a + k \in 1 .. Len(L) - n /\ a + k <= b
      BY <1>0, <1>1, <1>2, <1>5
    <3> QED
      BY <1>1, <1>2, <3>1
  <2>3. a + r <= Len(M)
    BY <1>0, <1>1, <1>2, <1>5
  <2> QED
    BY <1>1, <2>1, <2>2, <2>3 DEF BlockAt, M, r
<1>6. CASE a >= b + n
  <2>0. a - n \in Nat
    BY <1>1, <1>6
  <2>1. \A k \in 1 .. Len(M) : (M[k][2] = p) <=> (a - n < k /\ k <= (a - n) + r)
    <3> SUFFICES ASSUME NEW k \in 1 .. Len(M)
                 PROVE  (M[k][2] = p) <=> (a - n < k /\ k <= (a - n) + r)
      OBVIOUS
    <3>1. CASE k <= b
      <4>1. k \in 1 .. Len(L) /\ k \in 1 .. Len(L) - n /\ ~(a < k) /\ ~(a - n < k)
        BY <1>0, <1>1, <1>2, <1>6, <3>1
      <4> QED
        BY <1>1, <1>2, <3>1, <4>1
    <3>2. CASE k > b
      <4>1. k + n \in 1 .. Len(L) /\ k \in 1 .. Len(L) - n
        BY <1>2, <3>2
      <4>2. /\ (a < k + n) <=> (a - n < k)
            /\ (k + n <= a + r) <=> (k <= (a - n) + r)
        BY SMTT(60), <1>0, <1>1
      <4>3. M[k] = L[k + n]
        BY <1>2, <3>2, <4>1
      <4> QED
        BY <1>1, <4>1, <4>2, <4>3
    <3> QED
      BY <1>2, <3>1, <3>2
  <2>2. \A k \in 1 .. r : M[(a - n) + k][1] = Registered(c)[k]
    <3> SUFFICES ASSUME NEW k \in 1 .. r
                 PROVE  M[(a - n) + k][1] = Registered(c)[k]
      OBVIOUS
    <3>1. (a - n) + k \in 1 .. Len(L) - n /\ (a - n) + k > b /\ ((a - n) + k) + n = a + k
      BY <1>0, <1>1, <1>2, <1>6
    <3>2. M[(a - n) + k] = L[a + k]
      BY <1>2, <3>1
    <3> QED
      BY <1>1, <3>2
  <2>3. (a - n) + r <= Len(M)
    BY <1>0, <1>1, <1>2, <1>6
  <2> QED
    BY <2>0, <2>1, <2>2, <2>3 DEF BlockAt, M, r
<1> QED
  BY <1>4, <1>5, <1>6 DEF M

LEMMA CutKeepsShape ==
    ASSUME NEW L, NEW O, Objects(O), ListShape(L, O), NEW o \in LiveIn(O), NEW b,
           BlockAt(L, o, O[o].class, b)
    PROVE  ListShape(Cut(L, b, Len(Registered(O[o].class))), [O EXCEPT ![o] = Free])
<1> DEFINE c == O[o].class
           n == Len(Registered(c))
           M == Cut(L, b, n)
           P == [O EXCEPT ![o] = Free]
<1>0. c \in Class /\ n \in 2 .. 4 /\ o \in Obj /\ o # Manager
  BY FreeIsNoInstance, RegisteredFacts, NothingIsNoObj DEF LiveIn
<1>1. LiveIn(P) = LiveIn(O) \ {o} /\ \A p \in LiveIn(P) : P[p] = O[p]
  BY <1>0 DEF LiveIn, Objects
<1>2. /\ b \in Nat /\ b + n <= Len(L) /\ L \in Seq(Node)
      /\ \A k \in 1 .. Len(L) : (L[k][2] = o) <=> (b < k /\ k <= b + n)
  BY DEF BlockAt, ListShape
<1> HIDE DEF c, n
<1>3. /\ M \in Seq(Node) /\ Len(M) = Len(L) - n /\ Len(L) \in Nat
      /\ \A k \in 1 .. Len(L) - n :
            /\ k <= b => M[k] = L[k]
            /\ k > b => M[k] = L[k + n]
  <2>1. n \in Nat
    BY <1>0
  <2> QED
    BY <1>2, <2>1, CutList
<1>4. ASSUME NEW p \in LiveIn(P) PROVE \E d \in Nat : BlockAt(M, p, P[p].class, d)
  <2>1. p \in LiveIn(O) /\ p # o /\ P[p] = O[p] /\ O[p].class \in Class
    BY <1>1, FreeIsNoInstance
  <2>2. PICK a \in Nat : BlockAt(L, p, O[p].class, a)
    BY <2>1 DEF ListShape
  <2>3. \A k \in 1 .. Len(L) : b < k /\ k <= b + n => L[k][2] = o
    BY <1>2
  <2>4. n \in Nat /\ n >= 1
    BY <1>0
  <2> HIDE DEF P, M
  <2>5. \E d \in Nat : BlockAt(Cut(L, b, n), p, O[p].class, d)
    BY <1>2, <2>1, <2>2, <2>3, <2>4, CutKeepsBlock
  <2> QED
    BY <2>1, <2>5 DEF M
<1> HIDE DEF M, P
<1>5. ASSUME NEW k \in 1 .. Len(M)
      PROVE  /\ M[k][2] \in LiveIn(P) \cup {Manager}
             /\ M[k][2] = Manager => k <= 4
  <2>1. CASE k <= b
    <3>1. k \in 1 .. Len(L) /\ M[k] = L[k] /\ ~(b < k)
      BY <1>0, <1>2, <1>3, <2>1
    <3>2. L[k][2] # o
      BY <1>2, <3>1
    <3> QED
      BY <1>1, <3>1, <3>2 DEF ListShape
  <2>2. CASE k > b
    <3>1. k + n \in 1 .. Len(L) /\ M[k] = L[k + n] /\ ~(k + n <= b + n) /\ k <= k + n
      BY <1>0, <1>2, <1>3, <2>2
    <3>2. L[k + n][2] # o
      BY <1>2, <3>1
    <3>3. L[k + n][2] \in LiveIn(P) \cup {Manager} /\ (L[k + n][2] = Manager => k + n <= 4)
      BY <1>1, <3>1, <3>2 DEF ListShape
    <3> QED
      BY <1>0, <3>1, <3>3
  <2> QED
    BY <1>2, <2>1, <2>2
<1>6. b >= 4
  <2>1. CASE b < 4
    <3>1. b + 1 \in 1 .. 4 /\ b + 1 \in 1 .. Len(L) /\ b < b + 1 /\ b + 1 <= b + n
      BY <1>0, <1>2, <2>1
    <3>2. L[b + 1][2] = Manager
      BY <3>1, ManagerFacts DEF ListShape
    <3> QED
      BY <1>0, <1>2, <3>1, <3>2
  <2> QED
    BY <1>2, <2>1
<1>7. 4 <= Len(M) /\ \A k \in 1 .. 4 : M[k] = ManagerNodes[k]
  BY SMTT(60), <1>0, <1>2, <1>3, <1>6 DEF ListShape
<1>8. ListShape(M, P)
  BY <1>3, <1>4, <1>5, <1>7 DEF ListShape
<1> QED
  BY <1>8 DEF M, P, n, c

-----------------------------------------------------------------------------
(* The instances of an interface, for instances O.                         *)

States == Class \cup {"none"}
LinkMsg == {Msg(e, i) : e \in LinkEvent, i \in Iface}
SelfMsg(i) == Msg("LAN_DELETE_SELF", i)
DownOf(i) == IF InitialCat[i] = "UNKNOWN_IF" THEN "WLAN_LINK_DOWN" ELSE "LINK_DOWN"
ManagerEvents == {"LINK_UP", "WLAN_AP_LINK_UP", "WLAN_STA_LINK_UP", "USB_LINK_UP"}

\* The category configured for an interface says what it can become.
Fits(i, class) ==
    CASE InitialCat[i] = "LAN_IF" -> class = "Lan"
      [] InitialCat[i] = "WAN_IF" -> class = "Wan"
      [] InitialCat[i] = "UNKNOWN_IF" -> class \in {"Wlan", "WanSta"}

OfIn(O, i) == {o \in LiveIn(O) : O[o].iface = i}
ClosingIn(O, i) == \E o \in OfIn(O, i) : ~O[o].active

ObjShape(O) ==
    /\ Objects(O)
    /\ \A o \in LiveIn(O) : /\ Fits(O[o].iface, O[o].class)
                            /\ O[o].active \/ O[o].class \in {"Lan", "Wlan"}
    /\ \A o, p \in LiveIn(O) : O[o].iface = O[p].iface => o = p

\* What an interface is.
IsState(O, i, s) ==
    IF s = "none" THEN \A o \in OfIn(O, i) : ~O[o].active
    ELSE \E o \in OfIn(O, i) : O[o].active /\ O[o].class = s
StateOf(O, i) == CHOOSE s \in States : IsState(O, i, s)

LEMMA StateIs ==
    ASSUME NEW O, ObjShape(O), NEW i, NEW s \in States, IsState(O, i, s)
    PROVE  StateOf(O, i) = s
<1>1. ASSUME NEW t \in States, IsState(O, i, t)
      PROVE  t = s
  BY <1>1 DEF IsState, OfIn, ObjShape
<1>2. StateOf(O, i) \in States /\ IsState(O, i, StateOf(O, i))
  BY DEF StateOf
<1> QED
  BY <1>1, <1>2

LEMMA StateExists ==
    ASSUME NEW O, ObjShape(O), NEW i
    PROVE  StateOf(O, i) \in States /\ IsState(O, i, StateOf(O, i))
<1>1. \E s \in States : IsState(O, i, s)
  <2>1. CASE \A o \in OfIn(O, i) : ~O[o].active
    BY <2>1 DEF IsState, States
  <2>2. CASE \E o \in OfIn(O, i) : O[o].active
    <3>1. PICK o \in OfIn(O, i) : O[o].active
      BY <2>2
    <3>2. O[o].class \in Class /\ O[o].class # "none"
      BY FreeIsNoInstance DEF OfIn, ObjShape, Class
    <3> QED
      BY <3>1, <3>2 DEF IsState, States
  <2> QED
    BY <2>1, <2>2
<1> QED
  BY <1>1 DEF StateOf

\* An interface of which no instance changes.
LEMMA StateKept ==
    ASSUME NEW O, NEW P, NEW i, OfIn(P, i) = OfIn(O, i),
           \A o \in OfIn(O, i) : P[o] = O[o]
    PROVE  StateOf(P, i) = StateOf(O, i) /\ (ClosingIn(P, i) <=> ClosingIn(O, i))
<1>1. \A s : IsState(P, i, s) <=> IsState(O, i, s)
  BY DEF IsState
<1> QED
  BY <1>1 DEF StateOf, ClosingIn

\* Instances P are O but for o.
Becomes(O, P, o, x) == P = [O EXCEPT ![o] = x]

LEMMA CreateKeepsObjects ==
    ASSUME NEW O, ObjShape(O), NEW i \in Iface, OfIn(O, i) = {}, NEW o \in Obj \ LiveIn(O),
           NEW c \in Class, Fits(i, c),
           NEW P, Becomes(O, P, o, [iface |-> i, class |-> c, active |-> TRUE])
    PROVE  /\ ObjShape(P) /\ OfIn(P, i) = {o}
           /\ StateOf(P, i) = c /\ ~ClosingIn(P, i)
           /\ \A j \in Iface \ {i} :
                 OfIn(P, j) = OfIn(O, j) /\ \A p \in OfIn(O, j) : P[p] = O[p]
<1> DEFINE x == [iface |-> i, class |-> c, active |-> TRUE]
<1>1. x \in Instance /\ x # Free /\ x.iface = i /\ x.class = c /\ x.active
  BY InstanceIsLive DEF Instance
<1>2. Objects(P) /\ P[o] = x /\ \A p \in Obj \ {o} : P[p] = O[p]
  BY <1>1 DEF ObjShape, Objects, Becomes
<1> HIDE DEF x
<1>3. LiveIn(P) = LiveIn(O) \cup {o} /\ o \notin LiveIn(O) /\ \A p \in LiveIn(O) : P[p] = O[p]
  BY <1>1, <1>2 DEF LiveIn
<1>4. /\ OfIn(P, i) = {o}
      /\ \A j \in Iface \ {i} :
            OfIn(P, j) = OfIn(O, j) /\ \A p \in OfIn(O, j) : P[p] = O[p]
  BY <1>1, <1>2, <1>3 DEF OfIn
<1>5. ObjShape(P)
  <2>1. \A p \in LiveIn(P) : /\ Fits(P[p].iface, P[p].class)
                             /\ P[p].active \/ P[p].class \in {"Lan", "Wlan"}
    BY <1>1, <1>2, <1>3 DEF ObjShape
  <2>2. \A p \in LiveIn(O) : O[p].iface # i
    BY DEF OfIn
  <2>3. \A p, q \in LiveIn(P) : P[p].iface = P[q].iface => p = q
    BY <1>1, <1>2, <1>3, <2>2 DEF ObjShape
  <2> QED
    BY <1>2, <2>1, <2>3 DEF ObjShape
<1>6. IsState(P, i, c) /\ c \in States
  BY <1>1, <1>2, <1>4 DEF IsState, Class, States
<1>7. StateOf(P, i) = c /\ ~ClosingIn(P, i)
  BY <1>1, <1>2, <1>4, <1>5, <1>6, StateIs DEF ClosingIn
<1> QED
  BY <1>4, <1>5, <1>7

LEMMA DeleteKeepsObjects ==
    ASSUME NEW O, ObjShape(O), NEW i \in Iface, NEW o \in OfIn(O, i),
           NEW P, Becomes(O, P, o, Free)
    PROVE  /\ ObjShape(P) /\ OfIn(P, i) = {} /\ StateOf(P, i) = "none" /\ ~ClosingIn(P, i)
           /\ \A j \in Iface \ {i} :
                 OfIn(P, j) = OfIn(O, j) /\ \A p \in OfIn(O, j) : P[p] = O[p]
<1>1. o \in Obj /\ O[o].iface = i /\ o \in LiveIn(O)
  BY DEF OfIn, LiveIn
<1>2. Objects(P) /\ P[o] = Free /\ \A p \in Obj \ {o} : P[p] = O[p]
  BY <1>1 DEF ObjShape, Objects, Becomes
<1>3. LiveIn(P) = LiveIn(O) \ {o} /\ \A p \in LiveIn(P) : P[p] = O[p]
  BY <1>1, <1>2 DEF LiveIn
<1>4. /\ OfIn(P, i) = {}
      /\ \A j \in Iface \ {i} :
            OfIn(P, j) = OfIn(O, j) /\ \A p \in OfIn(O, j) : P[p] = O[p]
  BY <1>1, <1>2, <1>3 DEF OfIn, ObjShape
<1>5. ObjShape(P)
  BY <1>2, <1>3 DEF ObjShape
<1>6. StateOf(P, i) = "none" /\ ~ClosingIn(P, i)
  BY <1>4, <1>5, StateIs DEF IsState, States, ClosingIn
<1> QED
  BY <1>4, <1>5, <1>6

LEMMA CloseKeepsObjects ==
    ASSUME NEW O, ObjShape(O), NEW i \in Iface, NEW o \in OfIn(O, i),
           O[o].class \in {"Lan", "Wlan"}, NEW P,
           Becomes(O, P, o, [O[o] EXCEPT !.active = FALSE])
    PROVE  /\ ObjShape(P) /\ OfIn(P, i) = {o}
           /\ StateOf(P, i) = "none" /\ ClosingIn(P, i)
           /\ LiveIn(P) = LiveIn(O) /\ \A p \in LiveIn(O) : P[p].class = O[p].class
           /\ \A j \in Iface \ {i} :
                 OfIn(P, j) = OfIn(O, j) /\ \A p \in OfIn(O, j) : P[p] = O[p]
<1> DEFINE x == [O[o] EXCEPT !.active = FALSE]
<1>1. o \in Obj /\ O[o].iface = i /\ o \in LiveIn(O) /\ O[o] \in Instance
  BY FreeIsNoInstance DEF OfIn, LiveIn, ObjShape
<1>2. x \in Instance /\ x.iface = i /\ x.class = O[o].class /\ x.active = FALSE
  BY <1>1 DEF Instance
<1>3. x # Free
  BY <1>2, InstanceIsLive
<1>4. Objects(P) /\ P[o] = x /\ \A p \in Obj \ {o} : P[p] = O[p]
  BY <1>1, <1>2 DEF ObjShape, Objects, Becomes
<1> HIDE DEF x
<1>6. /\ LiveIn(P) = LiveIn(O)
      /\ \A p \in LiveIn(O) : P[p].class = O[p].class /\ P[p].iface = O[p].iface
  BY <1>1, <1>2, <1>3, <1>4 DEF LiveIn
<1>7. \A j \in Iface : OfIn(P, j) = OfIn(O, j)
  BY <1>6 DEF OfIn
<1>8. OfIn(O, i) = {o} /\ \A j \in Iface \ {i} : o \notin OfIn(O, j)
  BY <1>1 DEF OfIn, ObjShape
<1>9. \A j \in Iface \ {i} : \A p \in OfIn(O, j) : P[p] = O[p]
  BY <1>4, <1>8 DEF OfIn, LiveIn
<1>10. ObjShape(P)
  <2>1. \A p \in LiveIn(P) : Fits(P[p].iface, P[p].class)
    BY <1>6 DEF ObjShape
  <2>2. \A p \in LiveIn(P) : P[p].active \/ P[p].class \in {"Lan", "Wlan"}
    BY <1>2, <1>4, <1>6 DEF ObjShape, LiveIn
  <2>3. \A p, q \in LiveIn(P) : P[p].iface = P[q].iface => p = q
    BY <1>6 DEF ObjShape
  <2> QED
    BY <1>4, <2>1, <2>2, <2>3 DEF ObjShape
<1>11. StateOf(P, i) = "none" /\ ClosingIn(P, i) /\ OfIn(P, i) = {o}
  BY <1>2, <1>4, <1>7, <1>8, <1>10, StateIs DEF IsState, States, ClosingIn
<1> QED
  BY <1>6, <1>7, <1>9, <1>10, <1>11

\* Asks says what an event makes of an interface.
UpTo(i, e) ==
    CASE InitialCat[i] = "LAN_IF" /\ e = "USB_LINK_UP" -> "Lan"
      [] InitialCat[i] = "WAN_IF" /\ e \in {"LINK_UP", "USB_LINK_UP"} -> "Wan"
      [] InitialCat[i] = "UNKNOWN_IF" /\ e = "WLAN_AP_LINK_UP" -> "Wlan"
      [] InitialCat[i] = "UNKNOWN_IF" /\ e = "WLAN_STA_LINK_UP" -> "WanSta"
      [] OTHER -> "none"

\* What a link event asks for, by what the interface is configured to be.
LEMMA AsksIs ==
    ASSUME NEW s \in States, NEW i \in Iface, NEW e
    PROVE  /\ Asks(s, i, e) = IF e = DownOf(i) THEN "none"
                              ELSE IF s = "none" THEN UpTo(i, e) ELSE s
           /\ Asks(s, i, e) \in States
           /\ Asks(Asks(s, i, e), i, e) = Asks(s, i, e)
           /\ e # DownOf(i) /\ UpTo(i, e) # "none" =>
                 e \in ManagerEvents /\ UpTo(i, e) \in Class /\ Fits(i, UpTo(i, e))
<1>1. InitialCat[i] \in {"UNKNOWN_IF", "LAN_IF", "WAN_IF"}
  BY CategoriesAreKnown
<1>2. \A t : Asks(t, i, e) = IF e = DownOf(i) THEN "none"
                             ELSE IF t = "none" THEN UpTo(i, e) ELSE t
  BY DEF Asks, DownOf, UpTo
<1>3. UpTo(i, e) \in States
  BY DEF UpTo, States, Class
<1>4. UpTo(i, e) # "none" =>
         e \in ManagerEvents /\ UpTo(i, e) \in Class /\ Fits(i, UpTo(i, e))
  BY <1>1 DEF UpTo, Fits, Class, ManagerEvents
<1>5. Asks(s, i, e) \in States /\ "none" \in States
  BY <1>2, <1>3 DEF States
<1>6. Asks(Asks(s, i, e), i, e) = Asks(s, i, e)
  BY <1>2
<1> QED
  BY <1>2, <1>4, <1>5, <1>6

\* The category of an interface that is s.
CatOf(i, s) ==
    IF InitialCat[i] # "UNKNOWN_IF" THEN InitialCat[i]
    ELSE CASE s = "Wlan" -> "WLAN_IF" [] s = "WanSta" -> "WAN_IF" [] OTHER -> "UNKNOWN_IF"

LEMMA FitsFacts ==
    ASSUME NEW i \in Iface, NEW c \in Class, Fits(i, c)
    PROVE  /\ Down(c) = DownOf(i)
           /\ c = "Lan" => InitialCat[i] = "LAN_IF"
           /\ c = "Wan" => InitialCat[i] = "WAN_IF"
           /\ c \in {"Wlan", "WanSta"} => InitialCat[i] = "UNKNOWN_IF"
<1>1. InitialCat[i] \in {"UNKNOWN_IF", "LAN_IF", "WAN_IF"}
  BY CategoriesAreKnown
<1> QED
  BY <1>1 DEF Fits, Class, Down, DownOf

LEMMA CatOfFacts ==
    ASSUME NEW i \in Iface, NEW s \in States
    PROVE  CatOf(i, s) \in Category
  BY CategoriesAreKnown DEF CatOf, Category

\* The kinds of messages differ.
LEMMA MessageFacts ==
    /\ \A m \in LinkMsg : m.event \in LinkEvent /\ m.iface \in Iface /\ m = Msg(m.event, m.iface)
    /\ \A e \in LinkEvent, i \in Iface :
          /\ Msg(e, i) \in LinkMsg
          /\ Msg(e, i).event = e /\ Msg(e, i).iface = i
    /\ \A i \in Iface : /\ SelfMsg(i) \in DeleteSelf /\ SelfMsg(i) \notin LinkMsg
                        /\ SelfMsg(i) \in Sent /\ SelfMsg(i) # Ssr
                        /\ SelfMsg(i).event = "LAN_DELETE_SELF" /\ SelfMsg(i).iface = i
    /\ \A m \in DeleteSelf : \E i \in Iface : m = SelfMsg(i)
    /\ Ssr \notin LinkMsg /\ Ssr.event = "SSR_NOTICE" /\ Ssr.iface = NoIface
    /\ NoMessage \notin LinkMsg /\ \A i \in Iface : SelfMsg(i) # NoMessage
    /\ Sent \ (DeleteSelf \cup {Ssr}) = LinkMsg
    /\ \A m \in Sent : /\ m.event \in LinkEvent => m \in LinkMsg
                       /\ m.event = "LAN_DELETE_SELF" =>
                             m.iface \in Iface /\ m = SelfMsg(m.iface)
                       /\ m.event # "ADDR_ADD"
<1>1. \A e, i : Msg(e, i).event = e /\ Msg(e, i).iface = i
  BY DEF Msg
<1>2. \A m \in LinkMsg : m.event \in LinkEvent /\ m.iface \in Iface /\ m = Msg(m.event, m.iface)
  BY <1>1 DEF LinkMsg
<1>3. \A e \in LinkEvent, i \in Iface : Msg(e, i) \in LinkMsg
  BY DEF LinkMsg
<1>4. \A i \in Iface : /\ SelfMsg(i) \in DeleteSelf /\ SelfMsg(i) \in Sent
                       /\ SelfMsg(i).event = "LAN_DELETE_SELF" /\ SelfMsg(i).iface = i
  BY <1>1 DEF SelfMsg, DeleteSelf, Sent
<1>5. Ssr.event = "SSR_NOTICE" /\ Ssr.iface = NoIface
  BY <1>1 DEF Ssr
<1>6. "LAN_DELETE_SELF" \notin LinkEvent /\ "SSR_NOTICE" \notin LinkEvent /\ "ADDR_ADD" \notin LinkEvent
  BY DEF LinkEvent
<1>7. \A m \in DeleteSelf : \E i \in Iface : m = SelfMsg(i)
  BY DEF DeleteSelf, SelfMsg
<1>8. Sent = LinkMsg \cup DeleteSelf \cup {Ssr}
  BY DEF Sent, LinkMsg
<1>9. \A m \in LinkMsg : m \notin DeleteSelf /\ m # Ssr
  BY <1>2, <1>4, <1>5, <1>6, <1>7
<1>10. NoMessage \notin LinkMsg /\ \A i \in Iface : SelfMsg(i) # NoMessage
  BY <1>4, <1>8, NothingIsNoMessage
<1>11. \A m \in Sent : m.event = "LAN_DELETE_SELF" => m.iface \in Iface /\ m = SelfMsg(m.iface)
  BY <1>2, <1>4, <1>5, <1>6, <1>7, <1>8
<1>12. \A m \in Sent : m.event \in LinkEvent => m \in LinkMsg
  BY <1>4, <1>5, <1>6, <1>7, <1>8
<1>13. \A m \in Sent : m.event # "ADDR_ADD"
  BY <1>2, <1>4, <1>5, <1>6, <1>7, <1>8
<1>14. \A i \in Iface : SelfMsg(i) \notin LinkMsg /\ SelfMsg(i) # Ssr
  BY <1>2, <1>4, <1>5, <1>6
<1>15. Sent \ (DeleteSelf \cup {Ssr}) = LinkMsg
  BY <1>8, <1>9, <1>5, <1>2, <1>6
<1>16. Ssr \notin LinkMsg
  BY <1>9
<1> QED
  BY <1>1, <1>2, <1>3, <1>4, <1>5, <1>7, <1>10, <1>11, <1>12, <1>13, <1>14, <1>15, <1>16

-----------------------------------------------------------------------------
(* The walk of ProcessEvt.                                                 *)

\* A nonempty set of naturals has a least element.
LEMMA LeastNat ==
    ASSUME NEW T, T \subseteq Nat, T # {}
    PROVE  \E j \in T : \A k \in T : j <= k
<1>1. IsWellFoundedOn(OpToRel(<, Nat), Nat)
  BY NatLessThanWellFounded, Zenon
<1>2. OpToRel(<, Nat) = {ss \in Nat \X Nat : ss[1] < ss[2]}
  BY Zenon DEF OpToRel
<1> DEFINE R == {ss \in Nat \X Nat : ss[1] < ss[2]}
<1>3. IsWellFoundedOn(R, Nat)
  BY <1>1, <1>2, Zenon
<1>4. PICK j \in T : \A k \in T : ~(<<k, j>> \in R)
  <2> HIDE DEF R
  <2> QED BY <1>3, WFMin
<1>5. \A k \in T : ~(k < j)
  <2> SUFFICES ASSUME NEW k \in T, k < j PROVE <<k, j>> \in R
    BY <1>4
  <2> QED
    OBVIOUS
<1>6. \A k \in T : j <= k
  BY <1>5
<1> QED
  BY <1>6

LEMMA PositionFacts ==
    ASSUME Objects(obj), ListShape(list, obj), IsListed(cur)
    PROVE  /\ PositionOf(cur) \in 1 .. Len(list) /\ list[PositionOf(cur)] = cur
           /\ Matching \subseteq Nat /\ Matching \subseteq 1 .. Len(list)
           /\ \A k \in 1 .. Len(list) :
                 Before(list, cur, list[k]) /\ list[k][1] = handled.event => k \in Matching
<1>1. PositionOf(cur) \in 1 .. Len(list) /\ list[PositionOf(cur)] = cur
  BY DEF PositionOf, IsListed
<1>2. Len(list) \in Nat
  BY DEF ListShape
<1>3. Matching \subseteq Nat /\ Matching \subseteq 1 .. Len(list)
  BY <1>1, <1>2 DEF Matching
<1>4. ASSUME NEW k \in 1 .. Len(list), Before(list, cur, list[k]), list[k][1] = handled.event
      PROVE  k \in Matching
  <2>1. PICK i, j \in 1 .. Len(list) : i <= j /\ list[i] = cur /\ list[j] = list[k]
    BY <1>4 DEF Before
  <2>2. i = PositionOf(cur) /\ j = k
    BY <1>1, <2>1, NodesDiffer
  <2> QED
    BY <1>2, <1>4, <2>1, <2>2 DEF Matching
<1> QED
  BY <1>1, <1>3, <1>4

\* The registrations for the event that are ahead are the one visited and
\* those ahead of the next one.
LEMMA VisitWalks ==
    ASSUME Objects(obj), ListShape(list, obj), IsListed(cur), Matching # {}
    PROVE  /\ Nearest \in 1 .. Len(list) /\ list[Nearest][1] = handled.event
           /\ \A y : Before(list, cur, y) /\ y[1] = handled.event =>
                 \/ y = list[Nearest]
                 \/ Nearest < Len(list) /\ Before(list, list[Nearest + 1], y)
<1>1. Nearest \in Matching /\ \A k \in Matching : Nearest <= k
  BY PositionFacts, LeastNat DEF Nearest
<1>2. Nearest \in 1 .. Len(list) /\ list[Nearest][1] = handled.event
  BY <1>1, PositionFacts DEF Matching
<1>3. Len(list) \in Nat
  BY DEF ListShape
<1>4. ASSUME NEW y, Before(list, cur, y), y[1] = handled.event, y # list[Nearest]
      PROVE  Nearest < Len(list) /\ Before(list, list[Nearest + 1], y)
  <2>1. PICK k \in 1 .. Len(list) : list[k] = y
    BY <1>4 DEF Before
  <2>2. k \in Matching /\ k # Nearest
    BY <1>4, <2>1, PositionFacts
  <2>3. Nearest < k
    BY <1>1, <1>2, <1>3, <2>2
  <2>4. Nearest + 1 \in 1 .. Len(list) /\ Nearest + 1 <= k /\ Nearest < Len(list)
    BY <1>2, <1>3, <2>3
  <2> QED
    BY <2>1, <2>4 DEF Before
<1> QED
  BY <1>2, <1>4

LEMMA FinishWalks ==
    ASSUME Objects(obj), ListShape(list, obj), IsListed(cur), Matching = {},
           NEW y, Before(list, cur, y)
    PROVE  y[1] # handled.event
<1>1. PICK k \in 1 .. Len(list) : list[k] = y
  BY DEF Before
<1> QED
  BY <1>1, PositionFacts

\* Whose a registration is.
LEMMA NodeOwner ==
    ASSUME NEW L, NEW O, ObjShape(O), ListShape(L, O), NEW k \in 1 .. Len(L)
    PROVE  /\ L[k] = <<L[k][1], L[k][2]>> /\ L[k] # << >>
           /\ L[k][2] = Manager => L[k][1] \in ManagerEvents
           /\ L[k][2] # Manager => L[k][2] \in LiveIn(O)
<1>1. L[k] \in Node
  BY DEF ListShape
<1>2. L[k] = <<L[k][1], L[k][2]>> /\ L[k] # << >>
  BY <1>1 DEF Node
<1>3. L[k][2] = Manager => L[k][1] \in ManagerEvents
  <2>1. CASE L[k][2] = Manager
    <3>1. k \in 1 .. 4 /\ L[k] = ManagerNodes[k]
      BY <2>1 DEF ListShape
    <3> QED
      BY <3>1, ManagerFacts DEF ManagerEvents
  <2> QED
    BY <2>1
<1> QED
  BY <1>2, <1>3 DEF ListShape

\* The registration of an instance for the event to itself, and that of a WAN
\* instance for a link event, is the last in its block.
LEMMA InstanceNode ==
    ASSUME NEW L, NEW O, ObjShape(O), ListShape(L, O), NEW k \in 1 .. Len(L),
           L[k][2] # Manager, NEW b \in Nat, BlockAt(L, L[k][2], O[L[k][2]].class, b),
           L[k][1] # "ADDR_ADD", L[k][1] # "SSR_NOTICE"
    PROVE  LET c == O[L[k][2]].class
           IN  /\ L[k][1] \in {Down(c), "LAN_DELETE_SELF"}
               /\ c \notin {"Lan", "Wlan"} => L[k][1] = Down(c)
               /\ (c \notin {"Lan", "Wlan"} \/ L[k][1] = "LAN_DELETE_SELF") =>
                     k = b + Len(Registered(c))
<1> DEFINE o == L[k][2]
           c == O[o].class
           r == Registered(c)
<1>1. o \in LiveIn(O) /\ c \in Class /\ Len(L) \in Nat
  <2>1. o \in LiveIn(O)
    BY NodeOwner
  <2> QED
    BY <2>1, FreeIsNoInstance DEF ObjShape, ListShape
<1>2. Len(r) \in 2 .. 4
  BY <1>1, RegisteredFacts
<1>3. k - b \in 1 .. Len(r) /\ b + (k - b) = k
  BY <1>1, <1>2 DEF BlockAt
<1>4. L[k][1] = r[k - b]
  BY <1>3 DEF BlockAt
<1>5. /\ r[k - b] \in Events
      /\ \A i, j \in 1 .. Len(r) : r[i] = r[j] => i = j
      /\ r[k - b] \in LinkEvent => r[k - b] = Down(c)
      /\ c \in {"Lan", "Wlan"} => r[Len(r)] = "LAN_DELETE_SELF"
      /\ c \notin {"Lan", "Wlan"} => r[Len(r)] = Down(c) /\ r[k - b] # "LAN_DELETE_SELF"
  <2>1. /\ r \in Seq(Events)
        /\ \A i, j \in 1 .. Len(r) : r[i] = r[j] => i = j
        /\ \A j \in 1 .. Len(r) : r[j] \in LinkEvent => r[j] = Down(c)
        /\ c \in {"Lan", "Wlan"} => r[Len(r)] = "LAN_DELETE_SELF"
        /\ c \notin {"Lan", "Wlan"} =>
              r[Len(r)] = Down(c) /\ \A j \in 1 .. Len(r) : r[j] # "LAN_DELETE_SELF"
    BY ZenonT(60), <1>1, RegisteredFacts
  <2> HIDE DEF r, c
  <2>2. r[k - b] \in Events
    BY <1>3, <2>1
  <2> QED
    BY <1>3, <2>1, <2>2
<1> HIDE DEF r, c
<1>6. L[k][1] \in {Down(c), "LAN_DELETE_SELF"}
  BY <1>4, <1>5 DEF Events
<1>7. c \notin {"Lan", "Wlan"} => L[k][1] = Down(c)
  BY <1>4, <1>5, <1>6
<1>8. c \notin {"Lan", "Wlan"} \/ L[k][1] = "LAN_DELETE_SELF" => r[k - b] = r[Len(r)]
  BY <1>4, <1>5, <1>7
<1>9. c \notin {"Lan", "Wlan"} \/ L[k][1] = "LAN_DELETE_SELF" => k - b = Len(r)
  BY SMTT(60), <1>2, <1>3, <1>5, <1>8
<1> QED
  BY <1>3, <1>6, <1>7, <1>9 DEF r, c

-----------------------------------------------------------------------------
(* The invariant.                                                          *)

InQueue(M, i) == \E k \in 1 .. Len(M) : M[k] = SelfMsg(i)
SelfOnce(M) ==
    \A i \in Iface : \A j, k \in 1 .. Len(M) : M[j] = SelfMsg(i) /\ M[k] = SelfMsg(i) => j = k

QueueShape ==
    /\ internal \in Seq(DeleteSelf \cup {Ssr})
    /\ external \in Seq(LinkMsg)
    /\ handled \in Sent \cup {NoMessage}
    /\ handled = NoMessage => cur = << >>
    /\ SelfOnce(internal)

\* The registration n is still to be visited.
Ahead(L, c, n) == c # << >> /\ Before(L, c, n)

\* A closing instance has one event to itself, queued or handled, and will be met.
ClosesOnce(M, h, L, c, O, i) ==
    /\ InQueue(M, i) => ClosingIn(O, i) /\ h # SelfMsg(i)
    /\ ClosingIn(O, i) => InQueue(M, i) \/ h = SelfMsg(i)
    /\ h = SelfMsg(i) =>
          \A o \in OfIn(O, i) : ~O[o].active /\ Ahead(L, c, <<"LAN_DELETE_SELF", o>>)

\* No link event is handled while an instance closes, but the one that closes it.
NoneCloses(h, O, i) == h \in LinkMsg /\ ClosingIn(O, i) => h = Msg(DownOf(i), i)

\* A link event has had its effect, or the registration that will have it is ahead.
Due(h, L, c, O, i) ==
    h \in LinkMsg /\ h.iface = i =>
        \/ Asks(StateOf(O, i), i, h.event) = StateOf(O, i)
        \/ h.event = DownOf(i) /\ \E o \in OfIn(O, i) : Ahead(L, c, <<h.event, o>>)
        \/ h.event # DownOf(i) /\ Ahead(L, c, <<h.event, Manager>>)

\* What the interface is when the event being handled has had its effect, and
\* what the events that wait make of that.
Effect(h, O, i) ==
    IF h \in LinkMsg /\ h.iface = i THEN Asks(StateOf(O, i), i, h.event) ELSE StateOf(O, i)
Trace(E, s, t, i) ==
    \E tr \in [1 .. Len(E) + 1 -> States] :
        /\ tr[1] = s /\ tr[Len(E) + 1] = t
        /\ \A k \in 1 .. Len(E) :
              tr[k + 1] = IF E[k].iface = i THEN Asks(tr[k], i, E[k].event) ELSE tr[k]

Steady(M, h, L, c, O, C, i) ==
    /\ C[i] = CatOf(i, StateOf(O, i))
    /\ ClosesOnce(M, h, L, c, O, i)
    /\ NoneCloses(h, O, i)
    /\ Due(h, L, c, O, i)

LifeShape ==
    /\ ListShape(list, obj) /\ ObjShape(obj)
    /\ cur # << >> => IsListed(cur)
    /\ cat \in [Iface -> Category]
    /\ asked \in [Iface -> States]

IInv ==
    /\ QueueShape
    /\ LifeShape
    /\ \A i \in Iface : Steady(internal, handled, list, cur, obj, cat, i)
    /\ \A i \in Iface : Trace(external, Effect(handled, obj, i), asked[i], i)

-----------------------------------------------------------------------------
(* What a callback does, by what it means to the interface.                *)

Quiet(m, o) ==
    /\ UNCHANGED <<list, obj, cat, internal>>
    /\ LET i == m.iface
           s == StateOf(obj, i)
       IN  /\ m \in LinkMsg /\ m.event = DownOf(i) /\ o \in OfIn(obj, i) => Asks(s, i, m.event) = s
           /\ m \in LinkMsg /\ m.event # DownOf(i) /\ o = Manager => Asks(s, i, m.event) = s
           /\ m \in DeleteSelf => o \notin OfIn(obj, i)

Creates(m) ==
    \E i \in Iface, c \in Class, p \in Obj \ LiveIn(obj) :
        /\ m = Msg(m.event, i) /\ m \in LinkMsg /\ m.event # DownOf(i)
        /\ OfIn(obj, i) = {} /\ Fits(i, c) /\ c = Asks("none", i, m.event)
        /\ obj' = [obj EXCEPT ![p] = [iface |-> i, class |-> c, active |-> TRUE]]
        /\ list' = list \o NodesOf(p, c)
        /\ cat' = [cat EXCEPT ![i] = CatOf(i, c)]
        /\ UNCHANGED internal

Deletes(m, o, n) ==
    \E i \in Iface, b \in Nat :
        /\ o \in OfIn(obj, i)
        /\ BlockAt(list, o, obj[o].class, b) /\ n = b + Len(Registered(obj[o].class))
        /\ \/ m = SelfMsg(i)
           \/ m = Msg(DownOf(i), i) /\ obj[o].class \notin {"Lan", "Wlan"}
        /\ obj' = [obj EXCEPT ![o] = Free]
        /\ list' = Cut(list, b, Len(Registered(obj[o].class)))
        /\ cat' = [cat EXCEPT ![i] = CatOf(i, "none")]
        /\ UNCHANGED internal

Closes(m, o) ==
    \E i \in Iface :
        /\ o \in OfIn(obj, i) /\ obj[o].class \in {"Lan", "Wlan"} /\ obj[o].active
        /\ m = Msg(DownOf(i), i)
        /\ obj' = [obj EXCEPT ![o].active = FALSE]
        /\ internal' = Append(internal, SelfMsg(i))
        /\ cat' = [cat EXCEPT ![i] = CatOf(i, "none")]
        /\ UNCHANGED list

LEMMA CatSame ==
    ASSUME NEW i \in Iface, NEW s, cat \in [Iface -> Category], cat[i] = CatOf(i, s)
    PROVE  cat = [cat EXCEPT ![i] = CatOf(i, s)]
  OBVIOUS

\* create_iface_instance for the interface of a link event that has no instance.
LEMMA CreateDoes ==
    ASSUME NEW i \in Iface, NEW c, NEW sta, Create(i, c, sta)
    PROVE  /\ OfIn(obj, i) # {} \/ ClassFor(c, sta) = "none" => UNCHANGED <<list, obj>>
           /\ OfIn(obj, i) = {} /\ ClassFor(c, sta) # "none" =>
                 \E p \in Obj \ LiveIn(obj) :
                     /\ obj' = [obj EXCEPT ![p] = [iface |-> i, class |-> ClassFor(c, sta),
                                                   active |-> TRUE]]
                     /\ list' = list \o NodesOf(p, ClassFor(c, sta))
<1>1. Live = LiveIn(obj) /\ Of(i) = OfIn(obj, i)
  BY DEF Live, LiveIn, Of, OfIn
<1> QED
  BY <1>1 DEF Create, SearchInstance

\* The manager creates an instance or does nothing.
LEMMA ManagerDoes ==
    ASSUME IInv, NEW m, m = handled, m.event \in ManagerEvents, m \in LinkMsg, ManagerCallback(m)
    PROVE  Quiet(m, Manager) \/ Creates(m)
<1> DEFINE i == m.iface
           e == m.event
           s == StateOf(obj, i)
           sta == e = "WLAN_STA_LINK_UP"
<1>1. /\ i \in Iface /\ m = Msg(e, i) /\ m \notin DeleteSelf
      /\ InitialCat[i] \in {"UNKNOWN_IF", "LAN_IF", "WAN_IF"}
  BY MessageFacts, CategoriesAreKnown
<1>2. e # DownOf(i) /\ ~ClosingIn(obj, i)
  <2>1. e # DownOf(i)
    BY DEF DownOf, ManagerEvents
  <2>2. NoneCloses(handled, obj, i)
    BY <1>1 DEF IInv, Steady
  <2>3. m # Msg(DownOf(i), i)
    BY <2>1 DEF Msg
  <2> QED
    BY <2>1, <2>2, <2>3 DEF NoneCloses
<1>3. /\ cat[i] = CatOf(i, s) /\ ObjShape(obj) /\ s \in States
      /\ (s = "none") <=> (OfIn(obj, i) = {})
      /\ s # "none" => s \in Class /\ Fits(i, s)
  <2>1. cat[i] = CatOf(i, s) /\ ObjShape(obj)
    BY <1>1 DEF IInv, Steady, LifeShape
  <2>2. s \in States /\ IsState(obj, i, s)
    BY <2>1, StateExists
  <2>3. (s = "none") <=> (OfIn(obj, i) = {})
    BY <1>2, <2>2 DEF IsState, ClosingIn
  <2>4. s # "none" => s \in Class /\ Fits(i, s)
    BY <2>1, <2>2 DEF IsState, States, OfIn, ObjShape
  <2> QED
    BY <2>1, <2>2, <2>3, <2>4
<1>4. UNCHANGED internal /\ cat \in [Iface -> Category]
  BY DEF ManagerCallback, IInv, LifeShape
<1> HIDE DEF i, e, s
<1>5. CASE s # "none"
  <2>1. Asks(s, i, e) = s
    BY <1>1, <1>2, <1>3, <1>5, AsksIs
  <2>2. OfIn(obj, i) # {}
    BY <1>3, <1>5
  <2>3. cat[i] # "UNKNOWN_IF"
    BY <1>1, <1>3, <1>5, FitsFacts DEF CatOf, Class
  <2>4. UNCHANGED <<list, obj, cat>>
    BY <2>2, <2>3, <1>1, CreateDoes DEF ManagerCallback, ManagerEvents, lifeVars, i, e
  <2> QED
    BY <1>1, <1>4, <2>1, <2>4 DEF Quiet, i, e, s
<1>6. CASE s = "none"
  <2>1. Asks(s, i, e) = UpTo(i, e) /\ OfIn(obj, i) = {} /\ cat[i] = InitialCat[i]
    BY <1>1, <1>2, <1>3, <1>6, AsksIs DEF CatOf
  <2>2. UpTo(i, e) # "none" => UpTo(i, e) \in Class /\ Fits(i, UpTo(i, e))
    BY <1>2, <1>3, <1>1, AsksIs
  <2>3. \/ UNCHANGED <<list, obj, cat>> /\ UpTo(i, e) = "none"
        \/ UpTo(i, e) # "none" /\ \E p \in Obj \ LiveIn(obj) :
              /\ obj' = [obj EXCEPT ![p] = [iface |-> i, class |-> UpTo(i, e), active |-> TRUE]]
              /\ list' = list \o NodesOf(p, UpTo(i, e))
              /\ cat' = [cat EXCEPT ![i] = CatOf(i, UpTo(i, e))]
    <3>1. CASE e = "LINK_UP"
      <4>1. IF cat[i] = "WAN_IF" THEN Create(i, cat[i], FALSE) ELSE UNCHANGED <<list, obj>>
        BY <3>1 DEF ManagerCallback, i, e
      <4>2. UNCHANGED cat
        BY <3>1 DEF ManagerCallback, i, e
      <4>3. CASE cat[i] = "WAN_IF"
        <5>1. ClassFor(cat[i], FALSE) = "Wan" /\ UpTo(i, e) = "Wan" /\ cat[i] = CatOf(i, "Wan")
          BY <2>1, <3>1, <4>3 DEF ClassFor, UpTo, CatOf
        <5>2. cat' = [cat EXCEPT ![i] = CatOf(i, UpTo(i, e))]
          BY <1>1, <1>4, <4>2, <5>1, CatSame
        <5>3. PICK k : k = cat[i]
          OBVIOUS
        <5>4. Create(i, k, FALSE) /\ ClassFor(k, FALSE) = UpTo(i, e) /\ UpTo(i, e) # "none"
          BY <4>1, <4>3, <5>1, <5>3
        <5>5. \E p \in Obj \ LiveIn(obj) :
                 /\ obj' = [obj EXCEPT ![p] = [iface |-> i, class |-> ClassFor(k, FALSE),
                                               active |-> TRUE]]
                 /\ list' = list \o NodesOf(p, ClassFor(k, FALSE))
          BY <1>1, <2>1, <5>4, CreateDoes
        <5> QED
          BY <5>2, <5>4, <5>5
      <4>4. CASE cat[i] # "WAN_IF"
        BY <2>1, <3>1, <4>1, <4>2, <4>4 DEF UpTo
      <4> QED
        BY <4>3, <4>4
    <3>2. CASE e = "USB_LINK_UP"
      <4>1. Create(i, cat[i], FALSE) /\ UNCHANGED cat
        BY <3>2 DEF ManagerCallback, i, e
      <4>2. ClassFor(cat[i], FALSE) = UpTo(i, e)
        BY <1>1, <2>1, <3>2 DEF ClassFor, UpTo
      <4>3. CASE UpTo(i, e) = "none"
        BY <1>1, <4>1, <4>2, <4>3, CreateDoes
      <4>4. CASE UpTo(i, e) # "none"
        <5>1. cat[i] = CatOf(i, UpTo(i, e))
          BY <1>1, <2>1, <3>2, <4>4 DEF UpTo, CatOf
        <5>2. cat' = [cat EXCEPT ![i] = CatOf(i, UpTo(i, e))]
          BY <1>1, <1>4, <4>1, <5>1, CatSame
        <5>3. PICK k : k = cat[i]
          OBVIOUS
        <5>4. Create(i, k, FALSE) /\ ClassFor(k, FALSE) = UpTo(i, e)
          BY <4>1, <4>2, <5>3
        <5>5. \E p \in Obj \ LiveIn(obj) :
                 /\ obj' = [obj EXCEPT ![p] = [iface |-> i, class |-> ClassFor(k, FALSE),
                                               active |-> TRUE]]
                 /\ list' = list \o NodesOf(p, ClassFor(k, FALSE))
          BY <1>1, <2>1, <4>4, <5>4, CreateDoes
        <5> QED
          BY <4>4, <5>2, <5>4, <5>5
      <4> QED
        BY <4>3, <4>4
    <3>3. CASE e \in {"WLAN_AP_LINK_UP", "WLAN_STA_LINK_UP"}
      <4> DEFINE c == IF sta THEN "WAN_IF" ELSE "WLAN_IF"
      <4>1. IF cat[i] = "UNKNOWN_IF" THEN cat' = [cat EXCEPT ![i] = c] /\ Create(i, c, sta)
            ELSE UNCHANGED <<list, obj, cat>>
        BY <3>3 DEF ManagerCallback, lifeVars, i, e
      <4>2. CASE cat[i] = "UNKNOWN_IF"
        <5>1. /\ ClassFor(c, sta) = UpTo(i, e) /\ UpTo(i, e) # "none"
              /\ c = CatOf(i, UpTo(i, e))
          BY <2>1, <3>3, <4>2 DEF ClassFor, UpTo, CatOf, e
        <5> HIDE DEF c
        <5> QED
          BY SMTT(60), <1>1, <2>1, <4>1, <4>2, <5>1, CreateDoes
      <4>3. CASE cat[i] # "UNKNOWN_IF"
        BY <2>1, <3>3, <4>1, <4>3 DEF UpTo
      <4> QED
        BY <4>2, <4>3
    <3> QED
      BY <3>1, <3>2, <3>3 DEF ManagerEvents, e
  <2>4. CASE UNCHANGED <<list, obj, cat>> /\ UpTo(i, e) = "none"
    BY <1>1, <1>4, <1>6, <2>1, <2>4 DEF Quiet, i, e, s
  <2>5. CASE ~(UNCHANGED <<list, obj, cat>> /\ UpTo(i, e) = "none")
    <3> DEFINE c == UpTo(i, e)
    <3>1. PICK p \in Obj \ LiveIn(obj) :
              /\ obj' = [obj EXCEPT ![p] = [iface |-> i, class |-> c, active |-> TRUE]]
              /\ list' = list \o NodesOf(p, c)
              /\ cat' = [cat EXCEPT ![i] = CatOf(i, c)]
      BY <2>3, <2>5
    <3>2. c \in Class /\ Fits(i, c) /\ c = Asks("none", i, e)
      BY <1>6, <2>1, <2>2, <2>3, <2>5
    <3> HIDE DEF c
    <3> QED
      BY <1>1, <1>2, <1>4, <2>1, <3>1, <3>2 DEF Creates, e
  <2> QED
    BY <2>4, <2>5
<1> QED
  BY <1>5, <1>6

\* What the callback of a LAN or WLAN instance does.
LEMMA LanDoes ==
    ASSUME IInv, NEW n \in 1 .. Len(list), NEW o, o = list[n][2], o # Manager,
           handled \in Sent, list[n][1] = handled.event,
           obj[o].class \in {"Lan", "Wlan"}, LanCallback(o, handled)
    PROVE  Quiet(handled, o) \/ Deletes(handled, o, n) \/ Closes(handled, o)
<1> DEFINE m == handled
           i == obj[o].iface
           c == obj[o].class
           s == StateOf(obj, i)
<1>1. /\ ObjShape(obj) /\ ListShape(list, obj) /\ cat \in [Iface -> Category]
      /\ internal \in Seq(DeleteSelf \cup {Ssr})
  BY DEF IInv, LifeShape, QueueShape
<1>2. /\ o \in LiveIn(obj) /\ o \in Obj /\ i \in Iface /\ c \in Class /\ obj[o].active \in BOOLEAN
      /\ o \in OfIn(obj, i) /\ Fits(i, c)
  <2>1. o \in LiveIn(obj)
    BY <1>1, NodeOwner
  <2>2. i \in Iface /\ c \in Class /\ obj[o].active \in BOOLEAN
    BY <1>1, <2>1, FreeIsNoInstance DEF ObjShape
  <2> QED
    BY <1>1, <2>1, <2>2 DEF OfIn, LiveIn, ObjShape
<1>3. PICK b \in Nat : BlockAt(list, o, c, b)
  BY <1>1, <1>2 DEF ListShape
<1>4. /\ (IF c = "Lan" THEN "LINK_DOWN" ELSE "WLAN_LINK_DOWN") = DownOf(i)
      /\ c = "Wlan" => CatOf(i, "none") = "UNKNOWN_IF"
      /\ c = "Lan" => InitialCat[i] = "LAN_IF"
  BY <1>2, FitsFacts DEF Down, CatOf
<1>5. cat[i] = CatOf(i, s) /\ ClosesOnce(internal, m, list, cur, obj, i)
  BY <1>2 DEF IInv, Steady
<1>6. ASSUME NEW p \in OfIn(obj, i)
      PROVE  p = o
  BY <1>1, <1>2 DEF OfIn, ObjShape
<1>7. (~obj[o].active) => s = "none"
  BY <1>1, <1>6, StateIs DEF IsState, States
<1>8. m.event \in LinkEvent => m \in LinkMsg /\ m = Msg(m.event, m.iface)
  BY MessageFacts
<1>9. CASE m.iface = i /\ m.event = "LAN_DELETE_SELF"
  <2>1. Delete(o) /\ UNCHANGED <<cat, internal>>
    BY <1>9 DEF LanCallback
  <2>2. m = SelfMsg(i)
    BY <1>9, MessageFacts
  <2>3. n = b + Len(Registered(c))
    <3>1. /\ list[n][2] # Manager /\ list[n][1] = "LAN_DELETE_SELF"
          /\ BlockAt(list, list[n][2], obj[list[n][2]].class, b)
      BY <1>3, <1>9
    <3>2. n = b + Len(Registered(obj[list[n][2]].class))
      BY SMTT(60), <1>1, <3>1, InstanceNode
    <3> QED
      BY <3>2
  <2>4. list' = Cut(list, b, Len(Registered(c))) /\ obj' = [obj EXCEPT ![o] = Free]
    BY <1>1, <1>2, <1>3, <2>1, DeleteCuts DEF ListShape
  <2>5. s = "none"
    BY <1>2, <1>5, <1>7, <2>2 DEF ClosesOnce
  <2>6. cat' = [cat EXCEPT ![i] = CatOf(i, "none")]
    BY <1>1, <1>2, <1>5, <2>1, <2>5, CatSame
  <2> QED
    BY <1>2, <1>3, <2>1, <2>2, <2>3, <2>4, <2>6 DEF Deletes
<1>10. CASE m.iface = i /\ m.event = DownOf(i) /\ obj[o].active
  <2>1. m.event # "LAN_DELETE_SELF" /\ m.event \in LinkEvent
    BY <1>10 DEF DownOf, LinkEvent
  <2>2. Close(o) /\ IF c = "Wlan" THEN CatReset(i) ELSE UNCHANGED cat
    BY <1>4, <1>10, <2>1 DEF LanCallback
  <2>3. m = Msg(DownOf(i), i)
    BY <1>8, <1>10, <2>1
  <2>4. internal' = Append(internal, SelfMsg(i))
    BY SMTT(60), <1>2, <2>2, MessageFacts DEF Close, Q!Post, SelfMsg
  <2>5. cat' = [cat EXCEPT ![i] = CatOf(i, "none")]
    <3>1. CASE c = "Wlan"
      BY <1>4, <2>2, <3>1 DEF CatReset
    <3>2. CASE c = "Lan"
      <4>1. cat[i] = CatOf(i, "none")
        BY <1>4, <1>5, <3>2 DEF CatOf
      <4> QED
        BY <1>1, <1>2, <2>2, <3>2, <4>1, CatSame
    <3> QED
      BY <3>1, <3>2
  <2> QED
    BY <1>2, <1>10, <2>2, <2>3, <2>4, <2>5 DEF Closes, Close
<1>11. CASE /\ ~(m.iface = i /\ m.event = "LAN_DELETE_SELF")
            /\ ~(m.iface = i /\ m.event = DownOf(i) /\ obj[o].active)
  <2>1. UNCHANGED <<list, obj, cat, internal>>
    BY <1>4, <1>11 DEF LanCallback, lifeVars
  <2>2. o \in OfIn(obj, m.iface) => m.iface = i
    BY DEF OfIn
  <2>3. ASSUME m \in LinkMsg, m.event = DownOf(i), m.iface = i
        PROVE  Asks(s, i, m.event) = s
    <3>1. s = "none" /\ s \in States
      BY <1>2, <1>7, <1>11, <2>3 DEF States
    <3> QED
      BY <1>2, <2>3, <3>1, AsksIs
  <2>4. m \in DeleteSelf => m.event = "LAN_DELETE_SELF"
    BY MessageFacts
  <2> QED
    BY <1>11, <2>1, <2>2, <2>3, <2>4 DEF Quiet
<1> QED
  BY <1>9, <1>10, <1>11

\* A WAN instance.
LEMMA WanDoes ==
    ASSUME IInv, NEW n \in 1 .. Len(list), NEW o, o = list[n][2], o # Manager,
           handled \in Sent, list[n][1] = handled.event,
           obj[o].class \notin {"Lan", "Wlan"}, WanCallback(o, handled)
    PROVE  Quiet(handled, o) \/ Deletes(handled, o, n)
<1> DEFINE m == handled
           i == obj[o].iface
           c == obj[o].class
           s == StateOf(obj, i)
<1>1. ObjShape(obj) /\ ListShape(list, obj) /\ cat \in [Iface -> Category]
  BY DEF IInv, LifeShape
<1>2. /\ o \in LiveIn(obj) /\ o \in Obj /\ i \in Iface /\ c \in Class
      /\ o \in OfIn(obj, i) /\ Fits(i, c)
  <2>1. o \in LiveIn(obj)
    BY <1>1, NodeOwner
  <2>2. i \in Iface /\ c \in Class
    BY <1>1, <2>1, FreeIsNoInstance DEF ObjShape
  <2> QED
    BY <1>1, <2>1, <2>2 DEF OfIn, LiveIn, ObjShape
<1>3. PICK b \in Nat : BlockAt(list, o, c, b)
  BY <1>1, <1>2 DEF ListShape
<1>4. CASE m.iface = i
  <2>1. /\ Delete(o) /\ UNCHANGED internal
        /\ IF c = "WanSta" THEN CatReset(i) ELSE UNCHANGED cat
    BY <1>4 DEF WanCallback
  <2>2. m.event # "ADDR_ADD" /\ m.event # "SSR_NOTICE"
    <3>1. m # Ssr
      BY <1>2, <1>4, MessageFacts, NothingIsNoObj
    <3>2. m.event = "SSR_NOTICE" => m = Ssr
      <4>1. m \in LinkMsg \/ m \in DeleteSelf \/ m = Ssr
        BY MessageFacts
      <4> QED
        BY <4>1, MessageFacts DEF LinkEvent
    <3> QED
      BY <3>1, <3>2, MessageFacts
  <2>3. m.event = Down(c) /\ n = b + Len(Registered(c))
    BY SMTT(60), <1>1, <1>3, <2>2, InstanceNode
  <2>4. m = Msg(DownOf(i), i)
    <3>1. m.event = DownOf(i) /\ m.event \in LinkEvent
      BY <1>2, <2>3, FitsFacts DEF Down, LinkEvent
    <3> QED
      BY <1>4, <3>1, MessageFacts
  <2>5. list' = Cut(list, b, Len(Registered(c))) /\ obj' = [obj EXCEPT ![o] = Free]
    BY SMTT(60), <1>1, <1>2, <1>3, <2>1, DeleteCuts DEF ListShape
  <2>6. cat' = [cat EXCEPT ![i] = CatOf(i, "none")]
    <3>1. CASE c = "WanSta"
      <4>1. CatOf(i, "none") = "UNKNOWN_IF"
        BY <1>2, <3>1, FitsFacts DEF CatOf
      <4> QED
        BY <2>1, <3>1, <4>1 DEF CatReset
    <3>2. CASE c # "WanSta"
      <4>1. c = "Wan"
        BY <1>2, <3>2 DEF Class
      <4>2. cat[i] = CatOf(i, s)
        BY <1>2 DEF IInv, Steady
      <4>3. cat[i] = CatOf(i, "none")
        BY <1>2, <4>1, <4>2, FitsFacts DEF CatOf
      <4> QED
        BY <1>1, <1>2, <2>1, <3>2, <4>3, CatSame
    <3> QED
      BY <3>1, <3>2
  <2> QED
    BY <1>2, <1>3, <2>1, <2>3, <2>4, <2>5, <2>6 DEF Deletes
<1>5. CASE m.iface # i
  <2>1. UNCHANGED <<list, obj, cat, internal>>
    BY <1>5 DEF WanCallback, lifeVars
  <2>2. o \notin OfIn(obj, m.iface)
    BY <1>5 DEF OfIn
  <2> QED
    BY <2>1, <2>2 DEF Quiet
<1> QED
  BY <1>4, <1>5

\* ProcessEvt at one registration.
LEMMA VisitDoes ==
    ASSUME IInv, Visit
    PROVE  LET o == list[Nearest][2]
           IN  /\ handled \in Sent /\ UNCHANGED <<handled, asked, external>>
               /\ cur' = IF Nearest = Len(list) THEN << >> ELSE list[Nearest + 1]
               /\ \/ Quiet(handled, o)
                  \/ Creates(handled) /\ o = Manager
                  \/ Deletes(handled, o, Nearest)
                  \/ Closes(handled, o)
<1> DEFINE n == Nearest
           o == list[n][2]
<1>1. /\ handled \in Sent /\ ObjShape(obj) /\ ListShape(list, obj) /\ Objects(obj)
      /\ IsListed(cur) /\ Matching # {}
  BY DEF IInv, QueueShape, LifeShape, Visit, ObjShape
<1>2. n \in 1 .. Len(list) /\ list[n][1] = handled.event
  BY <1>1, VisitWalks
<1>3. /\ cur' = IF n = Len(list) THEN << >> ELSE list[n + 1]
      /\ UNCHANGED <<handled, asked>>
      /\ CASE o = Manager -> ManagerCallback(handled)
           [] o # Manager /\ obj[o].class \in {"Lan", "Wlan"} -> LanCallback(o, handled)
           [] OTHER -> WanCallback(o, handled)
  BY DEF Visit
<1> HIDE DEF n
<1>4. CASE o = Manager
  <2>1. handled.event \in ManagerEvents
    BY <1>1, <1>2, <1>4, NodeOwner
  <2>2. handled \in LinkMsg
    BY <1>1, <2>1, MessageFacts DEF ManagerEvents, LinkEvent
  <2>3. ManagerCallback(handled)
    BY <1>3, <1>4
  <2>4. UNCHANGED external
    BY <2>3 DEF ManagerCallback
  <2>5. Quiet(handled, Manager) \/ Creates(handled)
    BY <2>1, <2>2, <2>3, ManagerDoes
  <2> QED
    BY <1>1, <1>3, <1>4, <2>4, <2>5 DEF n
<1>5. CASE o # Manager /\ obj[o].class \in {"Lan", "Wlan"}
  <2>1. LanCallback(o, handled)
    BY <1>3, <1>5
  <2>2. o \in LiveIn(obj)
    BY <1>1, <1>2, <1>5, NodeOwner
  <2>3. obj[o].iface \in Iface
    BY <1>1, <2>2, FreeIsNoInstance
  <2>4. UNCHANGED external
    BY <2>1, <2>3, MessageFacts DEF LanCallback, Close, Q!Post, SelfMsg
  <2> QED
    BY <1>1, <1>2, <1>3, <1>5, <2>1, <2>4, LanDoes DEF n
<1>6. CASE o # Manager /\ obj[o].class \notin {"Lan", "Wlan"}
  <2>1. WanCallback(o, handled)
    BY <1>3, <1>6
  <2>2. UNCHANGED external
    BY <2>1 DEF WanCallback
  <2> QED
    BY <1>1, <1>2, <1>3, <1>6, <2>1, <2>2, WanDoes DEF n
<1> QED
  BY <1>4, <1>5, <1>6

-----------------------------------------------------------------------------
(* Every step keeps the invariant.                                         *)

LEMMA InitIInv == Init => IInv
<1> SUFFICES ASSUME Init PROVE IInv
  OBVIOUS
<1>1. /\ internal = << >> /\ external = << >> /\ handled = NoMessage /\ cur = << >>
      /\ list = ManagerNodes /\ obj = [o \in Obj |-> Free] /\ cat = InitialCat
      /\ asked = [i \in Iface |-> "none"]
  BY DEF Init, Q!Init
<1>2. LiveIn(obj) = {} /\ Objects(obj) /\ \A i : OfIn(obj, i) = {}
  BY <1>1 DEF LiveIn, Objects, OfIn
<1>3. QueueShape
  BY <1>1 DEF QueueShape, SelfOnce
<1>4. LifeShape
  <2>1. ListShape(list, obj)
    BY <1>1, <1>2, ManagerFacts DEF ListShape
  <2>2. ObjShape(obj)
    BY <1>2 DEF ObjShape
  <2>3. cat \in [Iface -> Category] /\ asked \in [Iface -> States]
    BY <1>1, CategoriesAreKnown DEF Category, States
  <2> QED
    BY <1>1, <2>1, <2>2, <2>3 DEF LifeShape
<1>5. ASSUME NEW i \in Iface
      PROVE  /\ Steady(internal, handled, list, cur, obj, cat, i)
             /\ Trace(external, Effect(handled, obj, i), asked[i], i)
  <2>1. StateOf(obj, i) = "none" /\ ~ClosingIn(obj, i)
    BY <1>2, <1>4, StateIs DEF LifeShape, IsState, States, ClosingIn
  <2>2. handled \notin LinkMsg /\ handled # SelfMsg(i) /\ ~InQueue(internal, i)
    BY <1>1, MessageFacts DEF InQueue
  <2>3. cat[i] = CatOf(i, "none")
    BY <1>1, CategoriesAreKnown DEF CatOf
  <2>4. Steady(internal, handled, list, cur, obj, cat, i)
    BY <2>1, <2>2, <2>3 DEF Steady, ClosesOnce, NoneCloses, Due
  <2>5. Trace(external, "none", "none", i)
    <3> DEFINE tr == [k \in 1 .. 1 |-> "none"]
    <3>1. tr \in [1 .. Len(external) + 1 -> States] /\ tr[1] = "none" /\ Len(external) = 0
      BY <1>1 DEF States
    <3> HIDE DEF tr
    <3>2. tr[Len(external) + 1] = "none"
      BY <3>1
    <3> QED
      BY <3>1, <3>2 DEF Trace
  <2> QED
    BY <1>1, <2>1, <2>2, <2>4, <2>5 DEF Effect
<1> QED
  BY <1>3, <1>4, <1>5 DEF IInv

\* The threads that post.
LEMMA TraceGrows ==
    ASSUME NEW E \in Seq(LinkMsg), NEW m \in LinkMsg, NEW i \in Iface, NEW s, NEW t \in States,
           Trace(E, s, t, i)
    PROVE  Trace(Append(E, m), s, IF m.iface = i THEN Asks(t, i, m.event) ELSE t, i)
<1> DEFINE u == IF m.iface = i THEN Asks(t, i, m.event) ELSE t
           n == Len(E)
           F == Append(E, m)
<1>1. PICK tr \in [1 .. n + 1 -> States] :
         /\ tr[1] = s /\ tr[n + 1] = t
         /\ \A k \in 1 .. n :
               tr[k + 1] = IF E[k].iface = i THEN Asks(tr[k], i, E[k].event) ELSE tr[k]
  BY DEF Trace
<1> DEFINE ts == [k \in 1 .. n + 2 |-> IF k = n + 2 THEN u ELSE tr[k]]
<1>2. u \in States
  BY AsksIs
<1>3. n \in Nat /\ Len(F) = n + 1 /\ F[n + 1] = m /\ \A k \in 1 .. n : F[k] = E[k]
  OBVIOUS
<1> HIDE DEF u, F, n
<1>4. ts \in [1 .. n + 2 -> States]
  BY <1>1, <1>2, <1>3
<1>5. ts[1] = s /\ ts[n + 2] = u /\ ts[n + 1] = t /\ \A k \in 1 .. n + 1 : ts[k] = tr[k]
  BY <1>1, <1>3
<1> HIDE DEF ts
<1>6. ASSUME NEW k \in 1 .. n + 1
      PROVE  ts[k + 1] = IF F[k].iface = i THEN Asks(ts[k], i, F[k].event) ELSE ts[k]
  <2>1. CASE k = n + 1
    <3>1. k + 1 = n + 2
      BY <1>3, <2>1
    <3> QED
      BY <1>3, <1>5, <2>1, <3>1 DEF u
  <2>2. CASE k # n + 1
    <3>1. k \in 1 .. n /\ k + 1 \in 1 .. n + 1
      BY <1>3, <2>2
    <3>2. ts[k + 1] = tr[k + 1] /\ ts[k] = tr[k] /\ F[k] = E[k]
      BY <1>3, <1>5, <3>1
    <3> QED
      BY <1>1, <3>1, <3>2
  <2> QED
    BY <2>1, <2>2
<1>7. Len(F) + 1 = n + 2
  BY <1>3
<1>8. Trace(F, s, u, i)
  BY SMTT(60), <1>3, <1>4, <1>5, <1>6, <1>7 DEF Trace
<1> QED
  BY <1>8 DEF F, u

\* The actions keep the invariant.
LEMMA PostLinkKeeps ==
    ASSUME IInv, NEW e \in LinkEvent, NEW i \in Iface, PostLink(e, i)
    PROVE  IInv'
<1> DEFINE m == Msg(e, i)
<1>1. m \in LinkMsg /\ m.event = e /\ m.iface = i /\ m \notin DeleteSelf \cup {Ssr}
  BY MessageFacts
<1>2. /\ external' = Append(external, m) /\ UNCHANGED internal
      /\ asked' = [asked EXCEPT ![i] = Asks(asked[i], i, e)]
      /\ UNCHANGED <<handled, list, obj, cat, cur>>
  BY <1>1 DEF PostLink, Q!Post, lifeVars
<1> HIDE DEF m
<1>3. /\ external \in Seq(LinkMsg) /\ asked \in [Iface -> States]
      /\ \A j \in Iface : asked[j] \in States
  BY DEF IInv, QueueShape, LifeShape
<1>4. QueueShape'
  BY <1>1, <1>2 DEF IInv, QueueShape
<1>5. LifeShape'
  <2>1. Asks(asked[i], i, e) \in States
    BY <1>3, AsksIs
  <2> QED
    BY <1>2, <1>3, <2>1 DEF IInv, LifeShape, IsListed
<1>6. \A j \in Iface : Steady(internal', handled', list', cur', obj', cat', j)
  BY <1>2 DEF IInv
<1>7. ASSUME NEW j \in Iface
      PROVE  Trace(external', Effect(handled', obj', j), asked'[j], j)
  <2>1. Trace(external, Effect(handled, obj, j), asked[j], j)
    BY DEF IInv
  <2>2. asked'[j] = IF m.iface = j THEN Asks(asked[j], j, m.event) ELSE asked[j]
    BY <1>1, <1>2, <1>3
  <2>3. PICK s, t : s = Effect(handled, obj, j) /\ t = asked[j]
    OBVIOUS
  <2>4. Trace(Append(external, m), s, IF m.iface = j THEN Asks(t, j, m.event) ELSE t, j)
    BY <1>1, <1>3, <2>1, <2>3, TraceGrows
  <2> QED
    BY <1>2, <2>2, <2>3, <2>4
<1> QED
  BY <1>4, <1>5, <1>6, <1>7 DEF IInv

LEMMA PostSsrKeeps ==
    ASSUME IInv, PostSsr
    PROVE  IInv'
<1>1. /\ internal' = Append(internal, Ssr) /\ internal = << >>
      /\ UNCHANGED <<external, handled, list, obj, cat, cur, asked>>
  BY DEF PostSsr, Q!Post, lifeVars
<1>2. Len(internal') = 1 /\ internal'[1] = Ssr /\ internal' \in Seq(DeleteSelf \cup {Ssr})
  BY <1>1
<1>3. \A i \in Iface : ~InQueue(internal, i) /\ ~InQueue(internal', i)
  BY <1>1, <1>2, MessageFacts DEF InQueue
<1>4. QueueShape'
  <2>1. SelfOnce(internal')
    BY <1>2 DEF SelfOnce
  <2> QED
    BY <1>1, <1>2, <2>1 DEF IInv, QueueShape
<1>5. LifeShape'
  BY <1>1 DEF IInv, LifeShape, IsListed
<1>6. \A i \in Iface : Steady(internal', handled', list', cur', obj', cat', i)
  BY <1>1, <1>3 DEF IInv, Steady, ClosesOnce
<1>7. \A i \in Iface : Trace(external', Effect(handled', obj', i), asked'[i], i)
  BY <1>1 DEF IInv
<1> QED
  BY <1>4, <1>5, <1>6, <1>7 DEF IInv

\* The walk: the registrations for the event that stay ahead.
LEMMA WalksOn ==
    ASSUME IInv, Visit, UNCHANGED list, NEW y, Ahead(list, cur, y), y[1] = handled.event,
           y # list[Nearest]
    PROVE  Ahead(list', cur', y)
<1>1. /\ Objects(obj) /\ ListShape(list, obj) /\ ObjShape(obj)
      /\ IsListed(cur) /\ Matching # {} /\ Before(list, cur, y)
  BY DEF IInv, LifeShape, ObjShape, Visit, Ahead
<1>2. Nearest < Len(list) /\ Before(list, list[Nearest + 1], y) /\ Nearest \in 1 .. Len(list)
  BY <1>1, VisitWalks
<1>3. Nearest + 1 \in 1 .. Len(list) /\ cur' = list[Nearest + 1]
  BY <1>1, <1>2 DEF Visit, ListShape
<1>4. cur' # << >>
  BY <1>1, <1>3, NodeOwner
<1> QED
  BY <1>2, <1>3, <1>4 DEF Ahead

\* What the next registration is.
LEMMA NextListed ==
    ASSUME IInv, Visit, cur' # << >>
    PROVE  Nearest + 1 \in 1 .. Len(list) /\ cur' = list[Nearest + 1] /\ list \in Seq(Node)
<1>1. Nearest \in 1 .. Len(list) /\ list \in Seq(Node) /\ Len(list) \in Nat
  BY VisitWalks DEF IInv, LifeShape, ObjShape, Visit, ListShape
<1> QED
  BY <1>1, VisitDoes

\* The four kinds of visits keep the invariant.
LEMMA QuietKeeps ==
    ASSUME IInv, Visit, Quiet(handled, list[Nearest][2])
    PROVE  IInv'
<1> DEFINE m == handled
           o == list[Nearest][2]
<1>1. /\ UNCHANGED <<list, obj, cat, internal, external, handled, asked>> /\ m \in Sent
  BY VisitDoes DEF Quiet
<1>2. QueueShape'
  BY <1>1, MessageFacts, NothingIsNoMessage DEF IInv, QueueShape
<1>3. cur' # << >> => IsListed(cur)'
  BY <1>1, NextListed DEF IsListed
<1>4. LifeShape'
  BY <1>1, <1>3 DEF IInv, LifeShape
<1>5. ASSUME NEW i \in Iface
      PROVE  Steady(internal', handled', list', cur', obj', cat', i)
  <2>1. Steady(internal, m, list, cur, obj, cat, i)
    BY DEF IInv
  <2>2. ClosesOnce(internal, m, list, cur', obj, i)
    <3>1. ASSUME m = SelfMsg(i), NEW p \in OfIn(obj, i)
          PROVE  ~obj[p].active /\ Ahead(list, cur', <<"LAN_DELETE_SELF", p>>)
      <4> DEFINE y == <<"LAN_DELETE_SELF", p>>
      <4>1. ~obj[p].active /\ Ahead(list, cur, y) /\ y[1] = m.event
        BY <2>1, <3>1, MessageFacts DEF Steady, ClosesOnce
      <4>2. y # list[Nearest]
        <5>1. o \notin OfIn(obj, i)
          BY <3>1, MessageFacts DEF Quiet
        <5>2. y[2] = p
          OBVIOUS
        <5> QED
          BY <5>1, <5>2
      <4> HIDE DEF y
      <4>3. Ahead(list', cur', y)
        BY <1>1, <4>1, <4>2, WalksOn
      <4> QED
        BY <1>1, <4>1, <4>3 DEF y
    <3> QED
      BY <2>1, <3>1 DEF Steady, ClosesOnce
  <2>3. Due(m, list, cur', obj, i)
    <3> SUFFICES ASSUME m \in LinkMsg, m.iface = i, Asks(StateOf(obj, i), i, m.event) # StateOf(obj, i)
                 PROVE  \/ m.event = DownOf(i) /\ \E p \in OfIn(obj, i) : Ahead(list, cur', <<m.event, p>>)
                        \/ m.event # DownOf(i) /\ Ahead(list, cur', <<m.event, Manager>>)
      BY DEF Due
    <3>1. \/ m.event = DownOf(i) /\ \E p \in OfIn(obj, i) : Ahead(list, cur, <<m.event, p>>)
          \/ m.event # DownOf(i) /\ Ahead(list, cur, <<m.event, Manager>>)
      BY <2>1 DEF Steady, Due
    <3>2. CASE m.event = DownOf(i)
      <4>1. PICK p \in OfIn(obj, i) : Ahead(list, cur, <<m.event, p>>)
        BY <3>1, <3>2
      <4> DEFINE y == <<m.event, p>>
      <4>2. y[1] = m.event /\ y[2] = p
        OBVIOUS
      <4>3. o \notin OfIn(obj, i)
        BY <3>2 DEF Quiet
      <4>4. PICK z : z = y
        OBVIOUS
      <4>5. Ahead(list', cur', z)
        <5>1. Ahead(list, cur, z) /\ z[1] = handled.event /\ z # list[Nearest]
          BY <4>1, <4>2, <4>3, <4>4
        <5> QED
          BY <1>1, <5>1, WalksOn
      <4> QED
        BY <1>1, <3>2, <4>4, <4>5
    <3>3. CASE m.event # DownOf(i)
      <4> DEFINE y == <<m.event, Manager>>
      <4>1. Ahead(list, cur, y)
        BY <3>1, <3>3
      <4>2. y[1] = m.event /\ y[2] = Manager
        OBVIOUS
      <4>3. o # Manager
        BY <3>3 DEF Quiet
      <4>4. PICK z : z = y
        OBVIOUS
      <4>5. Ahead(list', cur', z)
        <5>1. Ahead(list, cur, z) /\ z[1] = handled.event /\ z # list[Nearest]
          BY <4>1, <4>2, <4>3, <4>4
        <5> QED
          BY <1>1, <5>1, WalksOn
      <4> QED
        BY <1>1, <3>3, <4>4, <4>5
    <3> QED
      BY <3>2, <3>3
  <2> QED
    BY <1>1, <2>1, <2>2, <2>3 DEF Steady
<1>6. \A i \in Iface : Trace(external', Effect(handled', obj', i), asked'[i], i)
  BY <1>1 DEF IInv
<1> QED
  BY <1>2, <1>4, <1>5, <1>6 DEF IInv

\* The interfaces the event is not about, when instances of i change.
LEMMA OthersSteady ==
    ASSUME IInv, NEW i \in Iface, NEW s, NEW j \in Iface, j # i,
           OfIn(obj', j) = OfIn(obj, j) /\ \A p \in OfIn(obj, j) : obj'[p] = obj[p],
           handled \in Sent, handled.iface = i, UNCHANGED <<handled, external, asked>>,
           cat' = [cat EXCEPT ![i] = s],
           InQueue(internal', j) <=> InQueue(internal, j)
    PROVE  /\ Steady(internal', handled', list', cur', obj', cat', j)
           /\ Trace(external', Effect(handled', obj', j), asked'[j], j)
<1>1. StateOf(obj', j) = StateOf(obj, j) /\ (ClosingIn(obj', j) <=> ClosingIn(obj, j))
  BY StateKept
<1>2. handled # SelfMsg(j)
  BY MessageFacts
<1>3. cat'[j] = cat[j]
  BY DEF IInv, LifeShape
<1>4. Steady(internal, handled, list, cur, obj, cat, j)
  BY DEF IInv
<1>5. Effect(handled', obj', j) = Effect(handled, obj, j)
  BY <1>1 DEF Effect
<1>6. Trace(external, Effect(handled, obj, j), asked[j], j)
  BY DEF IInv
<1>7. cat'[j] = CatOf(j, StateOf(obj', j))
  BY <1>1, <1>3, <1>4 DEF Steady
<1>8. ClosesOnce(internal', handled', list', cur', obj', j)
  BY <1>1, <1>2, <1>4 DEF Steady, ClosesOnce
<1>9. NoneCloses(handled', obj', j)
  BY <1>1, <1>4 DEF Steady, NoneCloses
<1>10. Due(handled', list', cur', obj', j)
  BY DEF Due
<1> QED
  BY <1>5, <1>6, <1>7, <1>8, <1>9, <1>10 DEF Steady

LEMMA CreatesKeeps ==
    ASSUME IInv, Visit, Creates(handled)
    PROVE  IInv'
<1> DEFINE m == handled
<1>1. PICK i \in Iface, c \in Class, p \in Obj \ LiveIn(obj) :
        /\ m = Msg(m.event, i) /\ m \in LinkMsg /\ m.event # DownOf(i)
        /\ OfIn(obj, i) = {} /\ Fits(i, c) /\ c = Asks("none", i, m.event)
        /\ obj' = [obj EXCEPT ![p] = [iface |-> i, class |-> c, active |-> TRUE]]
        /\ list' = list \o NodesOf(p, c)
        /\ cat' = [cat EXCEPT ![i] = CatOf(i, c)]
        /\ UNCHANGED internal
  BY DEF Creates
<1>2. UNCHANGED <<external, handled, asked>> /\ m \in Sent /\ m.iface = i
  BY <1>1, VisitDoes, MessageFacts DEF Msg
<1>3. ObjShape(obj) /\ ListShape(list, obj) /\ Objects(obj) /\ cat \in [Iface -> Category]
  BY DEF IInv, LifeShape, ObjShape
<1>4. /\ ObjShape(obj') /\ OfIn(obj', i) = {p} /\ StateOf(obj', i) = c /\ ~ClosingIn(obj', i)
      /\ \A j \in Iface \ {i} :
            OfIn(obj', j) = OfIn(obj, j) /\ \A q \in OfIn(obj, j) : obj'[q] = obj[q]
  <2>1. PICK O, P : O = obj /\ P = obj'
    OBVIOUS
  <2>2. Becomes(O, P, p, [iface |-> i, class |-> c, active |-> TRUE])
    BY <1>1, <2>1 DEF Becomes
  <2>3. ObjShape(O)
    BY <1>3, <2>1
  <2>4. OfIn(O, i) = {} /\ p \in Obj \ LiveIn(O) /\ Fits(i, c)
    BY <1>1, <2>1
  <2>5. /\ ObjShape(P) /\ OfIn(P, i) = {p} /\ StateOf(P, i) = c /\ ~ClosingIn(P, i)
        /\ \A j \in Iface \ {i} :
              OfIn(P, j) = OfIn(O, j) /\ \A q \in OfIn(O, j) : P[q] = O[q]
    BY <2>2, <2>3, <2>4, CreateKeepsObjects
  <2> QED
    BY <2>1, <2>5
<1>5. StateOf(obj, i) = "none" /\ ~ClosingIn(obj, i)
  BY <1>1, <1>3, StateIs DEF IsState, States, ClosingIn
<1>6. ListShape(list', obj')
  <2> DEFINE x == [iface |-> i, class |-> c, active |-> TRUE]
  <2>1. x \in Instance /\ x.class = c
    BY DEF Instance
  <2> HIDE DEF x
  <2>2. ListShape(list \o NodesOf(p, x.class), [obj EXCEPT ![p] = x])
    BY <1>3, <2>1, CreateKeepsShape
  <2> QED
    BY <1>1, <2>1, <2>2 DEF x
<1>7. QueueShape'
  BY <1>1, <1>2, MessageFacts, NothingIsNoMessage DEF IInv, QueueShape
<1>8. cur' # << >> => IsListed(cur)'
  <2> SUFFICES ASSUME cur' # << >> PROVE \E k \in 1 .. Len(list') : list'[k] = cur'
    BY DEF IsListed
  <2>1. Nearest + 1 \in 1 .. Len(list) /\ cur' = list[Nearest + 1] /\ list \in Seq(Node)
    BY NextListed
  <2>2. NodesOf(p, c) \in Seq(Node)
    BY NodesFacts
  <2>3. /\ (list \o NodesOf(p, c))[Nearest + 1] = list[Nearest + 1]
        /\ Nearest + 1 \in 1 .. Len(list \o NodesOf(p, c))
    BY <2>1, <2>2, AppendedList
  <2> QED
    BY <1>1, <2>1, <2>3
<1>9. LifeShape'
  <2>1. CatOf(i, c) \in Category
    BY CatOfFacts DEF States
  <2> QED
    BY <1>1, <1>2, <1>3, <1>4, <1>6, <1>8, <2>1 DEF IInv, LifeShape
<1>10. Asks(c, i, m.event) = c /\ c \in States
  <2>1. "none" \in States
    BY DEF States
  <2> QED
    BY <1>1, <2>1, AsksIs DEF States
<1>11. Steady(internal', handled', list', cur', obj', cat', i)
  <2>1. ~InQueue(internal, i) /\ m # SelfMsg(i)
    <3>1. ClosesOnce(internal, m, list, cur, obj, i)
      BY DEF IInv, Steady
    <3> QED
      BY <1>1, <1>5, <3>1, MessageFacts DEF ClosesOnce
  <2>2. cat'[i] = CatOf(i, StateOf(obj', i))
    BY <1>1, <1>3, <1>4
  <2> QED
    BY <1>1, <1>2, <1>4, <1>10, <2>1, <2>2 DEF Steady, ClosesOnce, NoneCloses, Due
<1>12. Trace(external', Effect(handled', obj', i), asked'[i], i)
  <2>1. Effect(handled', obj', i) = c /\ Effect(handled, obj, i) = c
    BY <1>1, <1>2, <1>4, <1>5, <1>10 DEF Effect
  <2>2. Trace(external, Effect(handled, obj, i), asked[i], i)
    BY DEF IInv
  <2> QED
    BY <1>2, <2>1, <2>2
<1>13. ASSUME NEW j \in Iface, j # i
       PROVE  /\ Steady(internal', handled', list', cur', obj', cat', j)
              /\ Trace(external', Effect(handled', obj', j), asked'[j], j)
  <2>1. OfIn(obj', j) = OfIn(obj, j) /\ \A q \in OfIn(obj, j) : obj'[q] = obj[q]
    BY <1>4, <1>13
  <2>2. InQueue(internal', j) <=> InQueue(internal, j)
    BY <1>1
  <2> QED
    BY <1>1, <1>2, <1>13, <2>1, <2>2, OthersSteady
<1> QED
  BY <1>7, <1>9, <1>11, <1>12, <1>13 DEF IInv

LEMMA DeletesKeeps ==
    ASSUME IInv, Visit, Deletes(handled, list[Nearest][2], Nearest)
    PROVE  IInv'
<1> DEFINE m == handled
<1>1. PICK o : o = list[Nearest][2]
  OBVIOUS
<1>c. PICK c : c = obj[o].class
  OBVIOUS
<1>2. PICK i \in Iface, b \in Nat :
        /\ c = obj[o].class
        /\ o \in OfIn(obj, i)
        /\ BlockAt(list, o, c, b) /\ Nearest = b + Len(Registered(c))
        /\ \/ m = SelfMsg(i)
           \/ m = Msg(DownOf(i), i) /\ c \notin {"Lan", "Wlan"}
        /\ obj' = [obj EXCEPT ![o] = Free]
        /\ list' = Cut(list, b, Len(Registered(c)))
        /\ cat' = [cat EXCEPT ![i] = CatOf(i, "none")]
        /\ UNCHANGED internal
  BY <1>1, <1>c DEF Deletes
<1>3. UNCHANGED <<external, handled, asked>> /\ m \in Sent /\ m.iface = i
  <2>1. m.iface = i
    BY <1>2, MessageFacts DEF Msg
  <2> QED
    BY <2>1, VisitDoes
<1>4. /\ ObjShape(obj) /\ ListShape(list, obj) /\ Objects(obj) /\ cat \in [Iface -> Category]
      /\ o \in LiveIn(obj) /\ c \in Class
  <2>1. ObjShape(obj) /\ ListShape(list, obj) /\ Objects(obj) /\ cat \in [Iface -> Category]
    BY DEF IInv, LifeShape, ObjShape
  <2>2. o \in LiveIn(obj)
    BY <1>2 DEF OfIn
  <2> QED
    BY <1>2, <2>1, <2>2, FreeIsNoInstance
<1>5. /\ ObjShape(obj') /\ OfIn(obj', i) = {} /\ StateOf(obj', i) = "none" /\ ~ClosingIn(obj', i)
      /\ \A j \in Iface \ {i} :
            OfIn(obj', j) = OfIn(obj, j) /\ \A q \in OfIn(obj, j) : obj'[q] = obj[q]
  <2>1. PICK O, P : O = obj /\ P = obj'
    OBVIOUS
  <2>2. Becomes(O, P, o, Free)
    BY <1>2, <2>1 DEF Becomes
  <2>3. ObjShape(O)
    BY <1>4, <2>1
  <2>4. o \in OfIn(O, i)
    BY <1>2, <2>1
  <2>5. /\ ObjShape(P) /\ OfIn(P, i) = {} /\ StateOf(P, i) = "none" /\ ~ClosingIn(P, i)
        /\ \A j \in Iface \ {i} :
              OfIn(P, j) = OfIn(O, j) /\ \A q \in OfIn(O, j) : P[q] = O[q]
    BY <2>2, <2>3, <2>4, DeleteKeepsObjects
  <2> QED
    BY <2>1, <2>5
<1>6. ListShape(list', obj')
  <2>1. PICK L, O : L = list /\ O = obj
    OBVIOUS
  <2>2. ListShape(Cut(L, b, Len(Registered(O[o].class))), [O EXCEPT ![o] = Free])
    BY <1>2, <1>4, <2>1, CutKeepsShape
  <2> QED
    BY <1>2, <2>1, <2>2
<1>7. QueueShape'
  BY <1>2, <1>3, MessageFacts, NothingIsNoMessage DEF IInv, QueueShape
<1>8. cur' # << >> => IsListed(cur)'
  <2> SUFFICES ASSUME cur' # << >> PROVE \E k \in 1 .. Len(list') : list'[k] = cur'
    BY DEF IsListed
  <2>1. Nearest + 1 \in 1 .. Len(list) /\ cur' = list[Nearest + 1] /\ list \in Seq(Node)
    BY NextListed
  <2>2. PICK n : n = Len(Registered(c))
    OBVIOUS
  <2>3. n \in Nat /\ n >= 2 /\ b + n <= Len(list)
    <3>1. n \in 2 .. 4
      BY <1>4, <2>2, RegisteredFacts
    <3>2. b + Len(Registered(c)) <= Len(list)
      BY <1>2 DEF BlockAt
    <3> QED
      BY <2>2, <3>1, <3>2
  <2>4. PICK k : k = b + n + 1 /\ k = Nearest + 1
    BY <1>2, <2>2
  <2>5. k \in 1 .. Len(list) /\ k > b + n /\ ~(k <= b)
    BY <2>1, <2>3, <2>4
  <2>6. k - n \in 1 .. Len(Cut(list, b, n)) /\ Cut(list, b, n)[k - n] = list[k]
    BY <2>1, <2>3, <2>5, CutKeepsNodes
  <2> QED
    BY <1>2, <2>1, <2>2, <2>4, <2>6
<1>9. LifeShape'
  <2>1. CatOf(i, "none") \in Category
    BY CatOfFacts DEF States
  <2> QED
    BY <1>2, <1>3, <1>4, <1>5, <1>6, <1>8, <2>1 DEF IInv, LifeShape
<1>10. ClosesOnce(internal, m, list, cur, obj, i) /\ NoneCloses(m, obj, i)
  BY DEF IInv, Steady
<1>11. \A p \in OfIn(obj, i) : p = o
  BY <1>2, <1>4 DEF OfIn, ObjShape
<1>12. ~InQueue(internal, i) /\ (m = SelfMsg(i) => StateOf(obj, i) = "none")
  <2>1. CASE m = SelfMsg(i)
    <3>1. \A p \in OfIn(obj, i) : ~obj[p].active
      BY <1>10, <2>1 DEF ClosesOnce
    <3>2. StateOf(obj, i) = "none"
      BY <1>4, <3>1, StateIs DEF IsState, States
    <3> QED
      BY <1>10, <2>1, <3>2 DEF ClosesOnce
  <2>2. CASE m # SelfMsg(i)
    <3>1. obj[o].active
      BY <1>2, <1>4, <2>2 DEF ObjShape
    <3>2. ~ClosingIn(obj, i)
      BY <1>11, <3>1 DEF ClosingIn
    <3> QED
      BY <1>10, <2>2, <3>2 DEF ClosesOnce
  <2> QED
    BY <2>1, <2>2
<1>13. m \in LinkMsg => m.event = DownOf(i)
  <2>1. m = Msg(DownOf(i), i) => m.event = DownOf(i)
    BY DEF Msg
  <2> QED
    BY <1>2, <2>1, MessageFacts
<1>14. "none" \in States /\ StateOf(obj, i) \in States
  BY <1>4, StateExists DEF States
<1>15. Asks("none", i, DownOf(i)) = "none" /\ Asks(StateOf(obj, i), i, DownOf(i)) = "none"
  BY <1>14, AsksIs
<1>16. Steady(internal', handled', list', cur', obj', cat', i)
  <2>1. cat'[i] = CatOf(i, StateOf(obj', i))
    BY <1>2, <1>4, <1>5
  <2>2. ClosesOnce(internal', handled', list', cur', obj', i)
    BY <1>2, <1>3, <1>5, <1>12 DEF ClosesOnce
  <2>3. NoneCloses(handled', obj', i)
    BY <1>5 DEF NoneCloses
  <2>4. Due(handled', list', cur', obj', i)
    BY <1>3, <1>5, <1>13, <1>15 DEF Due
  <2> QED
    BY <2>1, <2>2, <2>3, <2>4 DEF Steady
<1>17. Trace(external', Effect(handled', obj', i), asked'[i], i)
  <2>1. Effect(handled', obj', i) = "none"
    BY <1>3, <1>5, <1>13, <1>15 DEF Effect
  <2>2. Effect(handled, obj, i) = "none"
    <3>1. CASE m \in LinkMsg
      BY <1>3, <1>13, <1>15, <3>1 DEF Effect
    <3>2. CASE m \notin LinkMsg
      <4>1. DownOf(i) \in LinkEvent
        BY DEF DownOf, LinkEvent
      <4>2. m = SelfMsg(i)
        BY <1>2, <3>2, <4>1, MessageFacts
      <4> QED
        BY <1>12, <3>2, <4>2 DEF Effect
    <3> QED
      BY <3>1, <3>2
  <2>3. Trace(external, Effect(handled, obj, i), asked[i], i)
    BY DEF IInv
  <2> QED
    BY <1>3, <2>1, <2>2, <2>3
<1>18. ASSUME NEW j \in Iface, j # i
       PROVE  /\ Steady(internal', handled', list', cur', obj', cat', j)
              /\ Trace(external', Effect(handled', obj', j), asked'[j], j)
  <2>1. OfIn(obj', j) = OfIn(obj, j) /\ \A q \in OfIn(obj, j) : obj'[q] = obj[q]
    BY <1>5, <1>18
  <2>2. InQueue(internal', j) <=> InQueue(internal, j)
    BY <1>2
  <2> QED
    BY <1>2, <1>3, <1>18, <2>1, <2>2, OthersSteady
<1> QED
  BY <1>7, <1>9, <1>16, <1>17, <1>18 DEF IInv

LEMMA ClosesKeeps ==
    ASSUME IInv, Visit, Closes(handled, list[Nearest][2])
    PROVE  IInv'
<1> DEFINE m == handled
<1>1. PICK o : o = list[Nearest][2]
  OBVIOUS
<1>2. PICK i \in Iface :
        /\ o \in OfIn(obj, i) /\ obj[o].class \in {"Lan", "Wlan"} /\ obj[o].active
        /\ m = Msg(DownOf(i), i)
        /\ obj' = [obj EXCEPT ![o].active = FALSE]
        /\ internal' = Append(internal, SelfMsg(i))
        /\ cat' = [cat EXCEPT ![i] = CatOf(i, "none")]
        /\ UNCHANGED list
  BY <1>1 DEF Closes
<1>3. /\ UNCHANGED <<external, handled, asked>> /\ m \in Sent /\ m.iface = i
      /\ m.event = DownOf(i) /\ m \in LinkMsg
  <2>1. m.iface = i /\ m.event = DownOf(i) /\ m \in LinkMsg
    <3>1. DownOf(i) \in LinkEvent
      BY DEF DownOf, LinkEvent
    <3> QED
      BY <1>2, <3>1, MessageFacts
  <2> QED
    BY <2>1, VisitDoes
<1>4. ObjShape(obj) /\ ListShape(list, obj) /\ Objects(obj) /\ cat \in [Iface -> Category]
  BY DEF IInv, LifeShape, ObjShape
<1>5. /\ ObjShape(obj') /\ OfIn(obj', i) = {o} /\ StateOf(obj', i) = "none" /\ ClosingIn(obj', i)
      /\ LiveIn(obj') = LiveIn(obj) /\ \A p \in LiveIn(obj) : obj'[p].class = obj[p].class
      /\ \A j \in Iface \ {i} :
            OfIn(obj', j) = OfIn(obj, j) /\ \A q \in OfIn(obj, j) : obj'[q] = obj[q]
  <2>1. PICK O, P : O = obj /\ P = obj'
    OBVIOUS
  <2>2. Becomes(O, P, o, [O[o] EXCEPT !.active = FALSE])
    BY <1>2, <2>1 DEF Becomes
  <2>3. ObjShape(O)
    BY <1>4, <2>1
  <2>4. o \in OfIn(O, i) /\ O[o].class \in {"Lan", "Wlan"}
    BY <1>2, <2>1
  <2>5. /\ ObjShape(P) /\ OfIn(P, i) = {o} /\ StateOf(P, i) = "none" /\ ClosingIn(P, i)
        /\ LiveIn(P) = LiveIn(O) /\ \A p \in LiveIn(O) : P[p].class = O[p].class
        /\ \A j \in Iface \ {i} :
              OfIn(P, j) = OfIn(O, j) /\ \A q \in OfIn(O, j) : P[q] = O[q]
    BY <2>2, <2>3, <2>4, CloseKeepsObjects
  <2> QED
    BY <2>1, <2>5
<1>6. ListShape(list', obj')
  BY <1>2, <1>4, <1>5 DEF ListShape
<1>7. ~ClosingIn(obj, i) /\ ~InQueue(internal, i)
  <2>1. ~ClosingIn(obj, i)
    BY <1>2, <1>4 DEF ClosingIn, OfIn, ObjShape
  <2>2. ClosesOnce(internal, m, list, cur, obj, i)
    BY DEF IInv, Steady
  <2> QED
    BY <2>1, <2>2 DEF ClosesOnce
<1>8. /\ internal \in Seq(DeleteSelf \cup {Ssr}) /\ internal' \in Seq(DeleteSelf \cup {Ssr})
      /\ Len(internal') = Len(internal) + 1 /\ internal'[Len(internal) + 1] = SelfMsg(i)
      /\ \A k \in 1 .. Len(internal) : internal'[k] = internal[k]
      /\ Len(internal) \in Nat
  <2>1. SelfMsg(i) \in DeleteSelf \cup {Ssr}
    BY MessageFacts
  <2>2. internal \in Seq(DeleteSelf \cup {Ssr})
    BY DEF IInv, QueueShape
  <2> QED
    BY <1>2, <2>1, <2>2
<1>9. \A k \in 1 .. Len(internal') : k \in 1 .. Len(internal) \/ k = Len(internal) + 1
  BY <1>8
<1>10. \A j, k \in Iface : SelfMsg(j) = SelfMsg(k) => j = k
  BY MessageFacts
<1>11. SelfOnce(internal')
  <2> SUFFICES ASSUME NEW l \in Iface, NEW j \in 1 .. Len(internal'), NEW k \in 1 .. Len(internal'),
                      internal'[j] = SelfMsg(l), internal'[k] = SelfMsg(l)
               PROVE  j = k
    BY DEF SelfOnce
  <2>1. CASE l = i
    <3>1. j \notin 1 .. Len(internal) /\ k \notin 1 .. Len(internal)
      BY <1>7, <1>8, <2>1 DEF InQueue
    <3> QED
      BY <1>9, <3>1
  <2>2. CASE l # i
    <3>1. j \in 1 .. Len(internal) /\ k \in 1 .. Len(internal)
      BY <1>8, <1>9, <1>10, <2>2
    <3>2. internal[j] = SelfMsg(l) /\ internal[k] = SelfMsg(l)
      BY <1>8, <3>1
    <3> QED
      BY <3>1, <3>2 DEF IInv, QueueShape, SelfOnce
  <2> QED
    BY <2>1, <2>2
<1>12. InQueue(internal', i) /\ \A j \in Iface \ {i} : InQueue(internal', j) <=> InQueue(internal, j)
  <2>1. Len(internal) + 1 \in 1 .. Len(internal')
    BY <1>8
  <2>2. InQueue(internal', i)
    BY <1>8, <2>1 DEF InQueue
  <2>3. ASSUME NEW j \in Iface \ {i}
        PROVE  InQueue(internal', j) <=> InQueue(internal, j)
    <3>1. ASSUME InQueue(internal', j) PROVE InQueue(internal, j)
      <4>1. PICK k \in 1 .. Len(internal') : internal'[k] = SelfMsg(j)
        BY <3>1 DEF InQueue
      <4>2. k \in 1 .. Len(internal)
        BY <1>8, <1>9, <1>10, <4>1
      <4> QED
        BY <1>8, <4>1, <4>2 DEF InQueue
    <3>2. ASSUME InQueue(internal, j) PROVE InQueue(internal', j)
      <4>1. PICK k \in 1 .. Len(internal) : internal[k] = SelfMsg(j)
        BY <3>2 DEF InQueue
      <4>2. k \in 1 .. Len(internal')
        BY <1>8
      <4> QED
        BY <1>8, <4>1, <4>2 DEF InQueue
    <3> QED
      BY <3>1, <3>2
  <2> QED
    BY <2>2, <2>3
<1>13. QueueShape'
  BY <1>3, <1>8, <1>11, MessageFacts, NothingIsNoMessage DEF IInv, QueueShape
<1>14. cur' # << >> => IsListed(cur)'
  BY <1>2, NextListed DEF IsListed
<1>15. LifeShape'
  <2>1. CatOf(i, "none") \in Category
    BY CatOfFacts DEF States
  <2> QED
    BY <1>2, <1>3, <1>4, <1>5, <1>6, <1>14, <2>1 DEF IInv, LifeShape
<1>16. "none" \in States /\ StateOf(obj, i) \in States
  BY <1>4, StateExists DEF States
<1>17. Asks("none", i, DownOf(i)) = "none" /\ Asks(StateOf(obj, i), i, DownOf(i)) = "none"
  BY <1>16, AsksIs
<1>18. Steady(internal', handled', list', cur', obj', cat', i)
  <2>1. cat'[i] = CatOf(i, StateOf(obj', i))
    BY <1>2, <1>4, <1>5
  <2>2. m # SelfMsg(i)
    BY <1>3, MessageFacts
  <2>3. ClosesOnce(internal', handled', list', cur', obj', i)
    BY <1>3, <1>5, <1>12, <2>2 DEF ClosesOnce
  <2>4. NoneCloses(handled', obj', i)
    BY <1>2, <1>3 DEF NoneCloses
  <2>5. Due(handled', list', cur', obj', i)
    BY <1>3, <1>5, <1>17 DEF Due
  <2> QED
    BY <2>1, <2>3, <2>4, <2>5 DEF Steady
<1>19. Trace(external', Effect(handled', obj', i), asked'[i], i)
  <2>1. Effect(handled', obj', i) = "none" /\ Effect(handled, obj, i) = "none"
    BY <1>3, <1>5, <1>17 DEF Effect
  <2>2. Trace(external, Effect(handled, obj, i), asked[i], i)
    BY DEF IInv
  <2> QED
    BY <1>3, <2>1, <2>2
<1>20. ASSUME NEW j \in Iface, j # i
       PROVE  /\ Steady(internal', handled', list', cur', obj', cat', j)
              /\ Trace(external', Effect(handled', obj', j), asked'[j], j)
  <2>1. OfIn(obj', j) = OfIn(obj, j) /\ \A q \in OfIn(obj, j) : obj'[q] = obj[q]
    BY <1>5, <1>20
  <2>2. InQueue(internal', j) <=> InQueue(internal, j)
    BY <1>12, <1>20
  <2> QED
    BY <1>2, <1>3, <1>20, <2>1, <2>2, OthersSteady
<1> QED
  BY <1>13, <1>15, <1>18, <1>19, <1>20 DEF IInv

LEMMA VisitKeeps ==
    ASSUME IInv, Visit
    PROVE  IInv'
  BY VisitDoes, QuietKeeps, CreatesKeeps, DeletesKeeps, ClosesKeeps

\* ProcessEvt at the end of the walk.
LEMMA FinishKeeps ==
    ASSUME IInv, Finish
    PROVE  IInv'
<1>1. /\ handled # NoMessage /\ handled' = NoMessage /\ cur' = << >>
      /\ UNCHANGED <<internal, external, list, obj, cat, asked>>
  BY DEF Finish, Q!Finish, lifeVars
<1>2. ASSUME NEW y, y[1] = handled.event
      PROVE  ~Ahead(list, cur, y)
  BY <1>2, FinishWalks DEF Finish, Ahead, IInv, LifeShape, ObjShape
<1>3. QueueShape' /\ LifeShape'
  BY <1>1 DEF IInv, QueueShape, LifeShape, IsListed
<1>4. NoMessage \notin LinkMsg /\ \A i \in Iface : SelfMsg(i) # NoMessage
  BY MessageFacts
<1>5. ASSUME NEW i \in Iface
      PROVE  /\ Steady(internal', handled', list', cur', obj', cat', i)
             /\ Trace(external', Effect(handled', obj', i), asked'[i], i)
  <2>1. Steady(internal, handled, list, cur, obj, cat, i)
    BY DEF IInv
  <2>2. ClosingIn(obj, i) => InQueue(internal, i)
    <3>1. ASSUME handled = SelfMsg(i), NEW o \in OfIn(obj, i)
          PROVE  FALSE
      <4> DEFINE y == <<"LAN_DELETE_SELF", o>>
      <4>1. y[1] = handled.event
        BY <3>1, MessageFacts
      <4>2. Ahead(list, cur, y)
        BY <2>1, <3>1 DEF Steady, ClosesOnce
      <4> HIDE DEF y
      <4> QED
        BY <1>2, <4>1, <4>2
    <3> QED
      BY <2>1, <3>1 DEF Steady, ClosesOnce, ClosingIn
  <2>3. Steady(internal', handled', list', cur', obj', cat', i)
    <3>1. InQueue(internal, i) => ClosingIn(obj, i)
      BY <2>1 DEF Steady, ClosesOnce
    <3> QED
      BY <1>1, <1>4, <2>1, <2>2, <3>1 DEF Steady, ClosesOnce, NoneCloses, Due
  <2>4. Effect(handled, obj, i) = StateOf(obj, i)
    <3>1. CASE handled \in LinkMsg /\ handled.iface = i
      <4>1. ASSUME NEW o PROVE ~Ahead(list, cur, <<handled.event, o>>)
        <5> DEFINE y == <<handled.event, o>>
        <5>1. y[1] = handled.event
          OBVIOUS
        <5> HIDE DEF y
        <5>2. ~Ahead(list, cur, y)
          BY <1>2, <5>1
        <5> QED
          BY <5>2 DEF y
      <4> QED
        BY <2>1, <3>1, <4>1 DEF Steady, Due, Effect
    <3>2. CASE ~(handled \in LinkMsg /\ handled.iface = i)
      BY <3>2 DEF Effect
    <3> QED
      BY <3>1, <3>2
  <2>5. Effect(handled', obj', i) = StateOf(obj, i)
    BY <1>1, <1>4 DEF Effect
  <2>6. Trace(external, Effect(handled, obj, i), asked[i], i)
    BY DEF IInv
  <2> QED
    BY <1>1, <2>3, <2>4, <2>5, <2>6
<1> QED
  BY <1>3, <1>5 DEF IInv

\* MessageQueue::Process takes an event.
LEMMA HeadIsBefore ==
    ASSUME IInv, NEW k \in 1 .. Len(list)
    PROVE  Ahead(list, Head(list), list[k])
<1>1. list \in Seq(Node) /\ 1 \in 1 .. Len(list) /\ Head(list) = list[1] /\ 1 <= k
  BY DEF IInv, LifeShape, ListShape
<1>2. Head(list) # << >>
  BY <1>1, NodeOwner DEF IInv, LifeShape
<1> QED
  BY <1>1, <1>2 DEF Ahead, Before

LEMMA TakeShapes ==
    ASSUME IInv, Take
    PROVE  /\ handled = NoMessage /\ cur' = Head(list) /\ UNCHANGED <<list, obj, cat, asked>>
           /\ LifeShape'
           /\ \/ /\ internal # << >> /\ handled' = Head(internal) /\ internal' = Tail(internal)
                 /\ UNCHANGED external
              \/ /\ internal = << >> /\ external # << >>
                 /\ handled' = Head(external) /\ external' = Tail(external) /\ UNCHANGED internal
<1>1. /\ handled = NoMessage /\ cur' = Head(list) /\ UNCHANGED <<list, obj, cat, asked>>
      /\ \/ /\ internal # << >> /\ handled' = Head(internal) /\ internal' = Tail(internal)
            /\ UNCHANGED external
         \/ /\ internal = << >> /\ external # << >>
            /\ handled' = Head(external) /\ external' = Tail(external) /\ UNCHANGED internal
  BY DEF Take, Q!Take, Q!TakeInternalFirst, lifeVars
<1>2. IsListed(cur)'
  <2>1. list \in Seq(Node) /\ 1 \in 1 .. Len(list) /\ Head(list) = list[1]
    BY DEF IInv, LifeShape, ListShape
  <2> QED
    BY <1>1, <2>1 DEF IsListed
<1>3. LifeShape'
  BY <1>1, <1>2 DEF IInv, LifeShape
<1> QED
  BY <1>1, <1>3

\* Taking an event of the internal queue, and of the external one.
LEMMA TakeInternalKeeps ==
    ASSUME IInv, Take, internal # << >>
    PROVE  IInv'
<1> DEFINE m == Head(internal)
<1>1. /\ handled = NoMessage /\ cur' = Head(list) /\ UNCHANGED <<list, obj, cat, asked, external>>
      /\ LifeShape' /\ handled' = m /\ internal' = Tail(internal)
  BY TakeShapes
<1>2. /\ internal \in Seq(DeleteSelf \cup {Ssr}) /\ m \in DeleteSelf \cup {Ssr} /\ m = internal[1]
      /\ 1 \in 1 .. Len(internal) /\ internal' \in Seq(DeleteSelf \cup {Ssr})
      /\ Len(internal') = Len(internal) - 1 /\ Len(internal) \in Nat
      /\ \A k \in 1 .. Len(internal') : internal'[k] = internal[k + 1] /\ k + 1 \in 1 .. Len(internal)
  <2>1. internal \in Seq(DeleteSelf \cup {Ssr}) /\ internal # << >>
    BY DEF IInv, QueueShape
  <2> QED
    BY <1>1, <2>1
<1> HIDE DEF m
<1>3. m \in Sent /\ m \notin LinkMsg /\ handled \notin LinkMsg /\ m # NoMessage
      /\ \A i \in Iface : handled # SelfMsg(i)
  <2>1. m \in Sent
    BY <1>2 DEF Sent
  <2> QED
    BY <1>1, <1>2, <2>1, MessageFacts, NothingIsNoMessage
<1>4. SelfOnce(internal)
  BY DEF IInv, QueueShape
<1>5. QueueShape'
  <2>1. SelfOnce(internal')
    <3> SUFFICES ASSUME NEW i \in Iface, NEW j \in 1 .. Len(internal'), NEW k \in 1 .. Len(internal'),
                        internal'[j] = SelfMsg(i), internal'[k] = SelfMsg(i)
                 PROVE  j = k
      BY DEF SelfOnce
    <3>1. j + 1 = k + 1
      BY <1>2, <1>4 DEF SelfOnce
    <3> QED
      BY <1>2, <3>1
  <2> QED
    BY <1>1, <1>2, <1>3, <2>1 DEF IInv, QueueShape
<1>6. ASSUME NEW i \in Iface
      PROVE  /\ Steady(internal', handled', list', cur', obj', cat', i)
             /\ Trace(external', Effect(handled', obj', i), asked'[i], i)
  <2>1. Steady(internal, handled, list, cur, obj, cat, i)
    BY DEF IInv
  <2>2. InQueue(internal, i) <=> ClosingIn(obj, i)
    BY <1>3, <2>1 DEF Steady, ClosesOnce
  <2>3. InQueue(internal', i) => InQueue(internal, i) /\ m # SelfMsg(i)
    <3>1. ASSUME NEW k \in 1 .. Len(internal'), internal'[k] = SelfMsg(i)
          PROVE  InQueue(internal, i) /\ m # SelfMsg(i)
      <4>1. internal[k + 1] = SelfMsg(i) /\ k + 1 \in 1 .. Len(internal) /\ k + 1 # 1
        BY <1>2, <3>1
      <4> QED
        BY <1>2, <1>4, <4>1 DEF InQueue, SelfOnce
    <3> QED
      BY <3>1 DEF InQueue
  <2>4. InQueue(internal, i) => InQueue(internal', i) \/ m = SelfMsg(i)
    <3>1. ASSUME NEW k \in 1 .. Len(internal), internal[k] = SelfMsg(i), m # SelfMsg(i)
          PROVE  InQueue(internal', i)
      <4>1. k # 1
        BY <1>2, <3>1
      <4>2. k - 1 \in 1 .. Len(internal') /\ (k - 1) + 1 = k
        BY <1>2, <4>1
      <4>3. internal'[k - 1] = internal[k]
        BY <1>2, <4>2
      <4> QED
        BY <3>1, <4>2, <4>3 DEF InQueue
    <3> QED
      BY <3>1 DEF InQueue
  <2>5. ASSUME m = SelfMsg(i), NEW o \in OfIn(obj, i)
        PROVE  ~obj[o].active /\ Ahead(list, Head(list), <<"LAN_DELETE_SELF", o>>)
    <3>1. ClosingIn(obj, i)
      BY <1>2, <2>2, <2>5 DEF InQueue
    <3>2. ~obj[o].active
      BY <3>1 DEF ClosingIn, OfIn, IInv, LifeShape, ObjShape
    <3>3. o \in LiveIn(obj) /\ obj[o].class \in {"Lan", "Wlan"} /\ obj[o].class \in Class
      BY <3>2, FreeIsNoInstance DEF OfIn, IInv, LifeShape, ObjShape
    <3>c. PICK c : c = obj[o].class
      OBVIOUS
    <3>4. PICK b \in Nat : BlockAt(list, o, c, b) /\ c = obj[o].class
      BY <3>c, <3>3 DEF IInv, LifeShape, ListShape
    <3>5. Len(Registered(c)) \in 2 .. 4 /\ Registered(c)[Len(Registered(c))] = "LAN_DELETE_SELF"
      BY <3>3, <3>4, RegisteredFacts
    <3>6. PICK k : k = b + Len(Registered(c))
      OBVIOUS
    <3>7. k \in 1 .. Len(list) /\ list[k][1] = "LAN_DELETE_SELF" /\ list[k][2] = o
      <4>1. Len(list) \in Nat
        BY DEF IInv, LifeShape, ListShape
      <4>2. b + Len(Registered(c)) <= Len(list)
        BY <3>4 DEF BlockAt
      <4>3. k \in 1 .. Len(list) /\ b < k /\ Len(Registered(c)) \in 1 .. Len(Registered(c))
        BY SMTT(60), <3>5, <3>6, <4>1, <4>2
      <4>4. list[k][1] = Registered(c)[Len(Registered(c))]
        BY <3>4, <3>6, <4>3 DEF BlockAt
      <4>5. list[k][2] = o
        BY <3>4, <3>6, <4>3 DEF BlockAt
      <4> QED
        BY <3>5, <4>3, <4>4, <4>5
    <3>8. list[k] = <<"LAN_DELETE_SELF", o>>
      BY <3>7, NodeOwner DEF IInv, LifeShape
    <3> QED
      BY <3>2, <3>7, <3>8, HeadIsBefore
  <2>6. ClosesOnce(internal', handled', list', cur', obj', i)
    BY <1>1, <2>2, <2>3, <2>4, <2>5 DEF ClosesOnce
  <2>7. Steady(internal', handled', list', cur', obj', cat', i)
    BY <1>1, <1>3, <2>1, <2>6 DEF Steady, NoneCloses, Due
  <2>8. Effect(handled', obj', i) = Effect(handled, obj, i)
    BY <1>1, <1>3 DEF Effect
  <2>9. Trace(external, Effect(handled, obj, i), asked[i], i)
    BY DEF IInv
  <2> QED
    BY <1>1, <2>7, <2>8, <2>9
<1> QED
  BY <1>1, <1>5, <1>6 DEF IInv

LEMMA TraceShrinks ==
    ASSUME NEW E \in Seq(LinkMsg), E # << >>, NEW i \in Iface, NEW s, NEW t, Trace(E, s, t, i)
    PROVE  Trace(Tail(E), IF Head(E).iface = i THEN Asks(s, i, Head(E).event) ELSE s, t, i)
<1> DEFINE n == Len(E)
           F == Tail(E)
<1>1. PICK tr \in [1 .. n + 1 -> States] :
         /\ tr[1] = s /\ tr[n + 1] = t
         /\ \A k \in 1 .. n :
               tr[k + 1] = IF E[k].iface = i THEN Asks(tr[k], i, E[k].event) ELSE tr[k]
  BY DEF Trace
<1>2. /\ n \in Nat /\ n >= 1 /\ Len(F) = n - 1 /\ Head(E) = E[1]
      /\ \A k \in 1 .. n - 1 : F[k] = E[k + 1]
  OBVIOUS
<1> HIDE DEF F, n
<1> DEFINE ts == [k \in 1 .. n |-> tr[k + 1]]
<1>3. ts \in [1 .. n -> States]
  BY <1>1, <1>2
<1>4. \A k \in 1 .. n : ts[k] = tr[k + 1]
  OBVIOUS
<1> HIDE DEF ts
<1>5. ts[n] = t /\ ts[1] = tr[2] /\ 1 \in 1 .. n /\ n \in 1 .. n
  BY <1>1, <1>2, <1>4
<1>6. tr[2] = IF E[1].iface = i THEN Asks(s, i, E[1].event) ELSE s
  BY <1>1, <1>2, <1>5
<1>7. ASSUME NEW k \in 1 .. n - 1
      PROVE  ts[k + 1] = IF F[k].iface = i THEN Asks(ts[k], i, F[k].event) ELSE ts[k]
  <2>1. k \in 1 .. n /\ k + 1 \in 1 .. n
    BY <1>2
  <2>2. ts[k] = tr[k + 1] /\ ts[k + 1] = tr[(k + 1) + 1] /\ F[k] = E[k + 1]
    BY <1>2, <1>4, <2>1
  <2> QED
    BY <1>1, <2>1, <2>2
<1>8. Len(F) + 1 = n
  BY <1>2
<1>9. Trace(F, tr[2], t, i)
  BY SMTT(60), <1>2, <1>3, <1>5, <1>7, <1>8 DEF Trace
<1> QED
  BY <1>2, <1>6, <1>9 DEF F

LEMMA TakeExternalKeeps ==
    ASSUME IInv, Take, internal = << >>
    PROVE  IInv'
<1>0. PICK m : m = Head(external)
  OBVIOUS
<1>1. /\ handled = NoMessage /\ cur' = Head(list) /\ UNCHANGED <<list, obj, cat, asked, internal>>
      /\ LifeShape' /\ handled' = m /\ external # << >> /\ external' = Tail(external)
  BY <1>0, TakeShapes
<1>2. external \in Seq(LinkMsg) /\ m \in LinkMsg /\ external' \in Seq(LinkMsg)
  <2>1. external \in Seq(LinkMsg)
    BY DEF IInv, QueueShape
  <2> QED
    BY <1>0, <1>1, <2>1
<1>3. /\ m \in Sent /\ m # NoMessage /\ m.iface \in Iface /\ m = Msg(m.event, m.iface)
      /\ handled \notin LinkMsg
      /\ \A i \in Iface : handled # SelfMsg(i) /\ m # SelfMsg(i)
  <2>1. m \in Sent
    BY <1>2, MessageFacts
  <2> QED
    BY <1>1, <1>2, <2>1, MessageFacts
<1>4. QueueShape'
  BY <1>1, <1>2, <1>3 DEF IInv, QueueShape
<1>5. ObjShape(obj) /\ ListShape(list, obj) /\ Len(list) \in Nat
  BY DEF IInv, LifeShape, ListShape
<1>6. ASSUME NEW i \in Iface
      PROVE  /\ Steady(internal', handled', list', cur', obj', cat', i)
             /\ Trace(external', Effect(handled', obj', i), asked'[i], i)
  <2>1. Steady(internal, handled, list, cur, obj, cat, i)
    BY DEF IInv
  <2>2. ~InQueue(internal, i)
    BY DEF InQueue
  <2>3. ~ClosingIn(obj, i)
    BY <1>3, <2>1, <2>2 DEF Steady, ClosesOnce
  <2>4. StateOf(obj, i) \in States /\ IsState(obj, i, StateOf(obj, i))
    BY <1>5, StateExists
  <2>5. Due(m, list, Head(list), obj, i)
    <3> DEFINE s == StateOf(obj, i)
               e == m.event
    <3> SUFFICES ASSUME m.iface = i, Asks(s, i, e) # s
                 PROVE  \/ e = DownOf(i) /\ \E o \in OfIn(obj, i) : Ahead(list, Head(list), <<e, o>>)
                        \/ e # DownOf(i) /\ Ahead(list, Head(list), <<e, Manager>>)
      BY DEF Due
    <3> HIDE DEF s, e
    <3>1. CASE e = DownOf(i)
      <4>1. s # "none" /\ s \in States
        BY <2>4, <3>1, AsksIs DEF s
      <4>2. PICK o \in OfIn(obj, i) : obj[o].class = s
        BY <2>4, <4>1 DEF IsState, s
      <4>3. o \in LiveIn(obj) /\ obj[o].class \in Class /\ Fits(i, obj[o].class)
        BY <1>5, <4>1, <4>2, FreeIsNoInstance DEF OfIn, ObjShape
      <4>c. PICK c : c = obj[o].class
        OBVIOUS
      <4>4. PICK b \in Nat : BlockAt(list, o, c, b) /\ c = obj[o].class
        BY <4>c, <1>5, <4>3 DEF ListShape
      <4>5. Down(c) = e /\ Len(Registered(c)) \in 2 .. 4
        BY <3>1, <4>3, <4>4, FitsFacts, RegisteredFacts
      <4>6. PICK j \in 1 .. Len(Registered(c)) : Registered(c)[j] = Down(c)
        BY <4>3, <4>4, RegisteredFacts
      <4>7. PICK k : k = b + j
        OBVIOUS
      <4>8. b + Len(Registered(c)) <= Len(list)
        BY <4>4 DEF BlockAt
      <4>9. k \in 1 .. Len(list) /\ b < k /\ k <= b + Len(Registered(c))
        BY <1>5, <4>5, <4>7, <4>8
      <4>10. list[k][1] = e /\ list[k][2] = o
        BY <4>4, <4>5, <4>6, <4>7, <4>9 DEF BlockAt
      <4>11. list[k] = <<e, o>>
        BY <1>5, <4>9, <4>10, NodeOwner
      <4> QED
        BY <3>1, <4>9, <4>11, HeadIsBefore
    <3>2. CASE e # DownOf(i)
      <4>1. s = "none" /\ UpTo(i, e) # "none" /\ s \in States
        BY <2>4, <3>2, AsksIs DEF s
      <4>2. e \in ManagerEvents
        BY <3>2, <4>1, AsksIs
      <4>3. PICK k \in 1 .. 4 : ManagerNodes[k] = <<e, Manager>>
        BY <4>2, ManagerFacts DEF ManagerEvents
      <4>4. k \in 1 .. Len(list) /\ list[k] = <<e, Manager>>
        BY <1>5, <4>3 DEF ListShape
      <4> QED
        BY <3>2, <4>4, HeadIsBefore
    <3> QED
      BY <3>1, <3>2
  <2>6. Steady(internal', handled', list', cur', obj', cat', i)
    BY <1>1, <1>3, <2>1, <2>2, <2>3, <2>5 DEF Steady, ClosesOnce, NoneCloses
  <2>7. Trace(external, Effect(handled, obj, i), asked[i], i)
    BY DEF IInv
  <2>8. PICK s, t : s = Effect(handled, obj, i) /\ s = StateOf(obj, i) /\ t = asked[i]
    BY <1>3 DEF Effect
  <2>9. Trace(Tail(external), IF m.iface = i THEN Asks(s, i, m.event) ELSE s, t, i)
    BY <1>0, <1>1, <1>2, <2>7, <2>8, TraceShrinks
  <2>10. Effect(handled', obj', i) = IF m.iface = i THEN Asks(s, i, m.event) ELSE s
    BY <1>1, <1>2, <2>8 DEF Effect
  <2> QED
    BY <1>1, <2>6, <2>8, <2>9, <2>10
<1> QED
  BY <1>1, <1>4, <1>6 DEF IInv

LEMMA NextKeeps == IInv /\ [Next]_vars => IInv'
<1> SUFFICES ASSUME IInv, [Next]_vars PROVE IInv'
  OBVIOUS
<1>1. CASE \E e \in LinkEvent, i \in Iface : PostLink(e, i)
  BY <1>1, PostLinkKeeps
<1>2. CASE PostSsr
  BY <1>2, PostSsrKeeps
<1>3. CASE Take
  BY <1>3, TakeInternalKeeps, TakeExternalKeeps
<1>4. CASE Visit
  BY <1>4, VisitKeeps
<1>5. CASE Finish
  BY <1>5, FinishKeeps
<1>6. CASE UNCHANGED vars
  <2>1. UNCHANGED <<internal, external, handled, list, obj, cat, cur, asked>>
    BY <1>6 DEF vars, queueVars, lifeVars
  <2>2. QueueShape' /\ LifeShape'
    BY <2>1 DEF IInv, QueueShape, LifeShape, IsListed
  <2> QED
    BY <2>1, <2>2 DEF IInv
<1> QED
  BY <1>1, <1>2, <1>3, <1>4, <1>5, <1>6 DEF Next

-----------------------------------------------------------------------------
(* Theorems.                                                               *)

LEMMA InvariantHolds == Spec => []IInv
  BY InitIInv, NextKeeps, PTL DEF Spec

\* The queue, the registrations, the instances and their categories keep their
\* shapes, for any interfaces and categories, any memory and any number of
\* events (IPACM_IfaceManager, IPACM_EvtDispatcher).
THEOREM TypeCorrect == Spec => []LifeTypeOK
<1>1. IInv => LifeTypeOK
  <2> SUFFICES ASSUME IInv PROVE LifeTypeOK
    OBVIOUS
  <2>1. Q!QueueTypeOK
    BY MessageFacts DEF IInv, QueueShape, Q!QueueTypeOK
  <2>2. ASSUME NEW k \in 1 .. Len(list)
        PROVE  list[k] \in (LinkEvent \cup {"ADDR_ADD", "SSR_NOTICE", "LAN_DELETE_SELF"})
                           \X (Obj \cup {Manager})
    BY DEF IInv, LifeShape, ListShape, Node, Events
  <2> QED
    BY <2>1, <2>2 DEF LifeTypeOK, IInv, QueueShape, LifeShape, ObjShape, Objects, States
<1> QED
  BY <1>1, InvariantHolds, PTL

\* ProcessEvt never follows the link of a registration that was freed, and the
\* dispatcher knows the manager and the live instances, one of an interface at
\* most, each with all its registrations one after another.
THEOREM AlwaysListed == Spec => []ListMatchesInstances
<1>1. IInv => ListMatchesInstances
  <2> SUFFICES ASSUME IInv PROVE ListMatchesInstances
    OBVIOUS
  <2>1. Live = LiveIn(obj) /\ ObjShape(obj) /\ ListShape(list, obj) /\ list \in Seq(Node)
    BY DEF Live, LiveIn, IInv, LifeShape, ListShape
  <2>2. ASSUME NEW o \in Live PROVE RegisteredInOne(o)
    <3>c. PICK c : c = obj[o].class
      OBVIOUS
    <3>1. PICK b \in Nat : BlockAt(list, o, c, b) /\ c = obj[o].class
      BY <3>c, <2>1, <2>2 DEF ListShape
    <3>2. c \in Class /\ o \in Obj
      BY <2>1, <2>2, <3>1, FreeIsNoInstance DEF ObjShape, LiveIn
    <3>3. PICK n, N : n = Len(Registered(c)) /\ N = NodesOf(o, c)
      OBVIOUS
    <3>4. /\ n \in 2 .. 4 /\ N \in Seq(Node) /\ Len(N) = n
          /\ \A k \in 1 .. n : N[k] = <<Registered(c)[k], o>>
      BY SMTT(60), <3>2, <3>3, NodesFacts, RegisteredFacts
    <3>5. /\ b + n <= Len(list) /\ Len(list) \in Nat
          /\ \A k \in 1 .. Len(list) : (list[k][2] = o) <=> (b < k /\ k <= b + n)
          /\ \A k \in 1 .. n : list[b + k][1] = Registered(c)[k]
      BY <2>1, <3>1, <3>3 DEF BlockAt
    <3>6. Mine(o) = b + 1 .. b + n
      BY <3>4, <3>5 DEF Mine
    <3>7. \A k \in 1 .. n : b + k \in 1 .. Len(list) /\ b < b + k /\ b + k <= b + n
      BY <3>4, <3>5
    <3>8. ASSUME NEW k \in 1 .. n PROVE list[b + k] = N[k]
      <4>1. list[b + k] = <<list[b + k][1], list[b + k][2]>>
        BY <2>1, <3>7, NodeOwner
      <4>2. list[b + k][2] = o /\ list[b + k][1] = Registered(c)[k]
        BY <3>5, <3>7
      <4> QED
        BY <3>4, <4>1, <4>2
    <3>9. SubSeq(list, b + 1, b + n) = N
      <4> DEFINE S == SubSeq(list, b + 1, b + n)
      <4>1. S \in Seq(Node) /\ Len(S) = n
        BY <2>1, <3>4, <3>5
      <4>2. \A k \in 1 .. n : S[k] = list[b + k]
        BY <2>1, <3>4, <3>5
      <4> HIDE DEF S
      <4>3. S = N
        BY <3>4, <3>8, <4>1, <4>2, SeqEqual
      <4> QED
        BY <4>3 DEF S
    <3>10. b \in 0 .. Len(list) - n
      BY <3>4, <3>5
    <3> QED
      BY <3>1, <3>3, <3>4, <3>6, <3>9, <3>10 DEF RegisteredInOne
  <2>3. \A k \in 1 .. Len(list) : list[k][2] \in Live \cup {Manager}
    BY <2>1 DEF ListShape
  <2>4. \A o, p \in Live : obj[o].iface = obj[p].iface => o = p
    BY <2>1 DEF ObjShape
  <2> QED
    BY <2>2, <2>3, <2>4 DEF ListMatchesInstances, IInv, LifeShape
<1> QED
  BY <1>1, InvariantHolds, PTL

\* A closing LAN or WLAN instance has one event to itself, queued or handled,
\* and no other instance has one (IPACM_Lan::post_del_self_evt).
THEOREM AlwaysDeletedOnce == Spec => []ClosingIsDeletedOnce
<1>1. IInv => ClosingIsDeletedOnce
  <2> SUFFICES ASSUME IInv, NEW i \in Iface
               PROVE  LET m == Msg("LAN_DELETE_SELF", i)
                          queued == Cardinality({k \in 1 .. Len(internal) : internal[k] = m})
                      IN  /\ queued <= 1
                          /\ queued = 1 => Closing(i) /\ handled # m
                          /\ Closing(i) => queued = 1 \/ handled = m
    BY DEF ClosingIsDeletedOnce
  <2> DEFINE m == SelfMsg(i)
             T == {k \in 1 .. Len(internal) : internal[k] = m}
  <2>1. Closing(i) <=> ClosingIn(obj, i)
    BY DEF Closing, ClosingIn, Of, OfIn, Live, LiveIn
  <2>2. ClosesOnce(internal, handled, list, cur, obj, i) /\ SelfOnce(internal)
    BY DEF IInv, Steady, QueueShape
  <2>3. CASE InQueue(internal, i)
    <3>1. PICK k \in 1 .. Len(internal) : internal[k] = m
      BY <2>3 DEF InQueue
    <3>2. T = {k}
      BY <2>2, <3>1 DEF SelfOnce
    <3>3. Cardinality(T) = 1
      BY <3>2, FS_Singleton
    <3> QED
      BY <2>1, <2>2, <2>3, <3>3 DEF ClosesOnce, SelfMsg
  <2>4. CASE ~InQueue(internal, i)
    <3>1. T = {}
      BY <2>4 DEF InQueue
    <3>2. Cardinality(T) = 0
      BY <3>1, FS_EmptySet
    <3> QED
      BY <2>1, <2>2, <2>4, <3>2 DEF ClosesOnce, SelfMsg
  <2> QED
    BY <2>3, <2>4
<1> QED
  BY <1>1, InvariantHolds, PTL

\* When nothing is left to handle, every interface is what the events posted
\* for it ask for: no link event is lost, however many wait.
THEOREM AlwaysSettlesAsAsked == Spec => []SettlesAsAsked
<1>1. IInv => SettlesAsAsked
  <2> SUFFICES ASSUME IInv, internal = << >>, external = << >>, handled = NoMessage,
                      NEW i \in Iface
               PROVE  IF asked[i] = "none" THEN Of(i) = {}
                      ELSE \E o \in Of(i) : obj[o].class = asked[i] /\ obj[o].active
    BY DEF SettlesAsAsked
  <2>1. Of(i) = OfIn(obj, i)
    BY DEF Of, OfIn, Live, LiveIn
  <2>2. handled \notin LinkMsg /\ handled # SelfMsg(i) /\ ~InQueue(internal, i)
    BY MessageFacts DEF InQueue
  <2>3. ~ClosingIn(obj, i)
    BY <2>2 DEF IInv, Steady, ClosesOnce
  <2>4. Effect(handled, obj, i) = StateOf(obj, i)
    BY <2>2 DEF Effect
  <2>5. asked[i] = StateOf(obj, i)
    <3>1. Trace(external, Effect(handled, obj, i), asked[i], i) /\ Len(external) = 0
      BY DEF IInv
    <3> QED
      BY <2>4, <3>1 DEF Trace
  <2>6. IsState(obj, i, asked[i])
    BY <2>5, StateExists DEF IInv, LifeShape
  <2> QED
    BY <2>1, <2>3, <2>6 DEF IsState, ClosingIn
<1> QED
  BY <1>1, InvariantHolds, PTL
=============================================================================
