------------------------------ MODULE NatTable ------------------------------
(***************************************************************************)
(* What the IPA NAT driver (ipanat/src) promises its client, the NatApp    *)
(* class of ipacm: a table that is created and destroyed, in which every   *)
(* successful insertion returns a handle that stands for that connection   *)
(* until it is deleted, and a hardware that translates both directions of  *)
(* exactly the connections whose handles are held.                         *)
(*                                                                         *)
(* Hash buckets, expansion entries, index entries and DMA commands are the *)
(* business of IpaNat, which implements this specification.                *)
(***************************************************************************)
EXTENDS Naturals

CONSTANTS Conn,      \* the NAT connections (5-tuples) a client may insert
          Handle,    \* the rule handles
          NoConn     \* the owner of a handle nobody holds; not in Conn

VARIABLES up,        \* a table exists
          owner,     \* owner[h]: the connection that handle h stands for
          pending,   \* the connection being inserted, once it is translated
          xlate      \* the <<direction, connection>> pairs the hardware translates

vars == <<up, owner, pending, xlate>>

\* "in": packets of the target to the public address; "out": the reverse.
Direction == {"in", "out"}

NoOwner == [h \in Handle |-> NoConn]

TypeOK == /\ up \in BOOLEAN
          /\ owner \in [Handle -> Conn \cup {NoConn}]
          /\ pending \in Conn \cup {NoConn}
          /\ xlate \in SUBSET (Direction \X Conn)

Init == /\ up = FALSE
        /\ owner = NoOwner
        /\ pending = NoConn
        /\ xlate = {}

Create == /\ ~up
          /\ up' = TRUE
          /\ UNCHANGED <<owner, pending, xlate>>

Destroy == /\ up /\ pending = NoConn
           /\ up' = FALSE
           /\ owner' = NoOwner
           /\ xlate' = {}
           /\ UNCHANGED pending

\* An insertion starts both directions of c in one step ...
Translate(c) == /\ up /\ pending = NoConn
                /\ c \notin {owner[h] : h \in Handle}
                /\ xlate' = xlate \cup (Direction \X {c})
                /\ pending' = c
                /\ UNCHANGED <<up, owner>>

\* ... and gives the client a handle nobody holds.
Grant(h) == /\ pending # NoConn
            /\ owner[h] = NoConn
            /\ owner' = [owner EXCEPT ![h] = pending]
            /\ pending' = NoConn
            /\ UNCHANGED <<up, xlate>>

\* A deletion stops the directions of a connection one after the other ...
Withdraw(h) == /\ owner[h] # NoConn
               /\ \E d \in Direction : /\ <<d, owner[h]>> \in xlate
                                       /\ xlate' = xlate \ {<<d, owner[h]>>}
               /\ UNCHANGED <<up, owner, pending>>

\* ... and takes the handle back once neither is translated.
Release(h) == /\ owner[h] # NoConn
              /\ \A d \in Direction : <<d, owner[h]>> \notin xlate
              /\ owner' = [owner EXCEPT ![h] = NoConn]
              /\ UNCHANGED <<up, pending, xlate>>

Next == \/ Create
        \/ Destroy
        \/ \E c \in Conn : Translate(c)
        \/ \E h \in Handle : Grant(h) \/ Withdraw(h) \/ Release(h)

Spec == Init /\ [][Next]_vars
=============================================================================
