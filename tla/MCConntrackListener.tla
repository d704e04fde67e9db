------------------------- MODULE MCConntrackListener -------------------------
(***************************************************************************)
(* a is a client of an interface in the NAT configuration, n one of an      *)
(* interface outside it, t, u and v are targets, behind a station when the *)
(* backhaul is WLAN; p and q are public addresses.  c1 and c2 are          *)
(* connections of a, c3 one of n, c4 one of the device itself.             *)
(***************************************************************************)
EXTENDS ConntrackListener, TLC

CONSTANTS c1, c2, c3, c4, a, n, t, u, v, p, q, h1, h2, m1, m2

MCPriv == c1 :> a @@ c2 :> a @@ c3 :> n @@ c4 :> p
MCTgt == c1 :> t @@ c2 :> u @@ c3 :> t @@ c4 :> t
MCPrivOf == [c \in Conn |-> MCPriv[c]]
MCTgtOf == [c \in Conn |-> MCTgt[c]]

\* The singleton's memory happens to be zero.
MCInit == /\ ListenerInit
          /\ pwr = [i \in 1 .. MaxPwr |-> NoAddr] /\ pre = NoAddr
MCSpecZeroed == MCInit /\ [][ListenerNext]_allVars

MCSymmetry == Permutations(Handle) \cup Permutations(RuleId)
=============================================================================
