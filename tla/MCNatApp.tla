------------------------------ MODULE MCNatApp ------------------------------
(***************************************************************************)
(* Two clients a and b, a target t, one or two public addresses.  c1 and    *)
(* c2 are connections of a, c3 of b; the modem must know c1 and c3.        *)
(***************************************************************************)
EXTENDS NatApp, TLC

CONSTANTS c1, c2, c3, a, b, t, p, q, h1, h2, m1, m2

MCAddr == {a, b, t, p, q}
MCTwo == {c1, c3}
MCPriv == c1 :> a @@ c2 :> a @@ c3 :> b
MCTgt == c1 :> t @@ c2 :> t @@ c3 :> t
MCTwoPriv == [c \in MCTwo |-> MCPriv[c]]
MCOnePriv == c1 :> a @@ c2 :> a
MCOneTgt == c1 :> t @@ c2 :> t
MCTwoTgt == [c \in MCTwo |-> MCTgt[c]]
MCSymmetry == Permutations(Handle) \cup Permutations(RuleId)
=============================================================================
