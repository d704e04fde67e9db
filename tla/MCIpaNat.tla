------------------------------ MODULE MCIpaNat ------------------------------
(***************************************************************************)
(* A small table: four base entries (three usable), four expansion entries *)
(* (three usable).  The hash functions are chosen so that target-side and  *)
(* private-side chains cross each other and fill the expansion entries.    *)
(***************************************************************************)
EXTENDS IpaNat, TLC

CONSTANTS c1, c2, c3, c4

MCConn == {c1, c2, c3, c4}
\* Connections with the same hashes are interchangeable.
MCSymmetry == Permutations({c1, c3, c4})
MCDstHash == c1 :> 1 @@ c2 :> 1 @@ c3 :> 1 @@ c4 :> 1
MCSrcHash == c1 :> 1 @@ c2 :> 3 @@ c3 :> 1 @@ c4 :> 1

\* For the run in which DMA commands may fail, hashes that fill every usable
\* entry of a smaller table (two base chains of one, one chain of two).
MCFillDstHash == c1 :> 1 @@ c2 :> 1 @@ c3 :> 2 @@ c4 :> 3
MCFillSrcHash == c1 :> 1 @@ c2 :> 3 @@ c3 :> 1 @@ c4 :> 2
=============================================================================
