--------------------------- MODULE MCGnssTracking ---------------------------
(* Instances of GnssTracking: a frequent session, a rarer one of better power, *)
(* and one by distance.                                                        *)
EXTENDS GnssTracking

CONSTANTS c1, c2

often == [int |-> 1, dist |-> 0, pow |-> 2, size |-> 1]
rare  == [int |-> 2, dist |-> 0, pow |-> 1, size |-> 1]
far   == [int |-> 1, dist |-> 1, pow |-> 2, size |-> 1]

MCOptions == {often, rare, far}

=============================================================================
