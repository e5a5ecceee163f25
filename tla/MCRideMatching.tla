--------------------------- MODULE MCRideMatching ---------------------------
(* The instances of RideMatching that TLC checks: see the .cfg files.       *)
EXTENDS RideMatching, TLC

CONSTANTS d1, d2, r1, r2, p1, p2

\* Riders that go anywhere, and riders that each keep to a place of its own.
Anywhere == [r \in Riders |-> Place]
Apart == [r \in Riders |-> IF r = r1 THEN {p1} ELSE {p2}]
=============================================================================
