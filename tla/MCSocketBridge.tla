--------------------------- MODULE MCSocketBridge ---------------------------
(* The instance of SocketBridge that TLC checks: see Bridge.cfg.            *)
EXTENDS SocketBridge, TLC

CONSTANTS d1, r1, a

\* The driver says anything, the first rider one thing, the others listen.
Chorus == [p \in Page |-> CASE p = d1 -> Record
                            [] p = r1 -> {a}
                            [] OTHER -> {}]
=============================================================================
