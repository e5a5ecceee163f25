----------------------------- MODULE MCRideFeed -----------------------------
(* RideFeed with one sender and two readers on one topic.                  *)
EXTENDS RideFeed, TLC
=============================================================================
