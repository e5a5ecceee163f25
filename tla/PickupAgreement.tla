--------------------------- MODULE PickupAgreement --------------------------
(***************************************************************************)
(* What riders and drivers agree on, with no sockets, topics or maps:      *)
(* drivers choose riders, as often as they like, and a rider is assigned   *)
(* to at most one driver, once, and only to one that chose that rider.     *)
(***************************************************************************)
CONSTANTS Drivers, Riders, NULL

VARIABLES
  chosen,       \* chosen[d]: the riders that driver d has ever clicked on
  assigned      \* assigned[r]: the driver that rider r waits for, or NULL

agreementVars == <<chosen, assigned>>

Init ==
  /\ chosen = [d \in Drivers |-> {}]
  /\ assigned = [r \in Riders |-> NULL]

Choose(d, r) ==
  /\ chosen' = [chosen EXCEPT ![d] = @ \cup {r}]
  /\ UNCHANGED assigned

Assign(d, r) ==
  /\ assigned[r] = NULL
  /\ r \in chosen[d]
  /\ assigned' = [assigned EXCEPT ![r] = d]
  /\ UNCHANGED chosen

Next == \E d \in Drivers : \E r \in Riders : Choose(d, r) \/ Assign(d, r)

Spec == Init /\ [][Next]_agreementVars
=============================================================================
