\* A driver who turns from one rider to another; one of them may be cut off.
CONSTANTS
  d1 = d1  d2 = d2  r1 = r1  r2 = r2  p1 = p1  p2 = p2
  NULL = NULL
  Drivers = {d1}
  Riders = {r1, r2}
  Place = {p1, p2}
  Road = {a}
  Reach <- Apart
  Fragile = {r1}
  MaxOutbox = 1
  MaxInbox = 1
SPECIFICATION Spec
INVARIANTS RouteLeadsToItsRider NoBlindAdoption
