\* A rider who moves about, and a driver whose link may be lost.
CONSTANTS
  d1 = d1  d2 = d2  r1 = r1  r2 = r2  p1 = p1  p2 = p2
  NULL = NULL
  Drivers = {d1}
  Riders = {r1}
  Place = {p1, p2}
  Road = {a}
  Reach <- Anywhere
  Fragile = {d1}
  MaxOutbox = 1
  MaxInbox = 1
SPECIFICATION FairSpec
INVARIANT MeetsAtMarker
PROPERTIES PickupIsHeard MapsConverge
