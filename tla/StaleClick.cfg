\* A rider who moves before the driver clicks.
CONSTANTS
  d1 = d1  d2 = d2  r1 = r1  r2 = r2  p1 = p1  p2 = p2
  NULL = NULL
  Drivers = {d1}
  Riders = {r1}
  Place = {p1, p2}
  Road = {a}
  Reach <- Anywhere
  Fragile = {}
  MaxOutbox = 1
  MaxInbox = 1
SPECIFICATION FairSpec
PROPERTY ClickLeadsToShownPlace
