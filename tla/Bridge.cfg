\* A driver and two riders, of whom the first answers and may be cut off.
CONSTANTS
  d1 = d1  r1 = r1  a = a
  NONE = NONE
  Drivers = {d1}
  Riders = {r1, r2}
  Record = {a, b}
  Says <- Chorus
  Fragile = {r1}
  MaxUpstream = 1
  MaxInflight = 1
  MaxLog = 2
  MaxDownstream = 1
  MaxPoll = 2
SPECIFICATION FairSpec
CHECK_DEADLOCK FALSE
INVARIANT NoGaps
PROPERTIES ImplementsFeed EverythingIsRead
