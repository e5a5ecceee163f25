\* Two drivers and two riders; one link on each side may be lost.
CONSTANTS
  Drivers = {d1, d2}
  Riders = {r1, r2}
  Record = {a, b}
  Fragile = {r1, d1}
  MaxOutbox = 1
  MaxInbox = 2
SPECIFICATION FeedSpec
INVARIANT SameOrder
