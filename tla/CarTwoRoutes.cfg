\* A second route, the shorter one, arrives while the car is driving along the
\* first.  No route takes whole seconds, so no sum is in doubt.
CONSTANTS
  MaxRoutes = 2
  Durations = {15, 25}
SPECIFICATION FairSpec
CHECK_DEADLOCK FALSE
INVARIANT LastPickupIsDriven
