\* Three routes of no seconds, half a second, one, three, or three and a half,
\* one after the other or not; the sum of the whole ones may fall short.
CONSTANTS
  MaxRoutes = 3
  Durations = {0, 5, 10, 30, 35}
SPECIFICATION FairSpec
CHECK_DEADLOCK FALSE
INVARIANT RestsInLastSecond
PROPERTY ComesToRest
