----------------------------- MODULE CarDriving -----------------------------
(***************************************************************************)
(* How the driver page moves its car.  Every route that the directions     *)
(* service finds starts an interval of its own, which once a second puts   *)
(* the marker one second further along that route, until the route is      *)
(* used up.  The variable that holds the interval is local to the handler, *)
(* so nothing stops an interval when the next route arrives.               *)
(*                                                                         *)
(* All intervals have the same period: between two callbacks of one of     *)
(* them every other one has its turn, and a new one has to wait a whole    *)
(* second, that is, until all the others have had theirs.  So they are in  *)
(* a queue, by the time at which they are due.                             *)
(*                                                                         *)
(* metersTraveled is counted in seconds of driving.  It is a sum of        *)
(* floating point numbers: after exactly `duration' seconds it may be just *)
(* below route.distance (ten times 0.1 is), and then the route takes one   *)
(* step more.                                                              *)
(***************************************************************************)
EXTENDS Integers, Sequences

CONSTANTS
  MaxRoutes,    \* bound on the routes of the run
  Durations     \* what a route may take, in tenths of a second

ASSUME RoutesAssumption == MaxRoutes \in Nat
ASSUME DurationsAssumption == Durations \subseteq Nat

VARIABLES
  routes,       \* how many routes have arrived: route n is the n-th of them
  duration,     \* duration[n]: the tenths of a second that route n takes
  short,        \* short[n]: whether the sum of its whole seconds is below its distance
  traveled,     \* traveled[n]: the seconds of route n that its interval has driven
  running,      \* the routes whose interval has not been cleared, the next one first
  marker        \* where the car is: so many seconds into some route

vars == <<routes, duration, short, traveled, running, marker>>

Route == 1..MaxRoutes
Parked == [route |-> 0, at |-> 0]

Init ==
  /\ routes = 0
  /\ duration = [n \in Route |-> 0]
  /\ short = [n \in Route |-> FALSE]
  /\ traveled = [n \in Route |-> 0]
  /\ running = <<>>
  /\ marker = Parked

\* The 'route' handler, from "start driving" on.
StartDriving(tenths, below) ==
  /\ routes < MaxRoutes
  /\ routes' = routes + 1
  /\ duration' = [duration EXCEPT ![routes + 1] = tenths]
  /\ short' = [short EXCEPT ![routes + 1] = below]
  /\ running' = Append(running, routes + 1)
  /\ UNCHANGED <<traveled, marker>>

\* Mutant: the car is put where it will be a second later.
AlongNextSecond(n) == traveled[n] + 1

\* Where turf.along puts the car.
Along(n) == traveled[n]

\* metersTraveled >= route.distance.
AtEnd(n) ==
  \/ 10 * traveled[n] > duration[n]
  \/ 10 * traveled[n] = duration[n] /\ ~short[n]

\* An interval at its end clears itself.
Clear(n) ==
  /\ AtEnd(n)
  /\ running' = Tail(running)
  /\ UNCHANGED <<traveled, marker>>

\* Any other one moves the car, and is due again after a second.
Move(n) ==
  /\ ~AtEnd(n)
  /\ marker' = [route |-> n, at |-> Along(n)]
  /\ traveled' = [traveled EXCEPT ![n] = @ + 1]
  /\ running' = Append(Tail(running), n)

\* Mutant: an interval at its end does nothing, and goes on doing so.
TickForever ==
  /\ running # <<>>
  /\ \/ AtEnd(Head(running)) /\ running' = Append(Tail(running), Head(running))
                             /\ UNCHANGED <<traveled, marker>>
     \/ Move(Head(running))
  /\ UNCHANGED <<routes, duration, short>>

\* The callback of the interval that is due.
Tick ==
  /\ running # <<>>
  /\ Clear(Head(running)) \/ Move(Head(running))
  /\ UNCHANGED <<routes, duration, short>>

Next ==
  \/ \E tenths \in Durations, below \in BOOLEAN : StartDriving(tenths, below)
  \/ Tick

Spec == Init /\ [][Next]_vars

\* The browser runs every interval; routes come when they come.
FairSpec == Spec /\ WF_vars(Tick)

-----------------------------------------------------------------------------
TypeOK ==
  /\ routes \in 0..MaxRoutes
  /\ duration \in [Route -> Durations \cup {0}]
  /\ short \in [Route -> BOOLEAN]
  /\ traveled \in [Route -> Nat]
  /\ running \in Seq(1..routes)
  /\ marker \in [route : 0..MaxRoutes, at : Nat]

\* A route that has been driven is driven into its last second, and not beyond
\* its end: when nothing moves the car any more, it stands on some route with no
\* more than a second to go, and at the very end only if the sum has fallen
\* short, however many intervals have pulled at it (driver.scala.html 98-107: the
\* check comes before the step).
RestsInLastSecond ==
  running = <<>> /\ marker # Parked =>
    LET left == duration[marker.route] - 10 * marker.at
    IN  left \in 0..10 /\ (left = 0 => short[marker.route])

\* Every drive comes to an end: the intervals that were started are cleared.
ComesToRest == <>[](running = <<>>)

\* README.md: "In the Driver UI, click on the rider to initiate a pickup".
\* The car ends up on the route to the rider that was clicked on last.
LastPickupIsDriven ==
  running = <<>> /\ routes # 0 /\ duration[routes] # 0 => marker.route = routes
=============================================================================
