---------------------------- MODULE RideMatching ----------------------------
(***************************************************************************)
(* The driver page and the rider page of the web application, and the      *)
(* conversation they hold through RideFeed: riders put themselves on the   *)
(* map, drivers see them and click on one, the rider takes the first       *)
(* driver that names it, both pages ask for directions and the driver's    *)
(* car starts to move.                                                     *)
(*                                                                         *)
(* Every handler of a page runs to its end before the next one starts, so  *)
(* a handler is one action.  A variable has the name it has in its page;   *)
(* where both pages use a name (marker, status, destination) a prefix d or *)
(* r tells them apart.                                                     *)
(***************************************************************************)
EXTENDS Naturals, Sequences

CONSTANTS
  Drivers, Riders,      \* the pages
  Place,                \* the places on the map where riders stand
  Reach,                \* Reach[r]: bounds the places where r puts itself
  Road,                 \* where a car can be
  NULL,                 \* JavaScript's null and undefined
  Fragile, MaxOutbox, MaxInbox      \* see RideFeed

ASSUME ReachAssumption == Reach \in [Riders -> SUBSET Place]
ASSUME PagesAssumption == Drivers \cap Riders = {}
ASSUME NullAssumption == NULL \notin Drivers \cup Riders \cup Place \cup Road

VARIABLES
  conn, joined, outbox, inbox,      \* see RideFeed
  \* the driver page
  dMarker,        \* the position of its car, NULL until it is located
  dStatus,        \* "available" or "pickup"
  rider,          \* the rider last clicked on, or NULL
  riderMarkers,   \* riderMarkers[d][r]: where d's map shows r, NULL: not at all
  firstLngLat,    \* firstLngLat[d][r]: what the click listener of r's marker
                  \* has captured, the position in r's first record
  dDestination,   \* where its directions lead, or NULL
  requested,      \* a directions request is outstanding
  driving,        \* an interval that moves the car has been started
  \* the rider page
  rMarker,        \* its position on its own map, NULL until it is clicked
  rStatus,        \* "available" or "pickup"
  driver,         \* the driver it waits for, or NULL
  rDestination,   \* where its directions lead, or NULL
  driverMarkers,  \* driverMarkers[r][d]: where r's map shows d, NULL: not at all
  \* history, for the properties
  chosen,         \* chosen[d]: the riders that d has ever clicked on
  been            \* been[r]: the places where r has ever put itself

feed == <<conn, joined, outbox, inbox>>
driverPage == <<dMarker, dStatus, rider, riderMarkers, firstLngLat,
                dDestination, requested, driving, chosen>>
riderPage == <<rMarker, rStatus, driver, rDestination, driverMarkers, been>>
vars == <<feed, driverPage, riderPage>>

Maybe(S) == S \cup {NULL}
Status == {"available", "pickup"}

\* What a driver page sends: every 500 ms where it is and whom it fetches,
\* and once per answer of the directions service the route it will take,
\* with neither position nor status.  A route is known by its destination.
DriverRecord == [driver : Drivers, rider : Maybe(Riders), lngLat : Maybe(Road),
                 status : Maybe(Status), route : Maybe(Place)]

\* What a rider page sends, every 500 ms.
RiderRecord == [rider : Riders, lngLat : Place,
                status : Status, driver : Maybe(Drivers)]

Feed == INSTANCE RideFeed WITH Record <- DriverRecord \cup RiderRecord

Init ==
  /\ Feed!FeedInit
  /\ dMarker = [d \in Drivers |-> NULL]
  /\ dStatus = [d \in Drivers |-> "available"]
  /\ rider = [d \in Drivers |-> NULL]
  /\ riderMarkers = [d \in Drivers |-> [r \in Riders |-> NULL]]
  /\ firstLngLat = [d \in Drivers |-> [r \in Riders |-> NULL]]
  /\ dDestination = [d \in Drivers |-> NULL]
  /\ requested = [d \in Drivers |-> FALSE]
  /\ driving = [d \in Drivers |-> FALSE]
  /\ chosen = [d \in Drivers |-> {}]
  /\ rMarker = [r \in Riders |-> NULL]
  /\ rStatus = [r \in Riders |-> "available"]
  /\ driver = [r \in Riders |-> NULL]
  /\ rDestination = [r \in Riders |-> NULL]
  /\ driverMarkers = [r \in Riders |-> [d \in Drivers |-> NULL]]
  /\ been = [r \in Riders |-> {}]

-----------------------------------------------------------------------------
(* The driver page.                                                        *)

\* The browser answers getCurrentPosition, once.
Locate(d) ==
  /\ dMarker[d] = NULL
  /\ \E at \in Road : dMarker' = [dMarker EXCEPT ![d] = at]
  /\ UNCHANGED <<feed, dStatus, rider, riderMarkers, firstLngLat,
                 dDestination, requested, driving, chosen, riderPage>>

\* Mutant: a click while a request is outstanding asks for nothing.
AsksOnce(d) == dMarker[d] # NULL /\ ~requested[d]

\* The origin comes first: while the car has no marker its position is a
\* TypeError, and the destination is never set.
AsksForDirections(d) == dMarker[d] # NULL

\* Where a click on the marker of r leads: the record that made the marker
\* is the one its listener has closed over.
ClickDestination(d, r) == firstLngLat[d][r]

\* A click on the marker of r.  A second request aborts the first, so that
\* one request at most is outstanding.
ClickRider(d, r) ==
  /\ riderMarkers[d][r] # NULL
  /\ dStatus' = [dStatus EXCEPT ![d] = "pickup"]
  /\ rider' = [rider EXCEPT ![d] = r]
  /\ chosen' = [chosen EXCEPT ![d] = @ \cup {r}]
  /\ IF AsksForDirections(d)
     THEN /\ dDestination' = [dDestination EXCEPT ![d] = ClickDestination(d, r)]
          /\ requested' = [requested EXCEPT ![d] = TRUE]
     ELSE UNCHANGED <<dDestination, requested>>
  /\ UNCHANGED <<feed, dMarker, riderMarkers, firstLngLat, driving, riderPage>>

\* The record of the 'route' handler.  The rider is the one of now, not the
\* one the request was made for.
RouteRecord(d) == [driver |-> d, rider |-> rider[d], lngLat |-> NULL,
                   status |-> NULL, route |-> dDestination[d]]

\* The directions service answers: the route is sent and the car starts.
RouteEvent(d) ==
  /\ requested[d]
  /\ Feed!Send(d, RouteRecord(d))
  /\ requested' = [requested EXCEPT ![d] = FALSE]
  /\ driving' = [driving EXCEPT ![d] = TRUE]
  /\ UNCHANGED <<dMarker, dStatus, rider, riderMarkers, firstLngLat,
                 dDestination, chosen, riderPage>>

\* ... or it finds no route, and no handler listens to that.
RouteFails(d) ==
  /\ requested[d]
  /\ requested' = [requested EXCEPT ![d] = FALSE]
  /\ UNCHANGED <<feed, dMarker, dStatus, rider, riderMarkers, firstLngLat,
                 dDestination, driving, chosen, riderPage>>

\* One tick of a driving interval (CarDriving says where it moves the car).
Drive(d) ==
  /\ driving[d]
  /\ \E at \in Road : dMarker' = [dMarker EXCEPT ![d] = at]
  /\ UNCHANGED <<feed, dStatus, rider, riderMarkers, firstLngLat,
                 dDestination, requested, driving, chosen, riderPage>>

\* Mutant: the interval reports where the car is, and not whom it fetches.
AnonymousPingRecord(d) == [driver |-> d, rider |-> NULL, lngLat |-> dMarker[d],
                           status |-> dStatus[d], route |-> NULL]

DriverPingRecord(d) == [driver |-> d, rider |-> rider[d], lngLat |-> dMarker[d],
                        status |-> dStatus[d], route |-> NULL]

\* The 500 ms interval of the driver page.
DriverPing(d) ==
  /\ dMarker[d] # NULL
  /\ Feed!ReadyState1(d)
  /\ Feed!Send(d, DriverPingRecord(d))
  /\ UNCHANGED <<driverPage, riderPage>>

\* ws.onmessage: the first record of a rider makes its marker and the click
\* listener, a later one only moves the marker.
DriverOnMessage(d) ==
  /\ Feed!Take(d)
  /\ LET data == Head(inbox[d]) IN
     /\ riderMarkers' = [riderMarkers EXCEPT ![d][data.rider] = data.lngLat]
     /\ IF riderMarkers[d][data.rider] = NULL
        THEN firstLngLat' = [firstLngLat EXCEPT ![d][data.rider] = data.lngLat]
        ELSE firstLngLat' = firstLngLat
  /\ UNCHANGED <<dMarker, dStatus, rider, dDestination, requested, driving,
                 chosen, riderPage>>

-----------------------------------------------------------------------------
(* The rider page.                                                         *)

\* Mutant: the guard of the click handler is forgotten.
MovesAnyway(r) == TRUE

\* A click on the map puts the rider there, as long as no driver is coming.
MayMove(r) == driver[r] = NULL

ClickMap(r, at) ==
  /\ MayMove(r)
  /\ rMarker' = [rMarker EXCEPT ![r] = at]
  /\ been' = [been EXCEPT ![r] = @ \cup {at}]
  /\ UNCHANGED <<feed, driverPage, rStatus, driver, rDestination, driverMarkers>>

RiderPingRecord(r) == [rider |-> r, lngLat |-> rMarker[r],
                       status |-> rStatus[r], driver |-> driver[r]]

\* The marker is on the map.
OnMap(r) == rMarker[r] # NULL

\* Mutant: a rider that waits for its driver has nothing more to say.
PingWhileFree(r) ==
  /\ OnMap(r) /\ driver[r] = NULL
  /\ Feed!ReadyState1(r)
  /\ Feed!Send(r, RiderPingRecord(r))
  /\ UNCHANGED <<driverPage, riderPage>>

\* The 500 ms interval of the rider page.
RiderPing(r) ==
  /\ OnMap(r)
  /\ Feed!ReadyState1(r)
  /\ Feed!Send(r, RiderPingRecord(r))
  /\ UNCHANGED <<driverPage, riderPage>>

\* Mutants: one part of the condition is forgotten, or taken for another.
AdoptsAnyone(r, data) == rStatus[r] # "pickup" /\ data.lngLat # NULL
AdoptsAnyPickup(r, data) == data.status = "pickup" /\ rStatus[r] # "pickup"
AdoptsAgain(r, data) == data.rider = r /\ data.lngLat # NULL

\* The rider takes the driver of this record.
Adopts(r, data) ==
  /\ data.rider = r
  /\ rStatus[r] # "pickup"
  /\ data.lngLat # NULL

\* The first half of ws.onmessage.
Adopt(r, data) ==
  /\ rStatus' = [rStatus EXCEPT ![r] = "pickup"]
  /\ driver' = [driver EXCEPT ![r] = data.driver]
  /\ rDestination' = [rDestination EXCEPT ![r] = rMarker[r]]

\* A rider that is not on its map has no marker to ask for its position: the
\* handler ends in a TypeError before it gets to its second half.
Throws(r, data) == Adopts(r, data) /\ ~OnMap(r)

\* The second half, where the map shows drivers: setLngLat of a new marker
\* refuses undefined, an old marker is left where it is.
ShownDrivers(r, data) ==
  [driverMarkers EXCEPT ![r][data.driver] =
     IF data.lngLat # NULL THEN data.lngLat ELSE @]

\* ws.onmessage.
RiderOnMessage(r) ==
  /\ Feed!Take(r)
  /\ LET data == Head(inbox[r]) IN
     /\ IF Adopts(r, data)
        THEN Adopt(r, data)
        ELSE UNCHANGED <<rStatus, driver, rDestination>>
     /\ driverMarkers' = IF Throws(r, data) THEN driverMarkers
                                            ELSE ShownDrivers(r, data)
  /\ UNCHANGED <<driverPage, rMarker, been>>

-----------------------------------------------------------------------------
DriverStep(d) ==
  \/ Locate(d) \/ RouteEvent(d) \/ RouteFails(d) \/ Drive(d)
  \/ DriverPing(d) \/ DriverOnMessage(d)
  \/ \E r \in Riders : ClickRider(d, r)

RiderStep(r) ==
  \/ RiderPing(r) \/ RiderOnMessage(r)
  \/ \E at \in Reach[r] : ClickMap(r, at)

Network == Feed!Transport /\ UNCHANGED <<driverPage, riderPage>>

Next ==
  \/ \E d \in Drivers : DriverStep(d)
  \/ \E r \in Riders : RiderStep(r)
  \/ Network

Spec == Init /\ [][Next]_vars

\* Connections are accepted, consumers find their position, pages handle
\* what reaches them.  Publishing and the intervals go on for ever; they are
\* strongly fair only because the bounds on the queues, which the code does
\* not have, disable them now and then.  Nobody has to click, and neither
\* the browser's position nor the directions service has to answer.
Accepting(p) == Feed!Accept(p) /\ UNCHANGED <<driverPage, riderPage>>
Joining(p) == Feed!Join(p) /\ UNCHANGED <<driverPage, riderPage>>
Publishing(p) == Feed!Publish(p) /\ UNCHANGED <<driverPage, riderPage>>

Fairness ==
  /\ \A p \in Drivers \cup Riders :
       /\ WF_vars(Accepting(p))
       /\ WF_vars(Joining(p))
       /\ SF_vars(Publishing(p))
  /\ \A d \in Drivers : WF_vars(DriverOnMessage(d)) /\ SF_vars(DriverPing(d))
  /\ \A r \in Riders : WF_vars(RiderOnMessage(r)) /\ SF_vars(RiderPing(r))

FairSpec == Spec /\ Fairness

-----------------------------------------------------------------------------
(* Properties.                                                             *)

Records == DriverRecord \cup RiderRecord

\* Queues that hold records from DS on their way to riders and records from
\* RS on their way to drivers.
Carries(DS, RS, out, in) ==
  /\ \A d \in Drivers : out[d] \in Seq(DS) /\ in[d] \in Seq(RS)
  /\ \A r \in Riders : out[r] \in Seq(RS) /\ in[r] \in Seq(DS)

PageTypeOK ==
  /\ dMarker \in [Drivers -> Maybe(Road)]
  /\ dStatus \in [Drivers -> Status]
  /\ rider \in [Drivers -> Maybe(Riders)]
  /\ riderMarkers \in [Drivers -> [Riders -> Maybe(Place)]]
  /\ firstLngLat \in [Drivers -> [Riders -> Maybe(Place)]]
  /\ dDestination \in [Drivers -> Maybe(Place)]
  /\ requested \in [Drivers -> BOOLEAN]
  /\ driving \in [Drivers -> BOOLEAN]
  /\ rMarker \in [Riders -> Maybe(Place)]
  /\ rStatus \in [Riders -> Status]
  /\ driver \in [Riders -> Maybe(Drivers)]
  /\ rDestination \in [Riders -> Maybe(Place)]
  /\ driverMarkers \in [Riders -> [Drivers -> Maybe(Road)]]
  /\ chosen \in [Drivers -> SUBSET Riders]
  /\ been \in [Riders -> SUBSET Place]

TypeOK ==
  /\ Feed!FeedTypeOK
  /\ Carries(DriverRecord, RiderRecord, outbox, inbox)
  /\ PageTypeOK

Elems(s) == {s[i] : i \in DOMAIN s}

\* The records that d has sent and that some page has still to handle.
SentBy(d) ==
  {rec \in UNION ({Elems(outbox[d])} \cup {Elems(inbox[r]) : r \in Riders}) :
     rec.driver = d}

\* A rider waits only for a driver that has clicked on it; and if that driver
\* has clicked on no other rider, it is on its way to this one, however late
\* its records were handled (driver.scala.html 141-149, 157-161, against
\* rider.scala.html 119-127).
PairingAgrees ==
  \A r \in Riders : \A d \in Drivers :
    driver[r] = d => /\ r \in chosen[d]
                     /\ chosen[d] = {r} => rider[d] = r

\* No rider ever handles a record that makes it take a driver before it has
\* put itself on the map, where marker.getLngLat() would be a TypeError
\* (rider.scala.html 124): to be clicked on, it must have been seen.
NoBlindAdoption ==
  \A r \in Riders :
    inbox[r] # <<>> /\ Adopts(r, Head(inbox[r])) => OnMap(r)

\* Once a driver is coming, the place where the rider's directions end and
\* the place where the rider stands are the same (rider.scala.html 84-95
\* against 119-127: two handlers guarded by two different variables).
MeetsAtMarker ==
  \A r \in Riders :
    driver[r] # NULL => OnMap(r) /\ rDestination[r] = rMarker[r]

\* A route is announced for the rider it leads to: the 'route' handler reads
\* the rider at the time of the answer, after clicks on other riders
\* (driver.scala.html 83-86 against 141-147).
RouteLeadsToItsRider ==
  \A d \in Drivers :
    /\ requested[d] => /\ rider[d] # NULL
                       /\ dDestination[d] \in been[rider[d]]
    /\ \A rec \in SentBy(d) :
         rec.route # NULL => /\ rec.rider # NULL
                             /\ rec.route \in been[rec.rider]

\* The pages agree on pickups the way PickupAgreement says.
Agreement == INSTANCE PickupAgreement WITH assigned <- driver

AgreementSpec == Agreement!Spec

Gone(p) == conn[p] \in {"broken", "closed"}

\* A located driver that clicks on a rider is heard: the rider takes it or
\* another one, unless the driver turns to someone else first or one of the
\* two connections is lost.
PickupIsHeard ==
  \A d \in Drivers : \A r \in Riders :
    rider[d] = r /\ dMarker[d] # NULL
      ~> driver[r] # NULL \/ rider[d] # r \/ Gone(d) \/ Gone(r)

\* Once a rider waits for a driver, every driver's map ends up showing it
\* where it stands, unless a connection is lost.
MapsConverge ==
  \A d \in Drivers : \A r \in Riders :
    driver[r] # NULL ~> riderMarkers[d][r] = rMarker[r] \/ Gone(d) \/ Gone(r)

\* README.md: "In the Driver UI, click on the rider to initiate a pickup".
\* A driver whose status says pickup has directions to somewhere.
ClickInitiatesPickup ==
  \A d \in Drivers : dStatus[d] = "pickup" => dDestination[d] # NULL

\* README.md: "In the Rider UI, click on the map to position the rider".
\* A click on a rider asks for directions to where the map shows the rider.
ClickLeadsToShownPlace ==
  [][\A d \in Drivers :
       requested'[d] /\ ~requested[d]
         => dDestination'[d] = riderMarkers[d][rider'[d]]]_vars
=============================================================================
