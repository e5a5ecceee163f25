--------------------------- MODULE DemandService ---------------------------
(***************************************************************************)
(* The server of the demand dashboard.  A page asks either for a           *)
(* prediction around a place (route "predict") or for an analysis of given *)
(* coordinates (route "analyze").  The server turns a request into one     *)
(* query per point, asks PredictionIO all of them at once and answers with *)
(* one feature per point, or not at all if any query fails.                *)
(*                                                                         *)
(* A point is a pair <<lng, lat>>, in units of 0.0016 degrees.  What       *)
(* PredictionIO predicts is known by the model and the query that it was   *)
(* predicted from.                                                         *)
(***************************************************************************)
EXTENDS Integers, Sequences

CONSTANTS
  ClusterSize,  \* the points of a cluster that are looked at: 13 in the code
  NAN           \* what parseFloat makes of text that is no number

ASSUME ClusterAssumption == ClusterSize \in 1..13

VARIABLE requests   \* the requests of the pages that are not answered yet

-----------------------------------------------------------------------------
(* Points and queries.                                                     *)

\* makeCluster, on the server and (unused) on the page: the place itself and
\* what is at most two steps away from it.
ClusterOffsets ==
  << <<0, 0>>, <<0, 2>>, <<-1, 1>>, <<0, 1>>, <<1, 1>>, <<-2, 0>>, <<-1, 0>>,
     <<1, 0>>, <<2, 0>>, <<-1, -1>>, <<0, -1>>, <<1, -1>>, <<0, -2>> >>

MakeCluster(place) ==
  [i \in 1..ClusterSize |->
     <<place[1] + ClusterOffsets[i][1], place[2] + ClusterOffsets[i][2]>>]

\* The points of a cluster, as a set.
Around(place) == {MakeCluster(place)[i] : i \in 1..ClusterSize}

Points(query) ==
  IF query.route = "predict" THEN MakeCluster(query.place) ELSE query.coordinates

Clear == 0

\* What PredictionIO is asked.  The coordinates of an analysis arrive as
\* <<lng, lat>> and are passed on as if they were <<lat, lng>>.
PioQuery(query, point) ==
  IF query.route = "predict"
  THEN [eventTime |-> query.inputs.eventTime, lat |-> point[2], lng |-> point[1],
        temperature |-> query.inputs.temperature, weather |-> query.inputs.weather]
  ELSE [eventTime |-> query.eventTime, lat |-> point[1], lng |-> point[2],
        temperature |-> 20, weather |-> Clear]

\* The entry of PredictionIO's answer that is shown: the numbers of the
\* selection on the prediction page, the names that the analysis page uses.
Model(query) ==
  IF query.route = "predict"
  THEN CASE query.inputs.algorithm = 1 -> "algGBTree"
         [] query.inputs.algorithm = 2 -> "algRegression"
         [] query.inputs.algorithm = 3 -> "ridgeRegression"
         [] query.inputs.algorithm = 4 -> "randomForest"
         [] OTHER -> "demand"
  ELSE query.algorithm

Feature(query, point) ==
  [at |-> point,
   demand |-> [model |-> Model(query), query |-> PioQuery(query, point)]]

\* The answer to a query: a feature for each of its points.
Features(query) ==
  {Feature(query, Points(query)[i]) : i \in DOMAIN Points(query)}

-----------------------------------------------------------------------------
(* A request: for which map, whether the source that made it is still      *)
(* there, what it asks, and what has become of the query for each point.   *)

\* A temperature that is no number cannot be written as JSON: the action
\* throws before it asks for anything.
NewRequest(map, query) ==
  [map |-> map, live |-> TRUE, query |-> query,
   outcome |->
     [i \in DOMAIN Points(query) |->
        IF query.route = "predict" /\ query.inputs.temperature = NAN
        THEN "refused" ELSE "asked"]]

WithOutcome(request, i, outcome) ==
  (requests \ {request}) \cup {[request EXCEPT !.outcome[i] = outcome]}

\* PredictionIO has answered with the demand of every model.
QueryServed(request, i) ==
  /\ request.outcome[i] = "asked"
  /\ requests' = WithOutcome(request, i, "served")

\* The connection fails or times out, or the answer is not the expected JSON.
QueryRefused(request, i) ==
  /\ request.outcome[i] = "asked"
  /\ requests' = WithOutcome(request, i, "refused")

\* Future.sequence waits for the futures one after the other, and ends with
\* the first that fails.
Succeeds(request) == \A i \in DOMAIN request.outcome : request.outcome[i] = "served"

\* Mutant: only the failure of the first query is passed on.
FailsWithFirst(request) == request.outcome[1] = "refused"

Fails(request) ==
  \E i \in DOMAIN request.outcome :
    /\ request.outcome[i] = "refused"
    /\ \A j \in DOMAIN request.outcome : j < i => request.outcome[j] = "served"

\* toGeoJsonCollection.
Answer(request) ==
  {Feature(request.query, Points(request.query)[i]) :
     i \in {j \in DOMAIN request.outcome : request.outcome[j] = "served"}}
=============================================================================
