--------------------------- MODULE PredictionPage ---------------------------
(***************************************************************************)
(* The page /dashboard/prediction (public/prediction.js).  A click on the  *)
(* map asks for a prediction around that place with the inputs of the      *)
(* moment.  A popup tells the demand: of some point of the answer when     *)
(* data arrive, of the nearest one when the mouse moves.                   *)
(***************************************************************************)
EXTENDS MapSources, SequencesExt

CONSTANTS
  PredictionMap,  \* the only map of the page
  Center,         \* where it is centred
  Spots,          \* the places where the mouse may be
  Places,         \* those where it may click
  DefaultTime,    \* 2017-03-22 16:00
  BLANK,          \* a date or time that has been cleared
  Entered,        \* Entered[f]: what may be entered in field f
  MaxPredictions  \* bound on the requests under way

ASSUME PlacesAssumption ==
  Places \subseteq Spots /\ Spots \subseteq Int \X Int /\ Center \in Int \X Int
ASSUME PredictionMapAssumption == PredictionMap \in Maps

VARIABLES
  inputs,       \* the inputs, as the change handlers have read them
  place,        \* lat and lng
  popup,        \* where the popup is and what it says (NONE: it is closed)
  dataDue       \* whether Mapbox has a 'data' event to fire

predictionVars == <<inputs, place, popup, dataDue>>

Field == {"eventTime", "temperature", "weather", "algorithm"}

PredictionInit ==
  /\ inputs = [eventTime |-> DefaultTime, temperature |-> 20, weather |-> 0,
               algorithm |-> 0]
  /\ place = Center
  /\ popup = [at |-> NONE, says |-> NONE]
  /\ dataDue = FALSE

-----------------------------------------------------------------------------
\* The change handlers.  What is shown stays as it is.
ChangeInput(field, value) ==
  /\ inputs[field] # value
  /\ inputs' = [inputs EXCEPT ![field] = value]
  /\ UNCHANGED <<place, popup, dataDue, styled, source, requests>>

\* buildQueryString and the URL.
PredictQuery(p) == [route |-> "predict", place |-> p, inputs |-> inputs]

\* Mutant: the popup is moved and stays open.
MovePopup(p) == [popup EXCEPT !.at = p]

\* pop.remove and pop.setLngLat.
ClosedPopup(p) == [at |-> p, says |-> NONE]

\* A click.  The former source goes first; then toISOString throws if there
\* is no date, and addSource if the map has no style.
Click(p) ==
  /\ Cardinality(requests) < MaxPredictions
  /\ place' = p
  /\ popup' = ClosedPopup(p)
  /\ IF styled[PredictionMap] /\ inputs.eventTime # BLANK
     THEN ReplaceSources({PredictionMap}, [m \in {PredictionMap} |-> PredictQuery(p)])
     ELSE RemoveSource(PredictionMap)
  /\ dataDue' = IF HasSource(PredictionMap) \/ HasSource(PredictionMap)'
                THEN TRUE ELSE dataDue
  /\ UNCHANGED inputs

-----------------------------------------------------------------------------
\* querySourceFeatures: what the answer has brought.  Its order is that of
\* Mapbox's tiles.
SourceFeatures ==
  IF HasSource(PredictionMap) THEN source[PredictionMap].features ELSE {}

\* Mutant: the demand is written into the popup, which nobody opens.
WriteOnly(demand) == IF popup.says = NONE THEN popup ELSE [popup EXCEPT !.says = demand]

\* setHTML and addTo.
Says(demand) == [popup EXCEPT !.says = demand]

\* The map has new data, of whatever kind: the popup tells the first demand
\* there is, if any.
DataEvent ==
  /\ dataDue
  /\ dataDue' = FALSE
  /\ \/ SourceFeatures = {} /\ UNCHANGED popup
     \/ \E f \in SourceFeatures : popup' = Says(f.demand)
  /\ UNCHANGED <<inputs, place, styled, source, requests>>

\* Squares of distances, in the units of the places.
Distance(p, q) == (p[1] - q[1]) * (p[1] - q[1]) + (p[2] - q[2]) * (p[2] - q[2])

\* 0.00002 square degrees are more than 7 and less than 8 square units.
Threshold == 7

\* Mutant: the distance of the first point is kept for the comparisons.
FindNearerThanFirst(demands, mouse) ==
  LET Dist(i) == Distance(demands[i].at, mouse)
      nIndex[i \in DOMAIN demands] ==
        IF i = 1 THEN 1
        ELSE IF Dist(i) < Dist(1) THEN i ELSE nIndex[i - 1]
      last == nIndex[Len(demands)]
  IN  IF Dist(last) > Threshold THEN 0 ELSE last

\* findNearestIndex: nIndex after each turn of the loop, 0 for "too far".
FindNearestIndex(demands, mouse) ==
  LET Dist(i) == Distance(demands[i].at, mouse)
      nIndex[i \in DOMAIN demands] ==
        IF i = 1 THEN 1
        ELSE LET best == nIndex[i - 1] IN IF Dist(i) < Dist(best) THEN i ELSE best
      last == nIndex[Len(demands)]
  IN  IF Dist(last) > Threshold THEN 0 ELSE last

\* The mouse moves: the popup goes to the nearest point, if one is near.
MouseMove(mouse) ==
  /\ SourceFeatures # {}
  /\ \E demands \in SetToSeqs(SourceFeatures) :
       LET nearest == FindNearestIndex(demands, mouse) IN
       \/ /\ nearest = 0
          /\ popup' = [popup EXCEPT !.says = NONE]
       \/ \E i \in DOMAIN demands :
            /\ nearest = i
            /\ popup' = [at |-> demands[i].at, says |-> demands[i].demand]
  /\ UNCHANGED <<inputs, place, dataDue, styled, source, requests>>

\* The popup's own button.
ClosePopup ==
  /\ popup.says # NONE
  /\ popup' = [popup EXCEPT !.says = NONE]
  /\ UNCHANGED <<inputs, place, dataDue, styled, source, requests>>

PredictionUser ==
  \/ \E f \in Field : \E value \in Entered[f] : ChangeInput(f, value)
  \/ \E p \in Places : Click(p)
  \/ \E m \in Spots : MouseMove(m)
  \/ ClosePopup

-----------------------------------------------------------------------------
(* What makes Mapbox fire a 'data' event, besides a click.                 *)

\* The style has been loaded.
StyleArrives ==
  /\ StyleLoads(PredictionMap)
  /\ dataDue' = TRUE
  /\ UNCHANGED <<inputs, place, popup>>

\* So have tiles of the city, after the style or when the user turns to another
\* part of it.
TilesArrive ==
  /\ styled[PredictionMap] /\ ~dataDue
  /\ dataDue' = TRUE
  /\ UNCHANGED <<inputs, place, popup, styled, source, requests>>

\* The server goes on; the map has new data if its source has been filled.
PredictionArrives ==
  /\ ServerStep
  /\ dataDue' = IF SourceFeatures' = SourceFeatures THEN dataDue ELSE TRUE
  /\ UNCHANGED <<inputs, place, popup>>

PredictionStep ==
  \/ PredictionUser
  \/ DataEvent
  \/ StyleArrives
  \/ TilesArrive
  \/ PredictionArrives
=============================================================================
