---------------------------- MODULE AnalysisPage ----------------------------
(***************************************************************************)
(* The page /dashboard/analysis (public/analysis.js).  One map shows the   *)
(* actual demand of half an hour, the others what the algorithms predict   *)
(* for the same places and time.  A change of the slider sets the filter   *)
(* of the first map and starts a timer; when it fires, the page takes the  *)
(* places from what the first map has rendered and the time from its       *)
(* inputs, and asks for the predictions of each algorithm.                 *)
(*                                                                         *)
(* Times are counted in half hours.  The tiles of the first map are cut by *)
(* Mapbox's worker: it is told the filter (tiles) and the map is drawn     *)
(* with what it returns (rendered).                                        *)
(***************************************************************************)
EXTENDS MapSources, FiniteSets

CONSTANTS
  Algorithms,   \* algorithmMapNames, in the order of its loop
  Days,         \* the days that may be picked
  StartDay,     \* June 7, 2016
  Slots,        \* the positions of the slider that are looked at
  Zone,         \* Zone[d]: what local time is behind UTC on day d
  Shown,        \* Shown[t]: the places with demand at time t
  MaxTimers,    \* bound on the timers under way
  MaxRequests   \* bound on the requests under way

ASSUME InputsAssumption ==
  Days \subseteq Nat /\ StartDay \in Days /\ Slots \subseteq 0..47 /\ 0 \in Slots
ASSUME TimersAssumption == MaxTimers \in Nat
ASSUME ZoneAssumption == Zone \in [Days -> Int]
ASSUME AlgorithmsAssumption ==
  /\ Algorithms \in Seq(Maps)
  /\ \A i, j \in DOMAIN Algorithms : Algorithms[i] = Algorithms[j] => i = j

VARIABLES
  day, slider,  \* the inputs
  label,        \* the time that is written beside the slider
  dated,        \* the day was picked since the slider last had an effect
  loaded,       \* the first map has loaded, and its layer "actual" was added
  filter,       \* the time that the layer is filtered by
  tiles,        \* the filter that Mapbox's worker was last told
  rendered,     \* the time whose demand is drawn
  timers,       \* the timers under way
  timely        \* no timer has fired before what it waits for was there

analysisVars ==
  <<day, slider, label, dated, loaded, filter, tiles, rendered, timers, timely>>

-----------------------------------------------------------------------------
(* The inputs.                                                             *)

\* getTimeElements, of a slider's position.
Hour(slot) == slot \div 2
Minute(slot) == 30 * (slot - 2 * Hour(slot))

\* getNormalizedTime takes the inputs as UTC, getDateTime as local time.
NormalizedTime(d, slot) == 48 * d + 2 * Hour(slot) + Minute(slot) \div 30
DateTime(d, slot) == NormalizedTime(d, slot) + Zone[d]

Times == {NormalizedTime(d, slot) : d \in Days, slot \in Slots}

\* Mutant: the end of the label is taken from the slot itself.
LabelOfOneEnd(slot) ==
  [from |-> <<slot \div 2, (slot % 2) * 30>>,
   to |-> <<slot \div 2, ((slot + 1) % 2) * 30>>]

\* The text beside the slider, without its layout.
Label(slot) ==
  [from |-> <<slot \div 2, (slot % 2) * 30>>,
   to |-> <<(slot + 1) \div 2, ((slot + 1) % 2) * 30>>]

AnalysisInit ==
  /\ day = StartDay
  /\ slider = 0
  /\ label = [from |-> <<0, 0>>, to |-> <<0, 30>>]
  /\ dated = FALSE
  /\ loaded = FALSE
  /\ filter = NONE
  /\ tiles = NONE
  /\ rendered = NONE
  /\ timers = 0
  /\ timely = TRUE

-----------------------------------------------------------------------------
\* filterBy.
FilterBy(time) == filter' = time

\* Mutant: the filter is left alone while a timer is under way.
FilterUnlessBusy(d, slot) ==
  /\ timers < MaxTimers
  /\ filter' = IF timers > 0 THEN filter ELSE NormalizedTime(d, slot)
  /\ timers' = timers + 1
  /\ dated' = FALSE

\* updateAllMaps: the filter, and a timer.  All timers do the same; which delay
\* they have is left out.
UpdateAllMaps(d, slot) ==
  /\ timers < MaxTimers
  /\ FilterBy(NormalizedTime(d, slot))
  /\ timers' = timers + 1
  /\ dated' = FALSE

\* The slider's change event.  Before the layer "actual" is there, setFilter
\* throws, and no timer is set.
ChangeSlider(slot) ==
  /\ slot # slider
  /\ slider' = slot
  /\ label' = Label(slot)
  /\ IF loaded THEN UpdateAllMaps(day, slot) ELSE UNCHANGED <<filter, timers, dated>>
  /\ UNCHANGED <<day, loaded, tiles, rendered, timely, styled, source, requests>>

\* A day is picked: nobody listens.
PickDate(d) ==
  /\ d # day
  /\ day' = d
  /\ dated' = TRUE
  /\ UNCHANGED <<slider, label, loaded, filter, tiles, rendered, timers, timely>>
  /\ UNCHANGED <<styled, source, requests>>

\* The first map's load event adds the layer.
ActualLoads ==
  /\ ~loaded
  /\ loaded' = TRUE
  /\ UpdateAllMaps(day, slider)
  /\ UNCHANGED <<day, slider, label, tiles, rendered, timely, styled, source, requests>>

-----------------------------------------------------------------------------
(* Mapbox: the layer is drawn anew after its filter has changed.           *)

WorkerIsTold ==
  /\ tiles # filter
  /\ tiles' = filter
  /\ UNCHANGED <<day, slider, label, dated, loaded, filter, rendered, timers, timely>>
  /\ UNCHANGED <<styled, source, requests>>

TilesAreDrawn ==
  /\ rendered # tiles
  /\ rendered' = tiles
  /\ UNCHANGED <<day, slider, label, dated, loaded, filter, tiles, timers, timely>>
  /\ UNCHANGED <<styled, source, requests>>

-----------------------------------------------------------------------------
\* updateCoordinates: what queryRenderedFeatures finds.
Coordinates == IF rendered = NONE THEN <<>> ELSE Shown[rendered]

\* buildQueryString and the URL.
AnalyzeQuery(algorithm) ==
  [route |-> "analyze", algorithm |-> algorithm,
   eventTime |-> DateTime(day, slider), coordinates |-> Coordinates]

\* Mutant: a map that is not ready is left out and the loop goes on.
EveryStyled ==
  {Algorithms[i] : i \in {j \in DOMAIN Algorithms : styled[Algorithms[j]]}}

\* The maps that the timer's loop reaches: addSource throws on a map that has
\* no style yet, and the loop ends there.
Reached ==
  {Algorithms[i] : i \in {j \in DOMAIN Algorithms :
                            \A k \in 1..j : styled[Algorithms[k]]}}

\* What the delays hope for: the styles and the tiles are there.
InTime ==
  /\ tiles = filter /\ rendered = filter
  /\ \A i \in DOMAIN Algorithms : styled[Algorithms[i]]

\* The timer: updateMapPredictions of one map after the other.  Without
\* places they stay as they are.
TimerFires ==
  /\ timers > 0
  /\ timely' = (timely /\ InTime)
  /\ Cardinality(requests) + Len(Algorithms) <= MaxRequests
  /\ timers' = timers - 1
  /\ IF Coordinates = <<>>
     THEN UNCHANGED <<styled, source, requests>>
     ELSE ReplaceSources(Reached, [m \in Reached |-> AnalyzeQuery(m)])
  /\ UNCHANGED <<day, slider, label, dated, loaded, filter, tiles, rendered>>

AnalysisUser ==
  \/ \E slot \in Slots : ChangeSlider(slot)
  \/ \E d \in Days : PickDate(d)

AnalysisStep ==
  \/ AnalysisUser
  \/ ActualLoads
  \/ WorkerIsTold
  \/ TilesAreDrawn
  \/ TimerFires
  \/ \E i \in DOMAIN Algorithms : StyleLoads(Algorithms[i]) /\ UNCHANGED analysisVars
  \/ ServerStep /\ UNCHANGED analysisVars
=============================================================================
