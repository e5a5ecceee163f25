-------------------------- MODULE Dashboard_proofs --------------------------
(***************************************************************************)
(* Proofs about Dashboard, for every number of maps, of days and slots, of *)
(* places and of requests and timers under way.                            *)
(***************************************************************************)
EXTENDS TLAPS, Dashboard, FiniteSetTheorems
\* The parts of the inductive invariant.  A request whose source is still
\* there is the one that this source waits for, and a map has one such
\* request at most.
LiveOnes ==
  \A r \in requests : r.live =>
    source[r.map].state = "waiting" /\ source[r.map].query = r.query

OneLive ==
  \A r, s \in requests : r.live /\ s.live /\ r.map = s.map => r = s

SourcesInv == SourcesTypeOK /\ LiveOnes /\ OneLive /\ AnswersBelong

\* What the time of the first map is.
FilterFresh == loaded /\ ~dated => filter = NormalizedTime(day, slider)

\* A map gets a source only after all maps before it have a style.
StyledFirst ==
  \A j \in DOMAIN Algorithms : HasSource(Algorithms[j]) =>
    \A k \in 1..j : styled[Algorithms[k]]

\* MapsAgree, also for a time without demand: then only the first map is
\* known to be up to date.
Agreement ==
  timely /\ loaded /\ timers = 0 /\ ~dated =>
    /\ tiles = filter
    /\ rendered = filter
    /\ Shown[filter] # <<>> =>
         \A i \in DOMAIN Algorithms :
           /\ HasSource(Algorithms[i])
           /\ source[Algorithms[i]].query.eventTime = filter + Zone[day]
           /\ source[Algorithms[i]].query.coordinates = Shown[filter]

\* The source of the prediction page is that of the last click.
PopupPlace ==
  HasSource(PredictionMap) =>
    /\ source[PredictionMap].query.route = "predict"
    /\ source[PredictionMap].query.place = place
    /\ popup.at \in Around(place)

AnalysisInv == AnalysisTypeOK /\ FilterFresh /\ StyledFirst /\ SameQuestion /\ Agreement

PredictionInv == PredictionTypeOK /\ PopupPlace /\ PopupOfLastClick

IInv == page \in Page /\ SourcesInv /\ AnalysisInv /\ PredictionInv

\* What a step of the server leaves alone: which maps have a source, and what
\* these have asked.
SameSources ==
  \A m \in Maps : /\ HasSource(m)' <=> HasSource(m)
                  /\ HasSource(m) => source'[m].query = source[m].query

-----------------------------------------------------------------------------
(* Queries and requests.                                                   *)

\* What is asked about is a sequence of points.
LEMMA PointsOfQuery ==
  ASSUME NEW query \in Query
  PROVE  \E n \in Nat : DOMAIN Points(query) = 1..n
<1>1. CASE query.route = "predict"
  <2>1. DOMAIN Points(query) = 1..ClusterSize
    BY <1>1 DEF Points, MakeCluster
  <2> QED BY <2>1, ClusterAssumption
<1>2. CASE query.route # "predict"
  <2>1. query.coordinates \in Seq(Int \X Int)
    BY <1>2 DEF Query
  <2> QED BY <1>2, <2>1 DEF Points
<1> QED BY <1>1, <1>2

\* A new request is live and has a query for each point.
LEMMA NewRequestType ==
  \A m \in Maps, query \in Query :
    /\ NewRequest(m, query) \in Request
    /\ NewRequest(m, query).live = TRUE
    /\ NewRequest(m, query).map = m
    /\ NewRequest(m, query).query = query
    /\ DOMAIN NewRequest(m, query).outcome = DOMAIN Points(query)
<1> TAKE m \in Maps, query \in Query
<1> DEFINE outcome == NewRequest(m, query).outcome
<1>1. PICK n \in Nat : DOMAIN Points(query) = 1..n
  BY PointsOfQuery
<1>2. outcome = [i \in 1..n |->
                   IF query.route = "predict" /\ query.inputs.temperature = NAN
                   THEN "refused" ELSE "asked"]
  BY <1>1 DEF NewRequest
<1>3. outcome \in Seq({"asked", "served", "refused"})
  BY <1>2
<1> QED BY <1>1, <1>2, <1>3 DEF NewRequest, Request

\* The requests that lose their source stay as they are otherwise.
LEMMA WithoutSourcesType ==
  ASSUME SourcesTypeOK, NEW ms, NEW r \in WithoutSources(ms)
  PROVE  /\ r \in Request
         /\ DOMAIN r.outcome = DOMAIN Points(r.query)
         /\ r.live => r \in requests /\ r.map \notin ms
<1>1. PICK q \in requests : r = IF q.map \in ms THEN [q EXCEPT !.live = FALSE] ELSE q
  BY DEF WithoutSources
<1>2. q \in Request /\ DOMAIN q.outcome = DOMAIN Points(q.query)
  BY DEF SourcesTypeOK
<1>3. CASE q.map \in ms
  <2>1. r = [q EXCEPT !.live = FALSE]
    BY <1>1, <1>3
  <2>2. r.live = FALSE /\ r.query = q.query /\ r.outcome = q.outcome /\ r \in Request
    BY <1>2, <2>1 DEF Request
  <2> QED BY <1>2, <2>2
<1>4. CASE q.map \notin ms
  BY <1>1, <1>2, <1>4
<1> QED BY <1>3, <1>4

-----------------------------------------------------------------------------
(* What each change of sources and requests keeps.                         *)

\* Maps get new sources: the requests of the former ones have lost them.
LEMMA ReplaceKeeps ==
  ASSUME SourcesInv, NEW ms \in SUBSET Maps, NEW query,
         \A m \in ms : query[m] \in Query,
         ReplaceSources(ms, query)
  PROVE  SourcesInv'
<1> USE DEF SourcesInv
<1>1. source' = [m \in Maps |-> IF m \in ms THEN Waiting(query[m]) ELSE source[m]]
  BY DEF ReplaceSources
<1>2. \A m \in ms : /\ source'[m].state = "waiting"
                    /\ source'[m].query = query[m]
                    /\ source'[m].features = {}
  BY <1>1 DEF Waiting
<1>3. \A m \in Maps \ ms : source'[m] = source[m]
  BY <1>1
<1>4. \A r \in requests' :
        \/ r \in WithoutSources(ms)
        \/ \E m \in ms : r = NewRequest(m, query[m])
  BY DEF ReplaceSources
<1>5. \A m \in ms : /\ NewRequest(m, query[m]) \in Request
                    /\ NewRequest(m, query[m]).live = TRUE
                    /\ NewRequest(m, query[m]).map = m
                    /\ NewRequest(m, query[m]).query = query[m]
                    /\ DOMAIN NewRequest(m, query[m]).outcome = DOMAIN Points(query[m])
  <2>1. \A m \in ms : m \in Maps /\ query[m] \in Query
    OBVIOUS
  <2> QED BY <2>1, NewRequestType
<1>6. \A r \in requests' : /\ r \in Request
                           /\ DOMAIN r.outcome = DOMAIN Points(r.query)
  BY <1>4, <1>5, WithoutSourcesType
<1>7. \A r \in requests' : r.live =>
        IF r.map \in ms THEN r = NewRequest(r.map, query[r.map]) ELSE r \in requests
  BY <1>4, <1>5, WithoutSourcesType
<1>8. SourcesTypeOK'
  <2>1. styled' = styled
    BY DEF ReplaceSources
  <2>2. DOMAIN source' = Maps
    BY <1>1
  <2>3. \A m \in Maps : HasSource(m)' =>
          source'[m].query \in Query /\ source'[m].state \in {"waiting", "filled", "failed"}
    BY <1>2, <1>3 DEF SourcesTypeOK, HasSource
  <2>4. requests' \subseteq Request
    BY <1>6
  <2> QED BY <1>6, <2>1, <2>2, <2>3, <2>4 DEF SourcesTypeOK
<1>9. LiveOnes'
  <2>1. SUFFICES ASSUME NEW r \in requests', r.live
                 PROVE  source'[r.map].state = "waiting" /\ source'[r.map].query = r.query
    BY DEF LiveOnes
  <2>2. r.map \in Maps
    BY <1>6 DEF Request
  <2>3. CASE r.map \in ms
    BY <1>2, <1>5, <1>7, <2>1, <2>3
  <2>4. CASE r.map \notin ms
    BY <1>3, <1>7, <2>1, <2>2, <2>4 DEF LiveOnes
  <2> QED BY <2>3, <2>4
<1>10. OneLive'
  BY <1>7 DEF OneLive
<1>11. AnswersBelong'
  BY <1>2, <1>3 DEF AnswersBelong, HasSource
<1> QED BY <1>8, <1>9, <1>10, <1>11

\* A map loses its source, and the request of that its place.
LEMMA RemoveKeeps ==
  ASSUME SourcesInv, NEW m \in Maps, RemoveSource(m)
  PROVE  SourcesInv'
<1> USE DEF SourcesInv
<1>1. /\ source' = [source EXCEPT ![m] = NoSource]
      /\ requests' = WithoutSources({m})
      /\ styled' = styled
  BY DEF RemoveSource
<1>2. DOMAIN source' = Maps /\ source'[m].state = "none"
  BY <1>1 DEF SourcesTypeOK, NoSource
<1>3. \A n \in Maps \ {m} : source'[n] = source[n]
  BY <1>1 DEF SourcesTypeOK
<1>4. \A r \in requests' : /\ r \in Request
                           /\ DOMAIN r.outcome = DOMAIN Points(r.query)
                           /\ r.live => r \in requests /\ r.map # m
  BY <1>1, WithoutSourcesType
<1>5. SourcesTypeOK'
  BY <1>1, <1>2, <1>3, <1>4 DEF SourcesTypeOK, HasSource
<1>6. LiveOnes'
  BY <1>3, <1>4 DEF LiveOnes, Request
<1>7. OneLive'
  BY <1>4 DEF OneLive
<1>8. AnswersBelong'
  BY <1>2, <1>3 DEF AnswersBelong, HasSource
<1> QED BY <1>5, <1>6, <1>7, <1>8

\* A style that has been loaded stays.
LEMMA StyleKeeps ==
  ASSUME SourcesInv, NEW m \in Maps, StyleLoads(m)
  PROVE  SourcesInv' /\ \A n \in Maps : styled[n] => styled'[n]
<1>1. styled' = [styled EXCEPT ![m] = TRUE] /\ source' = source /\ requests' = requests
  BY DEF StyleLoads
<1>2. styled' \in [Maps -> BOOLEAN] /\ \A n \in Maps : styled[n] => styled'[n]
  BY <1>1 DEF SourcesInv, SourcesTypeOK
<1> QED BY <1>1, <1>2 DEF SourcesInv, SourcesTypeOK, LiveOnes, OneLive, AnswersBelong, HasSource

-----------------------------------------------------------------------------
(* The server.                                                             *)

\* A query that has got its outcome changes nothing else of its request.
LEMMA OutcomeKeeps ==
  ASSUME SourcesInv, NEW r \in requests, NEW i \in DOMAIN r.outcome,
         NEW outcome \in {"served", "refused"},
         requests' = WithOutcome(r, i, outcome), UNCHANGED <<styled, source>>
  PROVE  SourcesInv'
<1> USE DEF SourcesInv
<1> DEFINE new == [r EXCEPT !.outcome[i] = outcome]
<1>1. r \in Request /\ DOMAIN r.outcome = DOMAIN Points(r.query)
  BY DEF SourcesTypeOK
<1>2. PICK n \in Nat : DOMAIN r.outcome = 1..n
  BY <1>1, PointsOfQuery DEF Request
<1>3. new = [r EXCEPT !.outcome = [r.outcome EXCEPT ![i] = outcome]]
  OBVIOUS
<1>4. /\ new.map = r.map /\ new.live = r.live /\ new.query = r.query
      /\ new.outcome = [r.outcome EXCEPT ![i] = outcome]
  BY <1>1, <1>3 DEF Request
<1>5. new.outcome \in Seq({"asked", "served", "refused"}) /\ DOMAIN new.outcome = 1..n
  BY <1>1, <1>2, <1>4 DEF Request
<1>6. new \in Request
  BY <1>1, <1>3, <1>5 DEF Request
<1>7. requests' = (requests \ {r}) \cup {new}
  BY DEF WithOutcome
<1> HIDE DEF new
<1>8. SourcesTypeOK'
  BY <1>1, <1>2, <1>4, <1>5, <1>6, <1>7 DEF SourcesTypeOK, HasSource
<1>9. LiveOnes'
  BY <1>4, <1>7 DEF LiveOnes
<1>10. OneLive'
  BY <1>4, <1>7 DEF OneLive
<1>11. AnswersBelong'
  BY DEF AnswersBelong, HasSource
<1> QED BY <1>8, <1>9, <1>10, <1>11

\* With all its queries served, a request gets all features of its query.
LEMMA AnswerIsWhole ==
  ASSUME SourcesTypeOK, NEW r \in requests, Succeeds(r)
  PROVE  Answer(r) = Features(r.query)
<1>1. DOMAIN r.outcome = DOMAIN Points(r.query)
  BY DEF SourcesTypeOK
<1>2. {j \in DOMAIN r.outcome : r.outcome[j] = "served"} = DOMAIN Points(r.query)
  BY <1>1 DEF Succeeds
<1> QED BY <1>2 DEF Answer, Features

\* A request is over, and its source, if it is still there, is filled with
\* the whole answer or remains empty.
LEMMA EndKeeps ==
  ASSUME SourcesInv, NEW r \in requests, NEW state \in {"filled", "failed"}, NEW features,
         features = IF state = "filled" THEN Features(r.query) ELSE {},
         requests' = requests \ {r}, UNCHANGED styled,
         source' = IF r.live
                   THEN [source EXCEPT ![r.map] = [query |-> @.query, state |-> state,
                                                   features |-> features]]
                   ELSE source
  PROVE  SourcesInv' /\ SameSources
<1> USE DEF SourcesInv
<1>1. r \in Request /\ r.map \in Maps
  BY DEF SourcesTypeOK, Request
<1>2. DOMAIN source = Maps /\ DOMAIN source' = Maps
  BY DEF SourcesTypeOK
<1>3. r.live => /\ source'[r.map].query = source[r.map].query
                /\ source'[r.map].query = r.query
                /\ source'[r.map].state = state
                /\ source'[r.map].features = features
                /\ HasSource(r.map)
  BY <1>1, <1>2 DEF LiveOnes, HasSource
<1>4. \A m \in Maps : m # r.map \/ ~r.live => source'[m] = source[m]
  BY <1>1, <1>2
<1>5. SameSources
  BY <1>3, <1>4 DEF SameSources, HasSource
<1>6. SourcesTypeOK'
  <2>1. \A m \in Maps : HasSource(m)' =>
          source'[m].query \in Query /\ source'[m].state \in {"waiting", "filled", "failed"}
    BY <1>3, <1>4 DEF SourcesTypeOK, HasSource
  <2> QED BY <1>2, <2>1 DEF SourcesTypeOK
<1>7. LiveOnes'
  <2>1. SUFFICES ASSUME NEW s \in requests, s # r, s.live
                 PROVE  source'[s.map].state = "waiting" /\ source'[s.map].query = s.query
    BY DEF LiveOnes
  <2>2. s.map # r.map \/ ~r.live
    BY <2>1 DEF OneLive
  <2>3. s.map \in Maps
    BY DEF SourcesTypeOK, Request
  <2> QED BY <1>4, <2>1, <2>2, <2>3 DEF LiveOnes
<1>8. OneLive'
  BY DEF OneLive
<1>9. AnswersBelong'
  BY <1>3, <1>4 DEF AnswersBelong, HasSource
<1> QED BY <1>5, <1>6, <1>7, <1>8, <1>9

\* Every step of the server, whatever becomes of a query or a request.
LEMMA ServerKeeps ==
  ASSUME SourcesInv, ServerStep
  PROVE  SourcesInv' /\ SameSources /\ styled' = styled
<1>1. PICK r \in requests :
        \/ \E i \in DOMAIN r.outcome :
             (QueryServed(r, i) \/ QueryRefused(r, i)) /\ UNCHANGED <<styled, source>>
        \/ AnswerArrives(r)
        \/ ErrorArrives(r)
  BY DEF ServerStep
<1>2. CASE \E i \in DOMAIN r.outcome :
             (QueryServed(r, i) \/ QueryRefused(r, i)) /\ UNCHANGED <<styled, source>>
  <2>1. PICK i \in DOMAIN r.outcome :
          (QueryServed(r, i) \/ QueryRefused(r, i)) /\ UNCHANGED <<styled, source>>
    BY <1>2
  <2>2. \E outcome \in {"served", "refused"} : requests' = WithOutcome(r, i, outcome)
    BY <2>1 DEF QueryServed, QueryRefused
  <2>3. SameSources
    BY <2>1 DEF SameSources, HasSource
  <2> QED BY <2>1, <2>2, <2>3, OutcomeKeeps
<1>3. CASE AnswerArrives(r)
  <2>1. Answer(r) = Features(r.query)
    BY <1>3, AnswerIsWhole DEF AnswerArrives, SourcesInv
  <2>2. /\ requests' = requests \ {r} /\ styled' = styled
        /\ source' = IF r.live
                     THEN [source EXCEPT ![r.map] = [query |-> @.query, state |-> "filled",
                                                     features |-> Features(r.query)]]
                     ELSE source
    BY <1>3, <2>1 DEF AnswerArrives
  <2> QED BY <2>2, EndKeeps
<1>4. CASE ErrorArrives(r)
  <2>1. /\ requests' = requests \ {r} /\ styled' = styled
        /\ source' = IF r.live
                     THEN [source EXCEPT ![r.map] = [query |-> @.query, state |-> "failed",
                                                     features |-> {}]]
                     ELSE source
    BY <1>4 DEF ErrorArrives
  <2> QED BY <2>1, EndKeeps
<1> QED BY <1>1, <1>2, <1>3, <1>4

-----------------------------------------------------------------------------
(* The analysis page.                                                      *)

\* The maps of the algorithms do not include the one of the other page.
LEMMA AlgorithmMaps ==
  \A i \in DOMAIN Algorithms :
    Algorithms[i] \in Maps /\ Algorithms[i] # PredictionMap
BY MapsAssumption, AlgorithmsAssumption

\* The inputs make a time, in UTC and in local time.
LEMMA TimesAreTimes ==
  ASSUME NEW d \in Days, NEW slot \in Slots
  PROVE  /\ NormalizedTime(d, slot) \in Times
         /\ NormalizedTime(d, slot) \in Int
         /\ DateTime(d, slot) \in Int
BY InputsAssumption, ZoneAssumption DEF Times, NormalizedTime, DateTime, Hour, Minute

\* The half hours of the label, from the slider's position.
LEMMA LabelIsSlot ==
  ASSUME NEW slot \in Nat
  PROVE  /\ Label(slot).from = <<Hour(slot), Minute(slot)>>
         /\ 60 * Label(slot).to[1] + Label(slot).to[2]
              = 60 * Label(slot).from[1] + Label(slot).from[2] + 30
BY DEF Label, Hour, Minute

\* A page that shows the same sources in the same styles is none the worse.
LEMMA SourcesUnchanged ==
  ASSUME SourcesInv, UNCHANGED <<styled, source, requests>>
  PROVE  SourcesInv'
BY DEF SourcesInv, SourcesTypeOK, LiveOnes, OneLive, AnswersBelong, HasSource

\* What the analysis page does, the prediction page is not touched by.
LEMMA OtherPage ==
  ASSUME PredictionInv, UNCHANGED predictionVars,
         source'[PredictionMap] = source[PredictionMap]
  PROVE  PredictionInv'
BY DEF PredictionInv, predictionVars, PredictionTypeOK, PopupPlace, PopupOfLastClick, HasSource

\* The slider: the label, the filter and a timer follow it.
LEMMA ChangeSliderKeeps ==
  ASSUME AnalysisInv, SourcesInv, NEW slot \in Slots, ChangeSlider(slot)
  PROVE  AnalysisInv' /\ SourcesInv'
<1> USE DEF AnalysisInv
<1>1. /\ slider' = slot /\ label' = Label(slot) /\ day' = day /\ loaded' = loaded
      /\ tiles' = tiles /\ rendered' = rendered /\ timely' = timely
      /\ styled' = styled /\ source' = source /\ requests' = requests
  BY DEF ChangeSlider
<1>2. \/ /\ loaded /\ timers < MaxTimers /\ timers' = timers + 1 /\ ~dated'
         /\ dated' \in BOOLEAN /\ filter' = NormalizedTime(day, slot)
      \/ ~loaded /\ UNCHANGED <<filter, timers, dated>>
  BY DEF ChangeSlider, UpdateAllMaps, FilterBy
<1>3. AnalysisTypeOK'
  <2>1. NormalizedTime(day, slot) \in Times
    BY TimesAreTimes DEF AnalysisTypeOK
  <2>2. filter' \in Times \cup {NONE} /\ timers' \in 0..MaxTimers /\ dated' \in BOOLEAN
    BY <1>2, <2>1, TimersAssumption DEF AnalysisTypeOK
  <2> QED BY <1>1, <2>2 DEF AnalysisTypeOK
<1>4. FilterFresh'
  BY <1>1, <1>2 DEF FilterFresh
<1>5. StyledFirst' /\ SameQuestion'
  BY <1>1 DEF StyledFirst, SameQuestion, HasSource
<1>6. Agreement'
  <2>1. ~loaded \/ timers' # 0
    BY <1>2 DEF AnalysisTypeOK
  <2> QED BY <1>1, <2>1 DEF Agreement
<1> QED BY <1>1, <1>3, <1>4, <1>5, <1>6, SourcesUnchanged

\* The date picker: nothing is known of the filter any more.
LEMMA PickDateKeeps ==
  ASSUME AnalysisInv, SourcesInv, NEW d \in Days, PickDate(d)
  PROVE  AnalysisInv' /\ SourcesInv'
<1>1. /\ day' = d /\ dated' = TRUE
      /\ UNCHANGED <<slider, label, loaded, filter, tiles, rendered, timers, timely>>
      /\ UNCHANGED <<styled, source, requests>>
  BY DEF PickDate
<1>2. AnalysisTypeOK' /\ FilterFresh' /\ Agreement'
  BY <1>1 DEF AnalysisInv, AnalysisTypeOK, FilterFresh, Agreement
<1>3. StyledFirst' /\ SameQuestion'
  BY <1>1 DEF AnalysisInv, StyledFirst, SameQuestion, HasSource
<1> QED BY <1>1, <1>2, <1>3, SourcesUnchanged DEF AnalysisInv

\* The first map has loaded: its filter is that of the inputs.
LEMMA ActualLoadsKeeps ==
  ASSUME AnalysisInv, SourcesInv, ActualLoads
  PROVE  AnalysisInv' /\ SourcesInv'
<1> USE DEF AnalysisInv
<1>1. /\ loaded' = TRUE /\ timers < MaxTimers /\ timers' = timers + 1 /\ dated' = FALSE
      /\ filter' = NormalizedTime(day, slider)
      /\ UNCHANGED <<day, slider, label, tiles, rendered, timely, styled, source, requests>>
  BY DEF ActualLoads, UpdateAllMaps, FilterBy
<1>2. filter' \in Times /\ timers' \in 0..MaxTimers /\ timers' # 0
  BY <1>1, TimesAreTimes, TimersAssumption DEF AnalysisTypeOK
<1>3. AnalysisTypeOK'
  BY <1>1, <1>2 DEF AnalysisTypeOK
<1>4. FilterFresh' /\ Agreement'
  BY <1>1, <1>2 DEF FilterFresh, Agreement
<1>5. StyledFirst' /\ SameQuestion'
  BY <1>1 DEF StyledFirst, SameQuestion, HasSource
<1> QED BY <1>1, <1>3, <1>4, <1>5, SourcesUnchanged

\* Both steps of Mapbox are impossible when the first map is up to date.
LEMMA MapboxKeeps ==
  ASSUME AnalysisInv, SourcesInv, WorkerIsTold \/ TilesAreDrawn
  PROVE  AnalysisInv' /\ SourcesInv'
<1> USE DEF AnalysisInv
<1>1. UNCHANGED <<day, slider, label, dated, loaded, filter, timers, timely,
                  styled, source, requests>>
  BY DEF WorkerIsTold, TilesAreDrawn
<1>2. \/ tiles # filter /\ tiles' = filter /\ rendered' = rendered
      \/ rendered # tiles /\ rendered' = tiles /\ tiles' = tiles
  BY DEF WorkerIsTold, TilesAreDrawn
<1>3. AnalysisTypeOK'
  BY <1>1, <1>2 DEF AnalysisTypeOK
<1>4. FilterFresh' /\ Agreement'
  BY <1>1, <1>2 DEF FilterFresh, Agreement
<1>5. StyledFirst' /\ SameQuestion'
  BY <1>1 DEF StyledFirst, SameQuestion, HasSource
<1> QED BY <1>1, <1>3, <1>4, <1>5, SourcesUnchanged

\* The same places and the same time for every algorithm.
LEMMA QueryOfPage ==
  ASSUME AnalysisTypeOK, NEW m \in Maps
  PROVE  /\ AnalyzeQuery(m) \in Query
         /\ AnalyzeQuery(m).eventTime = DateTime(day, slider)
         /\ AnalyzeQuery(m).coordinates = Coordinates
<1>1. Coordinates \in Seq(Int \X Int)
  BY ShownAssumption DEF Coordinates, AnalysisTypeOK
<1>2. DateTime(day, slider) \in Int
  BY TimesAreTimes DEF AnalysisTypeOK
<1> QED BY <1>1, <1>2 DEF AnalyzeQuery, Query

\* A timer: all maps that are reached ask the same, at the same time.
LEMMA TimerFiresKeeps ==
  ASSUME AnalysisInv, SourcesInv, TimerFires
  PROVE  AnalysisInv' /\ SourcesInv' /\ source'[PredictionMap] = source[PredictionMap]
<1> USE DEF AnalysisInv
<1> DEFINE query == [m \in Reached |-> AnalyzeQuery(m)]
<1>1. /\ timers > 0 /\ timers' = timers - 1 /\ timely' = (timely /\ InTime)
      /\ UNCHANGED <<day, slider, label, dated, loaded, filter, tiles, rendered>>
  BY DEF TimerFires
<1>2. \/ Coordinates = <<>> /\ UNCHANGED <<styled, source, requests>>
      \/ Coordinates # <<>> /\ ReplaceSources(Reached, query)
  BY DEF TimerFires
<1>3. Reached \subseteq Maps /\ PredictionMap \notin Reached
  BY AlgorithmMaps DEF Reached
<1>4. \A m \in Reached : /\ query[m] \in Query
                         /\ query[m].eventTime = DateTime(day, slider)
                         /\ query[m].coordinates = Coordinates
  BY <1>3, QueryOfPage
<1>5. timers' \in 0..MaxTimers /\ timely' \in BOOLEAN
  BY <1>1, TimersAssumption DEF AnalysisTypeOK, InTime
<1>6. AnalysisTypeOK'
  BY <1>1, <1>5 DEF AnalysisTypeOK
<1>7. FilterFresh'
  BY <1>1 DEF FilterFresh
<1>8. CASE Coordinates = <<>> /\ UNCHANGED <<styled, source, requests>>
  <2>1. SourcesInv' /\ StyledFirst' /\ SameQuestion'
    BY <1>8, SourcesUnchanged DEF StyledFirst, SameQuestion, HasSource
  <2>2. timely' /\ loaded /\ ~dated => tiles = filter /\ rendered = filter /\ filter # NONE
    <3>1. timely' => tiles = filter /\ rendered = filter
      BY <1>1 DEF InTime
    <3>2. loaded /\ ~dated => filter \in Int
      BY TimesAreTimes DEF FilterFresh, AnalysisTypeOK
    <3> QED BY <3>1, <3>2, MapsAssumption
  <2>3. timely' /\ loaded /\ ~dated => Shown[filter] = <<>>
    BY <1>8, <2>2 DEF Coordinates
  <2>4. Agreement'
    BY <1>1, <2>2, <2>3 DEF Agreement
  <2> QED BY <1>6, <1>7, <1>8, <2>1, <2>4
<1>9. CASE Coordinates # <<>> /\ ReplaceSources(Reached, query)
  <2> HIDE DEF query
  <2>1. SourcesInv' /\ source'[PredictionMap] = source[PredictionMap]
    BY <1>3, <1>4, <1>9, ReplaceKeeps, PredictionMapAssumption DEF ReplaceSources
  <2>2. \A m \in Reached : source'[m].state = "waiting" /\ source'[m].query = query[m]
    BY <1>3, <1>9 DEF ReplaceSources, Waiting
  <2>3. \A m \in Maps \ Reached : source'[m] = source[m]
    BY <1>9 DEF ReplaceSources
  <2>4. styled' = styled
    BY <1>9 DEF ReplaceSources
  <2>5. \A j \in DOMAIN Algorithms :
          HasSource(Algorithms[j])' => Algorithms[j] \in Reached
    <3>1. SUFFICES ASSUME NEW j \in DOMAIN Algorithms, HasSource(Algorithms[j])',
                          Algorithms[j] \notin Reached
                   PROVE  FALSE
      OBVIOUS
    <3>2. HasSource(Algorithms[j])
      BY <2>3, <3>1, AlgorithmMaps DEF HasSource
    <3>3. \A k \in 1..j : styled[Algorithms[k]]
      BY <3>2 DEF StyledFirst
    <3> QED BY <3>1, <3>3 DEF Reached
  <2>6. \A j \in DOMAIN Algorithms : Algorithms[j] \in Reached =>
          \A k \in 1..j : styled[Algorithms[k]] /\ Algorithms[k] \in Reached
    <3>1. SUFFICES ASSUME NEW j \in DOMAIN Algorithms, Algorithms[j] \in Reached,
                          NEW k \in 1..j
                   PROVE  styled[Algorithms[k]] /\ Algorithms[k] \in Reached
      OBVIOUS
    <3>2. \A n \in 1..j : styled[Algorithms[n]]
      BY <3>1, AlgorithmsAssumption DEF Reached
    <3>3. k \in DOMAIN Algorithms /\ \A n \in 1..k : n \in 1..j
      BY <3>1, AlgorithmsAssumption
    <3> QED BY <3>2, <3>3 DEF Reached
  <2>7. StyledFirst'
    BY <2>4, <2>5, <2>6 DEF StyledFirst
  <2>8. SameQuestion'
    <3>1. SUFFICES ASSUME NEW i \in DOMAIN Algorithms, NEW j \in DOMAIN Algorithms,
                          i < j, HasSource(Algorithms[j])'
                   PROVE  /\ HasSource(Algorithms[i])'
                          /\ source'[Algorithms[i]].query.eventTime
                               = source'[Algorithms[j]].query.eventTime
                          /\ source'[Algorithms[i]].query.coordinates
                               = source'[Algorithms[j]].query.coordinates
      BY DEF SameQuestion
    <3>2. i \in 1..j
      BY <3>1, AlgorithmsAssumption
    <3>3. Algorithms[i] \in Reached /\ Algorithms[j] \in Reached
      BY <2>5, <2>6, <3>1, <3>2
    <3> QED BY <1>4, <2>2, <3>3 DEF HasSource
  <2>9. Agreement'
    <3>1. SUFFICES ASSUME timely', loaded, timers' = 0, ~dated
                   PROVE  /\ tiles = filter /\ rendered = filter
                          /\ Shown[filter] # <<>> =>
                               \A i \in DOMAIN Algorithms :
                                 /\ HasSource(Algorithms[i])'
                                 /\ source'[Algorithms[i]].query.eventTime = filter + Zone[day]
                                 /\ source'[Algorithms[i]].query.coordinates = Shown[filter]
      BY <1>1 DEF Agreement
    <3>2. tiles = filter /\ rendered = filter /\ \A i \in DOMAIN Algorithms : styled[Algorithms[i]]
      BY <1>1, <3>1 DEF InTime
    <3>3. filter = NormalizedTime(day, slider) /\ filter # NONE
      BY <3>1, TimesAreTimes, MapsAssumption DEF FilterFresh, AnalysisTypeOK
    <3>4. Coordinates = Shown[filter] /\ DateTime(day, slider) = filter + Zone[day]
      BY <3>2, <3>3 DEF Coordinates, DateTime
    <3>5. \A i \in DOMAIN Algorithms : Algorithms[i] \in Reached
      BY <3>2, AlgorithmsAssumption DEF Reached
    <3> QED BY <1>4, <2>2, <3>2, <3>4, <3>5 DEF HasSource
  <2> QED BY <1>6, <1>7, <2>1, <2>7, <2>8, <2>9
<1> QED BY <1>2, <1>8, <1>9

\* A style and a step of the server only concern the sources.
LEMMA OthersKeepAnalysis ==
  ASSUME AnalysisInv, SameSources, \A m \in Maps : styled[m] => styled'[m],
         UNCHANGED analysisVars
  PROVE  AnalysisInv'
<1> USE DEF AnalysisInv, analysisVars
<1>1. \A i \in DOMAIN Algorithms :
        /\ HasSource(Algorithms[i])' <=> HasSource(Algorithms[i])
        /\ HasSource(Algorithms[i]) =>
             source'[Algorithms[i]].query = source[Algorithms[i]].query
        /\ styled[Algorithms[i]] => styled'[Algorithms[i]]
  BY AlgorithmMaps DEF SameSources
<1>2. AnalysisTypeOK' /\ FilterFresh'
  BY DEF AnalysisTypeOK, FilterFresh
<1>3. StyledFirst'
  <2>1. \A j \in DOMAIN Algorithms : \A k \in 1..j : k \in DOMAIN Algorithms
    BY AlgorithmsAssumption
  <2> QED BY <1>1, <2>1 DEF StyledFirst
<1>4. SameQuestion'
  BY <1>1 DEF SameQuestion
<1>5. Agreement'
  BY <1>1 DEF Agreement
<1> QED BY <1>2, <1>3, <1>4, <1>5

-----------------------------------------------------------------------------
(* The prediction page.                                                    *)

\* A place is one of the points around it.
LEMMA PlaceIsAround ==
  ASSUME NEW p \in Int \X Int
  PROVE  p \in Around(p)
<1>1. 1 \in 1..ClusterSize /\ ClusterOffsets[1] = <<0, 0>>
  BY ClusterAssumption DEF ClusterOffsets
<1>2. MakeCluster(p)[1] = <<p[1] + 0, p[2] + 0>>
  BY <1>1 DEF MakeCluster
<1>3. p = <<p[1] + 0, p[2] + 0>>
  OBVIOUS
<1> QED BY <1>1, <1>2, <1>3 DEF Around

\* Whatever is found in the source is a prediction around the last click.
LEMMA FeaturesAround ==
  ASSUME PopupPlace, SourcesInv, NEW f \in SourceFeatures
  PROVE  /\ f.at \in Around(place) /\ popup.at \in Around(place)
         /\ \E c \in Around(place) :
              f.demand.query.lng = c[1] /\ f.demand.query.lat = c[2]
<1> DEFINE query == source[PredictionMap].query
<1>1. HasSource(PredictionMap) /\ f \in source[PredictionMap].features
  BY DEF SourceFeatures
<1>2. f \in Features(query)
  BY <1>1, PredictionMapAssumption DEF SourcesInv, AnswersBelong
<1>3. query.route = "predict" /\ query.place = place /\ popup.at \in Around(place)
  BY <1>1 DEF PopupPlace
<1>4. PICK i \in DOMAIN Points(query) : f = Feature(query, Points(query)[i])
  BY <1>2 DEF Features
<1>5. Points(query) = MakeCluster(place) /\ i \in 1..ClusterSize
  BY <1>3, <1>4 DEF Points, MakeCluster
<1> DEFINE c == MakeCluster(place)[i]
<1>6. c \in Around(place)
  BY <1>5 DEF Around
<1>7. f.at = c /\ f.demand.query = PioQuery(query, c)
  BY <1>4, <1>5 DEF Feature
<1>8. PioQuery(query, c).lng = c[1] /\ PioQuery(query, c).lat = c[2]
  BY <1>3 DEF PioQuery
<1> QED BY <1>3, <1>6, <1>7, <1>8

\* The inputs change nothing but what the next click asks.
LEMMA ChangeInputKeeps ==
  ASSUME PredictionInv, SourcesInv, NEW f \in Field, NEW value \in Entered[f],
         ChangeInput(f, value)
  PROVE  PredictionInv' /\ SourcesInv'
<1>1. inputs' = [inputs EXCEPT ![f] = value] /\ UNCHANGED <<place, popup, dataDue, styled, source, requests>>
  BY DEF ChangeInput
<1>2. inputs' \in Inputs
  BY <1>1 DEF PredictionInv, PredictionTypeOK, Inputs, Field
<1> QED BY <1>1, <1>2, SourcesUnchanged
        DEF PredictionInv, PredictionTypeOK, PopupPlace, PopupOfLastClick, HasSource

\* A click: the new source, or none, belongs to the new place.
LEMMA ClickKeeps ==
  ASSUME PredictionInv, SourcesInv, NEW p \in Places, Click(p)
  PROVE  /\ PredictionInv' /\ SourcesInv' /\ styled' = styled
         /\ \A m \in Maps \ {PredictionMap} : source'[m] = source[m]
<1>1. inputs' = inputs /\ place' = p /\ popup' = [at |-> p, says |-> NONE]
  BY DEF Click, ClosedPopup
<1>2. p \in Around(p)
  BY PlacesAssumption, PlaceIsAround
<1>3. PredictionTypeOK' /\ PopupOfLastClick'
  <2>1. dataDue' \in BOOLEAN
    BY DEF Click, PredictionInv, PredictionTypeOK
  <2> QED BY <1>1, <2>1 DEF PredictionInv, PredictionTypeOK, PopupOfLastClick
<1>4. PredictQuery(p) \in Query
  BY DEF PredictQuery, Query, PredictionInv, PredictionTypeOK
<1> DEFINE query == [m \in {PredictionMap} |-> PredictQuery(p)]
<1>5. CASE ReplaceSources({PredictionMap}, query)
  <2>1. SourcesInv'
    BY <1>4, <1>5, ReplaceKeeps, PredictionMapAssumption
  <2>2. /\ source'[PredictionMap].query = PredictQuery(p) /\ styled' = styled
        /\ \A m \in Maps \ {PredictionMap} : source'[m] = source[m]
    BY <1>5, PredictionMapAssumption DEF ReplaceSources, Waiting
  <2>3. PopupPlace'
    BY <1>1, <1>2, <2>2 DEF PopupPlace, PredictQuery
  <2> QED BY <1>3, <2>1, <2>2, <2>3 DEF PredictionInv
<1>6. CASE RemoveSource(PredictionMap)
  <2>1. SourcesInv'
    BY <1>6, RemoveKeeps, PredictionMapAssumption
  <2>2. /\ source'[PredictionMap].state = "none" /\ styled' = styled
        /\ \A m \in Maps \ {PredictionMap} : source'[m] = source[m]
    BY <1>6, PredictionMapAssumption DEF RemoveSource, NoSource, SourcesInv, SourcesTypeOK
  <2>3. PopupPlace'
    BY <2>2 DEF PopupPlace, HasSource
  <2> QED BY <1>3, <2>1, <2>2, <2>3 DEF PredictionInv
<1> QED BY <1>5, <1>6 DEF Click

\* The popup is only written by what is found in the source.
LEMMA PopupKeeps ==
  ASSUME PredictionInv, SourcesInv, dataDue' \in BOOLEAN,
         UNCHANGED <<inputs, place, styled, source, requests>>,
         \/ popup' = [popup EXCEPT !.says = NONE]
         \/ \E f \in SourceFeatures : popup' = [popup EXCEPT !.says = f.demand]
         \/ \E f \in SourceFeatures : popup' = [at |-> f.at, says |-> f.demand]
  PROVE  PredictionInv' /\ SourcesInv'
<1>1. PredictionTypeOK' /\ DOMAIN popup = {"at", "says"}
  BY DEF PredictionInv, PredictionTypeOK
<1>2. PopupPlace' /\ PopupOfLastClick'
  <2>1. CASE popup' = [popup EXCEPT !.says = NONE]
    <3>1. popup'.at = popup.at /\ popup'.says = NONE
      BY <1>1, <2>1
    <3> QED BY <3>1 DEF PredictionInv, PopupPlace, PopupOfLastClick, HasSource
  <2>2. CASE \E f \in SourceFeatures : popup' = [popup EXCEPT !.says = f.demand]
    <3>1. PICK f \in SourceFeatures : popup' = [popup EXCEPT !.says = f.demand]
      BY <2>2
    <3>2. popup'.at = popup.at /\ popup'.says = f.demand
      BY <1>1, <3>1
    <3>3. /\ popup.at \in Around(place)
          /\ \E c \in Around(place) :
               f.demand.query.lng = c[1] /\ f.demand.query.lat = c[2]
      BY FeaturesAround DEF PredictionInv
    <3> QED BY <3>2, <3>3 DEF PredictionInv, PopupPlace, PopupOfLastClick, HasSource
  <2>3. CASE \E f \in SourceFeatures : popup' = [at |-> f.at, says |-> f.demand]
    <3>1. PICK f \in SourceFeatures : popup' = [at |-> f.at, says |-> f.demand]
      BY <2>3
    <3>2. popup'.at = f.at /\ popup'.says = f.demand
      BY <3>1
    <3>3. /\ f.at \in Around(place)
          /\ \E c \in Around(place) :
               f.demand.query.lng = c[1] /\ f.demand.query.lat = c[2]
      BY FeaturesAround DEF PredictionInv
    <3> QED BY <3>2, <3>3 DEF PredictionInv, PopupPlace, PopupOfLastClick, HasSource
  <2> QED BY <2>1, <2>2, <2>3
<1> QED BY <1>1, <1>2, SourcesUnchanged DEF PredictionInv

\* The same for the prediction page.
LEMMA OthersKeepPrediction ==
  ASSUME PredictionInv, SameSources, UNCHANGED <<inputs, place, popup>>,
         dataDue' \in BOOLEAN
  PROVE  PredictionInv'
<1>1. /\ HasSource(PredictionMap)' <=> HasSource(PredictionMap)
      /\ HasSource(PredictionMap) =>
           source'[PredictionMap].query = source[PredictionMap].query
  BY PredictionMapAssumption DEF SameSources
<1> QED BY <1>1 DEF PredictionInv, PredictionTypeOK, PopupPlace, PopupOfLastClick

-----------------------------------------------------------------------------
(* The pages together.                                                     *)

\* A page that starts anew has no source and no popup.
LEMMA FreshPage ==
  SourcesInit /\ AnalysisInit /\ PredictionInit => SourcesInv /\ AnalysisInv /\ PredictionInv
<1> SUFFICES ASSUME SourcesInit, AnalysisInit, PredictionInit
             PROVE  SourcesInv /\ AnalysisInv /\ PredictionInv
  OBVIOUS
<1>1. SourcesInv
  <2>1. \A m \in Maps : source[m].state = "none"
    BY DEF SourcesInit, NoSource
  <2> QED BY <2>1 DEF SourcesInit, SourcesInv, SourcesTypeOK, LiveOnes, OneLive, AnswersBelong,
                      HasSource
<1>2. \A i \in DOMAIN Algorithms : ~HasSource(Algorithms[i])
  BY AlgorithmMaps DEF SourcesInit, NoSource, HasSource
<1>3. AnalysisInv
  <2>1. Label(0) = [from |-> <<0, 0>>, to |-> <<0, 30>>]
    BY DEF Label
  <2>2. AnalysisTypeOK
    <3>1. day \in Days /\ slider \in Slots /\ timers \in 0..MaxTimers
      BY InputsAssumption, TimersAssumption DEF AnalysisInit
    <3>2. label = Label(slider)
      BY <2>1 DEF AnalysisInit
    <3>3. dated \in BOOLEAN /\ loaded \in BOOLEAN /\ timely \in BOOLEAN
      BY DEF AnalysisInit
    <3>4. {filter, tiles, rendered} \subseteq Times \cup {NONE}
      BY DEF AnalysisInit
    <3> QED BY <3>1, <3>2, <3>3, <3>4 DEF AnalysisTypeOK
  <2> QED BY <1>2, <2>2 DEF AnalysisInv, AnalysisInit, FilterFresh, StyledFirst, SameQuestion,
                            Agreement
<1>4. PredictionInv
  <2>1. ~HasSource(PredictionMap)
    BY PredictionMapAssumption DEF SourcesInit, NoSource, HasSource
  <2> QED BY <2>1 DEF PredictionInv, PredictionInit, PredictionTypeOK, Inputs, PopupPlace,
                      PopupOfLastClick
<1> QED BY <1>1, <1>3, <1>4

\* Both pages begin as one that has just been opened.
LEMMA InitInv == Init => IInv
BY FreshPage DEF Init, IInv

\* Opening a page leaves nothing of the former one.
LEMMA OpenKeeps ==
  ASSUME NEW p \in Page, Open(p)
  PROVE  IInv'
<1>1. Label(0) = [from |-> <<0, 0>>, to |-> <<0, 30>>]
  BY DEF Label
<1>2. SourcesInit' /\ AnalysisInit' /\ PredictionInit' /\ page' \in Page
  BY <1>1 DEF Open, SourcesInit, AnalysisInit, PredictionInit
<1>3. SourcesInv' /\ AnalysisInv' /\ PredictionInv'
  BY <1>2, FreshPage, PTL
<1> QED BY <1>2, <1>3 DEF IInv

\* The steps of the analysis page, one by one.
LEMMA AnalysisKeeps ==
  ASSUME IInv, OnAnalysis(AnalysisStep)
  PROVE  IInv'
<1> USE DEF IInv
<1>1. page' = page /\ UNCHANGED predictionVars /\ AnalysisStep
  BY DEF OnAnalysis
<1>2. ASSUME source' = source
      PROVE  PredictionInv'
  BY <1>1, <1>2, OtherPage
<1>3. CASE AnalysisUser
  <2>1. source' = source
    BY <1>3 DEF AnalysisUser, ChangeSlider, PickDate
  <2> QED BY <1>1, <1>2, <1>3, <2>1, ChangeSliderKeeps, PickDateKeeps DEF AnalysisUser
<1>4. CASE ActualLoads
  <2>1. source' = source
    BY <1>4 DEF ActualLoads
  <2> QED BY <1>1, <1>2, <1>4, <2>1, ActualLoadsKeeps
<1>5. CASE WorkerIsTold \/ TilesAreDrawn
  <2>1. source' = source
    BY <1>5 DEF WorkerIsTold, TilesAreDrawn
  <2> QED BY <1>1, <1>2, <1>5, <2>1, MapboxKeeps
<1>6. CASE TimerFires
  BY <1>1, <1>6, TimerFiresKeeps, OtherPage
<1>7. CASE \E i \in DOMAIN Algorithms : StyleLoads(Algorithms[i]) /\ UNCHANGED analysisVars
  <2>1. PICK i \in DOMAIN Algorithms : StyleLoads(Algorithms[i]) /\ UNCHANGED analysisVars
    BY <1>7
  <2>2. source' = source /\ SameSources
    BY <2>1 DEF StyleLoads, SameSources, HasSource
  <2>3. SourcesInv' /\ \A n \in Maps : styled[n] => styled'[n]
    BY <2>1, StyleKeeps, AlgorithmMaps
  <2> QED BY <1>1, <1>2, <2>1, <2>2, <2>3, OthersKeepAnalysis
<1>8. CASE ServerStep /\ UNCHANGED analysisVars
  <2>1. UNCHANGED <<inputs, place, popup>> /\ dataDue' \in BOOLEAN
    BY <1>1 DEF predictionVars, PredictionInv, PredictionTypeOK
  <2> QED BY <1>1, <1>8, <2>1, ServerKeeps, OthersKeepAnalysis, OthersKeepPrediction
<1> QED BY <1>1, <1>3, <1>4, <1>5, <1>6, <1>7, <1>8 DEF AnalysisStep

\* Whatever Mapbox's order is, the nearest feature is one of the source.
LEMMA MouseMoveWrites ==
  ASSUME NEW mouse, MouseMove(mouse)
  PROVE  \/ popup' = [popup EXCEPT !.says = NONE]
         \/ \E f \in SourceFeatures : popup' = [at |-> f.at, says |-> f.demand]
<1>1. PICK demands \in SetToSeqs(SourceFeatures) :
        \/ popup' = [popup EXCEPT !.says = NONE]
        \/ \E i \in DOMAIN demands :
             popup' = [at |-> demands[i].at, says |-> demands[i].demand]
  BY DEF MouseMove
<1>2. \A i \in DOMAIN demands : demands[i] \in SourceFeatures
  BY DEF SetToSeqs
<1> QED BY <1>1, <1>2

\* The steps of the prediction page, one by one.
LEMMA PredictionKeeps ==
  ASSUME IInv, OnPrediction(PredictionStep)
  PROVE  IInv'
<1> USE DEF IInv
<1>1. page' = page /\ UNCHANGED analysisVars /\ PredictionStep
  BY DEF OnPrediction
<1>2. ASSUME \A m \in Maps \ {PredictionMap} : source'[m] = source[m],
             \A m \in Maps : styled[m] => styled'[m]
      PROVE  AnalysisInv'
  <2>1. \A i \in DOMAIN Algorithms :
          /\ source'[Algorithms[i]] = source[Algorithms[i]]
          /\ styled[Algorithms[i]] => styled'[Algorithms[i]]
    BY <1>2, AlgorithmMaps
  <2>2. \A j \in DOMAIN Algorithms : \A k \in 1..j : k \in DOMAIN Algorithms
    BY AlgorithmsAssumption
  <2>3. AnalysisTypeOK' /\ FilterFresh'
    BY <1>1 DEF analysisVars, AnalysisInv, AnalysisTypeOK, FilterFresh
  <2>4. StyledFirst' /\ SameQuestion'
    BY <2>1, <2>2 DEF AnalysisInv, StyledFirst, SameQuestion, HasSource
  <2>5. Agreement'
    BY <1>1, <2>1 DEF analysisVars, AnalysisInv, Agreement, HasSource
  <2> QED BY <2>3, <2>4, <2>5 DEF AnalysisInv
<1>3. ASSUME dataDue' \in BOOLEAN, UNCHANGED <<inputs, place, styled, source, requests>>,
             \/ popup' = [popup EXCEPT !.says = NONE]
             \/ \E f \in SourceFeatures : popup' = [popup EXCEPT !.says = f.demand]
             \/ \E f \in SourceFeatures : popup' = [at |-> f.at, says |-> f.demand]
      PROVE  IInv'
  BY <1>1, <1>2, <1>3, PopupKeeps
<1>4. CASE \E f \in Field : \E value \in Entered[f] : ChangeInput(f, value)
  <2>1. source' = source /\ styled' = styled
    BY <1>4 DEF ChangeInput
  <2> QED BY <1>1, <1>2, <1>4, <2>1, ChangeInputKeeps
<1>5. CASE \E p \in Places : Click(p)
  BY <1>1, <1>2, <1>5, ClickKeeps
<1>6. CASE \E m \in Spots : MouseMove(m)
  <2>1. PICK m \in Spots : MouseMove(m)
    BY <1>6
  <2>2. UNCHANGED <<inputs, place, styled, source, requests>> /\ dataDue' \in BOOLEAN
    BY <2>1 DEF MouseMove, PredictionInv, PredictionTypeOK
  <2> QED BY <1>3, <2>1, <2>2, MouseMoveWrites
<1>7. CASE ClosePopup
  BY <1>3, <1>7 DEF ClosePopup, PredictionInv, PredictionTypeOK
<1>8. CASE DataEvent
  <2>1. UNCHANGED <<inputs, place, styled, source, requests>> /\ dataDue' \in BOOLEAN
    BY <1>8 DEF DataEvent
  <2>2. CASE SourceFeatures = {} /\ UNCHANGED popup
    <3>1. SameSources
      BY <2>1 DEF SameSources, HasSource
    <3> QED BY <1>1, <1>2, <2>1, <2>2, <3>1, SourcesUnchanged, OthersKeepPrediction
  <2>3. CASE \E f \in SourceFeatures : popup' = Says(f.demand)
    BY <1>3, <2>1, <2>3 DEF Says
  <2> QED BY <1>8, <2>2, <2>3 DEF DataEvent
<1>9. CASE StyleArrives
  <2>1. source' = source /\ SameSources
    BY <1>9 DEF StyleArrives, StyleLoads, SameSources, HasSource
  <2>2. SourcesInv' /\ \A n \in Maps : styled[n] => styled'[n]
    BY <1>9, StyleKeeps, PredictionMapAssumption DEF StyleArrives
  <2>3. UNCHANGED <<inputs, place, popup>> /\ dataDue' \in BOOLEAN
    BY <1>9 DEF StyleArrives
  <2> QED BY <1>1, <1>2, <2>1, <2>2, <2>3, OthersKeepPrediction
<1>10. CASE TilesArrive
  <2>1. /\ UNCHANGED <<inputs, place, popup, styled, source, requests>>
        /\ dataDue' \in BOOLEAN
    BY <1>10 DEF TilesArrive
  <2>2. SameSources
    BY <2>1 DEF SameSources, HasSource
  <2> QED BY <1>1, <1>2, <2>1, <2>2, SourcesUnchanged, OthersKeepPrediction
<1>11. CASE PredictionArrives
  <2>1. ServerStep /\ UNCHANGED <<inputs, place, popup>> /\ dataDue' \in BOOLEAN
    BY <1>11 DEF PredictionArrives, PredictionInv, PredictionTypeOK
  <2> QED BY <1>1, <2>1, ServerKeeps, OthersKeepAnalysis, OthersKeepPrediction
<1> QED BY <1>1, <1>4, <1>5, <1>6, <1>7, <1>8, <1>9, <1>10, <1>11
        DEF PredictionStep, PredictionUser

\* Nothing happens.
LEMMA StutterKeeps ==
  ASSUME IInv, UNCHANGED vars
  PROVE  IInv'
<1>1. SameSources /\ UNCHANGED <<page, analysisVars, predictionVars, styled, source, requests>>
  BY DEF vars, SameSources, HasSource
<1>2. UNCHANGED <<inputs, place, popup>> /\ (IInv => dataDue' \in BOOLEAN)
  BY <1>1 DEF predictionVars, IInv, PredictionInv, PredictionTypeOK
<1> QED BY <1>1, <1>2, SourcesUnchanged, OthersKeepAnalysis, OthersKeepPrediction DEF IInv

\* The inductive invariant holds.
THEOREM Inductive == Spec => []IInv
<1>1. IInv /\ [Next]_vars => IInv'
  BY OpenKeeps, AnalysisKeeps, PredictionKeeps, StutterKeeps DEF Next
<1> QED BY InitInv, <1>1, PTL DEF Spec

-----------------------------------------------------------------------------
(* The loop of findNearestIndex is a recursive function.  That there is    *)
(* such a function, and what it is, is shown by induction over the turns.  *)

\* Induction over the natural numbers, for sets.
Less == {ss \in Nat \X Nat : ss[1] < ss[2]}

\* The numbers are well-founded.
LEMMA LessWF == IsWellFoundedOn(Less, Nat)
  BY NatLessThanWellFounded DEF OpToRel, Less

\* A set with 0 and with the successors of its numbers has all numbers.
LEMMA NatSetInduction ==
  ASSUME NEW S, 0 \in S, \A n \in Nat : n \in S => n + 1 \in S
  PROVE  Nat \subseteq S
<1> SUFFICES ASSUME Nat \ S # {} PROVE FALSE
  OBVIOUS
<1>1. PICK x \in Nat \ S : \A y \in Nat \ S : ~(<<y, x>> \in Less)
  <2>1. Nat \ S \subseteq Nat
    OBVIOUS
  <2> QED BY <2>1, LessWF, WFMin
<1>2. x # 0 /\ x - 1 \in Nat /\ <<x - 1, x>> \in Less
  BY <1>1 DEF Less
<1>3. x - 1 \in S
  BY <1>1, <1>2
<1> QED BY <1>1, <1>2, <1>3

\* How far the i-th of the demands is, and one more turn of the loop for each.
DistanceOf(demands, mouse, i) == Distance(demands[i].at, mouse)

Loop(demands, mouse, f) ==
  [i \in DOMAIN demands |->
     IF i = 1 THEN 1
     ELSE IF DistanceOf(demands, mouse, i) < DistanceOf(demands, mouse, f[i - 1])
          THEN i ELSE f[i - 1]]

\* The first n turns of the loop.
Turns(n, demands, mouse, f) ==
  \A i \in 1..n :
    f[i] = IF i = 1 THEN 1
           ELSE IF DistanceOf(demands, mouse, i) < DistanceOf(demands, mouse, f[i - 1])
                THEN i ELSE f[i - 1]

\* The loop can be told by a function.
LEMMA LoopExists ==
  ASSUME NEW n \in Nat, NEW demands, DOMAIN demands = 1..n, NEW mouse
  PROVE  \E f : f = Loop(demands, mouse, f)
<1> DEFINE Can == {k \in Nat : \E f \in [1..k -> Nat] : Turns(k, demands, mouse, f)}
<1>1. 0 \in Can
  <2>1. /\ [i \in 1..0 |-> 0] \in [1..0 -> Nat]
        /\ Turns(0, demands, mouse, [i \in 1..0 |-> 0])
    BY DEF Turns
  <2> QED BY <2>1
<1>2. ASSUME NEW k \in Nat, k \in Can
      PROVE  k + 1 \in Can
  <2>1. PICK f \in [1..k -> Nat] : Turns(k, demands, mouse, f)
    BY <1>2
  <2> DEFINE Far(i) == DistanceOf(demands, mouse, i)
             next == IF k + 1 = 1 THEN 1 ELSE IF Far(k + 1) < Far(f[k]) THEN k + 1 ELSE f[k]
             g == [i \in 1..k + 1 |-> IF i \in 1..k THEN f[i] ELSE next]
  <2>2. next \in Nat
    OBVIOUS
  <2>3. g \in [1..k + 1 -> Nat] /\ \A i \in 1..k : g[i] = f[i]
    BY <2>2
  <2>4. g[k + 1] = next
    OBVIOUS
  <2>5. Turns(k + 1, demands, mouse, g)
    <3> SUFFICES ASSUME NEW i \in 1..k + 1
                 PROVE  g[i] = IF i = 1 THEN 1
                               ELSE IF Far(i) < Far(g[i - 1]) THEN i ELSE g[i - 1]
      BY DEF Turns
    <3> HIDE DEF g
    <3>1. CASE i \in 1..k
      <4>1. i # 1 => g[i - 1] = f[i - 1]
        BY <2>3, <3>1
      <4> QED BY <2>1, <2>3, <3>1, <4>1 DEF Turns
    <3>2. CASE i = k + 1
      <4>1. i # 1 => g[i - 1] = f[k]
        BY <2>3, <3>2
      <4> QED BY <2>4, <3>2, <4>1
    <3> QED BY <3>1, <3>2
  <2> QED BY <2>3, <2>5
<1> HIDE DEF Can
<1>3. n \in Can
  BY <1>1, <1>2, NatSetInduction
<1>4. PICK f \in [1..n -> Nat] : Turns(n, demands, mouse, f)
  BY <1>3 DEF Can
<1>5. f = Loop(demands, mouse, f)
  BY <1>4 DEF Turns, Loop
<1> QED BY <1>5

\* After each turn none of the demands seen is nearer than the one kept.
LEMMA KeepsNearest ==
  ASSUME NEW n \in Nat, NEW demands, NEW mouse,
         \A i \in 1..n : DistanceOf(demands, mouse, i) \in Int,
         NEW f, Turns(n, demands, mouse, f)
  PROVE  \A i \in 1..n :
           /\ f[i] \in 1..i
           /\ \A j \in 1..i : DistanceOf(demands, mouse, f[i]) <= DistanceOf(demands, mouse, j)
<1> DEFINE Far(i) == DistanceOf(demands, mouse, i)
           Good == {k \in Nat : k + 1 \in 1..n =>
                      f[k + 1] \in 1..k + 1 /\ \A j \in 1..k + 1 : Far(f[k + 1]) <= Far(j)}
<1>1. 0 \in Good
  <2> SUFFICES ASSUME 1 \in 1..n PROVE f[1] \in 1..1 /\ \A j \in 1..1 : Far(f[1]) <= Far(j)
    OBVIOUS
  <2>1. f[1] = 1
    BY DEF Turns
  <2> QED BY <2>1
<1>2. ASSUME NEW k \in Nat, k \in Good
      PROVE  k + 1 \in Good
  <2> SUFFICES ASSUME k + 2 \in 1..n
               PROVE  f[k + 2] \in 1..k + 2 /\ \A j \in 1..k + 2 : Far(f[k + 2]) <= Far(j)
    OBVIOUS
  <2>1. f[k + 1] \in 1..k + 1 /\ \A j \in 1..k + 1 : Far(f[k + 1]) <= Far(j)
    BY <1>2
  <2>2. f[k + 2] = IF Far(k + 2) < Far(f[k + 1]) THEN k + 2 ELSE f[k + 1]
    BY DEF Turns
  <2>3. \A j \in 1..k + 2 : Far(j) \in Int /\ (j \in 1..k + 1 \/ j = k + 2)
    OBVIOUS
  <2> QED BY <2>1, <2>2, <2>3
<1> HIDE DEF Good
<1>3. Nat \subseteq Good
  BY <1>1, <1>2, NatSetInduction
<1> SUFFICES ASSUME NEW i \in 1..n
             PROVE  f[i] \in 1..i /\ \A j \in 1..i : Far(f[i]) <= Far(j)
  OBVIOUS
<1>4. i - 1 \in Good
  BY <1>3
<1> QED BY <1>4 DEF Good

\* The loop, over demands that are all at places.
LEMMA FindsNearest ==
  ASSUME NEW n \in Nat \ {0}, NEW demands, DOMAIN demands = 1..n, Len(demands) = n,
         NEW mouse \in Int \X Int, \A i \in 1..n : demands[i].at \in Int \X Int
  PROVE  LET found == FindNearestIndex(demands, mouse)
             Dist(i) == Distance(demands[i].at, mouse)
         IN  IF found = 0
             THEN \A i \in DOMAIN demands : Dist(i) > Threshold
             ELSE /\ found \in DOMAIN demands /\ Dist(found) <= Threshold
                  /\ \A i \in DOMAIN demands : Dist(found) <= Dist(i)
<1> DEFINE Far(i) == DistanceOf(demands, mouse, i)
           index == CHOOSE f : f = Loop(demands, mouse, f)
           last == index[n]
           found == FindNearestIndex(demands, mouse)
<1> n \in Nat /\ n \in 1..n
  OBVIOUS
<1>1. found = IF Far(last) > Threshold THEN 0 ELSE last
  BY DEF FindNearestIndex, Loop, DistanceOf
<1>2. \A i \in 1..n : Far(i) \in Int
  BY DEF DistanceOf, Distance
<1>3. index = Loop(demands, mouse, index)
  BY LoopExists
<1> HIDE DEF index
<1>4. Turns(n, demands, mouse, index)
  BY <1>3 DEF Turns, Loop
<1>5. last \in 1..n /\ \A i \in 1..n : Far(last) <= Far(i)
  BY <1>2, <1>4, KeepsNearest
<1> HIDE DEF last, found
<1>6. IF found = 0 THEN \A i \in 1..n : Far(i) > Threshold
      ELSE found \in 1..n /\ Far(found) <= Threshold /\ \A i \in 1..n : Far(found) <= Far(i)
  BY <1>1, <1>2, <1>5 DEF Threshold
<1> QED BY <1>6 DEF found, DistanceOf
\* Mapbox returns finitely many features, each at a place, in some order.
LEMMA DemandsArePlaces ==
  ASSUME IInv, NEW demands \in SetToSeqs(SourceFeatures)
  PROVE  \E n \in Nat :
           /\ DOMAIN demands = 1..n /\ Len(demands) = n
           /\ \A i \in 1..n : demands[i].at \in Int \X Int
<1> DEFINE query == source[PredictionMap].query
           n == Cardinality(SourceFeatures)
<1>1. CASE ~HasSource(PredictionMap)
  <2>1. SourceFeatures = {} /\ n = 0
    BY <1>1, FS_EmptySet DEF SourceFeatures
  <2> QED BY <2>1 DEF SetToSeqs
<1>2. CASE HasSource(PredictionMap)
  <2>1. query.route = "predict" /\ query.place = place
    BY <1>2 DEF IInv, PredictionInv, PopupPlace
  <2>2. place \in Int \X Int
    BY PlacesAssumption DEF IInv, PredictionInv, PredictionTypeOK
  <2>3. SourceFeatures \subseteq Features(query)
    BY <1>2, PredictionMapAssumption DEF SourceFeatures, IInv, SourcesInv, AnswersBelong
  <2>4. Points(query) = MakeCluster(place) /\ DOMAIN Points(query) = 1..ClusterSize
    BY <2>1 DEF Points, MakeCluster
  <2>5. IsFiniteSet(Features(query))
    <3>1. IsFiniteSet(1..ClusterSize)
      BY FS_Interval, ClusterAssumption
    <3> DEFINE feature == [i \in 1..ClusterSize |-> Feature(query, Points(query)[i])]
    <3>2. feature \in Surjection(1..ClusterSize, Features(query))
      BY <2>4 DEF Features, Surjection
    <3> QED BY <3>1, <3>2, FS_Surjection
  <2>6. n \in Nat
    BY <2>3, <2>5, FS_Subset, FS_CardinalityType
  <2>7. \A f \in Features(query) : f.at \in Int \X Int
    <3>1. \A i \in 1..ClusterSize : MakeCluster(place)[i] \in Int \X Int
      BY <2>2, ClusterAssumption DEF MakeCluster, ClusterOffsets
    <3> QED BY <2>4, <3>1 DEF Features, Feature
  <2>8. demands \in [1..n -> SourceFeatures]
    BY DEF SetToSeqs
  <2> HIDE DEF n
  <2>9. DOMAIN demands = 1..n /\ Len(demands) = n
    BY <2>6, <2>8
  <2> QED BY <2>3, <2>6, <2>7, <2>8, <2>9
<1> QED BY <1>1, <1>2

-----------------------------------------------------------------------------
(* What follows from it.                                                   *)

\* Every value is one that the code uses.
THEOREM TypeCorrect == Spec => []TypeOK
<1>1. IInv => TypeOK
  BY DEF IInv, SourcesInv, AnalysisInv, PredictionInv, TypeOK
<1> QED BY Inductive, <1>1, PTL

\* No map ever shows the answer to another question than its own, or a part
\* of it, with any number of requests answered and refused in any order.
THEOREM AnswersAlwaysBelong == Spec => []AnswersBelong
<1>1. IInv => AnswersBelong
  BY DEF IInv, SourcesInv
<1> QED BY Inductive, <1>1, PTL

\* The predictions that can be compared are predictions of the same thing,
\* whichever style loads first.
THEOREM AlwaysSameQuestion == Spec => []SameQuestion
<1>1. IInv => SameQuestion
  BY DEF IInv, AnalysisInv
<1> QED BY Inductive, <1>1, PTL

\* If the delays were long enough, all algorithms end up with the places and
\* the time of the first map.
THEOREM MapsAlwaysAgree == Spec => []MapsAgree
<1>1. IInv => MapsAgree
  BY DEF IInv, AnalysisInv, Agreement, MapsAgree
<1> QED BY Inductive, <1>1, PTL

\* The label is that of the slider, for each of its 48 positions.
THEOREM LabelAlwaysTellsSlot == Spec => []LabelTellsSlot
<1>1. IInv => LabelTellsSlot
  BY LabelIsSlot, InputsAssumption DEF IInv, AnalysisInv, AnalysisTypeOK, LabelTellsSlot
<1> QED BY Inductive, <1>1, PTL

\* The popup never tells what a former click has asked for.
THEOREM PopupAlwaysOfLastClick == Spec => []PopupOfLastClick
<1>1. IInv => PopupOfLastClick
  BY DEF IInv, PredictionInv
<1> QED BY Inductive, <1>1, PTL

\* The loop finds the nearest of any number of features, in every order, and
\* tells whether it is near.
THEOREM NearestIsAlwaysFound == Spec => []NearestIsFound
<1>1. IInv => NearestIsFound
  <2> SUFFICES ASSUME IInv, NEW demands \in SetToSeqs(SourceFeatures), NEW mouse \in Spots,
                      demands # <<>>
               PROVE  LET found == FindNearestIndex(demands, mouse)
                          Dist(i) == Distance(demands[i].at, mouse)
                      IN  IF found = 0
                          THEN \A i \in DOMAIN demands : Dist(i) > Threshold
                          ELSE /\ found \in DOMAIN demands /\ Dist(found) <= Threshold
                               /\ \A i \in DOMAIN demands : Dist(found) <= Dist(i)
    BY DEF NearestIsFound
  <2>1. PICK n \in Nat : /\ DOMAIN demands = 1..n /\ Len(demands) = n
                         /\ \A i \in 1..n : demands[i].at \in Int \X Int
    BY DemandsArePlaces
  <2>2. n # 0
    BY <2>1 DEF SetToSeqs
  <2>3. mouse \in Int \X Int
    BY PlacesAssumption
  <2> QED BY <2>1, <2>2, <2>3, FindsNearest
<1> QED BY Inductive, <1>1, PTL

\* The points that the server asks PredictionIO about (the code looks at all
\* 13) are exactly the place and what is at most two steps away from it, and
\* none of them is asked about twice.
THEOREM ClusterIsDiamond ==
  ASSUME ClusterSize = 13, NEW p \in Int \X Int
  PROVE  /\ Around(p) = {q \in Int \X Int :
                          \E a, b \in 0..2 :
                            /\ a + b <= 2
                            /\ q[1] - p[1] \in {a, 0 - a} /\ q[2] - p[2] \in {b, 0 - b}}
         /\ \A i, j \in 1..ClusterSize : MakeCluster(p)[i] = MakeCluster(p)[j] => i = j
<1> DEFINE At(i) == <<p[1] + ClusterOffsets[i][1], p[2] + ClusterOffsets[i][2]>>
<1>1. \A i \in 1..13 : MakeCluster(p)[i] = At(i)
  BY DEF MakeCluster
<1>2. \A q \in Around(p) : \E i \in 1..13 : q = At(i)
  BY <1>1 DEF Around
<1>3. \A i \in 1..13 : At(i) \in Around(p)
  BY <1>1 DEF Around
<1>4. /\ ClusterOffsets[1] = <<0, 0>> /\ ClusterOffsets[2] = <<0, 2>>
      /\ ClusterOffsets[3] = <<-1, 1>> /\ ClusterOffsets[4] = <<0, 1>>
      /\ ClusterOffsets[5] = <<1, 1>> /\ ClusterOffsets[6] = <<-2, 0>>
      /\ ClusterOffsets[7] = <<-1, 0>> /\ ClusterOffsets[8] = <<1, 0>>
      /\ ClusterOffsets[9] = <<2, 0>> /\ ClusterOffsets[10] = <<-1, -1>>
      /\ ClusterOffsets[11] = <<0, -1>> /\ ClusterOffsets[12] = <<1, -1>>
      /\ ClusterOffsets[13] = <<0, -2>>
  BY DEF ClusterOffsets
<1>5. \A i \in 1..13 : i \in {1, 2, 3, 4, 5, 6, 7, 8, 9, 10, 11, 12, 13}
  OBVIOUS
<1>6. ASSUME NEW i \in 1..13
      PROVE  \E a, b \in 0..2 :
               /\ a + b <= 2
               /\ ClusterOffsets[i][1] \in {a, 0 - a} /\ ClusterOffsets[i][2] \in {b, 0 - b}
               /\ ClusterOffsets[i][1] \in Int /\ ClusterOffsets[i][2] \in Int
  BY <1>4, <1>5
<1>7. ASSUME NEW x \in Int, NEW y \in Int, NEW a \in 0..2, NEW b \in 0..2, a + b <= 2,
             x \in {a, 0 - a}, y \in {b, 0 - b}
      PROVE  \E i \in 1..13 : ClusterOffsets[i] = <<x, y>>
  BY <1>4, <1>7
<1> HIDE DEF At
<1>8. Around(p) \subseteq
        {q \in Int \X Int :
           \E a, b \in 0..2 :
             /\ a + b <= 2
             /\ q[1] - p[1] \in {a, 0 - a} /\ q[2] - p[2] \in {b, 0 - b}}
  <2>1. SUFFICES ASSUME NEW q \in Around(p)
                 PROVE  /\ q \in Int \X Int
                        /\ \E a, b \in 0..2 :
                             /\ a + b <= 2
                             /\ q[1] - p[1] \in {a, 0 - a} /\ q[2] - p[2] \in {b, 0 - b}
    OBVIOUS
  <2>2. PICK i \in 1..13 : q = At(i)
    BY <1>2
  <2>3. PICK a \in 0..2, b \in 0..2 :
          /\ a + b <= 2
          /\ ClusterOffsets[i][1] \in {a, 0 - a} /\ ClusterOffsets[i][2] \in {b, 0 - b}
          /\ ClusterOffsets[i][1] \in Int /\ ClusterOffsets[i][2] \in Int
    BY <1>6
  <2>4. q = <<p[1] + ClusterOffsets[i][1], p[2] + ClusterOffsets[i][2]>>
    BY <2>2 DEF At
  <2>5. q \in Int \X Int
    BY <2>3, <2>4
  <2>6. q[1] - p[1] = ClusterOffsets[i][1] /\ q[2] - p[2] = ClusterOffsets[i][2]
    BY <2>3, <2>4
  <2> QED BY <2>3, <2>5, <2>6
<1>9. ASSUME NEW q \in Int \X Int, NEW a \in 0..2, NEW b \in 0..2, a + b <= 2,
             q[1] - p[1] \in {a, 0 - a}, q[2] - p[2] \in {b, 0 - b}
      PROVE  q \in Around(p)
  <2> DEFINE x == q[1] - p[1]
             y == q[2] - p[2]
  <2>1. x \in Int /\ y \in Int /\ x \in {a, 0 - a} /\ y \in {b, 0 - b}
    BY <1>9
  <2>2. q = <<p[1] + x, p[2] + y>>
    BY <1>9
  <2> HIDE DEF x, y
  <2>3. PICK i \in 1..13 : ClusterOffsets[i] = <<x, y>>
    BY <1>7, <1>9, <2>1
  <2>4. At(i) = q
    BY <2>2, <2>3 DEF At
  <2> QED BY <1>3, <2>4
<1>10. \A i, j \in 1..13 : ClusterOffsets[i] = ClusterOffsets[j] => i = j
  BY <1>4, <1>5
<1>11. ASSUME NEW i \in 1..13, NEW j \in 1..13, At(i) = At(j)
       PROVE  i = j
  <2>1. /\ p[1] + ClusterOffsets[i][1] = p[1] + ClusterOffsets[j][1]
        /\ p[2] + ClusterOffsets[i][2] = p[2] + ClusterOffsets[j][2]
    BY <1>11 DEF At
  <2>2. \A k \in 1..13 : /\ ClusterOffsets[k][1] \in Int /\ ClusterOffsets[k][2] \in Int
                         /\ ClusterOffsets[k] = <<ClusterOffsets[k][1], ClusterOffsets[k][2]>>
    <3> SUFFICES ASSUME NEW k \in 1..13
                 PROVE  /\ ClusterOffsets[k][1] \in Int /\ ClusterOffsets[k][2] \in Int
                        /\ ClusterOffsets[k] = <<ClusterOffsets[k][1], ClusterOffsets[k][2]>>
      OBVIOUS
    <3>1. \E a, b \in {-2, -1, 0, 1, 2} : ClusterOffsets[k] = <<a, b>>
      BY <1>4, <1>5
    <3> QED BY <3>1
  <2>3. ClusterOffsets[i] = ClusterOffsets[j]
    <3> DEFINE a == ClusterOffsets[i][1]
               b == ClusterOffsets[j][1]
               c == ClusterOffsets[i][2]
               d == ClusterOffsets[j][2]
    <3>1. a = b /\ c = d
      <4>1. a \in Int /\ b \in Int /\ c \in Int /\ d \in Int /\ p[1] \in Int /\ p[2] \in Int
        BY <2>2
      <4>2. p[1] + a = p[1] + b /\ p[2] + c = p[2] + d
        BY <2>1
      <4> HIDE DEF a, b, c, d
      <4> QED BY <4>1, <4>2
    <3>2. <<ClusterOffsets[i][1], ClusterOffsets[i][2]>>
            = <<ClusterOffsets[j][1], ClusterOffsets[j][2]>>
      BY <3>1
    <3> QED BY <2>2, <3>2, Zenon
  <2> QED BY <1>10, <2>3
<1> QED BY <1>1, <1>8, <1>9, <1>11
=============================================================================
