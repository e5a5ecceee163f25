---------------------------- MODULE DemandEngine ----------------------------
(***************************************************************************)
(* The engine that learns the demand: what training makes of the events of *)
(* the event server, and how an evaluation divides them.                   *)
(*                                                                         *)
(* Times are minutes.  Training sees of a time only what a calendar of the *)
(* engine's zone shows: the day of the week and of the month, the minute   *)
(* of the day and the month.  That is the same an hour later when clocks   *)
(* are set back, and again in another year.  KMeans may put any places     *)
(* together.  The regressions, and the scaling of the features, are        *)
(* Spark's: what they are given is the end of the model.                   *)
(***************************************************************************)
EXTENDS Integers, SequencesExt

CONSTANTS
  Times,        \* when events happen
  Calendar,     \* what a calendar shows when a slot begins
  Places,       \* where they happen
  Weathers,     \* the weather they report
  Clusters,     \* the labels of KMeans
  EvalK,        \* evalK, the part of an evaluation that is for training, in tenths
  MaxEvents,    \* bound on the events
  NONE          \* nothing

VARIABLES
  events,       \* the events, in the order in which the event store has them
  clusterModel, \* Preparator.locationClusterModel
  data,         \* what training has just returned: labelled points, by time and place
  split         \* what readEval has just returned

engineVars == <<events, clusterModel, data, split>>

UserEvent == [time : Times, place : Places, weather : Weathers]

EngineInit ==
  /\ events = <<>>
  /\ clusterModel = NONE
  /\ data = NONE
  /\ split = NONE

\* The event server stores an event.
Store(event) ==
  /\ Len(events) < MaxEvents
  /\ events' = Append(events, event)
  /\ data' = NONE /\ split' = NONE
  /\ UNCHANGED clusterModel

normalize(time) == time \div 30
denormalize(slot) == slot * 30

\* Mutant: the first event's weather.
WeatherOfFirst(es, slot) == es[1].weather

\* timeToWeatherMap: of several events in a slot the last one counts.
WeatherOf(es, slot) ==
  es[SelectLastInSeq(es, LAMBDA e : normalize(e.time) = slot)].weather

timeAndLatLng(es) == {<<e.time, e.place>> : e \in ToSet(es)}

Label(model, entry) == <<normalize(entry[1]), model[entry[2]]>>

\* Mutant: events are counted, and not times and places.
CountEvents(es, model, label) ==
  Cardinality({i \in DOMAIN es : Label(model, <<es[i].time, es[i].place>>) = label})

\* countMap.
Count(es, model, label) ==
  Cardinality({entry \in timeAndLatLng(es) : Label(model, entry) = label})

\* combineFeatureVectors and toFeaturesVector, of the beginning of the slot.
Features(es, model, entry) ==
  [calendar |-> Calendar[denormalize(normalize(entry[1]))],
   weather |-> WeatherOf(es, normalize(entry[1])), cluster |-> model[entry[2]]]

\* prepare: a labelled point for each time and place.
Prepared(es, model) ==
  [entry \in timeAndLatLng(es) |->
     [demand |-> Count(es, model, Label(model, entry)),
      features |-> Features(es, model, entry)]]

\* Training.  sanityCheck refuses a training without events.
Train ==
  /\ events # <<>>
  /\ \E model \in [{e.place : e \in ToSet(events)} -> Clusters] :
       /\ clusterModel' = model
       /\ data' = Prepared(events, model)
  /\ split' = NONE
  /\ UNCHANGED events

\* trainingPoints: the i-th event has the index i - 1.
InTraining(i, count) == 10 * (i - 1) <= EvalK * count

\* The k-th of some indices.
Nth(indices, k) == CHOOSE i \in indices : Cardinality({j \in indices : j <= i}) = k

\* The training or the testing points of events in order.
Points(es, inTraining) ==
  LET indices == {i \in DOMAIN es : InTraining(i, Len(es)) = inTraining}
  IN [k \in 1..Cardinality(indices) |-> es[Nth(indices, k)]]

\* Mutant: only events at the very same time are counted.
ActualAtTime(testing, e) ==
  Cardinality({i \in DOMAIN testing : testing[i].time = e.time})

\* testingCountMap: by time, wherever the events are.
ActualDemand(testing, e) ==
  Cardinality({i \in DOMAIN testing : normalize(testing[i].time) = normalize(e.time)})

Split(es) ==
  LET testing == Points(es, FALSE)
  IN [training |-> Points(es, TRUE),
      testing |-> testing,
      actual |-> [i \in DOMAIN testing |-> ActualDemand(testing, testing[i])]]

Reordered(order) == [i \in DOMAIN events |-> events[order[i]]]

\* Mutant: the events are divided as they come.
EvaluateUnsorted ==
  /\ events # <<>>
  /\ split' = Split(events)
  /\ data' = NONE
  /\ UNCHANGED <<events, clusterModel>>

\* readEval: sorted by time, events at the same time in any order.
Evaluate ==
  /\ events # <<>>
  /\ \E order \in SetToSeqs(DOMAIN events) :
       /\ IsSorted(Reordered(order), LAMBDA e, f : e.time <= f.time)
       /\ split' = Split(Reordered(order))
  /\ data' = NONE
  /\ UNCHANGED <<events, clusterModel>>

EngineNext == (\E event \in UserEvent : Store(event)) \/ Train \/ Evaluate

EngineSpec == EngineInit /\ [][EngineNext]_engineVars

-----------------------------------------------------------------------------
\* What the constants have to be.
EngineBounds ==
  /\ Times \subseteq Nat /\ MaxEvents \in Nat /\ EvalK \in 0..10
  /\ \A t \in Times : denormalize(normalize(t)) \in DOMAIN Calendar

Point == [demand : Nat,
          features : [calendar : Range(Calendar), weather : Weathers, cluster : Clusters]]

EngineTypeOK ==
  /\ events \in Seq(UserEvent)
  /\ clusterModel # NONE => \A place \in DOMAIN clusterModel : clusterModel[place] \in Clusters
  /\ data # NONE => \A entry \in DOMAIN data : data[entry] \in Point
  /\ split # NONE => /\ split.training \in Seq(UserEvent)
                    /\ split.testing \in Seq(UserEvent)
                    /\ split.actual \in [DOMAIN split.testing -> Nat \ {0}]

\* The demand of a point is the number of points that have its features and are
\* of its half hour.  Points of another half hour may have these features too, and
\* another demand: the regressions are then given contradicting points
\* (Preparator.scala 39-72: the count is by half hour and cluster, the features
\* are what the calendar shows of the half hour, 86-92).
PointsAreTheirDemand ==
  data # NONE =>
    \A entry \in DOMAIN data :
      LET alike == {other \in DOMAIN data : data[other].features = data[entry].features}
      IN data[entry].demand =
           Cardinality({other \in alike : normalize(other[1]) = normalize(entry[1])})

WithWeather(point, weather) == [point EXCEPT !.features.weather = weather]

\* The order in which the event store happens to return the events decides the
\* weather that training takes for a half hour, and nothing else: any weather that
\* is reported in the half hour may be it, and none that is not (Preparator.scala
\* 39, 47-50).
OrderDecidesWeather ==
  data # NONE =>
    \A entry \in DOMAIN data :
      LET reports == {e \in ToSet(events) : normalize(e.time) = normalize(entry[1])}
      IN {Prepared(Reordered(order), clusterModel)[entry] : order \in SetToSeqs(DOMAIN events)}
           = {WithWeather(data[entry], e.weather) : e \in reports}

\* An evaluation trains with events that are all no later than those it tests
\* with, and uses each event once (DataSource.scala 84-88).
SplitsInTime ==
  [][split' # NONE =>
       /\ ToBag(split'.training \o split'.testing) = ToBag(events)
       /\ \A e \in ToSet(split'.training) : \A f \in ToSet(split'.testing) : e.time <= f.time]_engineVars

\* The demand that an evaluation takes for actual is no less than what training
\* would learn from the same events.  It is more as soon as the events of a half
\* hour are in different clusters, or two of them at the same time and place
\* (DataSource.scala 90-99 counts events by half hour; Preparator.scala 39-45
\* different times and places by half hour and cluster).
ActualExceedsDemand ==
  split # NONE =>
    LET testing == split.testing
    IN \A model \in [Places -> Clusters] : \A i \in DOMAIN testing :
         LET learned == Prepared(testing, model)[<<testing[i].time, testing[i].place>>].demand
             sameSlot == {j \in DOMAIN testing :
                            normalize(testing[j].time) = normalize(testing[i].time)}
         IN /\ learned <= split.actual[i]
            /\ learned = split.actual[i] <=>
                 \A j, k \in sameSlot :
                   /\ model[testing[j].place] = model[testing[k].place]
                   /\ testing[j].time = testing[k].time /\ testing[j].place = testing[k].place
                        => j = k
=============================================================================
