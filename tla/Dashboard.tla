----------------------------- MODULE Dashboard -----------------------------
(***************************************************************************)
(* A browser on the demand dashboard: its two pages link to each other     *)
(* (dashboardSectionHeader), and a page starts anew whenever it is opened. *)
(* Requests of a page that has been left have nobody to answer to.         *)
(***************************************************************************)
EXTENDS AnalysisPage, PredictionPage

ASSUME MapsAssumption ==
  /\ NONE \notin Int
  /\ PredictionMap \notin {Algorithms[i] : i \in DOMAIN Algorithms}
ASSUME ShownAssumption == Shown \in [Times -> Seq(Int \X Int)]

VARIABLE page       \* the page that is open

vars == <<page, analysisVars, predictionVars, styled, source, requests>>

Page == {"analysis", "prediction"}

Init ==
  /\ page \in Page
  /\ SourcesInit
  /\ AnalysisInit
  /\ PredictionInit

\* A page is opened, or opened again.
Open(p) ==
  /\ page' = p
  /\ requests' = {}
  /\ styled' = [m \in Maps |-> FALSE]
  /\ source' = [m \in Maps |-> NoSource]
  /\ day' = StartDay /\ slider' = 0 /\ label' = Label(0) /\ dated' = FALSE
  /\ loaded' = FALSE /\ filter' = NONE /\ tiles' = NONE /\ rendered' = NONE
  /\ timers' = 0 /\ timely' = TRUE
  /\ inputs' = [eventTime |-> DefaultTime, temperature |-> 20, weather |-> 0,
                algorithm |-> 0]
  /\ place' = Center
  /\ popup' = [at |-> NONE, says |-> NONE]
  /\ dataDue' = FALSE

OnAnalysis(step) == page = "analysis" /\ step /\ UNCHANGED <<page, predictionVars>>

OnPrediction(step) == page = "prediction" /\ step /\ UNCHANGED <<page, analysisVars>>

Next ==
  \/ \E p \in Page : Open(p)
  \/ OnAnalysis(AnalysisStep)
  \/ OnPrediction(PredictionStep)

Spec == Init /\ [][Next]_vars

\* The browser and Mapbox go on with what they have to do, and every query of
\* the server is answered or times out.  Users owe nothing, and no style or tile
\* of the city need arrive.  (A 'data' event that is due stays due until it is
\* fired, and firing it takes it away.)
FairSpec ==
  /\ Spec
  /\ WF_vars(OnAnalysis(WorkerIsTold \/ TilesAreDrawn))
  /\ WF_vars(OnAnalysis(TimerFires))
  /\ WF_vars(OnAnalysis(ServerStep /\ UNCHANGED analysisVars))
  /\ WF_vars(OnPrediction(PredictionArrives))
  /\ WF_vars(OnPrediction(DataEvent))

-----------------------------------------------------------------------------
\* What may be in the inputs, what a page may ask, and a request for it.
Inputs ==
  [eventTime : Entered.eventTime \cup {DefaultTime},
   temperature : Entered.temperature \cup {20},
   weather : Entered.weather \cup {0},
   algorithm : Entered.algorithm \cup {0}]

Query ==
  [route : {"analyze"}, algorithm : Maps, eventTime : Int, coordinates : Seq(Int \X Int)]
  \cup [route : {"predict"}, place : Places, inputs : Inputs]

Request ==
  [map : Maps, live : BOOLEAN, query : Query,
   outcome : Seq({"asked", "served", "refused"})]

AnalysisTypeOK ==
  /\ day \in Days /\ slider \in Slots /\ label = Label(slider)
  /\ dated \in BOOLEAN /\ loaded \in BOOLEAN /\ timely \in BOOLEAN
  /\ {filter, tiles, rendered} \subseteq Times \cup {NONE}
  /\ timers \in 0..MaxTimers

PredictionTypeOK ==
  /\ inputs \in Inputs /\ place \in Places \cup {Center}
  /\ DOMAIN popup = {"at", "says"} /\ dataDue \in BOOLEAN

SourcesTypeOK ==
  /\ styled \in [Maps -> BOOLEAN]
  /\ DOMAIN source = Maps
  /\ \A m \in Maps : HasSource(m) =>
       source[m].query \in Query /\ source[m].state \in {"waiting", "filled", "failed"}
  /\ requests \subseteq Request
  /\ \A r \in requests : DOMAIN r.outcome = DOMAIN Points(r.query)

\* Every value is one that the pages and the server use, and a request has
\* one query for each of its points (HomeController.scala:61, :87).
TypeOK ==
  /\ page \in Page
  /\ AnalysisTypeOK
  /\ PredictionTypeOK
  /\ SourcesTypeOK

\* A map never shows the answer to another question than the one that its
\* present source has asked, nor a part of the answer, in whatever order
\* requests are made, refused and answered (analysis.js:154, prediction.js:68,
\* HomeController.scala:79).
AnswersBelong ==
  \A m \in Maps : HasSource(m) =>
    source[m].features =
      IF source[m].state = "filled" THEN Features(source[m].query) ELSE {}

\* The page is there to compare algorithms: a map that has a source has it
\* for the same time and the same places as all the maps before it, although
\* styles load in any order and the loop over the maps may end halfway
\* (analysis.js:147).
SameQuestion ==
  \A i, j \in DOMAIN Algorithms :
    i < j /\ HasSource(Algorithms[j]) =>
      LET a == source[Algorithms[i]] b == source[Algorithms[j]] IN
      /\ HasSource(Algorithms[i])
      /\ a.query.eventTime = b.query.eventTime
      /\ a.query.coordinates = b.query.coordinates

\* If styles and tiles are as fast as the delays assume, then with no timer
\* under way every algorithm is shown for the places and the (local) time of
\* the demand that the first map shows.  The day must not have been picked
\* since, and there must be some demand: the page does not react to the one
\* and leaves old predictions standing with the other (analysis.js:144).
MapsAgree ==
  /\ timely /\ loaded /\ timers = 0 /\ ~dated
  /\ Shown[filter] # <<>>
  => /\ rendered = filter
     /\ \A i \in DOMAIN Algorithms :
          /\ HasSource(Algorithms[i])
          /\ source[Algorithms[i]].query.eventTime = filter + Zone[day]
          /\ source[Algorithms[i]].query.coordinates = Shown[filter]

\* The text beside the slider is the half hour that is asked for, up to
\* midnight (analysis.js:62, :73).
LabelTellsSlot ==
  /\ label.from = <<Hour(slider), Minute(slider)>>
  /\ 60 * label.to[1] + label.to[2] = 60 * label.from[1] + label.from[2] + 30

\* An open popup tells what is predicted for a point around the last click,
\* and stands at one: never what an earlier click has asked for
\* (prediction.js:65, :107, :120).
PopupOfLastClick ==
  popup.says # NONE =>
    /\ popup.at \in Around(place)
    /\ \E c \in Around(place) :
         popup.says.query.lng = c[1] /\ popup.says.query.lat = c[2]

\* Wherever the mouse is and in whatever order Mapbox returns the features,
\* the loop ends with one that no other is nearer than, or with none if all
\* of them are too far (prediction.js:126, findNearestIndex).
NearestIsFound ==
  \A demands \in SetToSeqs(SourceFeatures), mouse \in Spots :
    LET found == FindNearestIndex(demands, mouse)
        Dist(i) == Distance(demands[i].at, mouse)
    IN demands # <<>> =>
         IF found = 0
         THEN \A i \in DOMAIN demands : Dist(i) > Threshold
         ELSE /\ found \in DOMAIN demands /\ Dist(found) <= Threshold
              /\ \A i \in DOMAIN demands : Dist(found) <= Dist(i)

\* The steps with which a user makes the pages ask again.
Asking ==
  \/ \E p \in Page : Open(p)
  \/ page = "analysis" /\ AnalysisUser
  \/ page = "prediction" /\ \E p \in Places : Click(p)

Settled ==
  /\ \A m \in Maps : source[m].state # "waiting"
  /\ timers = 0
  /\ rendered = filter

\* Unless the user asks for ever, no map waits for ever, and the page comes
\* to rest with its timers and its first map (analysis.js:150).
ComesToRest == []<><<Asking>>_vars \/ <>[]Settled

\* Unless the user asks for ever, what a click has asked for is told by the popup
\* in the end, if the server answers: data events that came before the answer,
\* and told nothing, are not the last one, and mouse moves that close the popup
\* do not outrun it (prediction.js:106).  Once told, the prediction may be closed
\* again, and then nothing has to bring it back.
PopupAppears ==
  \/ []<><<Asking>>_vars
  \/ source[PredictionMap].state = "waiting" ~>
       \/ popup.says # NONE
       \/ source[PredictionMap].state \in {"none", "failed"}
=============================================================================
