----------------------------- MODULE MapSources -----------------------------
(***************************************************************************)
(* The maps of the dashboard pages and the GeoJSON sources that are        *)
(* predictions.  A page adds a source by giving it a URL, and Mapbox asks  *)
(* the server for it; a source is changed by removing it and adding        *)
(* another one of the same name.  Nobody listens to the error of a source, *)
(* so a map whose request has failed just stays empty.                     *)
(*                                                                         *)
(* A source and the layer that draws it come and go together.              *)
(***************************************************************************)
EXTENDS DemandService

CONSTANTS
  Maps,         \* the maps that show predictions
  NONE          \* no time, place or text

VARIABLES
  styled,       \* styled[m]: the style of the map has been loaded
  source        \* source[m]: the source and the layer of the map, if any

NoSource == [state |-> "none"]
Waiting(query) == [query |-> query, state |-> "waiting", features |-> {}]

HasSource(m) == source[m].state # "none"

SourcesInit ==
  /\ requests = {}
  /\ styled = [m \in Maps |-> FALSE]
  /\ source = [m \in Maps |-> NoSource]

\* Every map that a page creates asks for its style.
StyleLoads(m) ==
  /\ ~styled[m]
  /\ styled' = [styled EXCEPT ![m] = TRUE]
  /\ UNCHANGED <<source, requests>>

-----------------------------------------------------------------------------
(* What the pages do.                                                      *)

\* removeSource: the answer to its request has nowhere to go any more.
WithoutSources(ms) ==
  {IF r.map \in ms THEN [r EXCEPT !.live = FALSE] ELSE r : r \in requests}

\* removeSource and removeLayer.  They throw when there is nothing to remove,
\* or no style yet; the pages ignore that.
RemoveSource(m) ==
  /\ source' = [source EXCEPT ![m] = NoSource]
  /\ requests' = WithoutSources({m})
  /\ UNCHANGED styled

\* Mutant: a source that is there is kept and only its URL changes.
ChangeSources(ms, query) ==
  /\ source' = [m \in Maps |-> IF m \in ms THEN Waiting(query[m]) ELSE source[m]]
  /\ requests' = requests \cup {NewRequest(m, query[m]) : m \in ms}
  /\ UNCHANGED styled

\* The same for all of ms, followed by addSource and addLayer with query[m].
ReplaceSources(ms, query) ==
  /\ source' = [m \in Maps |-> IF m \in ms THEN Waiting(query[m]) ELSE source[m]]
  /\ requests' = WithoutSources(ms) \cup {NewRequest(m, query[m]) : m \in ms}
  /\ UNCHANGED styled

-----------------------------------------------------------------------------
(* What reaches the pages.                                                 *)

\* The server answers; the source, if it is still there, shows the answer.
AnswerArrives(r) ==
  /\ Succeeds(r)
  /\ requests' = requests \ {r}
  /\ source' = IF r.live
               THEN [source EXCEPT ![r.map] = [query |-> @.query, state |-> "filled",
                                               features |-> Answer(r)]]
               ELSE source
  /\ UNCHANGED styled

ErrorArrives(r) ==
  /\ Fails(r)
  /\ requests' = requests \ {r}
  /\ source' = IF r.live
               THEN [source EXCEPT ![r.map] = [query |-> @.query, state |-> "failed",
                                               features |-> {}]]
               ELSE source
  /\ UNCHANGED styled

ServerStep ==
  \E r \in requests :
    \/ \E i \in DOMAIN r.outcome :
         /\ QueryServed(r, i) \/ QueryRefused(r, i)
         /\ UNCHANGED <<styled, source>>
    \/ AnswerArrives(r)
    \/ ErrorArrives(r)
=============================================================================
