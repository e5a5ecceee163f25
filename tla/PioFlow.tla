------------------------------- MODULE PioFlow -------------------------------
(***************************************************************************)
(* The flow of pio-client: mapAsync turns each record into a request to    *)
(* the event server of PredictionIO, has up to Parallelism of them under   *)
(* way and passes the answers on in the order of the records.  One bad     *)
(* record, refused event or lost answer fails the stage at once; requests  *)
(* that are under way then are out of its hands and may still be served.   *)
(*                                                                         *)
(* The module that extends this one has the sources in front of the flow.  *)
(* A record is known by its number in its source.                          *)
(***************************************************************************)
EXTENDS Naturals, Sequences

CONSTANT Parallelism      \* 50 in the code

ASSUME ParallelismAssumption == Parallelism \in Nat \ {0}

VARIABLES
  stage,      \* "off" (not materialised), "running", "failed" or "completed"
  window,     \* the records whose turn to be passed on has not come, in order:
              \* the future of each is still open or already has its answer
  sent,       \* the requests that the event server has not dealt with
  stored,     \* the events of the event server, in the order of their creation
  emitted     \* the records whose answers have been passed on, in that order

flow == <<stage, window, sent, stored, emitted>>

Slot(n) == [record |-> n, answered |-> FALSE]

In(n, s) == \E i \in 1..Len(s) : s[i] = n

\* failStage: what the stage holds is dropped.
FailStage == stage' = "failed" /\ window' = <<>>

FlowInit ==
  /\ stage = "off"
  /\ window = <<>>
  /\ sent = {}
  /\ stored = <<>>
  /\ emitted = <<>>

\* runWith: the stage is new, the event server is what it was.
Materialize ==
  /\ stage' = "running"
  /\ window' = <<>>
  /\ emitted' = <<>>
  /\ UNCHANGED <<sent, stored>>

HasRoom == Len(window) < Parallelism

\* A record reaches mapAsync.  Its three fields are read before there is a
\* future: as[...] of one that is missing throws in the stage itself.
TakeRecord(n, whole) ==
  /\ stage = "running" /\ HasRoom
  /\ \/ /\ whole
        /\ window' = Append(window, Slot(n))
        /\ sent' = sent \cup {n}
        /\ UNCHANGED stage
     \/ /\ ~whole
        /\ FailStage
        /\ UNCHANGED sent
  /\ UNCHANGED <<stored, emitted>>

\* The event server stores an event.
CreateEvent(n) ==
  /\ n \in sent
  /\ sent' = sent \ {n}
  /\ stored' = Append(stored, n)
  /\ UNCHANGED <<stage, window, emitted>>

\* The event server refuses an event, or the request never gets there.
RefuseEvent(n) ==
  /\ n \in sent
  /\ sent' = sent \ {n}
  /\ UNCHANGED <<stage, window, stored, emitted>>

Open(i) == i \in 1..Len(window) /\ ~window[i].answered

\* Mutant: the status of the response is not looked at.
AnyResponse(i) ==
  /\ Open(i) /\ window[i].record \notin sent
  /\ window' = [window EXCEPT ![i].answered = TRUE]
  /\ UNCHANGED <<stage, sent, stored, emitted>>

\* A response with the status "created" arrives.
ResponseCreated(i) ==
  /\ Open(i) /\ In(window[i].record, stored)
  /\ window' = [window EXCEPT ![i].answered = TRUE]
  /\ UNCHANGED <<stage, sent, stored, emitted>>

\* Any other status, a connection that fails or a request that times out,
\* whatever has become of the event.
ResponseFails(i) ==
  /\ Open(i)
  /\ FailStage
  /\ UNCHANGED <<sent, stored, emitted>>

\* Mutants: the answers are passed on as they come, and not before the
\* window is full.
EmitAnswered ==
  \E i \in 1..Len(window) :
    /\ stage = "running" /\ window[i].answered
    /\ emitted' = Append(emitted, window[i].record)
    /\ window' = SubSeq(window, 1, i - 1) \o SubSeq(window, i + 1, Len(window))
    /\ UNCHANGED <<stage, sent, stored>>
EmitFullWindow ==
  /\ stage = "running" /\ ~HasRoom /\ Head(window).answered
  /\ emitted' = Append(emitted, Head(window).record)
  /\ window' = Tail(window)
  /\ UNCHANGED <<stage, sent, stored>>

\* The answer whose turn has come is passed on.
EmitNext ==
  /\ stage = "running" /\ window # <<>> /\ Head(window).answered
  /\ emitted' = Append(emitted, Head(window).record)
  /\ window' = Tail(window)
  /\ UNCHANGED <<stage, sent, stored>>

\* What the event server and the network do; the records whose numbers are
\* not in Doubtful are always accepted and answered.
Serve(Doubtful) ==
  \/ \E n \in sent : CreateEvent(n)
  \/ \E n \in sent \cap Doubtful : RefuseEvent(n)
  \/ \E i \in 1..Len(window) : ResponseCreated(i)
  \/ \E i \in 1..Len(window) : window[i].record \in Doubtful /\ ResponseFails(i)

FlowTypeOK(Numbers) ==
  /\ stage \in {"off", "running", "failed", "completed"}
  /\ window \in Seq([record : Numbers, answered : BOOLEAN])
  /\ Len(window) <= Parallelism
  /\ sent \subseteq Numbers
  /\ stored \in Seq(Numbers)
  /\ emitted \in Seq(Numbers)

Once(s) == \A i, j \in 1..Len(s) : s[i] = s[j] => i = j
=============================================================================
