---------------------------- MODULE SocketBridge ----------------------------
(***************************************************************************)
(* How the servers keep the promise of RideFeed.  For every web socket     *)
(* HomeController builds one flow out of two halves that share nothing:    *)
(*                                                                         *)
(*   page -> upstream -> inflight -> log                a Kafka producer   *)
(*   log -> fetched -> downstream -> page               a Kafka consumer   *)
(*                                                                         *)
(* Frames travel in order over the socket (upstream, downstream).  The     *)
(* producer has records under way to the broker (inflight), with acks=all  *)
(* and no retries.  The consumer belongs to a group nobody else is in,     *)
(* polls several records at once into a buffer (fetched) and hands them on *)
(* one by one, as the socket takes them.                                   *)
(***************************************************************************)
EXTENDS Naturals, Sequences

CONSTANTS
  Drivers, Riders,      \* the pages
  Record,               \* what a page may send
  Says,                 \* Says[p]: bounds the records that p sends
  Fragile,              \* the pages whose connection may be lost
  MaxUpstream,          \* bound on the frames between a page and its sink
  MaxInflight,          \* bound on the records of a producer under way
  MaxLog,               \* bound on the records of a topic
  MaxDownstream,        \* bound on the frames between a source and its page
  MaxPoll,              \* the most records that one poll returns
  NONE                  \* the position of a consumer that has none

ASSUME SaysAssumption == Says \in [Drivers \cup Riders -> SUBSET Record]
ASSUME NoneAssumption == NONE \notin Nat
ASSUME PagesAssumption == Drivers \cap Riders = {}
ASSUME BoundsAssumption ==
  MaxUpstream \in Nat /\ MaxInflight \in Nat /\ MaxLog \in Nat /\ MaxPoll \in Nat

VARIABLES
  conn,         \* conn[p]: the state of the web socket of p, as in RideFeed
  upstream,     \* upstream[p]: frames that p has sent
  inflight,     \* inflight[p]: records that p's producer has sent
  log,          \* log[t]: the only partition of topic t that "" is hashed to
  position,     \* position[p]: how much of its topic p's consumer has polled
  fetched,      \* fetched[p]: polled and not yet emitted
  downstream    \* downstream[p]: frames that are on their way to p

vars == <<conn, upstream, inflight, log, position, fetched, downstream>>
serverSide == <<inflight, log, position, fetched>>

Page == Drivers \cup Riders
Topic == {"driver", "rider"}

\* The topic that p's sink writes, and the one that its source reads.
SinkTopic(p) == IF p \in Drivers THEN "driver" ELSE "rider"
SourceTopic(p) == IF p \in Drivers THEN "rider" ELSE "driver"

Assigned(p) == position[p] # NONE

\* What p's consumer has still to poll.
Unread(p) ==
  IF Assigned(p)
  THEN SubSeq(log[SourceTopic(p)], position[p] + 1, Len(log[SourceTopic(p)]))
  ELSE <<>>

Init ==
  /\ conn = [p \in Page |-> "connecting"]
  /\ upstream = [p \in Page |-> <<>>]
  /\ inflight = [p \in Page |-> <<>>]
  /\ log = [t \in Topic |-> <<>>]
  /\ position = [p \in Page |-> NONE]
  /\ fetched = [p \in Page |-> <<>>]
  /\ downstream = [p \in Page |-> <<>>]

-----------------------------------------------------------------------------
\* WebSocket.accept: both halves of the flow are started.
Accept(p) ==
  /\ conn[p] = "connecting"
  /\ conn' = [conn EXCEPT ![p] = "open"]
  /\ UNCHANGED <<upstream, downstream, serverSide>>

\* ws.send.
ClientSend(p, rec) ==
  /\ conn[p] # "connecting"
  /\ IF conn[p] = "open"
     THEN /\ Len(upstream[p]) < MaxUpstream
          /\ upstream' = [upstream EXCEPT ![p] = Append(@, rec)]
     ELSE upstream' = upstream
  /\ UNCHANGED <<conn, downstream, serverSide>>

\* contramap to a ProducerRecord, and Producer.plainSink sends it.  Frames
\* that were sent before the page closed the socket still arrive.
SinkTakes(p) ==
  /\ conn[p] \in {"open", "closed"}
  /\ upstream[p] # <<>>
  /\ Len(inflight[p]) < MaxInflight
  /\ inflight' = [inflight EXCEPT ![p] = Append(@, Head(upstream[p]))]
  /\ upstream' = [upstream EXCEPT ![p] = Tail(@)]
  /\ UNCHANGED <<conn, log, position, fetched, downstream>>

\* The broker appends the oldest record of a producer: without retries the
\* records of one producer cannot overtake each other.
BrokerAppends(p) ==
  LET t == SinkTopic(p) IN
  /\ inflight[p] # <<>>
  /\ Len(log[t]) < MaxLog
  /\ log' = [log EXCEPT ![t] = Append(@, Head(inflight[p]))]
  /\ inflight' = [inflight EXCEPT ![p] = Tail(@)]
  /\ UNCHANGED <<conn, upstream, position, fetched, downstream>>

\* A stage of the flow has failed: the server drops the socket, and the
\* consumer goes with what it had not yet written to it.
TearDown(p) ==
  /\ p \in Fragile
  /\ conn[p] = "open"
  /\ conn' = [conn EXCEPT ![p] = "broken"]
  /\ position' = [position EXCEPT ![p] = NONE]
  /\ fetched' = [fetched EXCEPT ![p] = <<>>]
  /\ UNCHANGED <<upstream, inflight, log, downstream>>

\* An acknowledgement does not come in time: the record may be in the topic
\* or not, and nobody sends it again.
SinkFails(p) == inflight[p] # <<>> /\ TearDown(p)

\* The consumer fails.
SourceFails(p) == TearDown(p)

\* Records on their way from a socket that is gone, one after the other,
\* may be lost with it.
Discard(p) ==
  /\ conn[p] \in {"broken", "closed"}
  /\ \/ /\ inflight[p] # <<>>
        /\ inflight' = [inflight EXCEPT ![p] = Tail(@)]
        /\ UNCHANGED upstream
     \/ /\ inflight[p] = <<>> /\ upstream[p] # <<>>
        /\ upstream' = [upstream EXCEPT ![p] = Tail(@)]
        /\ UNCHANGED inflight
  /\ UNCHANGED <<conn, log, position, fetched, downstream>>

\* Mutant: auto.offset.reset = earliest.
EarliestPosition(p) == 0

\* Where a consumer with no committed offset starts.
ResetPosition(p) == Len(log[SourceTopic(p)])

\* The consumer is assigned the partition.
Assign(p) ==
  /\ conn[p] = "open"
  /\ ~Assigned(p)
  /\ position' = [position EXCEPT ![p] = ResetPosition(p)]
  /\ UNCHANGED <<conn, upstream, inflight, log, fetched, downstream>>

\* Mutant: a poll waits until it can return as much as it may.
PollsFullBatches(p) ==
  Assigned(p) /\ fetched[p] = <<>> /\ Len(Unread(p)) >= MaxPoll

\* The stage polls when it has nothing left to emit.
MayPoll(p) == Assigned(p) /\ fetched[p] = <<>>

\* Mutant: the consumer takes a part of what there is, and moves to the end.
PollAndSeekToEnd(p) ==
  /\ MayPoll(p)
  /\ \E n \in 1..MaxPoll :
       /\ n <= Len(Unread(p))
       /\ fetched' = [fetched EXCEPT ![p] = SubSeq(Unread(p), 1, n)]
       /\ position' = [position EXCEPT ![p] = Len(log[SourceTopic(p)])]
  /\ UNCHANGED <<conn, upstream, inflight, log, downstream>>

Poll(p) ==
  /\ MayPoll(p)
  /\ \E n \in 1..MaxPoll :
       /\ n <= Len(Unread(p))
       /\ fetched' = [fetched EXCEPT ![p] = SubSeq(Unread(p), 1, n)]
       /\ position' = [position EXCEPT ![p] = @ + n]
  /\ UNCHANGED <<conn, upstream, inflight, log, downstream>>

Emit(p) ==
  /\ fetched[p] # <<>>
  /\ Len(downstream[p]) < MaxDownstream
  /\ downstream' = [downstream EXCEPT ![p] = Append(@, Head(fetched[p]))]
  /\ fetched' = [fetched EXCEPT ![p] = Tail(@)]
  /\ UNCHANGED <<conn, upstream, inflight, log, position>>

\* ws.onmessage.
Handle(p) ==
  /\ conn[p] \in {"open", "broken"}
  /\ downstream[p] # <<>>
  /\ downstream' = [downstream EXCEPT ![p] = Tail(@)]
  /\ UNCHANGED <<conn, upstream, serverSide>>

\* The page is closed, or learns that its socket is.
Close(p) ==
  /\ p \in Fragile
  /\ conn[p] \in {"open", "broken"}
  /\ conn' = [conn EXCEPT ![p] = "closed"]
  /\ position' = [position EXCEPT ![p] = NONE]
  /\ fetched' = [fetched EXCEPT ![p] = <<>>]
  /\ downstream' = [downstream EXCEPT ![p] = <<>>]
  /\ UNCHANGED <<upstream, inflight, log>>

Next ==
  \E p \in Page :
    \/ Accept(p) \/ Close(p) \/ Handle(p)
    \/ \E rec \in Says[p] : ClientSend(p, rec)
    \/ SinkTakes(p) \/ BrokerAppends(p) \/ SinkFails(p) \/ Discard(p)
    \/ Assign(p) \/ Poll(p) \/ Emit(p) \/ SourceFails(p)

Spec == Init /\ [][Next]_vars

\* The server's streams and the page's event loop do not stop by themselves.
Fairness ==
  \A p \in Page :
    /\ WF_vars(Accept(p))
    /\ WF_vars(Assign(p))
    /\ WF_vars(Poll(p))
    /\ WF_vars(Emit(p))
    /\ WF_vars(Handle(p))

FairSpec == Spec /\ Fairness

-----------------------------------------------------------------------------
(* Properties.                                                             *)

TypeOK ==
  /\ conn \in [Page -> {"connecting", "open", "broken", "closed"}]
  /\ upstream \in [Page -> Seq(Record)]
  /\ inflight \in [Page -> Seq(Record)]
  /\ log \in [Topic -> Seq(Record)]
  /\ position \in [Page -> Nat \cup {NONE}]
  /\ fetched \in [Page -> Seq(Record)]
  /\ downstream \in [Page -> Seq(Record)]

\* The pipeline seen from outside: what is on its way to the topic, and what
\* is on its way from the topic, buffer after buffer.
Feed == INSTANCE RideFeed WITH
  joined <- [p \in Page |-> Assigned(p)],
  outbox <- [p \in Page |-> inflight[p] \o upstream[p]],
  inbox <- [p \in Page |-> downstream[p] \o fetched[p] \o Unread(p)],
  MaxOutbox <- MaxUpstream + MaxInflight,
  MaxInbox <- MaxLog

\* Sinks, brokers and sources together do what RideFeed says, step by step:
\* nothing is lost, doubled or reordered while a connection holds
\* (HomeController.scala 28-40, Kafka.scala 25-51, application.conf).
ImplementsFeed == Feed!FeedSpec

\* Readers of one topic have the same records ahead of them in the same
\* order, wherever in their buffers these are.
SameOrder == Feed!SameOrder

\* What a consumer holds in its buffers is a stretch of its topic that ends
\* where it will poll next: no gap, no record twice.
NoGaps ==
  \A p \in Page :
    Assigned(p) =>
      /\ position[p] <= Len(log[SourceTopic(p)])
      /\ Feed!EndsWith(SubSeq(log[SourceTopic(p)], 1, position[p]),
                       downstream[p] \o fetched[p])

CaughtUp(p) ==
  Assigned(p) /\ Unread(p) = <<>> /\ fetched[p] = <<>> /\ downstream[p] = <<>>

\* A topic that comes to rest has been read to its end by every page that
\* still has its connection.
EverythingIsRead ==
  \A p \in Page : <>[](conn[p] \in {"broken", "closed"} \/ CaughtUp(p))
=============================================================================
