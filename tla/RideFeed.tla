------------------------------ MODULE RideFeed ------------------------------
(***************************************************************************)
(* What the web application promises to the pages that connect to it.     *)
(*                                                                         *)
(* Every page holds one web socket.  What a driver page sends goes to the  *)
(* topic "driver", which every rider page reads; what a rider page sends   *)
(* goes to the topic "rider", which every driver page reads.  A topic has  *)
(* one order (its records share the key ""), and every connection reads it *)
(* under a consumer group of its own, so a record reaches every page whose *)
(* consumer is in position when the record is published, and no other.     *)
(*                                                                         *)
(* This module says no more than that: a page has an outbox of records     *)
(* that are on their way to the topic and an inbox of records that are on  *)
(* their way to the page.  SocketBridge shows how the servers do it.       *)
(***************************************************************************)
EXTENDS Naturals, Sequences

CONSTANTS
  Drivers,      \* the driver pages
  Riders,       \* the rider pages
  Record,       \* what a page may send
  Fragile,      \* the pages whose connection may be lost
  MaxOutbox,    \* bound on the records of one page on their way to the topic
  MaxInbox      \* bound on the records on their way to one page

ASSUME PagesAssumption == Drivers \cap Riders = {}
ASSUME BoundsAssumption == MaxOutbox \in Nat /\ MaxInbox \in Nat

VARIABLES
  conn,         \* conn[p]: the state of the web socket of page p
  joined,       \* joined[p]: the consumer of p has its position in the topic
  outbox,       \* outbox[p]: sent by p and not yet published, oldest first
  inbox         \* inbox[p]: published and not yet handled by p, oldest first

feedVars == <<conn, joined, outbox, inbox>>

Page == Drivers \cup Riders

\* "broken": the server has dropped the connection and the page does not
\* know yet, so its readyState is still 1; "closed": readyState is 3.
ConnState == {"connecting", "open", "broken", "closed"}

\* readyState == 1, as far as the page can tell.
ReadyState1(p) == conn[p] \in {"open", "broken"}

\* The pages that read what p sends.
Audience(p) == IF p \in Drivers THEN Riders ELSE Drivers

FeedTypeOK ==
  /\ conn \in [Page -> ConnState]
  /\ joined \in [Page -> BOOLEAN]
  /\ outbox \in [Page -> Seq(Record)]
  /\ inbox \in [Page -> Seq(Record)]

FeedInit ==
  /\ conn = [p \in Page |-> "connecting"]
  /\ joined = [p \in Page |-> FALSE]
  /\ outbox = [p \in Page |-> <<>>]
  /\ inbox = [p \in Page |-> <<>>]

-----------------------------------------------------------------------------
\* The server accepts the web socket and starts its sink and its source.
Accept(p) ==
  /\ conn[p] = "connecting"
  /\ conn' = [conn EXCEPT ![p] = "open"]
  /\ UNCHANGED <<joined, outbox, inbox>>

\* The consumer of p finds its position: the end of the topic, because its
\* group is new and auto.offset.reset keeps its default.
Join(p) ==
  /\ conn[p] = "open"
  /\ ~joined[p]
  /\ joined' = [joined EXCEPT ![p] = TRUE]
  /\ UNCHANGED <<conn, outbox, inbox>>

\* ws.send: a broken or closed connection swallows the record.
Send(p, rec) ==
  /\ conn[p] # "connecting"
  /\ \/ /\ conn[p] = "open"
        /\ Len(outbox[p]) < MaxOutbox
        /\ outbox' = [outbox EXCEPT ![p] = Append(@, rec)]
     \/ /\ conn[p] # "open"
        /\ outbox' = outbox
  /\ UNCHANGED <<conn, joined, inbox>>

\* Mutant: a page that is behind misses what comes in the meantime (a buffer
\* that drops).
DeliverUnlessBehind(readers, rec) ==
  [p \in Page |-> IF p \in readers /\ inbox[p] = <<>> THEN <<rec>> ELSE inbox[p]]

\* The inboxes after rec has reached every page of the set readers.
Deliver(readers, rec) ==
  [p \in Page |-> IF p \in readers THEN Append(inbox[p], rec) ELSE inbox[p]]

\* The oldest record of p takes its place in the topic.  What p sent before
\* it was lost may still arrive.
Publish(p) ==
  LET readers == {q \in Audience(p) : joined[q]} IN
  /\ outbox[p] # <<>>
  /\ \A q \in readers : Len(inbox[q]) < MaxInbox
  /\ inbox' = Deliver(readers, Head(outbox[p]))
  /\ outbox' = [outbox EXCEPT ![p] = Tail(@)]
  /\ UNCHANGED <<conn, joined>>

\* ... or it does not: the producer does not retry.
Lose(p) ==
  /\ conn[p] \in {"broken", "closed"}
  /\ outbox[p] # <<>>
  /\ outbox' = [outbox EXCEPT ![p] = Tail(@)]
  /\ UNCHANGED <<conn, joined, inbox>>

\* The page handles the oldest record on its way to it.
Take(p) ==
  /\ ReadyState1(p)
  /\ inbox[p] # <<>>
  /\ inbox' = [inbox EXCEPT ![p] = Tail(@)]
  /\ UNCHANGED <<conn, joined, outbox>>

\* The server side of the connection dies.  Only what had already been
\* written to the socket can still reach the page.
Break(p) ==
  /\ p \in Fragile
  /\ conn[p] = "open"
  /\ conn' = [conn EXCEPT ![p] = "broken"]
  /\ joined' = [joined EXCEPT ![p] = FALSE]
  /\ \E n \in 0..Len(inbox[p]) :
       inbox' = [inbox EXCEPT ![p] = SubSeq(@, 1, n)]
  /\ UNCHANGED outbox

\* The page learns that its connection is gone.  It never opens another one.
Close(p) ==
  /\ p \in Fragile
  /\ conn[p] \in {"open", "broken"}
  /\ conn' = [conn EXCEPT ![p] = "closed"]
  /\ joined' = [joined EXCEPT ![p] = FALSE]
  /\ inbox' = [inbox EXCEPT ![p] = <<>>]
  /\ UNCHANGED outbox

\* What happens between the pages, whatever they do.
Transport ==
  \E p \in Page :
    \/ Accept(p) \/ Join(p) \/ Publish(p) \/ Lose(p) \/ Break(p) \/ Close(p)

FeedNext ==
  \/ Transport
  \/ \E p \in Page : Take(p) \/ \E rec \in Record : Send(p, rec)

FeedSpec == FeedInit /\ [][FeedNext]_feedVars

-----------------------------------------------------------------------------
\* xs ends with ys.
EndsWith(xs, ys) ==
  /\ Len(ys) <= Len(xs)
  /\ SubSeq(xs, Len(xs) - Len(ys) + 1, Len(xs)) = ys

\* Two pages in position on the same topic have the same records ahead of
\* them, in the same order: the one that is behind has some more of them in
\* front.  Two riders can therefore not see the calls of two drivers in
\* opposite orders (HomeController.scala: one topic, one key).
SameOrder ==
  \A p \in Page : \A q \in Page :
    joined[p] /\ joined[q] /\ Audience(p) = Audience(q) =>
      EndsWith(inbox[p], inbox[q]) \/ EndsWith(inbox[q], inbox[p])
=============================================================================
