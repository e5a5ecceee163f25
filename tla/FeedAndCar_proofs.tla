-------------------------- MODULE FeedAndCar_proofs --------------------------
(***************************************************************************)
(* Proofs about what the pages rest on: the feed between them, and the car *)
(* that the driver page moves.                                             *)
(*                                                                         *)
(* RideFeed keeps the readers of a topic in step, whatever the pages send  *)
(* and whichever connections are lost.                                     *)
(*                                                                         *)
(* CarDriving's invariant remembers that a cleared interval has used up    *)
(* its route, that every step was taken before the end of its route, and   *)
(* ties the marker to the last step on the route that it is on.            *)
(***************************************************************************)
EXTENDS RideFeed, CarDriving, SequenceTheorems, TLAPS

\* Index by index what EndsWith says; the form the provers work with.
Trails(xs, ys) ==
  /\ Len(ys) <= Len(xs)
  /\ \A i \in 1..Len(ys) : ys[i] = xs[Len(xs) - Len(ys) + i]

InStep(xs, ys) == Trails(xs, ys) \/ Trails(ys, xs)

\* A page is in position before it has anything ahead of it.
QuietBefore ==
  \A p \in Page : conn[p] \in {"connecting", "open"} /\ ~joined[p] => inbox[p] = <<>>

ReadersInStep ==
  \A p \in Page : \A q \in Page :
    joined[p] /\ joined[q] /\ Audience(p) = Audience(q) => InStep(inbox[p], inbox[q])

FInv == FeedTypeOK /\ QuietBefore /\ ReadersInStep

-----------------------------------------------------------------------------
LEMMA TrailsEndsWith ==
  ASSUME NEW S, NEW xs \in Seq(S), NEW ys \in Seq(S)
  PROVE  Trails(xs, ys) => EndsWith(xs, ys)
<1> SUFFICES ASSUME Trails(xs, ys) PROVE EndsWith(xs, ys)
  OBVIOUS
<1> DEFINE k == Len(xs) - Len(ys)
           zs == SubSeq(xs, k + 1, Len(xs))
<1>1. k \in Nat /\ k <= Len(xs)
  BY DEF Trails
<1>2. zs \in Seq(S) /\ Len(zs) = Len(ys)
  BY <1>1
<1>3. \A i \in 1..Len(ys) : zs[i] = ys[i]
  BY <1>1 DEF Trails
<1>4. zs = ys
  BY <1>2, <1>3
<1> QED
  BY <1>4 DEF Trails, EndsWith

\* Whatever comes after the end of one comes after the end of both.
LEMMA TrailsAppend ==
  ASSUME NEW S, NEW xs \in Seq(S), NEW ys \in Seq(S), NEW e \in S, Trails(xs, ys)
  PROVE  Trails(Append(xs, e), Append(ys, e))
<1> DEFINE X == Append(xs, e)
           Y == Append(ys, e)
<1>1. /\ Len(X) = Len(xs) + 1 /\ Len(Y) = Len(ys) + 1
      /\ Len(xs) \in Nat /\ Len(ys) \in Nat /\ Len(ys) <= Len(xs)
  BY DEF Trails
<1>2. ASSUME NEW i \in 1..Len(Y) PROVE Y[i] = X[Len(X) - Len(Y) + i]
  <2>1. CASE i = Len(ys) + 1
    BY <1>1, <2>1
  <2>2. CASE i \in 1..Len(ys)
    <3> DEFINE j == Len(xs) - Len(ys) + i
    <3>1. j \in 1..Len(xs) /\ Len(X) - Len(Y) + i = j
      BY <1>1, <2>2
    <3>2. Y[i] = ys[i] /\ X[j] = xs[j]
      BY <2>2, <3>1
    <3>3. ys[i] = xs[j]
      BY <2>2 DEF Trails
    <3> HIDE DEF j, X, Y
    <3> QED
      BY <3>1, <3>2, <3>3
  <2> QED
    BY <1>1, <2>1, <2>2
<1> HIDE DEF X, Y
<1>3. Trails(X, Y)
  BY <1>1, <1>2 DEF Trails
<1> QED
  BY <1>3 DEF X, Y

\* The shorter one may lose its head, and the longer one too.
LEMMA TrailsTail ==
  ASSUME NEW S, NEW xs \in Seq(S), NEW ys \in Seq(S), Trails(xs, ys)
  PROVE  /\ ys # <<>> => Trails(xs, Tail(ys))
         /\ xs # <<>> => InStep(Tail(xs), ys)
<1>0. Len(xs) \in Nat /\ Len(ys) \in Nat /\ Len(ys) <= Len(xs)
  BY DEF Trails
<1>1. ASSUME ys # <<>> PROVE Trails(xs, Tail(ys))
  <2> DEFINE Y == Tail(ys)
  <2>1. /\ Len(Y) = Len(ys) - 1 /\ Len(ys) # 0
        /\ \A i \in 1..Len(Y) : Y[i] = ys[i + 1]
    BY <1>1
  <2>2. \A i \in 1..Len(Y) : ys[i + 1] = xs[Len(xs) - Len(ys) + (i + 1)]
    BY <1>0, <2>1 DEF Trails
  <2>3. \A i \in 1..Len(Y) : Len(xs) - Len(ys) + (i + 1) = Len(xs) - Len(Y) + i
    BY <1>0, <2>1
  <2> HIDE DEF Y
  <2>4. Trails(xs, Y)
    BY <1>0, <2>1, <2>2, <2>3 DEF Trails
  <2> QED
    BY <2>4 DEF Y
<1>2. ASSUME xs # <<>> PROVE InStep(Tail(xs), ys)
  <2> DEFINE X == Tail(xs)
  <2>1. /\ Len(X) = Len(xs) - 1 /\ Len(xs) # 0
        /\ \A i \in 1..Len(X) : X[i] = xs[i + 1]
    BY <1>2
  <2> HIDE DEF X
  <2>2. CASE Len(ys) < Len(xs)
    <3>1. \A i \in 1..Len(ys) : ys[i] = xs[Len(xs) - Len(ys) + i]
      BY DEF Trails
    <3>2. \A i \in 1..Len(ys) :
            /\ Len(X) - Len(ys) + i \in 1..Len(X)
            /\ Len(X) - Len(ys) + i + 1 = Len(xs) - Len(ys) + i
      BY <1>0, <2>1, <2>2
    <3>3. \A i \in 1..Len(ys) : ys[i] = X[Len(X) - Len(ys) + i]
      BY <2>1, <3>1, <3>2
    <3> QED
      BY <1>0, <2>1, <2>2, <3>3 DEF Trails, InStep, X
  <2>3. CASE Len(ys) = Len(xs)
    <3>1. \A j \in 1..Len(ys) : ys[j] = xs[j]
      BY <1>0, <2>3 DEF Trails
    <3>2. \A i \in 1..Len(X) : /\ i + 1 \in 1..Len(ys)
                               /\ Len(ys) - Len(X) + i = i + 1
      BY <1>0, <2>1, <2>3
    <3>3. \A i \in 1..Len(X) : X[i] = ys[Len(ys) - Len(X) + i]
      BY <2>1, <3>1, <3>2
    <3> QED
      BY <1>0, <2>1, <2>3, <3>3 DEF Trails, InStep, X
  <2> QED
    BY <1>0, <2>2, <2>3
<1> QED
  BY <1>1, <1>2

\* Two readers stay in step when both get a record, or one handles one.
LEMMA InStepAppend ==
  ASSUME NEW S, NEW xs \in Seq(S), NEW ys \in Seq(S), NEW e \in S, InStep(xs, ys)
  PROVE  InStep(Append(xs, e), Append(ys, e))
BY TrailsAppend DEF InStep

LEMMA InStepTail ==
  ASSUME NEW S, NEW xs \in Seq(S), NEW ys \in Seq(S), InStep(xs, ys), xs # <<>>
  PROVE  InStep(Tail(xs), ys) /\ InStep(ys, Tail(xs))
BY TrailsTail DEF InStep

LEMMA InStepSelf ==
  ASSUME NEW S, NEW xs \in Seq(S)
  PROVE  InStep(xs, xs) /\ InStep(xs, <<>>) /\ InStep(<<>>, xs)
BY DEF InStep, Trails

-----------------------------------------------------------------------------
LEMMA FInvInit == FeedInit => FInv
<1> SUFFICES ASSUME FeedInit PROVE FInv
  OBVIOUS
<1>1. FeedTypeOK
  BY DEF FeedInit, FeedTypeOK, ConnState
<1> QED
  BY <1>1 DEF FeedInit, FInv, QuietBefore, ReadersInStep

\* The oldest record of a queue, and the rest of it.
LEMMA QueueSplit ==
  ASSUME NEW S, NEW s \in Seq(S), s # <<>>
  PROVE  Head(s) \in S /\ Tail(s) \in Seq(S)
OBVIOUS

LEMMA PublishStep ==
  ASSUME FInv, NEW p \in Page, Publish(p)
  PROVE  FInv'
<1> DEFINE rec == Head(outbox[p])
           readers == {q \in Audience(p) : joined[q]}
<1>1. /\ outbox[p] # <<>>
      /\ inbox' = [q \in Page |->
                     IF q \in readers THEN Append(inbox[q], rec) ELSE inbox[q]]
      /\ outbox' = [outbox EXCEPT ![p] = Tail(@)]
      /\ UNCHANGED <<conn, joined>>
  BY DEF Publish, Deliver
<1>2. rec \in Record /\ Tail(outbox[p]) \in Seq(Record)
  BY <1>1, QueueSplit DEF FInv, FeedTypeOK
<1>3. \A q \in Page : inbox[q] \in Seq(Record) /\ Append(inbox[q], rec) \in Seq(Record)
  BY <1>2 DEF FInv, FeedTypeOK
<1> HIDE DEF rec
<1>4. FeedTypeOK'
  BY <1>1, <1>2, <1>3 DEF FInv, FeedTypeOK
<1>5. QuietBefore'
  BY <1>1 DEF FInv, QuietBefore
<1>6. ASSUME NEW q \in Page, NEW r \in Page, joined[q], joined[r],
             Audience(q) = Audience(r)
      PROVE  InStep(inbox'[q], inbox'[r])
  <2>1. q \in readers <=> r \in readers
    BY <1>6, PagesAssumption DEF Audience, Page
  <2>2. InStep(inbox[q], inbox[r])
    BY <1>6 DEF FInv, ReadersInStep
  <2>3. InStep(Append(inbox[q], rec), Append(inbox[r], rec))
    BY <1>2, <1>3, <2>2, InStepAppend
  <2> QED
    BY <1>1, <2>1, <2>2, <2>3
<1>7. ReadersInStep'
  BY <1>1, <1>6 DEF ReadersInStep
<1> QED
  BY <1>4, <1>5, <1>7 DEF FInv

LEMMA TakeStep ==
  ASSUME FInv, NEW p \in Page, Take(p)
  PROVE  FInv'
<1>1. /\ inbox[p] # <<>>
      /\ inbox' = [inbox EXCEPT ![p] = Tail(@)]
      /\ UNCHANGED <<conn, joined, outbox>>
  BY DEF Take
<1>2. /\ inbox \in [Page -> Seq(Record)]
      /\ \A q \in Page : inbox[q] \in Seq(Record)
      /\ Tail(inbox[p]) \in Seq(Record)
  BY <1>1, QueueSplit DEF FInv, FeedTypeOK
<1>3. FeedTypeOK'
  BY <1>1, <1>2 DEF FInv, FeedTypeOK
<1>4. QuietBefore'
  BY <1>1, <1>2 DEF FInv, QuietBefore
<1>5. ASSUME NEW q \in Page, NEW r \in Page, joined[q], joined[r],
             Audience(q) = Audience(r)
      PROVE  InStep(inbox'[q], inbox'[r])
  <2>1. InStep(inbox[q], inbox[r]) /\ InStep(inbox[r], inbox[q])
    BY <1>5 DEF FInv, ReadersInStep
  <2>2. CASE q = p /\ r = p
    BY <1>1, <1>2, <2>2, InStepSelf
  <2>3. CASE q = p /\ r # p
    BY <1>1, <1>2, <2>1, <2>3, InStepTail
  <2>4. CASE q # p /\ r = p
    BY <1>1, <1>2, <2>1, <2>4, InStepTail
  <2>5. CASE q # p /\ r # p
    BY <1>1, <1>2, <2>1, <2>5
  <2> QED
    BY <2>2, <2>3, <2>4, <2>5
<1>6. ReadersInStep'
  BY <1>1, <1>5 DEF ReadersInStep
<1> QED
  BY <1>3, <1>4, <1>6 DEF FInv

LEMMA JoinStep ==
  ASSUME FInv, NEW p \in Page, Join(p)
  PROVE  FInv'
<1>1. /\ conn[p] = "open" /\ ~joined[p]
      /\ joined' = [joined EXCEPT ![p] = TRUE]
      /\ UNCHANGED <<conn, outbox, inbox>>
  BY DEF Join
<1>2. FeedTypeOK' /\ QuietBefore'
  BY <1>1 DEF FInv, FeedTypeOK, QuietBefore
<1>3. inbox[p] = <<>> /\ \A q \in Page : inbox[q] \in Seq(Record)
  BY <1>1 DEF FInv, FeedTypeOK, QuietBefore
<1>4. ASSUME NEW q \in Page, NEW r \in Page, joined'[q], joined'[r],
             Audience(q) = Audience(r)
      PROVE  InStep(inbox[q], inbox[r])
  <2>1. CASE q = p \/ r = p
    BY <1>3, <2>1, InStepSelf
  <2>2. CASE q # p /\ r # p
    BY <1>1, <1>4, <2>2 DEF FInv, FeedTypeOK, ReadersInStep
  <2> QED
    BY <2>1, <2>2
<1>5. ReadersInStep'
  BY <1>1, <1>4 DEF ReadersInStep
<1> QED
  BY <1>2, <1>5 DEF FInv

\* A page that is cut off is no reader any more.
LEMMA CutStep ==
  ASSUME FInv, NEW p \in Page, Break(p) \/ Close(p)
  PROVE  FInv'
<1>1. PICK s \in Seq(Record) : inbox' = [inbox EXCEPT ![p] = s]
  <2>1. inbox[p] \in Seq(Record)
    BY DEF FInv, FeedTypeOK
  <2>2. CASE Break(p)
    <3>1. PICK n \in 0..Len(inbox[p]) :
            inbox' = [inbox EXCEPT ![p] = SubSeq(@, 1, n)]
      BY <2>2 DEF Break
    <3>2. SubSeq(inbox[p], 1, n) \in Seq(Record)
      BY <2>1
    <3> QED
      BY <3>1, <3>2
  <2>3. CASE Close(p)
    <3>1. inbox' = [inbox EXCEPT ![p] = <<>>]
      BY <2>3 DEF Close
    <3>2. <<>> \in Seq(Record)
      OBVIOUS
    <3> QED
      BY <3>1, <3>2, Zenon
  <2> QED
    BY <2>2, <2>3
<1>2. /\ \/ conn' = [conn EXCEPT ![p] = "broken"]
         \/ conn' = [conn EXCEPT ![p] = "closed"]
      /\ joined' = [joined EXCEPT ![p] = FALSE]
      /\ outbox' = outbox
  BY DEF Break, Close
<1>3. FeedTypeOK'
  BY <1>1, <1>2 DEF FInv, FeedTypeOK, ConnState
<1>4. QuietBefore'
  BY <1>1, <1>2 DEF FInv, FeedTypeOK, QuietBefore
<1>5. ReadersInStep'
  BY <1>1, <1>2 DEF FInv, FeedTypeOK, ReadersInStep
<1> QED
  BY <1>3, <1>4, <1>5 DEF FInv

LEMMA OtherSteps ==
  ASSUME FInv, NEW p \in Page,
         Accept(p) \/ Lose(p) \/ \E rec \in Record : Send(p, rec)
  PROVE  FInv'
<1>1. /\ UNCHANGED <<joined, inbox>>
      /\ conn' = conn \/ (conn[p] = "connecting" /\ conn' = [conn EXCEPT ![p] = "open"])
  BY DEF Accept, Lose, Send
<1>2. outbox' \in [Page -> Seq(Record)]
  <2>1. outbox \in [Page -> Seq(Record)]
    BY DEF FInv, FeedTypeOK
  <2>2. CASE Lose(p)
    BY <2>1, <2>2, QueueSplit DEF Lose
  <2>3. CASE \E rec \in Record : Send(p, rec)
    <3>1. PICK rec \in Record : Send(p, rec)
      BY <2>3
    <3>2. Append(outbox[p], rec) \in Seq(Record)
      BY <2>1
    <3> QED
      BY <2>1, <3>1, <3>2 DEF Send
  <2>4. CASE Accept(p)
    BY <2>1, <2>4 DEF Accept
  <2> QED
    BY <2>2, <2>3, <2>4
<1>3. FeedTypeOK'
  BY <1>1, <1>2 DEF FInv, FeedTypeOK, ConnState
<1>4. QuietBefore'
  BY <1>1 DEF FInv, FeedTypeOK, QuietBefore
<1>5. ReadersInStep'
  BY <1>1 DEF FInv, ReadersInStep
<1> QED
  BY <1>3, <1>4, <1>5 DEF FInv

LEMMA FInvStep == FInv /\ [FeedNext]_feedVars => FInv'
<1> SUFFICES ASSUME FInv, [FeedNext]_feedVars PROVE FInv'
  OBVIOUS
<1>1. CASE UNCHANGED feedVars
  BY <1>1 DEF feedVars, FInv, FeedTypeOK, QuietBefore, ReadersInStep
<1> QED
  BY <1>1, PublishStep, TakeStep, JoinStep, CutStep, OtherSteps
  DEF FeedNext, Transport

LEMMA FInvSameOrder == FInv => SameOrder
<1> SUFFICES ASSUME FInv, NEW p \in Page, NEW q \in Page,
                    joined[p], joined[q], Audience(p) = Audience(q)
             PROVE  EndsWith(inbox[p], inbox[q]) \/ EndsWith(inbox[q], inbox[p])
  BY DEF SameOrder
<1>1. inbox[p] \in Seq(Record) /\ inbox[q] \in Seq(Record)
  BY DEF FInv, FeedTypeOK
<1>2. InStep(inbox[p], inbox[q])
  BY DEF FInv, ReadersInStep
<1> QED
  BY <1>1, <1>2, TrailsEndsWith DEF InStep

\* Connections, outboxes and inboxes keep their types, whatever is lost.
THEOREM FeedTypeCorrect == FeedSpec => []FeedTypeOK
<1>1. FeedSpec => []FInv
  BY FInvInit, FInvStep, PTL DEF FeedSpec
<1>2. FInv => FeedTypeOK
  BY DEF FInv
<1> QED
  BY <1>1, <1>2, PTL

\* Two readers of one topic have the same records ahead of them, in the same
\* order, one of them perhaps with some more in front.
THEOREM AlwaysSameOrder == FeedSpec => []SameOrder
<1>1. FeedSpec => []FInv
  BY FInvInit, FInvStep, PTL DEF FeedSpec
<1> QED
  BY <1>1, FInvSameOrder, PTL

-----------------------------------------------------------------------------
(* The car.                                                                *)

\* The routes whose interval has not been cleared, in whatever order.
InLine == {running[i] : i \in 1..Len(running)}

\* A route that has not arrived has not been driven, one whose interval has been
\* cleared has been driven to its end.
UsedUp ==
  \A n \in Route :
    /\ n > routes => duration[n] = 0 /\ traveled[n] = 0
    /\ n <= routes /\ n \notin InLine => AtEnd(n)

\* The last step on a route was taken before its end.
SteppedBeforeEnd ==
  \A n \in Route :
    traveled[n] # 0 =>
      LET left == duration[n] - 10 * (traveled[n] - 1)
      IN  left > 0 \/ (left = 0 /\ short[n])

\* The marker is where the last tick of its route has put it.
MarkerTrails ==
  marker # Parked =>
    /\ marker.route \in 1..routes
    /\ marker.at = traveled[marker.route] - 1

IInv == TypeOK /\ UsedUp /\ SteppedBeforeEnd /\ MarkerTrails

-----------------------------------------------------------------------------
LEMMA InitHolds == Init => IInv
  BY RoutesAssumption, DurationsAssumption
     DEF Init, IInv, TypeOK, UsedUp, SteppedBeforeEnd, MarkerTrails, Parked, Route

LEMMA DurationsAreNumbers ==
  ASSUME TypeOK
  PROVE  \A n \in Route : duration[n] \in Nat
<1> TAKE n \in Route
<1>1. duration[n] \in Durations \cup {0}
  BY DEF TypeOK
<1>2. CASE duration[n] \in Durations
  BY <1>2, DurationsAssumption, Zenon
<1>3. CASE duration[n] = 0
  BY <1>3
<1> QED BY <1>1, <1>2, <1>3

LEMMA StartHolds ==
  ASSUME IInv, NEW tenths \in Durations, NEW below \in BOOLEAN, StartDriving(tenths, below)
  PROVE  IInv'
<1>1. /\ tenths \in Nat /\ routes \in Nat /\ routes + 1 \in Route
      /\ routes' = routes + 1
      /\ running \in Seq(1..routes)
  BY RoutesAssumption, DurationsAssumption DEF IInv, TypeOK, StartDriving, Route
<1>2. duration[routes + 1] = 0 /\ traveled[routes + 1] = 0
  BY <1>1 DEF IInv, TypeOK, UsedUp, Route
<1>3. running' = Append(running, routes + 1) /\ running' \in Seq(1..routes')
  <2>1. running \in Seq(1..(routes + 1))
    BY <1>1
  <2> QED BY <1>1, <2>1 DEF StartDriving
<1>4. TypeOK'
  BY <1>1, <1>2, <1>3 DEF IInv, TypeOK, StartDriving, Route
<1>5. InLine \subseteq InLine' /\ routes + 1 \in InLine'
  BY <1>1, <1>3 DEF InLine
<1>6. \A n \in Route : n # routes + 1 =>
        duration'[n] = duration[n] /\ short'[n] = short[n] /\ traveled'[n] = traveled[n]
  BY <1>1 DEF IInv, TypeOK, StartDriving
<1>7. UsedUp'
  <2> SUFFICES ASSUME NEW n \in Route
               PROVE  /\ n > routes' => duration'[n] = 0 /\ traveled'[n] = 0
                      /\ n <= routes' /\ n \notin InLine' => AtEnd(n)'
    BY DEF UsedUp
  <2>1. CASE n = routes + 1
    BY <2>1, <1>1, <1>5
  <2>2. CASE n # routes + 1
    <3>1. /\ n > routes => duration[n] = 0 /\ traveled[n] = 0
          /\ n <= routes /\ n \notin InLine => AtEnd(n)
      BY DEF IInv, UsedUp
    <3>2. n \in Int /\ (n > routes' => n > routes) /\ (n <= routes' => n <= routes)
      BY <1>1, <2>2 DEF Route
    <3>3. AtEnd(n) => AtEnd(n)'
      BY <1>6, <2>2 DEF AtEnd
    <3> QED BY <1>5, <1>6, <2>2, <3>1, <3>2, <3>3
  <2> QED BY <2>1, <2>2
<1>8. SteppedBeforeEnd'
  <2>1. traveled' = traveled
    BY DEF StartDriving
  <2> QED BY <1>1, <1>2, <1>6, <2>1 DEF IInv, SteppedBeforeEnd
<1>9. MarkerTrails'
  BY <1>1 DEF IInv, TypeOK, MarkerTrails, StartDriving, Parked, Route
<1> QED BY <1>4, <1>7, <1>8, <1>9 DEF IInv

\* The queue without its first route, and with this route at its end again.
LEMMA QueueMoves ==
  ASSUME IInv, running # <<>>
  PROVE  /\ Head(running) \in 1..routes
         /\ Tail(running) \in Seq(1..routes)
         /\ Append(Tail(running), Head(running)) \in Seq(1..routes)
         /\ \A n \in InLine : n # Head(running) =>
              \E i \in 1..Len(Tail(running)) : Tail(running)[i] = n
         /\ \A n \in InLine :
              \E i \in 1..Len(Append(Tail(running), Head(running))) :
                Append(Tail(running), Head(running))[i] = n
<1>1. running \in Seq(1..routes) /\ Len(running) \in Nat /\ Len(running) > 0
  BY DEF IInv, TypeOK
<1>2. /\ Head(running) = running[1] /\ running[1] \in 1..routes
      /\ Tail(running) \in Seq(1..routes) /\ Len(Tail(running)) = Len(running) - 1
      /\ \A i \in 1..(Len(running) - 1) : Tail(running)[i] = running[i + 1]
  <2>1. /\ Head(running) \in 1..routes /\ Tail(running) \in Seq(1..routes)
        /\ Len(Tail(running)) = Len(running) - 1
        /\ \A i \in 1..Len(Tail(running)) : Tail(running)[i] = running[i + 1]
    BY <1>1, HeadTailProperties
  <2>2. Head(running) = running[1]
    BY <1>1
  <2> QED BY <2>1, <2>2
<1> DEFINE turned == Append(Tail(running), Head(running))
<1>3. /\ turned \in Seq(1..routes) /\ Len(turned) = Len(running)
      /\ turned[Len(running)] = Head(running)
      /\ \A i \in 1..(Len(running) - 1) : turned[i] = running[i + 1]
  BY <1>1, <1>2
<1>4. ASSUME NEW n \in InLine, n # Head(running)
      PROVE  \E i \in 1..(Len(running) - 1) : running[i + 1] = n
  <2>1. PICK i \in 1..Len(running) : running[i] = n
    BY DEF InLine
  <2>2. i # 1
    BY <2>1, <1>2, <1>4
  <2>3. i - 1 \in 1..(Len(running) - 1) /\ (i - 1) + 1 = i
    BY <2>1, <2>2, <1>1
  <2> QED BY <2>1, <2>3
<1>5. ASSUME NEW n \in InLine
      PROVE  \E i \in 1..Len(turned) : turned[i] = n
  <2>1. CASE n = Head(running)
    <3>1. Len(running) \in 1..Len(turned) /\ turned[Len(running)] = n
      BY <2>1, <1>1, <1>3
    <3> QED BY <3>1
  <2>2. CASE n # Head(running)
    <3>1. PICK i \in 1..(Len(running) - 1) : running[i + 1] = n
      BY <2>2, <1>4
    <3>2. i \in 1..Len(turned) /\ turned[i] = n
      BY <3>1, <1>1, <1>3
    <3> QED BY <3>2
  <2> QED BY <2>1, <2>2
<1>6. \A n \in InLine : n # Head(running) =>
        \E i \in 1..Len(Tail(running)) : Tail(running)[i] = n
  <2> SUFFICES ASSUME NEW n \in InLine, n # Head(running)
               PROVE  \E i \in 1..Len(Tail(running)) : Tail(running)[i] = n
    OBVIOUS
  <2>1. PICK i \in 1..(Len(running) - 1) : running[i + 1] = n
    BY <1>4
  <2>2. i \in 1..Len(Tail(running)) /\ Tail(running)[i] = n
    BY <1>2, <2>1
  <2> QED BY <2>2
<1> HIDE DEF turned
<1>7. /\ turned \in Seq(1..routes)
      /\ \A n \in InLine : \E i \in 1..Len(turned) : turned[i] = n
  BY <1>3, <1>5
<1>8. Head(running) \in 1..routes /\ Tail(running) \in Seq(1..routes)
  BY <1>2
<1> QED BY <1>6, <1>7, <1>8, Zenon DEF turned

LEMMA ClearHolds ==
  ASSUME IInv, running # <<>>, Clear(Head(running)), UNCHANGED <<routes, duration, short>>
  PROVE  IInv'
<1> DEFINE n == Head(running)
<1>1. /\ AtEnd(n)
      /\ running' = Tail(running)
      /\ UNCHANGED <<traveled, marker, routes, duration, short>>
  BY DEF Clear
<1>2. running' \in Seq(1..routes) /\ InLine \subseteq InLine' \cup {n}
  BY <1>1, QueueMoves DEF InLine
<1>3. TypeOK'
  BY <1>1, <1>2 DEF IInv, TypeOK
<1>4. UsedUp'
  BY <1>1, <1>2 DEF IInv, UsedUp, AtEnd
<1>5. SteppedBeforeEnd' /\ MarkerTrails'
  BY <1>1 DEF IInv, SteppedBeforeEnd, MarkerTrails
<1> QED BY <1>3, <1>4, <1>5 DEF IInv

LEMMA MoveHolds ==
  ASSUME IInv, running # <<>>, Move(Head(running)), UNCHANGED <<routes, duration, short>>
  PROVE  IInv'
<1> DEFINE n == Head(running)
<1>1. /\ n \in 1..routes /\ n \in Route /\ routes \in 0..MaxRoutes
      /\ traveled[n] \in Nat /\ duration[n] \in Nat /\ short[n] \in BOOLEAN
  <2>1. n \in 1..routes
    BY QueueMoves, Zenon
  <2> HIDE DEF n
  <2>2. n \in Route /\ routes \in 0..MaxRoutes
    BY <2>1, RoutesAssumption DEF IInv, TypeOK, Route
  <2>3. duration[n] \in Nat
    BY <2>2, DurationsAreNumbers DEF IInv
  <2> QED BY <2>1, <2>2, <2>3 DEF IInv, TypeOK
<1> HIDE DEF n
<1>2. /\ ~AtEnd(n)
      /\ marker' = [route |-> n, at |-> traveled[n]]
      /\ traveled' = [traveled EXCEPT ![n] = traveled[n] + 1]
      /\ running' = Append(Tail(running), n)
      /\ UNCHANGED <<routes, duration, short>>
  BY DEF Move, Along, n
<1>3. running' \in Seq(1..routes) /\ InLine \subseteq InLine'
  BY <1>2, QueueMoves DEF InLine, n
<1>4. TypeOK'
  BY <1>1, <1>2, <1>3, RoutesAssumption DEF IInv, TypeOK, Route
<1>5. n \in InLine
  <2>1. running \in Seq(1..routes) /\ Len(running) > 0
    BY DEF IInv, TypeOK
  <2> QED BY <2>1 DEF InLine, n
<1>6. UsedUp'
  BY <1>1, <1>2, <1>3, <1>5 DEF IInv, TypeOK, UsedUp, AtEnd, Route
<1>7. SteppedBeforeEnd'
  <2>1. LET left == duration[n] - 10 * traveled[n]
        IN  left > 0 \/ (left = 0 /\ short[n])
    <3>1. ~(10 * traveled[n] > duration[n]) /\ (10 * traveled[n] = duration[n] => short[n])
      BY <1>2, Zenon DEF AtEnd
    <3> QED BY <1>1, <3>1
  <2>2. traveled'[n] - 1 = traveled[n] /\ (\A m \in Route : m # n => traveled'[m] = traveled[m])
    BY <1>1, <1>2 DEF IInv, TypeOK
  <2> QED BY <1>2, <2>1, <2>2 DEF IInv, SteppedBeforeEnd
<1>8. MarkerTrails'
  BY <1>1, <1>2 DEF IInv, TypeOK, MarkerTrails, Parked, Route
<1> QED BY <1>4, <1>6, <1>7, <1>8 DEF IInv

LEMMA Invariance == Spec => []IInv
<1>1. IInv /\ [Next]_vars => IInv'
  <2> SUFFICES ASSUME IInv, [Next]_vars PROVE IInv' OBVIOUS
  <2>1. CASE \E tenths \in Durations, below \in BOOLEAN : StartDriving(tenths, below)
    BY <2>1, StartHolds
  <2>2. CASE Tick
    BY <2>2, ClearHolds, MoveHolds DEF Tick
  <2>3. CASE UNCHANGED vars
    BY <2>3 DEF vars, IInv, TypeOK, UsedUp, SteppedBeforeEnd, MarkerTrails, InLine, AtEnd
  <2> QED BY <2>1, <2>2, <2>3 DEF Next
<1> QED BY InitHolds, <1>1, PTL DEF Spec

\* Only intervals of routes that have arrived are in the queue, and the car is
\* never on a route that has not.
THEOREM TypeCorrect == Spec => []TypeOK
  BY Invariance, PTL DEF IInv

\* However many intervals have pulled at the car, when all of them are cleared
\* it stands in the last second of a route, and at its very end only if the sum
\* of its steps has fallen short of the distance (driver.scala.html 98-107).
THEOREM AlwaysRestsInLastSecond == Spec => []RestsInLastSecond
<1>1. ASSUME IInv, running = <<>>, marker # Parked
      PROVE  LET left == duration[marker.route] - 10 * marker.at
             IN  left \in 0..10 /\ (left = 0 => short[marker.route])
  <2> DEFINE n == marker.route
  <2>1. n \in Route /\ n <= routes /\ marker.at = traveled[n] - 1
    BY <1>1, RoutesAssumption DEF IInv, TypeOK, MarkerTrails, Route
  <2>2. traveled[n] \in Nat /\ duration[n] \in Nat /\ traveled[n] # 0
    BY <1>1, <2>1, DurationsAreNumbers DEF IInv, TypeOK
  <2>3. AtEnd(n)
    BY <1>1, <2>1 DEF IInv, UsedUp, InLine
  <2>4. LET left == duration[n] - 10 * (traveled[n] - 1)
        IN  left > 0 \/ (left = 0 /\ short[n])
    BY <1>1, <2>1, <2>2 DEF IInv, SteppedBeforeEnd
  <2> HIDE DEF n
  <2>5. /\ duration[n] - 10 * (traveled[n] - 1) \in 0..10
        /\ duration[n] - 10 * (traveled[n] - 1) = 0 => short[n]
    BY <2>2, <2>3, <2>4 DEF AtEnd
  <2> QED BY <2>1, <2>5 DEF n
<1>2. IInv => RestsInLastSecond
  BY <1>1 DEF RestsInLastSecond
<1> QED BY Invariance, <1>2, PTL
==============================================================================
