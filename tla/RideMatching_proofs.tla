------------------------- MODULE RideMatching_proofs -------------------------
(***************************************************************************)
(* Proofs about RideMatching: its inductive invariant and what follows     *)
(* from it for every number of drivers, riders and places, whatever the    *)
(* bounds of the queues and whichever connections are lost.                *)
(***************************************************************************)
EXTENDS RideMatching, TLAPS

\* A page only sends what has really happened: a rider its own places, a
\* driver the riders it has clicked on and routes to where they have been.
TrueDriverRecord ==
  {rec \in DriverRecord :
     /\ rec.rider # NULL => rec.rider \in chosen[rec.driver]
     /\ rec.route # NULL => /\ rec.rider # NULL
                            /\ rec.route \in been[rec.rider]}

TrueRiderRecord == {rec \in RiderRecord : rec.lngLat \in been[rec.rider]}

\* The parts of the inductive invariant.
MailInv == Carries(TrueDriverRecord, TrueRiderRecord, outbox, inbox)

RiderInv ==
  \A r \in Riders :
    /\ been[r] # {} => rMarker[r] # NULL
    /\ rMarker[r] # NULL => rMarker[r] \in been[r]
    /\ driver[r] = NULL <=> rStatus[r] # "pickup"
    /\ driver[r] # NULL => /\ r \in chosen[driver[r]]
                           /\ rDestination[r] = rMarker[r]

DriverInv ==
  \A d \in Drivers :
    /\ \A r \in Riders :
         /\ riderMarkers[d][r] # NULL => /\ riderMarkers[d][r] \in been[r]
                                         /\ firstLngLat[d][r] \in been[r]
         /\ r \in chosen[d] => been[r] # {}
    /\ rider[d] = NULL => chosen[d] = {}
    /\ rider[d] # NULL => rider[d] \in chosen[d]
    /\ requested[d] => /\ rider[d] # NULL
                       /\ dDestination[d] \in been[rider[d]]
                       /\ dMarker[d] # NULL

IInv == Feed!FeedTypeOK /\ MailInv /\ PageTypeOK /\ RiderInv /\ DriverInv

-----------------------------------------------------------------------------
(* Sequences.                                                              *)

\* A sequence over a set is one over every larger set.
LEMMA SeqMono ==
  ASSUME NEW S, NEW T, S \subseteq T, NEW s \in Seq(S)
  PROVE  s \in Seq(T)
  OBVIOUS

\* What the queues of RideFeed do to a sequence keeps it over its set.
LEMMA SeqStep ==
  ASSUME NEW S, NEW s \in Seq(S)
  PROVE  /\ \A e \in S : Append(s, e) \in Seq(S)
         /\ s # <<>> => Head(s) \in S /\ Tail(s) \in Seq(S)
         /\ \A n \in 0..Len(s) : SubSeq(s, 1, n) \in Seq(S)
  OBVIOUS

\* An element of a sequence over a set is in the set.
LEMMA SeqElems ==
  ASSUME NEW S, NEW s \in Seq(S)
  PROVE  Elems(s) \subseteq S
  BY DEF Elems

-----------------------------------------------------------------------------
(* What the actions of RideFeed do to queues that carry something.         *)

\* Whatever the network does, queues carry on carrying the same.
LEMMA TransportCarries ==
  ASSUME NEW DS, NEW RS, Feed!FeedTypeOK, Carries(DS, RS, outbox, inbox),
         Feed!Transport
  PROVE  Feed!FeedTypeOK' /\ Carries(DS, RS, outbox', inbox')
<1>1. PICK p \in Feed!Page :
        \/ Feed!Accept(p) \/ Feed!Join(p) \/ Feed!Publish(p)
        \/ Feed!Lose(p) \/ Feed!Break(p) \/ Feed!Close(p)
  BY DEF Feed!Transport
<1>2. CASE Feed!Accept(p) \/ Feed!Join(p)
  BY <1>2 DEF Feed!Accept, Feed!Join, Feed!FeedTypeOK, Feed!ConnState, Carries
<1>3. CASE Feed!Publish(p)
  <2> DEFINE rec == Head(outbox[p])
             readers == {q \in Feed!Audience(p) : joined[q]}
  <2>1. /\ outbox[p] # <<>>
        /\ inbox' = [q \in Feed!Page |->
                       IF q \in readers THEN Append(inbox[q], rec) ELSE inbox[q]]
        /\ outbox' = [outbox EXCEPT ![p] = Tail(@)]
        /\ UNCHANGED <<conn, joined>>
    BY <1>3 DEF Feed!Publish, Feed!Deliver
  <2>2. /\ outbox[p] \in Seq(Records)
        /\ rec \in Records /\ Tail(outbox[p]) \in Seq(Records)
    BY <2>1, SeqStep DEF Feed!FeedTypeOK, Records
  <2>3. \A q \in Feed!Page : Append(inbox[q], rec) \in Seq(Records)
    BY <2>2, SeqStep DEF Feed!FeedTypeOK, Records
  <2>4. Feed!FeedTypeOK'
    BY <2>1, <2>2, <2>3 DEF Feed!FeedTypeOK, Records
  <2>5. CASE p \in Drivers
    <3>1. /\ rec \in DS /\ Tail(outbox[p]) \in Seq(DS)
          /\ readers \subseteq Riders
      BY <2>5, <2>1, SeqStep DEF Carries, Feed!Audience
    <3>2. \A r \in Riders : Append(inbox[r], rec) \in Seq(DS)
      BY <3>1, SeqStep DEF Carries
    <3> QED
      BY <2>1, <2>4, <2>5, <3>1, <3>2, PagesAssumption
      DEF Carries, Feed!Page, Feed!FeedTypeOK
  <2>6. CASE p \in Riders
    <3>1. /\ rec \in RS /\ Tail(outbox[p]) \in Seq(RS)
          /\ readers \subseteq Drivers
      BY <2>6, <2>1, PagesAssumption, SeqStep DEF Carries, Feed!Audience
    <3>2. \A d \in Drivers : Append(inbox[d], rec) \in Seq(RS)
      BY <3>1, SeqStep DEF Carries
    <3> QED
      BY <2>1, <2>4, <2>6, <3>1, <3>2, PagesAssumption
      DEF Carries, Feed!Page, Feed!FeedTypeOK
  <2> QED
    BY <2>5, <2>6 DEF Feed!Page
<1>4. CASE Feed!Lose(p)
  <2>1. /\ outbox[p] # <<>>
        /\ outbox' = [outbox EXCEPT ![p] = Tail(@)]
        /\ UNCHANGED <<conn, joined, inbox>>
    BY <1>4 DEF Feed!Lose
  <2>2. Tail(outbox[p]) \in Seq(Records)
    BY <2>1, SeqStep DEF Feed!FeedTypeOK, Records
  <2>3. /\ p \in Drivers => Tail(outbox[p]) \in Seq(DS)
        /\ p \in Riders => Tail(outbox[p]) \in Seq(RS)
    BY <2>1, SeqStep DEF Carries
  <2> QED
    BY <2>1, <2>2, <2>3 DEF Carries, Feed!Page, Feed!FeedTypeOK, Records
<1>5. CASE Feed!Break(p) \/ Feed!Close(p)
  <2>1. PICK n \in 0..Len(inbox[p]) :
          inbox' = [inbox EXCEPT ![p] = SubSeq(@, 1, n)]
    <3>1. inbox[p] \in Seq(Records)
      BY DEF Feed!FeedTypeOK, Records
    <3>2. CASE Feed!Break(p)
      BY <3>2 DEF Feed!Break
    <3>3. CASE Feed!Close(p)
      <4>1. SubSeq(inbox[p], 1, 0) = <<>> /\ 0 \in 0..Len(inbox[p])
        BY <3>1
      <4> QED
        BY <3>3, <4>1 DEF Feed!Close
    <3> QED
      BY <1>5, <3>2, <3>3
  <2>2. /\ conn' \in [Feed!Page -> Feed!ConnState]
        /\ joined' \in [Feed!Page -> BOOLEAN]
        /\ outbox' = outbox
    BY <1>5 DEF Feed!Break, Feed!Close, Feed!FeedTypeOK, Feed!ConnState
  <2>3. SubSeq(inbox[p], 1, n) \in Seq(Records)
    BY <2>1, SeqStep DEF Feed!FeedTypeOK, Records
  <2>4. /\ p \in Drivers => SubSeq(inbox[p], 1, n) \in Seq(RS)
        /\ p \in Riders => SubSeq(inbox[p], 1, n) \in Seq(DS)
    BY <2>1, SeqStep DEF Carries
  <2> QED
    BY <2>1, <2>2, <2>3, <2>4 DEF Carries, Feed!Page, Feed!FeedTypeOK, Records
<1> QED
  BY <1>1, <1>2, <1>3, <1>4, <1>5

\* A driver's queues carry what it sends.
LEMMA DriverSendCarries ==
  ASSUME NEW DS, NEW RS, Feed!FeedTypeOK, Carries(DS, RS, outbox, inbox),
         NEW d \in Drivers, NEW rec \in DS, rec \in Records, Feed!Send(d, rec)
  PROVE  Feed!FeedTypeOK' /\ Carries(DS, RS, outbox', inbox')
<1>1. /\ Append(outbox[d], rec) \in Seq(Records)
      /\ Append(outbox[d], rec) \in Seq(DS)
  BY SeqStep DEF Feed!FeedTypeOK, Feed!Page, Records, Carries
<1> QED
  BY <1>1, PagesAssumption
  DEF Feed!Send, Feed!FeedTypeOK, Feed!Page, Carries, Records

\* A rider's queues carry what it sends.
LEMMA RiderSendCarries ==
  ASSUME NEW DS, NEW RS, Feed!FeedTypeOK, Carries(DS, RS, outbox, inbox),
         NEW r \in Riders, NEW rec \in RS, rec \in Records, Feed!Send(r, rec)
  PROVE  Feed!FeedTypeOK' /\ Carries(DS, RS, outbox', inbox')
<1>1. /\ Append(outbox[r], rec) \in Seq(Records)
      /\ Append(outbox[r], rec) \in Seq(RS)
  BY SeqStep DEF Feed!FeedTypeOK, Feed!Page, Records, Carries
<1> QED
  BY <1>1, PagesAssumption
  DEF Feed!Send, Feed!FeedTypeOK, Feed!Page, Carries, Records

\* A page takes what its queue carries, and the rest stays as it is.
LEMMA TakeCarries ==
  ASSUME NEW DS, NEW RS, Feed!FeedTypeOK, Carries(DS, RS, outbox, inbox),
         NEW p \in Feed!Page, Feed!Take(p)
  PROVE  /\ Feed!FeedTypeOK' /\ Carries(DS, RS, outbox', inbox')
         /\ p \in Drivers => Head(inbox[p]) \in RS
         /\ p \in Riders => Head(inbox[p]) \in DS
<1>1. /\ inbox[p] # <<>>
      /\ inbox' = [inbox EXCEPT ![p] = Tail(@)]
      /\ UNCHANGED <<conn, joined, outbox>>
  BY DEF Feed!Take
<1>2. Tail(inbox[p]) \in Seq(Records)
  BY <1>1, SeqStep DEF Feed!FeedTypeOK, Records
<1>3. /\ p \in Drivers => Tail(inbox[p]) \in Seq(RS) /\ Head(inbox[p]) \in RS
      /\ p \in Riders => Tail(inbox[p]) \in Seq(DS) /\ Head(inbox[p]) \in DS
  BY <1>1, SeqStep DEF Carries
<1> QED
  BY <1>1, <1>2, <1>3 DEF Carries, Feed!Page, Feed!FeedTypeOK, Records

\* What carries true records carries records.
LEMMA CarriesMono ==
  ASSUME NEW DS, NEW RS, NEW DT, NEW RT, DS \subseteq DT, RS \subseteq RT,
         NEW out, NEW in, Carries(DS, RS, out, in)
  PROVE  Carries(DT, RT, out, in)
BY SeqMono DEF Carries

-----------------------------------------------------------------------------
(* The inductive invariant.                                                *)

USE DEF Maybe, Status

\* The invariant includes the type invariant.
LEMMA IInvTypeOK == IInv => TypeOK
<1> SUFFICES ASSUME IInv PROVE TypeOK
  OBVIOUS
<1>1. TrueDriverRecord \subseteq DriverRecord
  BY DEF TrueDriverRecord
<1>2. TrueRiderRecord \subseteq RiderRecord
  BY DEF TrueRiderRecord
<1> QED
  BY <1>1, <1>2, CarriesMono DEF IInv, MailInv, TypeOK

\* Nothing has been sent and nobody has clicked at the start.
LEMMA IInvInit == Init => IInv
<1> SUFFICES ASSUME Init PROVE IInv
  OBVIOUS
<1>1. Feed!FeedTypeOK
  BY DEF Init, Feed!FeedInit, Feed!FeedTypeOK, Feed!ConnState
<1>2. MailInv
  BY DEF Init, Feed!FeedInit, Feed!Page, MailInv, Carries
<1>3. PageTypeOK
  BY DEF Init, PageTypeOK
<1>4. RiderInv /\ DriverInv
  BY DEF Init, RiderInv, DriverInv
<1> QED
  BY <1>1, <1>2, <1>3, <1>4 DEF IInv

\* True records stay true: clicks and places are only ever added.
LEMMA TruthGrows ==
  ASSUME PageTypeOK,
         \A d \in Drivers : chosen[d] \subseteq chosen'[d],
         \A r \in Riders : been[r] \subseteq been'[r]
  PROVE  /\ TrueDriverRecord \subseteq TrueDriverRecord'
         /\ TrueRiderRecord \subseteq TrueRiderRecord'
<1>1. \A rec \in DriverRecord :
        /\ rec.driver \in Drivers
        /\ rec.rider # NULL => rec.rider \in Riders
  BY DEF DriverRecord
<1>2. \A rec \in RiderRecord : rec.rider \in Riders
  BY DEF RiderRecord
<1> QED
  BY <1>1, <1>2 DEF TrueDriverRecord, TrueRiderRecord

\* A step that sends and takes nothing keeps the mail true.
LEMMA QuietMail ==
  ASSUME IInv, UNCHANGED feed,
         \A d \in Drivers : chosen[d] \subseteq chosen'[d],
         \A r \in Riders : been[r] \subseteq been'[r]
  PROVE  Feed!FeedTypeOK' /\ MailInv'
<1>1. /\ TrueDriverRecord \subseteq TrueDriverRecord'
      /\ TrueRiderRecord \subseteq TrueRiderRecord'
  BY TruthGrows DEF IInv
<1>2. UNCHANGED <<conn, joined, outbox, inbox>>
  BY DEF feed
<1>3. Carries(TrueDriverRecord', TrueRiderRecord', outbox, inbox)
  BY <1>1, CarriesMono DEF IInv, MailInv
<1> QED
  BY <1>2, <1>3 DEF IInv, MailInv, Feed!FeedTypeOK

\* A step that leaves the clicks and the places alone keeps true what is so.
LEMMA SameTruth ==
  ASSUME UNCHANGED <<chosen, been>>
  PROVE  TrueDriverRecord' = TrueDriverRecord /\ TrueRiderRecord' = TrueRiderRecord
BY DEF TrueDriverRecord, TrueRiderRecord

-----------------------------------------------------------------------------
(* Every step keeps the invariant.                                         *)

LEMMA LocateStep ==
  ASSUME IInv, NEW d \in Drivers, Locate(d) \/ Drive(d)
  PROVE  IInv'
<1>1. /\ \E at \in Road : dMarker' = [dMarker EXCEPT ![d] = at]
      /\ UNCHANGED <<feed, dStatus, rider, riderMarkers, firstLngLat,
                     dDestination, requested, chosen, riderPage>>
      /\ UNCHANGED driving
  BY DEF Locate, Drive
<1>2. Feed!FeedTypeOK' /\ MailInv'
  BY <1>1, QuietMail DEF riderPage
<1>3. PageTypeOK' /\ RiderInv' /\ DriverInv'
  BY <1>1, NullAssumption DEF IInv, PageTypeOK, RiderInv, DriverInv, riderPage
<1> QED
  BY <1>2, <1>3 DEF IInv

LEMMA ClickRiderStep ==
  ASSUME IInv, NEW d \in Drivers, NEW r \in Riders, ClickRider(d, r)
  PROVE  IInv'
<1>1. /\ riderMarkers[d][r] # NULL
      /\ dStatus' = [dStatus EXCEPT ![d] = "pickup"]
      /\ rider' = [rider EXCEPT ![d] = r]
      /\ chosen' = [chosen EXCEPT ![d] = @ \cup {r}]
      /\ UNCHANGED <<feed, dMarker, riderMarkers, firstLngLat, driving>>
      /\ UNCHANGED <<rMarker, rStatus, driver, rDestination, driverMarkers, been>>
  BY DEF ClickRider, riderPage
<1>2. \/ /\ dMarker[d] # NULL
         /\ dDestination' = [dDestination EXCEPT ![d] = firstLngLat[d][r]]
         /\ requested' = [requested EXCEPT ![d] = TRUE]
      \/ dMarker[d] = NULL /\ UNCHANGED <<dDestination, requested>>
  BY DEF ClickRider, AsksForDirections, ClickDestination
<1>3. \A e \in Drivers : chosen[e] \subseteq chosen'[e]
  BY <1>1 DEF IInv, PageTypeOK
<1>4. Feed!FeedTypeOK' /\ MailInv'
  BY <1>1, <1>3, QuietMail
<1>5. PageTypeOK'
  <2>1. /\ dStatus' \in [Drivers -> Status]
        /\ rider' \in [Drivers -> Maybe(Riders)]
        /\ chosen' \in [Drivers -> SUBSET Riders]
    BY <1>1 DEF IInv, PageTypeOK
  <2>2. /\ dDestination' \in [Drivers -> Maybe(Place)]
        /\ requested' \in [Drivers -> BOOLEAN]
    <3>1. firstLngLat[d][r] \in Maybe(Place)
      BY DEF IInv, PageTypeOK
    <3> QED
      BY <1>2, <3>1 DEF IInv, PageTypeOK
  <2> QED
    BY <1>1, <2>1, <2>2 DEF IInv, PageTypeOK
<1>6. RiderInv'
  BY <1>1, <1>3 DEF IInv, RiderInv, PageTypeOK
<1>7. DriverInv'
  <2> SUFFICES ASSUME NEW e \in Drivers PROVE DriverInv!(e)'
    BY DEF DriverInv
  <2>1. CASE e # d
    BY <1>1, <1>2, <2>1 DEF IInv, DriverInv, PageTypeOK
  <2>2. CASE e = d
    <3>1. /\ rider'[d] = r /\ r # NULL
          /\ chosen'[d] = chosen[d] \cup {r}
          /\ firstLngLat[d][r] \in been[r]
      BY <1>1, NullAssumption DEF IInv, DriverInv, PageTypeOK
    <3>2. requested'[d] => dDestination'[d] \in been[r] /\ dMarker[d] # NULL
      BY <1>1, <1>2, <3>1 DEF IInv, DriverInv, PageTypeOK
    <3> QED
      BY <1>1, <2>2, <3>1, <3>2 DEF IInv, DriverInv
  <2> QED
    BY <2>1, <2>2
<1> QED
  BY <1>4, <1>5, <1>6, <1>7 DEF IInv

LEMMA RouteStep ==
  ASSUME IInv, NEW d \in Drivers, RouteEvent(d) \/ RouteFails(d)
  PROVE  IInv'
<1>1. /\ requested[d]
      /\ requested' = [requested EXCEPT ![d] = FALSE]
      /\ \/ driving' = [driving EXCEPT ![d] = TRUE] \/ driving' = driving
      /\ UNCHANGED <<dMarker, dStatus, rider, riderMarkers, firstLngLat,
                     dDestination, chosen>>
      /\ UNCHANGED <<rMarker, rStatus, driver, rDestination, driverMarkers, been>>
  BY DEF RouteEvent, RouteFails, riderPage
<1>2. PageTypeOK' /\ RiderInv' /\ DriverInv'
  <2>1. PageTypeOK'
    BY <1>1 DEF IInv, PageTypeOK
  <2>2. RiderInv'
    BY <1>1 DEF IInv, RiderInv
  <2>3. DriverInv'
    BY <1>1 DEF IInv, DriverInv, PageTypeOK
  <2> QED
    BY <2>1, <2>2, <2>3
<1>3. CASE RouteFails(d)
  BY <1>1, <1>2, <1>3, QuietMail DEF IInv, RouteFails
<1>4. CASE RouteEvent(d)
  <2>1. RouteRecord(d) \in TrueDriverRecord /\ RouteRecord(d) \in Records
    BY <1>1 DEF RouteRecord, TrueDriverRecord, DriverRecord, Records,
                IInv, PageTypeOK, DriverInv
  <2>2. Feed!FeedTypeOK' /\ Carries(TrueDriverRecord, TrueRiderRecord, outbox', inbox')
    BY <1>4, <2>1, DriverSendCarries DEF IInv, MailInv, RouteEvent
  <2> QED
    BY <1>1, <1>2, <2>2, SameTruth DEF IInv, MailInv
<1> QED
  BY <1>3, <1>4

LEMMA DriverPingStep ==
  ASSUME IInv, NEW d \in Drivers, DriverPing(d)
  PROVE  IInv'
<1>1. /\ UNCHANGED <<dMarker, dStatus, rider, riderMarkers, firstLngLat,
                     dDestination, requested, driving, chosen>>
      /\ UNCHANGED <<rMarker, rStatus, driver, rDestination, driverMarkers, been>>
  BY DEF DriverPing, driverPage, riderPage
<1>2. PageTypeOK' /\ RiderInv' /\ DriverInv'
  BY <1>1 DEF IInv, PageTypeOK, RiderInv, DriverInv
<1>3. DriverPingRecord(d) \in TrueDriverRecord /\ DriverPingRecord(d) \in Records
  BY DEF DriverPingRecord, TrueDriverRecord, DriverRecord, Records,
         IInv, PageTypeOK, DriverInv
<1>4. Feed!FeedTypeOK' /\ Carries(TrueDriverRecord, TrueRiderRecord, outbox', inbox')
  BY <1>3, DriverSendCarries DEF IInv, MailInv, DriverPing
<1> QED
  BY <1>1, <1>2, <1>4, SameTruth DEF IInv, MailInv

LEMMA RiderPingStep ==
  ASSUME IInv, NEW r \in Riders, RiderPing(r)
  PROVE  IInv'
<1>1. /\ UNCHANGED <<dMarker, dStatus, rider, riderMarkers, firstLngLat,
                     dDestination, requested, driving, chosen>>
      /\ UNCHANGED <<rMarker, rStatus, driver, rDestination, driverMarkers, been>>
  BY DEF RiderPing, driverPage, riderPage
<1>2. PageTypeOK' /\ RiderInv' /\ DriverInv'
  BY <1>1 DEF IInv, PageTypeOK, RiderInv, DriverInv
<1>3. RiderPingRecord(r) \in TrueRiderRecord /\ RiderPingRecord(r) \in Records
  BY DEF RiderPing, OnMap, RiderPingRecord, TrueRiderRecord, RiderRecord, Records,
         IInv, PageTypeOK, RiderInv
<1>4. Feed!FeedTypeOK' /\ Carries(TrueDriverRecord, TrueRiderRecord, outbox', inbox')
  BY <1>3, RiderSendCarries DEF IInv, MailInv, RiderPing
<1> QED
  BY <1>1, <1>2, <1>4, SameTruth DEF IInv, MailInv

LEMMA DriverOnMessageStep ==
  ASSUME IInv, NEW d \in Drivers, DriverOnMessage(d)
  PROVE  IInv'
<1> DEFINE data == Head(inbox[d])
<1>1. /\ riderMarkers' = [riderMarkers EXCEPT ![d][data.rider] = data.lngLat]
      /\ \/ /\ riderMarkers[d][data.rider] = NULL
            /\ firstLngLat' = [firstLngLat EXCEPT ![d][data.rider] = data.lngLat]
         \/ /\ riderMarkers[d][data.rider] # NULL
            /\ firstLngLat' = firstLngLat
      /\ UNCHANGED <<dMarker, dStatus, rider, dDestination, requested, driving,
                     chosen>>
      /\ UNCHANGED <<rMarker, rStatus, driver, rDestination, driverMarkers, been>>
  BY DEF DriverOnMessage, riderPage
<1>2. /\ Feed!FeedTypeOK' /\ Carries(TrueDriverRecord, TrueRiderRecord, outbox', inbox')
      /\ data \in TrueRiderRecord
  BY TakeCarries DEF IInv, MailInv, DriverOnMessage, Feed!Page
<1>3. /\ data.rider \in Riders /\ data.lngLat \in Place
      /\ data.lngLat \in been[data.rider]
  BY <1>2 DEF TrueRiderRecord, RiderRecord
<1>4. PageTypeOK'
  <2>1. riderMarkers' \in [Drivers -> [Riders -> Maybe(Place)]]
    BY <1>1, <1>3 DEF IInv, PageTypeOK
  <2>2. firstLngLat' \in [Drivers -> [Riders -> Maybe(Place)]]
    <3>1. firstLngLat \in [Drivers -> [Riders -> Maybe(Place)]]
      BY DEF IInv, PageTypeOK
    <3>2. CASE firstLngLat' = [firstLngLat EXCEPT ![d][data.rider] = data.lngLat]
      BY <1>3, <3>1, <3>2
    <3>3. CASE firstLngLat' = firstLngLat
      BY <3>1, <3>3
    <3> QED
      BY <1>1, <3>2, <3>3
  <2> QED
    BY <1>1, <2>1, <2>2 DEF IInv, PageTypeOK
<1>5. RiderInv'
  BY <1>1 DEF IInv, RiderInv
<1>6. DriverInv'
  BY <1>1, <1>3 DEF IInv, PageTypeOK, DriverInv
<1> QED
  BY <1>1, <1>2, <1>4, <1>5, <1>6, SameTruth DEF IInv, MailInv

LEMMA ClickMapStep ==
  ASSUME IInv, NEW r \in Riders, NEW at \in Place, ClickMap(r, at)
  PROVE  IInv'
<1>1. /\ driver[r] = NULL
      /\ rMarker' = [rMarker EXCEPT ![r] = at]
      /\ been' = [been EXCEPT ![r] = @ \cup {at}]
      /\ UNCHANGED <<dMarker, dStatus, rider, riderMarkers, firstLngLat,
                     dDestination, requested, driving, chosen>>
      /\ UNCHANGED <<feed, rStatus, driver, rDestination, driverMarkers>>
  BY DEF ClickMap, MayMove, driverPage
<1>2. \A q \in Riders : been[q] \subseteq been'[q]
  BY <1>1 DEF IInv, PageTypeOK
<1>3. Feed!FeedTypeOK' /\ MailInv'
  BY <1>1, <1>2, QuietMail
<1>4. PageTypeOK'
  BY <1>1 DEF IInv, PageTypeOK
<1>5. RiderInv'
  BY <1>1, NullAssumption DEF IInv, PageTypeOK, RiderInv
<1>6. DriverInv'
  BY <1>1, <1>2 DEF IInv, PageTypeOK, DriverInv
<1> QED
  BY <1>3, <1>4, <1>5, <1>6 DEF IInv

\* A driver record that a rider page handles.
LEMMA RiderTakes ==
  ASSUME IInv, NEW r \in Riders, RiderOnMessage(r)
  PROVE  /\ Feed!FeedTypeOK' /\ Carries(TrueDriverRecord, TrueRiderRecord, outbox', inbox')
         /\ Head(inbox[r]) \in TrueDriverRecord
BY TakeCarries DEF IInv, MailInv, RiderOnMessage, Feed!Page

\* A rider that a true record names is on its map.
LEMMA NamedIsOnMap ==
  ASSUME IInv, NEW r \in Riders, NEW data \in TrueDriverRecord, data.rider = r
  PROVE  data.driver \in Drivers /\ r \in chosen[data.driver] /\ OnMap(r)
<1>1. data.driver \in Drivers /\ r \in chosen[data.driver]
  BY NullAssumption DEF TrueDriverRecord, DriverRecord
<1> QED
  BY <1>1 DEF IInv, DriverInv, RiderInv, OnMap

LEMMA RiderOnMessageStep ==
  ASSUME IInv, NEW r \in Riders, RiderOnMessage(r)
  PROVE  IInv'
<1> DEFINE data == Head(inbox[r])
<1>1. /\ UNCHANGED <<dMarker, dStatus, rider, riderMarkers, firstLngLat,
                     dDestination, requested, driving, chosen>>
      /\ UNCHANGED <<rMarker, been>>
  BY DEF RiderOnMessage, driverPage
<1>2. data \in TrueDriverRecord
  BY RiderTakes
<1>3. data.driver \in Drivers /\ data.lngLat \in Maybe(Road)
  BY <1>2 DEF TrueDriverRecord, DriverRecord
<1>4. CASE ~Adopts(r, data)
  <2>1. /\ UNCHANGED <<rStatus, driver, rDestination>>
        /\ driverMarkers' = ShownDrivers(r, data)
    BY <1>4 DEF RiderOnMessage, Throws
  <2> QED
    BY <1>1, <1>3, <2>1, RiderTakes, SameTruth
    DEF IInv, MailInv, PageTypeOK, RiderInv, DriverInv, ShownDrivers
<1>5. CASE Adopts(r, data)
  <2>1. r \in chosen[data.driver] /\ OnMap(r)
    BY <1>2, <1>5, NamedIsOnMap DEF Adopts
  <2>2. Adopt(r, data) /\ driverMarkers' = ShownDrivers(r, data)
    BY <1>5, <2>1 DEF RiderOnMessage, Throws
  <2>3. PageTypeOK'
    BY <1>1, <1>3, <2>2 DEF IInv, PageTypeOK, Adopt, ShownDrivers
  <2>4. RiderInv'
    BY <1>1, <1>3, <2>1, <2>2, NullAssumption
    DEF IInv, PageTypeOK, RiderInv, Adopt
  <2>5. DriverInv'
    BY <1>1 DEF IInv, DriverInv
  <2> QED
    BY <1>1, <2>3, <2>4, <2>5, RiderTakes, SameTruth DEF IInv, MailInv
<1> QED
  BY <1>4, <1>5

LEMMA NetworkStep ==
  ASSUME IInv, Network
  PROVE  IInv'
<1>1. /\ UNCHANGED <<dMarker, dStatus, rider, riderMarkers, firstLngLat,
                     dDestination, requested, driving, chosen>>
      /\ UNCHANGED <<rMarker, rStatus, driver, rDestination, driverMarkers, been>>
  BY DEF Network, driverPage, riderPage
<1>2. Feed!FeedTypeOK' /\ Carries(TrueDriverRecord, TrueRiderRecord, outbox', inbox')
  BY TransportCarries DEF IInv, MailInv, Network
<1>3. PageTypeOK' /\ RiderInv' /\ DriverInv'
  BY <1>1 DEF IInv, PageTypeOK, RiderInv, DriverInv
<1> QED
  BY <1>1, <1>2, <1>3, SameTruth DEF IInv, MailInv

\* A stuttering step keeps everything.
LEMMA StutterStep ==
  ASSUME IInv, UNCHANGED vars
  PROVE  IInv'
<1>1. UNCHANGED feed /\ UNCHANGED driverPage /\ UNCHANGED riderPage
  BY DEF vars
<1>2. Feed!FeedTypeOK' /\ MailInv'
  BY <1>1, QuietMail DEF driverPage, riderPage
<1>3. PageTypeOK' /\ RiderInv' /\ DriverInv'
  BY <1>1 DEF IInv, PageTypeOK, RiderInv, DriverInv, driverPage, riderPage
<1> QED
  BY <1>2, <1>3 DEF IInv

\* The invariant is inductive.
LEMMA IInvStep == IInv /\ [Next]_vars => IInv'
<1> SUFFICES ASSUME IInv, [Next]_vars PROVE IInv'
  OBVIOUS
<1>1. ASSUME NEW d \in Drivers, DriverStep(d) PROVE IInv'
  BY <1>1, LocateStep, RouteStep, DriverPingStep, DriverOnMessageStep, ClickRiderStep
  DEF DriverStep
<1>2. ASSUME NEW r \in Riders, RiderStep(r) PROVE IInv'
  <2>1. Reach[r] \subseteq Place
    BY ReachAssumption
  <2> QED
    BY <1>2, <2>1, RiderPingStep, RiderOnMessageStep, ClickMapStep DEF RiderStep
<1> QED
  BY <1>1, <1>2, NetworkStep, StutterStep DEF Next

\* The invariant holds in every reachable state.
THEOREM IInvAlways == Spec => []IInv
  BY IInvInit, IInvStep, PTL DEF Spec

-----------------------------------------------------------------------------
(* What follows from it.                                                   *)

\* Every variable of the pages and of the feed keeps its type.
THEOREM TypeCorrect == Spec => []TypeOK
  BY IInvAlways, IInvTypeOK, PTL

LEMMA IInvPairingAgrees == IInv => PairingAgrees
<1> SUFFICES ASSUME IInv, NEW r \in Riders, NEW d \in Drivers, driver[r] = d
             PROVE  /\ r \in chosen[d]
                    /\ chosen[d] = {r} => rider[d] = r
  BY DEF PairingAgrees
<1>1. r \in chosen[d]
  BY NullAssumption DEF IInv, RiderInv
<1>2. rider[d] \in chosen[d]
  BY <1>1 DEF IInv, DriverInv
<1> QED
  BY <1>1, <1>2

\* A rider waits only for a driver that has clicked on it, and is that
\* driver's rider unless the driver has clicked on another one as well.
THEOREM PairingAlwaysAgrees == Spec => []PairingAgrees
  BY IInvAlways, IInvPairingAgrees, PTL

LEMMA IInvNoBlindAdoption == IInv => NoBlindAdoption
<1> SUFFICES ASSUME IInv, NEW r \in Riders,
                    inbox[r] # <<>>, Adopts(r, Head(inbox[r]))
             PROVE  OnMap(r)
  BY DEF NoBlindAdoption
<1>1. Head(inbox[r]) \in TrueDriverRecord
  BY SeqStep DEF IInv, MailInv, Carries
<1> QED
  BY <1>1, NamedIsOnMap DEF Adopts

\* No rider page ever reads the position of a marker that it does not have.
THEOREM NeverBlindAdoption == Spec => []NoBlindAdoption
  BY IInvAlways, IInvNoBlindAdoption, PTL

LEMMA IInvMeetsAtMarker == IInv => MeetsAtMarker
<1> SUFFICES ASSUME IInv, NEW r \in Riders, driver[r] # NULL
             PROVE  OnMap(r) /\ rDestination[r] = rMarker[r]
  BY DEF MeetsAtMarker
<1>1. /\ driver[r] \in Drivers /\ r \in chosen[driver[r]]
      /\ rDestination[r] = rMarker[r]
  BY DEF IInv, PageTypeOK, RiderInv
<1> QED
  BY <1>1 DEF IInv, DriverInv, RiderInv, OnMap

\* The place to which a rider's directions lead is always where it stands.
THEOREM AlwaysMeetsAtMarker == Spec => []MeetsAtMarker
  BY IInvAlways, IInvMeetsAtMarker, PTL

LEMMA IInvRoutes == IInv => RouteLeadsToItsRider
<1> SUFFICES ASSUME IInv, NEW d \in Drivers
             PROVE  /\ requested[d] => /\ rider[d] # NULL
                                       /\ dDestination[d] \in been[rider[d]]
                    /\ \A rec \in SentBy(d) :
                         rec.route # NULL => /\ rec.rider # NULL
                                             /\ rec.route \in been[rec.rider]
  BY DEF RouteLeadsToItsRider
<1>1. SentBy(d) \subseteq TrueDriverRecord
  BY SeqElems DEF SentBy, IInv, MailInv, Carries
<1>2. \A rec \in SentBy(d) :
        rec.route # NULL => rec.rider # NULL /\ rec.route \in been[rec.rider]
  BY <1>1 DEF TrueDriverRecord
<1> QED
  BY <1>2 DEF IInv, DriverInv

\* Every route that is announced leads to a place of the rider it names.
THEOREM RoutesLeadToTheirRiders == Spec => []RouteLeadsToItsRider
  BY IInvAlways, IInvRoutes, PTL

\* A step of the pages and the network is a step of PickupAgreement, or
\* changes nothing that it speaks of.
LEMMA AgreementStep ==
  ASSUME IInv, [Next]_vars
  PROVE  [Agreement!Next]_<<chosen, driver>>
<1>1. ASSUME NEW d \in Drivers, DriverStep(d)
      PROVE  [Agreement!Next]_<<chosen, driver>>
  <2>1. CASE \E r \in Riders : ClickRider(d, r)
    BY <2>1 DEF ClickRider, riderPage, Agreement!Next, Agreement!Choose
  <2>2. CASE ~ \E r \in Riders : ClickRider(d, r)
    BY <1>1, <2>2
    DEF DriverStep, Locate, RouteEvent, RouteFails, Drive, DriverPing,
        DriverOnMessage, driverPage, riderPage
  <2> QED
    BY <2>1, <2>2
<1>2. ASSUME NEW r \in Riders, RiderStep(r)
      PROVE  [Agreement!Next]_<<chosen, driver>>
  <2>1. CASE RiderOnMessage(r) /\ Adopts(r, Head(inbox[r]))
    <3> DEFINE data == Head(inbox[r])
    <3>1. /\ data.driver \in Drivers /\ r \in chosen[data.driver] /\ OnMap(r)
      BY <2>1, RiderTakes, NamedIsOnMap DEF Adopts
    <3>2. driver[r] = NULL
      BY <2>1 DEF Adopts, IInv, RiderInv
    <3>3. driver' = [driver EXCEPT ![r] = data.driver] /\ UNCHANGED chosen
      BY <2>1 DEF RiderOnMessage, Adopt, driverPage
    <3> QED
      BY <3>1, <3>2, <3>3 DEF Agreement!Next, Agreement!Assign
  <2>2. CASE ~(RiderOnMessage(r) /\ Adopts(r, Head(inbox[r])))
    BY <1>2, <2>2 DEF RiderStep, RiderPing, RiderOnMessage, ClickMap, driverPage, riderPage
  <2> QED
    BY <2>1, <2>2
<1>3. CASE Network \/ UNCHANGED vars
  BY <1>3 DEF Network, vars, driverPage, riderPage
<1> QED
  BY <1>1, <1>2, <1>3 DEF Next

\* The pages implement PickupAgreement: a rider is assigned once, for good,
\* and to a driver that has chosen it.
THEOREM ImplementsAgreement == Spec => AgreementSpec
<1>1. Init => Agreement!Init
  BY DEF Init, Agreement!Init
<1>2. IInv /\ [Next]_vars => [Agreement!Next]_<<chosen, driver>>
  BY AgreementStep
<1> QED
  BY <1>1, <1>2, IInvAlways, PTL
  DEF Spec, AgreementSpec, Agreement!Spec, Agreement!agreementVars

\* A step of the pages or of the network is a step of the feed, which sees
\* of the pages only what they send and take.
LEMMA FeedStep ==
  ASSUME IInv, [Next]_vars
  PROVE  [Feed!FeedNext]_<<conn, joined, outbox, inbox>>
<1>1. ASSUME NEW d \in Drivers, DriverStep(d)
      PROVE  [Feed!FeedNext]_<<conn, joined, outbox, inbox>>
  <2>1. CASE DriverPing(d) \/ RouteEvent(d)
    <3>1. PICK rec \in Records : Feed!Send(d, rec)
      BY <2>1
      DEF DriverPing, RouteEvent, DriverPingRecord, RouteRecord, DriverRecord,
          Records, IInv, PageTypeOK
    <3> QED
      BY <3>1 DEF Feed!FeedNext, Feed!Page, Records
  <2>2. CASE DriverOnMessage(d)
    BY <2>2 DEF DriverOnMessage, Feed!FeedNext, Feed!Page
  <2>3. CASE Locate(d) \/ RouteFails(d) \/ Drive(d) \/ \E r \in Riders : ClickRider(d, r)
    BY <2>3 DEF Locate, RouteFails, Drive, ClickRider, feed
  <2> QED
    BY <1>1, <2>1, <2>2, <2>3 DEF DriverStep
<1>2. ASSUME NEW r \in Riders, RiderStep(r)
      PROVE  [Feed!FeedNext]_<<conn, joined, outbox, inbox>>
  <2>1. CASE RiderPing(r)
    <3>1. RiderPingRecord(r) \in Records
      BY <2>1 DEF RiderPing, OnMap, RiderPingRecord, RiderRecord, Records, IInv, PageTypeOK
    <3> QED
      BY <2>1, <3>1 DEF RiderPing, Feed!FeedNext, Feed!Page, Records
  <2>2. CASE RiderOnMessage(r)
    BY <2>2 DEF RiderOnMessage, Feed!FeedNext, Feed!Page
  <2>3. CASE \E at \in Reach[r] : ClickMap(r, at)
    BY <2>3 DEF ClickMap, feed
  <2> QED
    BY <1>2, <2>1, <2>2, <2>3 DEF RiderStep
<1>3. CASE Network \/ UNCHANGED vars
  BY <1>3 DEF Network, vars, feed, Feed!FeedNext
<1> QED
  BY <1>1, <1>2, <1>3 DEF Next

\* The pages use the feed as RideFeed describes it, so that whatever holds
\* of every RideFeed, such as SameOrder, holds between them.
THEOREM PagesUseFeed == Spec => Feed!FeedSpec
<1>1. Init => Feed!FeedInit
  BY DEF Init
<1>2. IInv /\ [Next]_vars => [Feed!FeedNext]_<<conn, joined, outbox, inbox>>
  BY FeedStep
<1> QED
  BY <1>1, <1>2, IInvAlways, PTL DEF Spec, Feed!FeedSpec, Feed!feedVars
=============================================================================
