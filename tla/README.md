# Koober in TLA+

Koober is a ride-hailing sample: browser pages for riders and drivers, a Play
web application that connects their web sockets to Kafka, and around the two
Kafka topics a set of consumers (Flink, Spark Streaming to Cassandra,
PredictionIO), generators of demo data, a prediction engine and a dashboard.
This directory holds TLA+ modules of the parts that carry the logic, the TLC
configurations that check them and proofs of the main results that TLAPS checks.
Every definition that models code is listed with the lines it models in
`PROJECT.json` ("map").

## The system

| Part | State it keeps | Operations | Talks to |
| --- | --- | --- | --- |
| Driver page (`webapp/app/views/driver.scala.html`) | marker, status, rider, a marker and a click listener per rider, directions, driving intervals | locate, click on a rider, route event, drive, ping every 500 ms, handle a record | its web socket, Mapbox |
| Rider page (`rider.scala.html`) | marker, status, driver, a marker per driver, directions | click on the map, ping every 500 ms, handle a record | its web socket, Mapbox |
| Socket bridge (`HomeController.scala`, `Kafka.scala`, `application.conf`) | per socket: frames, a producer with records under way, a consumer with a position and a buffer; the two topics | accept, sink, append, assign, poll, emit, fail, close | pages, Kafka |
| flink-client | number and sum of the durations of routes | fold, print the average | topic "driver" |
| kafka-to-cassandra | consumer offsets, the batch in hand | map, write, show | both topics, Cassandra |
| pio-client | up to 50 requests under way | parse, post, fail | topic "rider", PredictionIO |
| demo-data | records to send, files downloaded so far | generate, download, sample, send | topic "rider" or PredictionIO |
| pio-engine, pio-s3 | training data, counts, scalings, models | read, split, prepare, train, predict, serve, store | PredictionIO |
| Analysis page (`demand-dashboard/public/analysis.js`) | inputs, the filter of the first map, timers, a source per algorithm | change the slider, pick a date, load, filter, fire a timer, loop over the maps | dashboard server, Mapbox |
| Prediction page (`public/prediction.js`) | inputs, place of the last click, a source, a popup | change an input, click, data event, mouse move | dashboard server, Mapbox |
| Dashboard server (`demand-dashboard/app`) | per request, what has become of its queries | predict, analyze | PredictionIO engine |
| weather-backfill | observations of a day | find the closest, update rows | a database, a weather service |
| kafka-server, cassandra-server, kafka-common, build | embedded servers, configuration | start, stop | |

Everything interesting between riders and drivers happens without a
coordinator. A page tells the topic of its kind where it is, twice a second,
and everybody of the other kind hears it. A driver that has been clicked to a
rider says so in its next records; a rider that finds itself named in a record
with a position takes that driver, once. What is hard: two handlers of a page
and the answers of the directions service interleave; records of several
drivers interleave in the topic and reach a rider one by one; a consumer only
sees what is published after it has found its position; sinks do not retry; no
page reconnects. On the dashboard, what is hard is that everything is late: styles
and tiles load when they load, the page guesses with timers when they will have
loaded, several requests are under way, their answers come in any order, and an
exception in the middle of a handler leaves the rest of it undone. Behind the
topics, offsets are committed by a timer that knows nothing of what became of
the records, and jobs, downloads and sends fail halfway. `PROJECT.json`
("hazards") lists these points at their lines, with the property that covers
each.

## Modules

| Module | What it is |
| --- | --- |
| `RideFeed` | What the socket bridge promises to the pages: an outbox and an inbox per page, publishing in one order per topic, joining at the end, losing what is under way when a connection breaks. |
| `SocketBridge` | How sockets, producers, broker and consumers do it: frames, records in flight, logs, positions, polls, emission, failing stages. It implements `RideFeed`. |
| `RideMatching` | Driver and rider pages on top of `RideFeed` (`Feed == INSTANCE RideFeed`): every handler, callback and interval is one action. |
| `PickupAgreement` | What riders and drivers agree on, without sockets or maps. `RideMatching` implements it. |
| `CarDriving` | The intervals with which a driver page moves its car: what `Drive` of `RideMatching` leaves open. |
| `PioFlow` | The flow of pio-client: requests to the event server of PredictionIO, answers in the order of the records, and the event server itself. |
| `PioPipeline` | The programs that run `PioFlow`: pio-client behind a consumer of the topic "rider", with restarts; DemoData with the destination "pio"; the test of pio-client. |
| `GroupConsumer` | A Kafka consumer with a group id of its own and automatic commits, restarted now and then: what flink-client and kafka-to-cassandra have in common. |
| `WaitAverage` | flink-client on `GroupConsumer`: the fold over routes and the average it prints. |
| `CassandraSink` | kafka-to-cassandra on `GroupConsumer`: batches, their two jobs, the rows. |
| `NewYorkFiles` | The New York data: downloads to a disk that outlives the process, chunks, lines, samples. |
| `FakeRecords` | The fake data: how records are divided over clusters (operators only). |
| `DemoExport` | DemoData with the destination "kafka", on `NewYorkFiles` and `FakeRecords`: producer, count, end of the process. |
| `DemandEngine` | pio-engine: what a training gives to the regressions, what an evaluation compares. |
| `DemandService` | The server of the dashboard: a request of a page, its queries to PredictionIO, the answer or the error. |
| `MapSources` | The GeoJSON sources of the maps of both pages: added, removed, filled by the answers of `DemandService`. |
| `AnalysisPage`, `PredictionPage` | The two pages on top of `MapSources`; every handler, timer and event of the map is one action. |
| `Dashboard` | A browser on the dashboard: one page open at a time, opened anew again and again; the properties of all of the above. |
| `DataPrograms` | The programs beside the web application, one of them at work in each behaviour: `PioPipeline` and `DemandEngine`, which it extends, and `WaitAverage`, `CassandraSink` and `DemoExport`, which it instantiates as `Flink`, `Cassandra` and `Export`. |
| `FeedAndCar_proofs` (of `RideFeed` and `CarDriving`), `SocketBridge_proofs`, `RideMatching_proofs`, `Dashboard_proofs`, `WaitAverage_proofs`, `CassandraSink_proofs`, `DemoExport_proofs`, `DataPrograms_proofs` (of `PioPipeline`, `DemandEngine` and all of `DataPrograms`) | Theorems and their proofs. |
| `MCRideFeed`, `MCSocketBridge`, `MCRideMatching`, `MCDashboard`, `MCPrograms` | Values for the constants of the instances that TLC checks. |

Definitions whose comment starts with "Mutant" are variants of the definition
after them with a plausible bug; no specification uses them. With a mutant put
in the place of its original, TLC finds the property named in `PROJECT.json`
("mutants") violated.

### Pages: RideMatching

JavaScript runs a handler to its end before it starts the next one, so a
handler is an action and the interleaving of actions is the interleaving of
the event loops. Variables carry the names of the pages' variables, indexed by
page; where both pages use a name (`marker`, `status`, the destination of the
directions plugin) a prefix `d` or `r` tells them apart.

* Driver page: `Locate` is the answer of `getCurrentPosition`, which may come
  at any time, once, or never. `ClickRider` is the listener of a rider's
  marker; `status` and `rider` are set first, so that they are also set when
  `marker.getLngLat()` throws because the car is not located.
  `firstLngLat[d][r]` is the record over which the listener closed.
  `requested` is the one outstanding directions request (the plugin aborts the
  former one when it asks again; `RouteFails` is its error event). `RouteEvent`
  sends the route with the rider *of that moment* and starts the car. `Drive`
  moves the car anywhere on `Road`. `DriverPing` and `DriverOnMessage` are the
  interval and `ws.onmessage`.
* Rider page: `ClickMap`, `RiderPing` and `RiderOnMessage`. `Throws` is the
  TypeError of the rider without a marker: the second half of the handler is
  then not executed. (That it never happens is the theorem
  `NeverBlindAdoption`.)
* Records: what the pages serialise, as records whose missing fields are
  `NULL`. Positions are members of `Place` (riders) and `Road` (cars), a route
  is known by its destination. Identifiers are drawn with `guid()` and taken as
  distinct.
* History: `chosen[d]`, the riders d has clicked on, and `been[r]`, the places
  where r has put itself; no guard reads them.

Demo data may be published on the topic "rider" too; such records carry no
rider and are outside this module.

### Transport: RideFeed and SocketBridge

A connection is "connecting", "open", "broken" (the server has dropped it, the
page's `readyState` is still 1) or "closed". In `RideFeed` a record sent on an
open connection waits in the outbox, `Publish` gives it its place in the topic
and appends it to the inbox of every page that has joined, `Take` is the page's
handler. `Break` keeps a prefix of the inbox, which is what had been written to
the socket; what is left in the outbox may still be published or lost.

`SocketBridge` has every buffer: `upstream` and `downstream` are frames,
`inflight` the records of a producer whose acknowledgement is awaited, `log` a
topic (its records share the key "", hence one partition and one order),
`position` and `fetched` the consumer. `SinkFails` is an acknowledgement that
does not come, with `retries = 0`: the record may be in the topic or not, and
the failing stage takes the connection down. `Assign` starts at the end of the
topic because the group id is random and `auto.offset.reset` is not set. The
mapping to `RideFeed` is
`outbox = inflight \o upstream`, `inbox = downstream \o fetched \o Unread`,
`joined = Assigned`.

### The car: CarDriving

`StartDriving` is the rest of the 'route' handler. Every route has its own
interval, all of one period, and all of them set the one `marker`; so the
browser calls them in turn, and `running` is the queue in which they are due:
`Tick` is the callback of the first one, which ends it (`Clear`) or moves the
car and puts the interval back to the end of the queue (`Move`). A new route is
due after all others. A route takes a number of tenths of a second;
`metersPerSecond` is distance over duration, so that after `traveled[n]` steps the
car has come as far as it drives in as many seconds. `metersTraveled` is a float
sum of those steps: after a whole number of seconds it may be a little below the
distance (ten times 0.1 is below 1), and then there is one more step. Whether it
is, is `short[n]`, any value for any route (it also stands for a route that takes
no time over a distance). The interpolation along the line is left out.

### PredictionIO: PioFlow, PioPipeline

`window` is the queue of futures of `mapAsync`: `TakeRecord` parses a record
(a missing field throws and fails the stage) and posts it, `ResponseCreated`
and `ResponseFails` complete a future in any order, `EmitNext` passes the first
one on. A failing future fails the stage at once and drops the window, while
the requests it had made (`sent`) may still be served: `CreateEvent` and
`RefuseEvent` are the event server's, `stored` its events. `program` says which
of the programs a behaviour of `PioPipeline` is about; it never changes. The
source of pio-client is `plainSource`, which commits nothing, and
akka-stream-kafka sets `enable.auto.commit` to false; hence `FirstOffset` is the
end of the topic at every start. `Stop` ends its process at any point, and
`Start` may follow. The source of DemoData ends, and `Complete` is the count's
future (`result`).

### Consumers of the topics: GroupConsumer, WaitAverage, CassandraSink

Both programs set a `group.id` and neither `enable.auto.commit` nor
`auto.offset.reset`. `Join` therefore begins at the group's `committed` offsets,
or at the end of the topics; `Commit` writes the position whenever the consumer
polls or is closed. `StopWith` is the end of the process at any point; what it
had in hand and no later run will read again is remembered in the auxiliary
variable `abandoned`, and so is what is published while no run has ever
committed. A record is a place in a topic. `NoneForgotten` is an account: it says
where every record is that the group is past, those that a stop has lost included,
so that nothing is lost in any other way.

* `WaitAverage`: `Poll` is the consumer's thread, `Fold` takes a record through
  flatMap, fold and map. `ToInt`, `Int32` and `Quotient` are the conversion, the
  sum and the division of the code, with the width of an Int as a parameter.
* `CassandraSink`: `Generate` makes a batch, and a batch has two jobs, one after
  the other. `SaveRow` writes rows one by one; `SaveFails` ends the first job
  wherever it is, and the program goes on with the second job and with the next
  batch, or stops. The two jobs evaluate `jobStream` apart, each with random keys
  of its own, which is why a record saved by two runs has two rows (`copies`).

### Demo data: NewYorkFiles, FakeRecords, DemoExport

A behaviour of `DemoExport` is a sequence of runs of DemoData with any of the
given arguments; `disk` is what they have in common. `stage` follows the main
thread and then the stream: "files", "copying" (a download under way),
"streaming", "completed" or "failed" (the count's future), "off"; "stuck" is a
process whose main thread has ended with an exception before there was a
stream, while the actor system keeps it alive. A file has two pieces a line, so
that a download (`CopyPiece`) and a chunk (`Chunk`) may end within a line;
`ZipTurn` takes a chunk of each month, `Gather` frames lines, `Sample` and
`SampleRest` take the first of a group of `rate` lines. Records of the New York
data are known by their lines (`SPLICE`: put together from several), fake
records by their clusters. `Offer` is `alsoTo`: producer and count take the
record, or the count alone once the producer's stage has failed (`SendFails`).

### The engine: DemandEngine

`Store` is the event server, `Train` is `readTraining` and `prepare`,
`Evaluate` is `readEval`. KMeans may label places in any way (`clusterModel`), and
`Evaluate` takes any order that is sorted by time; `data` and `split` are what the
last call has returned. The half hours are kept as
`normalize` and `denormalize` have them. Of a half hour, training sees the day of
the week and of the month, the minute of the day and the month
(`toFeaturesVector`, in the default zone); `Calendar` says what that is, and may
be the same for two half hours: when clocks are set back, or in another year. Of
the features otherwise only their distinctions matter.

### The dashboard: DemandService, MapSources, AnalysisPage, PredictionPage, Dashboard

Times are counted in half hours, places are points of a grid of 0.0016 degrees
(the step of `makeCluster`), and what PredictionIO predicts is known by the
model asked and the query it was asked (`Feature`): two answers are told apart
exactly if they answer different questions.

* `DemandService`. A request is what a source of a map has asked and what has
  become of its query for each point. `MakeCluster` is the diamond of 13 points
  around a click; an analysis has its own coordinates. `Future.sequence` ends
  with the first query *in the order of the points* that has failed, and only
  after those before it have been answered (`Fails`). A temperature that is no
  number cannot be written as JSON, so no query is made. `PioQuery` passes the
  coordinates of an analysis on mirrored, as `HomeController` does.
* `MapSources`. The pages change a source by removing it and adding another one
  of the same name; a request whose source is gone (`live` is FALSE) is still
  answered by the server and shown nowhere. The pages share this module because
  both use the same few calls of Mapbox.
* `AnalysisPage`. `UpdateAllMaps` sets the filter and a timer; `TimerFires`
  reads the inputs and what the first map has *rendered* at that moment.
  `WorkerIsTold` and `TilesAreDrawn` are Mapbox's: a filter is sent to a worker
  and drawn when its tiles are back. `Reached` is the loop over the algorithms
  up to the first map without a style, where `addSource` throws. `PickDate` has
  no listener and changes the inputs only. `Zone` is the difference between the
  time in UTC, by which the first map is filtered, and the browser's local
  time, by which the predictions are asked for. `timely` is history: no timer
  has fired before the styles and tiles that its delay was meant to wait for.
* `PredictionPage`. `Click` has three ends: a new source, or no source because
  the date is empty (`toISOString` throws) or the style has not been loaded
  (`addSource` throws), each after the former source was removed and the popup
  closed. `DataEvent` writes the first feature's demand, of whatever point,
  into the popup where it stands; `MouseMove` puts it to the nearest point.
  Mapbox fires 'data' when something has loaded or changed, and only then:
  `dataDue` is raised by a style, by tiles, by a click that removes or adds a
  source and by an answer that fills it, and the event takes it down.
  `FindNearestIndex` is the loop, as a recursive function over its turns.
* `Dashboard`. `Open` follows a link, or reloads: a page starts from nothing.

Taken from the libraries, and marked external in the map or said here: a
failing half of the flow closes the web socket (Play), a producer without
retries keeps the order of its records (Kafka), a directions request aborts
the former one (Mapbox). JSON conversion and TLS are left out.

## What TLC checks

| Run | Instance | Shows |
| --- | --- | --- |
| `feed` | 2 drivers, 2 riders, 2 records, outbox 1, inbox 2, one breakable link on each side | `SameOrder` |
| `pair` | 1 driver, 1 rider, 2 places, breakable driver, fairness | `MeetsAtMarker`, `PickupIsHeard`, `MapsConverge` |
| `two_riders` | 1 driver, 2 riders at a place each, one breakable | `RouteLeadsToItsRider`, `NoBlindAdoption` |
| `two_drivers` | 2 drivers, 1 rider, one driver and the rider breakable | `PairingAgrees`, `PickupAgreement` is implemented |
| `bridge` | 1 driver and 2 riders, topics of 2 records, polls of 1 or 2; one rider answers and may break; fairness | `RideFeed` is implemented (`ImplementsFeed`), `NoGaps`, `EverythingIsRead` |
| `car` | 3 routes of 0, 0.5, 1, 3 or 3.5 seconds, the sum of their steps exact or short, fairness | `RestsInLastSecond`, `ComesToRest` |
| `programs` | `MCPrograms`, one program at a time: pio-client over a topic of 4 records and DemoData over 4 records, 2 doubtful, 2 requests at a time; flink-client over 3 records, pings and routes of 0.9 and 13.9 s, 2 runs, an Int of 6 bits; kafka-to-cassandra over 2 topics of 3 records together, 2 runs; DemoData to Kafka with a file of 3 lines in chunks of 3 pieces, 0 to 2 months, rates 1 and 2, and 0, 5 or 6 fake records in 0 to 3 clusters, run after run; the engine with 3 events at 4 times in 3 half hours, two of which a calendar shows alike; fairness | `InOrder`, `NotRepeated`, `EmittedIsStored`, `PrintedIsStored`, `StreamEnds`; `CloseToMean`, `MovesTowardsRoute`; `NoneForgotten`, `OnceARun`, `RecordsAreSaved`; `SamplesTheFile`, `CountIsTrue`, `ClustersAreEven`, `RunsEnd`; `PointsAreTheirDemand`, `OrderDecidesWeather`, `ActualExceedsDemand`, `SplitsInTime` |
| `dashboard` | 2 algorithms, 2 days of 2 slots, 2 timers, 2 requests, clusters of 3 points, 2 places to click and 4 for the mouse; fairness | `AnswersBelong`, `SameQuestion`, `MapsAgree`, `LabelTellsSlot`, `PopupOfLastClick`, `NearestIsFound`, `ComesToRest`, `PopupAppears` |
| `car_two_routes` | 2 routes of 1.5 or 2.5 seconds | violated: see Findings |
| `pio_spec_record` | 1 record without properties | violated: see Findings |
| `early_click` | 1 driver, 1 rider | violated: see Findings |
| `stale_click` | 1 driver, 1 rider, 2 places | violated: see Findings |

Bounds. `MaxOutbox`, `MaxInbox`, `MaxUpstream`, `MaxInflight`, `MaxLog` and
`MaxDownstream` bound queues that the code does not bound (or bounds far
higher); an outbox of one and an inbox of one already let a page act between
sending, publishing and handling, and the intervals repeat without bound.
`Reach` and `Says` bound where a rider clicks and what a page says. Two of a
kind is what the hazards need: two calls for a rider, two riders for a driver,
two readers of a topic. Position matters for riders (two places); one position
of the car is enough, as no property compares two. `Parallelism` is 50 in the
code; two with more records than that let the window fill up, drain
and be dropped. `Doubtful` says which requests may fail: with some that may and
some that may not, failures and answers meet in every order. `MaxLog` and
`MaxRoutes` bound what the environment sends. In `dashboard`, `ClusterSize` 3 of
the 13 points is enough for a first point, a later one and one between them to
be refused in every order (`ClusterIsDiamond` is about all 13); `Shown` gives
the four times a place, another place, none, and the first place again; the
slots are the first and the last of a day, where the label ends at midnight;
two timers are what it takes for one to fire for the other's filter.
`MaxRequests` 2 is one loop over both maps, so two requests for one map are
under way together only on the prediction page (`MaxPredictions` 2); that
answers belong to their sources with any number of them is the theorem
`AnswersAlwaysBelong`.

The programs of `DataPrograms` do not wait for one another, so a behaviour of this
run is about one of them (`active`) and their state spaces add up. Two runs
(`MaxRuns`) make one restart, with the commit at any distance behind the fold or
the batches. With the Int of flink-client two long routes fit and three do not.
Of three records on two topics there are up to three batches, and batches of
several records that a failing job leaves half written. Of DemoData a chunk of
three pieces ends within a line every other time, the files of a second run may
be any part of a download, and the pairs of records and clusters are the cases
of the division: none, even, uneven, a cluster too many, by zero. Three events
are three in one half hour, or two and one, or one each, alike or not, in any
order, and two of the three half hours read alike on the calendar; with a
fifth for training one or two of them are left to test with, in one cluster or
in two.

Deadlock is checked except in `SocketBridge` and `PioPipeline`, which stop when
their topics are full (`MaxLog`) or the stream has ended, in `CarDriving`,
which stops after `MaxRoutes` routes, and in `DataPrograms`,
where consumers are not started more than `MaxRuns` times and `MaxEvents` events
may bring nothing new.

Fairness (`FairSpec` of `RideMatching`). The server accepts and the consumer
joins (weak); pages handle what reaches them (weak: an event loop goes on);
publishing and the intervals are strongly fair because only the model's bounds
on queues disable them now and then. Users, the browser's position and the
directions service owe nothing. In `SocketBridge` the streams of the server
and the page's event loop are weakly fair; nobody has to send. In `CarDriving`
the browser calls the interval that is due (weak), routes come when they come. In
`PioFlow` the stage goes on, and requests are served or time out (weak); in
`PioPipeline` nobody has to publish, start or stop. In `Dashboard` the browser
runs timers that are due, Mapbox draws, and reports the data that have come
since it last did, and every query is answered or times out (weak, all of it);
it need not report anything else, styles and tiles need not load, and users need
not do anything. So `PopupAppears` rests on the one data event that a filled
source brings. In
`WaitAverage` and `CassandraSink` the threads of a running job go on (weak);
nobody has to publish, commit, start or stop, and jobs may fail. In `DemoExport`
downloads, streams and the broker go on or fail (weak); nobody has to kill a
process that hangs, which is why `RunsEnd` counts "stuck" as an end. `DemandEngine`
has no fairness: its operations are asked for from outside.

## Findings

* `early_click`: README.md:21 "In the Driver UI, click on the rider to initiate
  a pickup". Before the car is located the click sets `status` and `rider` and
  then throws: no directions are requested, yet the pickup is announced as soon
  as the car is located.
* `stale_click`: README.md:20-21. A rider repositions itself with a click on
  the map and the driver's map follows, but the click listener leads to the
  position in the rider's first record.

* `car_two_routes`: README.md:21 again. The driver clicks on a second rider
  while the car is driving: the interval of the first route is never cleared by
  the second, both move the marker in turn, and if the first route takes longer
  (in the trace 2.5 seconds, and the second 1.5), the car ends at the rider that
  was given up.
* `pio_spec_record`: PioClientSpec.scala:28 `jsValues.size must equal(1)`. The
  record of the test has no "properties", the flow throws and answers nothing.
  The same happens to a running pio-client with the first record of a rider
  page, which has neither "datetime" nor "properties".

Seen while modelling, and described here without a run of their own: the column
"route" of kafka-to-cassandra stays empty, because the route of a record is an
object and `asOpt[String]` makes None of it (KafkaToCassandra.scala:52); a
download that broke off is taken for the whole by later runs, and one that left
an empty file gives no records and no error (NewYorkDataSource.scala:48); when
the producer fails, `alsoTo` leaves the count running, so "Sent $records records"
counts what was not sent (DemoData.scala:28, 67: hence the exception in
`CountIsTrue`); the size of a fake cluster is rounded up, so that five records
asked for in three clusters come in two (FakeDataSource.scala:72); a training for
an evaluation gets one event more than its share, as indices begin with 0 and
are compared with `<=` (DataSource.scala:87).

Also seen: an evaluation counts the events of a half hour wherever they are
(DataSource.scala:90-99), while training counts different times and places by
half hour and cluster (Preparator.scala:39-45), so the "actual" demand is another
quantity than the one predicted; `ActualExceedsDemand` says by when they differ.
Training turns a half hour into features that two half hours may share
(Preparator.scala:86-92), so the regressions may get contradicting points; it
takes the beginning of the half hour in the default zone, while a query is read
with the zone and the minute it is given. An analysis passes the coordinates of
GeoJSON, longitude first, as "lat" and "lng" (HomeController.scala:90-91), the
prediction page's the right way round (64-65): the two pages ask for different
places. With several months, `zipN` puts chunks of the files next to each other
before they are cut into lines (NewYorkDataSource.scala:63), so that lines are
spliced from two months; and the months are all downloaded from one place,
though line 38 says "takes the most recent months".

## What is proved

`RideMatching_proofs`, from the assumptions that drivers and riders are
distinct, that `NULL` is none of the values and that `Reach` is within `Place`,
for any sets of pages and places, any bounds and any set of breakable links:

* `TypeCorrect`, `PairingAlwaysAgrees`, `NeverBlindAdoption`,
  `AlwaysMeetsAtMarker`, `RoutesLeadToTheirRiders`: the invariants that TLC
  checks.
* `ImplementsAgreement`: `Spec => AgreementSpec`.
* `PagesUseFeed`: `Spec => Feed!FeedSpec`; the pages touch the transport only
  through it.

The properties are not inductive, because they say nothing of the records
under way: a rider could receive a record that names it although nobody has
clicked. The inductive invariant `IInv` adds that queues carry only *true*
records (`TrueDriverRecord`: the rider named has been clicked on by that
driver, and a route leads to a place where the rider has been;
`TrueRiderRecord`: the rider has been there). Truth only grows (`TruthGrows`),
and the lemmas `TransportCarries`, `DriverSendCarries`, `RiderSendCarries` and
`TakeCarries` say that queues carry on carrying the same whatever the network
does. The rest of `IInv` relates the variables of a page: the marker of a rider
that has been anywhere is set, a rider that has been clicked on has been
somewhere, an outstanding request belongs to a located car and to the rider of
the moment. There is one lemma per action.

`FeedAndCar_proofs` proves `AlwaysSameOrder`: two readers of a topic stay in
step. The invariant works with `Trails`, the index form of `EndsWith`, and adds
that a page that has not joined has nothing ahead of it (and `FeedTypeCorrect`
falls out of it).

It proves `TypeCorrect` and `AlwaysRestsInLastSecond` of `CarDriving` for any
routes: the invariant remembers that a route whose interval is no longer in the
queue has been used up (`UsedUp`), that the last step of a route was taken before
its end (`SteppedBeforeEnd`), and that the marker is where the last step of its
route has put it (`MarkerTrails`), which need not be the route that was driven
last. `QueueMoves` says who is in the queue after a tick.

`SocketBridge_proofs` proves `TypeCorrect`, `NeverGaps`, `AlwaysSameOrder` and
`BridgeImplementsFeed` (`Spec => Feed!FeedSpec`), from the assumptions that
drivers and riders are distinct and that bounds are numbers. The invariant
`BInv` says that the window of a producer is kept (`WithinWindow`), that
nothing has been polled without a position and nothing has been written to a
socket before the first one (`NothingBefore`), and index by index that frames
and polled records are the stretch of the topic which ends at the position
(`Stretches`, the strengthening of `NoGaps`). With it every step is mapped:
`SinkTakes`, `Poll` and `Emit` move a record from one buffer to the next and
are not seen from outside (`MoveOn`, `PollSplits`), `BrokerAppends` is
`Publish` for all readers at once (`BrokerAppendsReaches`), `TearDown` is
`Break` with what had been written to the socket (`FirstPart`), and `Assign`
at the end of the topic is `Join`.

`Dashboard_proofs` proves all invariants of the dashboard for any
number of maps, days, slots, places, timers and requests: `TypeCorrect`,
`AnswersAlwaysBelong`, `AlwaysSameQuestion`, `MapsAlwaysAgree`,
`LabelAlwaysTellsSlot`, `PopupAlwaysOfLastClick`, `NearestIsAlwaysFound`, and,
without any state, `ClusterIsDiamond`. The inductive invariant has a part for each module. For the
sources: a request whose source is there is the one this source waits for
(`LiveOnes`), and a map has at most one such request (`OneLive`); without them
a late answer could fill the next source. For the analysis page: the filter is
the time of the inputs unless the day has been picked since (`FilterFresh`), a
map gets a source only when all maps before it have their style
(`StyledFirst`), and `Agreement`, which is `MapsAgree` without its exception:
for a time without demand it still says what the first map shows. For the
prediction page: the source's query is for the last click and the popup stands
at a point around it (`PopupPlace`). Requests are handled by lemmas of their
own (`ServerKeeps`, ...) which both pages use. `NearestIsAlwaysFound` is about a
loop: that there is a function which does what the loop does, turn by turn, and
that after each turn it points to the nearest of the points so far
(`KeepsNearest`), goes by induction over the turns.

`WaitAverage_proofs` proves `TypeCorrect`, `NoneEverForgotten`,
`AlwaysCloseToMean` and `AlwaysTowardsRoute` from `Bounds`: finitely many
topics, durations that are natural numbers, any bounds and any width of an Int.
The invariant says that the fold is between the start of the run and the
consumer, commits behind it (`InStep`), and that the totals count the routes
that the run has come past, each of which has lost less than a second
(`Averages`). The latter holds only while the sum fits an Int; sums only grow
within a run, so what fits after a step fitted before it (`FoldSums`), and no
overflow comes in between. That an average never moves past the route that
moves it is a lemma on truncated division (`QuotientMoves`).

`CassandraSink_proofs` proves `TypeCorrect`, `NoneEverForgotten` and
`AlwaysOnceARun` for any topics and bounds (`GroupBounds`). Neither property says how
batches stand to each other, which is what both need: consecutive batches meet
and the last one ends at the consumer's position (`Consecutive`), so that the
work goes on at one place in each topic (`NextOffsets`), and no record beyond it has
a row from this run unless the job at work has just written it (`Rows`). What is
unfinished is what lies between that place and the position (`UnfinishedIs`).

`DemoExport_proofs` proves `ExportTypeCorrect`, `AlwaysSamplesTheFile`,
`CountAlwaysTrue` and `ClustersAlwaysEven` from `Bounds`: any file of good and
bad lines, any chunks, any arguments and any number of records in flight. The
invariant follows the single file of a run over one month (`OneFileInv`): what
has been zipped and not yet framed are the next pieces of the file, whatever the
chunks and the downloads; the buffer holds the last piece if and only if it ends
no line; the lines of the group are the last whole lines; and what has been
offered are the wanted ones among the lines before them, which are a multiple of
the rate. The end of the input comes within a line exactly if the file is short
by an odd number of pieces, which takes a download that broke off (`FilesInv`).
For the count, what has been offered is in the topic or in flight as long as no
send has failed (`CountInv`). For the fake data, what has been offered and what
is pending are together what `FakeRecord` gives (`FakeInv`), and that is even
(`FakeIsEven`) by the laws of division (`CeilingIs`, `ClusterIs`).

Of `PioPipeline`, `DataPrograms_proofs` proves `TypeCorrect`, `AlwaysInOrder`, `NeverRepeated`,
`EmittedAlwaysStored` and `PrintedAlwaysStored` for any parallelism, topic and
doubtful records. That no
record is stored twice is not inductive: the invariant adds that requests and
events belong to records that have been read (`OfThePast`; a start never goes
back, `PastStays`) and that no stored record is asked for again
(`NotAskedAgain`); for what is emitted, that an answered slot has its event
(`AnsweredIsStored`); and for the count, that a source that ends is read once
(`ReadOnce`) and that there is a result only at the end (`ResultAtTheEnd`).

Of `DemandEngine`, it proves `EngineTypeCorrect`, `PointsAlwaysTheirDemand`,
`OrderAlwaysDecidesWeather`, `AlwaysSplitsInTime` and `ActualAlwaysExceedsDemand`
(the first and the last two from `EngineBounds`): any times and calendar, places,
weathers and clusters, any number of events and any share. Here the work is in the
operators. Within a half hour, two points have the same features if and only if
they have the same label (`FeaturesAreLabel`), so counting labels counts features.
Another order has the same events (`OrderKeepsEvents`), so that of a point it
changes at most the weather (`OrderChangesWeather`), to one that was reported
(`WeatherIsReported`); and any event can be put last, which makes its weather the
one that counts (`AnyEventMayBeLast`). Between the events of a half hour and the
points of a cluster are the times and places of the half hour: they are no more
than the events, and as many only if no two events are alike; and the points are
no more than they are, and as many only if they are in one cluster
(`ActualOfSplit`).
The training points are the first ones of the sorted events, and the testing
points the others (`NthOfInterval`, `SplitIsCut`), so that both together are all
events, in order (`PartsAreWhole`), each as often as before (`SameBag`).

At last, `DataPrograms_proofs` joins the programs. A behaviour of `ProgramsSpec`
is one of each program, most of them at rest (`IsAPioPipeline`, `IsAnEngine`,
`IsAWaitAverage`, `IsACassandraSink`, `IsAnExport`). So what is proved of one of
them holds of all together, under the assumptions that `DataPrograms` makes of
its constants and TLC evaluates for the values of the run: `ProgramsTypeCorrect`,
`ProgramsCloseToMean`, `ProgramsMoveTowardsRoute`, `ProgramsForgetNone`,
`ProgramsSaveOnceARun`, `ProgramsSampleTheFile`, `ProgramsCountTruly`,
`ProgramsClusterEvenly` are about the very properties that the run `programs`
checks. The lemmas `Same...` in between say that `Flink`, `Cassandra` and
`Export` are the programs that the modules with the proofs are about: the proofs
are instantiated with the same values, and the definitions agree one by one.

All invariants and action properties that TLC finds to hold are proved as well.
Only model-checked is liveness, which the prover cannot reach: `PickupIsHeard`,
`MapsConverge`, `EverythingIsRead`, `ComesToRest` of the car and of the
dashboard, `StreamEnds`, `PopupAppears`, `RecordsAreSaved`, `RunsEnd`.

Induction over data is within reach as long as it is over numbers: the library's
theorems on induction take an operator, but its theorem on least elements
(`WFMin`) takes a set, and the numbers for which a fact holds are a set
(`NatSetInduction`). That is how loops (`findNearestIndex`), sequences of
sequences (`FlattenSeq`) and sets of indices are dealt with. What takes an
operator as an argument stays out of reach (`SelectSeq`, `SortSeq`), as do
`RECURSIVE` operators: the model selects with sets, and sorts with an order that
is chosen. Type invariants that are proved are not checked by runs of their own,
but `ProgramsTypeOK`, which joins those of all programs, is.

## Plan

What is left, in this order:

1. `WeatherImport` (weather-backfill): closest observation, partial updates.
2. Lemmas that liveness rests on and that are safety: that a record which a
   consumer has not read stays ahead of it, that a request under way keeps its
   place, that an interval gets closer to its end with every tick.

## Not modelled

* Of the dashboard: the route `/demand`, which answers with random points and
  is called by no page; `getdemand.js`, which writes a constant; `buildQueryJson`
  and the page's own `makeCluster`, which nothing calls; panning and zooming of
  the first map (they change which places `queryRenderedFeatures` finds); dates
  typed instead of picked; the map of the neural network, which the page
  creates and never fills; what the inputs of the prediction page show at the
  start. The demand of `koober-training.js`, one literal, is the constant
  `Shown`, which may be any.
* Of kafka-to-cassandra: the statements that create keyspace and table, and the
  types of the database (`driver` and `rider` are uuid columns).
* Of demo-data: the values of a record; that all months are copies of one file,
  whatever their names say, is in `NewYorkFiles`, which has one `Lines` for all.
  Two runs at the same time that download one file are left out.
* Of pio-engine: KMeans, scaling and regressions (Spark's own); `Serving`, which
  adds up what each algorithm predicts and averages the demand; the evaluation
  metric. `readEval`
  returns the same split as often as there are events; it is modelled once.
* pio-s3, kafka-common, kafka-server, cassandra-server (calls of a library, no
  state of their own), static pages, styles, build files, TLS configuration.
