----------------------------- MODULE DemoExport -----------------------------
(***************************************************************************)
(* DemoData with the destination "kafka" (PioPipeline has the destination  *)
(* "pio"): it takes the New York data or fake data and hands each record   *)
(* to a producer for the topic "rider" and to a count, side by side        *)
(* (alsoTo).  The count is printed when the source has ended.  The         *)
(* producer does not retry; when it fails, its side of the broadcast is    *)
(* cancelled and the other side goes on.                                   *)
(***************************************************************************)
EXTENDS NewYorkFiles, FakeRecords

CONSTANTS
  NewYorkArgs,  \* the arguments with "ny": how many months, which sample rate
  FakeArgs,     \* the arguments with "fake": how many records and clusters
  Parallelism   \* how many records the producer has in flight

VARIABLES
  asked,        \* the arguments of a run with fake data
  pending,      \* the fake records that are still to come
  offered,      \* the records that have been broadcast: the count is their number
  inflight,     \* those that await an acknowledgement, by their numbers
  sink,         \* the producer's stage
  topic,        \* those that this run has published, by their numbers
  printed       \* "Sent ... records"

\* An auxiliary variable, which no action reads.
VARIABLE interrupted  \* a download has broken off, in this run or before

export == <<asked, pending, offered, inflight, sink, topic, printed>>
vars == <<stage, files, months, rate, reader, export, interrupted>>

NotFake == <<0, 0>>

Init ==
  /\ FilesInit
  /\ stage = "off"
  /\ asked = NotFake /\ pending = <<>>
  /\ offered = <<>> /\ inflight = <<>> /\ sink = "running" /\ topic = <<>>
  /\ printed = NONE
  /\ interrupted = FALSE

NewRun ==
  /\ stage = "off"
  /\ turn' = 0 /\ input' = <<>> /\ buffer' = <<>> /\ lines' = <<>>
  /\ offered' = <<>> /\ inflight' = <<>> /\ sink' = "running" /\ topic' = <<>>
  /\ printed' = NONE
  /\ UNCHANGED <<disk, interrupted>>

RunNewYork(args) ==
  /\ NewRun
  /\ stage' = "files"
  /\ months' = args[1] /\ rate' = args[2]
  /\ at' = 1
  /\ asked' = NotFake /\ pending' = <<>>

\* The iterator is made on the main thread; if it cannot be, the process hangs.
RunFake(args) ==
  /\ NewRun
  /\ months' = 0 /\ rate' = 1
  /\ at' = 0
  /\ asked' = args
  /\ IF Refused(args[1], args[2])
     THEN stage' = "stuck" /\ pending' = <<>>
     ELSE stage' = "streaming" /\ pending' = FakeRecord(args[1], args[2])

Fetch ==
  /\ Download
  /\ interrupted' = (interrupted \/ (stage = "copying" /\ stage' = "stuck"))
  /\ UNCHANGED export

\* alsoTo: both sides take a record, or the one that is left.
Offer(record) ==
  /\ sink = "running" => Len(inflight) < Parallelism
  /\ offered' = Append(offered, record)
  /\ inflight' = IF sink = "running" THEN Append(inflight, Len(offered) + 1) ELSE inflight
  /\ UNCHANGED <<sink, topic, printed>>

OfferIfAny(record) ==
  IF record = NONE THEN UNCHANGED <<offered, inflight, sink, topic, printed>>
  ELSE Offer(record)

StreamFile ==
  /\ \/ ZipTurn /\ UNCHANGED export
     \/ Gather /\ UNCHANGED export
     \/ /\ \E record \in 0..Len(Lines) \cup {NONE} :
             (Sample(record) \/ SampleRest(record)) /\ OfferIfAny(record)
        /\ UNCHANGED <<asked, pending>>
  /\ UNCHANGED interrupted

StreamFake ==
  /\ stage = "streaming" /\ pending # <<>>
  /\ Offer(Head(pending))
  /\ pending' = Tail(pending)
  /\ UNCHANGED <<stage, files, months, rate, reader, asked, interrupted>>

\* The broker appends the oldest record in flight.
Publish ==
  /\ inflight # <<>>
  /\ topic' = Append(topic, Head(inflight))
  /\ inflight' = Tail(inflight)
  /\ UNCHANGED <<stage, files, months, rate, reader, asked, pending, offered, sink, printed,
                 interrupted>>

\* The acknowledgement of the oldest does not come, or the producer has been
\* closed: the record is published or not.
SendFails ==
  /\ inflight # <<>>
  /\ sink' = "failed"
  /\ topic' \in {topic, Append(topic, Head(inflight))}
  /\ inflight' = Tail(inflight)
  /\ UNCHANGED <<stage, files, months, rate, reader, asked, pending, offered, printed,
                 interrupted>>

\* The count's future is completed: with the count, which is printed, or with
\* the failure, which is not.
Complete ==
  /\ stage = "streaming" /\ pending = <<>>
  /\ \/ Exhausted /\ stage' = "completed" /\ printed' = Len(offered)
     \/ Truncated /\ stage' = "failed" /\ UNCHANGED printed
  /\ UNCHANGED <<files, months, rate, reader, asked, pending, offered, inflight, sink, topic,
                 interrupted>>

\* Mutant: only a run that has printed its count terminates.
TerminateCounted ==
  /\ stage = "completed" /\ inflight = <<>>
  /\ stage' = "off"
  /\ UNCHANGED <<files, months, rate, reader, export, interrupted>>

\* system.terminate(): the producer is flushed before it is closed.
Terminate ==
  /\ stage \in {"completed", "failed"} /\ inflight = <<>>
  /\ stage' = "off"
  /\ UNCHANGED <<files, months, rate, reader, export, interrupted>>

\* The process is killed.
Kill ==
  /\ stage # "off"
  /\ stage' = "off"
  /\ inflight' = <<>>
  /\ interrupted' = (interrupted \/ stage = "copying")
  /\ UNCHANGED <<files, months, rate, reader, asked, pending, offered, sink, topic, printed>>

GoOn == Fetch \/ StreamFile \/ StreamFake \/ Complete \/ Terminate

Next ==
  \/ \E args \in NewYorkArgs : RunNewYork(args)
  \/ \E args \in FakeArgs : RunFake(args)
  \/ GoOn
  \/ Publish \/ SendFails
  \/ Kill

Spec == Init /\ [][Next]_vars

\* The service sends, the stream goes on and the broker answers, or something
\* fails.
Fairness == WF_vars(GoOn) /\ WF_vars(Publish)

FairSpec == Spec /\ Fairness

-----------------------------------------------------------------------------
\* What the constants have to be.
Bounds ==
  /\ FilesBounds
  /\ NewYorkArgs \subseteq (Month \cup {0}) \X (Nat \ {0})
  /\ FakeArgs \subseteq Nat \X Nat
  /\ Parallelism \in Nat \ {0}

TypeOK ==
  /\ FilesTypeOK
  /\ stage \in {"off", "files", "copying", "streaming", "completed", "failed", "stuck"}
  /\ stage = "copying" => at \in 1..months
  /\ asked \in FakeArgs \cup {NotFake}
  /\ pending \in Seq(Nat)
  /\ offered \in Seq(Nat)
  /\ inflight \in Seq(1..Len(offered))
  /\ Len(inflight) <= Parallelism
  /\ sink \in {"running", "failed"}
  /\ topic \in Seq(1..Len(offered))
  /\ printed \in Nat \cup {NONE}
  /\ interrupted \in BOOLEAN

\* The lines that a run over a whole file is to sample, and that can be parsed.
Wanted == {line \in 1..Len(Lines) : (line - 1) % rate = 0 /\ Lines[line] = "good"}

\* A run over one month offers the good ones of every rate-th line, wherever the
\* chunks are cut, and of a file that a download has left short the good ones of
\* its whole lines: the end of the file is never taken for the end of a line, so
\* that no record is put together from a part.  Unless a download has ever broken
\* off they are all offered, and only then counted (NewYorkDataSource.scala 63-67).
SamplesTheFile ==
  months = 1 /\ stage \notin {"off", "stuck"} =>
    /\ \A i, j \in DOMAIN offered : i < j => offered[i] < offered[j]
    /\ \E n \in 0..Len(Lines) : ToSet(offered) = {line \in Wanted : line <= n}
    /\ ~interrupted => /\ stage = "completed" => ToSet(offered) = Wanted
                       /\ stage # "failed"

\* A count that is printed without a failed send is the number of records of the
\* source, and as soon as nothing is in flight they are all in the topic
\* (DemoData.scala 62-69).
CountIsTrue ==
  stage = "completed" /\ sink = "running" /\ inflight = <<>> =>
    /\ Len(topic) = printed
    /\ asked # NotFake => printed = asked[1]

\* FakeDataSource.scala 69-72, "todo: is this correctly partitioning?": the
\* clusters of a whole run are numbered without a gap, there are no more of them
\* than asked for (one, if none), and all but the last have the same size.
ClustersAreEven ==
  stage = "completed" /\ asked # NotFake =>
    LET OfCluster(c) == {i \in 1..Len(offered) : offered[i] = c}
        last == offered[Len(offered)]
    IN /\ last \in 1..(IF asked[2] = 0 THEN 1 ELSE asked[2])
       /\ \A c \in 1..last - 1 : Cardinality(OfCluster(c)) = Cardinality(OfCluster(1))
       /\ Cardinality(OfCluster(last)) \in 1..Cardinality(OfCluster(1))

\* A run that has got its data comes to an end by itself; only one that has not
\* got it hangs (DemoData.scala 46, 53, 66-69, 72-77).
RunsEnd == stage \in {"files", "copying", "streaming"} ~> stage \in {"off", "stuck"}
=============================================================================
