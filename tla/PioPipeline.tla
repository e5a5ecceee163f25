----------------------------- MODULE PioPipeline -----------------------------
(***************************************************************************)
(* The three programs that run PioFlow.                                    *)
(*                                                                         *)
(* client: pio-client, behind a consumer of the topic "rider".  It belongs *)
(* to the group "pio-client" but never commits: the source is plainSource, *)
(* and the library switches the automatic commit off.  So every start of   *)
(* the program finds no offset and begins at the end of the topic.  Rider  *)
(* pages and DemoData publish there; only the records of DemoData have a   *)
(* datetime and properties.                                                *)
(*                                                                         *)
(* export: DemoData with the destination "pio".  Its source ends; it       *)
(* counts the answers and prints the count if the stream completes.        *)
(*                                                                         *)
(* test: the test of pio-client, a source of one record without            *)
(* properties, whose answers it counts too.                                *)
(***************************************************************************)
EXTENDS PioFlow

CONSTANTS
  Programs,     \* which of the programs are looked at
  MaxLog,       \* bound on the topic, and the number of records of an export
  Doubtful      \* the records whose requests may fail

ASSUME ProgramsAssumption == Programs \subseteq {"client", "export", "test"}
ASSUME MaxLogAssumption == MaxLog \in Nat \ {0}

VARIABLES
  program,      \* the program
  log,          \* the kinds of the records of its source so far
  start,        \* where the stream began: the records before are not its own
  position,     \* the records that have been read
  result        \* what Sink.fold has counted: one number at most, at the end

vars == <<flow, program, log, start, position, result>>

Kind == {"page", "demo", "test"}
HasAllFields(kind) == kind = "demo"

\* The sources of an export and of the test hold all their records.
Ends == program # "client"

Source ==
  CASE program = "client" -> <<>>
    [] program = "export" -> [i \in 1..MaxLog |-> "demo"]
    [] program = "test" -> <<"test">>

Init ==
  /\ FlowInit
  /\ program \in Programs
  /\ log = Source
  /\ start = 0
  /\ position = 0
  /\ result = <<>>

Publish(kind) ==
  /\ ~Ends
  /\ Len(log) < MaxLog
  /\ log' = Append(log, kind)
  /\ UNCHANGED <<flow, program, start, position, result>>

\* Mutant: where a consumer would begin with auto.offset.reset = earliest.
EarliestOffset == 0

\* Where a stream begins: with its own source's first record, or where a
\* consumer begins that finds no committed offset.
FirstOffset == IF Ends THEN 0 ELSE Len(log)

\* The program is started, and its consumer is assigned the topic.
Start ==
  /\ stage = "off"
  /\ Materialize
  /\ start' = FirstOffset
  /\ position' = FirstOffset
  /\ UNCHANGED <<program, log, result>>

Consume ==
  /\ position < Len(log)
  /\ TakeRecord(position + 1, HasAllFields(log[position + 1]))
  /\ position' = position + 1
  /\ UNCHANGED <<program, log, start, result>>

Emit ==
  /\ EmitNext
  /\ UNCHANGED <<program, log, start, position, result>>

Served ==
  /\ Serve(Doubtful)
  /\ UNCHANGED <<program, log, start, position, result>>

\* Mutant: the stream completes with its source, answers or no answers.
CompleteWithSource ==
  /\ stage = "running" /\ Ends /\ position = Len(log)
  /\ stage' = "completed"
  /\ window' = <<>>
  /\ result' = Append(result, Len(emitted))
  /\ UNCHANGED <<sent, stored, emitted, program, log, start, position>>

\* The source has ended and no future is left.
Complete ==
  /\ stage = "running" /\ Ends /\ position = Len(log) /\ window = <<>>
  /\ stage' = "completed"
  /\ result' = Append(result, Len(emitted))
  /\ UNCHANGED <<window, sent, stored, emitted, program, log, start, position>>

\* pio-client is stopped, in the middle of its work or after a failure: the
\* stage does not come back by itself.
Stop ==
  /\ ~Ends
  /\ stage \in {"running", "failed"}
  /\ stage' = "off"
  /\ window' = <<>>
  /\ emitted' = <<>>
  /\ UNCHANGED <<sent, stored, program, log, start, position, result>>

Next ==
  \/ \E kind \in {"page", "demo"} : Publish(kind)
  \/ Start \/ Consume \/ Emit \/ Served \/ Complete \/ Stop

Spec == Init /\ [][Next]_vars

\* What can go on in a running stream goes on; a request is served and answered,
\* or times out.
Fairness == WF_vars(Consume) /\ WF_vars(Emit) /\ WF_vars(Served) /\ WF_vars(Complete)

FairSpec == Spec /\ Fairness

-----------------------------------------------------------------------------
TypeOK ==
  /\ FlowTypeOK(1..MaxLog)
  /\ program \in Programs
  /\ log \in Seq(Kind)
  /\ Len(log) <= MaxLog
  /\ start \in 0..Len(log)
  /\ position \in start..Len(log)
  /\ result \in Seq(0..MaxLog)

\* While a stream runs it holds exactly the records that it has read, in their
\* order, and passes on a prefix of them: none is passed over, repeated or
\* overtaken by a later one whose answer came first (mapAsync,
\* PioClient.scala 47).
InOrder ==
  stage = "running" =>
    /\ position = start + Len(emitted) + Len(window)
    /\ \A i \in 1..Len(emitted) : emitted[i] = start + i
    /\ \A i \in 1..Len(window) : window[i].record = start + Len(emitted) + i

\* A record makes one event at most, however often the client is stopped and
\* started, with requests under way or not: there is no retry, and a new
\* consumer begins behind everything that an earlier one has read
\* (PioClient.scala 26-35, no committed offset).
NotRepeated == Once(stored)

\* An answer that was passed on is the answer to an event that was created
\* (PioClient.scala 61-64).
EmittedIsStored == \A i \in 1..Len(emitted) : In(emitted[i], stored)

\* A count that is printed is the number of records of the source, and each of
\* them is an event of the event server, once: a stream that lost an answer
\* prints nothing (DemoData.scala 62-69, PioClient.scala 60-65).
PrintedIsStored ==
  result # <<>> =>
    /\ result = <<Len(log)>>
    /\ \A n \in 1..Len(log) : In(n, stored)
    /\ Once(stored)

\* The stream of a source that ends comes to an end too, with an answer for
\* each record or with a failure (mapAsync passes on what it has when the
\* source has ended, PioClient.scala 47; DemoData.scala 66).
StreamEnds == (Ends /\ stage = "running") ~> (stage \in {"completed", "failed"})

\* PioClientSpec.scala: "it should send data to PIO", and what comes out of the
\* flow "must equal(1)" for the one record put in: there is an answer for every
\* record when the stream is over, if the event server refuses none.
EveryRecordIsAnswered ==
  stage \in {"failed", "completed"} => Len(emitted) = Len(log)
=============================================================================
