----------------------------- MODULE DataPrograms -----------------------------
(***************************************************************************)
(* The programs that run beside the web application: pio-client and        *)
(* DemoData to PredictionIO (PioPipeline), flink-client,                   *)
(* kafka-to-cassandra, DemoData to Kafka, and the engine (DemandEngine).   *)
(*                                                                         *)
(* None of them waits for another, so that each behaviour is about one of  *)
(* them; the others stay as they begin.  Their state spaces add up and do  *)
(* not multiply.                                                           *)
(***************************************************************************)
EXTENDS PioPipeline, DemandEngine

CONSTANTS
  Active,       \* which of the programs are looked at
  PING,         \* a record without a route
  RouteTimes,   \* how long routes take, in tenths of a second
  FlinkMaxLog,  \* bound on the topic of flink-client
  MaxInt,       \* the largest Int of flink-client
  SparkMaxLog,  \* bound on a topic of kafka-to-cassandra
  SparkRecords, \* bound on both together
  MaxRuns,      \* bound on the starts of flink-client and of kafka-to-cassandra
  Lines, ChunkSize, MaxMonths, NewYorkArgs, FakeArgs, \* see DemoExport
  InFlight      \* how many records the producer of DemoData has in flight

VARIABLE active \* the one that this behaviour is about

-----------------------------------------------------------------------------
VARIABLES flinkLog, flinkRuns, flinkRunning, flinkStart, flinkPosition, flinkCommitted,
          flinkAbandoned, folded, totals, average, counted, waited

flink == <<flinkLog, flinkRuns, flinkRunning, flinkStart, flinkPosition, flinkCommitted,
           flinkAbandoned, folded, totals, average, counted, waited>>

Flink == INSTANCE WaitAverage
  WITH Topics <- {"driver"}, Kind <- RouteTimes \cup {PING}, MaxLog <- FlinkMaxLog,
       log <- flinkLog, runs <- flinkRuns, running <- flinkRunning, start <- flinkStart,
       position <- flinkPosition, committed <- flinkCommitted, abandoned <- flinkAbandoned,
       printed <- average

CloseToMean == Flink!CloseToMean
MovesTowardsRoute == Flink!MovesTowardsRoute

-----------------------------------------------------------------------------
VARIABLES sparkLog, sparkRuns, sparkRunning, sparkStart, sparkPosition, sparkCommitted,
          sparkAbandoned, batches, job, saved, missed, copies

spark == <<sparkLog, sparkRuns, sparkRunning, sparkStart, sparkPosition, sparkCommitted,
           sparkAbandoned, batches, job, saved, missed, copies>>

Cassandra == INSTANCE CassandraSink
  WITH Topics <- {"driver", "rider"}, Kind <- {"record"}, MaxLog <- SparkMaxLog,
       log <- sparkLog, runs <- sparkRuns, running <- sparkRunning, start <- sparkStart,
       position <- sparkPosition, committed <- sparkCommitted, abandoned <- sparkAbandoned

NoneForgotten == Flink!NoneForgotten /\ Cassandra!NoneForgotten
OnceARun == Cassandra!OnceARun
RecordsAreSaved == Cassandra!RecordsAreSaved

-----------------------------------------------------------------------------
VARIABLES demoStage, disk, months, rate, at, turn, input, buffer, lines,
          asked, pending, offered, inflight, sink, topic, count, interrupted

demo == <<demoStage, disk, months, rate, at, turn, input, buffer, lines,
          asked, pending, offered, inflight, sink, topic, count, interrupted>>

Export == INSTANCE DemoExport
  WITH Parallelism <- InFlight, stage <- demoStage, printed <- count

SamplesTheFile == Export!SamplesTheFile
CountIsTrue == Export!CountIsTrue
ClustersAreEven == Export!ClustersAreEven
RunsEnd == Export!RunsEnd

-----------------------------------------------------------------------------
ASSUME FlinkAssumption == Flink!Bounds
ASSUME CassandraAssumption == Cassandra!GroupBounds
ASSUME ExportAssumption == Export!Bounds
ASSUME EngineAssumption == EngineBounds

ProgramsInit ==
  /\ active \in Active
  /\ Init /\ (active # "pio" => program = "client")
  /\ Flink!Init /\ Cassandra!Init /\ Export!Init /\ EngineInit

ProgramsNext ==
  \/ active = "pio" /\ Next /\ UNCHANGED <<active, flink, spark, demo, engineVars>>
  \/ active = "flink" /\ Flink!Next /\ UNCHANGED <<active, vars, spark, demo, engineVars>>
  \/ active = "spark" /\ Cassandra!Next
     /\ Len(sparkLog'["driver"]) + Len(sparkLog'["rider"]) <= SparkRecords
     /\ UNCHANGED <<active, vars, flink, demo, engineVars>>
  \/ active = "demo" /\ Export!Next /\ UNCHANGED <<active, vars, flink, spark, engineVars>>
  \/ active = "engine" /\ EngineNext /\ UNCHANGED <<active, vars, flink, spark, demo>>

programsVars == <<active, vars, flink, spark, demo, engineVars>>

ProgramsSpec == ProgramsInit /\ [][ProgramsNext]_programsVars

\* A program that has not been started owes nothing.
FairProgramsSpec ==
  ProgramsSpec /\ Fairness /\ Flink!Fairness /\ Cassandra!Fairness /\ Export!Fairness

\* The type invariants of the programs.
ProgramsTypeOK ==
  /\ active \in Active
  /\ TypeOK /\ Flink!TypeOK /\ Cassandra!TypeOK /\ Export!TypeOK /\ EngineTypeOK
=============================================================================
