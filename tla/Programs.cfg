\* One program at a time.
CONSTANTS
  Active = {"pio", "flink", "spark", "demo", "engine"}
  NONE = NONE
\* pio-client or DemoData, four records, two doubtful, two requests at a time.
  Programs = {"client", "export"}
  Parallelism = 2
  MaxLog = 4
  Doubtful = {1, 3}
\* flink-client: routes of 0.9 and 13.9 seconds, an Int of six bits: two of the
\* longer ones fit, three do not.  Positions come in between.
  PING = PING
  RouteTimes = {9, 139}
  FlinkMaxLog = 3
  MaxInt = 31
\* kafka-to-cassandra: two records on a topic and three on both.
  SparkMaxLog = 2
  SparkRecords = 3
  MaxRuns = 2
\* DemoData to Kafka.
  Lines <- MCLines
  ChunkSize = 3
  MaxMonths = 2
  NewYorkArgs <- MCNewYorkArgs
  FakeArgs <- MCFakeArgs
  InFlight = 2
\* The engine: three events in three half hours at two places, sunny or rainy; a
\* fifth of them, and one, are for training.  The clocks go back after an hour.
  Times = {0, 20, 30, 60}
  Calendar <- MCCalendar
  Places = {"here", "there"}
  Weathers = {"sun", "rain"}
  Clusters = {1, 2}
  EvalK = 2
  MaxEvents = 3
SPECIFICATION FairProgramsSpec
CHECK_DEADLOCK FALSE
INVARIANTS
  ProgramsTypeOK InOrder NotRepeated EmittedIsStored PrintedIsStored
  CloseToMean NoneForgotten OnceARun
  SamplesTheFile CountIsTrue ClustersAreEven
  PointsAreTheirDemand OrderDecidesWeather ActualExceedsDemand
PROPERTIES
  StreamEnds MovesTowardsRoute RecordsAreSaved RunsEnd
  SplitsInTime
