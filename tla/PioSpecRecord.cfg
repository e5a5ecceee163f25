\* The test of pio-client: one record without "properties", none refused.
CONSTANTS
  Programs = {"test"}
  Parallelism = 2
  MaxLog = 1
  Doubtful = {}
SPECIFICATION FairSpec
CHECK_DEADLOCK FALSE
INVARIANT EveryRecordIsAnswered
