---------------------------- MODULE GroupConsumer ----------------------------
(***************************************************************************)
(* A Kafka consumer with a group id of its own that leaves                 *)
(* enable.auto.commit and auto.offset.reset at their defaults, as          *)
(* flink-client and kafka-to-cassandra do: it joins at the offsets that    *)
(* its group has committed, or at the end of the topics when there are     *)
(* none, and commits its position from time to time, whatever has become   *)
(* of the records up to there.  Records have the key "", so each topic has *)
(* one order.                                                              *)
(*                                                                         *)
(* The programs behind it are in WaitAverage and CassandraSink.            *)
(***************************************************************************)
EXTENDS Integers, Sequences

CONSTANTS
  Topics,       \* the topics that the group reads
  Kind,         \* the records that are published there, as far as they differ
  MaxLog,       \* bound on a topic
  MaxRuns,      \* bound on the starts of the program
  NONE          \* no offset, or no number

VARIABLES
  log,          \* log[t]: what has been published on the topic
  runs,         \* how often the program has been started
  running,      \* it is running now
  start,        \* start[t]: where its present, or last, run began
  position,     \* position[t]: how far it has read
  committed     \* the positions that its group has committed, or NONE

\* An auxiliary variable, which no action reads.
VARIABLE abandoned \* the records that no run will ever read again, nor has handled

group == <<log, runs, running, start, position, committed, abandoned>>

Offset == 1..MaxLog

\* Records are known by their places.
Between(from, until) ==
  {r \in Topics \X Offset : from[r[1]] < r[2] /\ r[2] <= until[r[1]]}

Nowhere == [t \in Topics |-> 0]
End == [t \in Topics |-> Len(log[t])]

GroupInit ==
  /\ log = [t \in Topics |-> <<>>]
  /\ runs = 0
  /\ running = FALSE
  /\ start = Nowhere
  /\ position = Nowhere
  /\ committed = NONE
  /\ abandoned = {}

Publish(t, kind) ==
  /\ Len(log[t]) < MaxLog
  /\ log' = [log EXCEPT ![t] = Append(@, kind)]
  /\ UNCHANGED <<runs, running, start, position, committed, abandoned>>

FirstOffsets == IF committed = NONE THEN End ELSE committed

\* The program starts, and the consumer is assigned its topics.  With nothing
\* committed, what was published since the last run stopped is passed over.
Join ==
  /\ ~running /\ runs < MaxRuns
  /\ runs' = runs + 1
  /\ running' = TRUE
  /\ start' = FirstOffsets
  /\ position' = FirstOffsets
  /\ abandoned' = IF committed = NONE
                  THEN abandoned \cup Between(position, End)
                  ELSE abandoned
  /\ UNCHANGED <<log, committed>>

\* Poll, up to what the caller takes.
ReadTo(ends) ==
  /\ running
  /\ position' = ends
  /\ UNCHANGED <<log, runs, running, start, committed, abandoned>>

\* The automatic commit, within a poll or when the consumer is closed.
Commit ==
  /\ running
  /\ committed' = position
  /\ UNCHANGED <<log, runs, running, start, position, abandoned>>

\* The records that no later run begins before.
Behind(r) == committed = NONE \/ r[2] <= committed[r[1]]

\* The process ends, for whatever reason, with the records of pending in hand.
StopWith(pending) ==
  /\ running
  /\ running' = FALSE
  /\ abandoned' = abandoned \cup {r \in pending : Behind(r)}
  /\ UNCHANGED <<log, runs, start, position, committed>>

-----------------------------------------------------------------------------
\* What the constants have to be.
GroupBounds == MaxLog \in Nat /\ MaxRuns \in Nat

GroupTypeOK ==
  /\ log \in [Topics -> Seq(Kind)]
  /\ \A t \in Topics : Len(log[t]) <= MaxLog
  /\ runs \in 0..MaxRuns
  /\ running \in BOOLEAN
  /\ start \in [Topics -> 0..MaxLog]
  /\ position \in [Topics -> 0..MaxLog]
  /\ \A t \in Topics : start[t] <= position[t] /\ position[t] <= Len(log[t])
  /\ committed \in [Topics -> 0..MaxLog] \cup {NONE}
  /\ abandoned \subseteq Topics \X Offset

\* Every record that the group is past has been handled or is in hand, or it is
\* one of those that are known to be given up.
Accounted(handled, pending) ==
  LET past == IF running \/ committed = NONE THEN position ELSE committed
  IN Between(Nowhere, past) \subseteq handled \cup pending \cup abandoned
=============================================================================
