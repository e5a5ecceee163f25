---------------------------- MODULE CassandraSink ----------------------------
(***************************************************************************)
(* kafka-to-cassandra: every second Spark Streaming makes a batch of what  *)
(* is new on the topics and runs two jobs on it, one batch after another:  *)
(* one saves the records as rows, the other prints them.  Each job works   *)
(* them out anew, with random keys of its own, so saving a record again    *)
(* makes another row of it.                                                *)
(*                                                                         *)
(* The driver's consumer commits the ends of the batches it has made, not  *)
(* of those it has saved.  A batch without records has jobs that do        *)
(* nothing and is left out.                                                *)
(***************************************************************************)
EXTENDS GroupConsumer

VARIABLES
  batches,      \* the batches that have been made and not been dealt with
  job,          \* the job of the first of them
  saved,        \* the records that this job has written so far
  missed,       \* the records whose job failed before it had written them
  copies        \* copies[r]: how many rows Cassandra has of the record r

vars == <<group, batches, job, saved, missed, copies>>

sink == <<batches, job, saved, missed, copies>>

Records(batch) == Between(batch.from, batch.until)

Init ==
  /\ GroupInit
  /\ batches = <<>>
  /\ job = "save"
  /\ saved = {}
  /\ missed = {}
  /\ copies = [r \in Topics \X Offset |-> 0]

Reset ==
  /\ batches' = <<>>
  /\ job' = "save"
  /\ saved' = {}
  /\ missed' = {}
  /\ UNCHANGED copies

Start == Join /\ Reset

\* The timer makes a batch.
Generate ==
  /\ position # End
  /\ ReadTo(End)
  /\ batches' = Append(batches, [from |-> position, until |-> End])
  /\ UNCHANGED <<job, saved, missed, copies>>

Working(on) == running /\ batches # <<>> /\ job = on

\* The rows of a batch are written in any order.
SaveRow ==
  /\ Working("save")
  /\ \E r \in Records(Head(batches)) \ saved :
       /\ saved' = saved \cup {r}
       /\ copies' = [copies EXCEPT ![r] = @ + 1]
  /\ UNCHANGED <<group, batches, job, missed>>

\* Mutant: the next job begins when the first row has been written.
SaveEndsEarly ==
  /\ Working("save") /\ saved # {}
  /\ job' = "show"
  /\ saved' = {}
  /\ UNCHANGED <<group, batches, missed, copies>>

SaveEnds ==
  /\ Working("save") /\ saved = Records(Head(batches))
  /\ job' = "show"
  /\ saved' = {}
  /\ UNCHANGED <<group, batches, missed, copies>>

\* Mutant: a job that fails is run again.
SaveRetries ==
  /\ Working("save")
  /\ saved' = {}
  /\ UNCHANGED <<group, batches, job, missed, copies>>

\* A write fails.  With the master "local" the job is not tried again; the jobs
\* after it are.  awaitTermination throws; if that ends the process, it is Stop.
SaveFails ==
  /\ Working("save")
  /\ job' = "show"
  /\ saved' = {}
  /\ missed' = missed \cup (Records(Head(batches)) \ saved)
  /\ UNCHANGED <<group, batches, copies>>

\* Mutant: the save job of the next batch is dropped too.
ShowDropsNext ==
  /\ Working("show")
  /\ batches' = Tail(batches)
  /\ job' = IF Len(batches) > 1 THEN "show" ELSE "save"
  /\ UNCHANGED <<group, saved, missed, copies>>

\* The batch is printed, or not, and done with.
Show ==
  /\ Working("show")
  /\ batches' = Tail(batches)
  /\ job' = "save"
  /\ UNCHANGED <<group, saved, missed, copies>>

\* The records that have been read and have no row from this run.
Unfinished ==
  missed \cup
    IF batches = <<>> THEN {}
    ELSE LET first == Head(batches)
         IN Between(IF job = "save" THEN first.from ELSE first.until, position) \ saved

Stop == StopWith(Unfinished) /\ Reset

-----------------------------------------------------------------------------
Work == SaveRow \/ SaveEnds \/ Show

Next ==
  \/ \E t \in Topics : \E kind \in Kind : Publish(t, kind) /\ UNCHANGED sink
  \/ Start
  \/ Generate
  \/ Commit /\ UNCHANGED sink
  \/ Work \/ SaveFails
  \/ Stop

Spec == Init /\ [][Next]_vars

\* The timer and the jobs go on as long as the process runs.
Fairness == WF_vars(Generate) /\ WF_vars(Work)

FairSpec == Spec /\ Fairness

-----------------------------------------------------------------------------
BatchType == [from : [Topics -> 0..MaxLog], until : [Topics -> 0..MaxLog]]

TypeOK ==
  /\ GroupTypeOK
  /\ batches \in Seq(BatchType)
  /\ job \in {"save", "show"}
  /\ saved \subseteq Topics \X Offset
  /\ missed \subseteq Topics \X Offset
  /\ copies \in [Topics \X Offset -> Nat]
  /\ saved # {} => Working("save") /\ saved \subseteq Records(Head(batches))

Saved == {r \in Topics \X Offset : copies[r] > 0}

\* Every record that the group is past has a row, or is in a batch that waits
\* or has failed, or was given up: the program stopped without a row of it, and
\* the commit was past it already, or there was none at all.  The batches leave
\* no gap, and neither do the runs (KafkaToCassandra.scala 32-54).
NoneForgotten == Accounted(Saved, Unfinished)

\* A run makes one row of a record at most, so that a record has as many rows as
\* there were runs that came past it, and no more: the batches of a run do not
\* overlap, a failed job is not repeated, and what is printed is not saved again
\* (KafkaToCassandra.scala 58-59).
OnceARun == \A r \in Topics \X Offset : copies[r] <= runs

\* A record that is published while the program runs gets its row, if the
\* program goes on and the job does not fail.
RecordsAreSaved ==
  \A r \in Topics \X Offset :
    (running /\ start[r[1]] < r[2] /\ r[2] <= Len(log[r[1]]))
      ~> (~running \/ copies[r] > 0 \/ r \in missed)
=============================================================================
