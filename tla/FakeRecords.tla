----------------------------- MODULE FakeRecords -----------------------------
(***************************************************************************)
(* The fake data of DemoData: how many records there are, and which of     *)
(* them share their date and place.  A fifth of them are all different     *)
(* (cluster 0), the others come in clusters (1, 2, ...).                   *)
(*                                                                         *)
(* 0.20 * numRecords and toFloat are exact up to 2^24 records, so that     *)
(* integers do here.                                                       *)
(***************************************************************************)
EXTENDS Integers, Sequences

Base(numRecords) == numRecords \div 5
Clustered(numRecords) == numRecords - Base(numRecords)

Ceiling(n, d) == (n + d - 1) \div d

\* Mutant: rounded down.
PerClusterDown(numRecords, numClusters) ==
  IF numClusters = 0 THEN Clustered(numRecords) ELSE Clustered(numRecords) \div numClusters

\* numRecordsPerCluster.  A division by zero makes it infinite, or no number.
PerCluster(numRecords, numClusters) ==
  IF numClusters = 0 THEN Clustered(numRecords)
  ELSE Ceiling(Clustered(numRecords), numClusters)

\* grouped refuses groups of none.
Refused(numRecords, numClusters) == PerCluster(numRecords, numClusters) = 0

\* Mutant: the records that are all different are made in addition.
AllAndBase(numRecords, numClusters) ==
  [i \in 1..numRecords + Base(numRecords) |->
     IF i <= Base(numRecords) THEN 0
     ELSE Ceiling(i - Base(numRecords), PerCluster(numRecords, numClusters))]

\* The records, each by its cluster.
FakeRecord(numRecords, numClusters) ==
  [i \in 1..numRecords |->
     IF i <= Base(numRecords) THEN 0
     ELSE Ceiling(i - Base(numRecords), PerCluster(numRecords, numClusters))]
=============================================================================
