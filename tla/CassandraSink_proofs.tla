------------------------- MODULE CassandraSink_proofs -------------------------
(***************************************************************************)
(* Proofs about CassandraSink, for any topics and any number of runs.      *)
(*                                                                         *)
(* Both invariants speak of rows and records and say nothing of how the    *)
(* batches stand to each other, which is what they rest on: consecutive    *)
(* batches meet, the last one ends at the position of the consumer, and    *)
(* the job at work is NextOffsets ahead of everything it may still write.  *)
(***************************************************************************)
EXTENDS TLAPS, CassandraSink

\* Where the work of this run goes on.
NextOffsets ==
  IF batches = <<>> THEN position
  ELSE IF job = "save" THEN Head(batches).from ELSE Head(batches).until

\* Batches follow one another up to the consumer's position.
Consecutive ==
  /\ \A i \in 1 .. Len(batches) - 1 : batches[i].until = batches[i + 1].from
  /\ batches # <<>> => batches[Len(batches)].until = position
  /\ \A i \in 1..Len(batches) : \A t \in Topics :
       batches[i].from[t] <= batches[i].until[t] /\ batches[i].until[t] <= position[t]
  /\ batches = <<>> => job = "save"
  /\ ~running => batches = <<>> /\ missed = {}

CommitsBehind == committed # NONE => \A t \in Topics : committed[t] <= position[t]

Shape == TypeOK /\ Consecutive /\ CommitsBehind

\* What this run has still to write has rows of former runs only.
Rows ==
  /\ \A r \in saved : copies[r] > 0
  /\ running => \A r \in Topics \X Offset :
                  NextOffsets[r[1]] < r[2] /\ r \notin saved => copies[r] < runs

-----------------------------------------------------------------------------
LEMMA NaturalBounds == GroupBounds => MaxLog \in Nat /\ MaxRuns \in Nat
  BY DEF GroupBounds

LEMMA BatchesType ==
  ASSUME GroupBounds, TypeOK, NEW i \in 1..Len(batches)
  PROVE  /\ batches[i].from \in [Topics -> 0..MaxLog]
         /\ batches[i].until \in [Topics -> 0..MaxLog]
<1>1. batches[i] \in BatchType
  BY DEF TypeOK
<1> QED BY <1>1 DEF BatchType

LEMMA HeadIsFirst ==
  ASSUME TypeOK, batches # <<>>
  PROVE  /\ Len(batches) \in Nat \ {0}
         /\ Head(batches) = batches[1]
         /\ Tail(batches) \in Seq(BatchType)
         /\ Len(Tail(batches)) = Len(batches) - 1
         /\ \A i \in 1 .. Len(batches) - 1 : Tail(batches)[i] = batches[i + 1]
  BY DEF TypeOK

LEMMA NextType ==
  ASSUME GroupBounds, TypeOK
  PROVE  NextOffsets \in [Topics -> 0..MaxLog]
<1>1. CASE batches = <<>>
  BY <1>1 DEF NextOffsets, TypeOK, GroupTypeOK
<1>2. CASE batches # <<>>
  BY <1>2, HeadIsFirst, BatchesType DEF NextOffsets
<1> QED BY <1>1, <1>2

\* What is left to this run, in terms of NextOffsets.
LEMMA UnfinishedIs ==
  ASSUME GroupBounds, TypeOK
  PROVE  Unfinished = missed \cup (Between(NextOffsets, position) \ saved)
<1>1. CASE batches = <<>>
  <2>1. \A t \in Topics : position[t] \in Int
    BY NaturalBounds DEF TypeOK, GroupTypeOK
  <2>2. Between(position, position) = {}
    BY <2>1 DEF Between, Offset
  <2> QED BY <1>1, <2>2 DEF Unfinished, NextOffsets
<1>2. CASE batches # <<>>
  BY <1>2 DEF Unfinished, NextOffsets
<1> QED BY <1>1, <1>2

-----------------------------------------------------------------------------
(* Shape.                                                                  *)

LEMMA InitShape == GroupBounds /\ Init => Shape
<1> SUFFICES ASSUME GroupBounds, Init PROVE Shape
  OBVIOUS
<1>1. /\ 0 \in 0..MaxLog /\ 0 \in 0..MaxRuns
      /\ \A t \in Topics : log[t] = <<>> /\ Len(log[t]) = 0
  BY NaturalBounds DEF Init, GroupInit
<1>2. GroupTypeOK
  <2>1. log \in [Topics -> Seq(Kind)]
    BY DEF Init, GroupInit
  <2>2. start \in [Topics -> 0..MaxLog] /\ position = start
    BY <1>1 DEF Init, GroupInit, Nowhere
  <2>3. \A t \in Topics : start[t] = 0
    BY DEF Init, GroupInit, Nowhere
  <2>4. running \in BOOLEAN
    BY Zenon DEF Init, GroupInit
  <2>5. \A t \in Topics : /\ Len(log[t]) <= MaxLog
                          /\ start[t] <= position[t] /\ position[t] <= Len(log[t])
    BY <1>1, <2>2, <2>3, NaturalBounds
  <2> QED
    BY <1>1, <2>1, <2>2, <2>4, <2>5 DEF Init, GroupInit, GroupTypeOK
<1>3. /\ batches = <<>> /\ job = "save" /\ saved = {} /\ missed = {}
      /\ copies = [r \in Topics \X Offset |-> 0] /\ committed = NONE
  BY DEF Init, GroupInit
<1>4. TypeOK
  BY <1>2, <1>3 DEF TypeOK
<1>5. Consecutive /\ CommitsBehind
  BY <1>3 DEF Consecutive, CommitsBehind
<1> QED BY <1>4, <1>5 DEF Shape

LEMMA PublishShape ==
  ASSUME GroupBounds, Shape, NEW t \in Topics, NEW kind \in Kind,
         Publish(t, kind), UNCHANGED sink
  PROVE  Shape'
<1>1. GroupTypeOK'
  BY NaturalBounds DEF Shape, TypeOK, GroupTypeOK, Publish
<1>2. UNCHANGED <<runs, running, start, position, committed, batches, job, saved, missed, copies>>
  BY DEF Publish, sink
<1>3. TypeOK'
  BY <1>1, <1>2 DEF Shape, TypeOK, Working
<1>4. Consecutive' /\ CommitsBehind'
  BY <1>2 DEF Shape, Consecutive, CommitsBehind
<1> QED BY <1>3, <1>4 DEF Shape

LEMMA StartShape == ASSUME GroupBounds, Shape, Start PROVE Shape'
<1>1. FirstOffsets \in [Topics -> 0..MaxLog] /\ \A t \in Topics : FirstOffsets[t] <= Len(log[t])
  <2>1. CASE committed = NONE
    BY <2>1, NaturalBounds DEF Shape, TypeOK, GroupTypeOK, FirstOffsets, End
  <2>2. CASE committed # NONE
    <3>1. FirstOffsets = committed /\ committed \in [Topics -> 0..MaxLog]
      BY <2>2 DEF FirstOffsets, Shape, TypeOK, GroupTypeOK
    <3>2. \A t \in Topics : /\ committed[t] <= position[t] /\ position[t] <= Len(log[t])
                            /\ committed[t] \in Int /\ position[t] \in Int /\ Len(log[t]) \in Int
      BY <2>2, <3>1, NaturalBounds DEF Shape, CommitsBehind, TypeOK, GroupTypeOK
    <3> QED BY <3>1, <3>2
  <2> QED BY <2>1, <2>2
<1>2. abandoned' \subseteq Topics \X Offset
  BY DEF Shape, TypeOK, GroupTypeOK, Start, Join, Between
<1>3. runs' \in 0..MaxRuns
  BY NaturalBounds DEF Shape, TypeOK, GroupTypeOK, Start, Join
<1>4. GroupTypeOK'
  BY <1>1, <1>2, <1>3 DEF Shape, TypeOK, GroupTypeOK, Start, Join
<1>5. /\ batches' = <<>> /\ job' = "save" /\ saved' = {} /\ missed' = {}
      /\ copies' = copies /\ running' /\ position' = FirstOffsets /\ committed' = committed
  BY DEF Start, Join, Reset
<1>6. TypeOK'
  BY <1>4, <1>5 DEF Shape, TypeOK
<1>7. Consecutive' /\ CommitsBehind'
  <2>1. \A t \in Topics : committed # NONE => committed[t] <= FirstOffsets[t]
    BY <1>1 DEF FirstOffsets
  <2> QED BY <1>5, <2>1 DEF Consecutive, CommitsBehind
<1> QED BY <1>6, <1>7 DEF Shape

LEMMA GenerateShape == ASSUME GroupBounds, Shape, Generate PROVE Shape'
<1> DEFINE batch == [from |-> position, until |-> End]
           n == Len(batches)
<1>1. /\ End \in [Topics -> 0..MaxLog]
      /\ \A t \in Topics : position[t] <= End[t] /\ End[t] = Len(log[t])
  BY NaturalBounds DEF Shape, TypeOK, GroupTypeOK, End
<1>2. /\ position' = End /\ batches' = Append(batches, batch) /\ running
      /\ UNCHANGED <<log, runs, running, start, committed, abandoned, job, saved, missed, copies>>
  BY DEF Generate, ReadTo
<1>3. batch \in BatchType
  BY <1>1 DEF BatchType, Shape, TypeOK, GroupTypeOK
<1> HIDE DEF batch
<1>4. /\ n \in Nat /\ Len(batches') = n + 1 /\ batches' \in Seq(BatchType)
      /\ batches'[n + 1] = batch /\ \A i \in 1..n : batches'[i] = batches[i]
  BY <1>2, <1>3 DEF Shape, TypeOK
<1>5. batches' # <<>> /\ (batches # <<>> => Head(batches') = Head(batches))
  BY <1>4, HeadIsFirst DEF Shape, TypeOK
<1>6. GroupTypeOK'
  <2>1. ASSUME NEW t \in Topics PROVE start[t] <= End[t]
    <3>1. start[t] \in Int /\ position[t] \in Int /\ End[t] \in Int /\ start[t] <= position[t]
      BY <1>1, NaturalBounds DEF Shape, TypeOK, GroupTypeOK
    <3> QED BY <1>1, <3>1
  <2>2. \A t \in Topics : End[t] <= Len(log[t])
    BY <1>1, NaturalBounds
  <2> QED BY <1>1, <1>2, <2>1, <2>2 DEF Shape, TypeOK, GroupTypeOK
<1>7. TypeOK'
  <2>1. saved' # {} => Working("save")' /\ saved' \subseteq Records(Head(batches'))
    BY <1>2, <1>5 DEF Shape, TypeOK, Working
  <2> QED BY <1>2, <1>4, <1>6, <2>1 DEF Shape, TypeOK, Records, Between
<1>8. Consecutive'
  <2>1. ASSUME NEW i \in 1 .. Len(batches') - 1 PROVE batches'[i].until = batches'[i + 1].from
    <3>1. CASE i = n
      BY <1>4, <2>1, <3>1 DEF batch, Shape, Consecutive
    <3>2. CASE i # n
      BY <1>4, <2>1, <3>2 DEF Shape, Consecutive
    <3> QED BY <3>1, <3>2
  <2>2. ASSUME NEW i \in 1..Len(batches'), NEW t \in Topics
        PROVE  /\ batches'[i].from[t] <= batches'[i].until[t]
               /\ batches'[i].until[t] <= position'[t]
    <3>0. End[t] \in Int /\ position[t] \in Int /\ position[t] <= End[t] /\ position'[t] = End[t]
      BY <1>1, <1>2, NaturalBounds DEF Shape, TypeOK, GroupTypeOK
    <3>1. CASE i = n + 1
      BY <3>0, <1>4, <3>1 DEF batch
    <3>2. CASE i # n + 1
      <4>1. i \in 1..Len(batches) /\ batches'[i] = batches[i]
        BY <1>4, <2>2, <3>2
      <4>2. batches[i].until[t] \in Int
        BY <4>1, BatchesType, NaturalBounds DEF Shape
      <4>3. batches[i].from[t] <= batches[i].until[t] /\ batches[i].until[t] <= position[t]
        BY <4>1 DEF Shape, Consecutive
      <4> QED BY <3>0, <4>1, <4>2, <4>3
    <3> QED BY <3>1, <3>2
  <2>3. batches'[Len(batches')].until = position'
    BY <1>2, <1>4 DEF batch
  <2> QED BY <1>2, <1>5, <2>1, <2>2, <2>3 DEF Consecutive
<1>9. CommitsBehind'
  <2>1. ASSUME committed # NONE, NEW t \in Topics PROVE committed[t] <= End[t]
    <3>1. /\ committed[t] \in Int /\ position[t] \in Int /\ End[t] \in Int
          /\ committed[t] <= position[t]
      BY <1>1, <2>1, NaturalBounds DEF Shape, TypeOK, GroupTypeOK, CommitsBehind
    <3> QED BY <1>1, <3>1
  <2> QED BY <1>2, <2>1 DEF CommitsBehind
<1> QED BY <1>7, <1>8, <1>9 DEF Shape

LEMMA CommitShape == ASSUME GroupBounds, Shape, Commit, UNCHANGED sink PROVE Shape'
<1>1. /\ committed' = position
      /\ UNCHANGED <<log, runs, running, start, position, abandoned, batches, job, saved, missed, copies>>
  BY DEF Commit, sink
<1>2. GroupTypeOK'
  BY <1>1 DEF Shape, TypeOK, GroupTypeOK
<1>3. TypeOK'
  BY <1>1, <1>2 DEF Shape, TypeOK, Working
<1>4. Consecutive'
  BY <1>1 DEF Shape, Consecutive
<1>5. CommitsBehind'
  BY <1>1, NaturalBounds DEF Shape, TypeOK, GroupTypeOK, CommitsBehind
<1> QED BY <1>3, <1>4, <1>5 DEF Shape

\* The jobs leave the group alone.
LEMMA JobShape ==
  ASSUME GroupBounds, Shape, SaveRow \/ SaveEnds \/ SaveFails
  PROVE  Shape'
<1>1. /\ batches # <<>> /\ running /\ UNCHANGED <<group, batches>>
      /\ UNCHANGED <<log, runs, running, start, position, committed, abandoned>>
  BY DEF SaveRow, SaveEnds, SaveFails, Working, group
<1>2. GroupTypeOK'
  BY <1>1 DEF Shape, TypeOK, GroupTypeOK
<1>3. /\ job' \in {"save", "show"}
      /\ missed' \subseteq Topics \X Offset
  BY DEF Shape, TypeOK, SaveRow, SaveEnds, SaveFails, Records, Between
<1>4. copies' \in [Topics \X Offset -> Nat]
  <2>1. CASE SaveRow
    <3>1. PICK r \in Records(Head(batches)) \ saved : copies' = [copies EXCEPT ![r] = @ + 1]
      BY <2>1 DEF SaveRow
    <3>2. r \in Topics \X Offset
      BY DEF Records, Between
    <3> QED BY <3>1, <3>2 DEF Shape, TypeOK
  <2>2. CASE SaveEnds \/ SaveFails
    BY <2>2 DEF Shape, TypeOK, SaveEnds, SaveFails
  <2> QED BY <2>1, <2>2
<1>5. saved' # {} => job' = "save" /\ saved' \subseteq Records(Head(batches))
  BY DEF Shape, TypeOK, SaveRow, SaveEnds, SaveFails, Working
<1>6. saved' \subseteq Topics \X Offset
  BY <1>5 DEF Records, Between
<1>7. TypeOK'
  BY <1>1, <1>2, <1>3, <1>4, <1>5, <1>6 DEF Shape, TypeOK, Working, Records, Between
<1>8. Consecutive' /\ CommitsBehind'
  BY <1>1 DEF Shape, Consecutive, CommitsBehind
<1> QED BY <1>7, <1>8 DEF Shape

LEMMA ShowShape ==
  ASSUME GroupBounds, Shape, Show
  PROVE  Shape' /\ NextOffsets' = NextOffsets
<1>1. /\ batches # <<>> /\ running /\ job = "show"
      /\ batches' = Tail(batches) /\ job' = "save"
      /\ UNCHANGED <<log, runs, running, start, position, committed, abandoned, saved, missed, copies>>
  BY DEF Show, Working, group
<1>2. /\ Len(batches) \in Nat \ {0}
      /\ Head(batches) = batches[1]
      /\ batches' \in Seq(BatchType)
      /\ Len(batches') = Len(batches) - 1
      /\ \A i \in 1 .. Len(batches) - 1 : batches'[i] = batches[i + 1]
  BY <1>1, HeadIsFirst DEF Shape
<1>3. saved = {}
  BY <1>1 DEF Shape, TypeOK, Working
<1>4. GroupTypeOK'
  BY <1>1 DEF Shape, TypeOK, GroupTypeOK
<1>5. TypeOK'
  BY <1>1, <1>2, <1>3, <1>4 DEF Shape, TypeOK
<1>6. Consecutive'
  <2>1. ASSUME NEW i \in 1 .. Len(batches') - 1 PROVE batches'[i].until = batches'[i + 1].from
    BY <1>2 DEF Shape, Consecutive
  <2>2. ASSUME NEW i \in 1..Len(batches'), NEW t \in Topics
        PROVE  /\ batches'[i].from[t] <= batches'[i].until[t]
               /\ batches'[i].until[t] <= position'[t]
    BY <1>1, <1>2 DEF Shape, Consecutive
  <2>3. batches' # <<>> => batches'[Len(batches')].until = position'
    BY <1>1, <1>2 DEF Shape, Consecutive
  <2> QED BY <1>1, <2>1, <2>2, <2>3 DEF Consecutive
<1>7. CommitsBehind'
  BY <1>1 DEF Shape, CommitsBehind
<1>8. NextOffsets' = NextOffsets
  <2>1. NextOffsets = batches[1].until
    BY <1>1, <1>2 DEF NextOffsets
  <2>2. CASE Len(batches) = 1
    <3>1. batches' = <<>> /\ NextOffsets' = position
      BY <1>1, <1>2, <2>2 DEF NextOffsets
    <3> QED BY <1>1, <2>1, <2>2, <3>1 DEF Shape, Consecutive
  <2>3. CASE Len(batches) # 1
    <3>1. batches' # <<>> /\ Head(batches') = batches[2] /\ 1 \in 1 .. Len(batches) - 1
      BY <1>2, <2>3
    <3>2. batches[1].until = batches[2].from
      BY <3>1 DEF Shape, Consecutive
    <3> QED BY <1>1, <2>1, <3>1, <3>2 DEF NextOffsets
  <2> QED BY <2>2, <2>3
<1> QED BY <1>5, <1>6, <1>7, <1>8 DEF Shape

LEMMA StopShape == ASSUME GroupBounds, Shape, Stop PROVE Shape'
<1>1. Unfinished \subseteq Topics \X Offset
  BY DEF Unfinished, Between, Shape, TypeOK
<1>2. GroupTypeOK'
  BY <1>1 DEF Shape, TypeOK, GroupTypeOK, Stop, StopWith
<1>3. /\ batches' = <<>> /\ job' = "save" /\ saved' = {} /\ missed' = {}
      /\ UNCHANGED <<copies, position, committed>>
  BY DEF Stop, StopWith, Reset
<1>4. TypeOK'
  BY <1>2, <1>3 DEF Shape, TypeOK
<1>5. Consecutive' /\ CommitsBehind'
  BY <1>3 DEF Shape, Consecutive, CommitsBehind
<1> QED BY <1>4, <1>5 DEF Shape

\* The work is never ahead of the consumer.
LEMMA NextBehind ==
  ASSUME GroupBounds, Shape
  PROVE  \A t \in Topics : NextOffsets[t] <= position[t]
<1>1. CASE batches = <<>>
  BY <1>1, NaturalBounds DEF NextOffsets, Shape, TypeOK, GroupTypeOK
<1>2. CASE batches # <<>>
  <2>1. Head(batches) = batches[1] /\ 1 \in 1..Len(batches)
    BY <1>2, HeadIsFirst DEF Shape
  <2> SUFFICES ASSUME NEW t \in Topics PROVE NextOffsets[t] <= position[t]
    OBVIOUS
  <2>2. batches[1].from[t] \in Int /\ batches[1].until[t] \in Int
    BY <2>1, BatchesType, NaturalBounds DEF Shape
  <2>4. position[t] \in Int
    BY NaturalBounds DEF Shape, TypeOK, GroupTypeOK
  <2>3. batches[1].from[t] <= batches[1].until[t] /\ batches[1].until[t] <= position[t]
    BY <2>1 DEF Shape, Consecutive
  <2> QED BY <1>2, <2>1, <2>2, <2>3, <2>4 DEF NextOffsets
<1> QED BY <1>1, <1>2

\* Where the work goes on, action by action; the others keep it (UNCHANGED).
LEMMA GenerateNext ==
  ASSUME GroupBounds, Shape, Generate
  PROVE  NextOffsets' = NextOffsets
<1> DEFINE batch == [from |-> position, until |-> End]
<1>1. batches' = Append(batches, batch) /\ UNCHANGED job
  BY DEF Generate, ReadTo
<1>2. End \in [Topics -> 0..MaxLog]
  BY NaturalBounds DEF Shape, TypeOK, GroupTypeOK, End
<1>3. batch \in BatchType
  BY <1>2 DEF BatchType, Shape, TypeOK, GroupTypeOK
<1> HIDE DEF batch
<1>4. CASE batches = <<>>
  <2>1. batches' # <<>> /\ Head(batches') = batch
    BY <1>1, <1>3, <1>4
  <2> QED BY <1>1, <1>4, <2>1 DEF batch, NextOffsets, Shape, Consecutive
<1>5. CASE batches # <<>>
  <2>1. batches' # <<>> /\ Head(batches') = Head(batches)
    BY <1>1, <1>3, <1>5 DEF Shape, TypeOK
  <2> QED BY <1>1, <1>5, <2>1 DEF NextOffsets
<1> QED BY <1>4, <1>5

LEMMA JobNext ==
  ASSUME GroupBounds, Shape
  PROVE  /\ SaveRow => NextOffsets' = NextOffsets
         /\ SaveEnds \/ SaveFails =>
              /\ NextOffsets = Head(batches).from
              /\ NextOffsets' = Head(batches).until
              /\ NextOffsets \in [Topics -> 0..MaxLog]
              /\ NextOffsets' \in [Topics -> 0..MaxLog]
              /\ \A t \in Topics : NextOffsets[t] <= NextOffsets'[t]
<1>1. ASSUME SaveRow PROVE NextOffsets' = NextOffsets
  BY <1>1 DEF SaveRow, group, NextOffsets
<1>2. ASSUME SaveEnds \/ SaveFails
      PROVE  /\ NextOffsets = Head(batches).from
             /\ NextOffsets' = Head(batches).until
             /\ NextOffsets \in [Topics -> 0..MaxLog]
             /\ NextOffsets' \in [Topics -> 0..MaxLog]
             /\ \A t \in Topics : NextOffsets[t] <= NextOffsets'[t]
  <2>1. batches # <<>> /\ batches' = batches /\ job = "save" /\ job' = "show"
    BY <1>2 DEF SaveEnds, SaveFails, Working
  <2>2. NextOffsets = Head(batches).from /\ NextOffsets' = Head(batches).until
    BY <2>1 DEF NextOffsets
  <2>3. Head(batches) = batches[1] /\ 1 \in 1..Len(batches)
    BY <2>1, HeadIsFirst DEF Shape
  <2>4. \A t \in Topics : Head(batches).from[t] <= Head(batches).until[t]
    BY <2>3 DEF Shape, Consecutive
  <2>5. /\ Head(batches).from \in [Topics -> 0..MaxLog]
        /\ Head(batches).until \in [Topics -> 0..MaxLog]
    BY <2>3, BatchesType DEF Shape
  <2> QED BY <2>2, <2>4, <2>5
<1> QED BY <1>1, <1>2

-----------------------------------------------------------------------------
(* Rows.                                                                   *)

CountedOnce == Rows /\ OnceARun

LEMMA StepCountsOnce ==
  ASSUME GroupBounds, Shape, CountedOnce, [Next]_vars
  PROVE  CountedOnce'
<1> USE DEF CountedOnce, Rows, OnceARun
<1>1. ASSUME NEW t \in Topics, NEW kind \in Kind, Publish(t, kind), UNCHANGED sink
      PROVE  CountedOnce'
  BY <1>1 DEF Publish, sink, NextOffsets
<1>2. ASSUME Start PROVE CountedOnce'
  <2>1. runs' = runs + 1 /\ saved' = {} /\ copies' = copies
    BY <1>2 DEF Start, Join, Reset
  <2>2. \A r \in Topics \X Offset : copies[r] \in Nat /\ copies[r] <= runs
    BY DEF Shape, TypeOK
  <2>3. runs \in Nat
    BY NaturalBounds DEF Shape, TypeOK, GroupTypeOK
  <2> QED BY <2>1, <2>2, <2>3
<1>3. ASSUME Generate PROVE CountedOnce'
  <2>1. NextOffsets' = NextOffsets
    BY <1>3, GenerateNext
  <2> QED BY <1>3, <2>1 DEF Generate, ReadTo
<1>4. ASSUME Commit, UNCHANGED sink PROVE CountedOnce'
  BY <1>4 DEF Commit, sink, NextOffsets
<1>5. ASSUME SaveRow PROVE CountedOnce'
  <2>1. PICK r \in Records(Head(batches)) \ saved :
          /\ saved' = saved \cup {r}
          /\ copies' = [copies EXCEPT ![r] = @ + 1]
    BY <1>5 DEF SaveRow
  <2>2. /\ batches # <<>> /\ job = "save" /\ running /\ UNCHANGED <<runs, running>>
        /\ NextOffsets' = NextOffsets
    BY <1>5, JobNext DEF SaveRow, Working, group
  <2>3. r \in Topics \X Offset /\ NextOffsets[r[1]] < r[2]
    BY <2>2 DEF Records, Between, NextOffsets
  <2>4. copies[r] < runs /\ copies[r] \in Nat /\ runs \in Nat
    BY <2>1, <2>2, <2>3, NaturalBounds DEF Shape, TypeOK, GroupTypeOK
  <2>5. copies'[r] = copies[r] + 1 /\ \A x \in Topics \X Offset : x # r => copies'[x] = copies[x]
    BY <2>1, <2>3 DEF Shape, TypeOK
  <2>6. \A x \in saved : x \in Topics \X Offset
    BY DEF Shape, TypeOK
  <2> QED BY <2>1, <2>2, <2>3, <2>4, <2>5, <2>6
<1>6. ASSUME SaveEnds \/ SaveFails PROVE CountedOnce'
  <2>1. /\ saved' = {} /\ UNCHANGED <<copies, runs, running>>
    BY <1>6 DEF SaveEnds, SaveFails, group
  <2>0. saved \subseteq Records(Head(batches))
    BY DEF Shape, TypeOK
  <2>2. /\ NextOffsets = Head(batches).from /\ NextOffsets' = Head(batches).until
        /\ NextOffsets \in [Topics -> 0..MaxLog] /\ NextOffsets' \in [Topics -> 0..MaxLog]
        /\ \A t \in Topics : NextOffsets[t] <= NextOffsets'[t]
    BY <1>6, JobNext
  <2>4. ASSUME NEW r \in Topics \X Offset, NextOffsets'[r[1]] < r[2]
        PROVE  NextOffsets[r[1]] < r[2] /\ r \notin saved
    <3>1. /\ r[1] \in Topics /\ r[2] \in Int
          /\ NextOffsets[r[1]] \in Int /\ NextOffsets'[r[1]] \in Int
      BY <2>2, NaturalBounds DEF Offset
    <3> QED BY <2>0, <2>2, <2>4, <3>1 DEF Records, Between
  <2> QED BY <2>1, <2>4
<1>7. ASSUME Show PROVE CountedOnce'
  <2>1. NextOffsets' = NextOffsets
    BY <1>7, ShowShape
  <2> QED BY <1>7, <2>1 DEF Show, group
<1>8. ASSUME Stop PROVE CountedOnce'
  BY <1>8 DEF Stop, StopWith, Reset
<1>9. ASSUME UNCHANGED vars PROVE CountedOnce'
  BY <1>9 DEF vars, group, NextOffsets
<1> QED BY <1>1, <1>2, <1>3, <1>4, <1>5, <1>6, <1>7, <1>8, <1>9 DEF Next, Work

-----------------------------------------------------------------------------
(* No record is forgotten.                                                 *)

\* NoneForgotten, with what is unfinished told by NextOffsets.
PastIsKnown ==
  Between(Nowhere, IF running \/ committed = NONE THEN position ELSE committed)
    \subseteq Saved \cup missed \cup (Between(NextOffsets, position) \ saved) \cup abandoned

\* Rows stay, and every new one is a row of its record.
LEMMA SavedGrows ==
  ASSUME GroupBounds, Shape, [Next]_vars
  PROVE  Saved \subseteq Saved'
<1>1. ASSUME SaveRow PROVE Saved \subseteq Saved'
  <2>1. PICK r \in Records(Head(batches)) \ saved : copies' = [copies EXCEPT ![r] = @ + 1]
    BY <1>1 DEF SaveRow
  <2>2. \A x \in Topics \X Offset : copies[x] \in Nat /\ copies'[x] \in {copies[x], copies[x] + 1}
    BY <2>1 DEF Shape, TypeOK
  <2> QED BY <2>2 DEF Saved
<1>2. ASSUME ~SaveRow PROVE copies' = copies
  <2>1. UNCHANGED sink \/ UNCHANGED vars => copies' = copies
    BY DEF sink, vars
  <2>2. Start \/ Stop => copies' = copies
    BY DEF Start, Stop, Reset
  <2>3. Generate \/ SaveEnds \/ SaveFails \/ Show => copies' = copies
    BY DEF Generate, SaveEnds, SaveFails, Show
  <2> QED BY <1>2, <2>1, <2>2, <2>3 DEF Next, Work
<1> QED BY <1>1, <1>2 DEF Saved

LEMMA StepForgetsNone ==
  ASSUME GroupBounds, Shape, Shape', PastIsKnown, [Next]_vars
  PROVE  PastIsKnown'
<1> DEFINE past == IF running \/ committed = NONE THEN position ELSE committed
           waiting == Between(NextOffsets, position) \ saved
<1>1. Between(Nowhere, past) \subseteq Saved \cup missed \cup waiting \cup abandoned
  BY DEF PastIsKnown
<1> DEFINE Goal == Between(Nowhere, past')
                     \subseteq Saved' \cup missed' \cup waiting' \cup abandoned'
<1>2. Goal => PastIsKnown'
  BY DEF PastIsKnown
<1>3. Saved \subseteq Saved'
  BY SavedGrows
<1>4. ASSUME NEW t \in Topics, NEW kind \in Kind, Publish(t, kind), UNCHANGED sink PROVE Goal
  <2>1. UNCHANGED <<missed, waiting, abandoned, past>>
    BY <1>4 DEF Publish, sink, NextOffsets, Between
  <2> QED BY <1>1, <1>3, <2>1
<1>5. ASSUME Start PROVE Goal
  <2>1. ~running /\ running' /\ batches = <<>> /\ missed = {}
    BY <1>5 DEF Start, Join, Shape, Consecutive
  <2>2. waiting = {}
    <3>1. \A t \in Topics : position[t] \in Int
      BY NaturalBounds DEF Shape, TypeOK, GroupTypeOK
    <3> QED BY <2>1, <3>1 DEF NextOffsets, Between, Offset
  <2>3. CASE committed = NONE
    <3>1. position' = End /\ abandoned' = abandoned \cup Between(position, End)
      BY <1>5, <2>3 DEF Start, Join, FirstOffsets
    <3>2. Between(Nowhere, position')
            \subseteq Between(Nowhere, position) \cup Between(position, End)
      BY <3>1, NaturalBounds DEF Shape, TypeOK, GroupTypeOK, Between, Nowhere, End, Offset
    <3>3. past = position /\ past' = position'
      BY <2>1, <2>3
    <3> HIDE DEF past, waiting
    <3> QED BY <1>1, <1>3, <2>1, <2>2, <3>1, <3>2, <3>3
  <2>4. CASE committed # NONE
    <3>1. past = committed /\ past' = committed /\ abandoned' = abandoned
      BY <1>5, <2>1, <2>4 DEF Start, Join, FirstOffsets
    <3> HIDE DEF past, waiting
    <3> QED BY <1>1, <1>3, <2>1, <2>2, <3>1
  <2> QED BY <2>3, <2>4
<1>6. ASSUME Generate PROVE Goal
  <2>1. NextOffsets' = NextOffsets
    BY <1>6, GenerateNext
  <2>2. /\ running /\ running' /\ position' = End
        /\ UNCHANGED <<saved, missed, copies, abandoned>>
    BY <1>6 DEF Generate, ReadTo
  <2>3. Between(Nowhere, position')
          \subseteq Between(Nowhere, position) \cup Between(position, position')
    <3>1. \A t \in Topics : Nowhere[t] \in Int /\ position[t] \in Int /\ position'[t] \in Int
      BY NaturalBounds DEF Shape, TypeOK, GroupTypeOK, Nowhere
    <3> QED BY <3>1, NaturalBounds DEF Between, Offset
  <2>4. \A t \in Topics : /\ position[t] <= position'[t]
                          /\ position[t] \in Int /\ position'[t] \in Int
                          /\ NextOffsets[t] \in Int
    <3>1. \A t \in Topics : NextOffsets[t] \in Int
      BY NextType, NaturalBounds DEF Shape
    <3>2. \A t \in Topics : position[t] \in Int /\ position'[t] \in Int
      BY NaturalBounds DEF Shape, TypeOK, GroupTypeOK
    <3>3. \A t \in Topics : position[t] <= position'[t]
      BY <2>2 DEF Shape, TypeOK, GroupTypeOK, End
    <3> QED BY <3>1, <3>2, <3>3
  <2>5. Between(NextOffsets, position) \subseteq Between(NextOffsets, position')
    BY <2>4 DEF Between, Offset
  <2>6. Between(position, position') \subseteq Between(NextOffsets, position')
    <3>1. \A t \in Topics : NextOffsets[t] <= position[t]
      BY NextBehind
    <3> QED BY <2>4, <3>1 DEF Between, Offset
  <2>7. saved \cap Between(position, position') = {}
    <3>1. CASE saved = {}
      BY <3>1
    <3>2. CASE saved # {}
      <4>1. batches # <<>> /\ saved \subseteq Records(Head(batches))
        BY <3>2 DEF Shape, TypeOK, Working
      <4>2. Head(batches) = batches[1] /\ 1 \in 1..Len(batches)
        BY <4>1, HeadIsFirst DEF Shape
      <4>3. \A t \in Topics : batches[1].until[t] <= position[t] /\ batches[1].until[t] \in Int
        BY <4>2, BatchesType, NaturalBounds DEF Shape, Consecutive
      <4> QED BY <2>4, <4>1, <4>2, <4>3 DEF Records, Between, Offset
    <3> QED BY <3>1, <3>2
  <2> QED BY <1>1, <1>3, <2>1, <2>2, <2>3, <2>5, <2>6, <2>7
<1>7. ASSUME Commit, UNCHANGED sink PROVE Goal
  <2>1. UNCHANGED <<missed, waiting, abandoned>> /\ past = position /\ past' = position
    BY <1>7 DEF Commit, sink, NextOffsets, Between
  <2> QED BY <1>1, <1>3, <2>1
<1>8. ASSUME SaveRow PROVE Goal
  <2>1. PICK r \in Records(Head(batches)) \ saved :
          /\ saved' = saved \cup {r}
          /\ copies' = [copies EXCEPT ![r] = @ + 1]
    BY <1>8 DEF SaveRow
  <2>2. r \in Saved'
    <3>1. r \in Topics \X Offset /\ copies[r] \in Nat
      BY <2>1 DEF Shape, TypeOK, Records, Between
    <3> QED BY <2>1, <3>1 DEF Saved, Shape, TypeOK
  <2>3. NextOffsets' = NextOffsets /\ UNCHANGED <<position, running, committed, abandoned, missed>>
    BY <1>8, JobNext DEF SaveRow, group
  <2>4. waiting \subseteq waiting' \cup {r} /\ past' = past
    BY <2>1, <2>3 DEF Between
  <2> HIDE DEF past, waiting
  <2> QED BY <1>1, <1>3, <2>2, <2>3, <2>4
<1>9. ASSUME SaveEnds \/ SaveFails PROVE Goal
  <2>1. /\ saved' = {} /\ UNCHANGED <<copies, position, running, committed, abandoned>>
        /\ missed \subseteq missed'
        /\ Records(Head(batches)) \subseteq saved \cup missed'
    BY <1>9 DEF SaveEnds, SaveFails, group
  <2>2. /\ NextOffsets = Head(batches).from /\ NextOffsets' = Head(batches).until
    BY <1>9, JobNext
  <2>3. \A t \in Topics : NextOffsets[t] \in Int /\ NextOffsets'[t] \in Int /\ position[t] \in Int
    <3>1. NextOffsets \in [Topics -> 0..MaxLog] /\ NextOffsets' \in [Topics -> 0..MaxLog]
      BY <1>9, JobNext
    <3> QED BY <3>1, NaturalBounds DEF Shape, TypeOK, GroupTypeOK
  <2>4. waiting \subseteq missed' \cup waiting'
    <3>1. Between(NextOffsets, position)
            \subseteq Records(Head(batches)) \cup Between(NextOffsets', position)
      BY <2>2, <2>3 DEF Records, Between, Offset
    <3> QED BY <2>1, <3>1
  <2>5. past' = past
    BY <2>1
  <2> HIDE DEF past, waiting
  <2> QED BY <1>1, <1>3, <2>1, <2>4, <2>5
<1>10. ASSUME Show PROVE Goal
  <2>1. NextOffsets' = NextOffsets
    BY <1>10, ShowShape
  <2>2. UNCHANGED <<position, running, committed, abandoned, missed, saved>>
    BY <1>10 DEF Show, group
  <2>3. waiting' = waiting /\ past' = past
    BY <2>1, <2>2 DEF Between
  <2> HIDE DEF past, waiting
  <2> QED BY <1>1, <1>3, <2>2, <2>3
<1>11. ASSUME Stop PROVE Goal
  <2>1. /\ running /\ ~running' /\ UNCHANGED <<position, committed>>
        /\ abandoned' = abandoned \cup {r \in missed \cup waiting : Behind(r)}
    BY <1>11, UnfinishedIs DEF Stop, StopWith, Shape
  <2>2. Between(Nowhere, past') \subseteq Between(Nowhere, position)
    BY <2>1, NaturalBounds
       DEF Shape, CommitsBehind, TypeOK, GroupTypeOK, Between, Nowhere, Offset
  <2>3. \A r \in Between(Nowhere, past') : Behind(r)
    BY <2>1 DEF Between, Behind
  <2>4. past = position
    BY <2>1
  <2> HIDE DEF past, waiting
  <2> QED BY <1>1, <1>3, <2>1, <2>2, <2>3, <2>4
<1>12. ASSUME UNCHANGED vars PROVE Goal
  <2>1. UNCHANGED <<missed, waiting, abandoned, past>>
    BY <1>12 DEF vars, group, NextOffsets, Between
  <2> HIDE DEF past, waiting
  <2> QED BY <1>1, <1>3, <2>1
<1> QED
  BY <1>2, <1>4, <1>5, <1>6, <1>7, <1>8, <1>9, <1>10, <1>11, <1>12 DEF Next, Work

-----------------------------------------------------------------------------
IInv == Shape /\ CountedOnce /\ PastIsKnown

LEMMA InitHolds == GroupBounds /\ Init => IInv
<1> SUFFICES ASSUME GroupBounds, Init PROVE IInv
  OBVIOUS
<1>1. /\ saved = {} /\ running = FALSE /\ runs = 0 /\ committed = NONE
      /\ position = Nowhere /\ \A r \in Topics \X Offset : copies[r] = 0
  BY DEF Init, GroupInit
<1>2. CountedOnce
  BY <1>1 DEF CountedOnce, Rows, OnceARun
<1>3. PastIsKnown
  <2>1. \A t \in Topics : Nowhere[t] = 0
    BY DEF Nowhere
  <2>2. \A n \in Offset : ~(0 < n /\ n <= 0)
    BY DEF Offset
  <2>3. Between(Nowhere, Nowhere) = {}
    BY <2>1, <2>2 DEF Between
  <2> QED BY <1>1, <2>3 DEF PastIsKnown
<1> QED BY <1>2, <1>3, InitShape DEF IInv

LEMMA StepShape == ASSUME GroupBounds, Shape, [Next]_vars PROVE Shape'
<1>1. CASE UNCHANGED vars
  BY <1>1 DEF vars, group, Shape, TypeOK, GroupTypeOK, Working, Consecutive, CommitsBehind
<1>2. CASE Next
  BY <1>2, PublishShape, StartShape, GenerateShape, CommitShape, JobShape, ShowShape, StopShape
     DEF Next, Work
<1> QED BY <1>1, <1>2

LEMMA Invariance == GroupBounds => (Spec => []IInv)
<1> SUFFICES ASSUME GroupBounds PROVE Spec => []IInv
  OBVIOUS
<1>1. Init => IInv
  BY InitHolds
<1>2. IInv /\ [Next]_vars => IInv'
  BY StepShape, StepCountsOnce, StepForgetsNone DEF IInv
<1> QED BY <1>1, <1>2, PTL DEF Spec

\* Offsets, batches and jobs stay what they are, and only the save job of the
\* first batch has rows in hand.
THEOREM TypeCorrect == GroupBounds => (Spec => []TypeOK)
<1>1. IInv => TypeOK
  BY DEF IInv, Shape
<1> QED BY Invariance, <1>1, PTL

\* For any topics, and however often jobs fail and the program is stopped and
\* started, a run makes at most one row of a record (KafkaToCassandra.scala
\* 58-59).
THEOREM AlwaysOnceARun == GroupBounds => (Spec => []OnceARun)
<1>1. IInv => OnceARun
  BY DEF IInv, CountedOnce
<1> QED BY Invariance, <1>1, PTL

\* Every record that the group is past has a row, is in a batch that waits or
\* has failed, or was given up by a stop behind the commit
\* (KafkaToCassandra.scala 32-54).
THEOREM NoneEverForgotten == GroupBounds => (Spec => []NoneForgotten)
<1> SUFFICES ASSUME GroupBounds PROVE Spec => []NoneForgotten
  OBVIOUS
<1>1. IInv => NoneForgotten
  BY UnfinishedIs DEF IInv, Shape, PastIsKnown, NoneForgotten, Accounted
<1> QED BY Invariance, <1>1, PTL
=============================================================================
