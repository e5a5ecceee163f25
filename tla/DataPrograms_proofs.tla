-------------------------- MODULE DataPrograms_proofs --------------------------
(***************************************************************************)
(* Proofs about the programs beside the web application.                   *)
(*                                                                         *)
(* First PioPipeline, for any topic, any number of requests at a time and  *)
(* any records in doubt.  What is emitted or stored twice is decided by    *)
(* what is under way: the invariant says that requests are made for        *)
(* records that have been read and for none that has been stored.          *)
(*                                                                         *)
(* Then DemandEngine, for any times, calendar, places and events.          *)
(* Training and evaluating are algorithms of one step each: what is to be  *)
(* proved is about the operators they are made of, and the invariant only  *)
(* carries it along.                                                       *)
(*                                                                         *)
(* At last all programs together: each of them is as in its own module, so *)
(* that what is proved there holds here.  Much of it is about names: what  *)
(* Flink, Cassandra and Export name in DataPrograms is what the modules    *)
(* with the proofs name, definition by definition.                         *)
(***************************************************************************)
EXTENDS TLAPS, DataPrograms, FiniteSetTheorems

\* A stage that does not run holds nothing.
HoldsNothing == stage # "running" => window = <<>>

\* Requests and events belong to records that have been read.
OfThePast ==
  /\ \A n \in sent : n <= position
  /\ \A i \in 1..Len(stored) : stored[i] <= position

\* An event that exists is not asked for again.
NotAskedAgain == \A i \in 1..Len(stored) : stored[i] \notin sent

\* An answer in the window is the answer to an event that was created.
AnsweredIsStored ==
  \A i \in 1..Len(window) : window[i].answered => In(window[i].record, stored)

\* A source that ends is read once, from its beginning.
ReadOnce == Ends => start = 0 /\ (stage = "off" => position = 0)

\* There is a result when everything has been passed on.
ResultAtTheEnd ==
  /\ result # <<>> =>
       /\ Ends /\ stage = "completed" /\ result = <<Len(log)>>
       /\ \A n \in 1..Len(log) : In(n, stored)
  /\ stage = "completed" => result # <<>>

IInv ==
  /\ TypeOK
  /\ ReadOnce
  /\ ResultAtTheEnd
  /\ HoldsNothing
  /\ InOrder
  /\ OfThePast
  /\ NotAskedAgain
  /\ NotRepeated
  /\ AnsweredIsStored
  /\ EmittedIsStored

-----------------------------------------------------------------------------
\* What has been found in a sequence is found in it when it grows.
LEMMA InGrows ==
  ASSUME NEW S, NEW s \in Seq(S), NEW n \in S, NEW m, In(m, s)
  PROVE  In(m, Append(s, n))
  BY DEF In

LEMMA InAppended ==
  ASSUME NEW S, NEW s \in Seq(S), NEW n \in S
  PROVE  In(n, Append(s, n))
<1>1. /\ Len(s) + 1 \in 1..Len(Append(s, n))
      /\ Append(s, n)[Len(s) + 1] = n
  OBVIOUS
<1> QED BY <1>1 DEF In

LEMMA MembersOfSequence ==
  ASSUME NEW S, NEW s \in Seq(S)
  PROVE  \A i \in 1..Len(s) : s[i] \in S
  OBVIOUS

\* What the members of the flow's collections are.
LEMMA Members ==
  ASSUME IInv
  PROVE  /\ \A n \in sent : n \in Nat
         /\ \A i \in 1..Len(stored) : stored[i] \in Nat
         /\ \A i \in 1..Len(emitted) : emitted[i] \in Nat
         /\ \A i \in 1..Len(window) :
              window[i] \in [record : 1..MaxLog, answered : BOOLEAN]
<1> DEFINE Slots == [record : 1..MaxLog, answered : BOOLEAN]
<1>1. /\ sent \subseteq 1..MaxLog /\ stored \in Seq(1..MaxLog)
      /\ emitted \in Seq(1..MaxLog) /\ window \in Seq(Slots)
  BY DEF IInv, TypeOK, FlowTypeOK
<1> HIDE DEF Slots
<1>2. \A i \in 1..Len(stored) : stored[i] \in 1..MaxLog
  BY <1>1, MembersOfSequence
<1>3. \A i \in 1..Len(emitted) : emitted[i] \in 1..MaxLog
  BY <1>1, MembersOfSequence
<1>4. \A i \in 1..Len(window) : window[i] \in Slots
  BY <1>1, MembersOfSequence
<1> QED BY <1>1, <1>2, <1>3, <1>4 DEF Slots

\* The past stays the past as long as no consumer goes back.
LEMMA PastStays ==
  ASSUME IInv, UNCHANGED <<sent, stored>>,
         position \in Nat, position' \in Nat, position <= position'
  PROVE  OfThePast'
<1>1. \A n \in sent : n \in Nat /\ n <= position
  BY Members DEF IInv, OfThePast
<1>2. \A i \in 1..Len(stored) : stored[i] \in Nat /\ stored[i] <= position
  BY Members DEF IInv, OfThePast
<1>3. \A n \in sent : n <= position'
  BY <1>1
<1>4. \A i \in 1..Len(stored) : stored[i] <= position'
  BY <1>2
<1> QED BY <1>3, <1>4 DEF OfThePast

\* What has been read and counted is as before when a stream goes on, and when it
\* fails.
LEMMA EndStays ==
  ASSUME IInv, UNCHANGED <<program, log, start, stored, result>>,
         stage = "running", stage' \in {"running", "failed"}
  PROVE  ReadOnce' /\ ResultAtTheEnd'
  BY DEF IInv, ReadOnce, ResultAtTheEnd, Ends

LEMMA InitHolds == Init => IInv
<1> SUFFICES ASSUME Init PROVE IInv OBVIOUS
<1> USE DEF Init, FlowInit
<1>1. TypeOK
  <2>1. log \in Seq(Kind) /\ Len(log) \in 0..MaxLog
    <3>1. CASE program = "client"
      BY <3>1, MaxLogAssumption DEF Source
    <3>2. CASE program = "export"
      BY <3>2, MaxLogAssumption DEF Source, Kind
    <3>3. CASE program = "test"
      BY <3>3, MaxLogAssumption DEF Source, Kind
    <3> QED BY <3>1, <3>2, <3>3, ProgramsAssumption
  <2>2. FlowTypeOK(1..MaxLog)
    BY MaxLogAssumption, ParallelismAssumption DEF FlowTypeOK
  <2> QED BY <2>1, <2>2 DEF TypeOK
<1>2. HoldsNothing /\ InOrder /\ OfThePast /\ NotAskedAgain
  BY DEF HoldsNothing, InOrder, OfThePast, NotAskedAgain
<1>3. NotRepeated /\ AnsweredIsStored /\ EmittedIsStored
  BY DEF NotRepeated, Once, AnsweredIsStored, EmittedIsStored
<1>4. ReadOnce /\ ResultAtTheEnd
  BY DEF ReadOnce, ResultAtTheEnd
<1> QED BY <1>1, <1>2, <1>3, <1>4 DEF IInv

LEMMA PublishHolds ==
  ASSUME IInv, NEW kind \in Kind, Publish(kind)
  PROVE  IInv'
<1>1. UNCHANGED <<stage, window, sent, stored, emitted, program, start, position,
                  result>>
  BY DEF Publish, flow
<1>2. TypeOK'
  <2>1. log' \in Seq(Kind) /\ Len(log') = Len(log) + 1 /\ Len(log') <= MaxLog
    BY MaxLogAssumption DEF IInv, TypeOK, Publish
  <2>2. FlowTypeOK(1..MaxLog)'
    BY <1>1 DEF IInv, TypeOK, FlowTypeOK
  <2> QED BY <1>1, <2>1, <2>2 DEF IInv, TypeOK
<1>3. ReadOnce' /\ ResultAtTheEnd'
  BY <1>1 DEF IInv, Publish, Ends, ReadOnce, ResultAtTheEnd
<1> QED
  BY <1>1, <1>2, <1>3 DEF IInv, HoldsNothing, InOrder, OfThePast,
     NotAskedAgain, NotRepeated, Once, AnsweredIsStored, EmittedIsStored, In

LEMMA StartHolds ==
  ASSUME IInv, Start
  PROVE  IInv'
<1>1. /\ stage' = "running" /\ window' = <<>> /\ emitted' = <<>>
      /\ start' = FirstOffset /\ position' = FirstOffset
      /\ UNCHANGED <<sent, stored, program, log, result>> /\ stage = "off"
  BY DEF Start, Materialize
<1>2. /\ position \in Nat /\ Len(log) \in Nat /\ FirstOffset \in Nat
      /\ position <= FirstOffset /\ FirstOffset <= Len(log)
  BY <1>1 DEF IInv, TypeOK, ReadOnce, FirstOffset
<1>3. TypeOK'
  BY <1>1, <1>2, ParallelismAssumption DEF IInv, TypeOK, FlowTypeOK
<1>4. HoldsNothing' /\ InOrder' /\ AnsweredIsStored' /\ EmittedIsStored'
  BY <1>1, <1>2 DEF HoldsNothing, InOrder, AnsweredIsStored, EmittedIsStored
<1>5. OfThePast'
  BY <1>1, <1>2, PastStays
<1>6. NotAskedAgain' /\ NotRepeated'
  BY <1>1 DEF IInv, NotAskedAgain, NotRepeated, Once
<1>7. ReadOnce' /\ ResultAtTheEnd'
  BY <1>1 DEF IInv, ReadOnce, ResultAtTheEnd, FirstOffset, Ends
<1> QED BY <1>3, <1>4, <1>5, <1>6, <1>7 DEF IInv

LEMMA StopHolds ==
  ASSUME IInv, Stop
  PROVE  IInv'
<1>1. /\ stage' = "off" /\ window' = <<>> /\ emitted' = <<>>
      /\ UNCHANGED <<sent, stored, program, log, start, position, result>> /\ ~Ends
  BY DEF Stop
<1>2. TypeOK'
  BY <1>1, ParallelismAssumption DEF IInv, TypeOK, FlowTypeOK
<1>3. ReadOnce' /\ ResultAtTheEnd'
  BY <1>1 DEF IInv, ReadOnce, ResultAtTheEnd, Ends
<1> QED
  BY <1>1, <1>2, <1>3 DEF IInv, HoldsNothing, InOrder, OfThePast,
     NotAskedAgain, NotRepeated, Once, AnsweredIsStored, EmittedIsStored

\* failStage, with or without a record that has just been read.
LEMMA FailHolds ==
  ASSUME IInv, FailStage,
         UNCHANGED <<sent, stored, emitted, program, log, start, result>>,
         stage = "running", position' \in position..Len(log)
  PROVE  IInv'
<1>1. /\ stage' = "failed" /\ window' = <<>>
      /\ UNCHANGED <<sent, stored, emitted, program, log, start, result>>
  BY DEF FailStage
<1>2. /\ position \in Nat /\ position' \in Nat /\ position <= position'
      /\ start \in Nat /\ start <= position'
  BY DEF IInv, TypeOK
<1>3. TypeOK'
  BY <1>1, <1>2, ParallelismAssumption DEF IInv, TypeOK, FlowTypeOK
<1>4. HoldsNothing' /\ InOrder' /\ AnsweredIsStored'
  BY <1>1 DEF HoldsNothing, InOrder, AnsweredIsStored
<1>5. OfThePast'
  BY <1>1, <1>2, PastStays
<1>6. NotAskedAgain' /\ NotRepeated' /\ EmittedIsStored'
  BY <1>1 DEF IInv, NotAskedAgain, NotRepeated, Once, EmittedIsStored, In
<1>7. ReadOnce' /\ ResultAtTheEnd'
  BY <1>1, EndStays
<1> QED BY <1>3, <1>4, <1>5, <1>6, <1>7 DEF IInv

LEMMA ConsumeHolds ==
  ASSUME IInv, Consume
  PROVE  IInv'
<1> DEFINE n == position + 1
<1>1. /\ position \in Nat /\ start \in Nat /\ start <= position
      /\ position < Len(log) /\ position' = n
      /\ n \in 1..MaxLog /\ n <= Len(log) /\ Len(log) \in Nat
      /\ UNCHANGED <<program, log, start, result, stored, emitted>>
      /\ stage = "running" /\ HasRoom
  BY MaxLogAssumption DEF IInv, TypeOK, Consume, TakeRecord
<1>2. CASE HasAllFields(log[n])
  <2>1. /\ window' = Append(window, Slot(n))
        /\ sent' = sent \cup {n} /\ UNCHANGED stage
    BY <1>2 DEF Consume, TakeRecord
  <2>2. /\ window \in Seq([record : 1..MaxLog, answered : BOOLEAN])
        /\ Slot(n) \in [record : 1..MaxLog, answered : BOOLEAN]
        /\ Len(window) < Parallelism
    BY <1>1 DEF IInv, TypeOK, FlowTypeOK, Slot, HasRoom
  <2>3. /\ window' \in Seq([record : 1..MaxLog, answered : BOOLEAN])
        /\ Len(window') = Len(window) + 1 /\ Len(window) \in Nat
        /\ \A i \in 1..Len(window) : window'[i] = window[i]
        /\ window'[Len(window) + 1] = Slot(n)
    BY <2>1, <2>2
  <2>4. TypeOK'
    BY <1>1, <2>1, <2>2, <2>3, ParallelismAssumption DEF IInv, TypeOK, FlowTypeOK
  <2>5. HoldsNothing'
    BY <1>1, <2>1 DEF HoldsNothing
  <2>6. InOrder'
    <3>1. Slot(n).record = n /\ Len(emitted) \in Nat
      BY DEF Slot, IInv, TypeOK, FlowTypeOK
    <3>2. /\ position = start + Len(emitted) + Len(window)
          /\ \A i \in 1..Len(emitted) : emitted[i] = start + i
          /\ \A i \in 1..Len(window) : window[i].record = start + Len(emitted) + i
      BY <1>1 DEF IInv, InOrder
    <3>3. position' = start' + Len(emitted') + Len(window')
      BY <1>1, <2>3, <3>1, <3>2
    <3>4. ASSUME NEW i \in 1..Len(window')
          PROVE  window'[i].record = start' + Len(emitted') + i
      <4>1. CASE i \in 1..Len(window)
        BY <1>1, <2>3, <3>2, <4>1
      <4>2. CASE i = Len(window) + 1
        BY <1>1, <2>3, <3>1, <3>2, <4>2
      <4> QED BY <2>3, <4>1, <4>2
    <3> QED BY <1>1, <3>2, <3>3, <3>4 DEF InOrder
  <2>7. OfThePast'
    <3>1. \A m \in sent : m \in Nat /\ m <= position
      BY Members DEF IInv, OfThePast
    <3>2. \A i \in 1..Len(stored) : stored[i] \in Nat /\ stored[i] <= position
      BY Members DEF IInv, OfThePast
    <3>3. \A m \in sent' : m <= position'
      BY <1>1, <2>1, <3>1
    <3>4. \A i \in 1..Len(stored') : stored'[i] <= position'
      BY <1>1, <3>2
    <3> QED BY <3>3, <3>4 DEF OfThePast
  <2>8. NotAskedAgain' /\ NotRepeated'
    BY <1>1, <2>1 DEF IInv, TypeOK, FlowTypeOK, OfThePast, NotAskedAgain,
       NotRepeated, Once
  <2>9. AnsweredIsStored' /\ EmittedIsStored'
    <3>1. ~Slot(n).answered
      BY DEF Slot
    <3>2. ASSUME NEW i \in 1..Len(window'), window'[i].answered
          PROVE  In(window'[i].record, stored')
      <4>1. i \in 1..Len(window)
        BY <2>3, <3>1, <3>2
      <4>2. window'[i] = window[i] /\ stored' = stored
        BY <1>1, <2>3, <4>1
      <4> QED BY <3>2, <4>1, <4>2 DEF IInv, AnsweredIsStored
    <3>3. AnsweredIsStored'
      BY <3>2 DEF AnsweredIsStored
    <3>4. EmittedIsStored'
      BY <1>1 DEF IInv, EmittedIsStored, In
    <3> QED BY <3>3, <3>4
  <2>10. ReadOnce' /\ ResultAtTheEnd'
    BY <1>1, <2>1, EndStays
  <2> QED BY <2>4, <2>5, <2>6, <2>7, <2>8, <2>9, <2>10 DEF IInv
<1>3. CASE ~HasAllFields(log[n])
  <2>1. FailStage /\ UNCHANGED sent
    BY <1>3 DEF Consume, TakeRecord
  <2> QED BY <1>1, <2>1, FailHolds
<1> QED BY <1>2, <1>3

LEMMA EmitHolds ==
  ASSUME IInv, Emit
  PROVE  IInv'
<1> DEFINE Slots == [record : 1..MaxLog, answered : BOOLEAN]
           n == Head(window).record
<1>1. /\ stage = "running" /\ window # <<>> /\ Head(window).answered
      /\ emitted' = Append(emitted, n) /\ window' = Tail(window)
      /\ UNCHANGED <<stage, sent, stored, program, log, start, position, result>>
  BY DEF Emit, EmitNext
<1>2. /\ window \in Seq(Slots) /\ emitted \in Seq(1..MaxLog)
      /\ Len(window) \in Nat \ {0} /\ Len(emitted) \in Nat
      /\ start \in Nat /\ Head(window) = window[1]
  BY <1>1 DEF IInv, TypeOK, FlowTypeOK
<1>3. /\ window' \in Seq(Slots) /\ Len(window') = Len(window) - 1
      /\ \A i \in 1..Len(window') : window'[i] = window[i + 1]
  BY <1>1, <1>2
<1>4. n \in 1..MaxLog
  <2>1. window[1] \in Slots
    BY <1>2, Members
  <2> QED BY <1>2, <2>1
<1>5. /\ emitted' \in Seq(1..MaxLog) /\ Len(emitted') = Len(emitted) + 1
      /\ \A i \in 1..Len(emitted) : emitted'[i] = emitted[i]
      /\ emitted'[Len(emitted) + 1] = n
  BY <1>1, <1>2, <1>4
<1>6. TypeOK'
  BY <1>1, <1>2, <1>3, <1>5, ParallelismAssumption DEF IInv, TypeOK, FlowTypeOK
<1>7. HoldsNothing' /\ OfThePast' /\ NotAskedAgain' /\ NotRepeated'
  BY <1>1 DEF IInv, HoldsNothing, OfThePast, NotAskedAgain, NotRepeated, Once
<1>8. InOrder'
  <2>1. n = start + Len(emitted) + 1
    BY <1>1, <1>2 DEF IInv, InOrder
  <2>2. position' = start' + Len(emitted') + Len(window')
    BY <1>1, <1>2, <1>3, <1>5 DEF IInv, InOrder
  <2>3. \A i \in 1..Len(emitted') : emitted'[i] = start' + i
    <3>1. \A i \in 1..Len(emitted) : emitted[i] = start + i
      BY <1>1 DEF IInv, InOrder
    <3>2. ASSUME NEW i \in 1..Len(emitted')
          PROVE  emitted'[i] = start' + i
      <4>1. CASE i \in 1..Len(emitted)
        BY <1>1, <1>5, <3>1, <4>1
      <4>2. CASE i = Len(emitted) + 1
        BY <1>1, <1>2, <1>5, <2>1, <4>2
      <4> QED BY <1>2, <1>5, <4>1, <4>2
    <3> QED BY <3>2
  <2>4. \A i \in 1..Len(window') : window'[i].record = start' + Len(emitted') + i
    BY <1>1, <1>2, <1>3, <1>5 DEF IInv, InOrder
  <2> QED BY <2>2, <2>3, <2>4 DEF InOrder
<1>9. AnsweredIsStored'
  <2>1. ASSUME NEW i \in 1..Len(window'), window'[i].answered
        PROVE  In(window'[i].record, stored')
    <3>1. i + 1 \in 1..Len(window) /\ window'[i] = window[i + 1] /\ stored' = stored
      BY <1>1, <1>2, <1>3
    <3> QED BY <2>1, <3>1 DEF IInv, AnsweredIsStored
  <2> QED BY <2>1 DEF AnsweredIsStored
<1>10. EmittedIsStored'
  <2>1. In(n, stored)
    BY <1>1, <1>2 DEF IInv, AnsweredIsStored
  <2>2. ASSUME NEW i \in 1..Len(emitted')
        PROVE  In(emitted'[i], stored)
    <3>1. CASE i \in 1..Len(emitted)
      BY <1>5, <3>1 DEF IInv, EmittedIsStored
    <3>2. CASE i = Len(emitted) + 1
      BY <1>5, <2>1, <3>2
    <3> QED BY <1>2, <1>5, <3>1, <3>2
  <2> QED BY <1>1, <2>2 DEF EmittedIsStored, In
<1>11. ReadOnce' /\ ResultAtTheEnd'
  BY <1>1, EndStays
<1> QED BY <1>6, <1>7, <1>8, <1>9, <1>10, <1>11 DEF IInv

LEMMA CreateHolds ==
  ASSUME IInv, NEW n \in sent, CreateEvent(n),
         UNCHANGED <<program, log, start, position, result>>
  PROVE  IInv'
<1>1. /\ sent' = sent \ {n} /\ stored' = Append(stored, n)
      /\ UNCHANGED <<stage, window, emitted, program, log, start, position, result>>
  BY DEF CreateEvent
<1>2. /\ stored \in Seq(1..MaxLog) /\ n \in 1..MaxLog /\ Len(stored) \in Nat
      /\ n <= position
  BY DEF IInv, TypeOK, FlowTypeOK, OfThePast
<1>3. /\ stored' \in Seq(1..MaxLog) /\ Len(stored') = Len(stored) + 1
      /\ \A i \in 1..Len(stored) : stored'[i] = stored[i]
      /\ stored'[Len(stored) + 1] = n
  BY <1>1, <1>2
<1>4. TypeOK'
  BY <1>1, <1>3 DEF IInv, TypeOK, FlowTypeOK
<1>5. HoldsNothing' /\ InOrder'
  BY <1>1 DEF IInv, HoldsNothing, InOrder
<1>6. OfThePast'
  BY <1>1, <1>2, <1>3 DEF IInv, OfThePast
<1>7. NotAskedAgain'
  BY <1>1, <1>2, <1>3 DEF IInv, NotAskedAgain
<1>8. NotRepeated'
  BY <1>1, <1>2, <1>3 DEF IInv, NotAskedAgain, NotRepeated, Once
<1>9. \A m : In(m, stored) => In(m, stored')
  BY <1>1, <1>2, InGrows
<1>10. AnsweredIsStored' /\ EmittedIsStored'
  BY <1>1, <1>9 DEF IInv, AnsweredIsStored, EmittedIsStored
<1>11. ReadOnce' /\ ResultAtTheEnd'
  BY <1>1, <1>9 DEF IInv, ReadOnce, ResultAtTheEnd, Ends
<1> QED BY <1>4, <1>5, <1>6, <1>7, <1>8, <1>10, <1>11 DEF IInv

LEMMA RefuseHolds ==
  ASSUME IInv, NEW n \in sent, RefuseEvent(n),
         UNCHANGED <<program, log, start, position, result>>
  PROVE  IInv'
<1>1. /\ sent' = sent \ {n}
      /\ UNCHANGED <<stage, window, stored, emitted, program, log, start, position,
                    result>>
  BY DEF RefuseEvent
<1>2. TypeOK'
  BY <1>1 DEF IInv, TypeOK, FlowTypeOK
<1>3. ReadOnce' /\ ResultAtTheEnd'
  BY <1>1 DEF IInv, ReadOnce, ResultAtTheEnd, Ends, In
<1> QED
  BY <1>1, <1>2, <1>3 DEF IInv, HoldsNothing, InOrder, OfThePast,
     NotAskedAgain, NotRepeated, Once, AnsweredIsStored, EmittedIsStored, In

LEMMA ResponseHolds ==
  ASSUME IInv, NEW i \in 1..Len(window), ResponseCreated(i),
         UNCHANGED <<program, log, start, position, result>>
  PROVE  IInv'
<1> DEFINE Slots == [record : 1..MaxLog, answered : BOOLEAN]
<1>1. /\ window' = [window EXCEPT ![i].answered = TRUE]
      /\ In(window[i].record, stored)
      /\ UNCHANGED <<stage, sent, stored, emitted, program, log, start, position,
                    result>>
  BY DEF ResponseCreated
<1>2. window \in Seq(Slots)
  BY DEF IInv, TypeOK, FlowTypeOK
<1>3. /\ window' \in Seq(Slots) /\ Len(window') = Len(window)
      /\ \A j \in 1..Len(window) : window'[j].record = window[j].record
      /\ \A j \in 1..Len(window) : j # i => window'[j] = window[j]
  <2> DEFINE slot == [window[i] EXCEPT !.answered = TRUE]
  <2>1. window' = [window EXCEPT ![i] = slot]
    BY <1>1
  <2>2. window[i] \in Slots
    BY Members
  <2>3. slot \in Slots /\ slot.record = window[i].record
    BY <2>2
  <2> HIDE DEF slot
  <2>4. /\ Len(window') = Len(window) /\ window'[i] = slot
        /\ \A j \in 1..Len(window) : j # i => window'[j] = window[j]
    BY <1>2, <2>1
  <2>5. window' \in Seq(Slots)
    BY <1>2, <2>1, <2>3
  <2> QED BY <2>3, <2>4, <2>5
<1>4. TypeOK'
  BY <1>1, <1>3 DEF IInv, TypeOK, FlowTypeOK
<1>5. HoldsNothing'
  BY <1>1, <1>2 DEF IInv, HoldsNothing
<1>6. InOrder'
  BY <1>1, <1>3 DEF IInv, InOrder
<1>7. OfThePast' /\ NotAskedAgain' /\ NotRepeated' /\ EmittedIsStored'
  BY <1>1 DEF IInv, OfThePast, NotAskedAgain, NotRepeated, Once,
     EmittedIsStored, In
<1>8. AnsweredIsStored'
  BY <1>1, <1>3 DEF IInv, AnsweredIsStored, In
<1>9. ReadOnce' /\ ResultAtTheEnd'
  BY <1>1 DEF IInv, ReadOnce, ResultAtTheEnd, Ends, In
<1> QED BY <1>4, <1>5, <1>6, <1>7, <1>8, <1>9 DEF IInv

LEMMA CompleteHolds ==
  ASSUME IInv, Complete
  PROVE  IInv'
<1>1. /\ stage = "running" /\ stage' = "completed" /\ Ends
      /\ position = Len(log) /\ window = <<>>
      /\ result' = Append(result, Len(emitted))
      /\ UNCHANGED <<window, sent, stored, emitted, program, log, start, position>>
  BY DEF Complete
<1>2. result = <<>> /\ start = 0 /\ Len(emitted) = Len(log)
  <2>1. Len(emitted) \in Nat /\ position = start + Len(emitted) + Len(window)
    BY <1>1 DEF IInv, TypeOK, FlowTypeOK, InOrder
  <2>2. result = <<>> /\ start = 0
    BY <1>1 DEF IInv, ReadOnce, ResultAtTheEnd
  <2> QED BY <1>1, <2>1, <2>2
<1>3. result' = <<Len(log)>>
  BY <1>1, <1>2
<1>4. \A n \in 1..Len(log) : In(n, stored)
  <2> SUFFICES ASSUME NEW n \in 1..Len(log) PROVE In(n, stored) OBVIOUS
  <2>1. emitted[n] = n
    BY <1>1, <1>2 DEF IInv, InOrder
  <2> QED BY <1>2, <2>1 DEF IInv, EmittedIsStored
<1>5. ReadOnce' /\ ResultAtTheEnd'
  <2>1. ReadOnce'
    BY <1>1, <1>2 DEF ReadOnce, Ends
  <2>2. result' # <<>>
    BY <1>3
  <2> QED BY <1>1, <1>3, <1>4, <2>1, <2>2 DEF ResultAtTheEnd, Ends, In
<1>6. TypeOK'
  <2>1. result' \in Seq(0..MaxLog)
    <3>1. Len(log) \in 0..MaxLog
      BY MaxLogAssumption DEF IInv, TypeOK
    <3> QED BY <1>3, <3>1
  <2>2. FlowTypeOK(1..MaxLog)'
    BY <1>1 DEF IInv, TypeOK, FlowTypeOK
  <2> QED BY <1>1, <2>1, <2>2 DEF IInv, TypeOK
<1> QED
  BY <1>1, <1>5, <1>6 DEF IInv, HoldsNothing, InOrder, OfThePast,
     NotAskedAgain, NotRepeated, Once, AnsweredIsStored, EmittedIsStored, In

LEMMA Invariance == Spec => []IInv
<1>1. IInv /\ [Next]_vars => IInv'
  <2> SUFFICES ASSUME IInv, [Next]_vars PROVE IInv' OBVIOUS
  <2>1. CASE \E kind \in {"page", "demo"} : Publish(kind)
    BY <2>1, PublishHolds DEF Kind
  <2>2. CASE Start
    BY <2>2, StartHolds
  <2>3. CASE Consume
    BY <2>3, ConsumeHolds
  <2>4. CASE Emit
    BY <2>4, EmitHolds
  <2>5. CASE Stop
    BY <2>5, StopHolds
  <2>6. CASE Served
    <3>0. Serve(Doubtful) /\ UNCHANGED <<program, log, start, position, result>>
      BY <2>6 DEF Served
    <3>1. CASE \E n \in sent : CreateEvent(n)
      BY <3>0, <3>1, CreateHolds
    <3>2. CASE \E n \in sent \cap Doubtful : RefuseEvent(n)
      BY <3>0, <3>2, RefuseHolds
    <3>3. CASE \E i \in 1..Len(window) : ResponseCreated(i)
      BY <3>0, <3>3, ResponseHolds
    <3>4. CASE \E i \in 1..Len(window) : ResponseFails(i)
      <4>1. /\ FailStage
            /\ UNCHANGED <<sent, stored, emitted, program, log, start, result>>
        BY <3>0, <3>4 DEF ResponseFails
      <4>3. stage = "running"
        BY <3>4 DEF IInv, HoldsNothing
      <4>2. position' \in position..Len(log)
        BY <3>0 DEF IInv, TypeOK
      <4> QED BY <4>1, <4>2, <4>3, FailHolds
    <3> QED BY <3>0, <3>1, <3>2, <3>3, <3>4 DEF Serve
  <2>7. CASE UNCHANGED vars
    <3>1. TypeOK'
      BY <2>7 DEF vars, flow, IInv, TypeOK, FlowTypeOK
    <3>2. ReadOnce' /\ ResultAtTheEnd'
      BY <2>7 DEF vars, flow, IInv, ReadOnce, ResultAtTheEnd, Ends, In
    <3> QED
      BY <2>7, <3>1, <3>2 DEF vars, flow, IInv, HoldsNothing, InOrder, OfThePast,
         NotAskedAgain, NotRepeated, Once, AnsweredIsStored, EmittedIsStored, In
  <2>8. CASE Complete
    BY <2>8, CompleteHolds
  <2> QED BY <2>1, <2>2, <2>3, <2>4, <2>5, <2>6, <2>7, <2>8 DEF Next
<1> QED BY InitHolds, <1>1, PTL DEF Spec

-----------------------------------------------------------------------------
\* A stream never has more than Parallelism records in its window and never
\* reads beyond the end of the topic.
THEOREM TypeCorrect == Spec => []TypeOK
  BY Invariance, PTL DEF IInv

\* While a stream runs, the answers that it has passed on and the records that
\* it holds are, in order and without a gap, the records that it has read
\* (PioClient.scala 47).
THEOREM AlwaysInOrder == Spec => []InOrder
  BY Invariance, PTL DEF IInv

\* Whatever is stopped, started, refused and lost, no record makes two events
\* (PioClient.scala 26-35).
THEOREM NeverRepeated == Spec => []NotRepeated
  BY Invariance, PTL DEF IInv

\* Only answers to events that were created are passed on (PioClient.scala
\* 61-64).
THEOREM EmittedAlwaysStored == Spec => []EmittedIsStored
  BY Invariance, PTL DEF IInv

\* A count that is printed is true: all records of the source are events, once
\* each (DemoData.scala 62-69).
THEOREM PrintedAlwaysStored == Spec => []PrintedIsStored
<1>1. IInv => PrintedIsStored
  BY DEF IInv, ResultAtTheEnd, NotRepeated, PrintedIsStored
<1> QED BY Invariance, <1>1, PTL

-----------------------------------------------------------------------------
\* Induction over the natural numbers needs that they are well-founded.
Less == {ss \in Nat \X Nat : ss[1] < ss[2]}

\* The order that WFMin takes the least element in.
LEMMA LessWF == IsWellFoundedOn(Less, Nat)
  BY NatLessThanWellFounded DEF OpToRel, Less

-----------------------------------------------------------------------------
(* What SequencesExt and FiniteSetsExt compute here.                       *)

\* A set of indices that is not empty has a last one.
LEMMA LastIndex ==
  ASSUME NEW n \in Nat, NEW indices \in SUBSET (1..n), indices # {}
  PROVE  Max(indices) \in indices
<1> DEFINE left == {k \in Nat : n - k \in indices}
<1>1. left # {} /\ left \subseteq Nat
  <2>1. PICK i \in indices : TRUE
    OBVIOUS
  <2>2. n - i \in Nat /\ n - (n - i) = i
    BY <2>1
  <2> QED BY <2>1, <2>2
<1> HIDE DEF left
<1>2. PICK k \in left : \A l \in left : ~(<<l, k>> \in Less)
  BY <1>1, LessWF, WFMin
<1> USE DEF left
<1>3. ASSUME NEW i \in indices
      PROVE  n - k >= i
  <2>1. n - i \in left /\ k \in Nat /\ n - i \in Nat
    OBVIOUS
  <2>2. ~(n - i < k)
    BY <1>2, <2>1 DEF Less
  <2> QED BY <2>1, <2>2
<1>4. n - k \in indices
  OBVIOUS
<1> QED BY <1>3, <1>4 DEF Max

\* An order of n things uses each of them once.
LEMMA OrderIsPermutation ==
  ASSUME NEW n \in Nat, NEW order \in SetToSeqs(1..n)
  PROVE  order \in Bijection(1..n, 1..n)
<1>1. IsFiniteSet(1..n) /\ Cardinality(1..n) = n
  BY FS_Interval
<1>2. order \in [1..n -> 1..n] /\ \A i, j \in 1..n : i # j => order[i] # order[j]
  BY <1>1 DEF SetToSeqs
<1>3. order \in Injection(1..n, 1..n)
  BY <1>2 DEF Injection, IsInjective
<1>4. order \in Surjection(1..n, 1..n)
  BY <1>1, <1>3, FS_Injection
<1> QED BY <1>3, <1>4 DEF Bijection

-----------------------------------------------------------------------------
(* Training.                                                               *)

\* Events are at their times and places; the different ones are finitely many.
LEMMA EntriesOfEvents ==
  ASSUME NEW es \in Seq(UserEvent)
  PROVE  /\ \A i \in DOMAIN es : <<es[i].time, es[i].place>> \in timeAndLatLng(es)
         /\ \A entry \in timeAndLatLng(es) :
              \E i \in DOMAIN es : entry = <<es[i].time, es[i].place>>
         /\ timeAndLatLng(es) \subseteq Times \X Places
         /\ IsFiniteSet(timeAndLatLng(es))
<1> DEFINE entryOf == [i \in 1..Len(es) |-> <<es[i].time, es[i].place>>]
<1>1. DOMAIN es = 1..Len(es) /\ Len(es) \in Nat
  OBVIOUS
<1>2. \A i \in 1..Len(es) : es[i] \in UserEvent
  OBVIOUS
<1>3. timeAndLatLng(es) = {entryOf[i] : i \in 1..Len(es)}
  BY <1>1 DEF timeAndLatLng, ToSet
<1>4. \A i \in 1..Len(es) : entryOf[i] \in Times \X Places
  BY <1>2 DEF UserEvent
<1>5. entryOf \in Surjection(1..Len(es), timeAndLatLng(es))
  BY <1>3 DEF Surjection
<1>6. IsFiniteSet(timeAndLatLng(es))
  BY <1>1, <1>5, FS_Interval, FS_Surjection
<1> QED BY <1>1, <1>3, <1>4, <1>6

\* The weather of a slot is that of some event in the slot.
LEMMA WeatherIsReported ==
  ASSUME NEW es \in Seq(UserEvent), NEW entry \in timeAndLatLng(es)
  PROVE  \E i \in DOMAIN es :
           /\ WeatherOf(es, normalize(entry[1])) = es[i].weather
           /\ normalize(es[i].time) = normalize(entry[1])
<1> DEFINE slot == normalize(entry[1])
           inSlot == {i \in 1..Len(es) : normalize(es[i].time) = slot}
<1>1. WeatherOf(es, slot) = es[IF inSlot # {} THEN Max(inSlot) ELSE 0].weather
  BY DEF WeatherOf, SelectLastInSeq
<1>2. PICK j \in DOMAIN es : entry = <<es[j].time, es[j].place>>
  BY EntriesOfEvents
<1>3. j \in inSlot
  BY <1>2
<1> HIDE DEF slot
<1>4. Max(inSlot) \in inSlot
  <2>1. Len(es) \in Nat /\ inSlot \in SUBSET (1..Len(es))
    OBVIOUS
  <2> HIDE DEF inSlot
  <2> QED BY <1>3, <2>1, LastIndex
<1>5. Max(inSlot) \in DOMAIN es /\ normalize(es[Max(inSlot)].time) = slot
  BY <1>4
<1>6. WeatherOf(es, slot) = es[Max(inSlot)].weather
  BY <1>1, <1>3
<1> HIDE DEF inSlot
<1> QED BY <1>5, <1>6 DEF slot

\* Within a half hour the features of a time and a place are as good as its label.
LEMMA FeaturesAreLabel ==
  ASSUME NEW es, NEW model, NEW entry, NEW other
  PROVE  Label(model, other) = Label(model, entry) <=>
           /\ Features(es, model, other) = Features(es, model, entry)
           /\ normalize(other[1]) = normalize(entry[1])
  BY DEF Features, Label

\* The model has a label for every place that there is.
Labels(es) == [{e.place : e \in ToSet(es)} -> Clusters]

\* What training returns are labelled points.
LEMMA PreparedType ==
  ASSUME EngineBounds, NEW es \in Seq(UserEvent), NEW model \in Labels(es),
         NEW entry \in DOMAIN Prepared(es, model)
  PROVE  Prepared(es, model)[entry] \in Point
<1>1. entry \in timeAndLatLng(es)
  BY DEF Prepared
<1> DEFINE alike == {other \in timeAndLatLng(es) : Label(model, other) = Label(model, entry)}
<1>2. Cardinality(alike) \in Nat
  BY EntriesOfEvents, FS_Subset, FS_CardinalityType
<1>3. PICK i \in DOMAIN es : entry = <<es[i].time, es[i].place>>
  BY <1>1, EntriesOfEvents
<1>4. es[i] \in UserEvent /\ es[i] \in ToSet(es)
  BY DEF ToSet
<1>5. entry[1] \in Times /\ model[entry[2]] \in Clusters
  <2>1. es[i].place \in {e.place : e \in ToSet(es)}
    BY <1>4
  <2>2. model[es[i].place] \in Clusters
    BY <2>1 DEF Labels
  <2>3. entry[1] = es[i].time /\ entry[2] = es[i].place
    BY <1>3
  <2> QED BY <1>4, <2>2, <2>3 DEF UserEvent
<1>6. WeatherOf(es, normalize(entry[1])) \in Weathers
  <2>1. PICK j \in DOMAIN es : WeatherOf(es, normalize(entry[1])) = es[j].weather
    BY <1>1, WeatherIsReported
  <2>2. es[j] \in UserEvent
    OBVIOUS
  <2> QED BY <2>1, <2>2 DEF UserEvent
<1>7. Features(es, model, entry) \in
        [calendar : Range(Calendar), weather : Weathers, cluster : Clusters]
  <2>1. Calendar[denormalize(normalize(entry[1]))] \in Range(Calendar)
    BY <1>5 DEF EngineBounds, Range
  <2> QED BY <1>5, <1>6, <2>1 DEF Features
<1>8. Prepared(es, model)[entry] = [demand |-> Cardinality(alike), features |-> Features(es, model, entry)]
  BY <1>1 DEF Prepared, Count
<1> QED BY <1>2, <1>7, <1>8 DEF Point

\* In any order the events are the same.
LEMMA OrderKeepsEvents ==
  ASSUME NEW es \in Seq(UserEvent), NEW order \in SetToSeqs(DOMAIN es)
  PROVE  LET reordered == [i \in DOMAIN es |-> es[order[i]]]
         IN  reordered \in Seq(UserEvent) /\ ToSet(reordered) = ToSet(es)
<1> DEFINE reordered == [i \in DOMAIN es |-> es[order[i]]]
           n == Len(es)
<1>1. n \in Nat /\ DOMAIN es = 1..n /\ DOMAIN reordered = 1..n
  OBVIOUS
<1>2. order \in [1..n -> 1..n] /\ \A j \in 1..n : \E i \in 1..n : order[i] = j
  BY <1>1, OrderIsPermutation DEF Bijection, Surjection, Injection
<1>3. reordered \in Seq(UserEvent) /\ \A i \in 1..n : reordered[i] = es[order[i]]
  BY <1>1, <1>2
<1> HIDE DEF reordered, n
<1>4. ToSet(reordered) = {reordered[i] : i \in 1..n} /\ ToSet(es) = {es[j] : j \in 1..n}
  BY <1>1 DEF ToSet
<1>5. \A i \in 1..n : reordered[i] \in {es[j] : j \in 1..n}
  BY <1>2, <1>3
<1>6. \A j \in 1..n : es[j] \in {reordered[i] : i \in 1..n}
  <2> SUFFICES ASSUME NEW j \in 1..n PROVE es[j] \in {reordered[i] : i \in 1..n}
    OBVIOUS
  <2>1. PICK i \in 1..n : order[i] = j
    BY <1>2
  <2> QED BY <1>3, <2>1
<1>7. ToSet(reordered) = ToSet(es)
  BY <1>4, <1>5, <1>6
<1> QED BY <1>3, <1>7 DEF reordered

\* Of a point, the order decides at most the weather.
LEMMA OrderChangesWeather ==
  ASSUME NEW es, NEW reordered, ToSet(reordered) = ToSet(es), NEW model,
         NEW entry \in timeAndLatLng(es)
  PROVE  Prepared(reordered, model)[entry] =
           WithWeather(Prepared(es, model)[entry], WeatherOf(reordered, normalize(entry[1])))
<1>1. timeAndLatLng(reordered) = timeAndLatLng(es)
  BY DEF timeAndLatLng
<1>2. Count(reordered, model, Label(model, entry)) = Count(es, model, Label(model, entry))
  BY <1>1 DEF Count
<1>3. Prepared(es, model)[entry] =
        [demand |-> Count(es, model, Label(model, entry)), features |-> Features(es, model, entry)]
  BY DEF Prepared
<1>4. Prepared(reordered, model)[entry] =
        [demand |-> Count(es, model, Label(model, entry)),
         features |-> Features(reordered, model, entry)]
  BY <1>1, <1>2 DEF Prepared
<1> QED BY <1>3, <1>4 DEF WithWeather, Features

\* Any event may come last, and then it is its weather that counts.
LEMMA AnyEventMayBeLast ==
  ASSUME NEW es \in Seq(UserEvent), NEW i \in DOMAIN es
  PROVE  \E order \in SetToSeqs(DOMAIN es) :
           WeatherOf([k \in DOMAIN es |-> es[order[k]]], normalize(es[i].time)) = es[i].weather
<1> DEFINE n == Len(es)
           slot == normalize(es[i].time)
           order == [k \in 1..n |-> IF k = i THEN n ELSE IF k = n THEN i ELSE k]
           reordered == [k \in DOMAIN es |-> es[order[k]]]
           inSlot == {k \in 1..Len(reordered) : normalize(reordered[k].time) = slot}
<1>1. n \in Nat /\ DOMAIN es = 1..n /\ i \in 1..n /\ n \in 1..n
  OBVIOUS
<1> HIDE DEF n
<1>2. order \in SetToSeqs(DOMAIN es)
  <2>1. Cardinality(1..n) = n
    BY <1>1, FS_Interval
  <2>2. order \in [1..n -> 1..n] /\ \A j, k \in 1..n : j # k => order[j] # order[k]
    BY <1>1
  <2> HIDE DEF order
  <2> QED BY <1>1, <2>1, <2>2 DEF SetToSeqs
<1>3. Len(reordered) = n /\ reordered[n] = es[i]
  <2>1. order[n] = i
    BY <1>1
  <2> HIDE DEF order
  <2>2. DOMAIN reordered = 1..n
    BY <1>1
  <2>3. Len(reordered) = n
    <3> HIDE DEF reordered
    <3> QED BY <1>1, <2>2
  <2> QED BY <1>1, <2>1, <2>3
<1> HIDE DEF slot, reordered
<1>4. inSlot \subseteq 1..n /\ n \in inSlot
  BY <1>1, <1>3 DEF slot
<1>5. WeatherOf(reordered, slot) = reordered[IF inSlot # {} THEN Max(inSlot) ELSE 0].weather
  BY DEF WeatherOf, SelectLastInSeq
<1> HIDE DEF inSlot
<1>6. Max(inSlot) = n
  <2>1. \A k \in inSlot : n >= k
    BY <1>1, <1>4
  <2>2. Max(inSlot) \in inSlot /\ \A k \in inSlot : Max(inSlot) >= k
    BY <1>4, <2>1 DEF Max
  <2> HIDE DEF reordered
  <2>3. Max(inSlot) \in 1..n /\ Max(inSlot) >= n
    BY <1>4, <2>2
  <2> QED BY <1>1, <2>3
<1>7. WeatherOf(reordered, slot) = es[i].weather
  BY <1>3, <1>4, <1>5, <1>6
<1> QED BY <1>2, <1>7 DEF reordered, slot

-----------------------------------------------------------------------------
(* Evaluation.                                                             *)

\* The k-th of the indices from m + 1 to n.
LEMMA NthOfInterval ==
  ASSUME NEW m \in Nat, NEW n \in Nat, m <= n, NEW k \in 1..n - m
  PROVE  Nth(m + 1..n, k) = m + k
<1>1. \A i \in m + 1..n : Cardinality({j \in m + 1..n : j <= i}) = i - m
  <2> SUFFICES ASSUME NEW i \in m + 1..n
               PROVE  Cardinality({j \in m + 1..n : j <= i}) = i - m
    OBVIOUS
  <2>1. {j \in m + 1..n : j <= i} = m + 1..i
    OBVIOUS
  <2>2. Cardinality(m + 1..i) = i - (m + 1) + 1
    BY FS_Interval
  <2>3. i - (m + 1) + 1 = i - m
    OBVIOUS
  <2> QED BY <2>1, <2>2, <2>3, Zenon
<1>2. m + k \in m + 1..n
  OBVIOUS
<1>3. \A i \in m + 1..n : Cardinality({j \in m + 1..n : j <= i}) = k <=> i = m + k
  BY <1>1
<1> QED BY <1>2, <1>3 DEF Nth

\* The points for training are the first, those for testing the others.
LEMMA SplitIsCut ==
  ASSUME EngineBounds, NEW es \in Seq(UserEvent)
  PROVE  \E m \in 0..Len(es) :
           /\ Points(es, TRUE) = [k \in 1..m |-> es[k]]
           /\ Points(es, FALSE) = [k \in 1..Len(es) - m |-> es[m + k]]
<1> DEFINE n == Len(es)
           part == EvalK * n
           m == IF part \div 10 + 1 < n THEN part \div 10 + 1 ELSE n
           first == {i \in DOMAIN es : InTraining(i, n) = TRUE}
           others == {i \in DOMAIN es : InTraining(i, n) = FALSE}
<1>1. n \in Nat /\ DOMAIN es = 1..n
  OBVIOUS
<1>2. part \in Nat
  BY <1>1 DEF EngineBounds
<1>3. \A i \in 1..n : InTraining(i, n) <=> 10 * (i - 1) <= part
  BY DEF InTraining
<1> HIDE DEF n, part
<1>4. m \in 0..n
  BY <1>1, <1>2
<1>5. \A i \in 1..n : InTraining(i, n) <=> i <= m
  BY <1>1, <1>2, <1>3
<1> HIDE DEF m
<1>6. first = 0 + 1..m /\ others = m + 1..n
  BY <1>1, <1>4, <1>5
<1>7. Cardinality(first) = m /\ Cardinality(others) = n - m
  <2>1. m \in Nat /\ n \in Nat /\ m <= n
    BY <1>1, <1>4
  <2>2. Cardinality(0 + 1..m) = m
    <3>1. Cardinality(1..m) = IF 1 > m THEN 0 ELSE m - 1 + 1
      BY <2>1, FS_Interval
    <3> QED BY <2>1, <3>1
  <2>3. Cardinality(m + 1..n) = n - m
    <3>1. Cardinality(m + 1..n) = IF m + 1 > n THEN 0 ELSE n - (m + 1) + 1
      BY <2>1, FS_Interval
    <3> QED BY <2>1, <3>1
  <2> QED BY <1>6, <2>2, <2>3, Zenon
<1>8. \A k \in 1..m : Nth(first, k) = k
  <2> HIDE DEF first
  <2>1. ASSUME NEW k \in 1..m PROVE Nth(0 + 1..m, k) = 0 + k
    <3>1. 0 \in Nat /\ m \in Nat /\ 0 <= m /\ k \in 1..m - 0
      BY <1>1, <1>4
    <3> QED BY <3>1, NthOfInterval
  <2> QED BY <1>4, <1>6, <2>1
<1>9. \A k \in 1..n - m : Nth(others, k) = m + k
  <2> HIDE DEF others
  <2>1. m \in Nat /\ n \in Nat /\ m <= n
    BY <1>1, <1>4
  <2>2. \A k \in 1..n - m : Nth(m + 1..n, k) = m + k
    BY <2>1, NthOfInterval
  <2> QED BY <1>6, <2>2
<1>10. /\ Points(es, TRUE) = [k \in 1..Cardinality(first) |-> es[Nth(first, k)]]
       /\ Points(es, FALSE) = [k \in 1..Cardinality(others) |-> es[Nth(others, k)]]
  BY DEF Points, n
<1> HIDE DEF first, others
<1>11. /\ Points(es, TRUE) = [k \in 1..m |-> es[k]]
       /\ Points(es, FALSE) = [k \in 1..n - m |-> es[m + k]]
  BY <1>7, <1>8, <1>9, <1>10
<1> QED BY <1>4, <1>11 DEF n

\* The parts together are the whole.
LEMMA PartsAreWhole ==
  ASSUME NEW es \in Seq(UserEvent), NEW m \in 0..Len(es)
  PROVE  LET training == [k \in 1..m |-> es[k]]
             testing == [k \in 1..Len(es) - m |-> es[m + k]]
         IN  /\ training \in Seq(UserEvent) /\ testing \in Seq(UserEvent)
             /\ Len(training) = m /\ Len(testing) = Len(es) - m
             /\ training \o testing = es
<1> DEFINE n == Len(es)
           training == [k \in 1..m |-> es[k]]
           testing == [k \in 1..n - m |-> es[m + k]]
<1>1. n \in Nat /\ m \in Nat /\ n - m \in Nat /\ DOMAIN es = 1..n
  OBVIOUS
<1>2. \A k \in 1..n : es[k] \in UserEvent
  BY <1>1
<1> HIDE DEF n
<1>3. training \in Seq(UserEvent) /\ Len(training) = m /\ \A k \in 1..m : training[k] = es[k]
  BY <1>1, <1>2 DEF n
<1>4. /\ testing \in Seq(UserEvent) /\ Len(testing) = n - m
      /\ \A k \in 1..n - m : testing[k] = es[m + k]
  BY <1>1, <1>2 DEF n
<1> HIDE DEF training, testing
<1>5. Len(training \o testing) = n /\ training \o testing \in Seq(UserEvent)
  BY <1>1, <1>3, <1>4
<1>6. \A k \in 1..n : (training \o testing)[k] = es[k]
  <2> SUFFICES ASSUME NEW k \in 1..n PROVE (training \o testing)[k] = es[k]
    OBVIOUS
  <2>1. CASE k <= m
    <3>1. (training \o testing)[k] = training[k]
      BY <1>1, <1>3, <1>4, <2>1
    <3> QED BY <1>1, <1>3, <2>1, <3>1
  <2>2. CASE ~(k <= m)
    <3>1. (training \o testing)[k] = testing[k - m]
      BY <1>1, <1>3, <1>4, <2>2
    <3>2. k - m \in 1..n - m /\ m + (k - m) = k
      BY <1>1, <2>2
    <3> QED BY <1>4, <3>1, <3>2
  <2> QED BY <2>1, <2>2
<1>7. es \in Seq(UserEvent) /\ Len(es) = n
  BY DEF n
<1>8. training \o testing = es
  BY <1>1, <1>5, <1>6, <1>7
<1> QED BY <1>3, <1>4, <1>8 DEF n, training, testing

\* Putting events in another order loses none and doubles none.
LEMMA SameBag ==
  ASSUME NEW es \in Seq(UserEvent), NEW order \in SetToSeqs(DOMAIN es)
  PROVE  LET reordered == [i \in DOMAIN es |-> es[order[i]]]
         IN  reordered \in Seq(UserEvent) /\ ToBag(reordered) = ToBag(es)
<1> DEFINE reordered == [i \in DOMAIN es |-> es[order[i]]]
           n == Len(es)
<1>1. n \in Nat /\ DOMAIN es = 1..n /\ DOMAIN reordered = 1..n
  OBVIOUS
<1>2. /\ order \in [1..n -> 1..n] /\ \A j \in 1..n : \E i \in 1..n : order[i] = j
      /\ \A i, j \in 1..n : order[i] = order[j] => i = j
  BY <1>1, OrderIsPermutation DEF Bijection, Surjection, Injection, IsInjective
<1>3. reordered \in Seq(UserEvent) /\ \A i \in 1..n : reordered[i] = es[order[i]]
  BY <1>1, <1>2
<1> HIDE DEF reordered, n
<1>4. Range(reordered) = Range(es)
  <2>1. Range(reordered) = {reordered[i] : i \in 1..n} /\ Range(es) = {es[j] : j \in 1..n}
    BY <1>1 DEF Range
  <2>2. \A i \in 1..n : reordered[i] \in {es[j] : j \in 1..n}
    <3> TAKE i \in 1..n
    <3>1. order[i] \in 1..n
      BY <1>2
    <3>2. reordered[i] = es[order[i]]
      BY <1>3
    <3> QED BY <3>1, <3>2
  <2>3. \A j \in 1..n : es[j] \in {reordered[i] : i \in 1..n}
    <3> SUFFICES ASSUME NEW j \in 1..n PROVE es[j] \in {reordered[i] : i \in 1..n}
      OBVIOUS
    <3>1. PICK i \in 1..n : order[i] = j
      BY <1>2
    <3> QED BY <1>3, <3>1
  <2> QED BY <2>1, <2>2, <2>3
<1>5. ASSUME NEW x \in Range(es)
      PROVE  Cardinality({i \in 1..n : reordered[i] = x}) = Cardinality({j \in 1..n : es[j] = x})
  <2> DEFINE S == {i \in 1..n : reordered[i] = x}
             T == {j \in 1..n : es[j] = x}
             move == [i \in S |-> order[i]]
  <2>1. IsFiniteSet(S)
    BY <1>1, FS_Interval, FS_Subset
  <2>2. move \in [S -> T] /\ \A j \in T : \E i \in S : move[i] = j
    BY <1>2, <1>3
  <2>3. \A i, j \in S : move[i] = move[j] => i = j
    BY <1>2
  <2> HIDE DEF S, T, move
  <2>4. move \in Bijection(S, T)
    BY <2>2, <2>3 DEF Bijection, Injection, Surjection, IsInjective
  <2>5. Cardinality(S) = Cardinality(T)
    BY <2>1, <2>4, FS_Bijection DEF ExistsBijection
  <2> QED BY <2>5 DEF S, T
<1>6. ToBag(reordered) = ToBag(es)
  BY <1>1, <1>4, <1>5 DEF ToBag
<1> QED BY <1>3, <1>6 DEF reordered

\* What an evaluation tests with is taken for actual by its slot alone.
LEMMA SplitType ==
  ASSUME EngineBounds, NEW es \in Seq(UserEvent)
  PROVE  /\ Split(es).training \in Seq(UserEvent) /\ Split(es).testing \in Seq(UserEvent)
         /\ Split(es).actual \in [DOMAIN Split(es).testing -> Nat \ {0}]
<1> DEFINE testing == Points(es, FALSE)
<1>1. PICK m \in 0..Len(es) : /\ Points(es, TRUE) = [k \in 1..m |-> es[k]]
                              /\ testing = [k \in 1..Len(es) - m |-> es[m + k]]
  BY SplitIsCut
<1>2. Points(es, TRUE) \in Seq(UserEvent) /\ testing \in Seq(UserEvent)
  BY <1>1, PartsAreWhole
<1>3. Split(es) = [training |-> Points(es, TRUE), testing |-> testing,
                   actual |-> [i \in DOMAIN testing |-> ActualDemand(testing, testing[i])]]
  BY DEF Split
<1> HIDE DEF testing
<1>4. ASSUME NEW i \in DOMAIN testing
      PROVE  ActualDemand(testing, testing[i]) \in Nat \ {0}
  <2> DEFINE alike == {k \in DOMAIN testing :
                         normalize(testing[k].time) = normalize(testing[i].time)}
  <2>1. IsFiniteSet(DOMAIN testing)
    BY <1>2, FS_Interval
  <2>2. IsFiniteSet(alike) /\ i \in alike
    BY <2>1, FS_Subset
  <2> HIDE DEF alike
  <2>3. Cardinality(alike) \in Nat /\ Cardinality(alike) # 0
    BY <2>2, FS_CardinalityType, FS_EmptySet
  <2> QED BY <2>3 DEF alike, ActualDemand
<1>5. /\ Split(es).training = Points(es, TRUE) /\ Split(es).testing = testing
      /\ Split(es).actual = [i \in DOMAIN testing |-> ActualDemand(testing, testing[i])]
  BY <1>3
<1>6. [i \in DOMAIN testing |-> ActualDemand(testing, testing[i])] \in [DOMAIN testing -> Nat \ {0}]
  BY <1>4
<1> QED BY <1>2, <1>5, <1>6

\* The parts of an evaluation, of events in the order of their times.
LEMMA SplitInTime ==
  ASSUME EngineBounds, NEW es \in Seq(UserEvent),
         \A i, j \in 1..Len(es) : i < j => es[i].time <= es[j].time
  PROVE  /\ Split(es).training \o Split(es).testing = es
         /\ \A e \in ToSet(Split(es).training) : \A f \in ToSet(Split(es).testing) :
              e.time <= f.time
<1> DEFINE training == Split(es).training
           testing == Split(es).testing
           n == Len(es)
<1>1. training = Points(es, TRUE) /\ testing = Points(es, FALSE)
  BY DEF Split
<1> HIDE DEF training, testing
<1>2. PICK m \in 0..n : /\ training = [k \in 1..m |-> es[k]]
                        /\ testing = [k \in 1..n - m |-> es[m + k]]
  BY <1>1, SplitIsCut
<1>3. \A i, j \in 1..n : i < j => es[i].time <= es[j].time
  OBVIOUS
<1>4. training \o testing = es
  BY <1>2, PartsAreWhole
<1>5. n \in Nat
  OBVIOUS
<1> HIDE DEF n
<1>6. ASSUME NEW e \in ToSet(training), NEW f \in ToSet(testing)
      PROVE  e.time <= f.time
  <2>1. PICK i \in 1..m : e = es[i]
    BY <1>2 DEF ToSet
  <2>2. PICK k \in 1..n - m : f = es[m + k]
    BY <1>2 DEF ToSet
  <2>3. i \in 1..n /\ m + k \in 1..n /\ i < m + k
    BY <1>5
  <2> QED BY <1>3, <2>1, <2>2, <2>3
<1> QED BY <1>4, <1>6 DEF training, testing

\* What is said of the i-th event that an evaluation tests with.
Exceeds(actual, es, model, i) ==
  LET learned == Prepared(es, model)[<<es[i].time, es[i].place>>].demand
      sameSlot == {j \in DOMAIN es : normalize(es[j].time) = normalize(es[i].time)}
  IN /\ learned <= actual
     /\ learned = actual <=>
          \A j, k \in sameSlot :
            /\ model[es[j].place] = model[es[k].place]
            /\ es[j].time = es[k].time /\ es[j].place = es[k].place => j = k

\* Between the events of a half hour and the points of one of its clusters are the
\* times and places of the half hour: the one step loses events that are alike,
\* the other those in other clusters.
LEMMA ActualOfSplit ==
  ASSUME NEW es \in Seq(UserEvent), NEW model, NEW i \in DOMAIN es
  PROVE  Exceeds(ActualDemand(es, es[i]), es, model, i)
<1> DEFINE T == timeAndLatLng(es)
           entryOf == [k \in DOMAIN es |-> <<es[k].time, es[k].place>>]
           entry == <<es[i].time, es[i].place>>
           slot == normalize(es[i].time)
           sameSlot == {j \in DOMAIN es : normalize(es[j].time) = slot}
           inSlot == {other \in T : normalize(other[1]) = slot}
           points == {other \in T : Label(model, other) = Label(model, entry)}
           move == [k \in sameSlot |-> entryOf[k]]
           learned == Prepared(es, model)[entry].demand
<1>1. IsFiniteSet(sameSlot)
  <2>1. IsFiniteSet(DOMAIN es)
    <3>1. DOMAIN es = 1..Len(es) /\ Len(es) \in Nat
      OBVIOUS
    <3> QED BY <3>1, FS_Interval
  <2> QED BY <2>1, FS_Subset
<1>2. learned = Cardinality(points)
  <2>1. entry \in timeAndLatLng(es)
    BY EntriesOfEvents
  <2> HIDE DEF entry
  <2>2. Prepared(es, model)[entry].demand =
          Cardinality({other \in timeAndLatLng(es) : Label(model, other) = Label(model, entry)})
    BY <2>1 DEF Prepared, Count
  <2> QED BY <2>2
<1>3. ActualDemand(es, es[i]) = Cardinality(sameSlot)
  BY DEF ActualDemand
<1>4. \A k \in DOMAIN es : /\ entryOf[k] = <<es[k].time, es[k].place>>
                           /\ entryOf[k] \in T
                           /\ entryOf[k][1] = es[k].time
                           /\ Label(model, entryOf[k]) = <<normalize(es[k].time), model[es[k].place]>>
  BY EntriesOfEvents DEF Label
<1>5. \A p \in T : \E k \in DOMAIN es : p = entryOf[k]
  BY EntriesOfEvents
<1>6. entry = entryOf[i] /\ i \in sameSlot
  OBVIOUS
<1> HIDE DEF T, entryOf, entry
<1>7. move \in Surjection(sameSlot, inSlot)
  <2>1. move \in [sameSlot -> inSlot]
    BY <1>4
  <2>2. \A p \in inSlot : \E k \in sameSlot : move[k] = p
    <3> SUFFICES ASSUME NEW p \in inSlot PROVE \E k \in sameSlot : move[k] = p
      OBVIOUS
    <3>1. PICK k \in DOMAIN es : p = entryOf[k]
      BY <1>5
    <3>2. k \in sameSlot
      BY <1>4, <3>1
    <3> QED BY <3>1, <3>2
  <2> HIDE DEF move, inSlot, sameSlot
  <2> QED BY <2>1, <2>2 DEF Surjection
<1>8. move \in Injection(sameSlot, inSlot) <=>
        \A j, k \in sameSlot : es[j].time = es[k].time /\ es[j].place = es[k].place => j = k
  <2>1. \A j, k \in sameSlot :
          move[j] = move[k] <=> es[j].time = es[k].time /\ es[j].place = es[k].place
    <3>1. \A k \in sameSlot : move[k] = <<es[k].time, es[k].place>>
      BY <1>4
    <3> HIDE DEF move, sameSlot
    <3> QED BY <3>1
  <2>2. move \in [sameSlot -> inSlot]
    BY <1>7 DEF Surjection
  <2> HIDE DEF move, inSlot, sameSlot
  <2> QED BY <2>1, <2>2 DEF Injection, IsInjective
<1>9. points \subseteq inSlot
  <2> SUFFICES ASSUME NEW p \in points PROVE p \in inSlot
    OBVIOUS
  <2>1. PICK k \in DOMAIN es : p = entryOf[k]
    BY <1>5
  <2> QED BY <1>4, <1>6, <2>1
<1>10. points = inSlot <=>
         \A j, k \in sameSlot : model[es[j].place] = model[es[k].place]
  <2>1. \A k \in sameSlot : entryOf[k] \in points <=> model[es[k].place] = model[es[i].place]
    BY <1>4, <1>6
  <2>2. \A k \in sameSlot : entryOf[k] \in inSlot
    BY <1>4
  <2>3. \A p \in inSlot : \E k \in sameSlot : p = entryOf[k]
    <3> SUFFICES ASSUME NEW p \in inSlot PROVE \E k \in sameSlot : p = entryOf[k]
      OBVIOUS
    <3>1. PICK k \in DOMAIN es : p = entryOf[k]
      BY <1>5
    <3> QED BY <1>4, <3>1
  <2> HIDE DEF points, inSlot, sameSlot
  <2>4. ASSUME points = inSlot
        PROVE  \A j, k \in sameSlot : model[es[j].place] = model[es[k].place]
    BY <2>1, <2>2, <2>4
  <2>5. ASSUME \A j, k \in sameSlot : model[es[j].place] = model[es[k].place]
        PROVE  points = inSlot
    BY <1>6, <1>9, <2>1, <2>3, <2>5
  <2> QED BY <2>4, <2>5
<1> HIDE DEF points, inSlot, sameSlot, move, learned
<1>11. /\ IsFiniteSet(inSlot)
       /\ Cardinality(inSlot) <= Cardinality(sameSlot)
       /\ Cardinality(inSlot) = Cardinality(sameSlot) <=> move \in Injection(sameSlot, inSlot)
  BY <1>1, <1>7, FS_Surjection
<1>12. /\ IsFiniteSet(points)
       /\ Cardinality(points) <= Cardinality(inSlot)
       /\ Cardinality(points) = Cardinality(inSlot) <=> points = inSlot
  BY <1>9, <1>11, FS_Subset
<1>13. /\ Cardinality(points) \in Nat /\ Cardinality(inSlot) \in Nat
       /\ Cardinality(sameSlot) \in Nat
  BY <1>1, <1>11, <1>12, FS_CardinalityType
<1>14. /\ Cardinality(points) <= Cardinality(sameSlot)
       /\ Cardinality(points) = Cardinality(sameSlot) <=>
            points = inSlot /\ move \in Injection(sameSlot, inSlot)
  BY <1>11, <1>12, <1>13
<1>15. /\ learned <= ActualDemand(es, es[i])
       /\ learned = ActualDemand(es, es[i]) <=>
            \A j, k \in sameSlot :
              /\ model[es[j].place] = model[es[k].place]
              /\ es[j].time = es[k].time /\ es[j].place = es[k].place => j = k
  BY <1>2, <1>3, <1>8, <1>10, <1>14
<1> QED BY <1>15 DEF Exceeds, learned, sameSlot, entry

-----------------------------------------------------------------------------
(* The engine.                                                             *)

\* The labels of the last training, its points, and the last evaluation.
EngineInv ==
  /\ events \in Seq(UserEvent)
  /\ clusterModel # NONE => \A place \in DOMAIN clusterModel : clusterModel[place] \in Clusters
  /\ data # NONE => clusterModel \in Labels(events) /\ data = Prepared(events, clusterModel)
  /\ split # NONE => \E es \in Seq(UserEvent) : split = Split(es)

\* What a step of the engine does to the points and to the evaluation.
LEMMA EngineStep ==
  ASSUME EngineInv, [EngineNext]_engineVars
  PROVE  /\ EngineInv'
         /\ \/ data' = NONE \/ UNCHANGED engineVars
            \/ data' = Prepared(events, clusterModel')
         /\ \/ split' = NONE \/ UNCHANGED engineVars
            \/ \E order \in SetToSeqs(DOMAIN events) :
                   /\ \A i, j \in 1..Len(events) :
                        i < j => Reordered(order)[i].time <= Reordered(order)[j].time
                   /\ split' = Split(Reordered(order))
<1>1. ASSUME NEW event \in UserEvent, Store(event)
      PROVE  EngineInv' /\ data' = NONE /\ split' = NONE
  BY <1>1 DEF EngineInv, Store
<1>2. CASE Train
  <2>1. PICK model \in Labels(events) :
          clusterModel' = model /\ data' = Prepared(events, model)
    BY <1>2 DEF Train, Labels
  <2>2. events' = events /\ split' = NONE
    BY <1>2 DEF Train
  <2>3. \A place \in DOMAIN model : model[place] \in Clusters
    BY DEF Labels
  <2>4. EngineInv'
    BY <2>1, <2>2, <2>3 DEF EngineInv
  <2> QED BY <2>1, <2>2, <2>4
<1>3. CASE Evaluate
  <2>1. PICK order \in SetToSeqs(DOMAIN events) :
          /\ IsSorted(Reordered(order), LAMBDA e, f : e.time <= f.time)
          /\ split' = Split(Reordered(order))
    BY <1>3 DEF Evaluate
  <2>2. data' = NONE /\ events' = events /\ clusterModel' = clusterModel
    BY <1>3 DEF Evaluate
  <2>3. Reordered(order) \in Seq(UserEvent) /\ Len(Reordered(order)) = Len(events)
    <3>1. Reordered(order) \in Seq(UserEvent)
      BY SameBag DEF EngineInv, Reordered
    <3>2. DOMAIN Reordered(order) = 1..Len(events) /\ Len(events) \in Nat
      BY DEF EngineInv, Reordered
    <3> QED BY <3>1, <3>2
  <2>4. \A i, j \in 1..Len(events) :
          i < j => Reordered(order)[i].time <= Reordered(order)[j].time
    BY <2>1, <2>3 DEF IsSorted
  <2>5. EngineInv'
    BY <2>1, <2>2, <2>3 DEF EngineInv
  <2> QED BY <2>1, <2>2, <2>4, <2>5
<1>4. CASE UNCHANGED engineVars
  BY <1>4 DEF EngineInv, engineVars
<1> QED BY <1>1, <1>2, <1>3, <1>4 DEF EngineNext

\* The invariant of the engine.
LEMMA EngineInvariance == EngineSpec => []EngineInv
<1>1. EngineInit => EngineInv
  BY DEF EngineInit, EngineInv
<1>2. EngineInv /\ [EngineNext]_engineVars => EngineInv'
  BY EngineStep
<1> QED BY <1>1, <1>2, PTL DEF EngineSpec

\* Whatever events there are, training returns labelled points and an evaluation
\* divides events and counts at least one for each that it tests with.
THEOREM EngineTypeCorrect == EngineBounds => (EngineSpec => []EngineTypeOK)
<1> SUFFICES ASSUME EngineBounds PROVE EngineSpec => []EngineTypeOK
  OBVIOUS
<1>1. EngineInv => EngineTypeOK
  BY PreparedType, SplitType DEF EngineInv, EngineTypeOK
<1> QED BY EngineInvariance, <1>1, PTL

\* For any events and any calendar, and whatever KMeans puts together, the demand
\* of a point is the number of points with its features in its half hour
\* (Preparator.scala 39-72).
THEOREM PointsAlwaysTheirDemand == EngineSpec => []PointsAreTheirDemand
<1>1. EngineInv => PointsAreTheirDemand
  <2> DEFINE T == timeAndLatLng(events)
             alike(entry) == {other \in DOMAIN data : data[other].features = data[entry].features}
  <2> SUFFICES ASSUME EngineInv, data # NONE, NEW entry \in DOMAIN data
               PROVE  data[entry].demand =
                        Cardinality({other \in alike(entry) : normalize(other[1]) = normalize(entry[1])})
    BY Zenon DEF PointsAreTheirDemand
  <2>1. data = Prepared(events, clusterModel) /\ DOMAIN data = T
    BY DEF EngineInv, Prepared
  <2>2. \A other \in T : data[other].features = Features(events, clusterModel, other)
    BY <2>1 DEF Prepared
  <2>3. data[entry].demand =
          Cardinality({other \in T : Label(clusterModel, other) = Label(clusterModel, entry)})
    BY <2>1 DEF Prepared, Count
  <2> HIDE DEF T
  <2>4. {other \in alike(entry) : normalize(other[1]) = normalize(entry[1])}
          = {other \in T : Label(clusterModel, other) = Label(clusterModel, entry)}
    BY <2>1, <2>2, FeaturesAreLabel
  <2> QED BY <2>3, <2>4
<1> QED BY EngineInvariance, <1>1, PTL

\* For any number of events, the order in which the event store returns them
\* decides the weather of a half hour, and nothing else of its points: it may be
\* any that is reported in it (Preparator.scala 39, 47-50).
THEOREM OrderAlwaysDecidesWeather == EngineSpec => []OrderDecidesWeather
<1>1. EngineInv => OrderDecidesWeather
  <2> SUFFICES ASSUME EngineInv, data # NONE, NEW entry \in DOMAIN data
               PROVE  LET reports == {e \in ToSet(events) : normalize(e.time) = normalize(entry[1])}
                      IN {Prepared(Reordered(order), clusterModel)[entry] :
                            order \in SetToSeqs(DOMAIN events)}
                           = {WithWeather(data[entry], e.weather) : e \in reports}
    BY DEF OrderDecidesWeather
  <2> DEFINE reports == {e \in ToSet(events) : normalize(e.time) = normalize(entry[1])}
             orders == SetToSeqs(DOMAIN events)
  <2>1. events \in Seq(UserEvent) /\ data = Prepared(events, clusterModel)
        /\ entry \in timeAndLatLng(events)
    BY DEF EngineInv, Prepared
  <2>2. \A order \in orders : /\ Reordered(order) \in Seq(UserEvent)
                              /\ ToSet(Reordered(order)) = ToSet(events)
    BY <2>1, OrderKeepsEvents DEF Reordered
  <2>3. \A order \in orders :
          Prepared(Reordered(order), clusterModel)[entry] =
            WithWeather(data[entry], WeatherOf(Reordered(order), normalize(entry[1])))
    BY <2>1, <2>2, OrderChangesWeather
  <2>4. \A order \in orders :
          \E e \in reports : WeatherOf(Reordered(order), normalize(entry[1])) = e.weather
    <3> SUFFICES ASSUME NEW order \in orders
                 PROVE  \E e \in reports :
                          WeatherOf(Reordered(order), normalize(entry[1])) = e.weather
      OBVIOUS
    <3> DEFINE es == Reordered(order)
    <3>1. es \in Seq(UserEvent) /\ ToSet(es) = ToSet(events)
      BY <2>2
    <3>2. entry \in timeAndLatLng(es)
      BY <2>1, <3>1 DEF timeAndLatLng
    <3> HIDE DEF es
    <3>3. PICK k \in DOMAIN es : /\ WeatherOf(es, normalize(entry[1])) = es[k].weather
                                 /\ normalize(es[k].time) = normalize(entry[1])
      BY <3>1, <3>2, WeatherIsReported
    <3>4. es[k] \in reports
      BY <3>1, <3>3 DEF ToSet
    <3> QED BY <3>3, <3>4 DEF es
  <2>5. \A e \in reports :
          \E order \in orders : WeatherOf(Reordered(order), normalize(entry[1])) = e.weather
    <3> SUFFICES ASSUME NEW e \in reports
                 PROVE  \E order \in orders :
                          WeatherOf(Reordered(order), normalize(entry[1])) = e.weather
      OBVIOUS
    <3>1. PICK i \in DOMAIN events : e = events[i]
      BY <2>1 DEF ToSet
    <3>2. normalize(events[i].time) = normalize(entry[1])
      BY <3>1
    <3>3. PICK order \in orders :
            WeatherOf([k \in DOMAIN events |-> events[order[k]]], normalize(events[i].time))
              = events[i].weather
      BY <2>1, AnyEventMayBeLast
    <3> QED BY <3>1, <3>2, <3>3 DEF Reordered
  <2> HIDE DEF reports, orders
  <2>6. {Prepared(Reordered(order), clusterModel)[entry] : order \in orders}
          = {WithWeather(data[entry], e.weather) : e \in reports}
    BY <2>3, <2>4, <2>5
  <2> QED BY <2>6 DEF reports, orders
<1> QED BY EngineInvariance, <1>1, PTL

\* For any events and any part of them for training, an evaluation uses each
\* once and trains with none that is later than one it tests with
\* (DataSource.scala 84-88).
THEOREM AlwaysSplitsInTime == EngineBounds => (EngineSpec => SplitsInTime)
<1> SUFFICES ASSUME EngineBounds PROVE EngineSpec => SplitsInTime
  OBVIOUS
<1> DEFINE Step ==
      split' # NONE =>
        /\ ToBag(split'.training \o split'.testing) = ToBag(events)
        /\ \A e \in ToSet(split'.training) : \A f \in ToSet(split'.testing) : e.time <= f.time
<1>1. EngineInv /\ [EngineNext]_engineVars => [Step]_engineVars
  <2> SUFFICES ASSUME EngineInv, [EngineNext]_engineVars, ~ UNCHANGED engineVars, split' # NONE
               PROVE  Step
    OBVIOUS
  <2>1. PICK order \in SetToSeqs(DOMAIN events) :
          /\ \A i, j \in 1..Len(events) :
               i < j => Reordered(order)[i].time <= Reordered(order)[j].time
          /\ split' = Split(Reordered(order))
    BY EngineStep
  <2>2. events \in Seq(UserEvent)
    BY DEF EngineInv
  <2>3. Reordered(order) \in Seq(UserEvent) /\ ToBag(Reordered(order)) = ToBag(events)
    BY <2>2, SameBag DEF Reordered
  <2>4. Len(Reordered(order)) = Len(events)
    <3>1. DOMAIN Reordered(order) = 1..Len(events) /\ Len(events) \in Nat
      BY <2>2 DEF Reordered
    <3> QED BY <2>3, <3>1
  <2>5. /\ split'.training \o split'.testing = Reordered(order)
        /\ \A e \in ToSet(split'.training) : \A f \in ToSet(split'.testing) : e.time <= f.time
    BY <2>1, <2>3, <2>4, SplitInTime
  <2> QED BY <2>3, <2>5
<1> QED BY EngineInvariance, <1>1, PTL DEF EngineSpec, SplitsInTime

\* For any events and whatever KMeans puts together, the demand that an evaluation
\* takes for actual is no less than what training learns from the same events, and
\* the same only if the events of the half hour are in one cluster and no two of
\* them are alike (DataSource.scala 90-99 against Preparator.scala 39-45).
THEOREM ActualAlwaysExceedsDemand == EngineBounds => (EngineSpec => []ActualExceedsDemand)
<1> SUFFICES ASSUME EngineBounds PROVE EngineSpec => []ActualExceedsDemand
  OBVIOUS
<1>1. EngineInv => ActualExceedsDemand
  <2> DEFINE testing == split.testing
  <2> SUFFICES ASSUME EngineInv, split # NONE,
                      NEW model \in [Places -> Clusters], NEW i \in DOMAIN testing
               PROVE  Exceeds(split.actual[i], testing, model, i)
    BY Zenon DEF ActualExceedsDemand, Exceeds
  <2>1. PICK es \in Seq(UserEvent) : split = Split(es)
    BY DEF EngineInv
  <2>2. testing \in Seq(UserEvent)
    BY <2>1, SplitType
  <2>3. split.actual[i] = ActualDemand(testing, testing[i])
    BY <2>1 DEF Split
  <2> HIDE DEF testing
  <2> QED BY <2>2, <2>3, ActualOfSplit
<1> QED BY EngineInvariance, <1>1, PTL

-----------------------------------------------------------------------------
(* All programs together.                                                  *)

FlinkProofs == INSTANCE WaitAverage_proofs
  WITH Topics <- {"driver"}, Kind <- RouteTimes \cup {PING}, MaxLog <- FlinkMaxLog,
       log <- flinkLog, runs <- flinkRuns, running <- flinkRunning, start <- flinkStart,
       position <- flinkPosition, committed <- flinkCommitted, abandoned <- flinkAbandoned,
       printed <- average

CassandraProofs == INSTANCE CassandraSink_proofs
  WITH Topics <- {"driver", "rider"}, Kind <- {"record"}, MaxLog <- SparkMaxLog,
       log <- sparkLog, runs <- sparkRuns, running <- sparkRunning, start <- sparkStart,
       position <- sparkPosition, committed <- sparkCommitted, abandoned <- sparkAbandoned

ExportProofs == INSTANCE DemoExport_proofs
  WITH Parallelism <- InFlight, stage <- demoStage, printed <- count

\* Whatever program a behaviour is about, pio-client and DemoData do what PioPipeline
\* says, or nothing.
LEMMA IsAPioPipeline == ProgramsSpec => Spec
<1>1. ProgramsInit => Init
  BY DEF ProgramsInit
<1>2. [ProgramsNext]_programsVars => [Next]_vars
  BY DEF ProgramsNext, programsVars
<1> QED BY <1>1, <1>2, PTL DEF ProgramsSpec, Spec

\* So does the engine,
LEMMA IsAnEngine == ProgramsSpec => EngineSpec
<1>1. ProgramsInit => EngineInit
  BY DEF ProgramsInit
<1>2. [ProgramsNext]_programsVars => [EngineNext]_engineVars
  BY DEF ProgramsNext, programsVars
<1> QED BY <1>1, <1>2, PTL DEF ProgramsSpec, EngineSpec

\* flink-client,
LEMMA IsAWaitAverage == ProgramsSpec => Flink!Spec
<1>1. ProgramsInit => Flink!Init
  BY DEF ProgramsInit
<1>2. [ProgramsNext]_programsVars => [Flink!Next]_(Flink!vars)
  BY DEF ProgramsNext, programsVars, flink, Flink!vars, Flink!group
<1> QED BY <1>1, <1>2, PTL DEF ProgramsSpec, Flink!Spec

\* kafka-to-cassandra
LEMMA IsACassandraSink == ProgramsSpec => Cassandra!Spec
<1>1. ProgramsInit => Cassandra!Init
  BY DEF ProgramsInit
<1>2. [ProgramsNext]_programsVars => [Cassandra!Next]_(Cassandra!vars)
  BY DEF ProgramsNext, programsVars, spark, Cassandra!vars, Cassandra!group
<1> QED BY <1>1, <1>2, PTL DEF ProgramsSpec, Cassandra!Spec

\* and DemoData to Kafka.
LEMMA IsAnExport == ProgramsSpec => Export!Spec
<1>1. ProgramsInit => Export!Init
  BY DEF ProgramsInit
<1>2. [ProgramsNext]_programsVars => [Export!Next]_(Export!vars)
  BY DEF ProgramsNext, programsVars, demo, Export!vars, Export!export, Export!files, Export!reader
<1> QED BY <1>1, <1>2, PTL DEF ProgramsSpec, Export!Spec

\* The consumer of flink-client.
LEMMA SameFlinkGroup ==
  /\ \A t, kind : Flink!Publish(t, kind) <=> FlinkProofs!Publish(t, kind)
  /\ Flink!Join <=> FlinkProofs!Join
  /\ \A ends : Flink!ReadTo(ends) <=> FlinkProofs!ReadTo(ends)
  /\ Flink!Commit <=> FlinkProofs!Commit
  /\ Flink!group = FlinkProofs!group
  /\ Flink!Unchanged <=> FlinkProofs!Unchanged
<1>1. \A t, kind : Flink!Publish(t, kind) <=> FlinkProofs!Publish(t, kind)
  BY DEF Flink!Publish, FlinkProofs!Publish
<1>2. Flink!Join <=> FlinkProofs!Join
  BY DEF Flink!Join, FlinkProofs!Join, Flink!FirstOffsets, FlinkProofs!FirstOffsets,
         Flink!End, FlinkProofs!End, Flink!Between, FlinkProofs!Between,
         Flink!Offset, FlinkProofs!Offset
<1>3. \A ends : Flink!ReadTo(ends) <=> FlinkProofs!ReadTo(ends)
  BY DEF Flink!ReadTo, FlinkProofs!ReadTo
<1>4. Flink!Commit <=> FlinkProofs!Commit
  BY DEF Flink!Commit, FlinkProofs!Commit
<1>5. Flink!group = FlinkProofs!group
  BY DEF Flink!group, FlinkProofs!group
<1>6. Flink!Unchanged <=> FlinkProofs!Unchanged
  BY DEF Flink!Unchanged, FlinkProofs!Unchanged
<1> QED BY <1>1, <1>2, <1>3, <1>4, <1>5, <1>6

\* The steps of flink-client.
LEMMA SameWaitAverageNext == [Flink!Next]_(Flink!vars) <=> [FlinkProofs!Next]_(FlinkProofs!vars)
<1>1. Flink!Start <=> FlinkProofs!Start
  BY SameFlinkGroup DEF Flink!Start, FlinkProofs!Start, Flink!FirstOffsets, FlinkProofs!FirstOffsets,
         Flink!End, FlinkProofs!End, Flink!NoTotals, FlinkProofs!NoTotals
<1>2. Flink!Poll <=> FlinkProofs!Poll
  BY SameFlinkGroup DEF Flink!Poll, FlinkProofs!Poll
<1>3. \A t : Flink!Fold(t) <=> FlinkProofs!Fold(t)
  <2>1. \A t, d : Flink!Add(t, d) = FlinkProofs!Add(t, d)
    BY DEF Flink!Add, FlinkProofs!Add, Flink!Int32, FlinkProofs!Int32,
         Flink!ToInt, FlinkProofs!ToInt
  <2>2. \A t : Flink!average(t) = FlinkProofs!average(t)
    BY DEF Flink!average, FlinkProofs!average, Flink!Quotient, FlinkProofs!Quotient
  <2> QED BY SameFlinkGroup, <2>1, <2>2
      DEF Flink!Fold, FlinkProofs!Fold, Flink!group, FlinkProofs!group
<1>4. Flink!Stop <=> FlinkProofs!Stop
  BY SameFlinkGroup DEF Flink!Stop, FlinkProofs!Stop, Flink!StopWith, FlinkProofs!StopWith,
         Flink!InHand, FlinkProofs!InHand, Flink!Between, FlinkProofs!Between,
         Flink!Offset, FlinkProofs!Offset, Flink!Behind, FlinkProofs!Behind
<1>6. Flink!Next <=> FlinkProofs!Next
  BY SameFlinkGroup, <1>1, <1>2, <1>3, <1>4 DEF Flink!Next, FlinkProofs!Next
<1> QED BY <1>6 DEF Flink!vars, FlinkProofs!vars, Flink!group, FlinkProofs!group

\* FiniteSets, by both names.
LEMMA SameFlinkSets ==
  /\ \A S : Flink!IsFiniteSet(S) <=> FlinkProofs!IsFiniteSet(S)
  /\ \A S : Flink!Cardinality(S) = FlinkProofs!Cardinality(S)
<1>1. \A S : Flink!IsFiniteSet(S) <=> FlinkProofs!IsFiniteSet(S)
  BY DEF Flink!IsFiniteSet, FlinkProofs!IsFiniteSet
<1>2. \A S : Flink!Cardinality(S) = FlinkProofs!Cardinality(S)
  BY DEF Flink!Cardinality, FlinkProofs!Cardinality
<1> QED BY <1>1, <1>2

\* The routes that a run has come past.
LEMMA SameRoutesSeen == Flink!RoutesSeen = FlinkProofs!RoutesSeen
  BY DEF Flink!RoutesSeen, FlinkProofs!RoutesSeen, Flink!Between, FlinkProofs!Between,
         Flink!Offset, FlinkProofs!Offset

\* What an Int can hold.
LEMMA SameFits == Flink!Fits <=> FlinkProofs!Fits
  BY SameFlinkSets, SameRoutesSeen DEF Flink!Fits, FlinkProofs!Fits

\* Flink and FlinkProofs are the same program, and say the same of it.
LEMMA SameWaitAverage ==
  /\ Flink!Spec <=> FlinkProofs!Spec
  /\ Flink!Bounds <=> FlinkProofs!Bounds
  /\ [](Flink!TypeOK <=> FlinkProofs!TypeOK)
  /\ [](Flink!CloseToMean <=> FlinkProofs!CloseToMean)
  /\ [](Flink!NoneForgotten <=> FlinkProofs!NoneForgotten)
  /\ Flink!MovesTowardsRoute <=> FlinkProofs!MovesTowardsRoute
<1>1. Flink!Init <=> FlinkProofs!Init
  BY DEF Flink!Init, FlinkProofs!Init, Flink!GroupInit, FlinkProofs!GroupInit,
         Flink!Nowhere, FlinkProofs!Nowhere, Flink!NoTotals, FlinkProofs!NoTotals
<1>2. Flink!Bounds <=> FlinkProofs!Bounds
  BY SameFlinkSets
     DEF Flink!Bounds, FlinkProofs!Bounds, Flink!GroupBounds, FlinkProofs!GroupBounds
<1>3. Flink!TypeOK <=> FlinkProofs!TypeOK
  BY SameFits
     DEF Flink!TypeOK, FlinkProofs!TypeOK, Flink!GroupTypeOK, FlinkProofs!GroupTypeOK,
         Flink!Offset, FlinkProofs!Offset
<1>4. Flink!CloseToMean <=> FlinkProofs!CloseToMean
  BY SameFlinkSets, SameFits, SameRoutesSeen
     DEF Flink!CloseToMean, FlinkProofs!CloseToMean
<1>5. Flink!NoneForgotten <=> FlinkProofs!NoneForgotten
  BY DEF Flink!NoneForgotten, FlinkProofs!NoneForgotten,
         Flink!Accounted, FlinkProofs!Accounted, Flink!InHand, FlinkProofs!InHand,
         Flink!Nowhere, FlinkProofs!Nowhere, Flink!Between, FlinkProofs!Between,
         Flink!Offset, FlinkProofs!Offset
<1>6. Flink!MovesTowardsRoute <=> FlinkProofs!MovesTowardsRoute
  <2> DEFINE Here ==
               [\A t \in {"driver"} :
                  flinkRunning /\ folded'[t] = folded[t] + 1 /\ flinkLog[t][folded'[t]] # PING
                    /\ average # NONE /\ Flink!Fits' =>
                  LET wait == Flink!ToInt(flinkLog[t][folded'[t]])
                  IN \/ average <= average' /\ average' <= wait
                     \/ wait <= average' /\ average' <= average]_Flink!vars
             There ==
               [\A t \in {"driver"} :
                  flinkRunning /\ folded'[t] = folded[t] + 1 /\ flinkLog[t][folded'[t]] # PING
                    /\ average # NONE /\ FlinkProofs!Fits' =>
                  LET wait == FlinkProofs!ToInt(flinkLog[t][folded'[t]])
                  IN \/ average <= average' /\ average' <= wait
                     \/ wait <= average' /\ average' <= average]_FlinkProofs!vars
  <2>1. Here <=> There
    <3>1. Flink!Fits' <=> FlinkProofs!Fits'
      BY SameFlinkSets
         DEF Flink!Fits, FlinkProofs!Fits, Flink!RoutesSeen, FlinkProofs!RoutesSeen,
             Flink!Between, FlinkProofs!Between, Flink!Offset, FlinkProofs!Offset
    <3> QED BY <3>1
            DEF Flink!ToInt, FlinkProofs!ToInt, Flink!vars, FlinkProofs!vars,
                Flink!group, FlinkProofs!group
  <2> QED BY <2>1, PTL DEF Flink!MovesTowardsRoute, FlinkProofs!MovesTowardsRoute
<1> QED BY <1>1, <1>2, <1>3, <1>4, <1>5, <1>6, SameWaitAverageNext, PTL
     DEF Flink!Spec, FlinkProofs!Spec

\* The steps of kafka-to-cassandra.
LEMMA SameCassandraSinkNext ==
  [Cassandra!Next]_(Cassandra!vars) <=> [CassandraProofs!Next]_(CassandraProofs!vars)
<1>1. \A t, kind : (Cassandra!Publish(t, kind) /\ UNCHANGED Cassandra!sink)
                     <=> (CassandraProofs!Publish(t, kind) /\ UNCHANGED CassandraProofs!sink)
  BY DEF Cassandra!Publish, CassandraProofs!Publish, Cassandra!sink, CassandraProofs!sink
<1>2. Cassandra!Start <=> CassandraProofs!Start
  BY DEF Cassandra!Start, CassandraProofs!Start, Cassandra!Join, CassandraProofs!Join,
         Cassandra!Reset, CassandraProofs!Reset,
         Cassandra!FirstOffsets, CassandraProofs!FirstOffsets,
         Cassandra!End, CassandraProofs!End, Cassandra!Between, CassandraProofs!Between,
         Cassandra!Offset, CassandraProofs!Offset
<1>3. Cassandra!Generate <=> CassandraProofs!Generate
  BY DEF Cassandra!Generate, CassandraProofs!Generate,
         Cassandra!ReadTo, CassandraProofs!ReadTo, Cassandra!End, CassandraProofs!End
<1>4. (Cassandra!Commit /\ UNCHANGED Cassandra!sink) <=> (CassandraProofs!Commit /\ UNCHANGED CassandraProofs!sink)
  BY DEF Cassandra!Commit, CassandraProofs!Commit, Cassandra!sink, CassandraProofs!sink
<1>5. Cassandra!SaveRow <=> CassandraProofs!SaveRow
  BY DEF Cassandra!SaveRow, CassandraProofs!SaveRow,
         Cassandra!Working, CassandraProofs!Working,
         Cassandra!Records, CassandraProofs!Records,
         Cassandra!Between, CassandraProofs!Between,
         Cassandra!Offset, CassandraProofs!Offset, Cassandra!group, CassandraProofs!group
<1>6. Cassandra!SaveEnds <=> CassandraProofs!SaveEnds
  BY DEF Cassandra!SaveEnds, CassandraProofs!SaveEnds,
         Cassandra!Working, CassandraProofs!Working,
         Cassandra!Records, CassandraProofs!Records,
         Cassandra!Between, CassandraProofs!Between,
         Cassandra!Offset, CassandraProofs!Offset, Cassandra!group, CassandraProofs!group
<1>7. Cassandra!SaveFails <=> CassandraProofs!SaveFails
  BY DEF Cassandra!SaveFails, CassandraProofs!SaveFails,
         Cassandra!Working, CassandraProofs!Working,
         Cassandra!Records, CassandraProofs!Records,
         Cassandra!Between, CassandraProofs!Between,
         Cassandra!Offset, CassandraProofs!Offset, Cassandra!group, CassandraProofs!group
<1>8. Cassandra!Show <=> CassandraProofs!Show
  BY DEF Cassandra!Show, CassandraProofs!Show, Cassandra!Working, CassandraProofs!Working,
         Cassandra!group, CassandraProofs!group
<1>9. Cassandra!Stop <=> CassandraProofs!Stop
  BY DEF Cassandra!Stop, CassandraProofs!Stop,
         Cassandra!StopWith, CassandraProofs!StopWith,
         Cassandra!Reset, CassandraProofs!Reset, Cassandra!Behind, CassandraProofs!Behind,
         Cassandra!Unfinished, CassandraProofs!Unfinished,
         Cassandra!Between, CassandraProofs!Between,
         Cassandra!Offset, CassandraProofs!Offset
<1>10. Cassandra!Next <=> CassandraProofs!Next
  BY <1>1, <1>2, <1>3, <1>4, <1>5, <1>6, <1>7, <1>8, <1>9
     DEF Cassandra!Next, CassandraProofs!Next, Cassandra!Work, CassandraProofs!Work
<1> QED BY <1>10
     DEF Cassandra!vars, CassandraProofs!vars, Cassandra!group, CassandraProofs!group

\* Cassandra and CassandraProofs are the same program, and say the same of it.
LEMMA SameCassandraSink ==
  /\ Cassandra!Spec <=> CassandraProofs!Spec
  /\ Cassandra!GroupBounds <=> CassandraProofs!GroupBounds
  /\ [](Cassandra!TypeOK <=> CassandraProofs!TypeOK)
  /\ [](Cassandra!NoneForgotten <=> CassandraProofs!NoneForgotten)
  /\ [](Cassandra!OnceARun <=> CassandraProofs!OnceARun)
<1>1. Cassandra!Init <=> CassandraProofs!Init
  BY DEF Cassandra!Init, CassandraProofs!Init,
         Cassandra!GroupInit, CassandraProofs!GroupInit,
         Cassandra!Nowhere, CassandraProofs!Nowhere,
         Cassandra!Offset, CassandraProofs!Offset
<1>2. Cassandra!GroupBounds <=> CassandraProofs!GroupBounds
  BY DEF Cassandra!GroupBounds, CassandraProofs!GroupBounds
<1>3. Cassandra!TypeOK <=> CassandraProofs!TypeOK
  BY DEF Cassandra!TypeOK, CassandraProofs!TypeOK,
         Cassandra!GroupTypeOK, CassandraProofs!GroupTypeOK,
         Cassandra!BatchType, CassandraProofs!BatchType,
         Cassandra!Working, CassandraProofs!Working,
         Cassandra!Records, CassandraProofs!Records,
         Cassandra!Between, CassandraProofs!Between,
         Cassandra!Offset, CassandraProofs!Offset
<1>4. Cassandra!NoneForgotten <=> CassandraProofs!NoneForgotten
  BY DEF Cassandra!NoneForgotten, CassandraProofs!NoneForgotten,
         Cassandra!Accounted, CassandraProofs!Accounted,
         Cassandra!Saved, CassandraProofs!Saved,
         Cassandra!Unfinished, CassandraProofs!Unfinished,
         Cassandra!Nowhere, CassandraProofs!Nowhere,
         Cassandra!Between, CassandraProofs!Between,
         Cassandra!Offset, CassandraProofs!Offset
<1>5. Cassandra!OnceARun <=> CassandraProofs!OnceARun
  BY DEF Cassandra!OnceARun, CassandraProofs!OnceARun,
         Cassandra!Offset, CassandraProofs!Offset
<1> QED BY <1>1, <1>2, <1>3, <1>4, <1>5, SameCassandraSinkNext, PTL
     DEF Cassandra!Spec, CassandraProofs!Spec

\* SequencesExt and FiniteSets, by both names.
LEMMA SameExportSequences ==
  /\ \A S : Export!ToSet(S) = ExportProofs!ToSet(S)
  /\ \A S : Export!FlattenSeq(S) = ExportProofs!FlattenSeq(S)
  /\ \A S : Export!Cardinality(S) = ExportProofs!Cardinality(S)
<1>1. \A S : Export!ToSet(S) = ExportProofs!ToSet(S)
  BY DEF Export!ToSet, ExportProofs!ToSet
<1>2. \A S : Export!FlattenSeq(S) = ExportProofs!FlattenSeq(S)
  BY DEF Export!FlattenSeq, ExportProofs!FlattenSeq
<1>3. \A S : Export!Cardinality(S) = ExportProofs!Cardinality(S)
  BY DEF Export!Cardinality, ExportProofs!Cardinality
<1> QED BY <1>1, <1>2, <1>3

\* The files.
LEMMA SameDownload == Export!Fetch <=> ExportProofs!Fetch
<1>1. Export!SkipFile <=> ExportProofs!SkipFile
  BY DEF Export!SkipFile, ExportProofs!SkipFile, Export!Exists, ExportProofs!Exists,
         Export!files, ExportProofs!files, Export!reader, ExportProofs!reader
<1>2. Export!OpenFile <=> ExportProofs!OpenFile
  BY DEF Export!OpenFile, ExportProofs!OpenFile, Export!Exists, ExportProofs!Exists,
         Export!files, ExportProofs!files, Export!reader, ExportProofs!reader
<1>3. Export!CopyPiece <=> ExportProofs!CopyPiece
  BY DEF Export!CopyPiece, ExportProofs!CopyPiece, Export!Size, ExportProofs!Size,
         Export!files, ExportProofs!files, Export!reader, ExportProofs!reader
<1>4. Export!CloseFile <=> ExportProofs!CloseFile
  BY DEF Export!CloseFile, ExportProofs!CloseFile, Export!Size, ExportProofs!Size,
         Export!files, ExportProofs!files, Export!reader, ExportProofs!reader
<1>5. Export!DownloadFails <=> ExportProofs!DownloadFails
  BY DEF Export!DownloadFails, ExportProofs!DownloadFails,
         Export!Exists, ExportProofs!Exists, Export!files, ExportProofs!files,
         Export!reader, ExportProofs!reader
<1>6. Export!FilesAreThere <=> ExportProofs!FilesAreThere
  BY DEF Export!FilesAreThere, ExportProofs!FilesAreThere,
         Export!files, ExportProofs!files, Export!reader, ExportProofs!reader
<1> QED BY <1>1, <1>2, <1>3, <1>4, <1>5, <1>6
     DEF Export!Fetch, ExportProofs!Fetch, Export!Download, ExportProofs!Download,
         Export!export, ExportProofs!export

\* The stream of their lines.
LEMMA SameStreamFile == Export!StreamFile <=> ExportProofs!StreamFile
<1>1. Export!ZipTurn <=> ExportProofs!ZipTurn
  <2>1. \A m, n : Export!Chunk(m, n) = ExportProofs!Chunk(m, n)
    BY DEF Export!Chunk, ExportProofs!Chunk
  <2> QED BY <2>1, SameExportSequences
      DEF Export!ZipTurn, ExportProofs!ZipTurn, Export!HasTurn, ExportProofs!HasTurn,
         Export!files, ExportProofs!files, Export!reader, ExportProofs!reader
<1>2. Export!Gather <=> ExportProofs!Gather
  BY DEF Export!Gather, ExportProofs!Gather, Export!EndsLine, ExportProofs!EndsLine,
         Export!Framed, ExportProofs!Framed, Export!Grouped, ExportProofs!Grouped,
         Export!files, ExportProofs!files, Export!reader, ExportProofs!reader
<1>3. \A frame : Export!Parsed(frame) = ExportProofs!Parsed(frame)
  BY DEF Export!Parsed, ExportProofs!Parsed, Export!IsLine, ExportProofs!IsLine,
         Export!SPLICE, ExportProofs!SPLICE, Export!LineOf, ExportProofs!LineOf
<1>4. \A record : Export!Sample(record) <=> ExportProofs!Sample(record)
  BY <1>3 DEF Export!Sample, ExportProofs!Sample, Export!EndsLine, ExportProofs!EndsLine,
         Export!Framed, ExportProofs!Framed, Export!Grouped, ExportProofs!Grouped,
         Export!files, ExportProofs!files, Export!reader, ExportProofs!reader
<1>5. \A record : Export!SampleRest(record) <=> ExportProofs!SampleRest(record)
  BY <1>3 DEF Export!SampleRest, ExportProofs!SampleRest,
         Export!InputHasEnded, ExportProofs!InputHasEnded,
         Export!HasTurn, ExportProofs!HasTurn, Export!files, ExportProofs!files,
         Export!reader, ExportProofs!reader
<1>6. \A record : Export!OfferIfAny(record) <=> ExportProofs!OfferIfAny(record)
  BY DEF Export!OfferIfAny, ExportProofs!OfferIfAny, Export!Offer, ExportProofs!Offer
<1> QED BY <1>1, <1>2, <1>4, <1>5, <1>6
     DEF Export!StreamFile, ExportProofs!StreamFile, Export!export, ExportProofs!export

\* The steps of DemoData.
LEMMA SameExportNext == [Export!Next]_(Export!vars) <=> [ExportProofs!Next]_(ExportProofs!vars)
<1>1. \A args : Export!RunNewYork(args) <=> ExportProofs!RunNewYork(args)
  BY DEF Export!RunNewYork, ExportProofs!RunNewYork, Export!NewRun, ExportProofs!NewRun,
         Export!NotFake, ExportProofs!NotFake
<1>2. \A args : Export!RunFake(args) <=> ExportProofs!RunFake(args)
  <2>1. \A m, n : Export!PerCluster(m, n) = ExportProofs!PerCluster(m, n)
    BY DEF Export!PerCluster, ExportProofs!PerCluster,
         Export!Clustered, ExportProofs!Clustered, Export!Base, ExportProofs!Base,
         Export!Ceiling, ExportProofs!Ceiling
  <2>2. \A m, n : Export!FakeRecord(m, n) = ExportProofs!FakeRecord(m, n)
    BY <2>1 DEF Export!FakeRecord, ExportProofs!FakeRecord, Export!Base, ExportProofs!Base,
         Export!Ceiling, ExportProofs!Ceiling
  <2> QED BY <2>1, <2>2 DEF Export!RunFake, ExportProofs!RunFake, Export!NewRun, ExportProofs!NewRun,
         Export!Refused, ExportProofs!Refused
<1>3. Export!StreamFake <=> ExportProofs!StreamFake
  BY DEF Export!StreamFake, ExportProofs!StreamFake, Export!Offer, ExportProofs!Offer,
         Export!files, ExportProofs!files, Export!reader, ExportProofs!reader,
         Export!export, ExportProofs!export
<1>4. Export!Complete <=> ExportProofs!Complete
  BY DEF Export!Complete, ExportProofs!Complete, Export!Exhausted, ExportProofs!Exhausted,
         Export!Truncated, ExportProofs!Truncated,
         Export!InputHasEnded, ExportProofs!InputHasEnded,
         Export!HasTurn, ExportProofs!HasTurn, Export!files, ExportProofs!files,
         Export!reader, ExportProofs!reader, Export!export, ExportProofs!export
<1>5. Export!Terminate <=> ExportProofs!Terminate
  BY DEF Export!Terminate, ExportProofs!Terminate, Export!files, ExportProofs!files,
         Export!reader, ExportProofs!reader, Export!export, ExportProofs!export
<1>6. Export!Publish <=> ExportProofs!Publish
  BY DEF Export!Publish, ExportProofs!Publish, Export!files, ExportProofs!files,
         Export!reader, ExportProofs!reader, Export!export, ExportProofs!export
<1>7. Export!SendFails <=> ExportProofs!SendFails
  BY DEF Export!SendFails, ExportProofs!SendFails, Export!files, ExportProofs!files,
         Export!reader, ExportProofs!reader, Export!export, ExportProofs!export
<1>8. Export!Kill <=> ExportProofs!Kill
  BY DEF Export!Kill, ExportProofs!Kill, Export!files, ExportProofs!files,
         Export!reader, ExportProofs!reader, Export!export, ExportProofs!export
<1>9. Export!Next <=> ExportProofs!Next
  BY <1>1, <1>2, <1>3, <1>4, <1>5, <1>6, <1>7, <1>8, SameDownload, SameStreamFile
     DEF Export!Next, ExportProofs!Next, Export!GoOn, ExportProofs!GoOn
<1> QED BY <1>9 DEF Export!vars, ExportProofs!vars, Export!files, ExportProofs!files,
         Export!reader, ExportProofs!reader, Export!export, ExportProofs!export

\* Export and ExportProofs are the same program, and say the same of it.
LEMMA SameExport ==
  /\ Export!Spec <=> ExportProofs!Spec
  /\ Export!Bounds <=> ExportProofs!Bounds
  /\ [](Export!TypeOK <=> ExportProofs!TypeOK)
  /\ [](Export!SamplesTheFile <=> ExportProofs!SamplesTheFile)
  /\ [](Export!CountIsTrue <=> ExportProofs!CountIsTrue)
  /\ [](Export!ClustersAreEven <=> ExportProofs!ClustersAreEven)
<1>1. Export!Init <=> ExportProofs!Init
  BY DEF Export!Init, ExportProofs!Init, Export!FilesInit, ExportProofs!FilesInit,
         Export!Month, ExportProofs!Month, Export!NotFake, ExportProofs!NotFake
<1>2. Export!Bounds <=> ExportProofs!Bounds
  BY DEF Export!Bounds, ExportProofs!Bounds, Export!FilesBounds, ExportProofs!FilesBounds,
         Export!Month, ExportProofs!Month
<1>3. Export!TypeOK <=> ExportProofs!TypeOK
  BY DEF Export!TypeOK, ExportProofs!TypeOK, Export!FilesTypeOK, ExportProofs!FilesTypeOK,
         Export!Month, ExportProofs!Month, Export!Size, ExportProofs!Size,
         Export!EndsLine, ExportProofs!EndsLine, Export!NotFake, ExportProofs!NotFake
<1>4. Export!SamplesTheFile <=> ExportProofs!SamplesTheFile
  BY SameExportSequences DEF Export!SamplesTheFile, ExportProofs!SamplesTheFile,
         Export!Wanted, ExportProofs!Wanted
<1>5. Export!CountIsTrue <=> ExportProofs!CountIsTrue
  BY DEF Export!CountIsTrue, ExportProofs!CountIsTrue,
         Export!NotFake, ExportProofs!NotFake
<1>6. Export!ClustersAreEven <=> ExportProofs!ClustersAreEven
  BY SameExportSequences DEF Export!ClustersAreEven, ExportProofs!ClustersAreEven,
         Export!NotFake, ExportProofs!NotFake
<1> QED BY <1>1, <1>2, <1>3, <1>4, <1>5, <1>6, SameExportNext, PTL
     DEF Export!Spec, ExportProofs!Spec

\* DataPrograms: all programs keep their types, for any values of the constants
\* that meet the assumptions (ProgramsTypeOK).
THEOREM ProgramsTypeCorrect == ProgramsSpec => []ProgramsTypeOK
<1>1. ProgramsSpec => [](active \in Active)
  <2>1. ProgramsInit => active \in Active
    BY DEF ProgramsInit
  <2>2. active \in Active /\ [ProgramsNext]_programsVars => (active \in Active)'
    BY DEF ProgramsNext, programsVars
  <2> QED BY <2>1, <2>2, PTL DEF ProgramsSpec
<1>2. ProgramsSpec => []TypeOK
  BY IsAPioPipeline, TypeCorrect, PTL
<1>3. ProgramsSpec => []EngineTypeOK
  <2>1. EngineSpec => []EngineTypeOK
    BY EngineTypeCorrect, EngineAssumption
  <2> QED BY <2>1, IsAnEngine, PTL
<1>4. ProgramsSpec => []Flink!TypeOK
  <2>1. FlinkProofs!Spec => []FlinkProofs!TypeOK
    BY FlinkProofs!TypeCorrect, SameWaitAverage, FlinkAssumption
  <2> QED BY <2>1, SameWaitAverage, IsAWaitAverage, PTL
<1>5. ProgramsSpec => []Cassandra!TypeOK
  <2>1. CassandraProofs!Spec => []CassandraProofs!TypeOK
    BY CassandraProofs!TypeCorrect, SameCassandraSink, CassandraAssumption
  <2> QED BY <2>1, SameCassandraSink, IsACassandraSink, PTL
<1>6. ProgramsSpec => []Export!TypeOK
  <2>1. ExportProofs!Spec => []ExportProofs!TypeOK
    BY ExportProofs!ExportTypeCorrect, SameExport, ExportAssumption
  <2> QED BY <2>1, SameExport, IsAnExport, PTL
<1> QED BY <1>1, <1>2, <1>3, <1>4, <1>5, <1>6, PTL DEF ProgramsTypeOK

\* FlinkClient.scala 31, 34-39: the average is close to the mean of the routes that
\* the run has come past (CloseToMean), for any number of routes.
THEOREM ProgramsCloseToMean == ProgramsSpec => []CloseToMean
<1>1. FlinkProofs!Spec => []FlinkProofs!CloseToMean
  BY FlinkProofs!AlwaysCloseToMean, SameWaitAverage, FlinkAssumption
<1> QED BY <1>1, SameWaitAverage, IsAWaitAverage, PTL DEF CloseToMean

\* FlinkClient.scala 31, 34-39: a route moves the average towards its own duration
\* (MovesTowardsRoute).
THEOREM ProgramsMoveTowardsRoute == ProgramsSpec => MovesTowardsRoute
<1>1. FlinkProofs!Spec => FlinkProofs!MovesTowardsRoute
  BY FlinkProofs!AlwaysTowardsRoute, SameWaitAverage, FlinkAssumption
<1> QED BY <1>1, SameWaitAverage, IsAWaitAverage, PTL DEF MovesTowardsRoute

\* FlinkClient.scala 13-27, KafkaToCassandra.scala 32-54: neither consumer is past
\* a record that no run has handled or knowingly given up (NoneForgotten).
THEOREM ProgramsForgetNone == ProgramsSpec => []NoneForgotten
<1>1. FlinkProofs!Spec => []FlinkProofs!NoneForgotten
  BY FlinkProofs!NoneEverForgotten, SameWaitAverage, FlinkAssumption
<1>2. CassandraProofs!Spec => []CassandraProofs!NoneForgotten
  BY CassandraProofs!NoneEverForgotten, SameCassandraSink, CassandraAssumption
<1>3. ProgramsSpec => []Flink!NoneForgotten
  BY <1>1, SameWaitAverage, IsAWaitAverage, PTL
<1>4. ProgramsSpec => []Cassandra!NoneForgotten
  BY <1>2, SameCassandraSink, IsACassandraSink, PTL
<1> QED BY <1>3, <1>4, PTL DEF NoneForgotten

\* KafkaToCassandra.scala 58-59: a run makes one row of a record at most (OnceARun).
THEOREM ProgramsSaveOnceARun == ProgramsSpec => []OnceARun
<1>1. CassandraProofs!Spec => []CassandraProofs!OnceARun
  BY CassandraProofs!AlwaysOnceARun, SameCassandraSink, CassandraAssumption
<1> QED BY <1>1, SameCassandraSink, IsACassandraSink, PTL DEF OnceARun

\* NewYorkDataSource.scala 63-67: of the lines of a file, every rate-th is offered
\* if it is whole and can be parsed (SamplesTheFile).
THEOREM ProgramsSampleTheFile == ProgramsSpec => []SamplesTheFile
<1>1. ExportProofs!Spec => []ExportProofs!SamplesTheFile
  BY ExportProofs!AlwaysSamplesTheFile, SameExport, ExportAssumption
<1> QED BY <1>1, SameExport, IsAnExport, PTL DEF SamplesTheFile

\* DemoData.scala 62-69: the count is that of the records in the topic (CountIsTrue).
THEOREM ProgramsCountTruly == ProgramsSpec => []CountIsTrue
<1>1. ExportProofs!Spec => []ExportProofs!CountIsTrue
  BY ExportProofs!CountAlwaysTrue, SameExport, ExportAssumption
<1> QED BY <1>1, SameExport, IsAnExport, PTL DEF CountIsTrue

\* FakeDataSource.scala 69-72: the clusters are partitioned evenly (ClustersAreEven).
THEOREM ProgramsClusterEvenly == ProgramsSpec => []ClustersAreEven
<1>1. ExportProofs!Spec => []ExportProofs!ClustersAreEven
  BY ExportProofs!ClustersAlwaysEven, SameExport, ExportAssumption
<1> QED BY <1>1, SameExport, IsAnExport, PTL DEF ClustersAreEven
================================================================================
