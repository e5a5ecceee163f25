--------------------------- MODULE DemoExport_proofs ---------------------------
(***************************************************************************)
(* Proofs about DemoExport, for any file, any size of a chunk, any         *)
(* arguments and any number of records in flight.                          *)
(*                                                                         *)
(* The inductive invariant says, of a run over one file, where framing and *)
(* sampling are: the pieces that have been taken are the first ones of the *)
(* file, the last of them is in the buffer if it ends no line, the lines   *)
(* of the group are the last whole ones, and the records offered are those *)
(* wanted of the lines before.  Of fake data, the records that are offered *)
(* and those still to come are all there are.                              *)
(***************************************************************************)
EXTENDS TLAPS, DemoExport, FiniteSetTheorems

HasStream == stage \in {"streaming", "completed", "failed"}

ReaderIsEmpty == turn = 0 /\ input = <<>> /\ buffer = <<>> /\ lines = <<>>

\* The files of a stream are there, and whole unless a download has broken off.
FilesInv ==
  /\ stage = "files" => at \in 1..months + 1 /\ \A m \in 1..at - 1 : Exists(m)
  /\ stage = "copying" => at \in 1..months /\ \A m \in 1..at : Exists(m)
  /\ HasStream => \A m \in 1..months : Exists(m)
  /\ ~interrupted =>
       \A m \in Month : Exists(m) => disk[m] = Size \/ (stage = "copying" /\ m = at)

\* What is read belongs to the files of this run.
ReaderInv ==
  /\ lines \in Seq(Seq(1..Size))
  /\ stage \in {"files", "copying"} => ReaderIsEmpty /\ offered = <<>> /\ asked = NotFake
  /\ months = 0 => ReaderIsEmpty
  /\ months > 0 => pending = <<>> /\ asked = NotFake

\* Until a send fails, what has been offered is in the topic or in flight.
CountInv ==
  /\ stage # "off" /\ sink = "running" => Len(topic) + Len(inflight) = Len(offered)
  /\ stage = "completed" => printed = Len(offered)

\* The fake records are offered in their order.
FakeInv ==
  asked # NotFake /\ HasStream =>
    /\ ~Refused(asked[1], asked[2])
    /\ offered \o pending = FakeRecord(asked[1], asked[2])
    /\ stage = "completed" => pending = <<>>

\* The pieces of a single file that have been zipped, those of them that have
\* been framed, the whole lines among these, and the lines that are sampled.
Zipped == IF turn * ChunkSize < disk[1] THEN turn * ChunkSize ELSE disk[1]
Taken == Zipped - Len(input)
Whole == Taken \div 2
First == Whole - Len(lines)

\* Framing and sampling of a single file.
Framing ==
  /\ Len(input) <= Zipped
  /\ \A i \in 1..Len(input) : input[i] = Taken + i
  /\ buffer = IF Taken % 2 = 0 THEN <<>> ELSE <<Taken>>
  /\ First \in Nat
  /\ \A i \in 1..Len(lines) : lines[i] = <<2 * (First + i) - 1, 2 * (First + i)>>
  /\ First % rate = 0 \/ (InputHasEnded /\ buffer = <<>> /\ lines = <<>>)

\* What has been offered of it.
Sampling ==
  /\ ToSet(offered) = {line \in Wanted : line <= First}
  /\ \A i, j \in DOMAIN offered : i < j => offered[i] < offered[j]

OneFileInv ==
  months = 1 /\ HasStream =>
    /\ Framing /\ Sampling
    /\ stage = "completed" => Exhausted
    /\ stage = "failed" => Truncated

IInv == TypeOK /\ FilesInv /\ ReaderInv /\ CountInv /\ FakeInv /\ OneFileInv

-----------------------------------------------------------------------------
(* Helpers.                                                                *)

\* What the assumptions say of the numbers.
LEMMA Numbers ==
  Bounds => /\ Len(Lines) \in Nat /\ Size \in Nat /\ Size = 2 * Len(Lines)
            /\ ChunkSize \in Nat /\ ChunkSize > 0
            /\ MaxMonths \in Nat /\ Parallelism \in Nat /\ Parallelism > 0
            /\ NONE \notin Nat
            /\ \A i \in 1..Len(Lines) : Lines[i] \in {"good", "bad"}
  BY DEF Bounds, FilesBounds, Size

\* A smaller number comes before a larger one.
Less == {ss \in Nat \X Nat : ss[1] < ss[2]}

\* The numbers are well founded by it.
LEMMA LessWF == IsWellFoundedOn(Less, Nat)
  BY NatLessThanWellFounded DEF OpToRel, Less

\* A set with 0 and with the successors of its numbers has all numbers.
LEMMA NatSetInduction ==
  ASSUME NEW S, 0 \in S, \A n \in Nat : n \in S => n + 1 \in S
  PROVE  Nat \subseteq S
<1> SUFFICES ASSUME Nat \ S # {} PROVE FALSE
  OBVIOUS
<1>1. PICK x \in Nat \ S : \A y \in Nat \ S : ~(<<y, x>> \in Less)
  <2>1. Nat \ S \subseteq Nat
    OBVIOUS
  <2> QED BY <2>1, LessWF, WFMin
<1>2. x # 0 /\ x - 1 \in Nat /\ <<x - 1, x>> \in Less
  BY <1>1 DEF Less
<1>3. x - 1 \in S
  BY <1>1, <1>2
<1> QED BY <1>1, <1>2, <1>3

\* The loop of FlattenSeq, and its first n turns.
Flatten(seqs, f) == [i \in 1..Len(seqs) |-> IF i = 1 THEN seqs[i] ELSE f[i - 1] \o seqs[i]]

Flat(n, seqs, f) == \A i \in 1..n : f[i] = IF i = 1 THEN seqs[i] ELSE f[i - 1] \o seqs[i]

\* The loop can be told by a function, and joins sequences to a sequence.
LEMMA FlattenExists ==
  ASSUME NEW T, NEW n \in Nat, NEW seqs \in [1..n -> Seq(T)]
  PROVE  \E f \in [1..n -> Seq(T)] : f = Flatten(seqs, f)
<1> DEFINE Can == {k \in Nat : k <= n => \E f \in [1..k -> Seq(T)] : Flat(k, seqs, f)}
<1> Len(seqs) = n
  OBVIOUS
<1>1. 0 \in Can
  <2>1. /\ [i \in 1..0 |-> <<>>] \in [1..0 -> Seq(T)]
        /\ Flat(0, seqs, [i \in 1..0 |-> <<>>])
    BY DEF Flat
  <2> QED BY <2>1
<1>2. ASSUME NEW k \in Nat, k \in Can
      PROVE  k + 1 \in Can
  <2> SUFFICES ASSUME k + 1 <= n
               PROVE  \E f \in [1..k + 1 -> Seq(T)] : Flat(k + 1, seqs, f)
    OBVIOUS
  <2>1. PICK f \in [1..k -> Seq(T)] : Flat(k, seqs, f)
    BY <1>2
  <2> DEFINE next == IF k + 1 = 1 THEN seqs[k + 1] ELSE f[k] \o seqs[k + 1]
             g == [i \in 1..k + 1 |-> IF i \in 1..k THEN f[i] ELSE next]
  <2>2. seqs[k + 1] \in Seq(T) /\ (k > 0 => f[k] \in Seq(T))
    OBVIOUS
  <2>3. next \in Seq(T)
    BY <2>2
  <2> HIDE DEF next
  <2>4. g \in [1..k + 1 -> Seq(T)] /\ \A i \in 1..k : g[i] = f[i]
    <3>1. \A i \in 1..k : i \in 1..k + 1 /\ f[i] \in Seq(T)
      OBVIOUS
    <3> QED BY <2>3, <3>1
  <2>5. g[k + 1] = next
    <3>1. k + 1 \in 1..k + 1 /\ k + 1 \notin 1..k
      OBVIOUS
    <3> QED BY <3>1
  <2> HIDE DEF g
  <2>6. Flat(k + 1, seqs, g)
    <3> SUFFICES ASSUME NEW i \in 1..k + 1
                 PROVE  g[i] = IF i = 1 THEN seqs[i] ELSE g[i - 1] \o seqs[i]
      BY DEF Flat
    <3>1. CASE i \in 1..k
      <4>1. g[i] = f[i] /\ (i # 1 => g[i - 1] = f[i - 1])
        BY <2>4, <3>1
      <4> QED BY <2>1, <3>1, <4>1 DEF Flat
    <3>2. CASE i = k + 1
      <4>1. i # 1 => g[i - 1] = f[k]
        BY <2>4, <3>2
      <4> QED BY <2>5, <3>2, <4>1 DEF next
    <3> QED BY <3>1, <3>2
  <2> QED BY <2>4, <2>6
<1>3. n \in Can
  BY <1>1, <1>2, NatSetInduction
<1>4. PICK f \in [1..n -> Seq(T)] : Flat(n, seqs, f)
  BY <1>3 DEF Can
<1>5. f = Flatten(seqs, f)
  BY <1>4 DEF Flat, Flatten
<1> QED BY <1>4, <1>5

\* Joined sequences are a sequence, and a single one stays what it is.
LEMMA FlattenType ==
  ASSUME NEW T, NEW n \in Nat \ {0}, NEW seqs \in [1..n -> Seq(T)]
  PROVE  FlattenSeq(seqs) \in Seq(T) /\ (n = 1 => FlattenSeq(seqs) = seqs[1])
<1> DEFINE flat == CHOOSE f : f = Flatten(seqs, f)
           Can == {k \in Nat : k + 1 <= n => flat[k + 1] \in Seq(T)}
<1>0. Len(seqs) = n /\ n \in 1..n
  OBVIOUS
<1>1. FlattenSeq(seqs) = flat[n]
  BY <1>0 DEF FlattenSeq, Flatten
<1>2. flat = Flatten(seqs, flat)
  BY FlattenExists
<1> HIDE DEF flat
<1>3. \A i \in 1..n : flat[i] = IF i = 1 THEN seqs[i] ELSE flat[i - 1] \o seqs[i]
  BY <1>0, <1>2 DEF Flatten
<1>4. 0 \in Can
  BY <1>3
<1>5. ASSUME NEW k \in Nat, k \in Can
      PROVE  k + 1 \in Can
  <2> SUFFICES ASSUME k + 2 <= n PROVE flat[k + 2] \in Seq(T)
    OBVIOUS
  <2>1. flat[k + 2] = flat[k + 1] \o seqs[k + 2]
    <3>1. k + 2 \in 1..n /\ k + 2 # 1 /\ (k + 2) - 1 = k + 1
      OBVIOUS
    <3> QED BY <1>3, <3>1
  <2>2. flat[k + 1] \in Seq(T) /\ seqs[k + 2] \in Seq(T)
    BY <1>5
  <2> QED BY <2>1, <2>2
<1>6. n - 1 \in Can
  <2> HIDE DEF Can
  <2>1. Nat \subseteq Can
    BY <1>4, <1>5, NatSetInduction
  <2>2. n - 1 \in Nat
    OBVIOUS
  <2> QED BY <2>1, <2>2
<1>7. flat[n] \in Seq(T)
  BY <1>6
<1> QED BY <1>0, <1>1, <1>3, <1>7

\* A part of the pieces of a file.
LEMMA PartOfFile ==
  ASSUME NEW d \in Nat, NEW a \in Nat, NEW b \in a..d
  PROVE  LET part == SubSeq([piece \in 1..d |-> piece], a + 1, b)
         IN  part \in Seq(1..d) /\ Len(part) = b - a /\ \A i \in 1..Len(part) : part[i] = a + i
<1> DEFINE all == [piece \in 1..d |-> piece]
           part == SubSeq(all, a + 1, b)
<1>1. all \in Seq(1..d) /\ Len(all) = d
  OBVIOUS
<1>2. part = [i \in 1..b - a |-> all[i + (a + 1) - 1]]
  BY <1>1
<1>3. \A i \in 1..b - a : i + (a + 1) - 1 \in 1..d /\ i + (a + 1) - 1 = a + i
  OBVIOUS
<1>4. part = [i \in 1..b - a |-> a + i]
  BY <1>2, <1>3
<1> QED BY <1>4

\* The first element of a sequence, and the others.
LEMMA Tails ==
  ASSUME NEW S, NEW s \in Seq(S), s # <<>>
  PROVE  /\ Len(s) \in Nat /\ Len(s) > 0 /\ Head(s) = s[1] /\ s[1] \in S
         /\ Tail(s) \in Seq(S) /\ Len(Tail(s)) = Len(s) - 1
         /\ \A i \in 1..Len(s) - 1 : Tail(s)[i] = s[i + 1]
  OBVIOUS

\* A sequence of two.
LEMMA AppendOne == ASSUME NEW a \in Nat, NEW b \in Nat PROVE Append(<<a>>, b) = <<a, b>>
<1>1. <<a>> \in Seq(Nat) /\ Len(<<a>>) = 1 /\ <<a>>[1] = a
  OBVIOUS
<1>2. Append(<<a>>, b) = [i \in 1..2 |-> IF i = 2 THEN b ELSE <<a>>[i]]
  BY <1>1
<1>3. <<a, b>> = [i \in 1..2 |-> IF i = 2 THEN b ELSE <<a>>[i]]
  OBVIOUS
<1> QED BY <1>2, <1>3

\* What an append adds.
LEMMA ToSetOfAppend ==
  ASSUME NEW s \in Seq(Nat), NEW x \in Nat
  PROVE  ToSet(Append(s, x)) = ToSet(s) \cup {x}
<1> DEFINE t == Append(s, x)
           n == Len(s)
<1>1. /\ n \in Nat /\ DOMAIN s = 1..n /\ DOMAIN t = 1..n + 1 /\ t[n + 1] = x
      /\ \A i \in 1..n : t[i] = s[i]
  OBVIOUS
<1> HIDE DEF t, n
<1>2. ToSet(t) = {t[i] : i \in 1..n + 1} /\ ToSet(s) = {s[i] : i \in 1..n}
  BY <1>1 DEF ToSet
<1>3. 1..n + 1 = 1..n \cup {n + 1}
  BY <1>1
<1>4. {t[i] : i \in 1..n + 1} = {s[i] : i \in 1..n} \cup {x}
  BY <1>1, <1>3
<1> QED BY <1>2, <1>4 DEF t

\* A sequence of some things is a sequence of more things.
LEMMA SeqGrows == ASSUME NEW S, NEW T, S \subseteq T, NEW s \in Seq(S) PROVE s \in Seq(T)
  OBVIOUS

-----------------------------------------------------------------------------
(* A record is offered.                                                    *)

\* The types and the count after an offer.
LEMMA OfferStep ==
  ASSUME Bounds, TypeOK, CountInv, stage # "off", NEW record \in Nat, Offer(record)
  PROVE  /\ offered' = Append(offered, record)
         /\ offered' \in Seq(Nat) /\ Len(offered') = Len(offered) + 1
         /\ inflight' \in Seq(1..Len(offered')) /\ Len(inflight') <= Parallelism
         /\ topic' \in Seq(1..Len(offered'))
         /\ sink' = "running" => Len(topic') + Len(inflight') = Len(offered')
<1> DEFINE n == Len(offered)
<1>1. /\ offered' = Append(offered, record) /\ offered \in Seq(Nat) /\ n \in Nat
      /\ topic' = topic /\ topic \in Seq(1..n)
      /\ sink' = sink
      /\ inflight \in Seq(1..n) /\ Len(inflight) <= Parallelism
      /\ sink = "running" => Len(inflight) < Parallelism /\ inflight' = Append(inflight, n + 1)
      /\ sink # "running" => inflight' = inflight
      /\ sink = "running" => Len(topic) + Len(inflight) = n
  BY DEF Offer, TypeOK, CountInv
<1>2. offered' \in Seq(Nat) /\ Len(offered') = n + 1
  BY <1>1
<1>3. topic' \in Seq(1..n + 1) /\ inflight \in Seq(1..n + 1)
  BY <1>1, SeqGrows, 1..n \subseteq 1..n + 1
<1> Parallelism \in Nat /\ Len(inflight) \in Nat /\ Len(topic) \in Nat
  BY <1>1, Numbers
<1>4. /\ inflight' \in Seq(1..n + 1) /\ Len(inflight') <= Parallelism
      /\ sink' = "running" => Len(topic') + Len(inflight') = n + 1
  <2>1. CASE sink = "running"
    <3>1. inflight' = Append(inflight, n + 1) /\ Len(inflight) < Parallelism
      BY <1>1, <2>1
    <3>2. inflight' \in Seq(1..n + 1) /\ Len(inflight') = Len(inflight) + 1
      BY <1>1, <1>3, <3>1
    <3>3. Len(topic) + Len(inflight) = n /\ topic' = topic
      BY <1>1, <2>1
    <3> HIDE DEF n
    <3>4. Len(topic') + Len(inflight') = n + 1
      BY <3>2, <3>3
    <3> QED BY <3>1, <3>2, <3>4
  <2>2. CASE sink # "running"
    BY <1>1, <1>3, <2>2
  <2> QED BY <2>1, <2>2
<1> QED BY <1>1, <1>2, <1>3, <1>4

\* The same, when there may be nothing to offer.
LEMMA OfferIfAnyStep ==
  ASSUME Bounds, TypeOK, CountInv, stage # "off",
         NEW record \in Nat \cup {NONE}, OfferIfAny(record)
  PROVE  /\ offered' = IF record = NONE THEN offered ELSE Append(offered, record)
         /\ offered' \in Seq(Nat)
         /\ inflight' \in Seq(1..Len(offered')) /\ Len(inflight') <= Parallelism
         /\ topic' \in Seq(1..Len(offered'))
         /\ sink' = "running" => Len(topic') + Len(inflight') = Len(offered')
         /\ sink' = sink /\ printed' = printed
<1>1. CASE record = NONE
  <2>1. UNCHANGED <<offered, inflight, sink, topic>> /\ printed' = printed
    BY <1>1 DEF OfferIfAny
  <2> QED BY <1>1, <2>1 DEF TypeOK, CountInv
<1>2. CASE record # NONE
  <2>1. Offer(record) /\ record \in Nat
    BY <1>2 DEF OfferIfAny
  <2>2. sink' = sink /\ printed' = printed
    BY <2>1 DEF Offer
  <2> QED BY <1>2, <2>1, <2>2, OfferStep
<1> QED BY <1>1, <1>2

-----------------------------------------------------------------------------
(* What does not touch the reader.                                         *)

\* Framing and sampling stay what they are.
LEMMA OneFileKept ==
  ASSUME OneFileInv, UNCHANGED <<disk, months, rate, turn, input, buffer, lines, offered>>,
         HasStream' => stage' = stage
  PROVE  OneFileInv'
<1>1. Framing' <=> Framing
  BY DEF Framing, First, Whole, Taken, Zipped, InputHasEnded, HasTurn
<1>2. Sampling' <=> Sampling
  BY DEF Sampling, First, Whole, Taken, Zipped, Wanted
<1>3. (Exhausted' <=> Exhausted) /\ (Truncated' <=> Truncated)
  BY DEF Exhausted, Truncated, InputHasEnded, HasTurn
<1> QED BY <1>1, <1>2, <1>3 DEF OneFileInv, HasStream

-----------------------------------------------------------------------------
(* A process is started.                                                   *)

\* A run with the New York data.
LEMMA RunNewYorkStep ==
  ASSUME Bounds, IInv, NEW args \in NewYorkArgs, RunNewYork(args)
  PROVE  IInv'
<1>1. /\ args[1] \in 0..MaxMonths /\ args[2] \in Nat \ {0}
      /\ MaxMonths \in Nat /\ Parallelism \in Nat
  BY Numbers DEF Bounds, Month
<1>2. /\ stage' = "files" /\ months' = args[1] /\ rate' = args[2] /\ at' = 1
      /\ asked' = NotFake /\ pending' = <<>>
      /\ turn' = 0 /\ input' = <<>> /\ buffer' = <<>> /\ lines' = <<>>
      /\ offered' = <<>> /\ inflight' = <<>> /\ sink' = "running" /\ topic' = <<>>
      /\ printed' = NONE
      /\ disk' = disk /\ interrupted' = interrupted /\ stage = "off"
  BY DEF RunNewYork, NewRun
<1>3. FilesTypeOK'
  <2>1. months' \in 0..MaxMonths /\ rate' \in Nat \ {0} /\ at' \in 0..months' + 1
    BY <1>1, <1>2
  <2>2. Len(lines') < rate'
    BY <1>2, <2>1
  <2> QED BY <1>2, <2>1, <2>2, Numbers DEF IInv, TypeOK, FilesTypeOK
<1>4. TypeOK'
  BY <1>1, <1>2, <1>3 DEF IInv, TypeOK
<1>5. FilesInv'
  BY <1>1, <1>2 DEF IInv, FilesInv, HasStream, Exists
<1>6. ReaderInv' /\ CountInv' /\ FakeInv' /\ OneFileInv'
  BY <1>2 DEF ReaderInv, ReaderIsEmpty, CountInv, FakeInv, OneFileInv, HasStream
<1> QED BY <1>4, <1>5, <1>6 DEF IInv

\* A run with fake data.
LEMMA RunFakeStep ==
  ASSUME Bounds, IInv, NEW args \in FakeArgs, RunFake(args),
         ~Refused(args[1], args[2]) => FakeRecord(args[1], args[2]) \in Seq(Nat)
  PROVE  IInv'
<1>1. /\ args \in Nat \X Nat
      /\ MaxMonths \in Nat /\ Parallelism \in Nat
  BY Numbers DEF Bounds
<1>2. /\ months' = 0 /\ rate' = 1 /\ at' = 0
      /\ asked' = args
      /\ turn' = 0 /\ input' = <<>> /\ buffer' = <<>> /\ lines' = <<>>
      /\ offered' = <<>> /\ inflight' = <<>> /\ sink' = "running" /\ topic' = <<>>
      /\ printed' = NONE
      /\ disk' = disk /\ interrupted' = interrupted /\ stage = "off"
  BY DEF RunFake, NewRun
<1>3. IF Refused(args[1], args[2])
      THEN stage' = "stuck" /\ pending' = <<>>
      ELSE stage' = "streaming" /\ pending' = FakeRecord(args[1], args[2])
  BY DEF RunFake
<1>4. stage' \in {"stuck", "streaming"} /\ pending' \in Seq(Nat)
  <2>1. CASE Refused(args[1], args[2])
    BY <1>3, <2>1
  <2>2. CASE ~Refused(args[1], args[2])
    BY <1>3, <2>2
  <2> QED BY <2>1, <2>2
<1>5. FilesTypeOK'
  BY <1>1, <1>2, Numbers DEF IInv, TypeOK, FilesTypeOK
<1>6. TypeOK'
  BY <1>1, <1>2, <1>4, <1>5 DEF IInv, TypeOK
<1>7. FilesInv'
  BY <1>1, <1>2, <1>4 DEF IInv, FilesInv, HasStream, Exists
<1>8. ReaderInv' /\ CountInv' /\ OneFileInv'
  BY <1>2, <1>4 DEF ReaderInv, ReaderIsEmpty, CountInv, OneFileInv, HasStream
<1>9. FakeInv'
  BY <1>2, <1>3, <1>4 DEF FakeInv, HasStream
<1> QED BY <1>6, <1>7, <1>8, <1>9 DEF IInv

-----------------------------------------------------------------------------
(* Downloads.                                                              *)

\* While files are fetched nothing is streamed, so that only the types and the
\* files matter.
LEMMA FetchKeeps ==
  ASSUME Bounds, IInv, Fetch, FilesTypeOK', FilesInv',
         stage \in {"files", "copying"}, stage' \in {"files", "copying", "stuck"},
         stage' = "copying" => at' \in 1..months',
         months' = months, rate' = rate, reader' = reader
  PROVE  IInv'
<1>1. UNCHANGED <<turn, input, buffer, lines>>
  BY DEF reader
<1>2. UNCHANGED <<asked, pending, offered, inflight, sink, topic, printed>>
  BY DEF Fetch, export
<1>3. interrupted' \in BOOLEAN
  BY DEF Fetch, IInv, TypeOK
<1>4. TypeOK'
  BY <1>2, <1>3 DEF IInv, TypeOK
<1>5. ReaderInv' /\ CountInv'
  BY <1>1, <1>2 DEF IInv, ReaderInv, ReaderIsEmpty, CountInv
<1>6. FakeInv' /\ OneFileInv'
  BY DEF FakeInv, OneFileInv, HasStream
<1> QED BY <1>4, <1>5, <1>6 DEF IInv

\* A stream begins with nothing taken and nothing offered.
LEMMA StreamBegins ==
  ASSUME Bounds, IInv, stage = "files", at > months, stage' = "streaming",
         UNCHANGED <<disk, months, rate, turn, input, buffer, lines, asked, pending, offered>>
  PROVE  FakeInv' /\ OneFileInv'
<1>1. /\ turn = 0 /\ input = <<>> /\ buffer = <<>> /\ lines = <<>> /\ offered = <<>>
      /\ asked = NotFake
  BY DEF IInv, ReaderInv, ReaderIsEmpty
<1>2. FakeInv'
  BY <1>1 DEF FakeInv
<1>3. ASSUME months = 1 PROVE Framing' /\ Sampling'
  <2>1. disk[1] \in Nat /\ ChunkSize \in Nat /\ rate \in Nat \ {0} /\ 0 * ChunkSize = 0
    <3>1. disk[1] # NONE /\ 1 \in Month
      BY <1>3, Numbers DEF IInv, FilesInv, Exists, TypeOK, FilesTypeOK, Month
    <3> QED BY <3>1, Numbers DEF IInv, TypeOK, FilesTypeOK
  <2>2. Zipped' = 0
    BY <1>1, <2>1 DEF Zipped
  <2> Len(input') = 0 /\ Len(lines') = 0
    BY <1>1
  <2>3. Taken' = 0
    BY <2>2 DEF Taken
  <2>4. Whole' = 0 /\ First' = 0
    BY <2>3 DEF Whole, First
  <2>5. 0 % rate = 0
    BY <2>1
  <2>6. Framing'
    BY <1>1, <2>2, <2>3, <2>4, <2>5 DEF Framing
  <2>7. Sampling'
    BY <1>1, <2>4 DEF Sampling, Wanted, ToSet
  <2> QED BY <2>6, <2>7
<1>4. OneFileInv'
  BY <1>3 DEF OneFileInv
<1> QED BY <1>2, <1>4

\* Files are fetched one after the other.
LEMMA FetchStep ==
  ASSUME Bounds, IInv, Fetch
  PROVE  IInv'
<1> /\ Size \in Nat /\ MaxMonths \in Nat /\ NONE \notin Nat /\ months \in 0..MaxMonths
    /\ stage = "files" => at \in 1..months + 1
    /\ stage = "copying" => at \in 1..months
    /\ disk \in [Month -> 0..Size \cup {NONE}] /\ Month = 1..MaxMonths
  BY Numbers DEF IInv, TypeOK, FilesTypeOK, FilesInv, Month
<1>1. ~interrupted' => ~interrupted /\ ~(stage = "copying" /\ stage' = "stuck")
  BY DEF Fetch
<1>a. /\ stage = "files" => \A m \in 1..at - 1 : disk[m] # NONE
      /\ stage = "copying" => \A m \in 1..at : disk[m] # NONE
  BY DEF IInv, FilesInv, Exists
<1>b. ~interrupted => \A m \in 1..MaxMonths :
        disk[m] # NONE => disk[m] = Size \/ (stage = "copying" /\ m = at)
  BY DEF IInv, FilesInv, Exists
<1>c. ASSUME stage' # "streaming" /\ stage' # "completed" /\ stage' # "failed",
             stage' = "files" => at' \in 1..months' + 1 /\ \A m \in 1..at' - 1 : disk'[m] # NONE,
             stage' = "copying" => at' \in 1..months' /\ \A m \in 1..at' : disk'[m] # NONE,
             ~interrupted' => \A m \in 1..MaxMonths :
               disk'[m] # NONE => disk'[m] = Size \/ (stage' = "copying" /\ m = at')
      PROVE  FilesInv'
  BY <1>c DEF FilesInv, HasStream, Exists
<1> USE DEF files, reader
<1>2. CASE SkipFile
  <2>1. /\ stage = "files" /\ at <= months /\ disk[at] # NONE
        /\ at' = at + 1
        /\ UNCHANGED <<stage, disk, months, rate, reader>>
    BY <1>2 DEF SkipFile, Exists
  <2>2. FilesTypeOK'
    BY <2>1 DEF IInv, TypeOK, FilesTypeOK
  <2>3. at' \in 1..months' + 1 /\ \A m \in 1..at' - 1 : disk'[m] # NONE
    BY <1>a, <2>1
  <2>4. FilesInv'
    BY <1>1, <1>b, <1>c, <2>1, <2>3
  <2> QED BY <2>1, <2>2, <2>4, FetchKeeps
<1>3. CASE OpenFile
  <2>1. /\ stage = "files" /\ at <= months /\ stage' = "copying"
        /\ disk' = [disk EXCEPT ![at] = 0]
        /\ UNCHANGED <<months, rate, at, reader>>
    BY <1>3 DEF OpenFile
  <2>2. FilesTypeOK'
    BY <2>1 DEF IInv, TypeOK, FilesTypeOK
  <2>3. at' \in 1..months' /\ at \in 1..MaxMonths
    BY <2>1
  <2>4. disk'[at] = 0 /\ \A m \in 1..MaxMonths : m # at => disk'[m] = disk[m]
    BY <2>1, <2>3
  <2>5. \A m \in 1..at' : disk'[m] # NONE
    BY <1>a, <2>1, <2>3, <2>4
  <2>6. ~interrupted' => \A m \in 1..MaxMonths :
          disk'[m] # NONE => disk'[m] = Size \/ (stage' = "copying" /\ m = at')
    BY <1>1, <1>b, <2>1, <2>4
  <2>7. FilesInv'
    BY <1>c, <2>1, <2>3, <2>5, <2>6
  <2> QED BY <2>1, <2>2, <2>3, <2>7, FetchKeeps
<1>4. CASE CopyPiece
  <2>1. /\ stage = "copying" /\ stage' = "copying" /\ disk[at] < Size
        /\ disk' = [disk EXCEPT ![at] = disk[at] + 1]
        /\ UNCHANGED <<months, rate, at, reader>>
    BY <1>4 DEF CopyPiece
  <2>2. disk[at] \in 0..Size - 1 /\ at \in 1..MaxMonths
    BY <1>a, <2>1
  <2>3. FilesTypeOK'
    BY <2>1, <2>2 DEF IInv, TypeOK, FilesTypeOK
  <2>4. disk'[at] # NONE /\ \A m \in 1..MaxMonths : m # at => disk'[m] = disk[m]
    BY <2>1, <2>2
  <2>5. at' \in 1..months' /\ \A m \in 1..at' : disk'[m] # NONE
    BY <1>a, <2>1, <2>2, <2>4
  <2>6. ~interrupted' => \A m \in 1..MaxMonths :
          disk'[m] # NONE => disk'[m] = Size \/ (stage' = "copying" /\ m = at')
    BY <1>1, <1>b, <2>1, <2>4
  <2>7. FilesInv'
    BY <1>c, <2>1, <2>5, <2>6
  <2> QED BY <2>1, <2>3, <2>5, <2>7, FetchKeeps
<1>5. CASE CloseFile
  <2>1. /\ stage = "copying" /\ stage' = "files" /\ disk[at] = Size /\ at' = at + 1
        /\ UNCHANGED <<disk, months, rate, reader>>
    BY <1>5 DEF CloseFile
  <2>2. FilesTypeOK'
    BY <2>1 DEF IInv, TypeOK, FilesTypeOK
  <2>3. at' \in 1..months' + 1 /\ \A m \in 1..at' - 1 : disk'[m] # NONE
    BY <1>a, <2>1
  <2>4. ~interrupted' => \A m \in 1..MaxMonths : disk'[m] # NONE => disk'[m] = Size
    BY <1>1, <1>b, <2>1
  <2>5. FilesInv'
    BY <1>c, <2>1, <2>3, <2>4
  <2> QED BY <2>1, <2>2, <2>5, FetchKeeps
<1>6. CASE DownloadFails
  <2>1. /\ stage \in {"files", "copying"} /\ stage' = "stuck"
        /\ UNCHANGED <<disk, at, months, rate, reader>>
    BY <1>6 DEF DownloadFails
  <2>2. FilesTypeOK'
    BY <2>1 DEF IInv, TypeOK, FilesTypeOK
  <2>3. ~interrupted' => \A m \in 1..MaxMonths : disk'[m] # NONE => disk'[m] = Size
    BY <1>1, <1>b, <2>1
  <2>4. FilesInv'
    BY <1>c, <2>1, <2>3
  <2> QED BY <2>1, <2>2, <2>4, FetchKeeps
<1>7. CASE FilesAreThere
  <2>1. /\ stage = "files" /\ at > months /\ stage' = "streaming"
        /\ UNCHANGED <<disk, at, months, rate, turn, input, buffer, lines>>
    BY <1>7 DEF FilesAreThere
  <2>2. UNCHANGED <<asked, pending, offered, inflight, sink, topic, printed>>
    BY DEF Fetch, export
  <2>3. interrupted' \in BOOLEAN
    BY DEF Fetch, IInv, TypeOK
  <2>4. TypeOK'
    BY <2>1, <2>2, <2>3 DEF IInv, TypeOK, FilesTypeOK
  <2>5. \A m \in 1..months' : disk'[m] # NONE
    BY <1>a, <2>1
  <2>6. ~interrupted' => \A m \in 1..MaxMonths : disk'[m] # NONE => disk'[m] = Size
    BY <1>1, <1>b, <2>1
  <2>7. FilesInv'
    BY <2>1, <2>5, <2>6 DEF FilesInv, HasStream, Exists
  <2>8. ReaderInv' /\ CountInv'
    BY <2>1, <2>2 DEF IInv, ReaderInv, ReaderIsEmpty, CountInv
  <2>9. FakeInv' /\ OneFileInv'
    BY <2>1, <2>2, StreamBegins
  <2> QED BY <2>4, <2>7, <2>8, <2>9 DEF IInv
<1> QED BY <1>2, <1>3, <1>4, <1>5, <1>6, <1>7 DEF Fetch, Download

-----------------------------------------------------------------------------
(* The producer, and the end of a run.                                     *)

\* A record in flight is published, or its send fails.
LEMMA SendStep ==
  ASSUME Bounds, IInv, Publish \/ SendFails
  PROVE  IInv'
<1>1. /\ inflight # <<>> /\ inflight' = Tail(inflight)
      /\ topic' = topic \/ topic' = Append(topic, Head(inflight))
      /\ UNCHANGED <<stage, files, months, rate, reader, asked, pending, offered, printed,
                     interrupted>>
  BY DEF Publish, SendFails
<1>2. sink' = "failed" \/ (sink' = sink /\ topic' = Append(topic, Head(inflight)))
  BY DEF Publish, SendFails
<1> DEFINE n == Len(offered)
<1>3. /\ inflight \in Seq(1..n) /\ topic \in Seq(1..n) /\ Len(inflight) <= Parallelism
      /\ Parallelism \in Nat
  BY Numbers DEF IInv, TypeOK
<1> HIDE DEF n
<1>4. /\ inflight' \in Seq(1..n) /\ Len(inflight') = Len(inflight) - 1
      /\ Len(inflight) \in Nat /\ Head(inflight) \in 1..n
  <2>1. inflight # <<>> /\ inflight' = Tail(inflight)
    BY <1>1
  <2> QED BY <1>3, <2>1, Tails
<1>5. topic' \in Seq(1..n) /\ (sink' = "failed" \/ Len(topic') = Len(topic) + 1)
  <2>1. /\ Append(topic, Head(inflight)) \in Seq(1..n)
        /\ Len(Append(topic, Head(inflight))) = Len(topic) + 1
    BY <1>3, <1>4
  <2> QED BY <1>1, <1>2, <1>3, <2>1
<1>6. UNCHANGED <<disk, at, months, rate, turn, input, buffer, lines>>
  BY <1>1 DEF files, reader
<1>7. n = Len(offered) /\ n = Len(offered')
  BY <1>1 DEF n
<1>8. FilesTypeOK' /\ FilesInv' /\ ReaderInv'
  <2>1. FilesTypeOK'
    BY <1>1, <1>6 DEF IInv, TypeOK, FilesTypeOK
  <2>2. FilesInv'
    BY <1>1, <1>6 DEF IInv, FilesInv, Exists, HasStream
  <2>3. ReaderInv'
    BY <1>1, <1>6 DEF IInv, ReaderInv, ReaderIsEmpty
  <2> QED BY <2>1, <2>2, <2>3
<1>9. TypeOK'
  <2>1. sink' \in {"running", "failed"}
    BY <1>2 DEF IInv, TypeOK
  <2>2. Len(inflight') <= Parallelism
    BY <1>3, <1>4
  <2>3. inflight' \in Seq(1..Len(offered')) /\ topic' \in Seq(1..Len(offered'))
    BY <1>4, <1>5, <1>7
  <2> QED BY <1>1, <1>6, <1>8, <2>1, <2>2, <2>3 DEF IInv, TypeOK
<1>10. CountInv'
  <2>1. stage' # "off" /\ sink' = "running" => Len(topic') + Len(inflight') = Len(offered')
    <3> SUFFICES ASSUME stage' # "off", sink' = "running"
                 PROVE  Len(topic') + Len(inflight') = Len(offered')
      OBVIOUS
    <3>1. Len(topic) + Len(inflight) = n
      BY <1>1, <1>2, <1>7 DEF IInv, CountInv
    <3>2. Len(topic') = Len(topic) + 1 /\ Len(topic) \in Nat
      BY <1>3, <1>5
    <3> QED BY <1>4, <1>7, <3>1, <3>2
  <2>2. stage' = "completed" => printed' = Len(offered')
    BY <1>1 DEF IInv, CountInv
  <2> QED BY <2>1, <2>2 DEF CountInv
<1>11. FakeInv'
  BY <1>1 DEF IInv, FakeInv, HasStream
<1>12. OneFileInv'
  BY <1>1, <1>6, OneFileKept DEF IInv
<1> QED BY <1>8, <1>9, <1>10, <1>11, <1>12 DEF IInv

\* A fake record is offered.
LEMMA StreamFakeStep ==
  ASSUME Bounds, IInv, StreamFake
  PROVE  IInv'
<1>1. /\ stage = "streaming" /\ pending # <<>> /\ Offer(Head(pending))
      /\ pending' = Tail(pending)
      /\ UNCHANGED <<stage, disk, at, months, rate, turn, input, buffer, lines, asked,
                     interrupted>>
  BY DEF StreamFake, files, reader
<1>2. /\ pending \in Seq(Nat) /\ offered \in Seq(Nat) /\ Head(pending) \in Nat
      /\ pending' \in Seq(Nat) /\ months = 0
  BY <1>1 DEF IInv, TypeOK, ReaderInv, FilesTypeOK
<1>3. /\ offered' = Append(offered, Head(pending))
      /\ offered' \in Seq(Nat)
      /\ inflight' \in Seq(1..Len(offered')) /\ Len(inflight') <= Parallelism
      /\ topic' \in Seq(1..Len(offered'))
      /\ sink' = "running" => Len(topic') + Len(inflight') = Len(offered')
  BY <1>1, <1>2, OfferStep DEF IInv
<1>4. sink' = sink /\ printed' = printed
  BY <1>1 DEF Offer
<1>5. FilesTypeOK'
  BY <1>1 DEF IInv, TypeOK, FilesTypeOK
<1>6. TypeOK'
  BY <1>1, <1>2, <1>3, <1>4, <1>5 DEF IInv, TypeOK
<1>7. FilesInv'
  BY <1>1 DEF IInv, FilesInv, Exists, HasStream
<1>8. ReaderInv' /\ CountInv' /\ OneFileInv'
  BY <1>1, <1>2, <1>3 DEF IInv, ReaderInv, ReaderIsEmpty, CountInv, OneFileInv
<1>9. offered' \o pending' = offered \o pending
  <2>1. \A s \in Seq(Nat), t \in Seq(Nat) :
          t # <<>> => Append(s, Head(t)) \o Tail(t) = s \o t
    OBVIOUS
  <2> QED BY <1>1, <1>2, <1>3, <2>1
<1>10. FakeInv'
  BY <1>1, <1>9 DEF IInv, FakeInv, HasStream
<1> QED BY <1>6, <1>7, <1>8, <1>10 DEF IInv

\* The count's future is completed.
LEMMA CompleteStep ==
  ASSUME Bounds, IInv, Complete
  PROVE  IInv'
<1>1. /\ stage = "streaming" /\ pending = <<>>
      /\ UNCHANGED <<disk, at, months, rate, turn, input, buffer, lines, asked, pending,
                     offered, inflight, sink, topic, interrupted>>
      /\ \/ Exhausted /\ stage' = "completed" /\ printed' = Len(offered)
         \/ Truncated /\ stage' = "failed" /\ printed' = printed
  BY DEF Complete, files, reader
<1>2. FilesTypeOK'
  BY <1>1 DEF IInv, TypeOK, FilesTypeOK
<1>3. TypeOK'
  BY <1>1, <1>2 DEF IInv, TypeOK
<1>4. FilesInv'
  BY <1>1 DEF IInv, FilesInv, Exists, HasStream
<1>5. ReaderInv' /\ CountInv'
  BY <1>1 DEF IInv, ReaderInv, CountInv, ReaderIsEmpty
<1>6. FakeInv'
  BY <1>1 DEF IInv, FakeInv, HasStream
<1>7. OneFileInv'
  <2>1. Framing' <=> Framing
    BY <1>1 DEF Framing, First, Whole, Taken, Zipped, InputHasEnded, HasTurn
  <2>2. Sampling' <=> Sampling
    BY <1>1 DEF Sampling, First, Whole, Taken, Zipped, Wanted
  <2>3. (Exhausted' <=> Exhausted) /\ (Truncated' <=> Truncated)
    BY <1>1 DEF Exhausted, Truncated, InputHasEnded, HasTurn
  <2> QED BY <1>1, <2>1, <2>2, <2>3 DEF IInv, OneFileInv, HasStream
<1> QED BY <1>3, <1>4, <1>5, <1>6, <1>7 DEF IInv

\* The process ends.
LEMMA EndStep ==
  ASSUME Bounds, IInv, Terminate \/ Kill
  PROVE  IInv'
<1>1. /\ stage' = "off" /\ inflight' = <<>>
      /\ UNCHANGED <<disk, at, months, rate, turn, input, buffer, lines, asked, pending,
                     offered, sink, topic, printed>>
      /\ interrupted' \in BOOLEAN
      /\ ~interrupted' => ~interrupted /\ stage # "copying"
  <2>1. CASE Terminate
    BY <2>1 DEF Terminate, files, reader, export, IInv, TypeOK
  <2>2. CASE Kill
    BY <2>2 DEF Kill, files, reader, IInv, TypeOK
  <2> QED BY <2>1, <2>2
<1>2. FilesTypeOK'
  BY <1>1 DEF IInv, TypeOK, FilesTypeOK
<1>3. TypeOK'
  BY <1>1, <1>2, Numbers DEF IInv, TypeOK
<1>4. FilesInv'
  BY <1>1 DEF IInv, FilesInv, Exists, HasStream
<1>5. ReaderInv' /\ CountInv' /\ FakeInv' /\ OneFileInv'
  BY <1>1 DEF IInv, ReaderInv, ReaderIsEmpty, CountInv, FakeInv, OneFileInv, HasStream
<1> QED BY <1>3, <1>4, <1>5 DEF IInv

-----------------------------------------------------------------------------
(* The stream of the files.                                                *)

\* Division by two.
LEMMA Halves ==
  ASSUME NEW n \in Nat
  PROVE  /\ n \div 2 \in Nat /\ n % 2 \in {0, 1} /\ n = 2 * (n \div 2) + (n % 2)
         /\ n % 2 = 0 => (n + 1) % 2 = 1 /\ (n + 1) \div 2 = n \div 2
         /\ n % 2 = 1 => (n + 1) % 2 = 0 /\ (n + 1) \div 2 = n \div 2 + 1
  OBVIOUS

\* What follows a multiple has its distance from it as its remainder.
LEMMA Remainder ==
  ASSUME NEW r \in Nat \ {0}, NEW x \in Nat, x % r = 0, NEW e \in 0..r
  PROVE  (x + e) % r = IF e = r THEN 0 ELSE e
<1> DEFINE q == x \div r
           y == x + e
           p == y \div r
           o == y % r
           f == IF e = r THEN 0 ELSE e
           k == IF e = r THEN q + 1 ELSE q
<1>1. q \in Nat /\ x = r * q
  OBVIOUS
<1>2. p \in Int /\ o \in 0..r - 1 /\ y = r * p + o
  OBVIOUS
<1>3. r * (q + 1) = r * q + r
  BY <1>1
<1>4. y = r * k + f /\ k \in Int /\ f \in 0..r - 1
  BY <1>1, <1>3
<1> HIDE DEF q, y, p, o, f, k
<1>5. ASSUME NEW a \in Int, NEW b \in Int, a < b PROVE r * a + r <= r * b
  <2>1. b - a - 1 \in Nat /\ r * (b - a - 1) >= 0
    BY <1>5
  <2>2. r * (b - a - 1) = r * b - r * a - r
    OBVIOUS
  <2> QED BY <2>1, <2>2
<1>6. p = k
  <2>1. ~(p < k)
    <3> SUFFICES ASSUME p < k PROVE FALSE
      OBVIOUS
    <3>1. r * p + r <= r * k
      BY <1>2, <1>4, <1>5
    <3>2. r * p \in Int /\ r * k \in Int
      BY <1>2, <1>4
    <3> QED BY <1>2, <1>4, <3>1, <3>2
  <2>2. ~(k < p)
    <3> SUFFICES ASSUME k < p PROVE FALSE
      OBVIOUS
    <3>1. r * k + r <= r * p
      BY <1>2, <1>4, <1>5
    <3>2. r * p \in Int /\ r * k \in Int
      BY <1>2, <1>4
    <3> QED BY <1>2, <1>4, <3>1, <3>2
  <2> QED BY <1>2, <1>4, <2>1, <2>2
<1>7. o = f
  <2>1. r * p + o = r * p + f /\ r * p \in Int
    BY <1>2, <1>4, <1>6
  <2> QED BY <1>2, <1>4, <2>1
<1> QED BY <1>7 DEF o, y, f

\* Of a group, only its first line is wanted, if it is good.
LEMMA WantedOfGroup ==
  ASSUME Bounds, rate \in Nat \ {0}, NEW first \in Nat, first % rate = 0, NEW d \in 1..rate,
         first + d <= Len(Lines)
  PROVE  {line \in Wanted : line <= first + d} =
           {line \in Wanted : line <= first}
             \cup (IF Lines[first + 1] = "good" THEN {first + 1} ELSE {})
<1> Len(Lines) \in Nat
  BY Numbers
<1>1. ASSUME NEW line \in first + 1..first + d
      PROVE  (line - 1) % rate = 0 <=> line = first + 1
  <2> DEFINE e == line - (first + 1)
  <2>1. e \in 0..rate /\ e # rate /\ line - 1 = first + e
    OBVIOUS
  <2>2. e = 0 <=> line = first + 1
    OBVIOUS
  <2> HIDE DEF e
  <2>3. (first + e) % rate = IF e = rate THEN 0 ELSE e
    <3>1. \A r \in Nat \ {0}, x \in Nat : x % r = 0 =>
            \A k \in 0..r : (x + k) % r = IF k = r THEN 0 ELSE k
      BY Remainder
    <3>2. \A k \in 0..rate : (first + k) % rate = IF k = rate THEN 0 ELSE k
      BY <3>1
    <3> QED BY <2>1, <3>2
  <2>4. (line - 1) % rate = e
    BY <2>1, <2>3, Zenon
  <2> QED BY <2>2, <2>4
<1>2. ASSUME NEW line \in 1..Len(Lines), line <= first + d, ~(line <= first)
      PROVE  line \in Wanted <=> line = first + 1 /\ Lines[first + 1] = "good"
  <2>1. line \in first + 1..first + d
    BY <1>2
  <2> QED BY <1>1, <2>1 DEF Wanted
<1>3. first + 1 \in 1..Len(Lines) /\ first + 1 <= first + d /\ ~(first + 1 <= first)
  OBVIOUS
<1>4. Lines[first + 1] = "good" => first + 1 \in Wanted
  BY <1>2, <1>3
<1>5. \A line \in Wanted : line \in 1..Len(Lines)
  BY DEF Wanted
<1>6. \A line \in Wanted : line <= first => line <= first + d
  BY <1>5
<1> QED BY <1>2, <1>3, <1>4, <1>5, <1>6

\* What is known while files are streamed.
LEMMA StreamFacts ==
  ASSUME Bounds, IInv, stage = "streaming"
  PROVE  /\ months \in Nat /\ rate \in Nat \ {0} /\ turn \in 0..Size
         /\ input \in Seq(1..Size) /\ buffer \in Seq(1..Size)
         /\ \A i \in 1..Len(buffer) : ~EndsLine(buffer[i])
         /\ lines \in Seq(Seq(1..Size)) /\ Len(lines) < rate
         /\ \A m \in 1..months : disk[m] \in 0..Size
         /\ months = 0 => input = <<>> /\ lines = <<>>
         /\ months = 1 => Framing /\ Sampling
<1>1. /\ months \in 0..MaxMonths /\ MaxMonths \in Nat /\ disk \in [Month -> 0..Size \cup {NONE}]
      /\ Month = 1..MaxMonths /\ \A m \in 1..months : disk[m] # NONE
  BY Numbers DEF IInv, TypeOK, FilesTypeOK, FilesInv, HasStream, Exists, Month
<1>2. \A m \in 1..months : disk[m] \in 0..Size
  BY <1>1
<1>3. months \in Nat
  BY <1>1
<1> QED BY <1>2, <1>3 DEF IInv, TypeOK, FilesTypeOK, ReaderInv, ReaderIsEmpty, OneFileInv, HasStream

\* While files are streamed the reader, and the records offered, are all that changes.
LEMMA StreamKeeps ==
  ASSUME Bounds, IInv, stage = "streaming", months # 0,
         UNCHANGED <<stage, disk, at, months, rate, asked, pending, interrupted>>,
         turn' \in 0..Size, input' \in Seq(1..Size), buffer' \in Seq(1..Size),
         \A i \in 1..Len(buffer') : ~EndsLine(buffer'[i]),
         lines' \in Seq(Seq(1..Size)), Len(lines') < rate,
         offered' \in Seq(Nat), inflight' \in Seq(1..Len(offered')),
         Len(inflight') <= Parallelism, topic' \in Seq(1..Len(offered')), sink' = sink,
         sink' = "running" => Len(topic') + Len(inflight') = Len(offered'),
         printed' = printed,
         months = 1 => Framing' /\ Sampling'
  PROVE  IInv'
<1>1. FilesTypeOK'
  BY DEF IInv, TypeOK, FilesTypeOK
<1>2. TypeOK'
  BY <1>1 DEF IInv, TypeOK
<1>3. FilesInv'
  BY DEF IInv, FilesInv, Exists, HasStream
<1>4. months \in Nat
  BY StreamFacts
<1>5. ReaderInv' /\ CountInv'
  BY <1>4 DEF IInv, ReaderInv, CountInv
<1>6. FakeInv'
  BY <1>4 DEF IInv, ReaderInv, FakeInv
<1>7. OneFileInv'
  BY DEF OneFileInv
<1> QED BY <1>2, <1>3, <1>5, <1>6, <1>7 DEF IInv

\* How far a turn of zipN goes in the m-th file.
EndOfTurn(m) == IF (turn + 1) * ChunkSize < disk[m] THEN (turn + 1) * ChunkSize ELSE disk[m]

\* A chunk is a part of its file.
LEMMA ChunkIsPart ==
  ASSUME Bounds, IInv, stage = "streaming", HasTurn, NEW m \in 1..months
  PROVE  LET part == Chunk(m, turn + 1)
             done == turn * ChunkSize
         IN  /\ done \in Nat /\ turn <= done /\ done < disk[m] /\ EndOfTurn(m) \in done..disk[m]
             /\ part \in Seq(1..Size)
             /\ Len(part) = EndOfTurn(m) - done
             /\ \A i \in 1..Len(part) : part[i] = done + i
<1> DEFINE done == turn * ChunkSize
           next == (turn + 1) * ChunkSize
           d == disk[m]
<1>1. /\ d \in 0..Size /\ turn \in Nat /\ Size \in Nat /\ ChunkSize \in Nat /\ ChunkSize > 0
      /\ done < d
  BY StreamFacts, Numbers DEF HasTurn
<1>2. done \in Nat /\ next = done + ChunkSize /\ turn <= done
  <2>1. done = turn + turn * (ChunkSize - 1) /\ turn * (ChunkSize - 1) \in Nat
    BY <1>1
  <2> QED BY <1>1, <2>1
<1>3. ((turn + 1) - 1) * ChunkSize + 1 = done + 1
  BY <1>1
<1>4. Chunk(m, turn + 1) = SubSeq([piece \in 1..d |-> piece], done + 1, EndOfTurn(m))
  BY <1>3 DEF Chunk, EndOfTurn
<1>5. EndOfTurn(m) = IF next < d THEN next ELSE d
  BY DEF EndOfTurn
<1> HIDE DEF done, next, d
<1>6. EndOfTurn(m) \in done..d /\ d \in Nat
  BY <1>1, <1>2, <1>5
<1>7. /\ Chunk(m, turn + 1) \in Seq(1..d)
      /\ Len(Chunk(m, turn + 1)) = EndOfTurn(m) - done
      /\ \A i \in 1..Len(Chunk(m, turn + 1)) : Chunk(m, turn + 1)[i] = done + i
  <2> DEFINE part(n, a, b) == SubSeq([piece \in 1..n |-> piece], a + 1, b)
  <2>1. \A n \in Nat, a \in Nat : \A b \in a..n :
          /\ part(n, a, b) \in Seq(1..n)
          /\ Len(part(n, a, b)) = b - a
          /\ \A i \in 1..Len(part(n, a, b)) : part(n, a, b)[i] = a + i
    BY PartOfFile
  <2>2. Chunk(m, turn + 1) = part(d, done, EndOfTurn(m))
    BY <1>4
  <2> DEFINE chunk == part(d, done, EndOfTurn(m))
  <2> HIDE DEF part
  <2>3. /\ chunk \in Seq(1..d) /\ Len(chunk) = EndOfTurn(m) - done
        /\ \A i \in 1..Len(chunk) : chunk[i] = done + i
    <3>1. done \in Nat /\ d \in Nat /\ EndOfTurn(m) \in done..d
      BY <1>2, <1>6
    <3> QED BY <2>1, <3>1, Zenon
  <2> HIDE DEF chunk
  <2>4. Chunk(m, turn + 1) = chunk
    BY <2>2 DEF chunk
  <2> QED BY <2>3, <2>4
<1>8. Chunk(m, turn + 1) \in Seq(1..Size)
  <2>1. 1..d \subseteq 1..Size
    BY <1>1
  <2> QED BY <1>7, <2>1, SeqGrows
<1> QED BY <1>1, <1>2, <1>6, <1>7, <1>8 DEF done, d

\* A chunk of every file is zipped.
LEMMA ZipTurnStep ==
  ASSUME Bounds, IInv, ZipTurn, UNCHANGED <<export, interrupted>>
  PROVE  IInv'
<1> DEFINE chunks == [m \in 1..months |-> Chunk(m, turn + 1)]
<1>1. /\ stage = "streaming" /\ input = <<>> /\ months > 0 /\ HasTurn
      /\ input' = FlattenSeq(chunks) /\ turn' = turn + 1
      /\ UNCHANGED <<stage, disk, at, months, rate, buffer, lines>>
  BY DEF ZipTurn, files
<1>2. UNCHANGED <<asked, pending, offered, inflight, sink, topic, printed, interrupted>>
  BY DEF export
<1>3. /\ months \in Nat \ {0} /\ turn \in 0..Size /\ Size \in Nat
      /\ \A m \in 1..months : disk[m] \in 0..Size
  BY <1>1, StreamFacts, Numbers
<1>4. chunks \in [1..months -> Seq(1..Size)]
  BY <1>1, ChunkIsPart
<1>5. input' \in Seq(1..Size) /\ (months = 1 => input' = chunks[1])
  <2> HIDE DEF chunks
  <2> QED BY <1>1, <1>3, <1>4, FlattenType
<1>6. turn' \in 0..Size
  <2>1. 1 \in 1..months
    BY <1>3
  <2>2. turn <= turn * ChunkSize /\ turn * ChunkSize < disk[1] /\ turn * ChunkSize \in Nat
    BY <1>1, <2>1, ChunkIsPart
  <2> QED BY <1>1, <1>3, <2>1, <2>2
<1>7. ASSUME months = 1 PROVE Framing' /\ Sampling'
  <2> DEFINE done == turn * ChunkSize
  <2>1. 1 \in 1..months
    BY <1>7
  <2>2. /\ done \in Nat /\ done < disk[1] /\ EndOfTurn(1) \in done..disk[1]
        /\ Len(input') = EndOfTurn(1) - done
        /\ \A i \in 1..Len(input') : input'[i] = done + i
    <3>1. input' = Chunk(1, turn + 1)
      BY <1>5, <1>7, <2>1
    <3> QED BY <1>1, <2>1, <3>1, ChunkIsPart
  <2>3. disk[1] \in Nat
    BY <1>3, <2>1
  <2>4. Zipped = done
    BY <2>2, <2>3 DEF Zipped
  <2>5. Zipped' = EndOfTurn(1)
    BY <1>1 DEF Zipped, EndOfTurn
  <2>6. Len(input) = 0
    BY <1>1
  <2>7. Taken = done
    BY <2>2, <2>4, <2>6 DEF Taken
  <2>8. Taken' = done
    BY <2>2, <2>3, <2>5 DEF Taken
  <2>9. Whole' = Whole /\ First' = First
    BY <1>1, <2>7, <2>8 DEF Whole, First
  <2>10. Framing /\ Sampling
    BY <1>1, <1>7, StreamFacts
  <2>11. First % rate = 0
    BY <1>1, <1>7, <2>10 DEF Framing, InputHasEnded
  <2> HIDE DEF done
  <2>12. Len(input') <= Zipped'
    BY <2>2, <2>3, <2>5
  <2>13. Framing'
    BY <1>1, <2>2, <2>7, <2>8, <2>9, <2>10, <2>11, <2>12 DEF Framing
  <2>14. Sampling'
    BY <1>1, <1>2, <2>9, <2>10 DEF Sampling, Wanted
  <2> QED BY <2>13, <2>14
<1>8. /\ buffer' \in Seq(1..Size) /\ \A i \in 1..Len(buffer') : ~EndsLine(buffer'[i])
      /\ lines' \in Seq(Seq(1..Size)) /\ Len(lines') < rate
  BY <1>1, StreamFacts
<1>9. /\ offered' \in Seq(Nat) /\ inflight' \in Seq(1..Len(offered'))
      /\ Len(inflight') <= Parallelism /\ topic' \in Seq(1..Len(offered')) /\ sink' = sink
      /\ sink' = "running" => Len(topic') + Len(inflight') = Len(offered')
      /\ printed' = printed
  BY <1>1, <1>2 DEF IInv, TypeOK, CountInv
<1>10. months # 0
  BY <1>3
<1> HIDE DEF chunks
<1> QED BY <1>1, <1>2, <1>5, <1>6, <1>7, <1>8, <1>9, <1>10, StreamKeeps

\* A piece of a single file is taken.
LEMMA TakePiece ==
  ASSUME Bounds, IInv, stage = "streaming", months = 1, input # <<>>, input' = Tail(input),
         UNCHANGED <<disk, turn>>
  PROVE  /\ Taken \in Nat /\ Whole \in Nat /\ First \in Nat /\ Len(lines) \in Nat
         /\ Whole = First + Len(lines)
         /\ Head(input) = Taken + 1 /\ Taken + 1 <= Size
         /\ Taken' = Taken + 1 /\ Len(input') <= Zipped'
         /\ \A i \in 1..Len(input') : input'[i] = Taken' + i
         /\ First % rate = 0
         /\ buffer = IF Taken % 2 = 0 THEN <<>> ELSE <<Taken>>
<1>1. /\ disk[1] \in 0..Size /\ turn \in Nat /\ ChunkSize \in Nat /\ input \in Seq(1..Size)
      /\ lines \in Seq(Seq(1..Size)) /\ Framing /\ Size \in Nat
  <2>1. 1 \in 1..months
    OBVIOUS
  <2> QED BY <2>1, StreamFacts, Numbers
<1>2. turn * ChunkSize \in Nat
  BY <1>1
<1>3. Zipped \in Nat /\ Zipped <= disk[1] /\ Zipped' = Zipped
  BY <1>1, <1>2 DEF Zipped
<1>4. /\ Len(input) \in Nat /\ Len(input) > 0 /\ Head(input) = input[1]
      /\ Len(input') = Len(input) - 1
      /\ \A i \in 1..Len(input) - 1 : input'[i] = input[i + 1]
  BY <1>1, Tails
<1>5. Len(input) <= Zipped /\ \A i \in 1..Len(input) : input[i] = Taken + i
  BY <1>1 DEF Framing
<1>6. Taken = Zipped - Len(input) /\ Taken' = Zipped' - Len(input')
  BY DEF Taken
<1>7. Taken \in Nat /\ Taken' = Taken + 1 /\ Taken + 1 <= Size /\ Len(input') <= Zipped'
  BY <1>1, <1>3, <1>4, <1>5, <1>6
<1>8. Head(input) = Taken + 1
  BY <1>4, <1>5
<1>9. ASSUME NEW i \in 1..Len(input') PROVE input'[i] = Taken' + i
  <2>1. i + 1 \in 1..Len(input) /\ i \in 1..Len(input) - 1
    BY <1>4
  <2>2. input'[i] = Taken + (i + 1)
    BY <1>4, <1>5, <2>1
  <2> QED BY <1>7, <2>2
<1>10. /\ First \in Nat /\ First % rate = 0
       /\ buffer = IF Taken % 2 = 0 THEN <<>> ELSE <<Taken>>
  BY <1>1 DEF Framing, InputHasEnded
<1>11. Len(lines) \in Nat /\ Whole \in Nat /\ Whole = First + Len(lines)
  <2>1. Whole \in Nat /\ Len(lines) \in Nat /\ First = Whole - Len(lines)
    BY <1>1, <1>7, Halves DEF Whole, First
  <2> QED BY <2>1
<1> QED BY <1>7, <1>8, <1>9, <1>10, <1>11

\* What is put together: the buffer and the next piece.
LEMMA FramedType ==
  ASSUME Bounds, IInv, stage = "streaming", input # <<>>
  PROVE  /\ Head(input) \in 1..Size /\ input \in Seq(1..Size)
         /\ Tail(input) \in Seq(1..Size)
         /\ Framed \in Seq(1..Size)
         /\ Framed = Append(buffer, Head(input))
         /\ Grouped \in Seq(Seq(1..Size)) /\ Len(Grouped) = Len(lines) + 1
         /\ Grouped = Append(lines, Framed)
         /\ Grouped # <<>>
<1>1. /\ input \in Seq(1..Size) /\ buffer \in Seq(1..Size) /\ lines \in Seq(Seq(1..Size))
  BY StreamFacts
<1>2. Head(input) \in 1..Size /\ Tail(input) \in Seq(1..Size)
  BY <1>1, Tails
<1>3. Framed \in Seq(1..Size)
  BY <1>1, <1>2 DEF Framed
<1>4. Grouped \in Seq(Seq(1..Size)) /\ Len(Grouped) = Len(lines) + 1 /\ Grouped # <<>>
  BY <1>1, <1>3 DEF Grouped
<1> QED BY <1>1, <1>2, <1>3, <1>4 DEF Framed, Grouped

\* In the middle of a line or of a group.
LEMMA GatherStep ==
  ASSUME Bounds, IInv, Gather, UNCHANGED <<export, interrupted>>
  PROVE  IInv'
<1>1. /\ stage = "streaming" /\ input # <<>> /\ input' = Tail(input)
      /\ UNCHANGED <<stage, disk, at, months, rate, turn>>
      /\ \/ ~EndsLine(Head(input)) /\ buffer' = Framed /\ lines' = lines
         \/ /\ EndsLine(Head(input)) /\ Len(Grouped) < rate
            /\ buffer' = <<>> /\ lines' = Grouped
  BY DEF Gather, files
<1>2. UNCHANGED <<asked, pending, offered, inflight, sink, topic, printed, interrupted>>
  BY DEF export
<1>3. /\ months # 0 /\ turn' \in 0..Size /\ rate \in Nat \ {0}
      /\ buffer \in Seq(1..Size) /\ \A i \in 1..Len(buffer) : ~EndsLine(buffer[i])
      /\ lines \in Seq(Seq(1..Size)) /\ Len(lines) < rate
      /\ months = 1 => Framing /\ Sampling
  BY <1>1, StreamFacts
<1>4. input' \in Seq(1..Size)
  BY <1>1, FramedType
<1>5. buffer' \in Seq(1..Size) /\ \A i \in 1..Len(buffer') : ~EndsLine(buffer'[i])
  <2>1. CASE ~EndsLine(Head(input))
    <3>1. buffer' = Append(buffer, Head(input)) /\ buffer' \in Seq(1..Size)
      BY <1>1, <2>1, FramedType
    <3> QED BY <1>3, <2>1, <3>1
  <2>2. CASE EndsLine(Head(input))
    <3>1. buffer' = <<>>
      BY <1>1, <2>2
    <3>2. <<>> \in Seq(1..Size) /\ Len(<<>>) = 0
      OBVIOUS
    <3> QED BY <3>1, <3>2
  <2> QED BY <2>1, <2>2
<1>6. lines' \in Seq(Seq(1..Size)) /\ Len(lines') < rate
  BY <1>1, <1>3, FramedType
<1>7. /\ offered' \in Seq(Nat) /\ inflight' \in Seq(1..Len(offered'))
      /\ Len(inflight') <= Parallelism /\ topic' \in Seq(1..Len(offered')) /\ sink' = sink
      /\ sink' = "running" => Len(topic') + Len(inflight') = Len(offered')
      /\ printed' = printed
  BY <1>1, <1>2 DEF IInv, TypeOK, CountInv
<1>8. ASSUME months = 1 PROVE Framing' /\ Sampling'
  <2>1. /\ Taken \in Nat /\ Whole \in Nat /\ First \in Nat /\ Len(lines) \in Nat
        /\ Whole = First + Len(lines)
        /\ Head(input) = Taken + 1
        /\ Taken' = Taken + 1 /\ Len(input') <= Zipped'
        /\ \A i \in 1..Len(input') : input'[i] = Taken' + i
        /\ First % rate = 0
        /\ buffer = IF Taken % 2 = 0 THEN <<>> ELSE <<Taken>>
    BY <1>1, <1>8, TakePiece
  <2>2. \A i \in 1..Len(lines) : lines[i] = <<2 * (First + i) - 1, 2 * (First + i)>>
    BY <1>3, <1>8 DEF Framing
  <2>3. First' = Whole' - Len(lines') /\ Whole' = Taken' \div 2
    BY DEF First, Whole
  <2>4. Whole = Taken \div 2
    BY DEF Whole
  <2>5. /\ First' = First
        /\ buffer' = IF Taken' % 2 = 0 THEN <<>> ELSE <<Taken'>>
        /\ \A i \in 1..Len(lines') : lines'[i] = <<2 * (First + i) - 1, 2 * (First + i)>>
    <3>1. CASE ~EndsLine(Head(input))
      <4>1. (Taken + 1) % 2 # 0
        BY <2>1, <3>1 DEF EndsLine
      <4>2. Taken % 2 = 0 /\ (Taken + 1) % 2 = 1 /\ (Taken + 1) \div 2 = Taken \div 2
        BY <2>1, <4>1, Halves
      <4>3. buffer' = Append(buffer, Taken + 1) /\ lines' = lines
        BY <1>1, <2>1, <3>1 DEF Framed
      <4>4. buffer = <<>>
        BY <2>1, <4>2
      <4>5. First' = First
        BY <2>1, <2>3, <2>4, <4>2, <4>3
      <4>6. buffer' = <<Taken + 1>>
        BY <4>3, <4>4
      <4>7. buffer' = IF Taken' % 2 = 0 THEN <<>> ELSE <<Taken'>>
        BY <2>1, <4>2, <4>6
      <4>8. \A i \in 1..Len(lines') : lines'[i] = <<2 * (First + i) - 1, 2 * (First + i)>>
        BY <2>2, <4>3
      <4> QED BY <4>5, <4>7, <4>8
    <3>2. CASE EndsLine(Head(input))
      <4>1. (Taken + 1) % 2 = 0
        BY <2>1, <3>2 DEF EndsLine
      <4>2. /\ Taken % 2 = 1 /\ (Taken + 1) \div 2 = Taken \div 2 + 1
            /\ Taken = 2 * (Taken \div 2) + 1
        BY <2>1, <4>1, Halves
      <4>3. buffer' = <<>> /\ lines' = Append(lines, Append(buffer, Taken + 1))
        BY <1>1, <2>1, <3>2 DEF Framed, Grouped
      <4>4. buffer = <<Taken>>
        BY <2>1, <4>2
      <4>5. Append(buffer, Taken + 1) = <<2 * (Whole + 1) - 1, 2 * (Whole + 1)>>
        <5>1. Taken = 2 * Whole + 1
          BY <2>4, <4>2
        <5>2. 2 * (Whole + 1) - 1 = Taken /\ 2 * (Whole + 1) = Taken + 1
          BY <2>1, <5>1
        <5>3. Append(<<Taken>>, Taken + 1) = <<Taken, Taken + 1>>
          BY <2>1, AppendOne
        <5> QED BY <4>4, <5>2, <5>3, Zenon
      <4>6. Len(lines') = Len(lines) + 1 /\ \A i \in 1..Len(lines) : lines'[i] = lines[i]
        BY <1>3, <4>3
      <4>7. lines'[Len(lines) + 1] = <<2 * (Whole + 1) - 1, 2 * (Whole + 1)>>
        BY <1>3, <4>3, <4>5
      <4>8. First' = First
        BY <2>1, <2>3, <2>4, <4>2, <4>6
      <4>9. ASSUME NEW i \in 1..Len(lines')
            PROVE  lines'[i] = <<2 * (First + i) - 1, 2 * (First + i)>>
        <5>1. CASE i \in 1..Len(lines)
          BY <2>2, <4>6, <5>1
        <5>2. CASE i = Len(lines) + 1
          <6>1. First + i = Whole + 1
            BY <2>1, <5>2
          <6> QED BY <4>7, <5>2, <6>1
        <5> QED BY <2>1, <4>6, <5>1, <5>2
      <4>10. buffer' = IF Taken' % 2 = 0 THEN <<>> ELSE <<Taken'>>
        BY <2>1, <4>1, <4>3
      <4> QED BY <4>8, <4>9, <4>10
    <3> QED BY <3>1, <3>2
  <2>6. Framing'
    BY <1>1, <2>1, <2>5 DEF Framing
  <2>7. Sampling'
    BY <1>1, <1>2, <1>3, <1>8, <2>5 DEF Sampling, Wanted
  <2> QED BY <2>6, <2>7
<1> QED BY <1>1, <1>2, <1>3, <1>4, <1>5, <1>6, <1>7, <1>8, StreamKeeps

\* A group is sampled: what comes of its first line is offered.
LEMMA GroupSampled ==
  ASSUME Bounds, Sampling, rate \in Nat \ {0}, First \in Nat, First % rate = 0,
         NEW d \in 1..rate, First + d <= Len(Lines), First' = First + d, rate' = rate,
         NEW record \in Parsed(<<2 * (First + 1) - 1, 2 * (First + 1)>>),
         offered \in Seq(Nat),
         offered' = IF record = NONE THEN offered ELSE Append(offered, record)
  PROVE  Sampling'
<1> DEFINE line == First + 1
           frame == <<2 * line - 1, 2 * line>>
<1> Len(Lines) \in Nat /\ NONE \notin Nat /\ line \in 1..Len(Lines)
  BY Numbers
<1>1. IsLine(frame) /\ LineOf(frame[1]) = line
  <2>1. Len(frame) = 2 /\ frame[1] = 2 * line - 1 /\ frame[2] = 2 * line
    OBVIOUS
  <2>2. 2 * line = (2 * line - 1) + 1 /\ (2 * line) \div 2 = line
    OBVIOUS
  <2> QED BY <2>1, <2>2 DEF IsLine, LineOf
<1>2. record \in (IF Lines[line] = "good" THEN {line} ELSE {NONE})
  BY <1>1 DEF Parsed
<1>3. {l \in Wanted : l <= First + d} =
        {l \in Wanted : l <= First} \cup (IF Lines[line] = "good" THEN {line} ELSE {})
  BY WantedOfGroup
<1>5. Wanted' = Wanted
  BY DEF Wanted
<1>6. /\ ToSet(offered) = {l \in Wanted : l <= First}
      /\ \A i, j \in DOMAIN offered : i < j => offered[i] < offered[j]
  BY DEF Sampling
<1>7. \A i \in DOMAIN offered : offered[i] \in Nat /\ offered[i] < line
  <2>1. \A i \in DOMAIN offered : offered[i] \in ToSet(offered)
    BY DEF ToSet
  <2>2. \A l \in Wanted : l \in Nat
    BY DEF Wanted
  <2> QED BY <1>6, <2>1, <2>2
<1>8. {l \in Wanted' : l <= First'} = {l \in Wanted : l <= First + d}
  BY <1>5
<1> HIDE DEF line
<1>9. CASE Lines[line] # "good"
  <2>1. offered' = offered
    BY <1>2, <1>9
  <2>2. ToSet(offered') = {l \in Wanted' : l <= First'}
    BY <1>3, <1>6, <1>8, <1>9, <2>1
  <2> QED BY <1>6, <2>1, <2>2 DEF Sampling
<1>10. CASE Lines[line] = "good"
  <2>1. record = line /\ record # NONE /\ record \in Nat
    BY <1>2, <1>10
  <2>2. /\ DOMAIN offered = 1..Len(offered) /\ DOMAIN offered' = 1..Len(offered) + 1
        /\ Len(offered) \in Nat
        /\ offered'[Len(offered) + 1] = line
        /\ \A i \in 1..Len(offered) : offered'[i] = offered[i]
    BY <2>1
  <2>3. ToSet(offered') = ToSet(offered) \cup {line}
    BY <2>1, ToSetOfAppend
  <2>4. ToSet(offered') = {l \in Wanted' : l <= First'}
    BY <1>3, <1>6, <1>8, <1>10, <2>3
  <2>5. ASSUME NEW i \in DOMAIN offered', NEW j \in DOMAIN offered', i < j
        PROVE  offered'[i] < offered'[j]
    BY <1>6, <1>7, <2>2, <2>5
  <2> QED BY <2>4, <2>5 DEF Sampling
<1> QED BY <1>9, <1>10

\* A line fills its group.
LEMMA SampleStep ==
  ASSUME Bounds, IInv, NEW record \in 0..Len(Lines) \cup {NONE}, Sample(record),
         OfferIfAny(record), UNCHANGED <<asked, pending, interrupted>>
  PROVE  IInv'
<1>1. /\ stage = "streaming" /\ input # <<>> /\ input' = Tail(input)
      /\ UNCHANGED <<stage, disk, at, months, rate, turn>>
      /\ EndsLine(Head(input)) /\ Len(Grouped) >= rate
      /\ record \in Parsed(Head(Grouped))
      /\ buffer' = <<>> /\ lines' = <<>>
  BY DEF Sample, files
<1> Len(Lines) \in Nat /\ Size = 2 * Len(Lines) /\ record \in Nat \cup {NONE}
  BY Numbers
<1>2. /\ months # 0 /\ turn' \in 0..Size /\ rate \in Nat \ {0}
      /\ lines \in Seq(Seq(1..Size)) /\ Len(lines) < rate
      /\ months = 1 => Framing /\ Sampling
  BY <1>1, StreamFacts
<1>3. input' \in Seq(1..Size) /\ Len(Grouped) = Len(lines) + 1
  BY <1>1, FramedType
<1>4. /\ buffer' \in Seq(1..Size) /\ \A i \in 1..Len(buffer') : ~EndsLine(buffer'[i])
      /\ lines' \in Seq(Seq(1..Size)) /\ Len(lines') = 0 /\ Len(lines') < rate
  <2>1. Len(<<>>) = 0 /\ <<>> \in Seq(1..Size) /\ <<>> \in Seq(Seq(1..Size))
    OBVIOUS
  <2> QED BY <1>1, <1>2, <2>1
<1>5. /\ offered' = IF record = NONE THEN offered ELSE Append(offered, record)
      /\ offered' \in Seq(Nat) /\ inflight' \in Seq(1..Len(offered'))
      /\ Len(inflight') <= Parallelism /\ topic' \in Seq(1..Len(offered')) /\ sink' = sink
      /\ sink' = "running" => Len(topic') + Len(inflight') = Len(offered')
      /\ printed' = printed
  BY <1>1, OfferIfAnyStep DEF IInv
<1>6. ASSUME months = 1 PROVE Framing' /\ Sampling'
  <2>1. /\ Taken \in Nat /\ Whole \in Nat /\ First \in Nat /\ Len(lines) \in Nat
        /\ Whole = First + Len(lines)
        /\ Head(input) = Taken + 1 /\ Taken + 1 <= Size
        /\ Taken' = Taken + 1 /\ Len(input') <= Zipped'
        /\ \A i \in 1..Len(input') : input'[i] = Taken' + i
        /\ First % rate = 0
        /\ buffer = IF Taken % 2 = 0 THEN <<>> ELSE <<Taken>>
    BY <1>1, <1>6, TakePiece
  <2>2. (Taken + 1) % 2 = 0
    BY <1>1, <2>1 DEF EndsLine
  <2>3. /\ Taken % 2 = 1 /\ (Taken + 1) \div 2 = Taken \div 2 + 1
        /\ Taken = 2 * (Taken \div 2) + 1
    BY <2>1, <2>2, Halves
  <2>4. Whole = Taken \div 2 /\ Whole' = Taken' \div 2 /\ First' = Whole' - Len(lines')
    BY DEF First, Whole
  <2>5. Whole' = Whole + 1 /\ Taken = 2 * Whole + 1
    BY <2>1, <2>3, <2>4
  <2>6. Len(lines) = rate - 1
    <3>1. Len(lines) + 1 >= rate
      BY <1>1, <1>3
    <3> QED BY <1>2, <2>1, <3>1
  <2>7. First' = First + rate
    BY <1>2, <1>4, <2>1, <2>4, <2>5, <2>6
  <2>8. First + rate <= Len(Lines)
    BY <1>2, <2>1, <2>5, <2>6
  <2>9. First' % rate = 0
    <3>1. \A r \in Nat \ {0}, x \in Nat : x % r = 0 => (x + r) % r = 0
      <4> SUFFICES ASSUME NEW r \in Nat \ {0}, NEW x \in Nat, x % r = 0
                   PROVE  (x + r) % r = 0
        OBVIOUS
      <4>1. r \in 0..r
        OBVIOUS
      <4> QED BY <4>1, Remainder
    <3> QED BY <1>2, <2>1, <2>7, <3>1
  <2>10. Head(Grouped) = <<2 * (First + 1) - 1, 2 * (First + 1)>>
    <3>1. Grouped = Append(lines, Append(buffer, Taken + 1))
      BY <1>1, <2>1, FramedType
    <3>2. CASE Len(lines) = 0
      <4>1. 2 * (First + 1) - 1 = Taken /\ 2 * (First + 1) = Taken + 1
        BY <2>1, <2>5, <3>2
      <4>2. buffer = <<Taken>>
        BY <2>1, <2>3
      <4>3. Append(buffer, Taken + 1) = <<Taken, Taken + 1>>
        <5>1. Append(<<Taken>>, Taken + 1) = <<Taken, Taken + 1>>
          BY <2>1, AppendOne
        <5> QED BY <4>2, <5>1
      <4>4. Head(Grouped) = Append(buffer, Taken + 1)
        BY <1>2, <3>1, <3>2
      <4> QED BY <4>1, <4>3, <4>4, Zenon
    <3>3. CASE Len(lines) # 0
      <4>1. 1 \in 1..Len(lines)
        BY <2>1, <3>3
      <4>2. Head(Grouped) = lines[1]
        BY <1>2, <3>1, <4>1
      <4> QED BY <1>2, <1>6, <4>1, <4>2 DEF Framing
    <3> QED BY <3>2, <3>3
  <2>11. Framing'
    <3>1. buffer' = IF Taken' % 2 = 0 THEN <<>> ELSE <<Taken'>>
      BY <1>1, <2>1, <2>2
    <3>2. First' \in Nat /\ First' % rate' = 0
      BY <1>1, <1>2, <2>1, <2>7, <2>9
    <3> QED BY <1>4, <2>1, <3>1, <3>2 DEF Framing
  <2>12. Sampling'
    <3>1. rate \in 1..rate /\ Sampling /\ rate' = rate /\ offered \in Seq(Nat)
      BY <1>1, <1>2, <1>6 DEF IInv, TypeOK
    <3>2. record \in Parsed(<<2 * (First + 1) - 1, 2 * (First + 1)>>)
      BY <1>1, <2>10
    <3> QED BY <1>2, <1>5, <2>1, <2>7, <2>8, <3>1, <3>2, GroupSampled
  <2> QED BY <2>11, <2>12
<1> QED BY <1>1, <1>2, <1>3, <1>4, <1>5, <1>6, StreamKeeps

\* The input has ended, and with it the last group.
LEMMA SampleRestStep ==
  ASSUME Bounds, IInv, NEW record \in 0..Len(Lines) \cup {NONE}, SampleRest(record),
         OfferIfAny(record), UNCHANGED <<asked, pending, interrupted>>
  PROVE  IInv'
<1>1. /\ stage = "streaming" /\ InputHasEnded /\ buffer = <<>> /\ lines # <<>>
      /\ UNCHANGED <<stage, disk, at, months, rate, turn, input, buffer>>
      /\ record \in Parsed(Head(lines))
      /\ lines' = <<>>
  BY DEF SampleRest, files
<1> Len(Lines) \in Nat /\ Size = 2 * Len(Lines) /\ record \in Nat \cup {NONE}
  BY Numbers
<1>2. /\ months # 0 /\ turn \in 0..Size /\ rate \in Nat \ {0}
      /\ input \in Seq(1..Size) /\ buffer \in Seq(1..Size)
      /\ \A i \in 1..Len(buffer) : ~EndsLine(buffer[i])
      /\ lines \in Seq(Seq(1..Size)) /\ Len(lines) < rate
      /\ months = 1 => Framing /\ Sampling /\ disk[1] \in 0..Size
  <2>1. months = 1 => 1 \in 1..months
    OBVIOUS
  <2> QED BY <1>1, <2>1, StreamFacts
<1>3. Len(lines) \in Nat /\ Len(lines) > 0 /\ Head(lines) = lines[1]
  BY <1>1, <1>2, Tails
<1>4. lines' \in Seq(Seq(1..Size)) /\ Len(lines') = 0 /\ Len(lines') < rate
  <2>1. Len(<<>>) = 0 /\ <<>> \in Seq(Seq(1..Size))
    OBVIOUS
  <2> QED BY <1>1, <1>2, <2>1
<1>5. /\ offered' = IF record = NONE THEN offered ELSE Append(offered, record)
      /\ offered' \in Seq(Nat) /\ inflight' \in Seq(1..Len(offered'))
      /\ Len(inflight') <= Parallelism /\ topic' \in Seq(1..Len(offered')) /\ sink' = sink
      /\ sink' = "running" => Len(topic') + Len(inflight') = Len(offered')
      /\ printed' = printed
  BY <1>1, OfferIfAnyStep DEF IInv
<1>6. ASSUME months = 1 PROVE Framing' /\ Sampling'
  <2> Framing /\ Sampling /\ disk[1] \in 0..Size /\ turn * ChunkSize \in Nat
    BY <1>2, <1>6, Numbers
  <2>1. Zipped \in Nat /\ Zipped <= Size /\ Zipped' = Zipped
    BY <1>1 DEF Zipped
  <2>2. Taken = Zipped /\ Taken' = Zipped
    <3>1. Len(input) = 0 /\ Len(input') = 0
      BY <1>1 DEF InputHasEnded
    <3> QED BY <2>1, <3>1 DEF Taken
  <2>3. /\ Whole \in Nat /\ Whole' = Whole /\ First' = Whole /\ First = Whole - Len(lines)
        /\ 2 * Whole <= Size
    <3>1. Whole = Taken \div 2 /\ Whole' = Taken' \div 2
      BY DEF Whole
    <3>2. Whole \in Nat /\ 2 * Whole <= Taken
      BY <2>1, <2>2, <3>1, Halves
    <3> QED BY <1>4, <2>1, <2>2, <3>1, <3>2 DEF First
  <2>4. First \in Nat /\ First % rate = 0
    BY <1>1 DEF Framing
  <2>5. First' = First + Len(lines) /\ Len(lines) \in 1..rate /\ First + Len(lines) <= Len(Lines)
    BY <1>2, <1>3, <2>3
  <2>6. lines[1] = <<2 * (First + 1) - 1, 2 * (First + 1)>>
    <3>1. 1 \in 1..Len(lines)
      BY <1>3
    <3> QED BY <3>1 DEF Framing
  <2>7. Framing'
    <3>1. InputHasEnded' /\ buffer' = <<>>
      BY <1>1 DEF InputHasEnded, HasTurn
    <3>2. Len(input') = 0
      BY <1>1 DEF InputHasEnded
    <3>3. buffer' = IF Taken' % 2 = 0 THEN <<>> ELSE <<Taken'>>
      BY <1>1, <2>2 DEF Framing
    <3> QED BY <1>1, <1>4, <2>1, <2>3, <3>1, <3>2, <3>3 DEF Framing
  <2>8. Sampling'
    <3>1. rate' = rate /\ offered \in Seq(Nat)
      BY <1>1 DEF IInv, TypeOK
    <3>2. record \in Parsed(<<2 * (First + 1) - 1, 2 * (First + 1)>>)
      BY <1>1, <1>3, <2>6
    <3> QED BY <1>2, <1>5, <2>4, <2>5, <3>1, <3>2, GroupSampled
  <2> QED BY <2>7, <2>8
<1>7. turn' \in 0..Size /\ input' \in Seq(1..Size) /\ buffer' \in Seq(1..Size)
  BY <1>1, <1>2
<1>8. \A i \in 1..Len(buffer') : ~EndsLine(buffer'[i])
  BY <1>1, <1>2
<1> QED BY <1>1, <1>2, <1>4, <1>5, <1>6, <1>7, <1>8, StreamKeeps

-----------------------------------------------------------------------------
(* The fake data.                                                          *)

\* What division is, for numbers that are not negative.
LEMMA Division ==
  ASSUME NEW n \in Nat, NEW d \in Nat \ {0}
  PROVE  /\ n \div d \in Nat
         /\ (n \div d) * d <= n
         /\ n < (n \div d) * d + d
  OBVIOUS

\* What rounding up is.
LEMMA CeilingIs ==
  ASSUME NEW n \in Nat, NEW d \in Nat \ {0}
  PROVE  /\ Ceiling(n, d) \in Nat
         /\ n <= Ceiling(n, d) * d /\ Ceiling(n, d) * d < n + d
         /\ \A j \in Nat : Ceiling(n, d) = j <=> n <= j * d /\ j * d < n + d
<1> DEFINE q == Ceiling(n, d)
<1>1. q \in Nat /\ q * d <= n + d - 1 /\ n + d - 1 < q * d + d
  <2>1. n + d - 1 \in Nat
    OBVIOUS
  <2> QED BY <2>1, Division DEF Ceiling
<1> HIDE DEF q
<1>2. q * d \in Nat
  BY <1>1
<1>3. n <= q * d /\ q * d < n + d
  BY <1>1, <1>2
<1>4. ASSUME NEW a \in Nat, NEW b \in Nat, n <= a * d, b * d < n + d
      PROVE  b <= a
  <2> SUFFICES ASSUME a < b PROVE FALSE
    OBVIOUS
  <2>1. b - a - 1 \in Nat /\ (b - a - 1) * d >= 0
    OBVIOUS
  <2>2. (b - a - 1) * d = b * d - a * d - d /\ a * d \in Nat /\ b * d \in Nat
    OBVIOUS
  <2> QED BY <1>4, <2>1, <2>2
<1>5. ASSUME NEW j \in Nat PROVE q = j <=> n <= j * d /\ j * d < n + d
  <2>1. n <= j * d /\ j * d < n + d => q = j
    BY <1>1, <1>3, <1>4
  <2> QED BY <1>3, <2>1
<1> QED BY <1>1, <1>3, <1>5 DEF q

\* The size of a cluster, if there are clusters.
LEMMA FakeNumbers ==
  ASSUME NEW n \in Nat, NEW k \in Nat
  PROVE  /\ Base(n) \in Nat /\ Clustered(n) \in Nat /\ Base(n) + Clustered(n) = n
         /\ PerCluster(n, k) \in Nat
         /\ ~Refused(n, k) => PerCluster(n, k) > 0 /\ Clustered(n) > 0
         /\ k = 0 => PerCluster(n, k) = Clustered(n)
         /\ k # 0 => PerCluster(n, k) = Ceiling(Clustered(n), k)
<1>1. Base(n) \in Nat /\ Clustered(n) \in Nat /\ Base(n) + Clustered(n) = n
  BY DEF Base, Clustered
<1>2. k = 0 => PerCluster(n, k) = Clustered(n)
  BY DEF PerCluster
<1>3. k # 0 => PerCluster(n, k) = Ceiling(Clustered(n), k)
  BY DEF PerCluster
<1>4. PerCluster(n, k) \in Nat
  BY <1>1, <1>2, <1>3, CeilingIs
<1>5. ~Refused(n, k) => PerCluster(n, k) > 0
  BY <1>4 DEF Refused
<1>6. ASSUME Clustered(n) = 0 PROVE PerCluster(n, k) = 0
  <2>1. CASE k = 0
    BY <1>2, <1>6, <2>1
  <2>2. CASE k # 0
    <3>1. Ceiling(0, k) = 0
      <4>1. 0 <= 0 * k /\ 0 * k < 0 + k /\ k \in Nat \ {0}
        BY <2>2
      <4> QED BY <4>1, CeilingIs
    <3> QED BY <1>3, <1>6, <2>2, <3>1
  <2> QED BY <2>1, <2>2
<1>7. ~Refused(n, k) => Clustered(n) > 0
  BY <1>1, <1>5, <1>6
<1> QED BY <1>1, <1>2, <1>3, <1>4, <1>5, <1>7

\* The records are numbered by clusters.
LEMMA FakeType ==
  ASSUME NEW n \in Nat, NEW k \in Nat, ~Refused(n, k)
  PROVE  FakeRecord(n, k) \in Seq(Nat) /\ Len(FakeRecord(n, k)) = n
<1> DEFINE b == Base(n)
           p == PerCluster(n, k)
<1>1. b \in Nat /\ p \in Nat \ {0}
  BY FakeNumbers
<1>2. \A i \in 1..n : i > b => Ceiling(i - b, p) \in Nat
  <2>1. \A i \in 1..n : i > b => i - b \in Nat
    BY <1>1
  <2> HIDE DEF b, p
  <2> QED BY <1>1, <2>1, CeilingIs
<1>3. FakeRecord(n, k) = [i \in 1..n |-> IF i <= b THEN 0 ELSE Ceiling(i - b, p)]
  BY DEF FakeRecord
<1> HIDE DEF b, p
<1>4. \A i \in 1..n : (IF i <= b THEN 0 ELSE Ceiling(i - b, p)) \in Nat
  BY <1>1, <1>2
<1> QED BY <1>3, <1>4

\* Which records are in a cluster: as many as fit in, one after the other.
LEMMA ClusterIs ==
  ASSUME NEW n \in Nat, NEW k \in Nat, ~Refused(n, k), NEW c \in Nat \ {0}
  PROVE  LET p == PerCluster(n, k)
             first == Base(n) + (c - 1) * p + 1
             last == Base(n) + c * p
         IN  {i \in 1..n : FakeRecord(n, k)[i] = c} = first..(IF last < n THEN last ELSE n)
<1> DEFINE b == Base(n)
           p == PerCluster(n, k)
           r == FakeRecord(n, k)
           before == (c - 1) * p
           upto == c * p
<1>1. b \in Nat /\ p \in Nat \ {0} /\ \A i \in 1..n : r[i] = IF i <= b THEN 0 ELSE Ceiling(i - b, p)
  BY FakeNumbers DEF FakeRecord
<1>2. before \in Nat /\ upto = before + p
  <2> HIDE DEF b, p, r
  <2> QED BY <1>1
<1> HIDE DEF b, p, r, before
<1>3. ASSUME NEW i \in 1..n PROVE r[i] = c <=> b + before < i /\ i <= b + upto
  <2>1. CASE i <= b
    BY <1>1, <1>2, <2>1
  <2>2. CASE i > b
    <3> DEFINE x == i - b
    <3>1. x \in Nat /\ r[i] = Ceiling(x, p)
      BY <1>1, <2>2
    <3> HIDE DEF x
    <3>2. Ceiling(x, p) = c <=> x <= c * p /\ c * p < x + p
      BY <1>1, <3>1, CeilingIs
    <3> HIDE DEF upto
    <3>3. Ceiling(x, p) = c <=> x <= upto /\ upto < x + p
      BY <3>2 DEF upto
    <3> QED BY <1>1, <1>2, <3>1, <3>3 DEF x
  <2> QED BY <1>1, <2>1, <2>2
<1> HIDE DEF upto
<1>4. {i \in 1..n : r[i] = c} = b + before + 1..(IF b + upto < n THEN b + upto ELSE n)
  BY <1>1, <1>2, <1>3
<1> QED BY <1>4 DEF b, p, r, before, upto

\* The fake records are in even clusters.
LEMMA FakeIsEven ==
  ASSUME NEW n \in Nat, NEW k \in Nat, ~Refused(n, k)
  PROVE  LET r == FakeRecord(n, k)
             OfCluster(c) == {i \in 1..n : r[i] = c}
         IN  /\ r[n] \in 1..(IF k = 0 THEN 1 ELSE k)
             /\ \A c \in 1..r[n] - 1 : Cardinality(OfCluster(c)) = Cardinality(OfCluster(1))
             /\ Cardinality(OfCluster(r[n])) \in 1..Cardinality(OfCluster(1))
<1> DEFINE b == Base(n)
           m == Clustered(n)
           p == PerCluster(n, k)
           r == FakeRecord(n, k)
           l == r[n]
           OfCluster(c) == {i \in 1..n : r[i] = c}
           From(c) == b + (c - 1) * p + 1
           To(c) == IF b + c * p < n THEN b + c * p ELSE n
<1>1. b \in Nat /\ m \in Nat \ {0} /\ b + m = n /\ p \in Nat \ {0}
  <2>1. b \in Nat /\ m \in Nat /\ b + m = n /\ p \in Nat /\ p > 0 /\ m > 0
    BY FakeNumbers
  <2> HIDE DEF b, m, p
  <2> QED BY <2>1
<1>2. l = Ceiling(m, p)
  <2>1. n \in 1..n /\ ~(n <= b) /\ n - b = m
    BY <1>1
  <2>2. r[n] = Ceiling(n - b, p)
    BY <2>1 DEF FakeRecord
  <2> QED BY <2>1, <2>2
<1>3. k = 0 => p = m
  BY FakeNumbers
<1>4. k # 0 => p = Ceiling(m, k)
  BY FakeNumbers
<1>5. \A c \in Nat \ {0} : OfCluster(c) = From(c)..To(c)
  BY ClusterIs
<1> HIDE DEF b, m, p, l, r
<1>6. l \in Nat /\ m <= l * p /\ l * p < m + p
  BY <1>1, <1>2, CeilingIs
<1>7. l \in 1..(IF k = 0 THEN 1 ELSE k)
  <2>1. l # 0
    <3>1. 0 * p = 0
      BY <1>1
    <3> QED BY <1>1, <1>6, <3>1
  <2>2. CASE k = 0
    <3>1. m <= 1 * p /\ 1 * p < m + p
      BY <1>1, <1>3, <2>2
    <3>2. l = 1
      BY <1>1, <1>2, <3>1, CeilingIs
    <3> QED BY <2>2, <3>2
  <2>3. CASE k # 0
    <3>1. k \in Nat \ {0} /\ m <= p * k
      BY <1>1, <1>4, <2>3, CeilingIs
    <3>2. ~(k < l)
      <4> SUFFICES ASSUME k < l PROVE FALSE
        OBVIOUS
      <4>1. l - k - 1 \in Nat /\ (l - k - 1) * p >= 0
        BY <1>1, <1>6
      <4>2. (l - k - 1) * p = l * p - k * p - p /\ l * p \in Nat /\ k * p \in Nat /\ k * p = p * k
        BY <1>1, <1>6
      <4> QED BY <1>1, <1>6, <3>1, <4>1, <4>2
    <3> QED BY <1>6, <2>1, <2>3, <3>1, <3>2
  <2> QED BY <2>2, <2>3
<1>8. ASSUME NEW c \in 1..l - 1
      PROVE  From(c) \in Nat /\ To(c) \in Nat /\ To(c) - From(c) + 1 = p
  <2>1. c * p \in Nat /\ (c - 1) * p = c * p - p /\ (c - 1) * p \in Nat
    BY <1>1, <1>6
  <2>2. c * p < m
    <3>1. l - 1 - c \in Nat /\ (l - 1 - c) * p >= 0
      BY <1>1, <1>6
    <3>2. (l - 1 - c) * p = l * p - p - c * p /\ l * p \in Nat
      BY <1>1, <1>6, <2>1
    <3> QED BY <1>1, <1>6, <2>1, <3>1, <3>2
  <2>3. To(c) = b + c * p
    BY <1>1, <2>1, <2>2
  <2> QED BY <1>1, <2>1, <2>3
<1>9. From(l) \in Nat /\ To(l) = n /\ To(l) - From(l) + 1 \in 1..p
  <2>1. l * p \in Nat /\ (l - 1) * p = l * p - p /\ (l - 1) * p \in Nat
    BY <1>1, <1>6, <1>7
  <2>2. To(l) = n
    BY <1>1, <1>6, <2>1
  <2> QED BY <1>1, <1>6, <2>1, <2>2
<1>10. \A x \in Nat, y \in Nat : x <= y => Cardinality(x..y) = y - x + 1
  <2> SUFFICES ASSUME NEW x \in Nat, NEW y \in Nat, x <= y
               PROVE  Cardinality(x..y) = y - x + 1
    OBVIOUS
  <2>1. Cardinality(x..y) = IF x > y THEN 0 ELSE y - x + 1
    BY FS_Interval
  <2> QED BY <2>1
<1> DEFINE Many(c) == Cardinality(OfCluster(c))
<1>11. \A c \in 1..l - 1 : Many(c) = p
  <2> SUFFICES ASSUME NEW c \in 1..l - 1 PROVE Many(c) = p
    OBVIOUS
  <2>1. OfCluster(c) = From(c)..To(c)
    BY <1>5
  <2>2. From(c) \in Nat /\ To(c) \in Nat /\ To(c) - From(c) + 1 = p
    BY <1>8
  <2> HIDE DEF OfCluster, From, To
  <2>3. From(c) <= To(c)
    BY <1>1, <2>2
  <2> QED BY <1>10, <2>1, <2>2, <2>3
<1>12. Many(l) \in 1..p
  <2>1. OfCluster(l) = From(l)..To(l)
    BY <1>5, <1>7
  <2>2. From(l) \in Nat /\ To(l) \in Nat /\ To(l) - From(l) + 1 \in 1..p
    BY <1>9
  <2> HIDE DEF OfCluster, From, To
  <2>3. From(l) <= To(l)
    BY <1>1, <2>2
  <2> QED BY <1>10, <2>1, <2>2, <2>3
<1> HIDE DEF Many
<1>13. Many(l) \in 1..Many(1)
  <2>1. CASE l = 1
    BY <1>1, <1>12, <2>1
  <2>2. CASE l # 1
    <3>1. 1 \in 1..l - 1
      BY <1>6, <1>7, <2>2
    <3> QED BY <1>11, <1>12, <3>1
  <2> QED BY <2>1, <2>2
<1>14. \A c \in 1..l - 1 : Many(c) = Many(1)
  <2> SUFFICES ASSUME NEW c \in 1..l - 1 PROVE Many(c) = Many(1)
    OBVIOUS
  <2>1. 1 \in 1..l - 1
    BY <1>6
  <2> QED BY <1>11, <2>1
<1> QED BY <1>7, <1>13, <1>14 DEF Many, l, r

-----------------------------------------------------------------------------
(* The theorems.                                                           *)

\* The invariant holds in the beginning.
LEMMA InitInv == ASSUME Bounds, Init PROVE IInv
<1>1. /\ stage = "off" /\ disk = [m \in Month |-> NONE] /\ months = 0 /\ rate = 1 /\ at = 0
      /\ turn = 0 /\ input = <<>> /\ buffer = <<>> /\ lines = <<>>
      /\ asked = NotFake /\ pending = <<>> /\ offered = <<>> /\ inflight = <<>>
      /\ sink = "running" /\ topic = <<>> /\ printed = NONE /\ interrupted = FALSE
  BY DEF Init, FilesInit
<1>2. FilesTypeOK
  BY <1>1, Numbers DEF FilesTypeOK
<1>3. TypeOK
  <2>1. inflight \in Seq(1..Len(offered)) /\ Len(inflight) = 0 /\ topic \in Seq(1..Len(offered))
    BY <1>1
  <2>2. pending \in Seq(Nat) /\ offered \in Seq(Nat)
    BY <1>1
  <2>3. Len(inflight) <= Parallelism
    BY <2>1, Numbers
  <2>4. asked \in FakeArgs \cup {NotFake} /\ stage # "copying"
    BY <1>1
  <2>5. interrupted \in BOOLEAN /\ printed \in Nat \cup {NONE}
    BY <1>1
  <2> QED BY <1>1, <1>2, <2>1, <2>2, <2>3, <2>4, <2>5 DEF TypeOK
<1>4. FilesInv
  BY <1>1 DEF FilesInv, HasStream, Exists
<1>5. ReaderInv /\ CountInv /\ FakeInv /\ OneFileInv
  BY <1>1 DEF ReaderInv, ReaderIsEmpty, CountInv, FakeInv, OneFileInv, HasStream
<1> QED BY <1>3, <1>4, <1>5 DEF IInv

\* Every step keeps the invariant.
LEMMA NextInv == ASSUME Bounds, IInv, [Next]_vars PROVE IInv'
<1>1. ASSUME NEW args \in NewYorkArgs, RunNewYork(args) PROVE IInv'
  BY <1>1, RunNewYorkStep
<1>2. ASSUME NEW args \in FakeArgs, RunFake(args) PROVE IInv'
  <2>1. ~Refused(args[1], args[2]) => FakeRecord(args[1], args[2]) \in Seq(Nat)
    <3>1. args[1] \in Nat /\ args[2] \in Nat
      BY DEF Bounds
    <3> QED BY <3>1, FakeType
  <2> QED BY <1>2, <2>1, RunFakeStep
<1>3. ASSUME StreamFile PROVE IInv'
  <2>1. CASE ZipTurn /\ UNCHANGED <<export, interrupted>>
    BY <2>1, ZipTurnStep
  <2>2. CASE Gather /\ UNCHANGED <<export, interrupted>>
    BY <2>2, GatherStep
  <2>3. CASE \E record \in 0..Len(Lines) \cup {NONE} :
               /\ Sample(record) \/ SampleRest(record)
               /\ OfferIfAny(record)
               /\ UNCHANGED <<asked, pending, interrupted>>
    BY <2>3, SampleStep, SampleRestStep
  <2> QED BY <1>3, <2>1, <2>2, <2>3 DEF StreamFile
<1>4. CASE UNCHANGED vars
  <2>1. /\ UNCHANGED <<stage, disk, at, months, rate, turn, input, buffer, lines>>
        /\ UNCHANGED <<asked, pending, offered, inflight, sink, topic, printed, interrupted>>
    BY <1>4 DEF vars, files, reader, export
  <2>2. TypeOK'
    BY <2>1 DEF IInv, TypeOK, FilesTypeOK
  <2>3. FilesInv' /\ ReaderInv' /\ CountInv' /\ FakeInv'
    BY <2>1 DEF IInv, FilesInv, Exists, HasStream, ReaderInv, ReaderIsEmpty, CountInv, FakeInv
  <2>4. OneFileInv'
    BY <2>1, OneFileKept DEF IInv
  <2> QED BY <2>2, <2>3, <2>4 DEF IInv
<1> QED BY <1>1, <1>2, <1>3, <1>4, FetchStep, StreamFakeStep, SendStep, CompleteStep, EndStep
        DEF Next, GoOn

\* A run over one file samples it.
LEMMA InvSamples == ASSUME Bounds, IInv PROVE SamplesTheFile
<1> SUFFICES ASSUME months = 1, stage \notin {"off", "stuck"}
             PROVE  /\ \A i, j \in DOMAIN offered : i < j => offered[i] < offered[j]
                    /\ \E n \in 0..Len(Lines) : ToSet(offered) = {line \in Wanted : line <= n}
                    /\ ~interrupted => /\ stage = "completed" => ToSet(offered) = Wanted
                                       /\ stage # "failed"
  BY DEF SamplesTheFile
<1> Len(Lines) \in Nat /\ Size = 2 * Len(Lines)
  BY Numbers
<1>1. CASE ~HasStream
  <2>1. stage \in {"files", "copying"} /\ offered = <<>>
    BY <1>1 DEF HasStream, IInv, TypeOK, ReaderInv
  <2>2. ToSet(offered) = {} /\ DOMAIN offered = {}
    BY <2>1 DEF ToSet
  <2>3. {line \in Wanted : line <= 0} = {}
    BY DEF Wanted
  <2> QED BY <2>1, <2>2, <2>3
<1>2. CASE HasStream
  <2>1. Framing /\ Sampling
    BY <1>2 DEF IInv, OneFileInv
  <2>2. /\ disk[1] \in 0..Size /\ turn \in Nat /\ ChunkSize \in Nat /\ 1 \in Month
        /\ input \in Seq(1..Size) /\ lines \in Seq(Seq(1..Size))
        /\ ~interrupted => disk[1] = Size
    <3>1. /\ disk \in [Month -> 0..Size \cup {NONE}] /\ months \in 0..MaxMonths
          /\ turn \in 0..Size /\ input \in Seq(1..Size) /\ lines \in Seq(Seq(1..Size))
          /\ ChunkSize \in Nat /\ MaxMonths \in Nat /\ Month = 1..MaxMonths
      BY Numbers DEF IInv, TypeOK, FilesTypeOK, ReaderInv, Month
    <3>2. 1 \in Month /\ stage # "copying"
      BY <1>2, <3>1 DEF HasStream
    <3>3. Exists(1)
      <4>1. 1 \in 1..months
        OBVIOUS
      <4> QED BY <1>2, <4>1 DEF IInv, FilesInv
    <3>4. disk[1] \in 0..Size
      BY <3>1, <3>2, <3>3 DEF Exists
    <3>5. ~interrupted => disk[1] = Size
      BY <3>2, <3>3 DEF IInv, FilesInv
    <3> QED BY <3>1, <3>2, <3>4, <3>5
  <2>3. turn * ChunkSize \in Nat
    BY <2>2
  <2>4. Zipped \in Nat /\ Zipped <= disk[1]
    BY <2>2, <2>3 DEF Zipped
  <2>5. Taken \in Nat /\ Taken <= disk[1]
    <3>1. Len(input) \in Nat /\ Len(input) <= Zipped
      BY <2>1, <2>2 DEF Framing
    <3> QED BY <2>2, <2>4, <3>1 DEF Taken
  <2>6. Whole \in Nat /\ 2 * Whole <= Taken /\ Whole = Taken \div 2
    BY <2>5, Halves DEF Whole
  <2>7. First \in 0..Len(Lines) /\ First <= Whole
    <3>1. First \in Nat /\ Len(lines) \in Nat /\ First = Whole - Len(lines)
      BY <2>1, <2>2 DEF Framing, First
    <3> QED BY <2>2, <2>5, <2>6, <3>1
  <2>8. /\ \A i, j \in DOMAIN offered : i < j => offered[i] < offered[j]
        /\ ToSet(offered) = {line \in Wanted : line <= First}
    BY <2>1 DEF Sampling
  <2>9. ASSUME Exhausted \/ Truncated PROVE Taken = disk[1]
    <3>1. input = <<>> /\ ~HasTurn
      BY <2>9 DEF Exhausted, Truncated, InputHasEnded
    <3>2. ~(disk[1] > turn * ChunkSize)
      <4>1. \A m \in 1..months : m = 1
        OBVIOUS
      <4> QED BY <3>1, <4>1 DEF HasTurn
    <3>3. Len(input) = 0 /\ Zipped = disk[1]
      BY <2>2, <2>3, <3>1, <3>2 DEF Zipped
    <3> QED BY <2>2, <3>3 DEF Taken
  <2>10. ASSUME ~interrupted, stage = "completed" PROVE ToSet(offered) = Wanted
    <3>1. Exhausted /\ disk[1] = Size
      BY <2>2, <2>10 DEF IInv, OneFileInv, HasStream
    <3>2. Taken = 2 * Len(Lines)
      BY <2>9, <3>1
    <3>3. Whole = Len(Lines)
      BY <2>6, <3>2
    <3>4. Len(lines) = 0
      BY <3>1 DEF Exhausted
    <3>5. First = Len(Lines)
      BY <3>3, <3>4 DEF First
    <3> QED BY <2>8, <3>5 DEF Wanted
  <2>11. ASSUME ~interrupted, stage = "failed" PROVE FALSE
    <3>1. Truncated /\ disk[1] = Size
      BY <2>2, <2>11 DEF IInv, OneFileInv, HasStream
    <3>2. Taken = 2 * Len(Lines)
      BY <2>9, <3>1
    <3>3. Taken % 2 = 0
      BY <3>2
    <3>4. buffer = <<>>
      BY <2>1, <3>3 DEF Framing
    <3> QED BY <3>1, <3>4 DEF Truncated
  <2> QED BY <2>7, <2>8, <2>10, <2>11
<1> QED BY <1>1, <1>2

\* A count is the number of records, and of those published.
LEMMA InvCounts == ASSUME Bounds, IInv PROVE CountIsTrue
<1> SUFFICES ASSUME stage = "completed", sink = "running", inflight = <<>>
             PROVE  Len(topic) = printed /\ (asked # NotFake => printed = asked[1])
  BY DEF CountIsTrue
<1>1. Len(topic) + Len(inflight) = Len(offered) /\ printed = Len(offered)
  BY DEF IInv, CountInv
<1>2. Len(inflight) = 0 /\ Len(topic) \in Nat
  BY DEF IInv, TypeOK
<1>3. ASSUME asked # NotFake PROVE Len(offered) = asked[1]
  <2>1. /\ asked[1] \in Nat /\ asked[2] \in Nat /\ ~Refused(asked[1], asked[2])
        /\ offered \o pending = FakeRecord(asked[1], asked[2]) /\ pending = <<>>
        /\ offered \in Seq(Nat)
    BY <1>3 DEF IInv, TypeOK, FakeInv, HasStream, Bounds
  <2>2. offered \o <<>> = offered
    BY <2>1
  <2> QED BY <2>1, <2>2, FakeType
<1> QED BY <1>1, <1>2, <1>3

\* The clusters of a whole run.
LEMMA InvEven == ASSUME Bounds, IInv PROVE ClustersAreEven
<1> SUFFICES ASSUME stage = "completed", asked # NotFake
             PROVE  LET OfCluster(c) == {i \in 1..Len(offered) : offered[i] = c}
                        last == offered[Len(offered)]
                    IN /\ last \in 1..(IF asked[2] = 0 THEN 1 ELSE asked[2])
                       /\ \A c \in 1..last - 1 :
                            Cardinality(OfCluster(c)) = Cardinality(OfCluster(1))
                       /\ Cardinality(OfCluster(last)) \in 1..Cardinality(OfCluster(1))
  BY DEF ClustersAreEven
<1>1. /\ asked[1] \in Nat /\ asked[2] \in Nat /\ ~Refused(asked[1], asked[2])
      /\ offered \o pending = FakeRecord(asked[1], asked[2]) /\ pending = <<>>
      /\ offered \in Seq(Nat)
  BY DEF IInv, TypeOK, FakeInv, HasStream, Bounds
<1>2. offered \o <<>> = offered
  BY <1>1
<1>3. offered = FakeRecord(asked[1], asked[2]) /\ Len(offered) = asked[1]
  BY <1>1, <1>2, FakeType
<1> DEFINE Even(n, k, r) ==
      LET OfCluster(c) == {i \in 1..n : r[i] = c}
      IN  /\ r[n] \in 1..(IF k = 0 THEN 1 ELSE k)
          /\ \A c \in 1..r[n] - 1 : Cardinality(OfCluster(c)) = Cardinality(OfCluster(1))
          /\ Cardinality(OfCluster(r[n])) \in 1..Cardinality(OfCluster(1))
<1>4. Even(asked[1], asked[2], FakeRecord(asked[1], asked[2]))
  BY <1>1, FakeIsEven
<1>5. Even(Len(offered), asked[2], offered)
  <2> HIDE DEF Even
  <2> QED BY <1>3, <1>4
<1> QED BY <1>5

\* The invariant is one.
LEMMA Inductive == Bounds => (Spec => []IInv)
<1> SUFFICES ASSUME Bounds PROVE Spec => []IInv
  OBVIOUS
<1>1. Init => IInv
  BY InitInv
<1>2. IInv /\ [Next]_vars => IInv'
  BY NextInv
<1> QED BY <1>1, <1>2, PTL DEF Spec

\* The states of an export have their types: a turn of zipN begins within every
\* file, framing holds no whole line, and sampling no whole group.
THEOREM ExportTypeCorrect == Bounds => (Spec => []TypeOK)
<1> SUFFICES ASSUME Bounds PROVE Spec => []TypeOK
  OBVIOUS
<1>1. IInv => TypeOK
  BY DEF IInv
<1> QED BY <1>1, Inductive, PTL

\* A run over one month offers the good ones of every rate-th line, wherever the
\* chunks are cut, and of a file left short the good ones of its whole lines
\* (NewYorkDataSource.scala 63-67).
THEOREM AlwaysSamplesTheFile == Bounds => (Spec => []SamplesTheFile)
<1> SUFFICES ASSUME Bounds PROVE Spec => []SamplesTheFile
  OBVIOUS
<1>1. IInv => SamplesTheFile
  BY InvSamples
<1> QED BY <1>1, Inductive, PTL

\* A count printed without a failed send is the number of the records, which are
\* in the topic as soon as nothing is in flight (DemoData.scala 62-69).
THEOREM CountAlwaysTrue == Bounds => (Spec => []CountIsTrue)
<1> SUFFICES ASSUME Bounds PROVE Spec => []CountIsTrue
  OBVIOUS
<1>1. IInv => CountIsTrue
  BY InvCounts
<1> QED BY <1>1, Inductive, PTL

\* The clusters of fake records are even, however many of both are asked for
\* (FakeDataSource.scala 69-72).
THEOREM ClustersAlwaysEven == Bounds => (Spec => []ClustersAreEven)
<1> SUFFICES ASSUME Bounds PROVE Spec => []ClustersAreEven
  OBVIOUS
<1>1. IInv => ClustersAreEven
  BY InvEven
<1> QED BY <1>1, Inductive, PTL
=============================================================================
