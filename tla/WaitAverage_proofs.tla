-------------------------- MODULE WaitAverage_proofs --------------------------
(***************************************************************************)
(* Proofs about WaitAverage, for any topics, any durations, any number of  *)
(* runs and any width of an Int.                                           *)
(*                                                                         *)
(* NoneForgotten is inductive next to the types and InStep: a start gives  *)
(* up what lies between the group's position and the end, a stop what is   *)
(* in hand behind the commits.  The average needs Averages: the totals     *)
(* count the routes that the run has come past, and each has lost less     *)
(* than a second.  That holds only while the sum fits an Int; as sums only *)
(* grow within a run, what fits after a step has fitted before it.         *)
(***************************************************************************)
EXTENDS TLAPS, WaitAverage, FiniteSetTheorems

\* TypeOK, but for the average, which is a quotient only as long as no Int has
\* overflowed.
Types ==
  /\ GroupTypeOK
  /\ folded \in [Topics -> 0..MaxLog]
  /\ \A t \in Topics : folded[t] <= position[t]
  /\ totals \in [num : Int, seconds : Int]
  /\ counted \subseteq Topics \X Offset
  /\ waited \in Nat

\* The fold is between the beginning of the run and the consumer's position, and
\* so are the commits behind the position.
InStep ==
  /\ \A t \in Topics : start[t] <= folded[t]
  /\ committed # NONE => \A t \in Topics : committed[t] <= position[t]

-----------------------------------------------------------------------------
LEMMA Int32Type == ASSUME Bounds, NEW n \in Int PROVE Int32(n) \in Int
<1>1. n + MaxInt + 1 \in Int /\ 2 * (MaxInt + 1) \in Nat \ {0}
  BY DEF Bounds
<1>2. (n + MaxInt + 1) % (2 * (MaxInt + 1)) \in Int
  BY <1>1
<1> QED BY <1>2 DEF Int32, Bounds

LEMMA Int32Same == ASSUME Bounds, NEW n \in 0..MaxInt PROVE Int32(n) = n
<1> DEFINE m == n + MaxInt + 1
           k == 2 * (MaxInt + 1)
<1>1. m \in 0..k - 1 /\ k \in Nat \ {0}
  BY DEF Bounds
<1>2. ASSUME NEW a \in Int, NEW b \in Int, b > 0, 0 <= a, a < b PROVE a % b = a
  BY <1>2
<1>3. m % k = m
  BY <1>1, <1>2
<1> QED BY <1>3 DEF Int32, Bounds

\* What division is, for numbers that are not negative.
LEMMA Division ==
  ASSUME NEW n \in Nat, NEW d \in Nat \ {0}
  PROVE  /\ n \div d \in Nat
         /\ (n \div d) * d <= n
         /\ n < (n \div d) * d + d
  OBVIOUS

\* A wait brings a quotient nearer to itself, and not past itself.
LEMMA QuotientMoves ==
  ASSUME NEW n \in Nat, NEW d \in Nat \ {0}, NEW w \in Nat
  PROVE  LET q == n \div d
             r == (n + w) \div (d + 1)
         IN (q <= r /\ r <= w) \/ (w <= r /\ r <= q)
<1> DEFINE q == n \div d
           r == (n + w) \div (d + 1)
<1>1. q \in Nat /\ q * d <= n /\ n < q * d + d
  BY Division
<1>2. r \in Nat /\ r * (d + 1) <= n + w /\ n + w < r * (d + 1) + (d + 1)
  <2>1. n + w \in Nat /\ d + 1 \in Nat \ {0}
    OBVIOUS
  <2> QED BY <2>1, Division
<1>3. ASSUME NEW a \in Nat, NEW b \in Nat, a * (d + 1) < b * (d + 1) + (d + 1)
      PROVE  a <= b
  <2>1. a > b => a * (d + 1) >= (b + 1) * (d + 1)
    OBVIOUS
  <2> QED BY <1>3, <2>1
<1>4. CASE q <= w
  <2>1. q * (d + 1) <= n + w
    BY <1>1, <1>4
  <2>2. n + w < w * (d + 1) + (d + 1)
    <3>1. q * d <= w * d
      BY <1>1, <1>4
    <3> QED BY <1>1, <3>1
  <2> HIDE DEF q, r
  <2>3. q <= r
    BY <1>1, <1>2, <1>3, <2>1
  <2>4. r <= w
    BY <1>1, <1>2, <1>3, <2>2
  <2> QED BY <2>3, <2>4 DEF q, r
<1>5. CASE w < q
  <2>1. w * (d + 1) <= n + w
    <3>1. w * d <= q * d
      BY <1>1, <1>5
    <3> QED BY <1>1, <3>1
  <2>2. n + w < q * (d + 1) + (d + 1)
    BY <1>1, <1>5
  <2> HIDE DEF q, r
  <2>3. w <= r
    BY <1>1, <1>2, <1>3, <2>1
  <2>4. r <= q
    BY <1>1, <1>2, <1>3, <2>2
  <2> QED BY <2>3, <2>4 DEF q, r
<1> QED BY <1>1, <1>4, <1>5

-----------------------------------------------------------------------------
(* Fold, position and commits.                                             *)

LEMMA NaturalBounds == Bounds => MaxLog \in Nat /\ MaxRuns \in Nat
  BY DEF Bounds, GroupBounds

LEMMA FirstOffsetsType ==
  ASSUME Bounds, Types, InStep
  PROVE  /\ FirstOffsets \in [Topics -> 0..MaxLog]
         /\ \A t \in Topics : FirstOffsets[t] <= Len(log[t])
  BY DEF Bounds, GroupBounds, Types, GroupTypeOK, InStep, FirstOffsets, End

LEMMA InitInStep == Bounds /\ Init => Types /\ InStep
<1> SUFFICES ASSUME Bounds, Init PROVE Types /\ InStep
  OBVIOUS
<1>1. /\ 0 \in 0..MaxLog /\ 0 \in 0..MaxRuns
      /\ \A t \in Topics : log[t] = <<>> /\ Len(log[t]) = 0
  BY DEF Bounds, GroupBounds, Init, GroupInit
<1>2. GroupTypeOK
  <2>1. log \in [Topics -> Seq(Kind)]
    BY DEF Init, GroupInit
  <2>2. start \in [Topics -> 0..MaxLog] /\ position = start
    BY <1>1 DEF Init, GroupInit, Nowhere
  <2>3. \A t \in Topics : start[t] = 0
    BY DEF Init, GroupInit, Nowhere
  <2>4. running \in BOOLEAN
    BY Zenon DEF Init, GroupInit
  <2>5. \A t \in Topics : /\ Len(log[t]) <= MaxLog
                          /\ start[t] <= position[t] /\ position[t] <= Len(log[t])
    BY <1>1, <2>2, <2>3, NaturalBounds
  <2> QED
    BY <1>1, <2>1, <2>2, <2>4, <2>5 DEF Init, GroupInit, GroupTypeOK
<1>3. totals \in [num : Int, seconds : Int]
  BY DEF Init, NoTotals
<1>4. /\ folded = [t \in Topics |-> 0] /\ position = folded /\ start = folded
      /\ committed = NONE /\ counted = {} /\ waited = 0
  BY DEF Init, GroupInit, Nowhere
<1>5. Types
  BY <1>1, <1>2, <1>3, <1>4 DEF Types
<1>6. InStep
  BY <1>4 DEF InStep
<1> QED
  BY <1>5, <1>6

LEMMA PublishInStep ==
  ASSUME Bounds, Types, InStep, NEW t \in Topics, NEW kind \in Kind,
         Publish(t, kind), Unchanged
  PROVE  Types' /\ InStep'
  BY DEF Bounds, GroupBounds, Types, GroupTypeOK, InStep, Publish, Unchanged, Offset

LEMMA StartInStep ==
  ASSUME Bounds, Types, InStep, Start
  PROVE  Types' /\ InStep'
<1>1. FirstOffsets \in [Topics -> 0..MaxLog] /\ \A t \in Topics : FirstOffsets[t] <= Len(log[t])
  BY FirstOffsetsType
<1>2. committed # NONE => FirstOffsets = committed
  BY DEF FirstOffsets
<1>3. abandoned' \subseteq Topics \X Offset
  BY DEF Types, GroupTypeOK, Start, Join, Between
<1>4. runs' \in 0..MaxRuns
  BY DEF Bounds, GroupBounds, Types, GroupTypeOK, Start, Join
<1>5. totals' \in [num : Int, seconds : Int]
  BY DEF Start, NoTotals
<1>6. GroupTypeOK'
  BY <1>1, <1>3, <1>4 DEF Types, GroupTypeOK, Start, Join
<1>7. /\ folded' = FirstOffsets /\ position' = FirstOffsets /\ start' = FirstOffsets
      /\ committed' = committed /\ counted' = counted /\ waited' = 0
  BY DEF Start, Join
<1>8. Types'
  BY <1>1, <1>5, <1>6, <1>7 DEF Types
<1>9. InStep'
  BY <1>1, <1>2, <1>7 DEF InStep
<1> QED
  BY <1>8, <1>9

LEMMA PollInStep ==
  ASSUME Bounds, Types, InStep, Poll
  PROVE  Types' /\ InStep'
<1>0. PICK t \in Topics :
        \E n \in position[t] + 1 .. Len(log[t]) : ReadTo([position EXCEPT ![t] = n])
  BY DEF Poll
<1>1. PICK n \in position[t] + 1 .. Len(log[t]) : ReadTo([position EXCEPT ![t] = n])
  BY <1>0
<1>2. n \in 0..MaxLog /\ n <= Len(log[t]) /\ position[t] <= n
  BY <1>1 DEF Bounds, GroupBounds, Types, GroupTypeOK
<1>3. /\ position' \in [Topics -> 0..MaxLog]
      /\ \A u \in Topics : position[u] <= position'[u] /\ position'[u] <= Len(log[u])
  BY <1>1, <1>2 DEF Types, GroupTypeOK, ReadTo
<1>4. UNCHANGED <<log, runs, running, start, committed, abandoned, folded, totals, counted, waited>>
  BY <1>1 DEF ReadTo, Poll, Unchanged
<1>5. ASSUME NEW u \in Topics
      PROVE  start[u] <= position'[u] /\ folded[u] <= position'[u] /\ position'[u] <= Len(log[u])
  <2>1. /\ start[u] \in Int /\ folded[u] \in Int /\ position[u] \in Int /\ position'[u] \in Int
        /\ start[u] <= position[u] /\ folded[u] <= position[u] /\ position[u] <= position'[u]
    BY <1>3, NaturalBounds DEF Types, GroupTypeOK
  <2> QED BY <1>3, <2>1
<1>6. Types'
  BY <1>3, <1>4, <1>5 DEF Types, GroupTypeOK
<1>7. InStep'
  <2>1. ASSUME committed # NONE, NEW u \in Topics PROVE committed[u] <= position'[u]
    <3>1. committed[u] \in Int /\ position[u] \in Int /\ position'[u] \in Int
      BY <1>3, <2>1, NaturalBounds DEF Types, GroupTypeOK
    <3>2. committed[u] <= position[u] /\ position[u] <= position'[u]
      BY <1>3, <2>1 DEF InStep
    <3> QED BY <3>1, <3>2
  <2> QED BY <1>4, <2>1 DEF InStep
<1> QED
  BY <1>6, <1>7

LEMMA CommitInStep ==
  ASSUME Bounds, Types, InStep, Commit, Unchanged
  PROVE  Types' /\ InStep'
  BY DEF Bounds, GroupBounds, Types, GroupTypeOK, InStep, Commit, Unchanged

LEMMA FoldInStep ==
  ASSUME Bounds, Types, InStep, NEW t \in Topics, Fold(t)
  PROVE  Types' /\ InStep'
<1> DEFINE next == folded[t] + 1
<1>1. /\ next \in Offset /\ next <= position[t] /\ next \in 1..Len(log[t])
      /\ log[t][next] \in Kind
  BY DEF Bounds, GroupBounds, Types, GroupTypeOK, Fold, Offset
<1>2. /\ totals' \in [num : Int, seconds : Int]
      /\ waited' \in Nat
  <2>1. CASE log[t][next] = PING
    BY <2>1 DEF Types, Fold
  <2>2. CASE log[t][next] # PING
    <3>1. log[t][next] \in Nat
      BY <1>1, <2>2 DEF Bounds
    <3>2. ToInt(log[t][next]) \in Int
      BY <3>1 DEF ToInt, Bounds
    <3>3. totals' \in [num : Int, seconds : Int]
      BY <2>2, <3>2, Int32Type DEF Types, Fold, Add
    <3> QED BY <2>2, <3>1, <3>3 DEF Types, Fold
  <2> QED BY <2>1, <2>2
<1>3. /\ folded' = [folded EXCEPT ![t] = next]
      /\ counted' = counted \cup {<<t, next>>}
      /\ UNCHANGED group
  BY DEF Fold
<1> HIDE DEF next
<1>4. folded' \in [Topics -> 0..MaxLog] /\ \A u \in Topics : folded'[u] <= position[u]
  BY <1>1, <1>3 DEF Types, Offset
<1>5. \A u \in Topics : start[u] <= folded'[u]
  BY <1>3 DEF next, Types, GroupTypeOK, InStep
<1>6. GroupTypeOK'
  BY <1>3 DEF Types, GroupTypeOK, group
<1>7. counted' \subseteq Topics \X Offset
  BY <1>1, <1>3 DEF Types
<1> QED BY <1>2, <1>3, <1>4, <1>5, <1>6, <1>7 DEF Types, InStep, group

LEMMA StopInStep ==
  ASSUME Bounds, Types, InStep, Stop
  PROVE  Types' /\ InStep'
<1>1. InHand \subseteq Topics \X Offset
  BY DEF InHand, Between
<1> QED
  BY <1>1 DEF Types, GroupTypeOK, InStep, Stop, StopWith, Unchanged

-----------------------------------------------------------------------------
(* No record is forgotten.                                                 *)

LEMMA StepForgetsNone ==
  ASSUME Bounds, Types, InStep, NoneForgotten, [Next]_vars
  PROVE  NoneForgotten'
<1> DEFINE past == IF running \/ committed = NONE THEN position ELSE committed
<1>0. Between(Nowhere, past) \subseteq counted \cup InHand \cup abandoned
  BY DEF NoneForgotten, Accounted
<1> USE DEF NoneForgotten, Accounted
<1>1. ASSUME NEW t \in Topics, NEW kind \in Kind, Publish(t, kind), Unchanged
      PROVE  NoneForgotten'
  BY <1>0, <1>1 DEF Publish, Unchanged, InHand, Between
<1>2. ASSUME Start PROVE NoneForgotten'
  <2>1. CASE committed = NONE
    <3>1. Between(Nowhere, position') \subseteq Between(Nowhere, position) \cup Between(position, End)
      <4>1. position' = End
        BY <1>2, <2>1 DEF Start, Join, FirstOffsets
      <4> QED BY <4>1 DEF Types, GroupTypeOK, Between, Nowhere, End, Offset
    <3>2. InHand = {} /\ past = position
      BY <1>2, <2>1 DEF Start, Join, InHand
    <3>3. abandoned' = abandoned \cup Between(position, End) /\ counted' = counted /\ running'
      BY <1>2, <2>1 DEF Start, Join
    <3> HIDE DEF past
    <3> QED BY <1>0, <3>1, <3>2, <3>3
  <2>2. CASE committed # NONE
    BY <1>0, <1>2, <2>2 DEF Start, Join, FirstOffsets, InHand
  <2> QED BY <2>1, <2>2
<1>3. ASSUME Poll PROVE NoneForgotten'
  <2>1. /\ running /\ running' /\ UNCHANGED <<counted, abandoned, folded>>
        /\ \A t \in Topics : position[t] <= position'[t]
    BY <1>3 DEF Types, GroupTypeOK, Poll, ReadTo, Unchanged
  <2>0. position' \in [Topics -> 0..MaxLog]
    BY <1>3, PollInStep DEF Types, GroupTypeOK
  <2>2. Between(Nowhere, position') \subseteq Between(Nowhere, position) \cup Between(folded, position')
    BY DEF Types, GroupTypeOK, Between, Nowhere, Offset
  <2>3. InHand \subseteq InHand' /\ InHand' = Between(folded, position')
    BY <2>0, <2>1 DEF Types, GroupTypeOK, InHand, Between, Offset
  <2> QED BY <1>0, <2>1, <2>2, <2>3
<1>4. ASSUME Commit, Unchanged PROVE NoneForgotten'
  BY <1>0, <1>4 DEF Commit, Unchanged, InHand
<1>5. ASSUME NEW t \in Topics, Fold(t) PROVE NoneForgotten'
  <2> DEFINE next == folded[t] + 1
  <2>1. /\ counted' = counted \cup {<<t, next>>}
        /\ folded' = [folded EXCEPT ![t] = next]
        /\ UNCHANGED group
    BY <1>5 DEF Fold
  <2>2. InHand \subseteq InHand' \cup {<<t, next>>}
    BY <2>1 DEF group, Types, InHand, Between, Offset
  <2> QED BY <1>0, <2>1, <2>2 DEF group
<1>6. ASSUME Stop PROVE NoneForgotten'
  <2>1. /\ running /\ ~running' /\ UNCHANGED <<position, committed, counted>>
        /\ abandoned' = abandoned \cup {r \in InHand : Behind(r)}
    BY <1>6 DEF Stop, StopWith, Unchanged
  <2>2. Between(Nowhere, past') \subseteq Between(Nowhere, position)
    BY <2>1 DEF Types, GroupTypeOK, InStep, Between, Nowhere, Offset
  <2>3. \A r \in Between(Nowhere, past') : Behind(r)
    BY <2>1 DEF Between, Behind
  <2> QED BY <1>0, <2>1, <2>2, <2>3
<1>7. CASE UNCHANGED vars
  BY <1>0, <1>7 DEF vars, group, InHand
<1> QED BY <1>1, <1>2, <1>3, <1>4, <1>5, <1>6, <1>7 DEF Next

-----------------------------------------------------------------------------
(* Sums and averages.                                                      *)

\* As long as they fit, the totals count the routes that the run has come past;
\* each has lost less than a second; the average is the last one's.
Averages ==
  Fits =>
    /\ totals.num = Cardinality(RoutesSeen)
    /\ totals.seconds \in Nat
    /\ 10 * totals.seconds <= waited
    /\ waited <= 10 * totals.seconds + 9 * totals.num
    /\ printed # NONE => totals.num > 0 /\ printed = totals.seconds \div totals.num

LEMMA RoutesFinite ==
  ASSUME Bounds
  PROVE  IsFiniteSet(RoutesSeen) /\ Cardinality(RoutesSeen) \in Nat
<1>1. IsFiniteSet(Topics) /\ IsFiniteSet(Offset)
  BY FS_Interval DEF Bounds, GroupBounds, Offset
<1>2. IsFiniteSet(Topics \X Offset)
  BY <1>1, FS_Product
<1>3. RoutesSeen \in SUBSET (Topics \X Offset)
  BY DEF RoutesSeen, Between
<1>4. IsFiniteSet(RoutesSeen)
  BY <1>2, <1>3, FS_Subset
<1> QED BY <1>4, FS_CardinalityType

LEMMA InitAverages == Bounds /\ Init => Averages
<1> SUFFICES ASSUME Bounds, Init PROVE Averages
  OBVIOUS
<1>1. RoutesSeen = {}
  BY DEF Init, GroupInit, Nowhere, RoutesSeen, Between, Offset
<1> QED BY <1>1, FS_EmptySet DEF Init, NoTotals, Averages

\* Nothing but a start and a fold touches what has been averaged.
LEMMA OthersKeepAverages ==
  ASSUME Bounds, Types, Averages, Unchanged, UNCHANGED start,
         \A t \in Topics : \A n \in 1..Len(log[t]) : log'[t][n] = log[t][n]
  PROVE  Averages'
<1>1. RoutesSeen' = RoutesSeen
  <2>1. Between(start, folded)' = Between(start, folded)
    BY DEF Unchanged, Between
  <2>2. ASSUME NEW r \in Between(start, folded) PROVE log'[r[1]][r[2]] = log[r[1]][r[2]]
    <3>1. r[1] \in Topics /\ r[2] \in Offset /\ r[2] <= folded[r[1]]
      BY DEF Between
    <3>2. /\ r[2] \in Nat \ {0} /\ folded[r[1]] \in Int /\ position[r[1]] \in Int
          /\ Len(log[r[1]]) \in Int
          /\ folded[r[1]] <= position[r[1]] /\ position[r[1]] <= Len(log[r[1]])
      BY <3>1, NaturalBounds DEF Types, GroupTypeOK, Offset
    <3>3. r[2] \in 1..Len(log[r[1]])
      BY <3>1, <3>2
    <3> QED BY <3>1, <3>3
  <2> QED BY <2>1, <2>2 DEF RoutesSeen
<1> QED BY <1>1 DEF Averages, Fits, Unchanged

LEMMA StartAverages ==
  ASSUME Bounds, Types, InStep, Start
  PROVE  Averages'
<1>1. RoutesSeen' = {}
  <2>1. start' = folded'
    BY DEF Start, Join
  <2>2. \A t \in Topics : folded'[t] \in Int
    BY StartInStep, NaturalBounds DEF Types
  <2>3. \A t \in Topics : \A n \in Offset : ~(start'[t] < n /\ n <= folded'[t])
    BY <2>1, <2>2, NaturalBounds DEF Offset
  <2> QED BY <2>3 DEF RoutesSeen, Between
<1>2. totals' = [num |-> 0, seconds |-> 0] /\ printed' = NONE /\ waited' = 0
  BY DEF Start, NoTotals
<1> QED BY <1>1, <1>2, FS_EmptySet DEF Averages

\* What a fold adds to the routes that have been averaged.
LEMMA FoldAdds ==
  ASSUME Bounds, Types, InStep, NEW t \in Topics, Fold(t)
  PROVE  LET next == folded[t] + 1 IN
         /\ log[t][next] \in Kind
         /\ <<t, next>> \notin RoutesSeen
         /\ RoutesSeen' = IF log[t][next] = PING THEN RoutesSeen
                                                 ELSE RoutesSeen \cup {<<t, next>>}
<1> DEFINE next == folded[t] + 1
<1>1. /\ next \in Offset /\ next <= position[t] /\ next \in 1..Len(log[t])
      /\ log[t][next] \in Kind
  BY DEF Bounds, GroupBounds, Types, GroupTypeOK, Fold, Offset
<1>2. folded' = [folded EXCEPT ![t] = next] /\ UNCHANGED <<log, start>>
  BY DEF Fold, group
<1>3. /\ folded[t] \in Int /\ start[t] \in Int /\ start[t] <= folded[t]
      /\ \A n \in Offset : n \in Int
  BY NaturalBounds DEF Types, GroupTypeOK, InStep, Offset
<1>4. Between(start, folded)' = Between(start, folded) \cup {<<t, next>>}
  <2>1. ASSUME NEW u \in Topics, NEW n \in Offset
        PROVE  start[u] < n /\ n <= folded'[u]
                 <=> (start[u] < n /\ n <= folded[u]) \/ (u = t /\ n = next)
    <3>1. CASE u = t
      BY <1>2, <1>3, <3>1 DEF Types
    <3>2. CASE u # t
      BY <1>2, <3>2 DEF Types
    <3> QED BY <3>1, <3>2
  <2>2. \A r \in Topics \X Offset : r = <<r[1], r[2]>> /\ r[1] \in Topics /\ r[2] \in Offset
    OBVIOUS
  <2> HIDE DEF next
  <2>3. \A r \in Topics \X Offset :
          start[r[1]] < r[2] /\ r[2] <= folded'[r[1]]
            <=> (start[r[1]] < r[2] /\ r[2] <= folded[r[1]]) \/ r = <<t, next>>
    BY <2>1, <2>2
  <2>4. <<t, next>> \in Topics \X Offset
    BY <1>1
  <2> QED BY <1>2, <2>3, <2>4 DEF Between
<1>5. <<t, next>> \notin Between(start, folded)
  BY <1>3 DEF Between
<1> HIDE DEF next
<1>6. RoutesSeen' = {r \in Between(start, folded) \cup {<<t, next>>} : log[r[1]][r[2]] # PING}
  BY <1>2, <1>4 DEF RoutesSeen
<1>7. log[<<t, next>>[1]][<<t, next>>[2]] = log[t][next]
  OBVIOUS
<1>8. RoutesSeen' = IF log[t][next] = PING THEN RoutesSeen ELSE RoutesSeen \cup {<<t, next>>}
  BY <1>6, <1>7, Zenon DEF RoutesSeen
<1>9. <<t, next>> \notin RoutesSeen
  BY <1>5 DEF RoutesSeen
<1> QED BY <1>1, <1>8, <1>9 DEF next

\* A fold of a route, as long as the sum fits afterwards: nothing overflows.
LEMMA FoldSums ==
  ASSUME Bounds, Types, InStep, Averages, NEW t \in Topics, Fold(t),
         log[t][folded[t] + 1] # PING, Fits'
  PROVE  LET wait == log[t][folded[t] + 1] IN
         /\ wait \in Nat /\ ToInt(wait) = wait \div 10
         /\ Fits
         /\ totals.num \in Nat /\ totals.seconds \in Nat
         /\ totals'.num = totals.num + 1
         /\ totals'.seconds = totals.seconds + ToInt(wait)
         /\ totals'.num = Cardinality(RoutesSeen')
         /\ printed' = totals'.seconds \div totals'.num
         /\ waited' = waited + wait
<1> DEFINE next == folded[t] + 1
           wait == log[t][next]
           num == Cardinality(RoutesSeen)
<1>1. wait \in Nat
  BY FoldAdds DEF Bounds
<1>2. num \in Nat /\ Cardinality(RoutesSeen') = num + 1
  <2>1. IsFiniteSet(RoutesSeen) /\ num \in Nat
    BY RoutesFinite
  <2>2. RoutesSeen' = RoutesSeen \cup {<<t, next>>} /\ <<t, next>> \notin RoutesSeen
    BY FoldAdds
  <2> QED BY <2>1, <2>2, FS_AddElement
<1>3. /\ totals' = Add(totals, wait)
      /\ printed' = average(totals')
      /\ waited' = waited + wait
  BY DEF Fold
<1>4. /\ MaxInt \in Nat /\ waited \in Nat
      /\ num + 1 <= MaxInt /\ (waited + wait) \div 10 <= MaxInt
  BY <1>2, <1>3 DEF Fits, Bounds, Types
<1> HIDE DEF wait
<1>5. Fits
  <2>1. waited \div 10 <= (waited + wait) \div 10
    BY <1>1, <1>4
  <2>2. waited \div 10 \in Int /\ (waited + wait) \div 10 \in Int
    BY <1>1, <1>4
  <2>3. waited \div 10 <= MaxInt /\ num <= MaxInt
    BY <1>2, <1>4, <2>1, <2>2
  <2> QED BY <2>3 DEF Fits
<1>6. totals.num = num /\ totals.seconds \in Nat /\ 10 * totals.seconds <= waited
  BY <1>5 DEF Averages
<1>7. ToInt(wait) = wait \div 10 /\ wait \div 10 \in Nat
  BY <1>1, <1>4 DEF ToInt
<1>8. totals.seconds + ToInt(wait) \in 0..MaxInt
  BY <1>1, <1>4, <1>6, <1>7
<1>9. totals' = [num |-> num + 1, seconds |-> totals.seconds + ToInt(wait)]
  <2>1. num + 1 \in 0..MaxInt
    BY <1>2, <1>4
  <2> QED BY <1>3, <1>6, <1>8, <2>1, Int32Same DEF Add
<1>10. totals'.num = num + 1 /\ totals'.seconds = totals.seconds + ToInt(wait)
  BY <1>9
<1>11. printed' = totals'.seconds \div totals'.num
  BY <1>3, <1>8, <1>10 DEF average, Quotient
<1> HIDE DEF num
<1> QED
  BY <1>1, <1>2, <1>3, <1>5, <1>6, <1>7, <1>10, <1>11 DEF num, wait

LEMMA FoldAverages ==
  ASSUME Bounds, Types, InStep, Averages, NEW t \in Topics, Fold(t)
  PROVE  Averages'
<1>1. CASE log[t][folded[t] + 1] = PING
  <2>1. RoutesSeen' = RoutesSeen /\ UNCHANGED <<totals, printed, waited>>
    BY <1>1, FoldAdds DEF Fold
  <2> QED BY <2>1 DEF Averages, Fits
<1>2. CASE log[t][folded[t] + 1] # PING
  <2> SUFFICES ASSUME Fits'
               PROVE  /\ totals'.num = Cardinality(RoutesSeen')
                      /\ totals'.seconds \in Nat
                      /\ 10 * totals'.seconds <= waited'
                      /\ waited' <= 10 * totals'.seconds + 9 * totals'.num
                      /\ totals'.num > 0 /\ printed' = totals'.seconds \div totals'.num
    BY DEF Averages
  <2> DEFINE wait == log[t][folded[t] + 1]
  <2>1. /\ wait \in Nat /\ ToInt(wait) = wait \div 10
        /\ Fits
        /\ totals.num \in Nat /\ totals.seconds \in Nat
        /\ totals'.num = totals.num + 1
        /\ totals'.seconds = totals.seconds + ToInt(wait)
        /\ totals'.num = Cardinality(RoutesSeen')
        /\ printed' = totals'.seconds \div totals'.num
        /\ waited' = waited + wait
    BY <1>2, FoldSums
  <2>2. /\ waited \in Nat
        /\ 10 * totals.seconds <= waited /\ waited <= 10 * totals.seconds + 9 * totals.num
    BY <2>1 DEF Averages, Types
  <2> HIDE DEF wait
  <2>3. wait \div 10 \in Nat /\ 10 * (wait \div 10) <= wait /\ wait <= 10 * (wait \div 10) + 9
    BY <2>1
  <2> QED BY <2>1, <2>2, <2>3
<1> QED BY <1>1, <1>2

-----------------------------------------------------------------------------
IInv == Types /\ InStep /\ NoneForgotten /\ Averages

LEMMA InitHolds == Bounds /\ Init => IInv
<1> SUFFICES ASSUME Bounds, Init PROVE IInv
  OBVIOUS
<1>1. NoneForgotten
  <2>1. position = Nowhere /\ committed = NONE
    BY DEF Init, GroupInit
  <2>2. \A t \in Topics : Nowhere[t] = 0
    BY DEF Nowhere
  <2>3. \A n \in Offset : ~(0 < n /\ n <= 0)
    BY DEF Offset
  <2>4. Between(Nowhere, Nowhere) = {}
    BY <2>2, <2>3 DEF Between
  <2> QED BY <2>1, <2>4 DEF NoneForgotten, Accounted
<1> QED BY <1>1, InitInStep, InitAverages DEF IInv

LEMMA StepHolds ==
  ASSUME Bounds, IInv, [Next]_vars
  PROVE  IInv'
<1> USE DEF IInv
<1>1. ASSUME NEW t \in Topics, NEW kind \in Kind, Publish(t, kind), Unchanged
      PROVE  Types' /\ InStep' /\ Averages'
  <2>1. Types' /\ InStep'
    BY <1>1, PublishInStep
  <2>2. UNCHANGED start
    BY <1>1 DEF Publish
  <2>3. \A u \in Topics : \A n \in 1..Len(log[u]) : log'[u][n] = log[u][n]
    BY <1>1 DEF Publish, Types, GroupTypeOK
  <2> QED BY <1>1, <2>1, <2>2, <2>3, OthersKeepAverages
<1>2. ASSUME Start PROVE Types' /\ InStep' /\ Averages'
  BY <1>2, StartInStep, StartAverages
<1>3. ASSUME Poll PROVE Types' /\ InStep' /\ Averages'
  <2>1. Unchanged /\ UNCHANGED <<start, log>>
    BY <1>3 DEF Poll, ReadTo
  <2> QED BY <1>3, <2>1, PollInStep, OthersKeepAverages
<1>4. ASSUME Commit, Unchanged PROVE Types' /\ InStep' /\ Averages'
  <2>1. UNCHANGED <<start, log>>
    BY <1>4 DEF Commit
  <2> QED BY <1>4, <2>1, CommitInStep, OthersKeepAverages
<1>5. ASSUME NEW t \in Topics, Fold(t) PROVE Types' /\ InStep' /\ Averages'
  BY <1>5, FoldInStep, FoldAverages
<1>6. ASSUME Stop PROVE Types' /\ InStep' /\ Averages'
  <2>1. Unchanged /\ UNCHANGED <<start, log>>
    BY <1>6 DEF Stop, StopWith
  <2> QED BY <1>6, <2>1, StopInStep, OthersKeepAverages
<1>7. ASSUME UNCHANGED vars PROVE Types' /\ InStep' /\ Averages'
  <2>1. Unchanged /\ UNCHANGED <<start, log>>
    BY <1>7 DEF vars, group, Unchanged
  <2>2. Types' /\ InStep'
    BY <1>7 DEF vars, group, Types, GroupTypeOK, InStep
  <2>3. Averages'
    <3>1. \A t \in Topics : \A n \in 1..Len(log[t]) : log'[t][n] = log[t][n]
      BY <2>1
    <3>2. Types /\ Averages
      OBVIOUS
    <3> HIDE DEF IInv
    <3> QED BY <2>1, <3>1, <3>2, OthersKeepAverages
  <2> QED BY <2>2, <2>3
<1>8. NoneForgotten'
  BY StepForgetsNone
<1> QED BY <1>1, <1>2, <1>3, <1>4, <1>5, <1>6, <1>7, <1>8 DEF Next

LEMMA Invariance == Bounds => (Spec => []IInv)
<1> SUFFICES ASSUME Bounds PROVE Spec => []IInv
  OBVIOUS
<1>1. Init => IInv
  BY InitHolds
<1>2. IInv /\ [Next]_vars => IInv'
  BY StepHolds
<1> QED BY <1>1, <1>2, PTL DEF Spec

\* Offsets stay where they can be, and so does the average while the sum fits.
THEOREM TypeCorrect == Bounds => (Spec => []TypeOK)
<1> SUFFICES ASSUME Bounds PROVE Spec => []TypeOK
  OBVIOUS
<1>1. IInv => TypeOK
  <2> SUFFICES ASSUME IInv PROVE TypeOK
    OBVIOUS
  <2>1. Fits /\ printed # NONE => printed \in Int
    BY RoutesFinite DEF IInv, Averages
  <2> QED BY <2>1 DEF IInv, Types, TypeOK
<1> QED BY Invariance, <1>1, PTL

\* Whatever is published, and however often the job is stopped and started, every
\* record that the group is past has been averaged, is in hand, or has been given
\* up by a stop behind the commit (FlinkClient.scala 13-27).
THEOREM NoneEverForgotten == Bounds => (Spec => []NoneForgotten)
<1> SUFFICES ASSUME Bounds PROVE Spec => []NoneForgotten
  OBVIOUS
<1>1. IInv => NoneForgotten
  BY DEF IInv
<1> QED BY Invariance, <1>1, PTL

\* For any width of an Int, any number of routes and any durations, an average is
\* less than two seconds below the mean, and never above it, while the sum fits
\* (FlinkClient.scala 31-39).
THEOREM AlwaysCloseToMean == Bounds => (Spec => []CloseToMean)
<1> SUFFICES ASSUME Bounds PROVE Spec => []CloseToMean
  OBVIOUS
<1>1. IInv => CloseToMean
  <2> SUFFICES ASSUME IInv, printed # NONE, Fits
               PROVE  LET tenths == 10 * Cardinality(RoutesSeen)
                      IN printed * tenths <= waited /\ waited < (printed + 2) * tenths
    BY DEF CloseToMean
  <2> DEFINE num == Cardinality(RoutesSeen)
             sum == totals.seconds
  <2>1. /\ num \in Nat \ {0} /\ sum \in Nat /\ waited \in Nat
        /\ 10 * sum <= waited /\ waited <= 10 * sum + 9 * num
        /\ printed = sum \div num
    BY RoutesFinite DEF IInv, Averages, Types
  <2> HIDE DEF num, sum
  <2>2. printed \in Nat /\ printed * num <= sum /\ sum < printed * num + num
    BY <2>1, Division
  <2>3. printed * (10 * num) <= waited /\ waited < (printed + 2) * (10 * num)
    BY <2>1, <2>2
  <2> QED BY <2>3 DEF num
<1> QED BY Invariance, <1>1, PTL

\* A pickup moves the average towards its own wait, and never past it, whatever
\* came before and as long as the sum fits (README.md: "see the average pickup
\* wait time change").
THEOREM AlwaysTowardsRoute == Bounds => (Spec => MovesTowardsRoute)
<1> SUFFICES ASSUME Bounds PROVE Spec => MovesTowardsRoute
  OBVIOUS
<1> DEFINE Moves ==
      \A t \in Topics :
        running /\ folded'[t] = folded[t] + 1 /\ log[t][folded'[t]] # PING
          /\ printed # NONE /\ Fits' =>
        LET wait == ToInt(log[t][folded'[t]])
        IN \/ printed <= printed' /\ printed' <= wait
           \/ wait <= printed' /\ printed' <= printed
<1>1. IInv /\ [Next]_vars => [Moves]_vars
  <2> SUFFICES ASSUME IInv, Next, NEW t \in Topics,
                      running, folded'[t] = folded[t] + 1, log[t][folded'[t]] # PING,
                      printed # NONE, Fits'
               PROVE  LET wait == ToInt(log[t][folded'[t]])
                      IN \/ printed <= printed' /\ printed' <= wait
                         \/ wait <= printed' /\ printed' <= printed
    OBVIOUS
  <2>1. folded[t] \in Int /\ folded'[t] # folded[t]
    BY NaturalBounds DEF IInv, Types
  <2>2. Fold(t)
    <3>1. ~Unchanged
      BY <2>1 DEF Unchanged
    <3>2. ~Start /\ ~Stop /\ ~Poll
      BY <3>1 DEF Start, Join, Stop, Poll
    <3>3. PICK u \in Topics : Fold(u)
      BY <3>1, <3>2 DEF Next
    <3>4. u # t => folded'[t] = folded[t]
      BY <3>3 DEF Fold, IInv, Types
    <3> QED BY <2>1, <3>3, <3>4
  <2> DEFINE wait == log[t][folded[t] + 1]
  <2>3. /\ wait \in Nat /\ ToInt(wait) = wait \div 10
        /\ Fits
        /\ totals.num \in Nat /\ totals.seconds \in Nat
        /\ totals'.num = totals.num + 1
        /\ totals'.seconds = totals.seconds + ToInt(wait)
        /\ printed' = totals'.seconds \div totals'.num
    BY <2>2, FoldSums DEF IInv
  <2>4. totals.num > 0 /\ printed = totals.seconds \div totals.num
    BY <2>3 DEF IInv, Averages
  <2> HIDE DEF wait
  <2>5. ToInt(wait) \in Nat
    BY <2>3
  <2>6. \/ printed <= printed' /\ printed' <= ToInt(wait)
        \/ ToInt(wait) <= printed' /\ printed' <= printed
    <3> DEFINE n == totals.seconds
               d == totals.num
               w == ToInt(wait)
    <3>1. n \in Nat /\ d \in Nat \ {0} /\ w \in Nat
      BY <2>3, <2>4, <2>5
    <3>2. printed = n \div d /\ printed' = (n + w) \div (d + 1)
      BY <2>3, <2>4
    <3> HIDE DEF n, d, w
    <3>3. \/ printed <= printed' /\ printed' <= w
          \/ w <= printed' /\ printed' <= printed
      BY <3>1, <3>2, QuotientMoves
    <3> QED BY <3>3 DEF w
  <2> QED BY <2>6 DEF wait
<1> QED BY Invariance, <1>1, PTL DEF Spec, MovesTowardsRoute
=============================================================================
