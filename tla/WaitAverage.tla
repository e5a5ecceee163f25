----------------------------- MODULE WaitAverage -----------------------------
(***************************************************************************)
(* flink-client: the average duration of the routes on the topic "driver", *)
(* printed anew with every route.  Nothing is checkpointed, so a run       *)
(* begins with new totals where the commits of the Kafka consumer, which   *)
(* know nothing of the fold, have come to.                                 *)
(*                                                                         *)
(* Durations are Floats; here they are counted in tenths of a second.  A   *)
(* record is known by the duration of its route, or is PING, a driver's    *)
(* position without a route.                                               *)
(***************************************************************************)
EXTENDS GroupConsumer, FiniteSets

CONSTANTS
  PING,         \* a record without a route
  MaxInt        \* the largest Int; the smallest is -MaxInt - 1

VARIABLES
  folded,       \* how far the fold has come
  totals,       \* RouteTotals
  printed       \* the last average of this run, or NONE

\* Auxiliary variables, which no action reads.
VARIABLES
  counted,      \* the records that some run has folded
  waited        \* what the routes of this run take together

vars == <<group, folded, totals, printed, counted, waited>>

NoTotals == [num |-> 0, seconds |-> 0]

Init ==
  /\ GroupInit
  /\ folded = Nowhere
  /\ totals = NoTotals
  /\ printed = NONE
  /\ counted = {}
  /\ waited = 0

\* What an Int makes of a number.
Int32(n) == ((n + MaxInt + 1) % (2 * (MaxInt + 1))) - (MaxInt + 1)

\* Mutant: rounded up.
ToIntUp(duration) == (duration + 9) \div 10

\* as[Float].toInt.
ToInt(duration) == IF duration \div 10 > MaxInt THEN MaxInt ELSE duration \div 10

\* The average as Scala divides: towards zero.
Quotient(n, d) == IF n >= 0 THEN n \div d ELSE -((-n) \div d)

\* Mutant: the seconds are those of the last route only.
AddAfresh(t, duration) == [num |-> Int32(t.num + 1), seconds |-> ToInt(duration)]

\* The fold's function.
Add(t, duration) ==
  [num |-> Int32(t.num + 1), seconds |-> Int32(t.seconds + ToInt(duration))]

average(t) == Quotient(t.seconds, t.num)

\* Records that the consumer's thread has handed over, and the fold has not seen.
InHand == IF running THEN Between(folded, position) ELSE {}

Start ==
  /\ Join
  /\ folded' = FirstOffsets
  /\ totals' = NoTotals
  /\ printed' = NONE
  /\ waited' = 0
  /\ UNCHANGED counted

Unchanged == UNCHANGED <<folded, totals, printed, counted, waited>>

Poll ==
  /\ \E t \in Topics : \E n \in position[t] + 1 .. Len(log[t]) :
       ReadTo([position EXCEPT ![t] = n])
  /\ Unchanged

\* Mutant: a record is folded before it has been handed over.
FoldUnread(t) ==
  /\ running /\ folded[t] < Len(log[t])
  /\ LET next == folded[t] + 1
     IN /\ folded' = [folded EXCEPT ![t] = next]
        /\ counted' = counted \cup {<<t, next>>}
        /\ UNCHANGED <<totals, printed, waited>>
  /\ UNCHANGED group

\* A record goes through flatMap, fold and map.
Fold(t) ==
  /\ running /\ folded[t] < position[t]
  /\ LET next == folded[t] + 1
     IN /\ folded' = [folded EXCEPT ![t] = next]
        /\ counted' = counted \cup {<<t, next>>}
        /\ IF log[t][next] = PING
           THEN UNCHANGED <<totals, printed, waited>>
           ELSE /\ totals' = Add(totals, log[t][next])
                /\ printed' = average(totals')
                /\ waited' = waited + log[t][next]
  /\ UNCHANGED group

Stop == StopWith(InHand) /\ Unchanged

Next ==
  \/ \E t \in Topics : \E kind \in Kind : Publish(t, kind) /\ Unchanged
  \/ Start
  \/ Poll
  \/ Commit /\ Unchanged
  \/ \E t \in Topics : Fold(t)
  \/ Stop

Spec == Init /\ [][Next]_vars

\* The consumer's thread and the fold go on as long as the job runs.
Fairness == WF_vars(Poll) /\ \A t \in Topics : WF_vars(Fold(t))

FairSpec == Spec /\ Fairness

-----------------------------------------------------------------------------
\* What the constants have to be.
Bounds ==
  /\ GroupBounds
  /\ IsFiniteSet(Topics)
  /\ Kind \ {PING} \subseteq Nat
  /\ MaxInt \in Nat \ {0}

\* The routes that this run has averaged.
RoutesSeen == {r \in Between(start, folded) : log[r[1]][r[2]] # PING}

\* An Int still holds the number of routes, and their sum.
Fits == Cardinality(RoutesSeen) <= MaxInt /\ waited \div 10 <= MaxInt

\* After an overflow, the average may be a quotient of zero.
TypeOK ==
  /\ GroupTypeOK
  /\ folded \in [Topics -> 0..MaxLog]
  /\ \A t \in Topics : folded[t] <= position[t]
  /\ totals \in [num : Int, seconds : Int]
  /\ Fits => printed \in Int \cup {NONE}
  /\ counted \subseteq Topics \X Offset
  /\ waited \in Nat

\* As long as the sum of the durations fits an Int, the average that is printed
\* is at most the mean of all routes that the run has come past since it began,
\* each taken once, and less than two seconds below it: each duration loses less
\* than a second, and so does the quotient (FlinkClient.scala 31, 34-39).
CloseToMean ==
  printed # NONE /\ Fits =>
    LET tenths == 10 * Cardinality(RoutesSeen)
    IN printed * tenths <= waited /\ waited < (printed + 2) * tenths

\* Every record that the group is past was averaged by some run or is in hand,
\* or was given up when a run stopped before it had averaged what it had
\* committed, or had committed nothing (FlinkClient.scala 13-27: group "flink",
\* no checkpoints).
NoneForgotten == Accounted(counted, InHand)

\* README.md: "Initiate a few pickups and see the average pickup wait time
\* change": a route moves the average of a run towards its own duration, never
\* past it and never away from it, while the sum fits.
MovesTowardsRoute ==
  [][\A t \in Topics :
       running /\ folded'[t] = folded[t] + 1 /\ log[t][folded'[t]] # PING
         /\ printed # NONE /\ Fits' =>
       LET wait == ToInt(log[t][folded'[t]])
       IN \/ printed <= printed' /\ printed' <= wait
          \/ wait <= printed' /\ printed' <= printed]_vars
=============================================================================
