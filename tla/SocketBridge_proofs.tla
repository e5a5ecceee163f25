------------------------ MODULE SocketBridge_proofs ------------------------
(***************************************************************************)
(* Proof that the sockets, producers, topics and consumers of the web      *)
(* application do what RideFeed says, for any number of pages, whatever    *)
(* these send, whichever connections are lost and whatever the size of the *)
(* buffers.                                                                *)
(***************************************************************************)
EXTENDS SocketBridge, SequenceTheorems, TLAPS

-----------------------------------------------------------------------------
(* Buffers one after the other.                                            *)

\* A queue is its head and its tail.
LEMMA HeadThenTail ==
  ASSUME NEW S, NEW s \in Seq(S), s # <<>>
  PROVE  /\ Head(s) \in S /\ <<Head(s)>> \in Seq(S) /\ Tail(s) \in Seq(S)
         /\ <<Head(s)>> \o Tail(s) = s
<1> DEFINE h == <<Head(s)>>  r == Tail(s)
<1>1. /\ Head(s) \in S /\ h \in Seq(S) /\ r \in Seq(S) /\ Len(h) = 1 /\ h[1] = s[1]
      /\ Len(r) = Len(s) - 1 /\ \A i \in 1..Len(r) : r[i] = s[i + 1]
      /\ Len(s) \in Nat
  BY HeadTailProperties
<1> HIDE DEF h, r
<1>2. /\ h \o r \in Seq(S) /\ Len(h \o r) = Len(s)
      /\ \A i \in 1..Len(s) : (h \o r)[i] = IF i <= 1 THEN h[i] ELSE r[i - 1]
  <2>1. h \in Seq(S) /\ r \in Seq(S)
    BY <1>1
  <2>2. /\ h \o r \in Seq(S) /\ Len(h \o r) = Len(h) + Len(r)
        /\ \A i \in 1..Len(h) + Len(r) :
             (h \o r)[i] = IF i <= Len(h) THEN h[i] ELSE r[i - Len(h)]
    BY <2>1, ConcatProperties
  <2>3. Len(h) + Len(r) = Len(s) /\ Len(h) = 1
    BY <1>1
  <2> QED BY <2>2, <2>3
<1>3. ASSUME NEW i \in 1..Len(s) PROVE (h \o r)[i] = s[i]
  <2>1. CASE i = 1
    BY <1>1, <1>2, <2>1
  <2>2. CASE i # 1
    <3>1. i - 1 \in 1..Len(r) /\ ~(i <= 1) /\ (i - 1) + 1 = i
      BY <1>1, <2>2
    <3>2. (h \o r)[i] = r[i - 1]
      BY <1>2, <3>1
    <3>3. r[i - 1] = s[(i - 1) + 1]
      BY <1>1, <3>1
    <3> QED BY <3>1, <3>2, <3>3
  <2> QED BY <2>1, <2>2
<1>4. h \o r = s
  BY <1>2, <1>3, SeqEqual
<1> QED BY <1>1, <1>4 DEF h, r

\* What moves from one buffer to the next stays where it is in the whole.
LEMMA MoveOn ==
  ASSUME NEW S, NEW s \in Seq(S), NEW t \in Seq(S), t # <<>>
  PROVE  Append(s, Head(t)) \o Tail(t) = s \o t
<1>1. /\ Head(t) \in S /\ <<Head(t)>> \in Seq(S) /\ Tail(t) \in Seq(S)
      /\ <<Head(t)>> \o Tail(t) = t
  BY HeadThenTail
<1>2. Append(s, Head(t)) = s \o <<Head(t)>>
  BY <1>1, AppendIsConcat
<1>3. (s \o <<Head(t)>>) \o Tail(t) = s \o (<<Head(t)>> \o Tail(t))
  BY <1>1, ConcatAssociative
<1> QED BY <1>1, <1>2, <1>3

\* What leaves the first buffer leaves the whole.
LEMMA LeaveFirst ==
  ASSUME NEW S, NEW s \in Seq(S), NEW t \in Seq(S), s # <<>>
  PROVE  /\ s \o t # <<>> /\ Head(s \o t) = Head(s)
         /\ Tail(s) \o t = Tail(s \o t)
<1>1. /\ s \o t \in Seq(S) /\ Len(s \o t) = Len(s) + Len(t)
      /\ Len(s) \in Nat /\ Len(t) \in Nat /\ Len(s) > 0
      /\ \A i \in 1..Len(s) + Len(t) :
           (s \o t)[i] = IF i <= Len(s) THEN s[i] ELSE t[i - Len(s)]
  BY ConcatProperties, EmptySeq
<1>2. s \o t # <<>>
  BY <1>1, EmptySeq
<1>8. Head(s \o t) = Head(s)
  <2>1. (s \o t)[1] = s[1]
    BY <1>1
  <2> QED BY <1>1, <1>2, <2>1
<1> DEFINE w == s \o t  x == Tail(w)  r == Tail(s)
<1>3. /\ x \in Seq(S) /\ Len(x) = Len(s) + Len(t) - 1
      /\ \A i \in 1..Len(x) : x[i] = w[i + 1]
  BY <1>1, <1>2, HeadTailProperties
<1>4. /\ r \in Seq(S) /\ Len(r) = Len(s) - 1
      /\ \A i \in 1..Len(r) : r[i] = s[i + 1]
  BY HeadTailProperties
<1> HIDE DEF w, x, r
<1>5. /\ r \o t \in Seq(S) /\ Len(r \o t) = Len(x)
      /\ \A i \in 1..Len(x) :
           (r \o t)[i] = IF i <= Len(r) THEN r[i] ELSE t[i - Len(r)]
  <2>1. Len(r) + Len(t) = Len(x)
    BY <1>1, <1>3, <1>4
  <2> QED BY <1>4, <2>1, ConcatProperties
<1>6. ASSUME NEW i \in 1..Len(x) PROVE (r \o t)[i] = x[i]
  <2>1. /\ x[i] = w[i + 1] /\ i + 1 \in 1..Len(s) + Len(t)
    BY <1>1, <1>3
  <2>2. w[i + 1] = IF i + 1 <= Len(s) THEN s[i + 1] ELSE t[(i + 1) - Len(s)]
    BY <1>1, <2>1 DEF w
  <2>3. CASE i <= Len(r)
    <3>1. i \in 1..Len(r) /\ i + 1 <= Len(s)
      BY <1>1, <1>4, <2>3
    <3> QED BY <1>4, <1>5, <2>1, <2>2, <2>3, <3>1
  <2>4. CASE ~(i <= Len(r))
    <3>1. ~(i + 1 <= Len(s)) /\ (i + 1) - Len(s) = i - Len(r)
      BY <1>1, <1>4, <2>4
    <3> QED BY <1>5, <2>1, <2>2, <2>4, <3>1
  <2> QED BY <2>3, <2>4
<1>7. r \o t = x
  BY <1>3, <1>5, <1>6, SeqEqual
<1> QED BY <1>2, <1>7, <1>8 DEF w, x, r

\* What joins the last buffer joins the whole.
LEMMA JoinLast ==
  ASSUME NEW S, NEW s \in Seq(S), NEW t \in Seq(S), NEW e \in S
  PROVE  s \o Append(t, e) = Append(s \o t, e)
<1>1. <<e>> \in Seq(S)
  OBVIOUS
<1>2. s \o t \in Seq(S)
  BY ConcatProperties
<1>3. Append(t, e) = t \o <<e>> /\ Append(s \o t, e) = (s \o t) \o <<e>>
  BY <1>2, AppendIsConcat
<1>4. (s \o t) \o <<e>> = s \o (t \o <<e>>)
  BY <1>1, ConcatAssociative
<1> QED BY <1>3, <1>4

\* The first buffer is the beginning of the whole.
LEMMA FirstPart ==
  ASSUME NEW S, NEW s \in Seq(S), NEW t \in Seq(S)
  PROVE  Len(s) \in 0..Len(s \o t) /\ SubSeq(s \o t, 1, Len(s)) = s
<1> DEFINE w == s \o t  x == SubSeq(w, 1, Len(s))
<1>1. /\ w \in Seq(S) /\ Len(w) = Len(s) + Len(t)
      /\ Len(s) \in Nat /\ Len(t) \in Nat
      /\ \A i \in 1..Len(s) + Len(t) :
           w[i] = IF i <= Len(s) THEN s[i] ELSE t[i - Len(s)]
  BY ConcatProperties
<1> HIDE DEF w
<1>2. \A i \in 1..Len(s) : w[i] = s[i] /\ s[i] \in S
  BY <1>1
<1>3. /\ x \in Seq(S) /\ Len(x) = Len(s)
      /\ \A i \in 1..Len(s) : x[i] = w[i]
  <2>1. \A i \in 1..Len(s) : w[i] \in S
    BY <1>2
  <2>2. /\ x \in Seq(S) /\ Len(x) = IF 1 <= Len(s) THEN Len(s) - 1 + 1 ELSE 0
        /\ \A i \in 1..(Len(s) - 1 + 1) : x[i] = w[1 + i - 1]
    BY <1>1, <2>1, SubSeqProperties
  <2> HIDE DEF x
  <2> QED BY <1>1, <2>2
<1> HIDE DEF x
<1>4. x = s
  BY <1>2, <1>3, SeqEqual
<1> QED BY <1>1, <1>4 DEF w, x

-----------------------------------------------------------------------------
(* What is left of a topic after a position.                               *)

\* The records of s after the first n, by index.
LEMMA RestOf ==
  ASSUME NEW S, NEW s \in Seq(S), NEW n \in 0..Len(s)
  PROVE  LET rest == SubSeq(s, n + 1, Len(s)) IN
         /\ rest \in Seq(S) /\ Len(rest) = Len(s) - n
         /\ \A i \in 1..Len(rest) : rest[i] = s[n + i]
<1> DEFINE rest == SubSeq(s, n + 1, Len(s))
<1>1. Len(s) \in Nat /\ n \in Int /\ n + 1 \in Int /\ n <= Len(s) /\ n >= 0
  OBVIOUS
<1>2. \A i \in (n + 1)..Len(s) : s[i] \in S
  BY <1>1
<1>3. /\ rest \in Seq(S)
      /\ Len(rest) = IF n + 1 <= Len(s) THEN Len(s) - (n + 1) + 1 ELSE 0
      /\ \A i \in 1..(Len(s) - (n + 1) + 1) : rest[i] = s[(n + 1) + i - 1]
  BY <1>1, <1>2, SubSeqProperties
<1> HIDE DEF rest
<1>4. Len(rest) = Len(s) - n
  BY <1>1, <1>3
<1>5. ASSUME NEW i \in 1..Len(rest) PROVE rest[i] = s[n + i]
  <2>1. i \in 1..(Len(s) - (n + 1) + 1) /\ (n + 1) + i - 1 = n + i
    BY <1>1, <1>4
  <2> QED BY <1>3, <2>1
<1>6. /\ rest \in Seq(S) /\ Len(rest) = Len(s) - n
      /\ \A i \in 1..Len(rest) : rest[i] = s[n + i]
  BY <1>3, <1>4, <1>5
<1> QED BY <1>6 DEF rest

\* The same for the first k of them.
LEMMA FirstOfRest ==
  ASSUME NEW S, NEW s \in Seq(S), NEW k \in 0..Len(s)
  PROVE  LET first == SubSeq(s, 1, k) IN
         /\ first \in Seq(S) /\ Len(first) = k
         /\ \A i \in 1..k : first[i] = s[i]
<1> DEFINE first == SubSeq(s, 1, k)
<1>1. Len(s) \in Nat /\ k \in Int /\ k <= Len(s) /\ k >= 0
  OBVIOUS
<1>2. \A i \in 1..k : s[i] \in S
  BY <1>1
<1>3. /\ first \in Seq(S) /\ Len(first) = IF 1 <= k THEN k - 1 + 1 ELSE 0
      /\ \A i \in 1..(k - 1 + 1) : first[i] = s[1 + i - 1]
  BY <1>1, <1>2, SubSeqProperties
<1> HIDE DEF first
<1>4. Len(first) = k
  BY <1>1, <1>3
<1>5. ASSUME NEW i \in 1..k PROVE first[i] = s[i]
  <2>1. i \in 1..(k - 1 + 1) /\ 1 + i - 1 = i
    BY <1>1
  <2> QED BY <1>3, <2>1
<1>6. first \in Seq(S) /\ Len(first) = k /\ \A i \in 1..k : first[i] = s[i]
  BY <1>3, <1>4, <1>5
<1> QED BY <1>6 DEF first

\* A topic that grows has one more record to poll.
LEMMA RestGrows ==
  ASSUME NEW S, NEW s \in Seq(S), NEW n \in 0..Len(s), NEW e \in S
  PROVE  SubSeq(Append(s, e), n + 1, Len(Append(s, e)))
           = Append(SubSeq(s, n + 1, Len(s)), e)
<1> DEFINE s1 == Append(s, e)
           rest == SubSeq(s, n + 1, Len(s))
           rest1 == SubSeq(s1, n + 1, Len(s1))
           x == Append(rest, e)
<1>1. /\ s1 \in Seq(S) /\ Len(s1) = Len(s) + 1 /\ Len(s) \in Nat /\ n \in Nat /\ n <= Len(s)
      /\ \A i \in 1..Len(s) : s1[i] = s[i]
      /\ s1[Len(s) + 1] = e
  BY AppendProperties
<1>2. /\ rest \in Seq(S) /\ Len(rest) = Len(s) - n
      /\ \A i \in 1..Len(rest) : rest[i] = s[n + i]
  BY RestOf
<1> HIDE DEF s1, rest
<1>3. /\ x \in Seq(S) /\ Len(x) = Len(rest) + 1
      /\ \A i \in 1..Len(rest) : x[i] = rest[i]
      /\ x[Len(rest) + 1] = e
  <2>1. rest \in Seq(S)
    BY <1>2
  <2> QED BY <2>1, AppendProperties
<1> HIDE DEF x
<1>4. n \in 0..Len(s1)
  BY <1>1
<1>5. /\ rest1 \in Seq(S) /\ Len(rest1) = Len(s1) - n
      /\ \A i \in 1..Len(rest1) : rest1[i] = s1[n + i]
  BY <1>1, <1>4, RestOf
<1> HIDE DEF rest1
<1>6. Len(rest1) = Len(x)
  BY <1>1, <1>2, <1>3, <1>5
<1>7. ASSUME NEW i \in 1..Len(rest1) PROVE rest1[i] = x[i]
  <2>1. CASE i = Len(rest) + 1
    <3>1. n + i = Len(s) + 1
      BY <1>1, <1>2, <2>1
    <3> QED BY <1>1, <1>3, <1>5, <2>1, <3>1
  <2>2. CASE i # Len(rest) + 1
    <3>1. i \in 1..Len(rest) /\ n + i \in 1..Len(s)
      BY <1>1, <1>2, <1>3, <1>6, <2>2
    <3> QED BY <1>1, <1>2, <1>3, <1>5, <3>1
  <2> QED BY <2>1, <2>2
<1>8. rest1 = x
  BY <1>3, <1>5, <1>6, <1>7, SeqEqual
<1> QED BY <1>8 DEF s1, rest, x, rest1

\* A poll takes the first k of what is left, and leaves what is after them.
LEMMA PollSplits ==
  ASSUME NEW S, NEW s \in Seq(S), NEW n \in 0..Len(s), NEW k \in Nat, k <= Len(s) - n
  PROVE  LET rest == SubSeq(s, n + 1, Len(s)) IN
         SubSeq(rest, 1, k) \o SubSeq(s, (n + k) + 1, Len(s)) = rest
<1> DEFINE rest == SubSeq(s, n + 1, Len(s))
           first == SubSeq(rest, 1, k)
           last == SubSeq(s, (n + k) + 1, Len(s))
           w == first \o last
<1>1. Len(s) \in Nat /\ n \in Nat /\ n <= Len(s)
  OBVIOUS
<1>2. /\ rest \in Seq(S) /\ Len(rest) = Len(s) - n
      /\ \A i \in 1..Len(rest) : rest[i] = s[n + i]
  BY RestOf
<1> HIDE DEF rest
<1>3. n + k \in 0..Len(s) /\ k \in 0..Len(rest)
  BY <1>1, <1>2
<1>4. first \in Seq(S) /\ Len(first) = k /\ \A i \in 1..k : first[i] = rest[i]
  BY <1>2, <1>3, FirstOfRest
<1>5. /\ last \in Seq(S) /\ Len(last) = Len(s) - (n + k)
      /\ \A i \in 1..Len(last) : last[i] = s[(n + k) + i]
  BY <1>3, RestOf
<1> HIDE DEF first, last
<1>6. /\ w \in Seq(S) /\ Len(w) = Len(first) + Len(last)
      /\ \A i \in 1..Len(first) + Len(last) :
           w[i] = IF i <= Len(first) THEN first[i] ELSE last[i - Len(first)]
  <2>1. first \in Seq(S) /\ last \in Seq(S)
    BY <1>4, <1>5
  <2> QED BY <2>1, ConcatProperties
<1> HIDE DEF w
<1>7. Len(w) = Len(rest)
  BY <1>1, <1>2, <1>4, <1>5, <1>6
<1>8. ASSUME NEW i \in 1..Len(w) PROVE w[i] = rest[i]
  <2>1. CASE i <= k
    <3>1. i \in 1..k
      BY <2>1
    <3> QED BY <1>4, <1>6, <2>1, <3>1
  <2>2. CASE ~(i <= k)
    <3>1. i - k \in 1..Len(last) /\ (n + k) + (i - k) = n + i
      BY <1>1, <1>4, <1>5, <1>6, <2>2
    <3>2. w[i] = last[i - k]
      BY <1>4, <1>6, <2>2
    <3> QED BY <1>2, <1>5, <1>7, <3>1, <3>2
  <2> QED BY <2>1, <2>2
<1>9. w = rest
  BY <1>2, <1>6, <1>7, <1>8, SeqEqual
<1> QED BY <1>9 DEF rest, first, last, w

-----------------------------------------------------------------------------
(* A stretch of a topic.                                                   *)

\* h is the stretch of the topic l that ends with its n-th record; index by
\* index what NoGaps says, the form the provers work with.
Stretch(h, l, n) ==
  /\ Len(h) <= n /\ n <= Len(l)
  /\ \A i \in 1..Len(h) : h[i] = l[n - Len(h) + i]

\* Nothing is a stretch that ends anywhere.
LEMMA StretchEmpty ==
  ASSUME NEW S, NEW l \in Seq(S), NEW n \in 0..Len(l)
  PROVE  Stretch(<<>>, l, n)
BY DEF Stretch

\* The first record of a stretch is handled.
LEMMA StretchTail ==
  ASSUME NEW S, NEW h \in Seq(S), NEW l \in Seq(S), NEW n \in Nat,
         Stretch(h, l, n), h # <<>>
  PROVE  Stretch(Tail(h), l, n)
<1> DEFINE r == Tail(h)
<1>1. /\ Len(h) \in Nat /\ Len(l) \in Nat /\ Len(h) <= n /\ n <= Len(l)
      /\ \A i \in 1..Len(h) : h[i] = l[n - Len(h) + i]
  BY DEF Stretch
<1>2. /\ Len(r) = Len(h) - 1 /\ Len(h) > 0
      /\ \A i \in 1..Len(r) : r[i] = h[i + 1]
  BY HeadTailProperties, EmptySeq
<1> HIDE DEF r
<1>3. ASSUME NEW i \in 1..Len(r) PROVE r[i] = l[n - Len(r) + i]
  <2>1. i + 1 \in 1..Len(h) /\ n - Len(h) + (i + 1) = n - Len(r) + i
    BY <1>1, <1>2
  <2>2. h[i + 1] = l[n - Len(h) + (i + 1)]
    BY <1>1, <2>1
  <2> QED BY <1>2, <2>1, <2>2
<1>4. Stretch(r, l, n)
  BY <1>1, <1>2, <1>3 DEF Stretch
<1> QED BY <1>4 DEF r

\* The topic grows.
LEMMA StretchGrows ==
  ASSUME NEW S, NEW h \in Seq(S), NEW l \in Seq(S), NEW n \in Nat, NEW e \in S,
         Stretch(h, l, n)
  PROVE  Stretch(h, Append(l, e), n)
<1> DEFINE l1 == Append(l, e)
<1>1. /\ Len(h) \in Nat /\ Len(l) \in Nat /\ Len(h) <= n /\ n <= Len(l)
      /\ \A i \in 1..Len(h) : h[i] = l[n - Len(h) + i]
  BY DEF Stretch
<1>2. Len(l1) = Len(l) + 1 /\ \A i \in 1..Len(l) : l1[i] = l[i]
  BY AppendProperties
<1> HIDE DEF l1
<1>3. \A i \in 1..Len(h) : n - Len(h) + i \in 1..Len(l)
  BY <1>1
<1>4. n <= Len(l1)
  BY <1>1, <1>2
<1>5. ASSUME NEW i \in 1..Len(h) PROVE h[i] = l1[n - Len(h) + i]
  <2> DEFINE k == n - Len(h) + i
  <2>1. k \in 1..Len(l)
    BY <1>3
  <2>2. h[i] = l[k]
    BY <1>1
  <2> HIDE DEF k
  <2>3. h[i] = l1[k]
    BY <1>2, <2>1, <2>2
  <2> QED BY <2>3 DEF k
<1>6. Stretch(h, l1, n)
  BY <1>1, <1>4, <1>5, Zenon DEF Stretch
<1> QED BY <1>6 DEF l1

\* The next k records are polled.
LEMMA StretchPolls ==
  ASSUME NEW S, NEW h \in Seq(S), NEW l \in Seq(S), NEW n \in Nat,
         NEW k \in Nat, k <= Len(l) - n, Stretch(h, l, n)
  PROVE  Stretch(h \o SubSeq(SubSeq(l, n + 1, Len(l)), 1, k), l, n + k)
<1> DEFINE rest == SubSeq(l, n + 1, Len(l))
           first == SubSeq(rest, 1, k)
           w == h \o first
<1>1. /\ Len(h) \in Nat /\ Len(l) \in Nat /\ Len(h) <= n /\ n <= Len(l)
      /\ \A i \in 1..Len(h) : h[i] = l[n - Len(h) + i]
  BY DEF Stretch
<1>2. /\ rest \in Seq(S) /\ Len(rest) = Len(l) - n
      /\ \A i \in 1..Len(rest) : rest[i] = l[n + i]
  <2>1. n \in 0..Len(l)
    BY <1>1
  <2> QED BY <2>1, RestOf
<1> HIDE DEF rest
<1>3. k \in 0..Len(rest)
  BY <1>1, <1>2
<1>4. first \in Seq(S) /\ Len(first) = k /\ \A i \in 1..k : first[i] = rest[i]
  BY <1>2, <1>3, FirstOfRest
<1> HIDE DEF first
<1>5. /\ Len(w) = Len(h) + Len(first)
      /\ \A i \in 1..Len(h) + Len(first) :
           w[i] = IF i <= Len(h) THEN h[i] ELSE first[i - Len(h)]
  <2>1. first \in Seq(S)
    BY <1>4
  <2> QED BY <2>1, ConcatProperties
<1> HIDE DEF w
<1>6. Len(w) = Len(h) + k
  BY <1>4, <1>5
<1>7. ASSUME NEW i \in 1..Len(w) PROVE w[i] = l[(n + k) - Len(w) + i]
  <2>1. (n + k) - Len(w) + i = n - Len(h) + i
    BY <1>1, <1>6
  <2>2. CASE i <= Len(h)
    <3>1. i \in 1..Len(h)
      BY <1>1, <2>2
    <3> QED BY <1>1, <1>4, <1>5, <1>6, <2>1, <2>2, <3>1
  <2>3. CASE ~(i <= Len(h))
    <3>1. i - Len(h) \in 1..k /\ n + (i - Len(h)) = n - Len(h) + i
      BY <1>1, <1>6, <2>3
    <3>2. w[i] = first[i - Len(h)]
      BY <1>4, <1>5, <1>6, <2>3
    <3>3. i - Len(h) \in 1..Len(rest)
      BY <1>3, <3>1, <1>2, <1>1
    <3>4. first[i - Len(h)] = rest[i - Len(h)] /\ rest[i - Len(h)] = l[n + (i - Len(h))]
      BY <1>2, <1>4, <3>1, <3>3
    <3> QED BY <2>1, <3>1, <3>2, <3>4
  <2> QED BY <2>2, <2>3
<1>8. n + k <= Len(l) /\ Len(w) <= n + k
  BY <1>1, <1>6
<1>9. Stretch(w, l, n + k)
  BY <1>7, <1>8 DEF Stretch
<1> QED BY <1>9 DEF rest, first, w

\* What is held and what is left are together no longer than the topic.
LEMMA StretchFits ==
  ASSUME NEW S, NEW h \in Seq(S), NEW l \in Seq(S), NEW n \in Nat, Stretch(h, l, n)
  PROVE  Len(h \o SubSeq(l, n + 1, Len(l))) <= Len(l)
<1> DEFINE rest == SubSeq(l, n + 1, Len(l))
<1>1. Len(h) \in Nat /\ Len(l) \in Nat /\ Len(h) <= n /\ n <= Len(l)
  BY DEF Stretch
<1>2. rest \in Seq(S) /\ Len(rest) = Len(l) - n
  <2>1. n \in 0..Len(l)
    BY <1>1
  <2> QED BY <2>1, RestOf
<1> HIDE DEF rest
<1>3. Len(h \o rest) = Len(h) + Len(rest)
  <2>1. rest \in Seq(S)
    BY <1>2
  <2> QED BY <2>1, ConcatProperties
<1>4. Len(h \o rest) <= Len(l)
  BY <1>1, <1>2, <1>3
<1> QED BY <1>4 DEF rest

\* The past of a topic ends with every stretch that ends where it does.
LEMMA StretchEndsWith ==
  ASSUME NEW S, NEW h \in Seq(S), NEW l \in Seq(S), NEW n \in Nat, Stretch(h, l, n)
  PROVE  Feed!EndsWith(SubSeq(l, 1, n), h)
<1> DEFINE past == SubSeq(l, 1, n)
<1>1. /\ Len(h) \in Nat /\ Len(l) \in Nat /\ Len(h) <= n /\ n <= Len(l)
      /\ \A i \in 1..Len(h) : h[i] = l[n - Len(h) + i]
  BY DEF Stretch
<1>2. past \in Seq(S) /\ Len(past) = n /\ \A i \in 1..n : past[i] = l[i]
  <2>1. n \in 0..Len(l)
    BY <1>1
  <2> QED BY <2>1, FirstOfRest
<1> HIDE DEF past
<1> DEFINE k == n - Len(h)
           end == SubSeq(past, k + 1, Len(past))
<1>3. k \in 0..Len(past) /\ k \in Nat
  BY <1>1, <1>2
<1>4. /\ end \in Seq(S) /\ Len(end) = Len(past) - k
      /\ \A i \in 1..Len(end) : end[i] = past[k + i]
  <2>1. past \in Seq(S)
    BY <1>2
  <2> HIDE DEF k
  <2> QED BY <1>3, <2>1, RestOf
<1>5. Len(end) = Len(h)
  BY <1>1, <1>2, <1>4
<1>6. ASSUME NEW i \in 1..Len(h) PROVE end[i] = h[i]
  <2>1. k + i \in 1..n /\ i \in 1..Len(end)
    BY <1>1, <1>5
  <2> HIDE DEF end
  <2>2. end[i] = past[k + i] /\ past[k + i] = l[k + i]
    BY <1>2, <1>4, <2>1
  <2> QED BY <1>1, <2>2
<1> HIDE DEF end
<1>7. end = h
  BY <1>4, <1>5, <1>6, SeqEqual
<1>8. SubSeq(past, Len(past) - Len(h) + 1, Len(past)) = h
  BY <1>2, <1>7 DEF end
<1>9. Feed!EndsWith(past, h)
  BY <1>1, <1>2, <1>8 DEF Feed!EndsWith
<1> QED BY <1>9 DEF past

-----------------------------------------------------------------------------
(* The inductive invariant.                                                *)

\* What is on its way from p, and what is on its way to p.
Behind(p) == inflight[p] \o upstream[p]
Ahead(p) == downstream[p] \o fetched[p] \o Unread(p)

\* Without a position nothing has been polled, and before the first position
\* nothing has reached the socket.
NothingBefore ==
  \A p \in Page : ~Assigned(p) =>
    /\ fetched[p] = <<>>
    /\ conn[p] \in {"connecting", "open"} => downstream[p] = <<>>

\* The window of the producer.
WithinWindow == \A p \in Page : Len(inflight[p]) <= MaxInflight

\* NoGaps, index by index.
Stretches ==
  \A p \in Page : Assigned(p) =>
    Stretch(downstream[p] \o fetched[p], log[SourceTopic(p)], position[p])

BInv == TypeOK /\ NothingBefore /\ WithinWindow /\ Stretches

\* The types of what belongs to one page.
LEMMA PageTypes ==
  ASSUME TypeOK, NEW p \in Page
  PROVE  /\ upstream[p] \in Seq(Record) /\ inflight[p] \in Seq(Record)
         /\ fetched[p] \in Seq(Record) /\ downstream[p] \in Seq(Record)
         /\ downstream[p] \o fetched[p] \in Seq(Record)
         /\ SourceTopic(p) \in Topic /\ SinkTopic(p) \in Topic
         /\ log[SourceTopic(p)] \in Seq(Record) /\ log[SinkTopic(p)] \in Seq(Record)
         /\ Assigned(p) => position[p] \in Nat
<1>1. SourceTopic(p) \in Topic /\ SinkTopic(p) \in Topic
  BY DEF SourceTopic, SinkTopic, Topic
<1>2. downstream[p] \in Seq(Record) /\ fetched[p] \in Seq(Record)
  BY DEF TypeOK
<1>3. downstream[p] \o fetched[p] \in Seq(Record)
  BY <1>2, ConcatProperties
<1> QED BY <1>1, <1>2, <1>3 DEF TypeOK, Assigned

\* What is unread is a sequence of records.
LEMMA UnreadType ==
  ASSUME BInv, NEW p \in Page
  PROVE  /\ Unread(p) \in Seq(Record)
         /\ Assigned(p) => /\ position[p] \in 0..Len(log[SourceTopic(p)])
                           /\ Len(Unread(p)) = Len(log[SourceTopic(p)]) - position[p]
<1> DEFINE l == log[SourceTopic(p)]
<1>1. CASE Assigned(p)
  <2>1. l \in Seq(Record) /\ position[p] \in Nat /\ Len(l) \in Nat
    BY <1>1, PageTypes, LenProperties DEF BInv
  <2>2. position[p] <= Len(l)
    BY <1>1 DEF BInv, Stretches, Stretch
  <2>3. position[p] \in 0..Len(l)
    BY <2>1, <2>2
  <2> HIDE DEF l
  <2>4. /\ SubSeq(l, position[p] + 1, Len(l)) \in Seq(Record)
        /\ Len(SubSeq(l, position[p] + 1, Len(l))) = Len(l) - position[p]
    BY <2>1, <2>3, RestOf
  <2> QED BY <1>1, <2>3, <2>4 DEF Unread, l
<1>2. CASE ~Assigned(p)
  BY <1>2, EmptySeq DEF Unread
<1> QED BY <1>1, <1>2

\* The topics are different, and read by the other side.
LEMMA Sides ==
  ASSUME NEW p \in Page, NEW q \in Page
  PROVE  q \in Feed!Audience(p) <=> SourceTopic(q) = SinkTopic(p)
BY PagesAssumption DEF Feed!Audience, SourceTopic, SinkTopic, Page

LEMMA InitInv == Init => BInv
<1> SUFFICES ASSUME Init PROVE BInv
  OBVIOUS
<1>1. \A p \in Page : ~Assigned(p)
  BY DEF Init, Assigned
<1>2. TypeOK
  BY EmptySeq DEF Init, TypeOK, Topic
<1>3. WithinWindow
  BY EmptySeq, BoundsAssumption DEF Init, WithinWindow
<1>4. NothingBefore /\ Stretches
  BY <1>1 DEF Init, NothingBefore, Stretches
<1> QED BY <1>2, <1>3, <1>4 DEF BInv

-----------------------------------------------------------------------------
(* What each step does to the invariant, and to what RideFeed sees.        *)

joined == [p \in Page |-> Assigned(p)]
outbox == [p \in Page |-> Behind(p)]
inbox == [p \in Page |-> Ahead(p)]

\* Buffers in a row may be grouped in either way.
LEMMA Regroup ==
  \A u, v, w \in Seq(Record) : (u \o v) \o w = u \o (v \o w)
<1>1. \A S : \A u, v, w \in Seq(S) : (u \o v) \o w = u \o (v \o w)
  BY ConcatAssociative
<1> QED BY <1>1

\* What is ahead of q is the same if its buffers and its topic are.
LEMMA SameReader ==
  ASSUME NEW q \in Page, log' = log, position'[q] = position[q],
         fetched'[q] = fetched[q], downstream'[q] = downstream[q]
  PROVE  Ahead(q)' = Ahead(q) /\ (Assigned(q)' <=> Assigned(q))
<1>1. Unread(q)' = Unread(q)
  BY Zenon DEF Unread, Assigned
<1>2. Ahead(q)' = Ahead(q)
  BY <1>1, Zenon DEF Ahead
<1> QED BY <1>2 DEF Assigned

\* Steps that leave the consumers alone.
LEMMA SameConsumers ==
  ASSUME UNCHANGED <<log, position, fetched, downstream>>
  PROVE  joined' = joined /\ inbox' = inbox
BY DEF joined, inbox, Ahead, Unread, Assigned

\* Steps that leave the producers alone.
LEMMA SameProducers ==
  ASSUME UNCHANGED <<upstream, inflight>>
  PROVE  outbox' = outbox
BY DEF outbox, Behind

\* The steps one by one.
LEMMA AcceptStep ==
  ASSUME BInv, NEW p \in Page, Accept(p)
  PROVE  BInv' /\ Feed!Accept(p)
<1>1. /\ conn[p] = "connecting" /\ conn' = [conn EXCEPT ![p] = "open"]
      /\ UNCHANGED <<upstream, inflight, log, position, fetched, downstream>>
  BY DEF Accept, serverSide
<1>2. BInv'
  BY <1>1 DEF BInv, TypeOK, NothingBefore, WithinWindow, Stretches, Assigned
<1>3. joined' = joined /\ inbox' = inbox /\ outbox' = outbox
  BY <1>1, SameConsumers, SameProducers
<1>4. Feed!Accept(p)
  BY <1>1, <1>3 DEF Feed!Accept, joined, inbox, outbox, Ahead, Behind
<1> QED BY <1>2, <1>4

LEMMA ClientSendStep ==
  ASSUME BInv, NEW p \in Page, NEW rec \in Record, ClientSend(p, rec)
  PROVE  BInv' /\ Feed!Send(p, rec)
<1>1. /\ conn[p] # "connecting"
      /\ UNCHANGED <<conn, inflight, log, position, fetched, downstream>>
  BY DEF ClientSend, serverSide
<1>2. /\ upstream[p] \in Seq(Record) /\ inflight[p] \in Seq(Record)
      /\ upstream \in [Page -> Seq(Record)]
  BY PageTypes DEF BInv, TypeOK
<1>3. joined' = joined /\ inbox' = inbox
  BY <1>1, SameConsumers
<1>4. CASE conn[p] = "open"
  <2>1. /\ Len(upstream[p]) < MaxUpstream
        /\ upstream' = [upstream EXCEPT ![p] = Append(upstream[p], rec)]
    BY <1>4 DEF ClientSend
  <2>2. Append(upstream[p], rec) \in Seq(Record)
    BY <1>2, AppendProperties
  <2>3. BInv'
    BY <1>1, <1>2, <2>1, <2>2
    DEF BInv, TypeOK, NothingBefore, WithinWindow, Stretches, Assigned
  <2>4. Len(Behind(p)) < MaxUpstream + MaxInflight
    <3>1. Len(Behind(p)) = Len(inflight[p]) + Len(upstream[p])
      BY <1>2, ConcatProperties DEF Behind
    <3>2. Len(inflight[p]) \in Nat /\ Len(upstream[p]) \in Nat
      BY <1>2, LenProperties
    <3>3. Len(inflight[p]) <= MaxInflight
      BY DEF BInv, WithinWindow
    <3>4. Len(upstream[p]) < MaxUpstream
      BY <2>1
    <3>5. MaxUpstream \in Nat /\ MaxInflight \in Nat
      BY BoundsAssumption
    <3> DEFINE i == Len(inflight[p])  u == Len(upstream[p])
    <3> HIDE DEF i, u
    <3>6. i \in Nat /\ u \in Nat /\ i <= MaxInflight /\ u < MaxUpstream
      BY <3>2, <3>3, <3>4 DEF i, u
    <3>7. i + u < MaxUpstream + MaxInflight
      BY <3>5, <3>6
    <3> QED BY <3>1, <3>7 DEF i, u
  <2>5. inflight[p] \o Append(upstream[p], rec) = Append(Behind(p), rec)
    <3>1. upstream[p] \in Seq(Record) /\ inflight[p] \in Seq(Record)
      BY <1>2
    <3>2. \A s, t \in Seq(Record) : s \o Append(t, rec) = Append(s \o t, rec)
      BY JoinLast
    <3> QED BY <3>1, <3>2, Zenon DEF Behind
  <2>6. outbox' = [outbox EXCEPT ![p] = Append(Behind(p), rec)]
    BY <1>1, <1>2, <2>1, <2>5 DEF outbox, Behind
  <2>7. outbox[p] = Behind(p)
    BY DEF outbox
  <2>8. Feed!Send(p, rec)
    BY <1>1, <1>3, <1>4, <2>4, <2>6, <2>7
    DEF Feed!Send, joined, inbox, outbox, Ahead, Behind
  <2> QED BY <2>3, <2>8
<1>5. CASE conn[p] # "open"
  <2>1. upstream' = upstream
    BY <1>5 DEF ClientSend
  <2>2. BInv'
    BY <1>1, <2>1 DEF BInv, TypeOK, NothingBefore, WithinWindow, Stretches, Assigned
  <2>3. outbox' = outbox
    BY <1>1, <2>1, SameProducers
  <2>4. Feed!Send(p, rec)
    BY <1>1, <1>3, <1>5, <2>3
    DEF Feed!Send, joined, inbox, outbox, Ahead, Behind
  <2> QED BY <2>2, <2>4
<1> QED BY <1>4, <1>5

\* A step that RideFeed does not see.
Unseen == conn' = conn /\ joined' = joined /\ inbox' = inbox /\ outbox' = outbox

LEMMA SinkTakesStep ==
  ASSUME BInv, NEW p \in Page, SinkTakes(p)
  PROVE  BInv' /\ Unseen
<1>1. /\ upstream[p] # <<>> /\ Len(inflight[p]) < MaxInflight
      /\ inflight' = [inflight EXCEPT ![p] = Append(inflight[p], Head(upstream[p]))]
      /\ upstream' = [upstream EXCEPT ![p] = Tail(upstream[p])]
      /\ UNCHANGED <<conn, log, position, fetched, downstream>>
  BY DEF SinkTakes
<1>2. /\ upstream[p] \in Seq(Record) /\ inflight[p] \in Seq(Record)
      /\ upstream \in [Page -> Seq(Record)] /\ inflight \in [Page -> Seq(Record)]
  BY PageTypes DEF BInv, TypeOK
<1>3. Head(upstream[p]) \in Record /\ Tail(upstream[p]) \in Seq(Record)
  BY <1>1, <1>2, HeadThenTail
<1>4. /\ Append(inflight[p], Head(upstream[p])) \in Seq(Record)
      /\ Len(Append(inflight[p], Head(upstream[p]))) = Len(inflight[p]) + 1
  BY <1>2, <1>3, AppendProperties
<1>5. Len(inflight[p]) + 1 <= MaxInflight
  BY <1>1, <1>2, LenProperties, BoundsAssumption
<1>6. TypeOK'
  BY <1>1, <1>2, <1>3, <1>4 DEF BInv, TypeOK
<1>7. WithinWindow'
  BY <1>1, <1>2, <1>4, <1>5 DEF BInv, WithinWindow
<1>8. NothingBefore' /\ Stretches'
  BY <1>1 DEF BInv, NothingBefore, Stretches, Assigned
<1>9. Append(inflight[p], Head(upstream[p])) \o Tail(upstream[p]) = Behind(p)
  BY <1>1, <1>2, MoveOn DEF Behind
<1>10. outbox' = outbox
  BY <1>1, <1>2, <1>9 DEF outbox, Behind
<1> QED BY <1>1, <1>6, <1>7, <1>8, <1>10, SameConsumers DEF BInv, Unseen

LEMMA DiscardStep ==
  ASSUME BInv, NEW p \in Page, Discard(p)
  PROVE  BInv' /\ Feed!Lose(p)
<1>1. /\ conn[p] \in {"broken", "closed"}
      /\ UNCHANGED <<conn, log, position, fetched, downstream>>
  BY DEF Discard
<1>2. /\ upstream[p] \in Seq(Record) /\ inflight[p] \in Seq(Record)
      /\ upstream \in [Page -> Seq(Record)] /\ inflight \in [Page -> Seq(Record)]
  BY PageTypes DEF BInv, TypeOK
<1>3. joined' = joined /\ inbox' = inbox
  BY <1>1, SameConsumers
<1>4. outbox[p] = Behind(p)
  BY DEF outbox
<1>5. NothingBefore' /\ Stretches'
  BY <1>1 DEF BInv, NothingBefore, Stretches, Assigned
<1>6. CASE inflight[p] # <<>> /\ inflight' = [inflight EXCEPT ![p] = Tail(inflight[p])]
           /\ upstream' = upstream
  <2>1. /\ Tail(inflight[p]) \in Seq(Record)
        /\ Len(Tail(inflight[p])) = Len(inflight[p]) - 1 /\ Len(inflight[p]) \in Nat
    BY <1>2, <1>6, HeadTailProperties, LenProperties
  <2>2. Len(Tail(inflight[p])) <= MaxInflight
    BY <2>1, BoundsAssumption DEF BInv, WithinWindow
  <2>3. TypeOK' /\ WithinWindow'
    BY <1>1, <1>2, <1>6, <2>1, <2>2 DEF BInv, TypeOK, WithinWindow
  <2>4. Behind(p) # <<>> /\ Tail(inflight[p]) \o upstream[p] = Tail(Behind(p))
    BY <1>2, <1>6, LeaveFirst DEF Behind
  <2>5. outbox' = [outbox EXCEPT ![p] = Tail(Behind(p))]
    BY <1>2, <1>6, <2>4 DEF outbox, Behind
  <2>6. Feed!Lose(p)
    BY <1>1, <1>3, <1>4, <2>4, <2>5 DEF Feed!Lose, joined, inbox, outbox, Ahead, Behind
  <2> QED BY <1>5, <2>3, <2>6 DEF BInv
<1>7. CASE /\ inflight[p] = <<>> /\ upstream[p] # <<>>
           /\ upstream' = [upstream EXCEPT ![p] = Tail(upstream[p])]
           /\ inflight' = inflight
  <2>1. Tail(upstream[p]) \in Seq(Record)
    BY <1>2, <1>7, HeadTailProperties
  <2>2. TypeOK' /\ WithinWindow'
    BY <1>1, <1>2, <1>7, <2>1 DEF BInv, TypeOK, WithinWindow
  <2>3. Behind(p) = upstream[p] /\ inflight[p] \o Tail(upstream[p]) = Tail(upstream[p])
    BY <1>2, <1>7, <2>1, ConcatEmptySeq DEF Behind
  <2>4. outbox' = [outbox EXCEPT ![p] = Tail(Behind(p))]
    BY <1>2, <1>7, <2>3 DEF outbox, Behind
  <2>5. Feed!Lose(p)
    BY <1>1, <1>3, <1>4, <1>7, <2>3, <2>4
    DEF Feed!Lose, joined, inbox, outbox, Ahead, Behind
  <2> QED BY <1>5, <2>2, <2>5 DEF BInv
<1> QED BY <1>6, <1>7 DEF Discard

\* What a record that is appended does to the reader q of its topic, and to
\* everybody else.
LEMMA BrokerAppendsReaches ==
  ASSUME BInv, NEW p \in Page, BrokerAppends(p), NEW q \in Page
  PROVE  LET rec == Head(inflight[p]) IN
         /\ rec \in Record
         /\ q \in Feed!Audience(p) /\ Assigned(q) =>
              /\ Len(Ahead(q)) < MaxLog
              /\ Ahead(q)' = Append(Ahead(q), rec)
              /\ Stretch(downstream[q] \o fetched[q], log[SourceTopic(q)], position[q])'
         /\ ~(q \in Feed!Audience(p) /\ Assigned(q)) => Ahead(q)' = Ahead(q)
         /\ Assigned(q) =>
              Stretch(downstream[q] \o fetched[q], log[SourceTopic(q)], position[q])'
<1> DEFINE rec == Head(inflight[p])
           t == SourceTopic(q)
           h == downstream[q] \o fetched[q]
           l == log[t]
           n == position[q]
<1>1. /\ inflight[p] # <<>> /\ Len(log[SinkTopic(p)]) < MaxLog
      /\ log' = [log EXCEPT ![SinkTopic(p)] = Append(log[SinkTopic(p)], rec)]
      /\ UNCHANGED <<conn, upstream, position, fetched, downstream>>
  BY DEF BrokerAppends
<1>2. /\ inflight[p] \in Seq(Record) /\ SinkTopic(p) \in Topic /\ t \in Topic
      /\ h \in Seq(Record) /\ l \in Seq(Record)
      /\ log \in [Topic -> Seq(Record)]
  BY PageTypes DEF BInv, TypeOK
<1>3. rec \in Record
  <2>1. inflight[p] \in Seq(Record)
    BY <1>2
  <2> QED BY <1>1, <2>1, HeadThenTail
<1>4. Assigned(q)' <=> Assigned(q)
  BY <1>1 DEF Assigned
<1> HIDE DEF rec
<1>5. CASE ~Assigned(q)
  <2>1. Ahead(q)' = Ahead(q)
    BY <1>1, <1>4, <1>5 DEF Ahead, Unread
  <2> QED BY <1>3, <1>5, <2>1 DEF rec
<1>6. CASE Assigned(q) /\ t # SinkTopic(p)
  <2>1. log'[t] = log[t] /\ q \notin Feed!Audience(p)
    BY <1>1, <1>2, <1>6, Sides
  <2>2. Ahead(q)' = Ahead(q)
    <3>1. /\ position' = position /\ fetched' = fetched /\ downstream' = downstream
          /\ log'[SourceTopic(q)] = log[SourceTopic(q)]
      BY <1>1, <2>1
    <3>2. Unread(q)' = Unread(q)
      BY <3>1, Zenon DEF Unread, Assigned
    <3> QED BY <3>1, <3>2, Zenon DEF Ahead
  <2>3. Stretch(h, l, n)
    BY <1>6 DEF BInv, Stretches
  <2>4. Stretch(downstream[q] \o fetched[q], log[SourceTopic(q)], position[q])'
    BY <1>1, <2>1, <2>3 DEF Stretch
  <2> QED BY <1>3, <2>1, <2>2, <2>4 DEF rec
<1>7. CASE Assigned(q) /\ t = SinkTopic(p)
  <2>1. log'[t] = Append(l, rec) /\ Len(l) < MaxLog
    BY <1>1, <1>2, <1>7
  <2>2. Stretch(h, l, n) /\ n \in Nat /\ n \in 0..Len(l)
    BY <1>7, UnreadType, PageTypes DEF BInv, Stretches
  <2>3. h' = h /\ n' = n
    BY <1>1
  <2> HIDE DEF h, l, n
  <2>4. Stretch(h, Append(l, rec), n)
    BY <1>2, <1>3, <2>2, StretchGrows
  <2>5. SubSeq(Append(l, rec), n + 1, Len(Append(l, rec)))
          = Append(SubSeq(l, n + 1, Len(l)), rec)
    BY <1>2, <1>3, <2>2, RestGrows
  <2>6. SubSeq(l, n + 1, Len(l)) \in Seq(Record)
    BY <1>2, <2>2, RestOf
  <2>7. h \o Append(SubSeq(l, n + 1, Len(l)), rec) = Append(h \o SubSeq(l, n + 1, Len(l)), rec)
    <3>1. h \in Seq(Record)
      BY <1>2
    <3>2. \A u, v \in Seq(Record) : u \o Append(v, rec) = Append(u \o v, rec)
      BY <1>3, JoinLast
    <3> QED BY <2>6, <3>1, <3>2, Zenon
  <2>8. Len(h \o SubSeq(l, n + 1, Len(l))) <= Len(l)
    BY <1>2, <2>2, StretchFits
  <2>9. Len(h \o SubSeq(l, n + 1, Len(l))) < MaxLog
    <3> DEFINE x == h \o SubSeq(l, n + 1, Len(l))
               a == Len(x)
               b == Len(l)
    <3>1. x \in Seq(Record)
      <4>1. h \in Seq(Record)
        BY <1>2
      <4> QED BY <2>6, <4>1, ConcatProperties
    <3>2. b \in Nat /\ a \in Nat
      BY <1>2, <3>1, LenProperties
    <3>3. a <= b /\ b < MaxLog
      BY <2>1, <2>8
    <3> HIDE DEF x, a, b
    <3>4. a < MaxLog
      BY <3>2, <3>3, BoundsAssumption
    <3> QED BY <3>4 DEF x, a
  <2>10. Ahead(q) = h \o SubSeq(l, n + 1, Len(l))
    BY <1>7 DEF Ahead, Unread, h, l, n
  <2>11. Ahead(q)' = h \o SubSeq(Append(l, rec), n + 1, Len(Append(l, rec)))
    BY <1>4, <1>7, <2>1, <2>3 DEF Ahead, Unread, h, n
  <2>12. Stretch(downstream[q] \o fetched[q], log[SourceTopic(q)], position[q])'
    BY <2>1, <2>3, <2>4 DEF Stretch, h, n
  <2>13. Len(Ahead(q)) < MaxLog
    BY <2>9, <2>10
  <2>14. Ahead(q)' = Append(Ahead(q), rec)
    BY <2>5, <2>7, <2>10, <2>11
  <2>15. q \in Feed!Audience(p)
    BY <1>7, Sides
  <2> QED BY <1>3, <1>7, <2>12, <2>13, <2>14, <2>15, Zenon DEF rec
<1> QED BY <1>5, <1>6, <1>7

LEMMA BrokerAppendsStep ==
  ASSUME BInv, NEW p \in Page, BrokerAppends(p)
  PROVE  BInv' /\ Feed!Publish(p)
<1> DEFINE rec == Head(inflight[p])
           readers == {q \in Feed!Audience(p) : joined[q]}
<1>1. /\ inflight[p] # <<>>
      /\ log' = [log EXCEPT ![SinkTopic(p)] = Append(log[SinkTopic(p)], rec)]
      /\ inflight' = [inflight EXCEPT ![p] = Tail(inflight[p])]
      /\ UNCHANGED <<conn, upstream, position, fetched, downstream>>
  BY DEF BrokerAppends
<1>2. /\ upstream[p] \in Seq(Record) /\ inflight[p] \in Seq(Record)
      /\ inflight \in [Page -> Seq(Record)]
      /\ log[SinkTopic(p)] \in Seq(Record) /\ log \in [Topic -> Seq(Record)]
  BY PageTypes DEF BInv, TypeOK
<1>3. /\ rec \in Record /\ Tail(inflight[p]) \in Seq(Record)
      /\ Len(Tail(inflight[p])) = Len(inflight[p]) - 1 /\ Len(inflight[p]) \in Nat
      /\ Append(log[SinkTopic(p)], rec) \in Seq(Record)
  BY <1>1, <1>2, HeadTailProperties, LenProperties, AppendProperties
<1>4. Len(Tail(inflight[p])) <= MaxInflight
  BY <1>3, BoundsAssumption DEF BInv, WithinWindow
<1>5. TypeOK' /\ WithinWindow' /\ NothingBefore'
  BY <1>1, <1>2, <1>3, <1>4 DEF BInv, TypeOK, WithinWindow, NothingBefore, Assigned
<1>6. \A q \in Page : Assigned(q)' <=> Assigned(q)
  BY <1>1 DEF Assigned
<1>7. Stretches'
  BY <1>6, BrokerAppendsReaches DEF Stretches
<1>8. Behind(p) # <<>> /\ Tail(inflight[p]) \o upstream[p] = Tail(Behind(p))
  BY <1>1, <1>2, LeaveFirst DEF Behind
<1>9. Head(Behind(p)) = rec
  BY <1>1, <1>2, LeaveFirst DEF Behind
<1>10. outbox' = [outbox EXCEPT ![p] = Tail(Behind(p))]
  BY <1>1, <1>2, <1>8 DEF outbox, Behind
<1>11. outbox[p] = Behind(p)
  BY DEF outbox
<1>12. joined' = joined
  BY <1>1 DEF joined, Assigned
<1>13. \A q \in Page : inbox[q] = Ahead(q) /\ (joined[q] <=> Assigned(q))
  BY DEF inbox, joined
<1>14. readers \subseteq Page
  BY DEF Feed!Audience, Page
<1>15. \A q \in readers : Len(inbox[q]) < MaxLog
  BY <1>13, <1>14, BrokerAppendsReaches
<1>16. inbox' = [q \in Page |-> IF q \in readers THEN Append(inbox[q], rec) ELSE inbox[q]]
  <2>1. ASSUME NEW q \in Page
        PROVE  Ahead(q)' = IF q \in readers THEN Append(inbox[q], rec) ELSE inbox[q]
    <3>1. CASE q \in readers
      BY <1>13, <3>1, BrokerAppendsReaches
    <3>2. CASE q \notin readers
      BY <1>13, <3>2, BrokerAppendsReaches
    <3> QED BY <3>1, <3>2
  <2> QED BY <2>1 DEF inbox
<1>17. Feed!Publish(p)
  <2>1. outbox[p] # <<>> /\ Head(outbox[p]) = rec
    BY <1>8, <1>9, <1>11
  <2>2. outbox' = [outbox EXCEPT ![p] = Tail(outbox[p])]
    BY <1>10, <1>11
  <2> HIDE DEF rec
  <2>3. inbox' = Feed!Deliver(readers, rec)
    BY <1>16 DEF Feed!Deliver, Feed!Page, Page, inbox, Ahead
  <2>4. conn' = conn
    BY <1>1
  <2> QED BY <1>12, <1>15, <2>1, <2>2, <2>3, <2>4
          DEF Feed!Publish, joined, inbox, outbox, Ahead, Behind
<1> QED BY <1>5, <1>7, <1>17 DEF BInv

\* The consumer is gone, and what it held with it: s is what is left of the
\* frames.
LEMMA Cut ==
  ASSUME BInv, NEW p \in Page, NEW s \in Seq(Record), NEW c \in {"broken", "closed"},
         conn' = [conn EXCEPT ![p] = c],
         position' = [position EXCEPT ![p] = NONE],
         fetched' = [fetched EXCEPT ![p] = <<>>],
         downstream' = [downstream EXCEPT ![p] = s],
         UNCHANGED <<upstream, inflight, log>>
  PROVE  /\ BInv'
         /\ joined' = [joined EXCEPT ![p] = FALSE]
         /\ inbox' = [inbox EXCEPT ![p] = s]
         /\ outbox' = outbox
<1>1. /\ conn \in [Page -> {"connecting", "open", "broken", "closed"}]
      /\ position \in [Page -> Nat \cup {NONE}]
      /\ fetched \in [Page -> Seq(Record)] /\ downstream \in [Page -> Seq(Record)]
  BY DEF BInv, TypeOK
<1>2. ~Assigned(p)' /\ \A q \in Page \ {p} : Assigned(q)' <=> Assigned(q)
  BY <1>1 DEF Assigned
<1>3. TypeOK' /\ WithinWindow'
  BY <1>1, EmptySeq DEF BInv, TypeOK, WithinWindow
<1>4. NothingBefore'
  BY <1>1, <1>2 DEF BInv, NothingBefore
<1>5. ASSUME NEW q \in Page, Assigned(q)'
      PROVE  Stretch(downstream[q] \o fetched[q], log[SourceTopic(q)], position[q])'
  <2>1. q # p /\ Assigned(q)
    BY <1>2, <1>5
  <2>2. downstream'[q] = downstream[q] /\ fetched'[q] = fetched[q] /\ position'[q] = position[q]
    BY <1>1, <2>1
  <2> QED BY <2>1, <2>2 DEF BInv, Stretches
<1>6. Stretches'
  BY <1>5 DEF Stretches
<1>7. Ahead(p)' = s
  <2>1. Ahead(p)' = s \o <<>> \o <<>>
    BY <1>1, <1>2 DEF Ahead, Unread
  <2> QED BY <2>1, ConcatEmptySeq
<1>8. ASSUME NEW q \in Page \ {p} PROVE Ahead(q)' = Ahead(q)
  <2>1. downstream'[q] = downstream[q] /\ fetched'[q] = fetched[q] /\ position'[q] = position[q]
    BY <1>1
  <2> QED BY <2>1, SameReader
<1>9. inbox' = [inbox EXCEPT ![p] = s]
  BY <1>7, <1>8 DEF inbox
<1>10. joined' = [joined EXCEPT ![p] = FALSE]
  BY <1>1 DEF joined, Assigned
<1> QED BY <1>3, <1>4, <1>6, <1>9, <1>10, SameProducers DEF BInv

LEMMA TearDownStep ==
  ASSUME BInv, NEW p \in Page, TearDown(p)
  PROVE  BInv' /\ Feed!Break(p)
<1>1. /\ p \in Fragile /\ conn[p] = "open"
      /\ conn' = [conn EXCEPT ![p] = "broken"]
      /\ position' = [position EXCEPT ![p] = NONE]
      /\ fetched' = [fetched EXCEPT ![p] = <<>>]
      /\ UNCHANGED <<upstream, inflight, log, downstream>>
  BY DEF TearDown
<1>2. /\ downstream[p] \in Seq(Record) /\ fetched[p] \in Seq(Record)
      /\ downstream \in [Page -> Seq(Record)]
  BY PageTypes DEF BInv, TypeOK
<1>3. downstream' = [downstream EXCEPT ![p] = downstream[p]]
  BY <1>1, <1>2
<1>4. /\ BInv'
      /\ joined' = [joined EXCEPT ![p] = FALSE]
      /\ inbox' = [inbox EXCEPT ![p] = downstream[p]]
      /\ outbox' = outbox
  BY <1>1, <1>2, <1>3, Cut
<1>5. inbox[p] = downstream[p] \o (fetched[p] \o Unread(p))
  <2>1. Unread(p) \in Seq(Record)
    BY UnreadType
  <2>2. inbox[p] = (downstream[p] \o fetched[p]) \o Unread(p)
    BY DEF inbox, Ahead
  <2>3. downstream[p] \in Seq(Record) /\ fetched[p] \in Seq(Record)
    BY <1>2
  <2> QED BY <2>1, <2>2, <2>3, Regroup, Zenon
<1>6. /\ Len(downstream[p]) \in 0..Len(inbox[p])
      /\ SubSeq(inbox[p], 1, Len(downstream[p])) = downstream[p]
  <2>1. Unread(p) \in Seq(Record)
    BY UnreadType
  <2>2. fetched[p] \o Unread(p) \in Seq(Record)
    BY <1>2, <2>1, ConcatProperties
  <2> QED BY <1>2, <1>5, <2>2, FirstPart
<1>7. \E n \in 0..Len(inbox[p]) : inbox' = [inbox EXCEPT ![p] = SubSeq(inbox[p], 1, n)]
  BY <1>4, <1>6
<1>8. Feed!Break(p)
  BY <1>1, <1>4, <1>7 DEF Feed!Break, joined, inbox, outbox, Ahead, Behind
<1> QED BY <1>4, <1>8

LEMMA CloseStep ==
  ASSUME BInv, NEW p \in Page, Close(p)
  PROVE  BInv' /\ Feed!Close(p)
<1>1. /\ p \in Fragile /\ conn[p] \in {"open", "broken"}
      /\ conn' = [conn EXCEPT ![p] = "closed"]
      /\ position' = [position EXCEPT ![p] = NONE]
      /\ fetched' = [fetched EXCEPT ![p] = <<>>]
      /\ downstream' = [downstream EXCEPT ![p] = <<>>]
      /\ UNCHANGED <<upstream, inflight, log>>
  BY DEF Close
<1>2. <<>> \in Seq(Record)
  BY EmptySeq
<1>3. /\ BInv'
      /\ joined' = [joined EXCEPT ![p] = FALSE]
      /\ inbox' = [inbox EXCEPT ![p] = <<>>]
      /\ outbox' = outbox
  BY <1>1, <1>2, Cut
<1>4. Feed!Close(p)
  BY <1>1, <1>3 DEF Feed!Close, joined, inbox, outbox, Ahead, Behind
<1> QED BY <1>3, <1>4

LEMMA AssignStep ==
  ASSUME BInv, NEW p \in Page, Assign(p)
  PROVE  BInv' /\ Feed!Join(p)
<1> DEFINE l == log[SourceTopic(p)]
<1>1. /\ conn[p] = "open" /\ ~Assigned(p)
      /\ position' = [position EXCEPT ![p] = Len(l)]
      /\ UNCHANGED <<conn, upstream, inflight, log, fetched, downstream>>
  BY DEF Assign, ResetPosition
<1>2. /\ l \in Seq(Record) /\ Len(l) \in Nat
      /\ position \in [Page -> Nat \cup {NONE}]
  BY PageTypes, LenProperties DEF BInv, TypeOK
<1>3. fetched[p] = <<>> /\ downstream[p] = <<>>
  BY <1>1 DEF BInv, NothingBefore
<1>4. position'[p] = Len(l) /\ Assigned(p)' /\ \A q \in Page \ {p} : Assigned(q)' <=> Assigned(q)
  BY <1>1, <1>2, NoneAssumption DEF Assigned
<1>5. TypeOK' /\ WithinWindow' /\ NothingBefore'
  BY <1>1, <1>2, <1>4 DEF BInv, TypeOK, WithinWindow, NothingBefore
<1>6. ASSUME NEW q \in Page, Assigned(q)'
      PROVE  Stretch(downstream[q] \o fetched[q], log[SourceTopic(q)], position[q])'
  <2>1. CASE q = p
    <3>1. downstream[p] \o fetched[p] = <<>>
      BY <1>3
    <3>2. Len(l) \in 0..Len(l)
      BY <1>2
    <3> HIDE DEF l
    <3>3. Stretch(<<>>, l, Len(l))
      BY <1>2, <3>2, StretchEmpty
    <3>4. /\ (downstream[q] \o fetched[q])' = <<>> /\ log'[SourceTopic(q)] = l
          /\ position'[q] = Len(l)
      BY <1>1, <1>4, <2>1, <3>1 DEF l
    <3> QED BY <3>3, <3>4
  <2>2. CASE q # p
    <3>1. Assigned(q) /\ position'[q] = position[q]
      BY <1>1, <1>2, <1>4, <1>6, <2>2
    <3> QED BY <1>1, <3>1 DEF BInv, Stretches
  <2> QED BY <2>1, <2>2
<1>7. Stretches'
  BY <1>6 DEF Stretches
<1>8. Ahead(p)' = Ahead(p)
  <2>1. Unread(p) = <<>>
    BY <1>1 DEF Unread
  <2>2. Unread(p)' = SubSeq(l, Len(l) + 1, Len(l))
    BY <1>1, <1>4 DEF Unread
  <2>3. SubSeq(l, Len(l) + 1, Len(l)) = <<>>
    BY <1>2, SubSeqEmpty
  <2> QED BY <1>1, <2>1, <2>2, <2>3 DEF Ahead
<1>9. ASSUME NEW q \in Page \ {p} PROVE Ahead(q)' = Ahead(q)
  <2>1. position'[q] = position[q]
    BY <1>1, <1>2
  <2> QED BY <1>1, <2>1, SameReader
<1>10. inbox' = inbox
  BY <1>8, <1>9 DEF inbox
<1>11. outbox' = outbox
  BY <1>1, SameProducers
<1>12. joined' = [joined EXCEPT ![p] = TRUE] /\ ~joined[p]
  BY <1>1, <1>2, NoneAssumption DEF joined, Assigned
<1>13. Feed!Join(p)
  BY <1>1, <1>10, <1>11, <1>12 DEF Feed!Join, joined, inbox, outbox, Ahead, Behind
<1> QED BY <1>5, <1>7, <1>13 DEF BInv

LEMMA PollStep ==
  ASSUME BInv, NEW p \in Page, Poll(p)
  PROVE  BInv' /\ Unseen
<1> DEFINE l == log[SourceTopic(p)]
           n == position[p]
<1>1. PICK k \in 1..MaxPoll :
        /\ Assigned(p) /\ fetched[p] = <<>> /\ k <= Len(Unread(p))
        /\ fetched' = [fetched EXCEPT ![p] = SubSeq(Unread(p), 1, k)]
        /\ position' = [position EXCEPT ![p] = n + k]
        /\ UNCHANGED <<conn, upstream, inflight, log, downstream>>
  BY DEF Poll, MayPoll
<1>2. /\ l \in Seq(Record) /\ n \in Nat /\ n \in 0..Len(l) /\ k \in Nat
      /\ downstream[p] \in Seq(Record) /\ Unread(p) \in Seq(Record)
      /\ position \in [Page -> Nat \cup {NONE}] /\ fetched \in [Page -> Seq(Record)]
  <2>1. TypeOK
    BY DEF BInv
  <2>2. n \in 0..Len(l) /\ Unread(p) \in Seq(Record)
    BY <1>1, UnreadType
  <2>3. l \in Seq(Record) /\ n \in Nat /\ downstream[p] \in Seq(Record)
    BY <1>1, <2>1, PageTypes
  <2>4. k \in Nat
    BY BoundsAssumption
  <2> QED BY <2>1, <2>2, <2>3, <2>4 DEF TypeOK
<1>3. Unread(p) = SubSeq(l, n + 1, Len(l)) /\ Len(Unread(p)) = Len(l) - n
  BY <1>1, UnreadType DEF Unread
<1>4. k <= Len(l) - n
  BY <1>1, <1>3
<1>5. /\ position'[p] = n + k /\ n + k \in Nat /\ fetched'[p] = SubSeq(Unread(p), 1, k)
      /\ \A q \in Page \ {p} : position'[q] = position[q] /\ fetched'[q] = fetched[q]
  BY <1>1, <1>2
<1>6. \A q \in Page : Assigned(q)' <=> Assigned(q)
  BY <1>1, <1>5, NoneAssumption DEF Assigned
<1>7. SubSeq(Unread(p), 1, k) \in Seq(Record)
  <2>1. k \in 0..Len(Unread(p))
    BY <1>1, <1>2
  <2> QED BY <1>2, <2>1, FirstOfRest
<1>8. TypeOK' /\ WithinWindow' /\ NothingBefore'
  BY <1>1, <1>2, <1>5, <1>6, <1>7 DEF BInv, TypeOK, WithinWindow, NothingBefore
<1>9. Stretch(downstream[p] \o SubSeq(Unread(p), 1, k), l, n + k)
  <2>1. Stretch(downstream[p] \o fetched[p], l, n)
    BY <1>1 DEF BInv, Stretches
  <2>2. downstream[p] \o fetched[p] = downstream[p]
    BY <1>1, <1>2, ConcatEmptySeq
  <2>3. Stretch(downstream[p], l, n)
    BY <2>1, <2>2
  <2> HIDE DEF l, n
  <2>4. Stretch(downstream[p] \o SubSeq(SubSeq(l, n + 1, Len(l)), 1, k), l, n + k)
    BY <1>2, <1>4, <2>3, StretchPolls
  <2> QED BY <1>3, <2>4
<1>10. ASSUME NEW q \in Page, Assigned(q)'
       PROVE  Stretch(downstream[q] \o fetched[q], log[SourceTopic(q)], position[q])'
  <2>1. CASE q = p
    BY <1>1, <1>5, <1>9, <2>1
  <2>2. CASE q # p
    <3>1. Assigned(q) /\ position'[q] = position[q] /\ fetched'[q] = fetched[q]
      BY <1>5, <1>6, <1>10, <2>2
    <3> QED BY <1>1, <3>1 DEF BInv, Stretches
  <2> QED BY <2>1, <2>2
<1>11. Stretches'
  BY <1>10 DEF Stretches
<1>12. Ahead(p)' = Ahead(p)
  <2> DEFINE first == SubSeq(Unread(p), 1, k)
             last == SubSeq(l, (n + k) + 1, Len(l))
  <2>1. n + k \in 0..Len(l)
    BY <1>2, <1>4
  <2>2. first \in Seq(Record) /\ last \in Seq(Record)
    <3> HIDE DEF l, n
    <3>1. last \in Seq(Record)
      BY <1>2, <2>1, RestOf
    <3> QED BY <1>7, <3>1
  <2>3. first \o last = Unread(p)
    <3> HIDE DEF l, n
    <3>1. SubSeq(SubSeq(l, n + 1, Len(l)), 1, k) \o last = SubSeq(l, n + 1, Len(l))
      BY <1>2, <1>4, PollSplits
    <3> QED BY <1>3, <3>1
  <2>4. Unread(p)' = last
    BY <1>1, <1>5, <1>6 DEF Unread
  <2>5. Ahead(p)' = (downstream[p] \o first) \o last
    BY <1>1, <1>5, <2>4 DEF Ahead
  <2>6. (downstream[p] \o first) \o last = downstream[p] \o (first \o last)
    <3> HIDE DEF first, last
    <3>1. downstream[p] \in Seq(Record)
      BY <1>2
    <3> QED BY <2>2, <3>1, Regroup, Zenon
  <2>7. Ahead(p) = downstream[p] \o Unread(p)
    <3>1. downstream[p] \o fetched[p] = downstream[p]
      BY <1>1, <1>2, ConcatEmptySeq
    <3> QED BY <3>1 DEF Ahead
  <2> QED BY <2>3, <2>5, <2>6, <2>7
<1>13. ASSUME NEW q \in Page \ {p} PROVE Ahead(q)' = Ahead(q)
  <2>1. position'[q] = position[q] /\ fetched'[q] = fetched[q]
    BY <1>5
  <2> QED BY <1>1, <2>1, SameReader
<1>14. inbox' = inbox
  BY <1>12, <1>13 DEF inbox
<1>15. joined' = joined
  <2>1. \A q \in Page : Assigned(q)' = Assigned(q)
    BY <1>6 DEF Assigned
  <2> QED BY <2>1 DEF joined
<1>16. outbox' = outbox
  BY <1>1, SameProducers
<1> QED BY <1>1, <1>8, <1>11, <1>14, <1>15, <1>16 DEF BInv, Unseen

LEMMA EmitStep ==
  ASSUME BInv, NEW p \in Page, Emit(p)
  PROVE  BInv' /\ Unseen
<1>1. /\ fetched[p] # <<>>
      /\ downstream' = [downstream EXCEPT ![p] = Append(downstream[p], Head(fetched[p]))]
      /\ fetched' = [fetched EXCEPT ![p] = Tail(fetched[p])]
      /\ UNCHANGED <<conn, upstream, inflight, log, position>>
  BY DEF Emit
<1>2. /\ downstream[p] \in Seq(Record) /\ fetched[p] \in Seq(Record)
      /\ downstream \in [Page -> Seq(Record)] /\ fetched \in [Page -> Seq(Record)]
  BY PageTypes DEF BInv, TypeOK
<1>3. /\ Head(fetched[p]) \in Record /\ Tail(fetched[p]) \in Seq(Record)
      /\ Append(downstream[p], Head(fetched[p])) \in Seq(Record)
  BY <1>1, <1>2, HeadThenTail, AppendProperties
<1>4. Append(downstream[p], Head(fetched[p])) \o Tail(fetched[p])
        = downstream[p] \o fetched[p]
  BY <1>1, <1>2, MoveOn
<1>5. /\ downstream'[p] = Append(downstream[p], Head(fetched[p]))
      /\ fetched'[p] = Tail(fetched[p])
      /\ \A q \in Page \ {p} : downstream'[q] = downstream[q] /\ fetched'[q] = fetched[q]
  BY <1>1, <1>2
<1>6. \A q \in Page : (downstream[q] \o fetched[q])' = downstream[q] \o fetched[q]
  BY <1>4, <1>5
<1>7. Assigned(p)
  BY <1>1 DEF BInv, NothingBefore
<1>8. TypeOK' /\ WithinWindow'
  BY <1>1, <1>2, <1>3 DEF BInv, TypeOK, WithinWindow
<1>9. NothingBefore'
  BY <1>1, <1>5, <1>7 DEF BInv, NothingBefore, Assigned
<1>10. Stretches'
  BY <1>1, <1>6 DEF BInv, Stretches, Assigned
<1>11. \A q \in Page : Unread(q)' = Unread(q)
  BY <1>1, Zenon DEF Unread, Assigned
<1>12. \A q \in Page : Ahead(q)' = Ahead(q)
  BY <1>6, <1>11 DEF Ahead
<1>13. inbox' = inbox
  BY <1>12 DEF inbox
<1>14. joined' = joined
  BY <1>1 DEF joined, Assigned
<1>15. outbox' = outbox
  BY <1>1, SameProducers
<1> QED BY <1>1, <1>8, <1>9, <1>10, <1>13, <1>14, <1>15 DEF BInv, Unseen

LEMMA HandleStep ==
  ASSUME BInv, NEW p \in Page, Handle(p)
  PROVE  BInv' /\ Feed!Take(p)
<1>1. /\ conn[p] \in {"open", "broken"} /\ downstream[p] # <<>>
      /\ downstream' = [downstream EXCEPT ![p] = Tail(downstream[p])]
      /\ UNCHANGED <<conn, upstream, inflight, log, position, fetched>>
  BY DEF Handle, serverSide
<1>2. /\ downstream[p] \in Seq(Record) /\ fetched[p] \in Seq(Record)
      /\ Unread(p) \in Seq(Record) /\ downstream \in [Page -> Seq(Record)]
  BY PageTypes, UnreadType DEF BInv, TypeOK
<1>3. Tail(downstream[p]) \in Seq(Record)
  BY <1>1, <1>2, HeadThenTail
<1>4. /\ downstream[p] \o fetched[p] # <<>>
      /\ downstream[p] \o fetched[p] \in Seq(Record)
      /\ Tail(downstream[p]) \o fetched[p] = Tail(downstream[p] \o fetched[p])
  BY <1>1, <1>2, LeaveFirst, ConcatProperties
<1>5. /\ Ahead(p) # <<>>
      /\ Tail(downstream[p] \o fetched[p]) \o Unread(p) = Tail(Ahead(p))
  BY <1>2, <1>4, LeaveFirst DEF Ahead
<1>6. /\ downstream'[p] = Tail(downstream[p])
      /\ \A q \in Page \ {p} : downstream'[q] = downstream[q]
  BY <1>1, <1>2
<1>7. TypeOK' /\ WithinWindow'
  BY <1>1, <1>2, <1>3 DEF BInv, TypeOK, WithinWindow
<1>8. NothingBefore'
  <2>1. ~Assigned(p) => conn[p] \notin {"connecting", "open"}
    BY <1>1 DEF BInv, NothingBefore
  <2> QED BY <1>1, <1>6, <2>1 DEF BInv, NothingBefore, Assigned
<1>9. ASSUME NEW q \in Page, Assigned(q)'
      PROVE  Stretch(downstream[q] \o fetched[q], log[SourceTopic(q)], position[q])'
  <2>1. /\ Assigned(q) /\ position[q] \in Nat /\ log[SourceTopic(q)] \in Seq(Record)
        /\ Stretch(downstream[q] \o fetched[q], log[SourceTopic(q)], position[q])
    BY <1>1, <1>9, PageTypes DEF BInv, Stretches, Assigned
  <2>2. CASE q = p
    <3> DEFINE h == downstream[p] \o fetched[p]
               l == log[SourceTopic(p)]
               n == position[p]
    <3>1. h # <<>> /\ h \in Seq(Record) /\ l \in Seq(Record) /\ n \in Nat /\ Stretch(h, l, n)
      BY <1>4, <2>1, <2>2
    <3> HIDE DEF h, l, n
    <3>2. Stretch(Tail(h), l, n)
      BY <3>1, StretchTail
    <3>3. (downstream[p] \o fetched[p])' = Tail(h)
      BY <1>1, <1>4, <1>6 DEF h
    <3>4. log'[SourceTopic(p)] = l /\ position'[p] = n
      BY <1>1 DEF l, n
    <3> QED BY <2>2, <3>2, <3>3, <3>4
  <2>3. CASE q # p
    BY <1>1, <1>6, <2>1, <2>3
  <2> QED BY <2>2, <2>3
<1>10. Stretches'
  BY <1>9 DEF Stretches
<1>11. Ahead(p)' = Tail(Ahead(p))
  <2>1. Unread(p)' = Unread(p)
    BY <1>1, Zenon DEF Unread, Assigned
  <2> QED BY <1>1, <1>4, <1>5, <1>6, <2>1 DEF Ahead
<1>12. \A q \in Page \ {p} : Ahead(q)' = Ahead(q)
  BY <1>1, <1>6, SameReader
<1>13. inbox' = [inbox EXCEPT ![p] = Tail(Ahead(p))] /\ inbox[p] = Ahead(p)
  BY <1>11, <1>12 DEF inbox
<1>14. joined' = joined
  BY <1>1 DEF joined, Assigned
<1>15. outbox' = outbox
  BY <1>1, SameProducers
<1>16. Feed!Take(p)
  BY <1>1, <1>5, <1>13, <1>14, <1>15
  DEF Feed!Take, Feed!ReadyState1, joined, inbox, outbox, Ahead, Behind
<1> QED BY <1>7, <1>8, <1>10, <1>16 DEF BInv

-----------------------------------------------------------------------------
(* The steps together, and what follows.                                   *)

LEMMA StutterStep ==
  ASSUME BInv, UNCHANGED vars
  PROVE  BInv' /\ Unseen
<1>1. UNCHANGED <<conn, upstream, inflight, log, position, fetched, downstream>>
  BY DEF vars
<1>2. BInv'
  BY <1>1 DEF BInv, TypeOK, NothingBefore, WithinWindow, Stretches, Assigned
<1> QED BY <1>1, <1>2, SameConsumers, SameProducers DEF Unseen

\* Every step keeps the invariant, and is a step of RideFeed or none.
LEMMA Step ==
  BInv /\ [Next]_vars => BInv' /\ [Feed!FeedNext]_(Feed!feedVars)
<1> SUFFICES ASSUME BInv, [Next]_vars
             PROVE  BInv' /\ [Feed!FeedNext]_(Feed!feedVars)
  OBVIOUS
<1>1. Unseen => UNCHANGED Feed!feedVars
  BY DEF Unseen, Feed!feedVars, joined, inbox, outbox, Ahead, Behind
<1>2. CASE UNCHANGED vars
  BY <1>1, <1>2, StutterStep
<1>3. ASSUME NEW p \in Page,
             \/ Accept(p) \/ Close(p) \/ Handle(p)
             \/ \E rec \in Says[p] : ClientSend(p, rec)
             \/ SinkTakes(p) \/ BrokerAppends(p) \/ SinkFails(p) \/ Discard(p)
             \/ Assign(p) \/ Poll(p) \/ Emit(p) \/ SourceFails(p)
      PROVE  BInv' /\ (Feed!FeedNext \/ Unseen)
  <2>0. p \in Feed!Page
    BY DEF Page, Feed!Page
  <2>1. CASE Accept(p)
    BY <2>0, <2>1, AcceptStep DEF Feed!FeedNext, Feed!Transport
  <2>2. CASE Close(p)
    BY <2>0, <2>2, CloseStep DEF Feed!FeedNext, Feed!Transport
  <2>3. CASE Handle(p)
    BY <2>0, <2>3, HandleStep DEF Feed!FeedNext
  <2>4. CASE \E rec \in Says[p] : ClientSend(p, rec)
    <3>1. PICK rec \in Says[p] : ClientSend(p, rec)
      BY <2>4
    <3>2. rec \in Record
      BY SaysAssumption DEF Page
    <3> QED BY <2>0, <3>1, <3>2, ClientSendStep DEF Feed!FeedNext
  <2>5. CASE SinkTakes(p)
    BY <2>5, SinkTakesStep
  <2>6. CASE BrokerAppends(p)
    BY <2>0, <2>6, BrokerAppendsStep DEF Feed!FeedNext, Feed!Transport
  <2>7. CASE SinkFails(p) \/ SourceFails(p)
    BY <2>0, <2>7, TearDownStep DEF SinkFails, SourceFails, Feed!FeedNext, Feed!Transport
  <2>8. CASE Discard(p)
    BY <2>0, <2>8, DiscardStep DEF Feed!FeedNext, Feed!Transport
  <2>9. CASE Assign(p)
    BY <2>0, <2>9, AssignStep DEF Feed!FeedNext, Feed!Transport
  <2>10. CASE Poll(p)
    BY <2>10, PollStep
  <2>11. CASE Emit(p)
    BY <2>11, EmitStep
  <2> QED BY <1>3, <2>1, <2>2, <2>3, <2>4, <2>5, <2>6, <2>7, <2>8, <2>9, <2>10, <2>11
<1> QED BY <1>1, <1>2, <1>3 DEF Next

LEMMA BInvAlways == Spec => []BInv
<1>1. BInv /\ [Next]_vars => BInv'
  BY Step
<1> QED BY InitInv, <1>1, PTL DEF Spec

\* Every buffer holds records, and a position is a number or none.
THEOREM TypeCorrect == Spec => []TypeOK
<1>1. BInv => TypeOK
  BY DEF BInv
<1> QED BY BInvAlways, <1>1, PTL

\* What a consumer and its socket hold is a stretch of the topic: no gap and
\* no record twice, however sockets, producers and polls interleave
\* (Kafka.scala 34-51).
THEOREM NeverGaps == Spec => []NoGaps
<1>1. BInv => NoGaps
  <2> SUFFICES ASSUME BInv, NEW p \in Page, Assigned(p)
               PROVE  /\ position[p] <= Len(log[SourceTopic(p)])
                      /\ Feed!EndsWith(SubSeq(log[SourceTopic(p)], 1, position[p]),
                                       downstream[p] \o fetched[p])
    BY DEF NoGaps
  <2> DEFINE h == downstream[p] \o fetched[p]
             l == log[SourceTopic(p)]
             n == position[p]
  <2>1. h \in Seq(Record) /\ l \in Seq(Record) /\ n \in Nat /\ Stretch(h, l, n)
    BY PageTypes DEF BInv, Stretches
  <2> HIDE DEF h, l, n
  <2>2. n <= Len(l) /\ Feed!EndsWith(SubSeq(l, 1, n), h)
    BY <2>1, StretchEndsWith DEF Stretch
  <2> QED BY <2>2 DEF h, l, n
<1> QED BY BInvAlways, <1>1, PTL

\* Sinks, brokers and sources together do what RideFeed says, step by step,
\* for all pages, bounds and losses of connections.
THEOREM BridgeImplementsFeed == Spec => ImplementsFeed
<1>1. Init => Feed!FeedInit
  <2> SUFFICES ASSUME Init PROVE Feed!FeedInit
    OBVIOUS
  <2>1. \A p \in Page : ~Assigned(p)
    BY DEF Init, Assigned
  <2>2. \A p \in Page : inflight[p] \o upstream[p] = <<>>
    BY ConcatEmptySeq, EmptySeq DEF Init
  <2>3. \A p \in Page : downstream[p] \o fetched[p] \o Unread(p) = <<>>
    <3>1. \A p \in Page : Unread(p) = <<>>
      BY <2>1 DEF Unread
    <3>2. <<>> \o <<>> \o <<>> = <<>>
      OBVIOUS
    <3> QED BY <3>1, <3>2 DEF Init
  <2>4. conn = [p \in Page |-> "connecting"]
    BY DEF Init
  <2>5. /\ [p \in Page |-> Assigned(p)] = [p \in Page |-> FALSE]
        /\ [p \in Page |-> inflight[p] \o upstream[p]] = [p \in Page |-> <<>>]
        /\ [p \in Page |-> downstream[p] \o fetched[p] \o Unread(p)] = [p \in Page |-> <<>>]
    <3>1. \A p \in Page : Assigned(p) = FALSE
      BY <2>1 DEF Assigned
    <3> QED BY <2>2, <2>3, <3>1, Zenon
  <2> QED BY <2>4, <2>5 DEF Feed!FeedInit, Feed!Page, Page
<1>2. BInv /\ [Next]_vars => [Feed!FeedNext]_(Feed!feedVars)
  BY Step
<1> QED BY <1>1, <1>2, BInvAlways, PTL DEF Spec, ImplementsFeed, Feed!FeedSpec

\* Of two stretches with the same end, the longer one ends with the other.
LEMMA SameEnd ==
  ASSUME NEW S, NEW xs \in Seq(S), NEW ys \in Seq(S), NEW l \in Seq(S), NEW n \in Nat,
         Stretch(xs, l, n), Stretch(ys, l, n), Len(ys) <= Len(xs)
  PROVE  Feed!EndsWith(xs, ys)
<1>1. /\ Len(xs) \in Nat /\ Len(ys) \in Nat /\ Len(xs) <= n
      /\ \A i \in 1..Len(xs) : xs[i] = l[n - Len(xs) + i]
      /\ \A i \in 1..Len(ys) : ys[i] = l[n - Len(ys) + i]
  BY LenProperties DEF Stretch
<1>2. ASSUME NEW i \in 1..Len(ys) PROVE ys[i] = xs[Len(xs) - Len(ys) + i]
  <2> DEFINE k == Len(xs) - Len(ys) + i
  <2>1. k \in 1..Len(xs) /\ n - Len(xs) + k = n - Len(ys) + i
    BY <1>1
  <2> HIDE DEF k
  <2>2. xs[k] = l[n - Len(xs) + k] /\ ys[i] = l[n - Len(ys) + i]
    BY <1>1, <2>1
  <2>3. ys[i] = xs[k]
    BY <2>1, <2>2
  <2> QED BY <2>3 DEF k
<1>3. Stretch(ys, xs, Len(xs))
  BY <1>1, <1>2 DEF Stretch
<1>4. Feed!EndsWith(SubSeq(xs, 1, Len(xs)), ys)
  BY <1>1, <1>3, StretchEndsWith
<1> QED BY <1>4, SubSeqFull

\* What is ahead of a reader reaches to the end of its topic.
LEMMA AheadToTheEnd ==
  ASSUME BInv, NEW p \in Page, Assigned(p)
  PROVE  /\ Ahead(p) \in Seq(Record)
         /\ Stretch(Ahead(p), log[SourceTopic(p)], Len(log[SourceTopic(p)]))
<1> DEFINE h == downstream[p] \o fetched[p]
           l == log[SourceTopic(p)]
           n == position[p]
           rest == SubSeq(l, n + 1, Len(l))
           k == Len(l) - n
<1>1. /\ h \in Seq(Record) /\ l \in Seq(Record) /\ n \in Nat /\ n \in 0..Len(l)
      /\ Stretch(h, l, n)
  BY PageTypes, UnreadType DEF BInv, Stretches
<1>2. Ahead(p) = h \o rest
  BY DEF Ahead, Unread
<1> HIDE DEF h, l, n
<1>3. Len(l) \in Nat /\ k \in Nat /\ k <= Len(l) - n /\ n + k = Len(l)
  BY <1>1, LenProperties
<1>4. rest \in Seq(Record) /\ Len(rest) = k
  BY <1>1, RestOf
<1>5. Stretch(h \o SubSeq(rest, 1, k), l, n + k)
  <2> HIDE DEF k
  <2> QED BY <1>1, <1>3, StretchPolls
<1>6. SubSeq(rest, 1, k) = rest
  <2> HIDE DEF rest, k
  <2> QED BY <1>4, SubSeqFull
<1>7. Stretch(h \o rest, l, Len(l))
  <2> HIDE DEF rest, k
  <2> QED BY <1>3, <1>5, <1>6
<1>8. h \o rest \in Seq(Record)
  <2> HIDE DEF rest
  <2> QED BY <1>1, <1>4, ConcatProperties
<1> QED BY <1>2, <1>7, <1>8 DEF l

\* Readers of one topic have the same records ahead of them in the same order,
\* wherever in their buffers these are (HomeController.scala 28-40).
THEOREM AlwaysSameOrder == Spec => []SameOrder
<1>1. BInv => SameOrder
  <2> SUFFICES ASSUME BInv, NEW p \in Page, NEW q \in Page, Assigned(p), Assigned(q),
                      Feed!Audience(p) = Feed!Audience(q)
               PROVE  Feed!EndsWith(Ahead(p), Ahead(q)) \/ Feed!EndsWith(Ahead(q), Ahead(p))
    BY DEF SameOrder, Feed!SameOrder, Feed!Page, Page, Ahead
  <2> DEFINE l == log[SourceTopic(p)]
  <2>1. SourceTopic(q) = SourceTopic(p)
    BY PagesAssumption DEF Feed!Audience, SourceTopic, Page
  <2>2. /\ Ahead(p) \in Seq(Record) /\ Ahead(q) \in Seq(Record)
        /\ Stretch(Ahead(p), l, Len(l)) /\ Stretch(Ahead(q), l, Len(l))
    BY <2>1, AheadToTheEnd
  <2>3. l \in Seq(Record) /\ Len(l) \in Nat
    BY PageTypes, LenProperties DEF BInv
  <2> HIDE DEF l
  <2>4. Len(Ahead(p)) \in Nat /\ Len(Ahead(q)) \in Nat
    BY <2>2, LenProperties
  <2>5. CASE Len(Ahead(q)) <= Len(Ahead(p))
    BY <2>2, <2>3, <2>5, SameEnd
  <2>6. CASE Len(Ahead(p)) <= Len(Ahead(q))
    BY <2>2, <2>3, <2>6, SameEnd
  <2> QED BY <2>4, <2>5, <2>6
<1> QED BY BInvAlways, <1>1, PTL
=============================================================================
