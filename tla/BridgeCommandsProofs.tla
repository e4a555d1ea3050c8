------------------------ MODULE BridgeCommandsProofs ------------------------
(***************************************************************************)
(* IInv is inductive, the safety properties of BridgeCommands follow from  *)
(* it, and BridgeCommands implements RemotePark, for every set of commands *)
(* and parks and every number of requests and breaks.                      *)
(***************************************************************************)
EXTENDS BridgeCommands, SequenceFacts, FiniteSetTheorems

USE BridgeBoundsAssumption

-----------------------------------------------------------------------------
(***************************************************************************)
(* The framing of a buffer, piece by piece.                                *)
(***************************************************************************)
\* What the loop has found at any place of a buffer.
Parsed == [requests: Seq(Request), rest: Seq(Piece)]
NothingYet == [requests |-> <<>>, rest |-> <<>>]

\* A piece without a newline goes to the fragment; one with a newline ends it,
\* and the request on the line is found if it was one whole request.
LEMMA TakeFacts ==
  ASSUME NEW p \in Parsed, NEW piece \in Piece
  PROVE  /\ Take(p, piece) \in Parsed
         /\ ~piece.last => Take(p, piece) = [requests |-> p.requests, rest |-> Append(p.rest, piece)]
         /\ piece.last /\ Parses(Append(p.rest, piece)) =>
              Take(p, piece) = [requests |-> Append(p.requests, piece.msg), rest |-> <<>>]
         /\ piece.last /\ ~Parses(Append(p.rest, piece)) =>
              Take(p, piece) = [requests |-> p.requests, rest |-> <<>>]
<1>1. p.requests \in Seq(Request) /\ p.rest \in Seq(Piece) /\ piece.msg \in Request
  BY DEF Parsed, Piece
<1>2. Append(p.rest, piece) \in Seq(Piece) /\ Append(p.requests, piece.msg) \in Seq(Request)
  BY <1>1, AppendFacts
<1>3. <<>> \in Seq(Piece)
  BY EmptyFacts
<1>4. ~piece.last => Take(p, piece) = [requests |-> p.requests, rest |-> Append(p.rest, piece)]
  BY DEF Take, Parsed
<1>5. piece.last /\ Parses(Append(p.rest, piece)) =>
        Take(p, piece) = [requests |-> Append(p.requests, piece.msg), rest |-> <<>>]
  BY Zenon DEF Take
<1>6. piece.last /\ ~Parses(Append(p.rest, piece)) =>
        Take(p, piece) = [requests |-> p.requests, rest |-> <<>>]
  BY Zenon DEF Take
<1>7. Take(p, piece) \in Parsed
  <2>0. \A r \in Seq(Request), f \in Seq(Piece) : [requests |-> r, rest |-> f] \in Parsed
    BY DEF Parsed
  <2>1. CASE ~piece.last
    BY <1>1, <1>2, <1>4, <2>0, <2>1
  <2>2. CASE piece.last /\ Parses(Append(p.rest, piece))
    BY <1>2, <1>3, <1>5, <2>0, <2>2, Zenon
  <2>3. CASE piece.last /\ ~Parses(Append(p.rest, piece))
    BY <1>1, <1>3, <1>6, <2>0, <2>3, Zenon
  <2> QED
    BY <2>1, <2>2, <2>3
<1> QED
  BY <1>4, <1>5, <1>6, <1>7

\* Split is the loop: nothing before the first piece, then one more piece each.
LEMMA SplitFacts ==
  ASSUME NEW buffer \in Seq(Piece)
  PROVE  /\ \A n \in 0..Len(buffer) : Split(buffer)[n] \in Parsed
         /\ Split(buffer)[0] = NothingYet
         /\ \A n \in 1..Len(buffer) : Split(buffer)[n] = Take(Split(buffer)[n - 1], buffer[n])
<1> DEFINE l == Len(buffer)
           Move == [n \in 1..l |-> [p \in Parsed |-> Take(p, buffer[n])]]
           Step(g) == [n \in 0..l |-> IF n = 0 THEN NothingYet ELSE Take(g[n - 1], buffer[n])]
<1>1. l \in Nat /\ \A n \in 1..l : buffer[n] \in Piece
  BY SeqFacts
<1>2. NothingYet \in Parsed
  BY EmptyFacts DEF NothingYet, Parsed
<1>3. Move \in [1..l -> [Parsed -> Parsed]]
  BY <1>1, TakeFacts
<1>4. PICK g \in [0..l -> Parsed] :
        g[0] = NothingYet /\ \A n \in 1..l : g[n] = Move[n][g[n - 1]]
  <2> HIDE DEF Move, l, Step
  <2>1. \E g \in [0..l -> Parsed] : CarriedAlong(g, NothingYet, l, Move)
    BY <1>1, <1>2, <1>3, Along
  <2> QED
    BY <2>1 DEF CarriedAlong
<1>5. \A n \in 1..l : g[n - 1] \in Parsed
  BY <1>1
<1>6. \A n \in 1..l : g[n] = Take(g[n - 1], buffer[n])
  BY <1>4, <1>5
<1>7. g = Step(g)
  <2>1. \A n \in 0..l : n = 0 \/ n \in 1..l
    BY <1>1
  <2>2. \A n \in 0..l : g[n] = Step(g)[n]
    BY <1>1, <1>4, <1>6, <2>1
  <2> QED
    BY <2>2
<1>8. Split(buffer) = CHOOSE f : f = Step(f)
  BY DEF Split, NothingYet
<1>9. Split(buffer) = Step(Split(buffer))
  <2> HIDE DEF Step
  <2> QED
    BY <1>7, <1>8, Zenon
<1>10. \A n \in 0..l : Split(buffer)[n] = IF n = 0 THEN NothingYet
                                          ELSE Take(Split(buffer)[n - 1], buffer[n])
  <2> DEFINE s == Split(buffer)
  <2>1. s = Step(s)
    BY <1>9
  <2> HIDE DEF s
  <2>2. \A n \in 0..l : s[n] = IF n = 0 THEN NothingYet ELSE Take(s[n - 1], buffer[n])
    BY <2>1
  <2> QED
    BY <2>2 DEF s
<1>11. \A n \in 0..l : Split(buffer)[n] \in Parsed
  <2> DEFINE T == {n \in Nat : n <= l => Split(buffer)[n] \in Parsed}
  <2>1. 0 \in T
    BY <1>1, <1>2, <1>10
  <2>2. ASSUME NEW n \in 0..l, n \in T, n < l PROVE n + 1 \in T
    <3>1. n + 1 \in 0..l /\ n + 1 # 0 /\ n + 1 \in 1..l /\ (n + 1) - 1 = n
      BY <1>1, <2>2
    <3>2. Split(buffer)[n] \in Parsed
      BY <2>2
    <3>3. Split(buffer)[n + 1] = Take(Split(buffer)[n], buffer[n + 1])
      BY <1>10, <3>1
    <3>4. Take(Split(buffer)[n], buffer[n + 1]) \in Parsed
      BY <1>1, <3>1, <3>2, TakeFacts
    <3> QED
      BY <3>1, <3>3, <3>4
  <2> HIDE DEF T
  <2>3. \A n \in 0..l : n \in T
    BY <1>1, <2>1, <2>2, UpTo
  <2> QED
    BY <2>3 DEF T
<1>12. \A n \in 1..l : n \in 0..l /\ n # 0
  BY <1>1
<1>13. Split(buffer)[0] = NothingYet
  BY <1>1, <1>10
<1> QED
  BY <1>10, <1>11, <1>12, <1>13

\* Where the buffer begins without a newline nothing is found, and all of it is
\* the fragment.
LEMMA FragmentFacts ==
  ASSUME NEW buffer \in Seq(Piece), NEW k \in 0..Len(buffer),
         \A i \in 1..k : ~buffer[i].last
  PROVE  /\ Split(buffer)[k].requests = <<>>
         /\ Len(Split(buffer)[k].rest) = k
         /\ \A i \in 1..k : Split(buffer)[k].rest[i] = buffer[i]
<1> DEFINE s == Split(buffer)
           P(n) == /\ s[n].requests = <<>> /\ Len(s[n].rest) = n
                   /\ \A i \in 1..n : s[n].rest[i] = buffer[i]
           T == {n \in Nat : n <= k => P(n)}
<1>1. Len(buffer) \in Nat /\ \A n \in 1..Len(buffer) : buffer[n] \in Piece
  BY SeqFacts
<1>2. 0 \in T
  <2>1. s[0] = NothingYet
    BY SplitFacts
  <2>2. P(0)
    BY <2>1, EmptyFacts DEF NothingYet
  <2> QED
    BY <2>2
<1>3. ASSUME NEW n \in 0..k, n \in T, n < k PROVE n + 1 \in T
  <2>1. P(n)
    BY <1>3
  <2>2. n \in 0..Len(buffer) /\ n + 1 \in 1..k /\ n + 1 \in 1..Len(buffer) /\ (n + 1) - 1 = n
    BY <1>1, <1>3
  <2>3. s[n] \in Parsed /\ s[n + 1] = Take(s[n], buffer[n + 1]) /\ ~buffer[n + 1].last
    <3> HIDE DEF P, T
    <3>1. s[n] \in Parsed
      BY <2>2, SplitFacts
    <3>2. s[n + 1] = Take(s[(n + 1) - 1], buffer[n + 1])
      BY <2>2, SplitFacts
    <3> QED
      BY <2>2, <3>1, <3>2
  <2> HIDE DEF s
  <2>4. s[n + 1] = [requests |-> s[n].requests, rest |-> Append(s[n].rest, buffer[n + 1])]
    BY <1>1, <2>2, <2>3, TakeFacts
  <2>5. s[n].rest \in Seq(Piece) /\ buffer[n + 1] \in Piece
    BY <1>1, <2>2, <2>3 DEF Parsed
  <2> DEFINE a == Append(s[n].rest, buffer[n + 1])
  <2>6. /\ Len(a) = n + 1 /\ a[n + 1] = buffer[n + 1]
        /\ \A i \in DOMAIN s[n].rest : a[i] = s[n].rest[i]
        /\ DOMAIN s[n].rest = 1..n
    <3>1. DOMAIN s[n].rest = 1..n
      BY <2>1, <2>5, SeqFacts
    <3> QED
      BY <2>1, <2>5, <3>1, AppendFacts
  <2>7. \A i \in 1..n + 1 : i = n + 1 \/ i \in 1..n
    BY <2>2
  <2> HIDE DEF a
  <2>8. s[n + 1].requests = <<>> /\ s[n + 1].rest = a
    BY <2>1, <2>4 DEF a
  <2>9. P(n + 1)
    BY <2>1, <2>6, <2>7, <2>8
  <2> QED
    BY <2>9
<1>4. k \in Nat /\ k \in 0..k
  BY <1>1
<1>5. \A n \in 0..k : n \in T
  <2> HIDE DEF T
  <2> QED
    BY <1>2, <1>3, <1>4, UpTo
<1>6. P(k)
  BY <1>4, <1>5
<1> QED
  BY <1>6

\* What is left of a sequence after its first n elements.
Left(s, n) == SubSeq(s, n + 1, Len(s))

\* It has their number less n, and the same elements n places further on.
LEMMA LeftFacts ==
  ASSUME NEW S, NEW s \in Seq(S), NEW n \in 0..Len(s)
  PROVE  /\ Left(s, n) \in Seq(S) /\ Len(Left(s, n)) = Len(s) - n
         /\ DOMAIN Left(s, n) = 1..Len(s) - n
         /\ \A i \in 1..Len(s) - n : n + i \in DOMAIN s /\ Left(s, n)[i] = s[n + i]
<1>1. Len(s) \in Nat /\ DOMAIN s = 1..Len(s) /\ n + 1 \in Int
      /\ \A i \in n + 1..Len(s) : s[i] \in S
  BY SeqFacts
<1>2. /\ Left(s, n) \in Seq(S)
      /\ Len(Left(s, n)) = IF n + 1 <= Len(s) THEN Len(s) - (n + 1) + 1 ELSE 0
      /\ \A i \in 1..Len(s) - (n + 1) + 1 : Left(s, n)[i] = s[(n + 1) + i - 1]
  BY <1>1, SubSeqProperties DEF Left
<1> DEFINE l == Len(s)
<1> HIDE DEF l
<1>3. l \in Nat /\ n \in 0..l /\ l - (n + 1) + 1 = l - n
  BY <1>1 DEF l
<1>4. Len(Left(s, n)) = l - n
  <2>1. CASE n = l
    BY <1>2, <1>3, <2>1 DEF l
  <2>2. CASE n < l
    <3>1. n + 1 <= l
      BY <1>3, <2>2
    <3>2. Len(Left(s, n)) = l - (n + 1) + 1
      BY <1>2, <3>1 DEF l
    <3> QED
      BY <1>3, <3>2
  <2> QED
    BY <1>3, <2>1, <2>2
<1>5. \A i \in 1..l - n : n + i \in DOMAIN s /\ Left(s, n)[i] = s[n + i]
  <2> TAKE i \in 1..l - n
  <2>1. n + i \in 1..l /\ (n + 1) + i - 1 = n + i
    BY <1>3
  <2> QED
    BY <1>1, <1>2, <1>3, <2>1 DEF l
<1> QED
  BY <1>2, <1>4, <1>5, LenProperties DEF l

\* The requests of a sequence, as a set.
LEMMA RangeFacts ==
  ASSUME NEW s
  PROVE  Range(s) = ToSet(s)
BY DEF Range, ToSet

\* What is appended to the second of two sequences is appended to both.
LEMMA AppendAfter ==
  ASSUME NEW S, NEW h \in Seq(S), NEW q \in Seq(S), NEW e \in S
  PROVE  h \o Append(q, e) = Append(h \o q, e)
<1> DEFINE k == Len(h)
           n == Len(q)
           a == Append(q, e)
           c == h \o q
           x == h \o a
           y == Append(c, e)
<1>1. k \in Nat /\ n \in Nat /\ DOMAIN h = 1..k /\ DOMAIN q = 1..n
  BY SeqFacts
<1>2. /\ a \in Seq(S) /\ Len(a) = n + 1 /\ DOMAIN a = 1..n + 1 /\ a[n + 1] = e
      /\ \A i \in 1..n : a[i] = q[i]
  BY <1>1, AppendFacts
<1>3. /\ c \in Seq(S) /\ Len(c) = k + n /\ DOMAIN c = 1..k + n
      /\ \A i \in 1..k : c[i] = h[i]
      /\ \A i \in 1..n : c[k + i] = q[i]
  BY <1>1, ConcatFacts
<1> HIDE DEF a, c
<1>4. /\ x \in Seq(S) /\ Len(x) = k + (n + 1)
      /\ \A i \in 1..k : x[i] = h[i]
      /\ \A i \in 1..n + 1 : x[k + i] = a[i]
  <2>1. a \in Seq(S)
    BY <1>2
  <2>2. /\ x \in Seq(S) /\ Len(x) = Len(h) + Len(a)
        /\ \A i \in DOMAIN h : x[i] = h[i]
        /\ \A i \in DOMAIN a : x[Len(h) + i] = a[i]
    BY <2>1, ConcatFacts
  <2> HIDE DEF x
  <2> QED
    BY <1>1, <1>2, <2>2
<1>5. /\ y \in Seq(S) /\ Len(y) = (k + n) + 1 /\ y[(k + n) + 1] = e
      /\ \A i \in 1..k + n : y[i] = c[i]
  BY <1>3, AppendFacts
<1> HIDE DEF x, y
<1>6. ASSUME NEW i \in 1..k + (n + 1) PROVE x[i] = y[i]
  <2>1. CASE i \in 1..k
    <3>1. i \in 1..k + n
      BY <1>1, <2>1
    <3> QED
      BY <1>3, <1>4, <1>5, <2>1, <3>1
  <2>2. CASE i \notin 1..k /\ i # (k + n) + 1
    <3>1. i - k \in 1..n /\ i - k \in 1..n + 1 /\ k + (i - k) = i /\ i \in 1..k + n
      BY <1>1, <2>2
    <3>2. x[i] = a[i - k] /\ a[i - k] = q[i - k]
      BY <1>2, <1>4, <3>1
    <3>3. y[i] = c[i] /\ c[i] = q[i - k]
      BY <1>3, <1>5, <3>1
    <3> QED
      BY <3>2, <3>3
  <2>3. CASE i = (k + n) + 1
    <3>1. n + 1 \in 1..n + 1 /\ k + (n + 1) = i
      BY <1>1, <2>3
    <3>2. x[i] = a[n + 1]
      BY <1>4, <3>1
    <3> QED
      BY <1>2, <1>5, <2>3, <3>2
  <2> QED
    BY <2>1, <2>2, <2>3
<1>7. Len(x) = Len(y) /\ Len(x) = k + (n + 1)
  BY <1>1, <1>4, <1>5
<1>8. x = y
  BY <1>4, <1>5, <1>6, <1>7, SeqEqual
<1> QED
  BY <1>8 DEF x, y, a, c

\* A set of requests is finite.
LEMMA RequestsFinite ==
  ASSUME NEW R \in SUBSET Request
  PROVE  IsFiniteSet(R) /\ Cardinality(R) \in Nat
<1>1. 1 \in Int /\ MaxRequests \in Int
  OBVIOUS
<1>2. IsFiniteSet(Request)
  BY <1>1, FS_Interval DEF Request
<1>3. IsFiniteSet(R)
  BY <1>2, FS_Subset
<1> QED
  BY <1>3, FS_CardinalityType

\* A first half is put to the fragment and costs nothing; put to no fragment, it
\* is the half of the line that comes next.
LEMMA HalfStep ==
  ASSUME TypeOK, NEW d \in Seq(Request), NEW f \in Seq(Piece), NEW s \in Seq(Piece),
         NEW t \in Seq(Piece), NEW r \in SUBSET Request,
         s # <<>>, Len(t) = Len(s) - 1, \A i \in 1..Len(t) : t[i] = s[i + 1],
         InOrder(d, s), Paired(f, s), Paid(d, f, s, r), ~s[1].last
  PROVE  /\ InOrder(d, t) /\ Paired(Append(f, s[1]), t) /\ Paid(d, Append(f, s[1]), t, r)
         /\ Whole(f, s) => Whole(Append(f, s[1]), t)
<1> DEFINE g == Append(f, s[1])
<1>1. /\ Len(s) \in Nat /\ Len(s) # 0 /\ DOMAIN s = 1..Len(s) /\ DOMAIN t = 1..Len(s) - 1
      /\ 1 \in DOMAIN s /\ s[1] \in Piece /\ DOMAIN f = 1..Len(f) /\ Len(f) \in Nat
  BY SeqFacts, EmptySeq
<1>2. \A i \in DOMAIN t : i + 1 \in DOMAIN s /\ i + 1 # 1 /\ t[i] = s[i + 1]
  BY <1>1
<1>3. InOrder(d, t)
  <2>1. \A i, j \in DOMAIN t : i < j => i + 1 < j + 1
    BY <1>1
  <2> QED
    BY <1>2, <2>1 DEF InOrder
<1>4. /\ g \in Seq(Piece) /\ Len(g) = Len(f) + 1 /\ DOMAIN g = 1..Len(f) + 1
      /\ \A i \in DOMAIN f : g[i] = f[i]
      /\ g[Len(f) + 1] = s[1]
  BY <1>1, AppendFacts
<1> HIDE DEF g
<1>5. g # <<>>
  <2>1. Len(g) # 0
    BY <1>1, <1>4
  <2> QED
    BY <2>1, EmptyFacts
<1>6. Paired(g, t)
  <2>1. \A i \in DOMAIN g : ~g[i].last
    <3>1. \A i \in DOMAIN g : i \in DOMAIN f \/ i = Len(f) + 1
      BY <1>1, <1>4
    <3> QED
      BY <1>4, <3>1 DEF Paired
  <2>2. ASSUME NEW i \in DOMAIN t, t[i].last, i # 1 PROVE ~t[i - 1].last
    <3>1. i - 1 \in DOMAIN t /\ (i - 1) + 1 = i /\ (i + 1) - 1 = i
      BY <1>1, <2>2
    <3>2. t[i] = s[i + 1] /\ t[i - 1] = s[i] /\ i + 1 \in DOMAIN s /\ i + 1 # 1
      BY <1>2, <3>1
    <3> QED
      BY <2>2, <3>1, <3>2 DEF Paired
  <2>3. ASSUME NEW i \in DOMAIN t, ~t[i].last
        PROVE  i + 1 \in DOMAIN t /\ t[i + 1] = [msg |-> t[i].msg, last |-> TRUE]
    <3>1. t[i] = s[i + 1] /\ i + 1 \in DOMAIN s
      BY <1>2
    <3>2. (i + 1) + 1 \in DOMAIN s /\ s[(i + 1) + 1] = [msg |-> t[i].msg, last |-> TRUE]
      BY <2>3, <3>1 DEF Paired
    <3>3. i + 1 \in DOMAIN t
      BY <1>1, <3>2
    <3> QED
      BY <1>2, <3>2, <3>3
  <2> QED
    BY <1>5, <2>1, <2>2, <2>3 DEF Paired
<1>7. Whole(f, s) => f = <<>>
  BY DEF Whole
<1>8. ASSUME f = <<>> PROVE Whole(g, t)
  <2>1. Len(f) = 0 /\ Len(g) = 1 /\ g[1] = s[1]
    BY <1>4, <1>8, EmptySeq
  <2>2. 2 \in DOMAIN s /\ s[2] = [msg |-> s[1].msg, last |-> TRUE]
    <3>1. 1 + 1 \in DOMAIN s /\ s[1 + 1] = [msg |-> s[1].msg, last |-> TRUE]
      BY <1>1 DEF Paired
    <3> QED
      BY <3>1
  <2>3. 1 \in DOMAIN t /\ t[1] = s[2]
    BY <1>1, <1>2, <2>2
  <2>4. t # <<>>
    BY <2>3, EmptyFacts
  <2> QED
    BY <2>1, <2>2, <2>3, <2>4 DEF Whole
<1>9. Paid(d, g, t, r)
  <2>1. Cardinality(r \ Range(d)) \in Nat /\ breaks \in Nat
    BY RequestsFinite DEF TypeOK
  <2>2. CASE Whole(f, s)
    BY <1>7, <1>8, <2>2 DEF Paid
  <2>3. CASE ~Whole(f, s)
    <3>1. Cardinality(r \ Range(d)) + 1 <= breaks
      BY <2>3 DEF Paid
    <3> QED
      BY <2>1, <3>1 DEF Paid
  <2> QED
    BY <2>2, <2>3
<1> QED
  BY <1>3, <1>6, <1>7, <1>8, <1>9 DEF g

\* The newline of the line that the fragment began completes a request.
LEMMA NextLineParses ==
  ASSUME NEW f \in Seq(Piece), NEW s \in Seq(Piece), 1 \in DOMAIN s, s[1].last,
         Paired(f, s), Whole(f, s)
  PROVE  Parses(Append(f, s[1]))
<1> DEFINE g == Append(f, s[1])
<1>1. f # <<>> /\ s[1] \in Piece
  BY SeqFacts DEF Paired
<1>2. Len(f) = 1 /\ s[1] = [msg |-> f[1].msg, last |-> TRUE]
  BY <1>1 DEF Whole
<1>3. Len(g) = 2 /\ g[1] = f[1] /\ g[2] = s[1] /\ f[1] \in Piece /\ 1 \in DOMAIN f
  <2>1. Len(f) + 1 = 2 /\ 1 \in 1..Len(f)
    BY <1>2
  <2> QED
    BY <1>1, <2>1, SeqFacts, AppendFacts
<1> HIDE DEF g
<1>4. f[1].last = FALSE
  <2>1. ~f[1].last
    BY <1>3 DEF Paired
  <2> QED
    BY <1>3, <2>1 DEF Piece
<1>5. f[1] = [msg |-> f[1].msg, last |-> FALSE] /\ s[1].msg = f[1].msg
  BY <1>2, <1>3, <1>4 DEF Piece
<1>6. Parses(g)
  BY <1>2, <1>3, <1>5 DEF Parses
<1> QED
  BY <1>6 DEF g

\* A newline ends its line: either the line is the request whose turn it is, or
\* the fragment of an earlier connection costs it what the break had still to cost.
LEMMA NewlineStep ==
  ASSUME TypeOK, NEW d \in Seq(Request), NEW f \in Seq(Piece), NEW s \in Seq(Piece),
         NEW t \in Seq(Piece), NEW r \in SUBSET Request,
         s # <<>>, Len(t) = Len(s) - 1, \A i \in 1..Len(t) : t[i] = s[i + 1],
         InOrder(d, s), Paired(f, s), Paid(d, f, s, r), s[1].last
  PROVE  /\ Paired(<<>>, t)
         /\ Parses(Append(f, s[1])) => /\ InOrder(Append(d, s[1].msg), t)
                                       /\ Paid(Append(d, s[1].msg), <<>>, t, r \cup {s[1].msg})
         /\ ~Parses(Append(f, s[1])) => /\ InOrder(d, t)
                                        /\ Paid(d, <<>>, t, r \cup {s[1].msg})
<1> DEFINE m == s[1].msg
           e == Append(d, m)
           g == Append(f, s[1])
<1>1. /\ Len(s) \in Nat /\ Len(s) # 0 /\ DOMAIN s = 1..Len(s) /\ DOMAIN t = 1..Len(s) - 1
      /\ 1 \in DOMAIN s /\ s[1] \in Piece /\ m \in Request
      /\ DOMAIN d = 1..Len(d) /\ Len(d) \in Nat
  <2>1. /\ Len(s) \in Nat /\ Len(s) # 0 /\ DOMAIN s = 1..Len(s) /\ DOMAIN t = 1..Len(s) - 1
        /\ 1 \in DOMAIN s /\ s[1] \in Piece /\ DOMAIN d = 1..Len(d) /\ Len(d) \in Nat
    BY SeqFacts, EmptySeq
  <2> QED
    BY <2>1 DEF Piece
<1>2. \A i \in DOMAIN t : i + 1 \in DOMAIN s /\ i + 1 # 1 /\ 1 < i + 1 /\ t[i] = s[i + 1]
  BY <1>1
<1>3. \A i \in DOMAIN t : m < t[i].msg
  <2>1. \A i \in DOMAIN t : m < s[i + 1].msg \/ (~s[1].last /\ s[i + 1].last)
    BY <1>1, <1>2 DEF InOrder
  <2> QED
    BY <1>2, <2>1
<1>4. /\ e \in Seq(Request) /\ DOMAIN e = 1..Len(d) + 1
      /\ \A i \in DOMAIN d : e[i] = d[i]
      /\ e[Len(d) + 1] = m
      /\ Range(e) = Range(d) \cup {m}
  BY <1>1, AppendFacts, RangeFacts
<1>5. \A i \in DOMAIN e : i \in DOMAIN d \/ i = Len(d) + 1
  BY <1>1, <1>4
<1> HIDE DEF e, g, m
<1>6. InOrder(d, t)
  <2>1. \A i, j \in DOMAIN t : i < j => i + 1 < j + 1
    BY <1>1
  <2> QED
    BY <1>2, <2>1 DEF InOrder
<1>7. Paired(<<>>, t)
  <2>1. ASSUME NEW i \in DOMAIN t, t[i].last PROVE i # 1 /\ ~t[i - 1].last
    <3>1. t[i] = s[i + 1] /\ i + 1 \in DOMAIN s /\ i + 1 # 1 /\ (i + 1) - 1 = i
      BY <1>1, <1>2
    <3>2. ~s[i].last
      BY <2>1, <3>1 DEF Paired
    <3>3. i # 1
      BY <3>2
    <3>4. i - 1 \in DOMAIN t /\ (i - 1) + 1 = i
      BY <1>1, <3>3
    <3> QED
      BY <1>2, <3>2, <3>3, <3>4
  <2>2. ASSUME NEW i \in DOMAIN t, ~t[i].last
        PROVE  i + 1 \in DOMAIN t /\ t[i + 1] = [msg |-> t[i].msg, last |-> TRUE]
    <3>1. t[i] = s[i + 1] /\ i + 1 \in DOMAIN s
      BY <1>2
    <3>2. (i + 1) + 1 \in DOMAIN s /\ s[(i + 1) + 1] = [msg |-> t[i].msg, last |-> TRUE]
      BY <2>2, <3>1 DEF Paired
    <3>3. i + 1 \in DOMAIN t
      BY <1>1, <3>2
    <3> QED
      BY <1>2, <3>2, <3>3
  <2> QED
    BY <2>1, <2>2, EmptyFacts DEF Paired
<1>8. InOrder(e, t)
  <2>1. m \in DOMAIN sent /\ \A j \in DOMAIN d : d[j] < m
    BY <1>1 DEF InOrder, m
  <2>2. \A i \in DOMAIN e : e[i] \in DOMAIN sent
    BY <1>4, <1>5, <2>1 DEF InOrder
  <2>3. ASSUME NEW i \in DOMAIN e, NEW j \in DOMAIN e, i < j PROVE e[i] < e[j]
    <3>1. i \in DOMAIN d
      BY <1>1, <1>4, <1>5, <2>3
    <3>2. CASE j \in DOMAIN d
      BY <1>4, <2>3, <3>1, <3>2 DEF InOrder
    <3>3. CASE j = Len(d) + 1
      BY <1>4, <2>1, <3>1, <3>3
    <3> QED
      BY <1>5, <3>2, <3>3
  <2>4. \A i \in DOMAIN t : \A j \in DOMAIN e : e[j] < t[i].msg
    BY <1>3, <1>4, <1>5, <1>6 DEF InOrder
  <2> QED
    BY <1>6, <2>2, <2>3, <2>4 DEF InOrder
<1>9. Whole(<<>>, t)
  BY DEF Whole
<1>10. Range(d) \subseteq Request /\ breaks \in Nat
  BY SeqFacts, RangeFacts DEF TypeOK
<1> DEFINE lost == r \ Range(d)
<1>11. IsFiniteSet(lost) /\ Cardinality(lost) \in Nat
  BY RequestsFinite
<1>12. CASE Parses(g)
  <2>1. (r \cup {m}) \ Range(e) \subseteq lost
    BY <1>4
  <2>2. Cardinality((r \cup {m}) \ Range(e)) <= Cardinality(lost)
    BY <1>11, <2>1, FS_Subset
  <2>3. Cardinality((r \cup {m}) \ Range(e)) \in Nat
    BY <1>1, RequestsFinite
  <2>4. Cardinality(lost) <= breaks
    BY <1>10, <1>11 DEF Paid
  <2>5. Paid(e, <<>>, t, r \cup {m})
    BY <1>9, <1>10, <1>11, <2>2, <2>3, <2>4 DEF Paid
  <2> QED
    BY <1>7, <1>8, <1>12, <2>5 DEF e, g, m
<1>13. CASE ~Parses(g)
  <2>1. ~Whole(f, s)
    BY <1>1, <1>13, NextLineParses DEF g
  <2>2. Cardinality(lost) + 1 <= breaks
    BY <2>1 DEF Paid
  <2>3. (r \cup {m}) \ Range(d) \subseteq lost \cup {m}
    OBVIOUS
  <2>4. IsFiniteSet(lost \cup {m})
        /\ (Cardinality(lost \cup {m}) = Cardinality(lost)
            \/ Cardinality(lost \cup {m}) = Cardinality(lost) + 1)
    BY <1>11, FS_AddElement
  <2>5. Cardinality((r \cup {m}) \ Range(d)) <= Cardinality(lost \cup {m})
    BY <2>3, <2>4, FS_Subset
  <2>6. Cardinality((r \cup {m}) \ Range(d)) \in Nat
    BY <1>1, RequestsFinite
  <2>7. Cardinality((r \cup {m}) \ Range(d)) <= breaks
    BY <1>10, <1>11, <2>2, <2>4, <2>5, <2>6
  <2>8. Paid(d, <<>>, t, r \cup {m})
    BY <1>9, <1>10, <2>6, <2>7 DEF Paid
  <2> QED
    BY <1>6, <1>7, <1>13, <2>8 DEF g, m
<1> QED
  BY <1>12, <1>13 DEF g

\* The requests whose newline is among the first n of some pieces.
Ends(s, n) == {s[i].msg : i \in {j \in 1..n : s[j].last}}

\* Whatever part of what was written arrives in one chunk: the requests found in
\* it and the fragment it leaves are again in order, paired and paid for; and
\* without a fragment of an earlier connection none of its lines is lost.
LEMMA ChunkFramed ==
  ASSUME IInv, NEW n \in 0..Len(stream)
  PROVE  LET buffer == inbound \o SubSeq(stream, 1, n)
             parts == Split(buffer)[Len(buffer)]
         IN  /\ parts \in Parsed
             /\ InOrder(handled \o parts.requests, Left(stream, n))
             /\ Paired(parts.rest, Left(stream, n))
             /\ Paid(handled \o parts.requests, parts.rest, Left(stream, n),
                     read \cup Ends(stream, n))
             /\ Whole(inbound, stream) =>
                  /\ Whole(parts.rest, Left(stream, n))
                  /\ Ends(stream, n) \subseteq Range(handled \o parts.requests)
<1> DEFINE chunk == SubSeq(stream, 1, n)
           buffer == inbound \o chunk
           b == Len(inbound)
           at(i) == Split(buffer)[b + i]
           d(i) == handled \o at(i).requests
           r(i) == read \cup Ends(stream, i)
           P(i) == /\ InOrder(d(i), Left(stream, i))
                   /\ Paired(at(i).rest, Left(stream, i))
                   /\ Paid(d(i), at(i).rest, Left(stream, i), r(i))
                   /\ Whole(inbound, stream) =>
                        /\ Whole(at(i).rest, Left(stream, i))
                        /\ Ends(stream, i) \subseteq Range(d(i))
           T == {i \in Nat : i <= n => P(i)}
<1>0. TypeOK /\ FramingInv
  BY DEF IInv
<1>1. /\ stream \in Seq(Piece) /\ inbound \in Seq(Piece) /\ handled \in Seq(Request)
      /\ read \in SUBSET Request /\ Len(stream) \in Nat /\ b \in Nat
      /\ DOMAIN inbound = 1..b /\ DOMAIN stream = 1..Len(stream)
  BY <1>0, SeqFacts DEF TypeOK
<1>2. n \in Nat /\ n <= Len(stream)
  BY <1>1
<1>3. /\ chunk \in Seq(Piece) /\ Len(chunk) = n /\ DOMAIN chunk = 1..n
      /\ \A i \in 1..n : i \in DOMAIN stream /\ chunk[i] = stream[i]
  BY <1>1, PrefixFacts
<1> HIDE DEF chunk
<1>4. /\ buffer \in Seq(Piece) /\ Len(buffer) = b + n
      /\ \A i \in 1..b : buffer[i] = inbound[i]
      /\ \A i \in 1..n : buffer[b + i] = stream[i]
  <2>1. /\ buffer \in Seq(Piece) /\ Len(buffer) = Len(inbound) + Len(chunk)
        /\ \A i \in DOMAIN inbound : buffer[i] = inbound[i]
        /\ \A i \in DOMAIN chunk : buffer[Len(inbound) + i] = chunk[i]
    <3>1. inbound \in Seq(Piece) /\ chunk \in Seq(Piece)
      BY <1>1, <1>3
    <3> QED
      BY <3>1, ConcatFacts
  <2> HIDE DEF buffer
  <2> QED
    BY <1>1, <1>3, <2>1
<1> HIDE DEF buffer
<1>5. \A i \in 0..n : at(i) \in Parsed
  <2> TAKE i \in 0..n
  <2>1. b + i \in 0..b + n
    BY <1>1, <1>2
  <2> QED
    BY <1>4, <2>1, SplitFacts
<1>6. \A i \in 0..n : d(i) \in Seq(Request) /\ at(i).rest \in Seq(Piece)
  BY <1>1, <1>5, ConcatFacts DEF Parsed
<1>7. \A i \in 0..n : r(i) \in SUBSET Request
  <2> TAKE i \in 0..n
  <2>1. \A j \in 1..i : stream[j] \in Piece
    BY <1>1, <1>2, SeqFacts
  <2> QED
    BY <1>1, <2>1 DEF Ends, Piece
<1>8. 0 \in T
  <2>1. b \in 0..Len(buffer) /\ \A i \in 1..b : ~buffer[i].last
    BY <1>0, <1>1, <1>2, <1>4 DEF FramingInv, Paired
  <2>2. /\ Split(buffer)[b].requests = <<>> /\ Len(Split(buffer)[b].rest) = b
        /\ \A i \in 1..b : Split(buffer)[b].rest[i] = inbound[i]
    BY <1>4, <2>1, FragmentFacts
  <2>3. b + 0 = b /\ 0 \in 0..n
    BY <1>1, <1>2
  <2>4. at(0).requests = <<>> /\ at(0).rest = inbound
    <3>1. at(0).rest \in Seq(Piece)
      BY <1>6, <2>3
    <3> QED
      BY <1>1, <2>2, <2>3, <3>1, SeqEqual
  <2>5. d(0) = handled
    BY <1>1, <2>4, ConcatEmptySeq
  <2>6. Left(stream, 0) = stream
    <3>1. /\ Left(stream, 0) \in Seq(Piece) /\ Len(Left(stream, 0)) = Len(stream) - 0
          /\ \A i \in 1..Len(stream) - 0 : Left(stream, 0)[i] = stream[0 + i]
      BY <1>1, LeftFacts
    <3>2. Len(stream) - 0 = Len(stream) /\ \A i \in 1..Len(stream) : 0 + i = i
      BY <1>1
    <3> QED
      BY <1>1, <3>1, <3>2, SeqEqual
  <2>7. r(0) = read /\ Ends(stream, 0) = {}
    BY SMT DEF Ends
  <2> HIDE DEF d, r, at
  <2>8. P(0)
    BY <1>0, <2>4, <2>5, <2>6, <2>7 DEF FramingInv
  <2> QED
    BY <2>8
<1>9. ASSUME NEW i \in 0..n, i \in T, i < n PROVE i + 1 \in T
  <2>1. P(i) /\ i + 1 \in 1..n /\ i + 1 \in 0..n /\ i + 1 \in 0..Len(stream) /\ i \in 0..Len(stream)
    BY <1>1, <1>2, <1>9
  <2> DEFINE s == Left(stream, i)
             t == Left(stream, i + 1)
             piece == stream[i + 1]
  <2>2. /\ s \in Seq(Piece) /\ Len(s) = Len(stream) - i
        /\ \A j \in 1..Len(stream) - i : s[j] = stream[i + j]
    BY <1>1, <2>1, LeftFacts
  <2>3. /\ t \in Seq(Piece) /\ Len(t) = Len(stream) - (i + 1)
        /\ \A j \in 1..Len(stream) - (i + 1) : t[j] = stream[(i + 1) + j]
    BY <1>1, <2>1, LeftFacts
  <2> HIDE DEF s, t
  <2>4. Len(t) = Len(s) - 1 /\ \A j \in 1..Len(t) : t[j] = s[j + 1]
    <3>1. \A j \in 1..Len(stream) - (i + 1) :
            (i + 1) + j = i + (j + 1) /\ j + 1 \in 1..Len(stream) - i
      BY <1>1, <1>2, <1>9
    <3> QED
      BY <1>1, <1>2, <1>9, <2>2, <2>3, <3>1
  <2>5. s # <<>> /\ s[1] = piece /\ piece \in Piece
    <3>1. Len(s) # 0 /\ 1 \in 1..Len(stream) - i
      BY <1>1, <1>2, <1>9, <2>2
    <3> QED
      <4>1. s # <<>>
        BY <3>1, EmptyFacts
      <4>2. s[1] = piece
        BY <2>2, <3>1
      <4>3. piece \in Piece
        BY <1>1, <1>2, <2>1, SeqFacts
      <4> QED
        BY <4>1, <4>2, <4>3
  <2>6. at(i + 1) = Take(at(i), piece)
    <3>1. b + (i + 1) \in 1..b + n /\ (b + (i + 1)) - 1 = b + i
      BY <1>1, <1>2, <2>1
    <3>2. Split(buffer)[b + (i + 1)]
            = Take(Split(buffer)[(b + (i + 1)) - 1], buffer[b + (i + 1)])
      BY <1>4, <3>1, SplitFacts
    <3>3. buffer[b + (i + 1)] = stream[i + 1]
      BY <1>4, <2>1
    <3> QED
      BY <3>1, <3>2, <3>3
  <2> DEFINE p == at(i)
             q == at(i + 1)
             dd == d(i)
             ee == d(i + 1)
             ends == r(i)
             more == r(i + 1)
             free == Whole(inbound, stream)
             these == Ends(stream, i)
             those == Ends(stream, i + 1)
  <2>7. p \in Parsed /\ dd \in Seq(Request) /\ p.rest \in Seq(Piece) /\ ends \in SUBSET Request
    BY <1>5, <1>6, <1>7
  <2>8. q = Take(p, piece)
    BY <2>6
  <2>9. dd = handled \o p.requests /\ ee = handled \o q.requests /\ p.requests \in Seq(Request)
    BY <2>7 DEF Parsed
  <2>10. InOrder(dd, s) /\ Paired(p.rest, s) /\ Paid(dd, p.rest, s, ends)
    BY <2>1 DEF s
  <2>11. free => Whole(p.rest, s) /\ these \subseteq Range(dd)
    BY <2>1 DEF s
  <2>12. /\ more = ends \cup (IF piece.last THEN {piece.msg} ELSE {})
         /\ those = these \cup (IF piece.last THEN {piece.msg} ELSE {})
    <3>1. \A j : j \in 1..i + 1 <=> j \in 1..i \/ j = i + 1
      BY <1>2, <1>9
    <3>2. Ends(stream, i + 1) = Ends(stream, i) \cup (IF piece.last THEN {piece.msg} ELSE {})
      BY <3>1, Zenon DEF Ends
    <3> QED
      BY <3>2
  <2>13. SUFFICES /\ InOrder(ee, t) /\ Paired(q.rest, t) /\ Paid(ee, q.rest, t, more)
                  /\ free => Whole(q.rest, t) /\ those \subseteq Range(ee)
    BY DEF t
  <2> HIDE DEF p, q, dd, ee, ends, more, free, these, those, at, d, r, T, P, piece
  <2>14. CASE ~piece.last
    <3>1. q = [requests |-> p.requests, rest |-> Append(p.rest, piece)]
      BY <2>5, <2>7, <2>8, <2>14, TakeFacts
    <3>2. q.rest = Append(p.rest, s[1]) /\ ee = dd /\ more = ends /\ those = these
      BY <2>5, <2>9, <2>12, <2>14, <3>1
    <3>3. /\ InOrder(dd, t) /\ Paired(Append(p.rest, s[1]), t)
          /\ Paid(dd, Append(p.rest, s[1]), t, ends)
          /\ Whole(p.rest, s) => Whole(Append(p.rest, s[1]), t)
      <4>1. /\ TypeOK /\ dd \in Seq(Request) /\ p.rest \in Seq(Piece) /\ ends \in SUBSET Request
            /\ s \in Seq(Piece) /\ t \in Seq(Piece) /\ s # <<>>
            /\ Len(t) = Len(s) - 1 /\ \A j \in 1..Len(t) : t[j] = s[j + 1]
            /\ InOrder(dd, s) /\ Paired(p.rest, s) /\ Paid(dd, p.rest, s, ends) /\ ~s[1].last
        BY <1>0, <2>2, <2>3, <2>4, <2>5, <2>7, <2>10, <2>14
      <4> QED
        BY <4>1, HalfStep
    <3>4. InOrder(ee, t) /\ Paired(q.rest, t) /\ Paid(ee, q.rest, t, more)
      BY <3>2, <3>3
    <3>5. free => Whole(q.rest, t) /\ those \subseteq Range(ee)
      BY <2>11, <3>2, <3>3
    <3> QED
      BY <3>4, <3>5
  <2>15. CASE piece.last
    <3>1. /\ Paired(<<>>, t)
          /\ Parses(Append(p.rest, s[1])) => /\ InOrder(Append(dd, s[1].msg), t)
                                             /\ Paid(Append(dd, s[1].msg), <<>>, t, ends \cup {s[1].msg})
          /\ ~Parses(Append(p.rest, s[1])) => /\ InOrder(dd, t)
                                              /\ Paid(dd, <<>>, t, ends \cup {s[1].msg})
      <4>1. /\ TypeOK /\ dd \in Seq(Request) /\ p.rest \in Seq(Piece) /\ ends \in SUBSET Request
            /\ s \in Seq(Piece) /\ t \in Seq(Piece) /\ s # <<>>
            /\ Len(t) = Len(s) - 1 /\ \A j \in 1..Len(t) : t[j] = s[j + 1]
            /\ InOrder(dd, s) /\ Paired(p.rest, s) /\ Paid(dd, p.rest, s, ends) /\ s[1].last
        BY <1>0, <2>2, <2>3, <2>4, <2>5, <2>7, <2>10, <2>15
      <4> QED
        BY <4>1, NewlineStep
    <3>2. more = ends \cup {s[1].msg} /\ those = these \cup {s[1].msg}
      BY <2>5, <2>12, <2>15
    <3>3. CASE Parses(Append(p.rest, s[1]))
      <4>1. q = [requests |-> Append(p.requests, s[1].msg), rest |-> <<>>]
        BY <2>5, <2>7, <2>8, <2>15, <3>3, TakeFacts
      <4>2. s[1].msg \in Request
        BY <2>5 DEF Piece
      <4>3. handled \o Append(p.requests, s[1].msg) = Append(handled \o p.requests, s[1].msg)
        <5>1. handled \in Seq(Request) /\ p.requests \in Seq(Request)
          BY <1>1, <2>9
        <5> QED
          BY <4>2, <5>1, AppendAfter
      <4>4. ee = Append(dd, s[1].msg) /\ q.rest = <<>>
        BY <2>9, <4>1, <4>3
      <4>5. Range(ee) = Range(dd) \cup {s[1].msg}
        BY <2>7, <4>2, <4>4, AppendFacts, RangeFacts
      <4>6. Whole(q.rest, t)
        BY <4>4 DEF Whole
      <4>7. free => those \subseteq Range(ee)
        BY <2>11, <3>2, <4>5
      <4>8. InOrder(ee, t) /\ Paired(q.rest, t) /\ Paid(ee, q.rest, t, more)
        BY <3>1, <3>2, <3>3, <4>4
      <4> QED
        BY <4>6, <4>7, <4>8
    <3>4. CASE ~Parses(Append(p.rest, s[1]))
      <4>1. q = [requests |-> p.requests, rest |-> <<>>]
        BY <2>5, <2>7, <2>8, <2>15, <3>4, TakeFacts
      <4>2. ee = dd /\ q.rest = <<>>
        BY <2>9, <4>1
      <4>3. ~free
        <5>1. 1 \in DOMAIN s
          BY <2>2, <2>5, TailFacts
        <5> QED
          BY <2>2, <2>5, <2>7, <2>10, <2>11, <2>15, <3>4, <5>1, NextLineParses
      <4> QED
        BY <3>1, <3>2, <3>4, <4>2, <4>3
    <3> QED
      BY <3>3, <3>4
  <2> QED
    BY <2>14, <2>15
<1>10. P(n)
  <2> HIDE DEF T
  <2>1. \A i \in 0..n : i \in T
    BY <1>2, <1>8, <1>9, UpTo
  <2>2. n \in T
    BY <1>2, <2>1
  <2> QED
    BY <1>2, <2>2 DEF T
<1>11. n \in 0..n
  BY <1>2
<1> QED
  BY <1>4, <1>5, <1>10, <1>11 DEF buffer, chunk

-----------------------------------------------------------------------------
(***************************************************************************)
(* The park, what an action makes of it, and what a snapshot shows of it.  *)
(***************************************************************************)
\* A ride as a snapshot shows it.
Shown(ride) ==
  [status |-> MapRideStatus(ride.status),
   price |-> IF ride.price = <<>> THEN 0 ELSE ride.price[1],
   queue_length |-> 0]

\* What a snapshot shows of a ride that stands is a ride of the protocol.
LEMMA ShownFacts ==
  ASSUME NEW ride \in EngineRide
  PROVE  /\ Shown(ride) \in Ride /\ Shown(ride) # None
         /\ Shown(ride).status = MapRideStatus(ride.status)
         /\ Shown(ride).price = IF ride.price = <<>> THEN 0 ELSE ride.price[1]
<1>1. ride.status \in EngineStatus /\ ride.price \in Seq(Nat)
  BY DEF EngineRide
<1>2. MapRideStatus(ride.status) \in RideStatus
  BY <1>1 DEF MapRideStatus, RideStatus, EngineStatus
<1> DEFINE price == IF ride.price = <<>> THEN 0 ELSE ride.price[1]
<1>3. price \in Nat
  <2>1. ride.price # <<>> => ride.price[1] \in Nat
    BY <1>1, TailFacts
  <2> QED
    BY <2>1
<1> HIDE DEF price
<1>4. Shown(ride) = [status |-> MapRideStatus(ride.status), price |-> price, queue_length |-> 0]
  BY DEF Shown, price
<1>5. Shown(ride) \in Ride
  BY <1>2, <1>3, <1>4 DEF Ride
<1>6. Shown(ride) # None
  BY <1>5, NoneAssumption
<1> QED
  BY <1>4, <1>5, <1>6 DEF price

\* The rides of a snapshot are those of the park, as they are shown.
LEMMA RidesFacts ==
  ASSUME NEW p \in Park
  PROVE  /\ BuildRides(p) \in [RideIds -> Ride \cup {None}]
         /\ \A id \in RideIds :
              /\ p.rides[id] = None => BuildRides(p)[id] = None
              /\ p.rides[id] # None => /\ p.rides[id] \in EngineRide
                                       /\ BuildRides(p)[id] = Shown(p.rides[id])
                                       /\ BuildRides(p)[id] # None
<1>1. p.rides \in [RideIds -> EngineRide \cup {None}]
  BY DEF Park
<1>2. BuildRides(p) = [id \in RideIds |-> IF p.rides[id] = None THEN None ELSE Shown(p.rides[id])]
  BY DEF BuildRides, Shown
<1>3. ASSUME NEW id \in RideIds
      PROVE  /\ p.rides[id] = None => BuildRides(p)[id] = None
             /\ p.rides[id] # None => /\ p.rides[id] \in EngineRide
                                      /\ BuildRides(p)[id] = Shown(p.rides[id])
                                      /\ Shown(p.rides[id]) \in Ride
                                      /\ BuildRides(p)[id] # None
  <2>1. CASE p.rides[id] = None
    BY <1>2, <2>1
  <2>2. CASE p.rides[id] # None
    <3>1. p.rides[id] \in EngineRide
      BY <1>1, <2>2
    <3>2. BuildRides(p)[id] = Shown(p.rides[id])
      BY <1>2, <2>2
    <3> QED
      BY <2>2, <3>1, <3>2, ShownFacts
  <2> QED
    BY <2>1, <2>2
<1>4. BuildRides(p) \in [RideIds -> Ride \cup {None}]
  <2>1. \A id \in RideIds : BuildRides(p)[id] \in Ride \cup {None}
    BY <1>3
  <2> QED
    BY <1>2, <2>1
<1> QED
  BY <1>3, <1>4

\* Staff by type: an entry per type, a number each.
LEMMA StaffFacts ==
  ASSUME NEW p \in Park
  PROVE  /\ BuildStaffCounts(p) \in StaffCounts
         /\ \A type \in StaffType :
              LET of == {i \in DOMAIN p.staff : p.staff[i] = type} IN
              IsFiniteSet(of) /\ BuildStaffCounts(p)[type] = Cardinality(of)
<1>1. p.staff \in Seq(StaffType)
  BY DEF Park
<1>2. Len(p.staff) \in Nat /\ DOMAIN p.staff = 1..Len(p.staff)
  BY <1>1, SeqFacts
<1>3. 1 \in Int /\ Len(p.staff) \in Int
  BY <1>2
<1>4. IsFiniteSet(DOMAIN p.staff)
  BY <1>2, <1>3, FS_Interval
<1>5. ASSUME NEW type \in StaffType
      PROVE  /\ IsFiniteSet({i \in DOMAIN p.staff : p.staff[i] = type})
             /\ Cardinality({i \in DOMAIN p.staff : p.staff[i] = type}) \in Nat
  <2>1. IsFiniteSet({i \in DOMAIN p.staff : p.staff[i] = type})
    BY <1>4, FS_Subset
  <2> QED
    BY <2>1, FS_CardinalityType
<1>6. BuildStaffCounts(p) \in StaffCounts
  BY <1>5 DEF BuildStaffCounts, StaffCounts
<1> QED
  BY <1>5, <1>6 DEF BuildStaffCounts

\* Every park is shown as a snapshot of the protocol.
LEMMA SnapshotFacts ==
  ASSUME NEW p \in Park
  PROVE  BuildObservationSnapshot(p) \in ObservationSnapshot
<1>1. p.month \in 0..7 /\ p.weather \in EngineWeather
  BY DEF Park
<1>2. p.month + 1 \in 1..8
  BY <1>1
<1>3. MapWeather(p.weather) \in Weather
  BY <1>1 DEF MapWeather, Weather, EngineWeather
<1> QED
  BY <1>2, <1>3, RidesFacts, StaffFacts DEF BuildObservationSnapshot, ObservationSnapshot

\* One ride put in the place of another is the one change to park and snapshot.
LEMMA RideChange ==
  ASSUME NEW p \in Park, NEW id \in RideIds, NEW ride \in EngineRide,
         NEW q, q = [p EXCEPT !.rides = [p.rides EXCEPT ![id] = ride]]
  PROVE  /\ q \in Park /\ q.fee = p.fee /\ BuildStaffCounts(q) = BuildStaffCounts(p)
         /\ BuildRides(q) = [BuildRides(p) EXCEPT ![id] = Shown(ride)]
         /\ BuildObservationSnapshot(q)
              = [BuildObservationSnapshot(p) EXCEPT !.rides = BuildRides(q)]
<1> DEFINE rides == [p.rides EXCEPT ![id] = ride]
<1>1. p.rides \in [RideIds -> EngineRide \cup {None}]
  BY DEF Park
<1>2. /\ rides \in [RideIds -> EngineRide \cup {None}] /\ rides[id] = ride
      /\ \A i \in RideIds : i # id => rides[i] = p.rides[i]
  BY <1>1
<1>0. q = [p EXCEPT !.rides = rides]
  OBVIOUS
<1> HIDE DEF rides
<1>3. /\ q \in Park /\ q.rides = rides /\ q.fee = p.fee /\ q.staff = p.staff
      /\ q.month = p.month /\ q.weather = p.weather
  BY <1>0, <1>2 DEF Park
<1>4. BuildStaffCounts(q) = BuildStaffCounts(p)
  BY <1>3 DEF BuildStaffCounts
<1>5. BuildRides(q) = [BuildRides(p) EXCEPT ![id] = Shown(ride)]
  <2>1. ride # None
    BY NoRideAssumption
  <2>2. /\ BuildRides(p) \in [RideIds -> Ride \cup {None}]
        /\ BuildRides(q) \in [RideIds -> Ride \cup {None}]
    BY <1>3, RidesFacts
  <2>3. BuildRides(q)[id] = Shown(ride)
    BY <1>2, <1>3, <2>1, RidesFacts
  <2>4. \A i \in RideIds : i # id => BuildRides(q)[i] = BuildRides(p)[i]
    BY <1>2, <1>3 DEF BuildRides
  <2> QED
    BY <2>2, <2>3, <2>4
<1>6. BuildObservationSnapshot(q) = [BuildObservationSnapshot(p) EXCEPT !.rides = BuildRides(q)]
  BY <1>3, <1>4 DEF BuildObservationSnapshot
<1> QED
  BY <1>3, <1>4, <1>5, <1>6

\* What the protocol means by a command c that turns park p into q.
Obeys(p, q, c) ==
  LET before_ == BuildObservationSnapshot(p)
      after == BuildObservationSnapshot(q)
  IN
  \/ q = p
  \/ /\ c.action = "set_ride_price" /\ before_.rides[c.ride_id] # None
     /\ after = [before_ EXCEPT !.rides[c.ride_id].price = c.price] /\ q.fee = p.fee
  \/ /\ c.action = "open_ride" /\ before_.rides[c.ride_id] # None
     /\ after = [before_ EXCEPT !.rides[c.ride_id].status = "open"] /\ q.fee = p.fee
  \/ /\ c.action = "close_ride" /\ before_.rides[c.ride_id] # None
     /\ after = [before_ EXCEPT !.rides[c.ride_id].status = "closed"] /\ q.fee = p.fee
  \/ /\ c.action = "hire_staff"
     /\ after = [before_ EXCEPT !.staff_counts[c.type] = @ + 1] /\ q.fee = p.fee
  \/ /\ c.action = "set_park_entry_fee"
     /\ after = before_ /\ q.fee = c.price

\* A ride is opened or closed by the engine's number for the status.
LEMMA StatusObeyed ==
  ASSUME NEW p \in Park, NEW c, c.action \in {"open_ride", "close_ride"}, c.ride_id \in RideIds
  PROVE  /\ Executed(p, ToGameAction(c)) \in Park
         /\ Obeys(p, Executed(p, ToGameAction(c)), c)
<1> DEFINE id == c.ride_id
           number == IF c.action = "open_ride" THEN 1 ELSE 0
           word == IF c.action = "open_ride" THEN "open" ELSE "closed"
           q == Executed(p, ToGameAction(c))
<1>1. ToGameAction(c) = [action |-> "ridesetstatus", ride |-> id, status |-> number]
  BY DEF ToGameAction
<1>2. EngineStatusOf[number + 1] = word /\ word \in EngineStatus /\ MapRideStatus(word) = word
  BY DEF EngineStatusOf, EngineStatus, MapRideStatus, RideStatus
<1> HIDE DEF number, word
<1>3. q = IF p.rides[id] # None
            THEN [p EXCEPT !.rides[id].status = EngineStatusOf[number + 1]] ELSE p
  BY <1>1 DEF Executed
<1>4. CASE p.rides[id] = None
  BY <1>3, <1>4 DEF Obeys
<1>5. CASE p.rides[id] # None
  <2> DEFINE ride == [p.rides[id] EXCEPT !.status = word]
  <2>1. /\ p.rides[id] \in EngineRide /\ BuildRides(p)[id] # None
        /\ BuildRides(p)[id] = Shown(p.rides[id])
    BY <1>5, RidesFacts
  <2>2. ride \in EngineRide /\ ride.status = word /\ ride.price = p.rides[id].price
    BY <1>2, <2>1 DEF EngineRide
  <2>3. q = [p EXCEPT !.rides = [p.rides EXCEPT ![id] = ride]]
    BY <1>2, <1>3, <1>5
  <2> HIDE DEF q, ride
  <2>4. /\ q \in Park /\ q.fee = p.fee
        /\ BuildRides(q) = [BuildRides(p) EXCEPT ![id] = Shown(ride)]
        /\ BuildObservationSnapshot(q) = [BuildObservationSnapshot(p) EXCEPT !.rides = BuildRides(q)]
    BY <2>2, <2>3, RideChange
  <2>5. Shown(ride) = [Shown(p.rides[id]) EXCEPT !.status = word]
    BY <1>2, <2>2 DEF Shown
  <2>6. BuildObservationSnapshot(p).rides = BuildRides(p)
    BY DEF BuildObservationSnapshot
  <2>7. BuildObservationSnapshot(q)
          = [BuildObservationSnapshot(p) EXCEPT !.rides[id].status = word]
    BY <2>1, <2>4, <2>5, <2>6
  <2>8. Obeys(p, q, c)
    BY <2>1, <2>4, <2>6, <2>7 DEF Obeys, word
  <2> QED
    BY <2>4, <2>8 DEF q
<1> QED
  BY <1>4, <1>5

\* The price that is set is the primary one, which is the one that is shown.
LEMMA PriceObeyed ==
  ASSUME NEW p \in Park, NEW c, c.action = "set_ride_price", c.ride_id \in RideIds,
         c.price \in Nat
  PROVE  /\ Executed(p, ToGameAction(c)) \in Park
         /\ Obeys(p, Executed(p, ToGameAction(c)), c)
<1> DEFINE id == c.ride_id
           q == Executed(p, ToGameAction(c))
<1>1. ToGameAction(c) = [action |-> "ridesetprice", ride |-> id, price |-> c.price,
                         isPrimaryPrice |-> TRUE]
  BY DEF ToGameAction
<1>2. q = IF p.rides[id] # None /\ 1 \in DOMAIN p.rides[id].price
            THEN [p EXCEPT !.rides[id].price[1] = c.price] ELSE p
  BY <1>1 DEF Executed
<1>3. CASE ~(p.rides[id] # None /\ 1 \in DOMAIN p.rides[id].price)
  BY <1>2, <1>3 DEF Obeys
<1>4. CASE p.rides[id] # None /\ 1 \in DOMAIN p.rides[id].price
  <2> DEFINE old == p.rides[id].price
             price == [old EXCEPT ![1] = c.price]
             ride == [p.rides[id] EXCEPT !.price = price]
  <2>1. /\ p.rides[id] \in EngineRide /\ BuildRides(p)[id] # None
        /\ BuildRides(p)[id] = Shown(p.rides[id])
    BY <1>4, RidesFacts
  <2>2. old \in Seq(Nat) /\ 1 \in DOMAIN old
    BY <1>4, <2>1 DEF EngineRide
  <2>3. price \in Seq(Nat) /\ price[1] = c.price /\ price # <<>>
    <3>1. price \in Seq(Nat) /\ DOMAIN price = DOMAIN old /\ price[1] = c.price
      <4>1. Len(old) \in Nat /\ DOMAIN old = 1..Len(old) /\ \A i \in 1..Len(old) : old[i] \in Nat
        <5> HIDE DEF old
        <5> QED
          BY <2>2, SeqFacts
      <4>2. price \in [1..Len(old) -> Nat] /\ price[1] = c.price /\ DOMAIN price = DOMAIN old
        <5> HIDE DEF old
        <5>1. price = [i \in DOMAIN old |-> IF i = 1 THEN c.price ELSE old[i]]
          OBVIOUS
        <5> HIDE DEF price
        <5> QED
          BY <2>2, <4>1, <5>1
      <4> HIDE DEF price
      <4> QED
        BY <4>1, <4>2, FunctionFacts
    <3> HIDE DEF price
    <3>2. price # <<>>
      BY <2>2, <3>1, EmptyFacts
    <3> QED
      BY <3>1, <3>2
  <2>4. q = [p EXCEPT !.rides = [p.rides EXCEPT ![id] = ride]]
    BY <1>2, <1>4
  <2> HIDE DEF q, price
  <2>5. ride \in EngineRide /\ ride.status = p.rides[id].status /\ ride.price = price
    BY <2>1, <2>3 DEF EngineRide
  <2> HIDE DEF ride
  <2>6. /\ q \in Park /\ q.fee = p.fee
        /\ BuildRides(q) = [BuildRides(p) EXCEPT ![id] = Shown(ride)]
        /\ BuildObservationSnapshot(q) = [BuildObservationSnapshot(p) EXCEPT !.rides = BuildRides(q)]
    <3> HIDE DEF id
    <3>1. id \in RideIds /\ ride \in EngineRide
      BY <2>5 DEF id
    <3> QED
      BY <2>4, <3>1, RideChange
  <2>7. Shown(ride) = [Shown(p.rides[id]) EXCEPT !.price = c.price]
    BY <2>3, <2>5 DEF Shown
  <2>8. BuildObservationSnapshot(p).rides = BuildRides(p)
    BY DEF BuildObservationSnapshot
  <2>9. BuildObservationSnapshot(q)
          = [BuildObservationSnapshot(p) EXCEPT !.rides[id].price = c.price]
    BY <2>1, <2>6, <2>7, <2>8
  <2>10. Obeys(p, q, c)
    BY <2>1, <2>6, <2>8, <2>9 DEF Obeys
  <2> QED
    BY <2>6, <2>10 DEF q
<1> QED
  BY <1>3, <1>4

\* The number sent for a kind of staff is the number the engine has for it, and
\* the one who is hired is counted once.
LEMMA HireObeyed ==
  ASSUME NEW p \in Park, NEW c, c.action = "hire_staff", c.type \in StaffType
  PROVE  /\ Executed(p, ToGameAction(c)) \in Park
         /\ Obeys(p, Executed(p, ToGameAction(c)), c)
<1> DEFINE n == Len(p.staff)
           staff == Append(p.staff, c.type)
           q == Executed(p, ToGameAction(c))
           of(t) == {i \in DOMAIN p.staff : p.staff[i] = t}
           after(t) == {i \in DOMAIN staff : staff[i] = t}
<1>1. EngineStaffType[StaffTypeToNumber(c.type) + 1] = c.type
  BY DEF EngineStaffType, StaffTypeToNumber, StaffType
<1>2. ToGameAction(c) = [action |-> "staffhire", staffType |-> StaffTypeToNumber(c.type)]
  BY DEF ToGameAction
<1>3. q = [p EXCEPT !.staff = staff]
  <2>1. q = [p EXCEPT !.staff = Append(@, EngineStaffType[StaffTypeToNumber(c.type) + 1])]
    BY <1>2 DEF Executed
  <2> QED
    BY <1>1, <2>1
<1>4. p.staff \in Seq(StaffType) /\ n \in Nat /\ DOMAIN p.staff = 1..n
  <2>1. p.staff \in Seq(StaffType)
    BY DEF Park
  <2> QED
    BY <2>1, SeqFacts
<1>5. /\ staff \in Seq(StaffType) /\ DOMAIN staff = 1..n + 1
      /\ \A i \in DOMAIN p.staff : staff[i] = p.staff[i]
      /\ staff[n + 1] = c.type
  BY <1>4, AppendFacts
<1> HIDE DEF q, staff
<1>6. /\ q \in Park /\ q.fee = p.fee /\ q.staff = staff /\ q.rides = p.rides
      /\ q.month = p.month /\ q.weather = p.weather
  BY <1>3, <1>5 DEF Park
<1>7. ASSUME NEW t \in StaffType
      PROVE  Cardinality(after(t)) = IF t = c.type THEN Cardinality(of(t)) + 1
                                                   ELSE Cardinality(of(t))
  <2>1. IsFiniteSet(of(t)) /\ n + 1 \notin of(t)
    <3>1. IsFiniteSet(of(t))
      BY StaffFacts
    <3> QED
      BY <1>4, <3>1
  <2>2. \A i : i \in DOMAIN staff <=> i \in DOMAIN p.staff \/ i = n + 1
    BY <1>4, <1>5
  <2>3. CASE t = c.type
    <3>1. after(t) = of(t) \cup {n + 1}
      BY <1>5, <2>2, <2>3
    <3> HIDE DEF after, of
    <3> QED
      BY <2>1, <2>3, <3>1, FS_AddElement
  <2>4. CASE t # c.type
    <3>1. after(t) = of(t)
      BY <1>5, <2>2, <2>4
    <3> QED
      BY <2>4, <3>1
  <2> QED
    BY <2>3, <2>4
<1>8. BuildStaffCounts(q) = [BuildStaffCounts(p) EXCEPT ![c.type] = @ + 1]
  <2>1. \A t \in StaffType : /\ BuildStaffCounts(p)[t] = Cardinality(of(t))
                             /\ BuildStaffCounts(q)[t] = Cardinality(after(t))
    BY <1>6 DEF BuildStaffCounts
  <2>2. DOMAIN BuildStaffCounts(p) = StaffType
        /\ BuildStaffCounts(q) = [t \in StaffType |-> BuildStaffCounts(q)[t]]
        /\ BuildStaffCounts(p) = [t \in StaffType |-> BuildStaffCounts(p)[t]]
    BY DEF BuildStaffCounts
  <2> HIDE DEF of, after
  <2>3. \A t \in StaffType : BuildStaffCounts(q)[t] =
          IF t = c.type THEN BuildStaffCounts(p)[t] + 1 ELSE BuildStaffCounts(p)[t]
    BY <1>7, <2>1
  <2> QED
    BY <2>2, <2>3
<1>9. BuildRides(q) = BuildRides(p)
  BY <1>6 DEF BuildRides
<1>10. BuildObservationSnapshot(q)
         = [BuildObservationSnapshot(p) EXCEPT !.staff_counts[c.type] = @ + 1]
  BY <1>6, <1>8, <1>9 DEF BuildObservationSnapshot
<1>11. Obeys(p, q, c)
  BY <1>6, <1>10 DEF Obeys
<1> QED
  BY <1>6, <1>11 DEF q

\* The fee is set, and no snapshot shows it.
LEMMA FeeObeyed ==
  ASSUME NEW p \in Park, NEW c, c.action = "set_park_entry_fee", c.price \in Nat
  PROVE  /\ Executed(p, ToGameAction(c)) \in Park
         /\ Obeys(p, Executed(p, ToGameAction(c)), c)
<1> DEFINE q == Executed(p, ToGameAction(c))
<1>1. ToGameAction(c) = [action |-> "parksetentrancefee", value |-> c.price]
  BY DEF ToGameAction
<1>2. q = [p EXCEPT !.fee = c.price]
  BY <1>1 DEF Executed
<1> HIDE DEF q
<1>3. /\ q \in Park /\ q.fee = c.price /\ q.staff = p.staff /\ q.rides = p.rides
      /\ q.month = p.month /\ q.weather = p.weather
  BY <1>2 DEF Park
<1>4. BuildObservationSnapshot(q) = BuildObservationSnapshot(p)
  BY <1>3 DEF BuildObservationSnapshot, BuildRides, BuildStaffCounts
<1>5. Obeys(p, q, c)
  BY <1>3, <1>4 DEF Obeys
<1> QED
  BY <1>3, <1>5 DEF q

\* Every command is carried out as the protocol means it, or changes nothing.
LEMMA CommandsObeyed ==
  ASSUME NEW p \in Park, NEW c \in CommandAction
  PROVE  /\ Executed(p, ToGameAction(c)) \in Park
         /\ Obeys(p, Executed(p, ToGameAction(c)), c)
<1>1. CASE c \in [action: {"set_ride_price"}, ride_id: RideIds, price: Nat]
  <2>1. c.action = "set_ride_price" /\ c.ride_id \in RideIds /\ c.price \in Nat
    BY <1>1
  <2> QED
    BY <2>1, PriceObeyed
<1>2. CASE c \in [action: {"set_park_entry_fee"}, price: Nat]
  <2>1. c.action = "set_park_entry_fee" /\ c.price \in Nat
    BY <1>2
  <2> QED
    BY <2>1, FeeObeyed
<1>3. CASE c \in [action: {"hire_staff"}, type: StaffType]
  <2>1. c.action = "hire_staff" /\ c.type \in StaffType
    BY <1>3
  <2> QED
    BY <2>1, HireObeyed
<1>4. CASE c \in [action: {"open_ride", "close_ride"}, ride_id: RideIds]
  <2>1. c.action \in {"open_ride", "close_ride"} /\ c.ride_id \in RideIds
    BY <1>4
  <2> QED
    BY <2>1, StatusObeyed
<1> QED
  BY <1>1, <1>2, <1>3, <1>4 DEF CommandAction

-----------------------------------------------------------------------------
(***************************************************************************)
(* What the actions do to requests.                                        *)
(***************************************************************************)
\* A request that was sent has a command and a key, and only those are handled.
LEMMA RequestFacts ==
  ASSUME TypeOK
  PROVE  /\ DOMAIN sent = 1..Len(sent) /\ Len(sent) \in Nat /\ Len(sent) <= MaxRequests
         /\ \A m \in DOMAIN sent : /\ m \in Request /\ sent[m] \in CommandRequest
                                   /\ Key(m) \in Keys /\ sent[m].command \in CommandAction
         /\ Range(handled) \subseteq Request
         /\ FramingInv => Range(handled) \subseteq DOMAIN sent
<1>1. sent \in Seq(CommandRequest) /\ Len(sent) <= MaxRequests /\ handled \in Seq(Request)
  BY DEF TypeOK
<1>2. DOMAIN sent = 1..Len(sent) /\ Len(sent) \in Nat
      /\ \A m \in DOMAIN sent : sent[m] \in CommandRequest
  BY <1>1, SeqFacts
<1>3. \A m \in DOMAIN sent : m \in Request
  BY <1>1, <1>2 DEF Request
<1>4. \A m \in DOMAIN sent : Key(m) \in Keys /\ sent[m].command \in CommandAction
  BY <1>2 DEF Key, CommandRequest
<1>5. Range(handled) \subseteq Request
  BY <1>1, SeqFacts, RangeFacts
<1>6. FramingInv => Range(handled) \subseteq DOMAIN sent
  BY DEF FramingInv, InOrder, Range
<1> QED
  BY <1>1, <1>2, <1>3, <1>4, <1>5, <1>6

\* The requests that a chunk completes.
Arrived == Range(handled') \ Range(handled)

\* A chunk completes requests that were sent and never handled; those whose key
\* has a result are answered with it, the others begin their query.
LEMMA Received ==
  ASSUME IInv, NEW n \in 1..Len(stream), OnData(n)
  PROVE  /\ handled' \in Seq(Request) /\ stream' \in Seq(Piece) /\ inbound' \in Seq(Piece)
         /\ read' \in SUBSET Request
         /\ InOrder(handled', stream') /\ Paired(inbound', stream')
         /\ Paid(handled', inbound', stream', read')
         /\ Whole(inbound, stream) => /\ Whole(inbound', stream')
                                      /\ read' \ read \subseteq Range(handled')
         /\ Range(handled) \subseteq Range(handled')
         /\ Arrived \subseteq Request /\ Arrived \subseteq DOMAIN sent
         /\ phase' = [m \in Request |-> IF m \notin Arrived THEN phase[m]
                                        ELSE IF cache[Key(m)] # None THEN "reply" ELSE "query"]
         /\ outcome' = [m \in Request |-> IF m \in Arrived THEN cache[Key(m)] ELSE outcome[m]]
         /\ before' = [m \in Request |-> IF m \notin Arrived THEN before[m] ELSE
                         {k \in Range(handled) : Key(k) = Key(m) /\ phase[k] \in Answered}]
         /\ UNCHANGED <<link, cache, park, sent, performed, answers>>
<1> DEFINE buffer == inbound \o SubSeq(stream, 1, n)
           parts == Split(buffer)[Len(buffer)]
           ms == parts.requests
<1>0. TypeOK /\ FramingInv
  BY DEF IInv
<1>1. /\ stream' = SubSeq(stream, n + 1, Len(stream))
      /\ read' = read \cup {stream[i].msg : i \in {j \in 1..n : stream[j].last}}
      /\ inbound' = parts.rest
      /\ Begin(ms)
      /\ UNCHANGED <<link, cache, park, sent, performed, answers>>
  BY DEF OnData
<1>2. /\ stream \in Seq(Piece) /\ handled \in Seq(Request) /\ Len(stream) \in Nat
      /\ DOMAIN stream = 1..Len(stream) /\ read \in SUBSET Request
  BY <1>0, SeqFacts DEF TypeOK
<1>3. n \in 0..Len(stream)
  BY <1>2
<1>4. /\ parts \in Parsed
      /\ InOrder(handled \o ms, Left(stream, n))
      /\ Paired(parts.rest, Left(stream, n))
      /\ Paid(handled \o ms, parts.rest, Left(stream, n), read \cup Ends(stream, n))
      /\ Whole(inbound, stream) => /\ Whole(parts.rest, Left(stream, n))
                                   /\ Ends(stream, n) \subseteq Range(handled \o ms)
  BY <1>3, ChunkFramed
<1> HIDE DEF parts, ms, buffer
<1>5. stream' = Left(stream, n) /\ read' = read \cup Ends(stream, n)
      /\ handled' = handled \o ms
  BY <1>1 DEF Left, Ends, Begin
<1>6. ms \in Seq(Request) /\ inbound' \in Seq(Piece)
  BY <1>1, <1>4 DEF Parsed, ms
<1>7. stream' \in Seq(Piece)
  BY <1>2, <1>3, <1>5, LeftFacts
<1>8. read' \in SUBSET Request
  <2>1. \A j \in 1..n : stream[j] \in Piece
    BY <1>2, <1>3, SeqFacts
  <2> QED
    BY <1>2, <1>5, <2>1 DEF Ends, Piece
<1>9. /\ handled' \in Seq(Request) /\ DOMAIN handled' = 1..Len(handled) + Len(ms)
      /\ \A i \in DOMAIN handled : i \in DOMAIN handled' /\ handled'[i] = handled[i]
      /\ \A i \in DOMAIN ms : Len(handled) + i \in DOMAIN handled'
                              /\ handled'[Len(handled) + i] = ms[i]
      /\ Range(handled') = Range(handled) \cup Range(ms)
  <2>1. handled \o ms \in Seq(Request)
        /\ DOMAIN (handled \o ms) = 1..Len(handled) + Len(ms)
    BY <1>2, <1>6, ConcatFacts
  <2>2. \A i \in DOMAIN handled : i \in DOMAIN (handled \o ms) /\ (handled \o ms)[i] = handled[i]
    BY <1>2, <1>6, ConcatFacts
  <2>3. \A i \in DOMAIN ms : Len(handled) + i \in DOMAIN (handled \o ms)
                             /\ (handled \o ms)[Len(handled) + i] = ms[i]
    BY <1>2, <1>6, ConcatFacts
  <2>4. ToSet(handled \o ms) = ToSet(handled) \cup ToSet(ms)
    BY <1>2, <1>6, ConcatFacts
  <2> QED
    BY <1>5, <2>1, <2>2, <2>3, <2>4, RangeFacts
<1>10. /\ InOrder(handled', stream') /\ Paired(inbound', stream')
       /\ Paid(handled', inbound', stream', read')
       /\ Whole(inbound, stream) => /\ Whole(inbound', stream')
                                    /\ read' \ read \subseteq Range(handled')
  BY <1>1, <1>4, <1>5
<1>11. Range(ms) \cap Range(handled) = {}
  <2> SUFFICES ASSUME NEW i \in DOMAIN handled, NEW j \in DOMAIN ms, handled[i] = ms[j]
               PROVE  FALSE
    BY DEF Range
  <2>1. /\ DOMAIN handled = 1..Len(handled) /\ DOMAIN ms = 1..Len(ms)
        /\ Len(handled) \in Nat /\ Len(ms) \in Nat
    BY <1>2, <1>6, SeqFacts
  <2>2. i < Len(handled) + j
    BY <2>1
  <2>3. handled'[i] < handled'[Len(handled) + j]
    BY <1>9, <1>10, <2>2 DEF InOrder
  <2>4. handled'[i] = handled[i] /\ handled'[Len(handled) + j] = handled[i] /\ handled[i] \in Nat
    <3>1. handled[i] \in Request
      BY <1>2, SeqFacts
    <3> QED
      BY <1>9, <3>1 DEF Request
  <2> QED
    BY <2>3, <2>4
<1>12. Arrived = Range(ms)
  BY <1>9, <1>11 DEF Arrived
<1>13. Arrived \subseteq Request /\ Arrived \subseteq DOMAIN sent
  <2>1. Range(ms) \subseteq Request
    BY <1>6, SeqFacts, RangeFacts
  <2>2. Range(handled') \subseteq DOMAIN sent
    BY <1>10 DEF InOrder, Range
  <2> QED
    BY <1>9, <1>12, <2>1, <2>2
<1>14. /\ phase' = [m \in Request |-> IF m \notin Range(ms) THEN phase[m]
                                      ELSE IF cache[Key(m)] # None THEN "reply" ELSE "query"]
       /\ outcome' = [m \in Request |-> IF m \in Range(ms) THEN cache[Key(m)] ELSE outcome[m]]
       /\ before' = [m \in Request |-> IF m \notin Range(ms) THEN before[m] ELSE
                       {k \in Range(handled) : Key(k) = Key(m) /\ phase[k] \in Answered}]
  BY <1>1 DEF Begin, Answered
<1> QED
  BY <1>1, <1>6, <1>7, <1>8, <1>9, <1>10, <1>12, <1>13, <1>14

\* The result of a callback is of its type and reports an error exactly when the
\* engine did.
LEMMA ResultFacts ==
  ASSUME NEW r \in GameActionResult
  PROVE  /\ ResultOf(r) \in CommandResult
         /\ ResultOf(r) # None
         /\ ResultOf(r).engine_error = ToErrorInfo(r)
         /\ ToErrorInfo(r) = None <=> r.error \in {None, 0}
<1>1. r.error \in {None, 0, 1} /\ r.cost = None
  BY DEF GameActionResult
<1>2. CASE r.error \in {None, 0}
  <2>1. ToErrorInfo(r) = None
    BY <1>2 DEF ToErrorInfo
  <2>2. ResultOf(r) = [engine_cost |-> 0, engine_error |-> None]
    BY <1>1, <2>1 DEF ResultOf
  <2>3. ResultOf(r) \in CommandResult
    BY <2>2 DEF CommandResult
  <2> QED
    BY <1>2, <2>1, <2>2, <2>3, NoneAssumption
<1>3. CASE r.error \notin {None, 0}
  <2>1. r.error = 1 /\ ToErrorInfo(r) = [code |-> 1]
    BY <1>1, <1>3 DEF ToErrorInfo
  <2>2. ToErrorInfo(r) \in ErrorInfo
    BY <2>1 DEF ErrorInfo
  <2>3. ToErrorInfo(r) # None
    BY <2>2, NoneAssumption
  <2>4. ResultOf(r) = [engine_cost |-> None, engine_error |-> ToErrorInfo(r)]
    BY <2>3 DEF ResultOf
  <2>5. ResultOf(r) \in CommandResult
    BY <2>2, <2>4 DEF CommandResult
  <2> QED
    BY <1>3, <2>3, <2>4, <2>5, NoneAssumption
<1> QED
  BY <1>2, <1>3

\* A promise that has begun is one of a request that was sent.
LEMMA Begun ==
  ASSUME IInv, NEW m \in Request, phase[m] # "none"
  PROVE  /\ m \in Range(handled) /\ m \in DOMAIN sent
         /\ sent[m].command \in CommandAction /\ Key(m) \in Keys
<1>1. m \in Range(handled)
  BY DEF IInv, PromiseInv
<1>2. TypeOK /\ FramingInv
  BY DEF IInv
<1> QED
  BY <1>1, <1>2, RequestFacts

\* Every step keeps the types.
LEMMA TypeStep == IInv /\ [Next]_vars => TypeOK'
<1> SUFFICES ASSUME IInv, [Next]_vars PROVE TypeOK'
  OBVIOUS
<1> USE DEF link, wire
<1>0. TypeOK /\ FramingInv /\ PromiseInv
  BY DEF IInv
<1>1. ASSUME NEW request \in Commands, Send(request) PROVE TypeOK'
  <2> DEFINE m == Len(sent) + 1
             two == <<[msg |-> m, last |-> FALSE], [msg |-> m, last |-> TRUE]>>
  <2>1. m \in Request /\ sent' = Append(sent, request) /\ stream' = stream \o two
    BY <1>1 DEF Send
  <2>2. request \in CommandRequest
    BY CommandsAssumption
  <2>3. sent' \in Seq(CommandRequest) /\ Len(sent') <= MaxRequests
    <3>1. sent \in Seq(CommandRequest)
      BY <1>0 DEF TypeOK
    <3>2. sent' \in Seq(CommandRequest) /\ Len(sent') = m
      BY <2>1, <2>2, <3>1, AppendFacts
    <3> QED
      BY <2>1, <3>2 DEF Request
  <2>4. two \in Seq(Piece)
    <3> HIDE DEF m
    <3>1. [msg |-> m, last |-> FALSE] \in Piece /\ [msg |-> m, last |-> TRUE] \in Piece
      BY <2>1 DEF Piece
    <3> QED
      BY <3>1
  <2>5. stream' \in Seq(Piece)
    <3> HIDE DEF two
    <3>1. stream \in Seq(Piece)
      BY <1>0 DEF TypeOK
    <3> QED
      BY <2>1, <2>4, <3>1, ConcatFacts
  <2>6. UNCHANGED <<connected, breaks, inbound, read, cache, phase, outcome, park, handled,
                    before, performed, answers>>
    BY <1>1 DEF Send
  <2> QED
    BY <1>0, <2>3, <2>5, <2>6 DEF TypeOK
<1>2. CASE Break
  <2>1. /\ breaks' = breaks + 1 /\ breaks < MaxBreaks /\ connected' = FALSE /\ stream' = <<>>
        /\ UNCHANGED <<inbound, read, cache, phase, outcome, park, sent, handled, before,
                       performed, answers>>
    BY <1>2 DEF Break
  <2>2. breaks' \in 0..MaxBreaks
    BY <1>0, <2>1 DEF TypeOK
  <2>3. stream' \in Seq(Piece)
    BY <2>1, EmptyFacts
  <2> QED
    BY <1>0, <2>1, <2>2, <2>3 DEF TypeOK
<1>3. CASE OnConnect
  BY <1>0, <1>3 DEF TypeOK, OnConnect
<1>4. ASSUME NEW id \in RideIds, GameMoves(id) PROVE TypeOK'
  <2> DEFINE ride == [park.rides[id] EXCEPT !.status = "simulating"]
  <2>1. /\ park.rides[id] # None /\ park' = [park EXCEPT !.rides[id].status = "simulating"]
        /\ UNCHANGED <<connected, breaks, stream, inbound, read, cache, phase, outcome, sent,
                       handled, before, performed, answers>>
    BY <1>4 DEF GameMoves
  <2>2. park \in Park
    BY <1>0 DEF TypeOK
  <2>3. ride \in EngineRide
    <3>1. park.rides[id] \in EngineRide
      BY <2>1, <2>2, RidesFacts
    <3> QED
      BY <3>1 DEF EngineRide, EngineStatus
  <2>4. park' = [park EXCEPT !.rides = [park.rides EXCEPT ![id] = ride]]
    BY <2>1
  <2> HIDE DEF ride
  <2>5. park' \in Park
    BY <2>2, <2>3, <2>4, RideChange
  <2>6. BuildObservationSnapshot(park)' \in ObservationSnapshot
    BY <2>5, SnapshotFacts
  <2> QED
    BY <1>0, <2>1, <2>5, <2>6 DEF TypeOK
<1>5. ASSUME NEW n \in 1..Len(stream), OnData(n) PROVE TypeOK'
  <2>1. /\ handled' \in Seq(Request) /\ stream' \in Seq(Piece) /\ inbound' \in Seq(Piece)
        /\ read' \in SUBSET Request /\ Arrived \subseteq Request /\ Arrived \subseteq DOMAIN sent
        /\ phase' = [m \in Request |-> IF m \notin Arrived THEN phase[m]
                                       ELSE IF cache[Key(m)] # None THEN "reply" ELSE "query"]
        /\ outcome' = [m \in Request |-> IF m \in Arrived THEN cache[Key(m)] ELSE outcome[m]]
        /\ before' = [m \in Request |-> IF m \notin Arrived THEN before[m] ELSE
                        {k \in Range(handled) : Key(k) = Key(m) /\ phase[k] \in Answered}]
        /\ UNCHANGED <<connected, breaks, cache, park, sent, performed, answers>>
    BY <1>5, Received
  <2> HIDE DEF Arrived
  <2>2. phase' \in [Request -> Phase]
    BY <1>0, <2>1 DEF TypeOK, Phase
  <2>3. outcome' \in [Request -> CommandResult \cup {None}]
    <3>1. \A m \in Arrived : cache[Key(m)] \in CommandResult \cup {None}
      BY <1>0, <2>1, RequestFacts DEF TypeOK
    <3> QED
      BY <1>0, <2>1, <3>1 DEF TypeOK
  <2>4. before' \in [Request -> SUBSET Request]
    <3>1. Range(handled) \subseteq Request
      BY <1>0, RequestFacts
    <3>2. \A m \in Request : {k \in Range(handled) : Key(k) = Key(m) /\ phase[k] \in Answered}
                               \in SUBSET Request
      BY <3>1
    <3>3. before \in [Request -> SUBSET Request]
      BY <1>0 DEF TypeOK
    <3> QED
      BY <2>1, <3>2, <3>3
  <2> QED
    BY <1>0, <2>1, <2>2, <2>3, <2>4 DEF TypeOK
<1>6. ASSUME NEW m \in Request, NEW r \in GameActionResult, QueryReturns(m, r) PROVE TypeOK'
  <2>1. /\ phase' = [phase EXCEPT ![m] = IF ToErrorInfo(r) = None THEN "execute" ELSE "settle"]
        /\ outcome' = [outcome EXCEPT ![m] = IF ToErrorInfo(r) = None THEN None ELSE ResultOf(r)]
        /\ UNCHANGED <<connected, breaks, stream, inbound, read, cache, park, sent, handled,
                       before, performed, answers>>
    BY <1>6 DEF QueryReturns
  <2>2. ResultOf(r) \in CommandResult
    BY ResultFacts
  <2>3. phase' \in [Request -> Phase] /\ outcome' \in [Request -> CommandResult \cup {None}]
    BY <1>0, <2>1, <2>2 DEF TypeOK, Phase
  <2> QED
    BY <1>0, <2>1, <2>3 DEF TypeOK
<1>7. ASSUME NEW m \in Request, NEW r \in GameActionResult, Execute(m, r) PROVE TypeOK'
  <2>1. /\ phase[m] = "execute" /\ phase' = [phase EXCEPT ![m] = "settle"]
        /\ outcome' = [outcome EXCEPT ![m] = ResultOf(r)]
        /\ park' \in {park, Executed(park, ToGameAction(sent[m].command))}
        /\ performed' \in {performed, performed \cup {m}}
        /\ UNCHANGED <<connected, breaks, stream, inbound, read, cache, sent, handled,
                       before, answers>>
    BY <1>7 DEF Execute
  <2>2. ResultOf(r) \in CommandResult
    BY ResultFacts
  <2>3. phase' \in [Request -> Phase] /\ outcome' \in [Request -> CommandResult \cup {None}]
    BY <1>0, <2>1, <2>2 DEF TypeOK, Phase
  <2>4. park' \in Park
    <3>1. park \in Park
      BY <1>0 DEF TypeOK
    <3>2. sent[m].command \in CommandAction
      BY <2>1, Begun
    <3> QED
      BY <2>1, <3>1, <3>2, CommandsObeyed
  <2>5. BuildObservationSnapshot(park)' \in ObservationSnapshot
    BY <2>4, SnapshotFacts
  <2>6. performed' \subseteq Request
    BY <1>0, <2>1 DEF TypeOK
  <2> QED
    BY <1>0, <2>1, <2>3, <2>4, <2>5, <2>6 DEF TypeOK
<1>8. ASSUME NEW m \in Request, Settle(m) PROVE TypeOK'
  <2>1. /\ phase' = [phase EXCEPT ![m] = "reply"]
        /\ cache' = [cache EXCEPT ![Key(m)] = outcome[m]]
        /\ UNCHANGED <<connected, breaks, stream, inbound, read, outcome, park, sent, handled,
                       before, performed, answers>>
    BY <1>8 DEF Settle
  <2>2. phase' \in [Request -> Phase] /\ cache' \in [Keys -> CommandResult \cup {None}]
    BY <1>0, <2>1 DEF TypeOK, Phase
  <2> QED
    BY <1>0, <2>1, <2>2 DEF TypeOK
<1>9. ASSUME NEW m \in Request, Reply(m) PROVE TypeOK'
  <2> DEFINE answer == [kind |-> "command.result", payload |-> outcome[m], correlation_id |-> m,
                        status |-> IF outcome[m].engine_error = None THEN "ok" ELSE "error"]
  <2>1. /\ phase[m] = "reply" /\ phase' = [phase EXCEPT ![m] = "done"]
        /\ answers' = answers \/ answers' = Append(answers, answer)
        /\ UNCHANGED <<connected, breaks, stream, inbound, read, cache, outcome, park, sent,
                       handled, before, performed>>
    BY <1>9 DEF Reply
  <2>2. phase' \in [Request -> Phase]
    BY <1>0, <2>1 DEF TypeOK, Phase
  <2>3. answer \in ResultEnvelope
    <3>1. outcome[m] \in CommandResult
      BY <1>0, <2>1 DEF PromiseInv, Settled, Answered
    <3>2. m \in MessageId
      BY DEF Request, MessageId
    <3> QED
      BY <3>1, <3>2 DEF ResultEnvelope
  <2> HIDE DEF answer
  <2>4. answers' \in Seq(ResultEnvelope)
    <3>1. answers \in Seq(ResultEnvelope)
      BY <1>0 DEF TypeOK
    <3> QED
      BY <2>1, <2>3, <3>1, AppendFacts
  <2> QED
    BY <1>0, <2>1, <2>2, <2>4 DEF TypeOK
<1>10. CASE UNCHANGED vars
  BY <1>0, <1>10 DEF TypeOK, vars
<1> QED
  BY <1>1, <1>2, <1>3, <1>4, <1>5, <1>6, <1>7, <1>8, <1>9, <1>10 DEF Next, Promise

\* Every step keeps the order, the pairs and the account of what breaks have cost.
LEMMA FramingStep == IInv /\ [Next]_vars => FramingInv'
<1> SUFFICES ASSUME IInv, [Next]_vars PROVE FramingInv'
  OBVIOUS
<1> USE DEF link, wire
<1>0. TypeOK /\ FramingInv
  BY DEF IInv
<1>1. /\ InOrder(handled, stream) /\ Paired(inbound, stream) /\ Paid(handled, inbound, stream, read)
      /\ stream \in Seq(Piece) /\ Len(stream) \in Nat /\ DOMAIN stream = 1..Len(stream)
      /\ breaks \in Nat /\ Cardinality(read \ Range(handled)) \in Nat
  BY <1>0, SeqFacts, RequestsFinite DEF FramingInv, TypeOK
<1>2. ASSUME NEW request \in Commands, Send(request) PROVE FramingInv'
  <2> DEFINE m == Len(sent) + 1
             l == Len(stream)
             two == <<[msg |-> m, last |-> FALSE], [msg |-> m, last |-> TRUE]>>
  <2>1. /\ m \in Request /\ sent' = Append(sent, request) /\ stream' = stream \o two
        /\ UNCHANGED <<breaks, inbound, read, handled>>
    BY <1>2 DEF Send
  <2>2. DOMAIN sent' = DOMAIN sent \cup {m} /\ \A n \in DOMAIN sent : n \in Nat /\ n < m
    <3>1. sent \in Seq(CommandRequest) /\ request \in CommandRequest
      BY <1>0, CommandsAssumption DEF TypeOK
    <3>2. DOMAIN sent' = 1..Len(sent) + 1 /\ DOMAIN sent = 1..Len(sent) /\ Len(sent) \in Nat
      BY <2>1, <3>1, AppendFacts, SeqFacts
    <3> QED
      BY <3>2
  <2>3. two \in Seq(Piece) /\ Len(two) = 2 /\ two[1].msg = m /\ ~two[1].last
        /\ two[2] = [msg |-> m, last |-> TRUE]
    <3> HIDE DEF m
    <3>1. [msg |-> m, last |-> FALSE] \in Piece /\ [msg |-> m, last |-> TRUE] \in Piece
      BY <2>1 DEF Piece
    <3> QED
      BY <3>1
  <2> HIDE DEF two, m
  <2>4. /\ stream' \in Seq(Piece) /\ Len(stream') = l + 2 /\ DOMAIN stream' = 1..l + 2
        /\ \A i \in 1..l : stream'[i] = stream[i]
        /\ stream'[l + 1].msg = m /\ ~stream'[l + 1].last
        /\ stream'[l + 2] = [msg |-> m, last |-> TRUE]
    <3>1. stream \o two \in Seq(Piece) /\ Len(stream \o two) = Len(stream) + Len(two)
          /\ DOMAIN (stream \o two) = 1..Len(stream) + Len(two)
      <4>1. stream \in Seq(Piece) /\ two \in Seq(Piece)
        BY <1>1, <2>3
      <4> QED
        BY <4>1, ConcatFacts
    <3>2. \A i \in DOMAIN stream : (stream \o two)[i] = stream[i]
      BY <1>1, <2>3, ConcatFacts
    <3>3. \A i \in DOMAIN two : (stream \o two)[Len(stream) + i] = two[i]
      BY <1>1, <2>3, ConcatFacts
    <3>4. 1 \in DOMAIN two /\ 2 \in DOMAIN two
      BY <2>3, SeqFacts
    <3> QED
      BY <1>1, <2>1, <2>3, <3>1, <3>2, <3>3, <3>4
  <2>5. \A i \in DOMAIN stream' : i \in 1..l \/ i = l + 1 \/ i = l + 2
    BY <1>1, <2>4
  <2>6. InOrder(handled, stream)'
    <3>1. \A i \in DOMAIN handled' : handled'[i] \in DOMAIN sent' /\ handled'[i] < m
      BY <1>1, <2>1, <2>2 DEF InOrder
    <3>2. \A i, j \in DOMAIN handled' : i < j => handled'[i] < handled'[j]
      BY <1>1, <2>1 DEF InOrder
    <3>3. \A i \in DOMAIN stream' :
            stream'[i].msg \in DOMAIN sent' /\ \A j \in DOMAIN handled' : handled'[j] < stream'[i].msg
      <4> TAKE i \in DOMAIN stream'
      <4>1. CASE i \in 1..l
        BY <1>1, <2>1, <2>2, <2>4, <4>1 DEF InOrder
      <4>2. CASE i = l + 1
        BY <2>2, <2>4, <3>1, <4>2
      <4>3. CASE i = l + 2
        BY <2>2, <2>4, <3>1, <4>3
      <4> QED
        BY <2>5, <4>1, <4>2, <4>3
    <3>4. ASSUME NEW i \in DOMAIN stream', NEW j \in DOMAIN stream', i < j
          PROVE  \/ stream'[i].msg < stream'[j].msg
                 \/ ~stream'[i].last /\ stream'[j].last
      <4>1. CASE j \in 1..l
        <5>1. i \in 1..l
          BY <1>1, <2>4, <3>4, <4>1
        <5> QED
          BY <1>1, <2>4, <3>4, <4>1, <5>1 DEF InOrder
      <4>2. CASE i \in 1..l /\ j \notin 1..l
        <5>1. stream'[j].msg = m
          BY <2>4, <2>5, <4>2
        <5>2. stream[i].msg < m
          BY <1>1, <2>2, <4>2 DEF InOrder
        <5> QED
          BY <2>4, <4>2, <5>1, <5>2
      <4>3. CASE i \notin 1..l
        <5>1. i = l + 1 /\ j = l + 2
          BY <1>1, <2>4, <3>4, <4>3
        <5> QED
          BY <2>4, <5>1
      <4> QED
        BY <4>1, <4>2, <4>3
    <3> QED
      BY <3>1, <3>2, <3>3, <3>4 DEF InOrder
  <2>7. Paired(inbound, stream)'
    <3>1. \A i \in DOMAIN inbound' : ~inbound'[i].last
      BY <1>1, <2>1 DEF Paired
    <3>2. ASSUME NEW i \in DOMAIN stream', stream'[i].last
          PROVE  IF i = 1 THEN inbound' # <<>> ELSE ~stream'[i - 1].last
      <4>1. CASE i \in 1..l
        <5>1. i = 1 \/ i - 1 \in 1..l
          BY <1>1, <4>1
        <5> QED
          BY <1>1, <2>1, <2>4, <3>2, <4>1, <5>1 DEF Paired
      <4>2. CASE i = l + 2
        <5>1. i # 1 /\ i - 1 = l + 1
          BY <1>1, <4>2
        <5> QED
          BY <2>4, <5>1
      <4> QED
        BY <2>4, <2>5, <3>2, <4>1, <4>2
    <3>3. ASSUME NEW i \in DOMAIN stream', ~stream'[i].last
          PROVE  /\ i + 1 \in DOMAIN stream'
                 /\ stream'[i + 1] = [msg |-> stream'[i].msg, last |-> TRUE]
      <4>1. CASE i \in 1..l
        <5>1. i + 1 \in 1..l /\ stream[i + 1] = [msg |-> stream[i].msg, last |-> TRUE]
          BY <1>1, <2>4, <3>3, <4>1 DEF Paired
        <5>2. i + 1 \in 1..l + 2
          BY <1>1, <5>1
        <5>3. stream'[i + 1] = stream[i + 1] /\ stream'[i] = stream[i]
          BY <2>4, <4>1, <5>1
        <5> QED
          BY <2>4, <5>1, <5>2, <5>3
      <4>2. CASE i = l + 1
        <5>1. i + 1 = l + 2 /\ i + 1 \in 1..l + 2
          BY <1>1, <4>2
        <5> QED
          BY <2>4, <4>2, <5>1
      <4>3. i # l + 2
        BY <2>4, <3>3
      <4> QED
        BY <2>5, <4>1, <4>2, <4>3
    <3> QED
      BY <3>1, <3>2, <3>3 DEF Paired
  <2>8. Paid(handled, inbound, stream, read)'
    <3>1. Whole(inbound, stream) => Whole(inbound', stream')
      <4>1. stream' # <<>>
        <5>1. Len(stream') # 0
          BY <1>1, <2>4
        <5> QED
          BY <5>1, EmptyFacts
      <4>2. stream # <<>> => stream'[1] = stream[1]
        <5>1. stream # <<>> => 1 \in 1..l
          BY <1>1, EmptySeq
        <5> QED
          BY <2>4, <5>1
      <4> QED
        BY <2>1, <4>1, <4>2 DEF Whole
    <3> QED
      BY <1>1, <2>1, <3>1 DEF Paid
  <2> QED
    BY <2>6, <2>7, <2>8 DEF FramingInv
<1>3. CASE Break
  <2>1. breaks' = breaks + 1 /\ stream' = <<>> /\ UNCHANGED <<inbound, read, sent, handled>>
    BY <1>3 DEF Break
  <2>2. InOrder(handled, stream)' /\ Paired(inbound, stream)'
    BY <1>1, <2>1, EmptyFacts DEF InOrder, Paired
  <2>3. Cardinality(read \ Range(handled)) <= breaks
    BY <1>1 DEF Paid
  <2>4. Paid(handled, inbound, stream, read)'
    BY <1>1, <2>1, <2>3 DEF Paid
  <2> QED
    BY <2>2, <2>4 DEF FramingInv
<1>4. ASSUME NEW n \in 1..Len(stream), OnData(n) PROVE FramingInv'
  <2>1. /\ InOrder(handled', stream') /\ Paired(inbound', stream')
        /\ Paid(handled', inbound', stream', read') /\ sent' = sent /\ breaks' = breaks
    BY <1>4, Received
  <2> QED
    BY <2>1 DEF FramingInv, InOrder, Paired, Paid, Whole
<1>5. ASSUME UNCHANGED <<stream, inbound, read, handled, sent, breaks>> PROVE FramingInv'
  BY <1>0, <1>5 DEF FramingInv, InOrder, Paired, Paid, Whole
<1>6. ASSUME NEW m \in Request, Promise(m) PROVE FramingInv'
  BY <1>5, <1>6 DEF Promise, QueryReturns, Execute, Settle, Reply
<1>7. CASE OnConnect \/ (\E id \in RideIds : GameMoves(id)) \/ UNCHANGED vars
  BY <1>5, <1>7 DEF OnConnect, GameMoves, vars
<1> QED
  BY <1>2, <1>3, <1>4, <1>6, <1>7 DEF Next

\* Every step keeps each promise where its request, its result and the game put it.
LEMMA PromiseStep == IInv /\ [Next]_vars => PromiseInv'
<1> SUFFICES ASSUME IInv, [Next]_vars PROVE PromiseInv'
  OBVIOUS
<1> USE DEF link, wire
<1>0. TypeOK /\ FramingInv /\ PromiseInv
  BY DEF IInv
<1>1. phase \in [Request -> Phase] /\ outcome \in [Request -> CommandResult \cup {None}]
      /\ cache \in [Keys -> CommandResult \cup {None}] /\ performed \subseteq Request
  BY <1>0 DEF TypeOK
<1>2. ASSUME UNCHANGED <<phase, outcome, handled, performed>> PROVE PromiseInv'
  BY <1>0, <1>2 DEF PromiseInv, Range
<1>3. ASSUME NEW n \in 1..Len(stream), OnData(n) PROVE PromiseInv'
  <2>1. /\ Range(handled) \subseteq Range(handled') /\ Arrived \subseteq DOMAIN sent
        /\ phase' = [m \in Request |-> IF m \notin Arrived THEN phase[m]
                                       ELSE IF cache[Key(m)] # None THEN "reply" ELSE "query"]
        /\ outcome' = [m \in Request |-> IF m \in Arrived THEN cache[Key(m)] ELSE outcome[m]]
        /\ performed' = performed
    BY <1>3, Received
  <2> SUFFICES ASSUME NEW m \in Request
               PROVE  /\ phase'[m] = "none" <=> m \notin Range(handled')
                      /\ phase'[m] \in Settled => outcome'[m] \in CommandResult
                      /\ m \in performed' => phase'[m] \in Settled
    BY DEF PromiseInv, Range
  <2>2. CASE m \in Arrived
    <3>1. m \in Range(handled') /\ m \notin Range(handled)
      BY <2>2 DEF Arrived
    <3>2. phase'[m] \in {"reply", "query"} /\ (phase'[m] = "reply" => cache[Key(m)] # None)
          /\ outcome'[m] = cache[Key(m)]
      BY <2>1, <2>2
    <3>3. cache[Key(m)] \in CommandResult \cup {None}
      BY <1>0, <1>1, <2>1, <2>2, RequestFacts
    <3>4. m \notin performed
      BY <1>0, <3>1 DEF PromiseInv, Settled, Answered
    <3> QED
      BY <2>1, <3>1, <3>2, <3>3, <3>4 DEF Settled, Answered
  <2>3. CASE m \notin Arrived
    <3>1. m \in Range(handled') <=> m \in Range(handled)
      BY <2>1, <2>3 DEF Arrived
    <3>2. phase'[m] = phase[m] /\ outcome'[m] = outcome[m]
      BY <2>1, <2>3
    <3> QED
      BY <1>0, <2>1, <3>1, <3>2 DEF PromiseInv
  <2> QED
    BY <2>2, <2>3
<1>4. ASSUME NEW m \in Request, NEW r \in GameActionResult, QueryReturns(m, r) PROVE PromiseInv'
  <2>1. /\ phase[m] = "query"
        /\ phase' = [phase EXCEPT ![m] = IF ToErrorInfo(r) = None THEN "execute" ELSE "settle"]
        /\ outcome' = [outcome EXCEPT ![m] = IF ToErrorInfo(r) = None THEN None ELSE ResultOf(r)]
        /\ UNCHANGED <<handled, performed>>
    BY <1>4 DEF QueryReturns
  <2>2. ResultOf(r) \in CommandResult
    BY ResultFacts
  <2>3. m \in Range(handled) /\ m \notin performed
    BY <1>0, <2>1 DEF PromiseInv, Settled, Answered
  <2> QED
    BY <1>0, <1>1, <2>1, <2>2, <2>3 DEF PromiseInv, Settled, Answered, Range
<1>5. ASSUME NEW m \in Request, NEW r \in GameActionResult, Execute(m, r) PROVE PromiseInv'
  <2>1. /\ phase[m] = "execute" /\ phase' = [phase EXCEPT ![m] = "settle"]
        /\ outcome' = [outcome EXCEPT ![m] = ResultOf(r)]
        /\ performed' \in {performed, performed \cup {m}} /\ handled' = handled
    BY <1>5 DEF Execute
  <2>2. ResultOf(r) \in CommandResult
    BY ResultFacts
  <2>3. m \in Range(handled)
    BY <1>0, <2>1 DEF PromiseInv
  <2> QED
    BY <1>0, <1>1, <2>1, <2>2, <2>3 DEF PromiseInv, Settled, Answered, Range
<1>6. ASSUME NEW m \in Request, Settle(m) \/ Reply(m) PROVE PromiseInv'
  <2>1. /\ phase[m] \in {"settle", "reply"}
        /\ phase' = [phase EXCEPT ![m] = "reply"] \/ phase' = [phase EXCEPT ![m] = "done"]
        /\ UNCHANGED <<outcome, handled, performed>>
    BY <1>6 DEF Settle, Reply
  <2>2. m \in Range(handled) /\ outcome[m] \in CommandResult
    BY <1>0, <2>1 DEF PromiseInv, Settled, Answered
  <2> QED
    BY <1>0, <1>1, <2>1, <2>2 DEF PromiseInv, Settled, Answered, Range
<1>7. CASE \/ \E request \in Commands : Send(request)
           \/ Break \/ OnConnect
           \/ \E id \in RideIds : GameMoves(id)
           \/ UNCHANGED vars
  BY <1>2, <1>7 DEF Send, Break, OnConnect, GameMoves, vars
<1> QED
  BY <1>3, <1>4, <1>5, <1>6, <1>7 DEF Next, Promise

\* A step takes back no request, no key, no result and nothing done to the game.
Kept ==
  /\ Range(handled) \subseteq Range(handled')
  /\ \A n \in DOMAIN sent : n \in DOMAIN sent' /\ Key(n)' = Key(n)
  /\ \A n \in Range(handled) : phase[n] \in Settled =>
       /\ phase'[n] \in Settled
       /\ outcome'[n] = outcome[n]
       /\ n \in performed' <=> n \in performed
  /\ \A n \in Range(handled) : phase[n] \in Answered => phase'[n] \in Answered

\* No action of the bridge, the network or the game takes any of it back.
LEMMA KeptByAll == IInv /\ [Next]_vars => Kept
<1> SUFFICES ASSUME IInv, [Next]_vars PROVE Kept
  OBVIOUS
<1> USE DEF link, wire
<1>0. TypeOK /\ FramingInv /\ PromiseInv /\ Range(handled) \subseteq Request
  BY RequestFacts DEF IInv
<1>1. phase \in [Request -> Phase] /\ outcome \in [Request -> CommandResult \cup {None}]
  BY <1>0 DEF TypeOK
<1>2. ASSUME UNCHANGED <<phase, outcome, handled, performed, sent>> PROVE Kept
  BY <1>2 DEF Kept, Key, Range
<1>3. ASSUME NEW request \in Commands, Send(request) PROVE Kept
  <2>1. sent' = Append(sent, request) /\ UNCHANGED <<phase, outcome, handled, performed>>
    BY <1>3 DEF Send
  <2>2. sent \in Seq(CommandRequest) /\ request \in CommandRequest
    BY <1>0, CommandsAssumption DEF TypeOK
  <2>3. \A n \in DOMAIN sent : n \in DOMAIN sent' /\ sent'[n] = sent[n]
    BY <2>1, <2>2, AppendFacts
  <2> QED
    BY <2>1, <2>3 DEF Kept, Key, Range
<1>4. ASSUME NEW n \in 1..Len(stream), OnData(n) PROVE Kept
  <2>1. /\ Range(handled) \subseteq Range(handled')
        /\ phase' = [m \in Request |-> IF m \notin Arrived THEN phase[m]
                                       ELSE IF cache[Key(m)] # None THEN "reply" ELSE "query"]
        /\ outcome' = [m \in Request |-> IF m \in Arrived THEN cache[Key(m)] ELSE outcome[m]]
        /\ UNCHANGED <<performed, sent>>
    BY <1>4, Received
  <2>2. \A m \in Range(handled) : phase'[m] = phase[m] /\ outcome'[m] = outcome[m]
    BY <1>0, <2>1 DEF Arrived
  <2> QED
    BY <2>1, <2>2 DEF Kept, Key
<1>5. ASSUME NEW m \in Request, NEW r \in GameActionResult, QueryReturns(m, r) PROVE Kept
  <2>1. /\ phase[m] = "query" /\ UNCHANGED <<handled, performed, sent>>
        /\ phase' = [phase EXCEPT ![m] = IF ToErrorInfo(r) = None THEN "execute" ELSE "settle"]
        /\ outcome' = [outcome EXCEPT ![m] = IF ToErrorInfo(r) = None THEN None ELSE ResultOf(r)]
    BY <1>5 DEF QueryReturns
  <2>2. \A n \in Request : n # m => phase'[n] = phase[n] /\ outcome'[n] = outcome[n]
    BY <1>1, <2>1
  <2> QED
    BY <1>0, <2>1, <2>2 DEF Kept, Key, Range, Settled, Answered
<1>6. ASSUME NEW m \in Request, NEW r \in GameActionResult, Execute(m, r) PROVE Kept
  <2>1. /\ phase[m] = "execute" /\ phase' = [phase EXCEPT ![m] = "settle"]
        /\ outcome' = [outcome EXCEPT ![m] = ResultOf(r)]
        /\ performed' \in {performed, performed \cup {m}} /\ UNCHANGED <<handled, sent>>
    BY <1>6 DEF Execute
  <2>2. \A n \in Request : n # m => phase'[n] = phase[n] /\ outcome'[n] = outcome[n]
    BY <1>1, <2>1
  <2> QED
    BY <1>0, <2>1, <2>2 DEF Kept, Key, Range, Settled, Answered
<1>7. ASSUME NEW m \in Request, Settle(m) \/ Reply(m) PROVE Kept
  <2>1. /\ phase[m] \in {"settle", "reply"}
        /\ phase' = [phase EXCEPT ![m] = "reply"] \/ phase' = [phase EXCEPT ![m] = "done"]
        /\ UNCHANGED <<outcome, handled, performed, sent>>
    BY <1>7 DEF Settle, Reply
  <2>2. /\ \A n \in Request : n # m => phase'[n] = phase[n]
        /\ phase'[m] \in Answered
    BY <1>1, <2>1 DEF Answered
  <2> QED
    BY <1>0, <2>1, <2>2 DEF Kept, Key, Range, Settled
<1>8. CASE \/ Break \/ OnConnect
           \/ \E id \in RideIds : GameMoves(id)
           \/ UNCHANGED vars
  BY <1>2, <1>8 DEF Break, OnConnect, GameMoves, vars
<1> QED
  BY <1>3, <1>4, <1>5, <1>6, <1>7, <1>8 DEF Next, Promise

\* After every step each result that a promise has was earned by a request of
\* its key.
LEMMA ResultsEarned ==
  IInv /\ [Next]_vars =>
    (\A m \in Range(handled) :
       phase[m] \in Settled => \E n \in Range(handled) : Tells(n, Key(m), outcome[m]))'
<1> SUFFICES ASSUME IInv, [Next]_vars,
                    NEW m \in Range(handled'), phase'[m] \in Settled
             PROVE  \E n \in Range(handled') : Tells(n, Key(m), outcome[m])'
  BY DEF Range
<1> USE DEF link, wire
<1>0. TypeOK /\ FramingInv /\ PromiseInv /\ TruthInv /\ CacheInv /\ Kept
  BY KeptByAll DEF IInv
<1>1. /\ phase \in [Request -> Phase] /\ outcome \in [Request -> CommandResult \cup {None}]
      /\ Range(handled) \subseteq Request /\ Range(handled) \subseteq DOMAIN sent
  BY <1>0, RequestFacts DEF TypeOK
<1>2. CASE m \in Range(handled) /\ phase[m] \in Settled
  <2>1. PICK n \in Range(handled) : Tells(n, Key(m), outcome[m])
    BY <1>0, <1>2 DEF TruthInv
  <2> QED
    BY <1>0, <1>1, <1>2, <2>1 DEF Tells, Kept
<1>3. ASSUME NEW k \in 1..Len(stream), OnData(k), ~(m \in Range(handled) /\ phase[m] \in Settled)
      PROVE  \E n \in Range(handled') : Tells(n, Key(m), outcome[m])'
  <2>1. /\ Arrived \subseteq Request /\ Arrived \subseteq DOMAIN sent
        /\ phase' = [x \in Request |-> IF x \notin Arrived THEN phase[x]
                                       ELSE IF cache[Key(x)] # None THEN "reply" ELSE "query"]
        /\ outcome' = [x \in Request |-> IF x \in Arrived THEN cache[Key(x)] ELSE outcome[x]]
    BY <1>3, Received
  <2>2. m \in Arrived
    BY <1>1, <1>3, <2>1 DEF Arrived
  <2>3. cache[Key(m)] # None /\ outcome'[m] = cache[Key(m)]
    BY <2>1, <2>2 DEF Settled, Answered
  <2>4. Key(m) \in Keys /\ Key(m)' = Key(m)
    BY <1>0, <2>1, <2>2, RequestFacts DEF Kept
  <2>5. PICK x \in Range(handled) : Key(x) = Key(m) /\ phase[x] \in Answered
                                    /\ outcome[x] = cache[Key(m)]
    BY <1>0, <2>3, <2>4 DEF CacheInv
  <2>6. PICK n \in Range(handled) : Tells(n, Key(x), outcome[x])
    BY <1>0, <2>5 DEF TruthInv, Settled
  <2> QED
    BY <1>0, <1>1, <2>3, <2>4, <2>5, <2>6 DEF Tells, Kept
<1>4. ASSUME NEW k \in Request, NEW r \in GameActionResult, QueryReturns(k, r),
             ~(m \in Range(handled) /\ phase[m] \in Settled)
      PROVE  \E n \in Range(handled') : Tells(n, Key(m), outcome[m])'
  <2>1. /\ phase[k] = "query" /\ UNCHANGED <<handled, performed, sent>>
        /\ phase' = [phase EXCEPT ![k] = IF ToErrorInfo(r) = None THEN "execute" ELSE "settle"]
        /\ outcome' = [outcome EXCEPT ![k] = IF ToErrorInfo(r) = None THEN None ELSE ResultOf(r)]
    BY <1>4 DEF QueryReturns
  <2>2. m = k /\ ToErrorInfo(r) # None
    BY <1>1, <1>4, <2>1 DEF Settled, Answered, Range
  <2>3. outcome'[m] = ResultOf(r) /\ ResultOf(r).engine_error # None /\ m \notin performed
    BY <1>0, <1>1, <2>1, <2>2, ResultFacts DEF PromiseInv, Settled, Answered
  <2>4. Tells(m, Key(m), outcome[m])'
    BY <2>1, <2>3 DEF Tells, Range
  <2> QED
    BY <2>4
<1>5. ASSUME NEW k \in Request, NEW r \in GameActionResult, Execute(k, r),
             ~(m \in Range(handled) /\ phase[m] \in Settled)
      PROVE  \E n \in Range(handled') : Tells(n, Key(m), outcome[m])'
  <2>1. /\ phase[k] = "execute" /\ phase' = [phase EXCEPT ![k] = "settle"]
        /\ outcome' = [outcome EXCEPT ![k] = ResultOf(r)]
        /\ performed' = IF r.error \notin {None, 0} THEN performed ELSE performed \cup {k}
        /\ UNCHANGED <<handled, sent>>
    BY <1>5 DEF Execute
  <2>2. m = k
    BY <1>1, <1>5, <2>1 DEF Settled, Answered, Range
  <2>3. outcome'[m] = ResultOf(r) /\ (ResultOf(r).engine_error = None <=> r.error \in {None, 0})
    BY <1>1, <2>1, <2>2, ResultFacts
  <2>4. m \notin performed
    BY <1>0, <2>1, <2>2 DEF PromiseInv, Settled, Answered
  <2>5. m \in performed' <=> r.error \in {None, 0}
    BY <2>1, <2>2, <2>4
  <2>6. Tells(m, Key(m), outcome[m])'
    BY <2>1, <2>3, <2>5 DEF Tells, Range
  <2> QED
    BY <2>6
<1>6. ASSUME NEW k \in Request, Settle(k) \/ Reply(k)
      PROVE  m \in Range(handled) /\ phase[m] \in Settled
  <2>1. /\ phase[k] \in {"settle", "reply"} /\ handled' = handled
        /\ phase' = [phase EXCEPT ![k] = "reply"] \/ phase' = [phase EXCEPT ![k] = "done"]
    BY <1>6 DEF Settle, Reply
  <2> QED
    BY <1>1, <2>1 DEF Settled, Answered, Range
<1>7. CASE \/ \E request \in Commands : Send(request)
           \/ Break \/ OnConnect
           \/ \E id \in RideIds : GameMoves(id)
           \/ UNCHANGED vars
  <2>1. UNCHANGED <<phase, handled>>
    BY <1>7 DEF Send, Break, OnConnect, GameMoves, vars
  <2>2. m \in Range(handled) /\ phase[m] \in Settled
    BY <2>1 DEF Range
  <2> QED
    BY <1>2, <2>2
<1> QED
  BY <1>2, <1>3, <1>4, <1>5, <1>6, <1>7 DEF Next, Promise

\* Every step keeps results and answers true.
LEMMA TruthStep == IInv /\ [Next]_vars => TruthInv'
<1> SUFFICES ASSUME IInv, [Next]_vars PROVE TruthInv'
  OBVIOUS
<1> USE DEF link, wire
<1>0. TypeOK /\ FramingInv /\ PromiseInv /\ TruthInv /\ Kept
  BY KeptByAll DEF IInv
<1>1. answers \in Seq(ResultEnvelope) /\ DOMAIN answers = 1..Len(answers)
      /\ Range(handled) \subseteq DOMAIN sent
  BY <1>0, RequestFacts, SeqFacts DEF TypeOK
<1> DEFINE Good(a) ==
      /\ a.correlation_id \in DOMAIN sent
      /\ a.status = "ok" <=> a.payload.engine_error = None
      /\ \E n \in Range(handled) : Tells(n, Key(a.correlation_id), a.payload)
    GoodNext(a) ==
      /\ a.correlation_id \in DOMAIN sent'
      /\ a.status = "ok" <=> a.payload.engine_error = None
      /\ \E n \in Range(handled') :
           /\ Key(n)' = sent'[a.correlation_id].idempotency_key
           /\ phase'[n] \in Settled
           /\ outcome'[n] = a.payload
           /\ a.payload.engine_error = None <=> n \in performed'
<1>2. ASSUME NEW i \in DOMAIN answers PROVE GoodNext(answers[i])
  <2>1. Good(answers[i])
    BY <1>0 DEF TruthInv
  <2>2. PICK n \in Range(handled) : Tells(n, Key(answers[i].correlation_id), answers[i].payload)
    BY <2>1
  <2> DEFINE c == answers[i].correlation_id
  <2>3. c \in DOMAIN sent' /\ sent'[c].idempotency_key = Key(c)
    BY <1>0, <2>1 DEF Kept, Key
  <2>4. /\ n \in Range(handled') /\ Key(n)' = Key(c) /\ phase'[n] \in Settled
        /\ outcome'[n] = answers[i].payload
        /\ answers[i].payload.engine_error = None <=> n \in performed'
    BY <1>0, <1>1, <2>2 DEF Tells, Kept
  <2> QED
    BY <2>1, <2>3, <2>4
<1>3. \A i \in DOMAIN answers' : GoodNext(answers'[i])
  <2>1. ASSUME NEW m \in Request, Reply(m) PROVE \A i \in DOMAIN answers' : GoodNext(answers'[i])
    <3> DEFINE answer == [kind |-> "command.result", payload |-> outcome[m], correlation_id |-> m,
                          status |-> IF outcome[m].engine_error = None THEN "ok" ELSE "error"]
    <3>1. /\ phase[m] = "reply" /\ answers' \in {answers, Append(answers, answer)}
          /\ UNCHANGED <<sent, handled, outcome, performed>>
      BY <2>1 DEF Reply
    <3>2. m \in Range(handled) /\ m \in DOMAIN sent
      BY <3>1, Begun
    <3>3. GoodNext(answer)
      <4>1. PICK n \in Range(handled) : Tells(n, Key(m), outcome[m])
        BY <1>0, <3>1, <3>2 DEF TruthInv, Settled, Answered
      <4>2. /\ n \in Range(handled') /\ Key(n)' = sent'[m].idempotency_key
            /\ phase'[n] \in Settled /\ outcome'[n] = outcome[m]
            /\ outcome[m].engine_error = None <=> n \in performed'
        BY <1>0, <1>1, <3>1, <3>2, <4>1 DEF Tells, Kept, Key
      <4>3. answer.correlation_id = m /\ answer.payload = outcome[m]
            /\ (answer.status = "ok" <=> outcome[m].engine_error = None)
        OBVIOUS
      <4> HIDE DEF answer
      <4> QED
        BY <3>1, <3>2, <4>2, <4>3
    <3>4. outcome[m] \in CommandResult /\ answer \in ResultEnvelope
      <4>1. outcome[m] \in CommandResult
        BY <1>0, <3>1 DEF PromiseInv, Settled, Answered
      <4>2. m \in MessageId
        BY DEF Request, MessageId
      <4> QED
        BY <4>1, <4>2 DEF ResultEnvelope
    <3> HIDE DEF answer, GoodNext
    <3>5. \A i \in DOMAIN Append(answers, answer) :
            \/ i \in DOMAIN answers /\ Append(answers, answer)[i] = answers[i]
            \/ Append(answers, answer)[i] = answer
      <4>1. /\ DOMAIN Append(answers, answer) = 1..Len(answers) + 1
            /\ \A i \in DOMAIN answers : Append(answers, answer)[i] = answers[i]
            /\ Append(answers, answer)[Len(answers) + 1] = answer
        BY <1>1, <3>4, AppendFacts
      <4>2. Len(answers) \in Nat
        BY <1>1, SeqFacts
      <4> QED
        BY <1>1, <4>1, <4>2
    <3> QED
      BY <1>2, <3>1, <3>3, <3>5
  <2>2. ASSUME answers' = answers PROVE \A i \in DOMAIN answers' : GoodNext(answers'[i])
    <3> HIDE DEF GoodNext
    <3> QED
      BY <1>2, <2>2
  <2>3. ASSUME NEW n \in 1..Len(stream), OnData(n) PROVE answers' = answers
    BY <2>3 DEF OnData
  <2>4. ASSUME NEW m \in Request, NEW r \in GameActionResult,
               QueryReturns(m, r) \/ Execute(m, r)
        PROVE  answers' = answers
    BY <2>4 DEF QueryReturns, Execute
  <2>5. CASE \/ \E request \in Commands : Send(request)
             \/ Break \/ OnConnect
             \/ \E id \in RideIds : GameMoves(id)
             \/ UNCHANGED vars
    <3>1. answers' = answers
      BY <2>5 DEF Send, Break, OnConnect, GameMoves, vars
    <3> QED
      BY <2>2, <3>1
  <2>6. ASSUME NEW m \in Request, Settle(m) PROVE answers' = answers
    BY <2>6 DEF Settle
  <2> HIDE DEF GoodNext
  <2> QED
    BY <2>1, <2>2, <2>3, <2>4, <2>5, <2>6 DEF Next, Promise
<1>4. (\A m \in Range(handled) :
         phase[m] \in Settled => \E n \in Range(handled) : Tells(n, Key(m), outcome[m]))'
  BY ResultsEarned
<1> QED
  BY <1>3, <1>4 DEF TruthInv, Tells, Key

\* Every step keeps the cache filled with results of answered requests.
LEMMA CacheStep == IInv /\ [Next]_vars => CacheInv'
<1> SUFFICES ASSUME IInv, [Next]_vars PROVE CacheInv'
  OBVIOUS
<1> USE DEF link, wire
<1>0. TypeOK /\ FramingInv /\ PromiseInv /\ CacheInv /\ Kept
  BY KeptByAll DEF IInv
<1>1. /\ phase \in [Request -> Phase] /\ cache \in [Keys -> CommandResult \cup {None}]
      /\ Range(handled) \subseteq Request /\ Range(handled) \subseteq DOMAIN sent
      /\ \A m \in DOMAIN sent : Key(m) \in Keys
  BY <1>0, RequestFacts DEF TypeOK
<1>2. ASSUME cache' = cache,
             \A m \in Range(handled') : phase'[m] \in Answered =>
               \/ m \in Range(handled) /\ phase[m] \in Answered
               \/ m \in DOMAIN sent /\ cache[Key(m)] # None
      PROVE  CacheInv'
  <2>1. ASSUME NEW m \in Range(handled'), phase'[m] \in Answered PROVE cache'[Key(m)'] # None
    <3>1. CASE m \in Range(handled) /\ phase[m] \in Answered
      BY <1>0, <1>1, <1>2, <3>1 DEF CacheInv, Kept
    <3>2. CASE m \in DOMAIN sent /\ cache[Key(m)] # None
      BY <1>0, <1>2, <3>2 DEF Kept
    <3> QED
      BY <1>2, <2>1, <3>1, <3>2
  <2>2. ASSUME NEW k \in Keys, cache'[k] # None
        PROVE  \E n \in Range(handled') : Key(n)' = k /\ phase'[n] \in Answered
                                          /\ outcome'[n] = cache'[k]
    <3>1. PICK n \in Range(handled) : Key(n) = k /\ phase[n] \in Answered /\ outcome[n] = cache[k]
      BY <1>0, <1>2, <2>2 DEF CacheInv
    <3>2. n \in Range(handled') /\ Key(n)' = k /\ phase'[n] \in Answered /\ outcome'[n] = cache[k]
      BY <1>0, <1>1, <3>1 DEF Kept, Settled
    <3> QED
      BY <1>2, <3>2
  <2> QED
    BY <2>1, <2>2 DEF CacheInv, Range
<1>3. ASSUME NEW n \in 1..Len(stream), OnData(n) PROVE CacheInv'
  <2>1. /\ Arrived \subseteq Request /\ Arrived \subseteq DOMAIN sent /\ cache' = cache
        /\ phase' = [x \in Request |-> IF x \notin Arrived THEN phase[x]
                                       ELSE IF cache[Key(x)] # None THEN "reply" ELSE "query"]
    BY <1>3, Received
  <2>2. ASSUME NEW m \in Range(handled'), phase'[m] \in Answered
        PROVE  \/ m \in Range(handled) /\ phase[m] \in Answered
               \/ m \in DOMAIN sent /\ cache[Key(m)] # None
    <3>1. CASE m \in Arrived
      BY <2>1, <2>2, <3>1 DEF Answered
    <3>2. CASE m \notin Arrived
      BY <1>1, <2>1, <2>2, <3>2 DEF Arrived
    <3> QED
      BY <3>1, <3>2
  <2> QED
    BY <1>2, <2>1, <2>2
<1>4. ASSUME NEW k \in Request, Settle(k) PROVE CacheInv'
  <2>1. /\ phase[k] = "settle" /\ phase' = [phase EXCEPT ![k] = "reply"]
        /\ cache' = [cache EXCEPT ![Key(k)] = outcome[k]]
        /\ UNCHANGED <<outcome, sent, handled>>
    BY <1>4 DEF Settle
  <2>2. k \in Range(handled) /\ k \in DOMAIN sent /\ Key(k) \in Keys
    BY <2>1, Begun
  <2>3. outcome[k] # None
    <3>1. outcome[k] \in CommandResult
      BY <1>0, <2>1 DEF PromiseInv, Settled
    <3> QED
      BY <3>1, NoneAssumption
  <2>4. /\ cache'[Key(k)] = outcome[k]
        /\ \A x \in Keys : x # Key(k) => cache'[x] = cache[x]
        /\ phase'[k] = "reply" /\ \A x \in Request : x # k => phase'[x] = phase[x]
    BY <1>1, <2>1, <2>2
  <2>5. \A m \in DOMAIN sent : Key(m)' = Key(m)
    BY <2>1 DEF Key
  <2>6. Range(handled') = Range(handled)
    BY <2>1
  <2>7. ASSUME NEW m \in Range(handled'), phase'[m] \in Answered PROVE cache'[Key(m)'] # None
    <3>1. CASE Key(m) = Key(k)
      BY <1>1, <2>3, <2>4, <2>5, <2>6, <3>1
    <3>2. CASE Key(m) # Key(k)
      <4>1. phase[m] \in Answered /\ m \in Range(handled) /\ Key(m) \in Keys /\ Key(m)' = Key(m)
        BY <1>1, <2>4, <2>5, <2>6, <2>7, <3>2
      <4> QED
        BY <1>0, <2>4, <3>2, <4>1 DEF CacheInv
    <3> QED
      BY <3>1, <3>2
  <2>8. ASSUME NEW x \in Keys, cache'[x] # None
        PROVE  \E n \in Range(handled') : Key(n)' = x /\ phase'[n] \in Answered
                                          /\ outcome'[n] = cache'[x]
    <3>1. CASE x = Key(k)
      BY <2>1, <2>2, <2>4, <2>5, <2>6, <3>1 DEF Answered
    <3>2. CASE x # Key(k)
      <4>1. PICK n \in Range(handled) : Key(n) = x /\ phase[n] \in Answered
                                        /\ outcome[n] = cache[x]
        BY <1>0, <2>4, <2>8, <3>2 DEF CacheInv
      <4>2. Key(n)' = x /\ phase'[n] \in Answered /\ outcome'[n] = cache'[x]
        BY <1>0, <1>1, <2>1, <2>4, <2>5, <3>2, <4>1 DEF Kept
      <4> QED
        BY <2>6, <4>2
    <3> QED
      BY <3>1, <3>2
  <2> QED
    BY <2>7, <2>8 DEF CacheInv, Range
<1>5. ASSUME NEW k \in Request, NEW r \in GameActionResult,
             QueryReturns(k, r) \/ Execute(k, r)
      PROVE  CacheInv'
  <2>1. /\ phase[k] \in {"query", "execute"} /\ UNCHANGED <<cache, handled>>
        /\ \E next \in {"execute", "settle"} : phase' = [phase EXCEPT ![k] = next]
    BY <1>5 DEF QueryReturns, Execute
  <2>2. \A m \in Range(handled') : phase'[m] \in Answered =>
          m \in Range(handled) /\ phase[m] \in Answered
    BY <1>1, <2>1 DEF Answered
  <2> QED
    BY <1>2, <2>1, <2>2
<1>6. ASSUME NEW k \in Request, Reply(k) PROVE CacheInv'
  <2>1. phase[k] = "reply" /\ phase' = [phase EXCEPT ![k] = "done"] /\ UNCHANGED <<cache, handled>>
    BY <1>6 DEF Reply
  <2>2. \A m \in Range(handled') : phase'[m] \in Answered =>
          m \in Range(handled) /\ phase[m] \in Answered
    BY <1>1, <2>1 DEF Answered
  <2> QED
    BY <1>2, <2>1, <2>2
<1>7. CASE \/ \E request \in Commands : Send(request)
           \/ Break \/ OnConnect
           \/ \E id \in RideIds : GameMoves(id)
           \/ UNCHANGED vars
  <2>1. UNCHANGED <<phase, handled, cache>>
    BY <1>7 DEF Send, Break, OnConnect, GameMoves, vars
  <2> QED
    BY <1>2, <2>1
<1> QED
  BY <1>3, <1>4, <1>5, <1>6, <1>7 DEF Next, Promise

\* Every step keeps replays from doing anything.
LEMMA ReplayStep == IInv /\ [Next]_vars => ReplayInv'
<1> SUFFICES ASSUME IInv, [Next]_vars PROVE ReplayInv'
  OBVIOUS
<1> USE DEF link, wire
<1>0. TypeOK /\ FramingInv /\ PromiseInv /\ CacheInv /\ ReplayInv /\ Kept
  BY KeptByAll DEF IInv
<1>1. /\ before \in [Request -> SUBSET Request]
      /\ Range(handled) \subseteq Request /\ Range(handled) \subseteq DOMAIN sent
      /\ \A m \in DOMAIN sent : Key(m) \in Keys
  BY <1>0, RequestFacts DEF TypeOK
<1>2. ASSUME NEW m \in Range(handled), before'[m] = before[m]
      PROVE  /\ \A n \in before'[m] : n \in Range(handled') /\ phase'[n] \in Answered
             /\ before'[m] # {} => /\ phase'[m] \in Answered
                                   /\ m \notin performed'
                                   /\ \E n \in before'[m] : outcome'[n] = outcome'[m]
  <2>1. \A n \in before[m] : n \in Range(handled) /\ phase[n] \in Answered
    BY <1>0 DEF ReplayInv
  <2>2. \A n \in before[m] : n \in Range(handled') /\ phase'[n] \in Answered
    BY <1>0, <2>1 DEF Kept
  <2>3. ASSUME before[m] # {}
        PROVE  /\ phase'[m] \in Answered /\ m \notin performed'
               /\ \E n \in before[m] : outcome'[n] = outcome'[m]
    <3>1. /\ phase[m] \in Answered /\ m \notin performed
          /\ \E n \in before[m] : outcome[n] = outcome[m]
      BY <1>0, <2>3 DEF ReplayInv, ReplaysAreNoOps, Answered
    <3>2. PICK n \in before[m] : outcome[n] = outcome[m]
      BY <3>1
    <3>3. outcome'[n] = outcome[n] /\ outcome'[m] = outcome[m]
      BY <1>0, <2>1, <3>1 DEF Kept, Settled
    <3> QED
      BY <1>0, <3>1, <3>2, <3>3 DEF Kept, Settled
  <2> QED
    BY <1>2, <2>2, <2>3
<1>3. ASSUME UNCHANGED <<before, handled>> PROVE ReplayInv'
  <2>1. Range(handled') = Range(handled)
    BY <1>3
  <2> QED
    BY <1>2, <1>3, <2>1 DEF ReplayInv, ReplaysAreNoOps, Answered, Range
<1>4. ASSUME NEW k \in 1..Len(stream), OnData(k) PROVE ReplayInv'
  <2>1. /\ Arrived \subseteq Request /\ Arrived \subseteq DOMAIN sent /\ performed' = performed
        /\ phase' = [x \in Request |-> IF x \notin Arrived THEN phase[x]
                                       ELSE IF cache[Key(x)] # None THEN "reply" ELSE "query"]
        /\ outcome' = [x \in Request |-> IF x \in Arrived THEN cache[Key(x)] ELSE outcome[x]]
        /\ before' = [x \in Request |-> IF x \notin Arrived THEN before[x] ELSE
                        {n \in Range(handled) : Key(n) = Key(x) /\ phase[n] \in Answered}]
    BY <1>4, Received
  <2>2. ASSUME NEW m \in Range(handled')
        PROVE  /\ \A n \in before'[m] : n \in Range(handled') /\ phase'[n] \in Answered
               /\ before'[m] # {} => /\ phase'[m] \in Answered
                                     /\ m \notin performed'
                                     /\ \E n \in before'[m] : outcome'[n] = outcome'[m]
    <3>1. CASE m \in Arrived
      <4>1. m \notin Range(handled) /\ m \in Request /\ Key(m) \in Keys
        BY <1>1, <2>1, <3>1 DEF Arrived
      <4>2. before'[m] = {n \in Range(handled) : Key(n) = Key(m) /\ phase[n] \in Answered}
        BY <2>1, <3>1
      <4>3. \A n \in before'[m] : n \in Range(handled') /\ phase'[n] \in Answered
        BY <1>0, <4>2 DEF Kept
      <4>4. ASSUME before'[m] # {}
            PROVE  /\ phase'[m] \in Answered /\ m \notin performed'
                   /\ \E n \in before'[m] : outcome'[n] = outcome'[m]
        <5>1. PICK x \in Range(handled) : Key(x) = Key(m) /\ phase[x] \in Answered
          BY <4>2, <4>4
        <5>2. cache[Key(m)] # None
          BY <1>0, <5>1 DEF CacheInv
        <5>3. phase'[m] = "reply" /\ outcome'[m] = cache[Key(m)]
          BY <2>1, <3>1, <4>1, <5>2
        <5>4. PICK n \in Range(handled) : Key(n) = Key(m) /\ phase[n] \in Answered
                                          /\ outcome[n] = cache[Key(m)]
          BY <1>0, <4>1, <5>2 DEF CacheInv
        <5>5. n \in before'[m] /\ outcome'[n] = cache[Key(m)]
          BY <1>0, <4>2, <5>4 DEF Kept, Settled
        <5>6. m \notin performed'
          BY <1>0, <2>1, <4>1 DEF PromiseInv, Settled, Answered
        <5> QED
          BY <5>3, <5>5, <5>6 DEF Answered
      <4> QED
        BY <4>3, <4>4
    <3>2. CASE m \notin Arrived
      <4>1. m \in Range(handled)
        BY <3>2 DEF Arrived
      <4>2. before'[m] = before[m]
        BY <1>1, <2>1, <3>2, <4>1
      <4> QED
        BY <1>2, <4>1, <4>2
    <3> QED
      BY <3>1, <3>2
  <2> QED
    BY <2>2 DEF ReplayInv, ReplaysAreNoOps, Answered, Range
<1>5. ASSUME NEW m \in Request, Promise(m) PROVE ReplayInv'
  BY <1>3, <1>5 DEF Promise, QueryReturns, Execute, Settle, Reply
<1>6. CASE \/ \E request \in Commands : Send(request)
           \/ Break \/ OnConnect
           \/ \E id \in RideIds : GameMoves(id)
           \/ UNCHANGED vars
  BY <1>3, <1>6 DEF Send, Break, OnConnect, GameMoves, vars
<1> QED
  BY <1>4, <1>5, <1>6 DEF Next

-----------------------------------------------------------------------------
(***************************************************************************)
(* The theorems.                                                           *)
(***************************************************************************)
\* Before the first request nothing is read, promised, cached or answered.
LEMMA InitIInv == Init => IInv
<1> SUFFICES ASSUME Init PROVE IInv
  OBVIOUS
<1>1. /\ connected = TRUE /\ stream = <<>> /\ inbound = <<>> /\ read = {} /\ handled = <<>>
      /\ cache = [k \in Keys |-> None] /\ phase = [m \in Request |-> "none"]
      /\ outcome = [m \in Request |-> None] /\ before = [m \in Request |-> {}]
      /\ sent = <<>> /\ performed = {} /\ answers = <<>> /\ breaks = 0
  BY DEF Init
<1>2. Range(handled) = {}
  BY <1>1, EmptyFacts, RangeFacts
<1>3. DOMAIN handled = {} /\ DOMAIN stream = {} /\ DOMAIN inbound = {} /\ DOMAIN answers = {}
  BY <1>1, EmptyFacts
<1>4. TypeOK
  <2>1. /\ stream \in Seq(Piece) /\ inbound \in Seq(Piece) /\ handled \in Seq(Request)
        /\ sent \in Seq(CommandRequest) /\ Len(sent) = 0 /\ answers \in Seq(ResultEnvelope)
    BY <1>1, EmptyFacts
  <2>2. park \in Park
    BY StartParksAssumption DEF Init
  <2>3. BuildObservationSnapshot(park) \in ObservationSnapshot
    BY <2>2, SnapshotFacts
  <2>4. phase \in [Request -> Phase] /\ before \in [Request -> SUBSET Request]
        /\ cache \in [Keys -> CommandResult \cup {None}]
        /\ outcome \in [Request -> CommandResult \cup {None}]
    BY <1>1 DEF Phase
  <2>5. connected \in BOOLEAN /\ read \subseteq Request /\ performed \subseteq Request
        /\ breaks \in 0..MaxBreaks /\ Len(sent) <= MaxRequests
    BY <1>1, <2>1
  <2> QED
    BY <2>1, <2>2, <2>3, <2>4, <2>5 DEF TypeOK
<1>5. FramingInv
  <2>1. InOrder(handled, stream) /\ Paired(inbound, stream)
    BY <1>3 DEF InOrder, Paired
  <2>2. read \ Range(handled) = {}
    BY <1>1
  <2>3. Cardinality(read \ Range(handled)) = 0
    BY <2>2, FS_EmptySet
  <2>4. Whole(inbound, stream)
    BY <1>1 DEF Whole
  <2>5. Paid(handled, inbound, stream, read)
    BY <1>1, <2>3, <2>4 DEF Paid
  <2> QED
    BY <2>1, <2>5 DEF FramingInv
<1>6. PromiseInv
  BY <1>1, <1>2 DEF PromiseInv, Settled, Answered
<1>7. TruthInv /\ CacheInv
  BY <1>1, <1>2, <1>3 DEF TruthInv, CacheInv
<1>8. ReplayInv
  BY <1>2 DEF ReplayInv, ReplaysAreNoOps
<1> QED
  BY <1>4, <1>5, <1>6, <1>7, <1>8 DEF IInv

\* Framing, promises, cache and results stay in step, whatever the chunks, the
\* repetitions, the breaks and the game do.
THEOREM Invariant == Spec => []IInv
<1>1. IInv /\ [Next]_vars => IInv'
  BY TypeStep, FramingStep, PromiseStep, TruthStep, CacheStep, ReplayStep DEF IInv
<1> QED
  BY <1>1, InitIInv, PTL DEF Spec

\* Nothing is taken back: a request once handled stays handled, a result once
\* there is the result for good, and what was done to the game is not undone.
THEOREM NothingTakenBack == Spec => [][Kept]_vars
<1>1. IInv /\ [Next]_vars => [Kept]_vars
  BY KeptByAll
<1> QED
  BY <1>1, Invariant, PTL DEF Spec

\* Every state variable, and the snapshot of the park, has its type: no status,
\* weather, kind of staff or number leaves the protocol's range.
THEOREM TypeCorrect == Spec => []TypeOK
<1>1. IInv => TypeOK
  BY DEF IInv
<1> QED
  BY <1>1, Invariant, PTL

\* Requests are handled in order and at most once, and one break costs at most
\* one line.
THEOREM LinesSurvive == Spec => []LinesSurviveChunks
<1>1. IInv => LinesSurviveChunks
  <2> SUFFICES ASSUME IInv PROVE LinesSurviveChunks
    OBVIOUS
  <2>1. TypeOK /\ InOrder(handled, stream) /\ Paid(handled, inbound, stream, read)
    BY DEF IInv, FramingInv
  <2>2. read \ Range(handled) \in SUBSET Request
    BY <2>1 DEF TypeOK
  <2>3. Cardinality(read \ Range(handled)) \in Nat
    BY <2>2, RequestsFinite
  <2>4. breaks \in Nat
    BY <2>1 DEF TypeOK
  <2>5. Cardinality(read \ Range(handled)) <= breaks
    BY <2>1, <2>3, <2>4 DEF Paid
  <2> QED
    BY <2>1, <2>5 DEF LinesSurviveChunks, InOrder
<1> QED
  BY <1>1, Invariant, PTL

\* A request that comes after its key was answered changes nothing in the game
\* and gets a result its key already had.
THEOREM ReplaysDoNothing == Spec => []ReplaysAreNoOps
<1>1. IInv => ReplaysAreNoOps
  BY DEF IInv, ReplayInv
<1> QED
  BY <1>1, Invariant, PTL

\* An answer says "ok" exactly of a command the game executed.
THEOREM AnswersTrue == Spec => []AnswersAreTrue
<1>1. IInv => AnswersAreTrue
  <2> SUFFICES ASSUME IInv, NEW i \in DOMAIN answers
               PROVE  \E n \in Range(handled) :
                        /\ Key(n) = Key(answers[i].correlation_id)
                        /\ answers[i].status = "ok" <=> n \in performed
                        /\ outcome[n] = answers[i].payload
    BY DEF AnswersAreTrue
  <2>1. answers[i].status = "ok" <=> answers[i].payload.engine_error = None
    BY DEF IInv, TruthInv
  <2>2. PICK n \in Range(handled) : Tells(n, Key(answers[i].correlation_id), answers[i].payload)
    BY DEF IInv, TruthInv
  <2> QED
    BY <2>1, <2>2 DEF Tells
<1> QED
  BY <1>1, Invariant, PTL

-----------------------------------------------------------------------------
(***************************************************************************)
(* What is safe of SteadyLinkAnswers: the line is handled, its promise goes *)
(* forward only, and it is answered once.                                  *)
(***************************************************************************)
\* The next line stays whole when another is sent behind it.
LEMMA SendKeepsWhole ==
  ASSUME IInv, NEW request \in Commands, Send(request), Whole(inbound, stream)
  PROVE  Whole(inbound', stream')
<1> DEFINE m == Len(sent) + 1
           two == <<[msg |-> m, last |-> FALSE], [msg |-> m, last |-> TRUE]>>
<1>1. stream' = stream \o two /\ inbound' = inbound /\ m \in Request
  BY DEF Send, wire, link
<1>2. stream \in Seq(Piece) /\ two \in Seq(Piece)
  <2>1. stream \in Seq(Piece)
    BY DEF IInv, TypeOK
  <2> HIDE DEF m
  <2>2. [msg |-> m, last |-> FALSE] \in Piece /\ [msg |-> m, last |-> TRUE] \in Piece
    BY <1>1 DEF Piece
  <2> QED
    BY <2>1, <2>2
<1> HIDE DEF two
<1>3. /\ stream' \in Seq(Piece)
      /\ \A i \in DOMAIN stream : i \in DOMAIN stream' /\ stream'[i] = stream[i]
  BY <1>1, <1>2, ConcatFacts
<1>4. stream # <<>> => 1 \in DOMAIN stream
  BY <1>2, TailFacts
<1>5. stream # <<>> => stream'[1] = stream[1] /\ stream' # <<>>
  BY <1>3, <1>4, EmptyFacts
<1> QED
  BY <1>1, <1>5 DEF Whole

\* On a connection whose next line is not glued to a fragment of an earlier one,
\* every line that is read is handled, whatever the chunks, and the next line is
\* whole again, until the connection breaks.
THEOREM CleanLinkLosesNothing ==
  Spec => [][Whole(inbound, stream) /\ connected'
             => /\ Whole(inbound', stream')
                /\ read' \ read \subseteq Range(handled')]_vars
<1> DEFINE Lossless == Whole(inbound, stream) /\ connected'
                       => /\ Whole(inbound', stream')
                          /\ read' \ read \subseteq Range(handled')
<1>1. IInv /\ [Next]_vars => [Lossless]_vars
  <2> SUFFICES ASSUME IInv, Next, Whole(inbound, stream), connected'
               PROVE  /\ Whole(inbound', stream')
                      /\ read' \ read \subseteq Range(handled')
    OBVIOUS
  <2> USE DEF link, wire
  <2>1. ASSUME UNCHANGED wire
        PROVE  Whole(inbound', stream') /\ read' \ read \subseteq Range(handled')
    <3>1. stream' = stream /\ inbound' = inbound /\ read' = read
      BY <2>1
    <3> QED
      BY <3>1
  <2>2. ASSUME NEW request \in Commands, Send(request)
        PROVE  Whole(inbound', stream') /\ read' \ read \subseteq Range(handled')
    <3>1. read' = read
      BY <2>2 DEF Send
    <3> QED
      BY <2>2, <3>1, SendKeepsWhole
  <2>3. ~Break
    BY DEF Break
  <2>4. ASSUME NEW n \in 1..Len(stream), OnData(n)
        PROVE  Whole(inbound', stream') /\ read' \ read \subseteq Range(handled')
    BY <2>4, Received
  <2>5. OnConnect \/ (\E id \in RideIds : GameMoves(id)) \/ (\E m \in Request : Promise(m))
        => UNCHANGED wire
    BY DEF OnConnect, GameMoves, Promise, QueryReturns, Execute, Settle, Reply
  <2> QED
    BY <2>1, <2>2, <2>3, <2>4, <2>5 DEF Next
<1> QED
  BY <1>1, Invariant, PTL DEF Spec

\* What is answered is done with, so that nothing answers it again.
OnceInv ==
  /\ \A i \in DOMAIN answers : phase[answers[i].correlation_id] = "done"
  /\ \A i, j \in DOMAIN answers :
       answers[i].correlation_id = answers[j].correlation_id => i = j

\* A new answer is that of a promise which had none.
LEMMA OnceStep == IInv /\ OnceInv /\ [Next]_vars => OnceInv'
<1> SUFFICES ASSUME IInv, OnceInv, [Next]_vars PROVE OnceInv'
  OBVIOUS
<1> USE DEF link, wire
<1>0. TypeOK /\ PromiseInv /\ phase \in [Request -> Phase] /\ answers \in Seq(ResultEnvelope)
  BY DEF IInv, TypeOK
<1>1. \A i \in DOMAIN answers : answers[i].correlation_id \in Request
  <2>1. DOMAIN sent \subseteq Request
    BY <1>0, RequestFacts
  <2> QED
    BY <2>1 DEF IInv, TruthInv
<1>2. ASSUME answers' = answers, \A m \in Request : phase[m] = "done" => phase'[m] = "done"
      PROVE  OnceInv'
  BY <1>1, <1>2 DEF OnceInv
<1>3. ASSUME NEW n \in 1..Len(stream), OnData(n) PROVE OnceInv'
  <2>1. /\ phase' = [m \in Request |-> IF m \notin Arrived THEN phase[m]
                                       ELSE IF cache[Key(m)] # None THEN "reply" ELSE "query"]
        /\ answers' = answers
    BY <1>3, Received
  <2>2. \A m \in Request : m \in Arrived => phase[m] = "none"
    BY <1>0 DEF PromiseInv, Arrived
  <2> QED
    BY <1>2, <2>1, <2>2
<1>4. ASSUME NEW m \in Request, NEW r \in GameActionResult, QueryReturns(m, r) \/ Execute(m, r)
      PROVE  OnceInv'
  BY <1>0, <1>2, <1>4 DEF QueryReturns, Execute
<1>5. ASSUME NEW m \in Request, Settle(m) PROVE OnceInv'
  BY <1>0, <1>2, <1>5 DEF Settle
<1>6. ASSUME NEW m \in Request, Reply(m) PROVE OnceInv'
  <2> DEFINE answer == [kind |-> "command.result", payload |-> outcome[m], correlation_id |-> m,
                        status |-> IF outcome[m].engine_error = None THEN "ok" ELSE "error"]
  <2>1. /\ phase[m] = "reply" /\ phase' = [phase EXCEPT ![m] = "done"]
        /\ answers' = answers \/ answers' = Append(answers, answer)
    BY <1>6 DEF Reply
  <2>2. \A k \in Request : phase[k] = "done" \/ k = m => phase'[k] = "done"
    BY <1>0, <2>1
  <2>3. \A i \in DOMAIN answers : answers[i].correlation_id # m
    BY <2>1 DEF OnceInv
  <2>4. CASE answers' = answers
    BY <1>2, <2>2, <2>4
  <2>5. CASE answers' = Append(answers, answer)
    <3>1. answer.correlation_id = m
      OBVIOUS
    <3>2. answers' \in Seq(ResultEnvelope)
      BY <1>0, <1>6, TypeStep DEF TypeOK
    <3> HIDE DEF answer
    <3>3. /\ DOMAIN answers' = 1..Len(answers) + 1 /\ DOMAIN answers = 1..Len(answers)
          /\ Len(answers) \in Nat
          /\ \A i \in DOMAIN answers : answers'[i] = answers[i]
          /\ answers'[Len(answers) + 1] = answer
      BY <1>0, <2>5, AppendProperties, LenProperties
    <3>4. \A i \in DOMAIN answers' : i \in DOMAIN answers \/ i = Len(answers) + 1
      BY <3>3
    <3>5. \A i \in DOMAIN answers' : phase'[answers'[i].correlation_id] = "done"
      BY <1>1, <2>2, <3>1, <3>3, <3>4 DEF OnceInv
    <3>6. \A i, j \in DOMAIN answers' :
            answers'[i].correlation_id = answers'[j].correlation_id => i = j
      BY <2>3, <3>1, <3>3, <3>4 DEF OnceInv
    <3> QED
      BY <3>5, <3>6 DEF OnceInv
  <2> QED
    BY <2>1, <2>4, <2>5
<1>7. CASE \/ \E request \in Commands : Send(request)
           \/ Break \/ OnConnect
           \/ \E id \in RideIds : GameMoves(id)
           \/ UNCHANGED vars
  <2>1. answers' = answers /\ phase' = phase
    BY <1>7 DEF Send, Break, OnConnect, GameMoves, vars
  <2> QED
    BY <1>2, <2>1
<1> QED
  BY <1>3, <1>4, <1>5, <1>6, <1>7 DEF Next, Promise

\* No request is answered twice, however often it is sent again under its key
\* and whether its result came from the cache or from the game.
THEOREM AnsweredOnce ==
  Spec => [](\A i, j \in DOMAIN answers :
               answers[i].correlation_id = answers[j].correlation_id => i = j)
<1>1. Init => OnceInv
  BY EmptyFacts DEF Init, OnceInv
<1>2. OnceInv => \A i, j \in DOMAIN answers :
                   answers[i].correlation_id = answers[j].correlation_id => i = j
  BY DEF OnceInv
<1> QED
  BY <1>1, <1>2, OnceStep, Invariant, PTL DEF Spec

-----------------------------------------------------------------------------
(***************************************************************************)
(* The refinement of RemotePark, step by step.                             *)
(***************************************************************************)
\* The commands that were sent.
Commanded == {sent[m].command : m \in DOMAIN sent}

\* Both modules speak of one protocol.
LEMMA OneProtocol ==
  /\ Remote!CommandAction = CommandAction
  /\ Remote!ObservationSnapshot = ObservationSnapshot
  /\ Remote!StaffType = StaffType
<1>1. Remote!StaffType = StaffType
  BY DEF Remote!StaffType, StaffType
<1>2. Remote!CommandAction = CommandAction
  BY <1>1 DEF Remote!CommandAction, CommandAction
<1>3. Remote!Ride = Ride /\ Remote!Weather = Weather /\ Remote!StaffCounts = StaffCounts
  BY <1>1 DEF Remote!Ride, Ride, Remote!Weather, Weather, Remote!StaffCounts, StaffCounts,
              Remote!RideStatus, RideStatus
<1>4. Remote!ObservationSnapshot = ObservationSnapshot
  BY <1>3 DEF Remote!ObservationSnapshot, ObservationSnapshot
<1> QED
  BY <1>1, <1>2, <1>4

\* A send asks for one more command.
LEMMA SendAsks ==
  ASSUME IInv, NEW request \in Commands, Send(request)
  PROVE  Remote!Ask
<1>1. TypeOK
  BY DEF IInv
<1>2. sent' = Append(sent, request) /\ park' = park
  BY DEF Send
<1>3. sent \in Seq(CommandRequest) /\ request \in CommandRequest
  BY <1>1, CommandsAssumption DEF TypeOK
<1>4. /\ DOMAIN sent = 1..Len(sent) /\ Len(sent) \in Nat
      /\ DOMAIN sent' = 1..Len(sent) + 1
      /\ \A i \in DOMAIN sent : sent'[i] = sent[i]
      /\ sent'[Len(sent) + 1] = request
  BY <1>2, <1>3, AppendFacts
<1>5. \A c \in Commanded : c \in Commanded'
  BY <1>4 DEF Commanded
<1>6. \A c \in Commanded' : c \in Commanded \/ c = request.command
  <2> SUFFICES ASSUME NEW i \in DOMAIN sent' PROVE sent'[i].command \in Commanded
                                                   \/ sent'[i].command = request.command
    BY DEF Commanded
  <2>1. i \in DOMAIN sent \/ i = Len(sent) + 1
    BY <1>4
  <2> QED
    BY <1>4, <2>1 DEF Commanded
<1>7. request.command \in CommandAction
  BY <1>3 DEF CommandRequest
<1> QED
  BY <1>2, <1>5, <1>6, <1>7, OneProtocol DEF Remote!Ask, Commanded

\* What the game does to a ride shows as a ride under test, with its price.
LEMMA MovesAreMoves ==
  ASSUME IInv, NEW id \in RideIds, GameMoves(id)
  PROVE  Remote!GameMoves
<1> DEFINE ride == [park.rides[id] EXCEPT !.status = "simulating"]
<1>1. /\ park \in Park /\ park.rides[id] # None /\ sent' = sent
      /\ park' = [park EXCEPT !.rides = [park.rides EXCEPT ![id] = ride]]
  <2>1. park \in Park
    BY DEF IInv, TypeOK
  <2> QED
    BY <2>1 DEF GameMoves
<1>2. park.rides[id] \in EngineRide /\ BuildRides(park)[id] = Shown(park.rides[id])
      /\ BuildRides(park) \in [RideIds -> Ride \cup {None}]
  BY <1>1, RidesFacts
<1>3. ride \in EngineRide /\ ride.status = "simulating" /\ ride.price = park.rides[id].price
  BY <1>2 DEF EngineRide, EngineStatus
<1> HIDE DEF ride
<1>4. /\ park' \in Park /\ park'.fee = park.fee
      /\ BuildStaffCounts(park') = BuildStaffCounts(park)
      /\ BuildRides(park') = [BuildRides(park) EXCEPT ![id] = Shown(ride)]
  <2>1. park \in Park /\ ride \in EngineRide
    BY <1>1, <1>3
  <2>2. park' = [park EXCEPT !.rides = [park.rides EXCEPT ![id] = ride]]
    BY <1>1
  <2> QED
    BY <2>1, <2>2, RideChange
<1>5. Shown(ride).status = "testing" /\ Shown(ride).price = Shown(park.rides[id]).price
  BY <1>3 DEF Shown, MapRideStatus, RideStatus
<1>6. \A i \in RideIds :
        /\ BuildRides(park')[i].price = BuildRides(park)[i].price
        /\ BuildRides(park')[i].status \in {BuildRides(park)[i].status, "testing"}
  BY <1>2, <1>4, <1>5
<1>7. /\ BuildObservationSnapshot(park).rides = BuildRides(park)
      /\ BuildObservationSnapshot(park').rides = BuildRides(park')
      /\ BuildObservationSnapshot(park).staff_counts = BuildStaffCounts(park)
      /\ BuildObservationSnapshot(park').staff_counts = BuildStaffCounts(park')
  BY DEF BuildObservationSnapshot
<1>8. Commanded' = Commanded
  BY <1>1 DEF Commanded
<1> QED
  BY <1>4, <1>6, <1>7, <1>8 DEF Remote!GameMoves, Commanded

\* What is executed is what was asked for, as the protocol means it.
LEMMA ExecutesAsAsked ==
  ASSUME IInv, NEW m \in Request, NEW r \in GameActionResult, Execute(m, r)
  PROVE  Remote!Next \/ UNCHANGED Remote!vars
<1> DEFINE c == sent[m].command
           shown == BuildObservationSnapshot(park)
           after == BuildObservationSnapshot(park')
<1>1. TypeOK /\ FramingInv /\ PromiseInv
  BY DEF IInv
<1>2. sent' = sent /\ phase[m] = "execute"
      /\ (park' = park \/ park' = Executed(park, ToGameAction(c)))
  BY DEF Execute
<1>3. m \in DOMAIN sent
  <2>1. m \in Range(handled)
    BY <1>1, <1>2 DEF PromiseInv
  <2> QED
    BY <1>1, <2>1, RequestFacts
<1>4. c \in CommandAction /\ c \in Commanded /\ park \in Park
  BY <1>1, <1>3, RequestFacts DEF Commanded, TypeOK
<1>5. Commanded' = Commanded
  BY <1>2 DEF Commanded
<1>6. CASE park' = park
  BY <1>5, <1>6 DEF Remote!vars, Commanded
<1>7. CASE park' # park
  <2>1. Obeys(park, park', c) /\ park' # park
    BY <1>2, <1>4, <1>7, CommandsObeyed
  <2> HIDE DEF c
  <2>2. CASE /\ c.action = "set_ride_price" /\ shown.rides[c.ride_id] # None
             /\ after = [shown EXCEPT !.rides[c.ride_id].price = c.price] /\ park'.fee = park.fee
    <3>1. c.ride_id \in RideIds /\ c.price \in Nat
          /\ c = [action |-> "set_ride_price", ride_id |-> c.ride_id, price |-> c.price]
      BY <1>4, <2>2 DEF CommandAction
    <3> HIDE DEF shown, after
    <3>2. Remote!SetRidePrice(c.ride_id, c.price)
      BY <1>4, <1>5, <2>2, <3>1 DEF Remote!SetRidePrice, Commanded, shown, after
    <3> QED
      BY <1>4, <2>2, <3>1, <3>2 DEF Remote!Next, Commanded
  <2>3. CASE /\ c.action = "open_ride" /\ shown.rides[c.ride_id] # None
             /\ after = [shown EXCEPT !.rides[c.ride_id].status = "open"] /\ park'.fee = park.fee
    <3>1. c.ride_id \in RideIds /\ c = [action |-> "open_ride", ride_id |-> c.ride_id]
      BY <1>4, <2>3 DEF CommandAction
    <3>2. Remote!SetStatus(c.ride_id, "open_ride", "open")
      BY <1>4, <1>5, <2>3, <3>1 DEF Remote!SetStatus, Commanded
    <3> QED
      BY <3>1, <3>2 DEF Remote!Next
  <2>4. CASE /\ c.action = "close_ride" /\ shown.rides[c.ride_id] # None
             /\ after = [shown EXCEPT !.rides[c.ride_id].status = "closed"]
             /\ park'.fee = park.fee
    <3>1. c.ride_id \in RideIds /\ c = [action |-> "close_ride", ride_id |-> c.ride_id]
      BY <1>4, <2>4 DEF CommandAction
    <3>2. Remote!SetStatus(c.ride_id, "close_ride", "closed")
      BY <1>4, <1>5, <2>4, <3>1 DEF Remote!SetStatus, Commanded
    <3> QED
      BY <3>1, <3>2 DEF Remote!Next
  <2>5. CASE /\ c.action = "hire_staff"
             /\ after = [shown EXCEPT !.staff_counts[c.type] = @ + 1] /\ park'.fee = park.fee
    <3>1. c.type \in StaffType /\ c = [action |-> "hire_staff", type |-> c.type]
      BY <1>4, <2>5 DEF CommandAction
    <3>2. Remote!HireStaff(c.type)
      BY <1>4, <1>5, <2>5, <3>1 DEF Remote!HireStaff, Commanded
    <3> QED
      BY <3>1, <3>2, OneProtocol DEF Remote!Next
  <2>6. CASE c.action = "set_park_entry_fee" /\ after = shown /\ park'.fee = c.price
    <3>1. c.price \in Nat /\ c = [action |-> "set_park_entry_fee", price |-> c.price]
      BY <1>4, <2>6 DEF CommandAction
    <3>2. Remote!SetParkEntryFee(c.price)
      BY <1>4, <1>5, <2>6, <3>1 DEF Remote!SetParkEntryFee, Commanded
    <3> QED
      BY <1>4, <2>6, <3>2 DEF Remote!Next, Commanded
  <2> QED
    BY <2>1, <2>2, <2>3, <2>4, <2>5, <2>6 DEF Obeys
<1> QED
  BY <1>6, <1>7

\* The bridge implements the park that the protocol speaks of: every step of it
\* is a step the protocol allows, of a command that was sent, or none at all.
THEOREM Refinement == Spec => ObservedAsCommanded
<1>1. Init => Remote!Init
  <2> SUFFICES ASSUME Init PROVE Remote!Init
    OBVIOUS
  <2>1. park \in Park /\ sent = <<>>
    BY StartParksAssumption DEF Init
  <2>2. BuildObservationSnapshot(park) \in ObservationSnapshot
    BY <2>1, SnapshotFacts
  <2>3. park.fee \in Nat
    BY <2>1 DEF Park
  <2>4. Commanded = {}
    BY <2>1, EmptyFacts DEF Commanded
  <2> QED
    BY <2>2, <2>3, <2>4, OneProtocol DEF Remote!Init, Commanded
<1>2. IInv /\ [Next]_vars => [Remote!Next]_(Remote!vars)
  <2> SUFFICES ASSUME IInv, [Next]_vars PROVE [Remote!Next]_(Remote!vars)
    OBVIOUS
  <2>1. ASSUME NEW request \in Commands, Send(request) PROVE Remote!Next
    BY <2>1, SendAsks DEF Remote!Next
  <2>2. ASSUME NEW id \in RideIds, GameMoves(id) PROVE Remote!Next
    BY <2>2, MovesAreMoves DEF Remote!Next
  <2>3. ASSUME NEW m \in Request, NEW r \in GameActionResult, Execute(m, r)
        PROVE  [Remote!Next]_(Remote!vars)
    BY <2>3, ExecutesAsAsked
  <2>4. ASSUME park' = park, sent' = sent PROVE UNCHANGED Remote!vars
    BY <2>4 DEF Remote!vars
  <2>5. CASE \/ Break \/ OnConnect \/ UNCHANGED vars
             \/ \E n \in 1..Len(stream) : OnData(n)
             \/ \E m \in Request : \/ \E r \in GameActionResult : QueryReturns(m, r)
                                   \/ Settle(m)
                                   \/ Reply(m)
    BY <2>4, <2>5 DEF Break, OnConnect, OnData, QueryReturns, Settle, Reply, vars
  <2> QED
    BY <2>1, <2>2, <2>3, <2>5 DEF Next, Promise
<1> QED
  BY <1>1, <1>2, Invariant, PTL DEF Spec, ObservedAsCommanded, Remote!Spec
=============================================================================
