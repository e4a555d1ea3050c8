--------------------------- MODULE WatchdogProofs ---------------------------
(***************************************************************************)
(* The one pass over the prices counts the turning points, for prices of   *)
(* any length; IInv is inductive, and one process alone raises no alarm,   *)
(* for every constitution whose margins are those of MarginsAssumption.    *)
(***************************************************************************)
EXTENDS Watchdog, SequenceFacts, FiniteSetTheorems

USE BoundsAssumption, PricesAssumption

-----------------------------------------------------------------------------
(***************************************************************************)
(* The pass over the prices.                                               *)
(***************************************************************************)
Seeing == [last: {-1, 0, 1}, count: Nat]

\* The moves between the prices.
LEMMA DirectionFacts ==
  ASSUME NEW prices \in Seq(Nat)
  PROVE  /\ Len(prices) \in Nat
         /\ DOMAIN Directions(prices) = 1..Len(prices) - 1
         /\ \A i \in 1..Len(prices) - 1 : Directions(prices)[i] \in {-1, 0, 1}
<1>1. Len(prices) \in Nat /\ \A i \in 1..Len(prices) : prices[i] \in Nat
  BY LenProperties
<1>2. \A i \in 1..Len(prices) - 1 : prices[i + 1] - prices[i] \in Int
  BY <1>1
<1>3. \A d \in Int : Sign(d) \in {-1, 0, 1}
  BY DEF Sign
<1> QED
  BY <1>1, <1>2, <1>3 DEF Directions

\* One more move.
LEMMA TurnFacts ==
  ASSUME NEW s \in Seeing, NEW d \in {-1, 0, 1}
  PROVE  /\ Turn(s, d) \in Seeing
         /\ d = 0 => Turn(s, d) = s
         /\ d # 0 => /\ Turn(s, d).last = d
                     /\ Turn(s, d).count = s.count + IF s.last \notin {0, d} THEN 1 ELSE 0
BY DEF Turn, Seeing

\* Before the second price nothing is seen, and each price after it is one turn.
LEMMA SeenFacts ==
  ASSUME NEW prices \in Seq(Nat)
  PROVE  /\ \A n \in 0..Len(prices) : Seen(prices)[n] \in Seeing
         /\ \A n \in 0..Len(prices) : n <= 1 => Seen(prices)[n] = [last |-> 0, count |-> 0]
         /\ \A n \in 2..Len(prices) :
              Seen(prices)[n] = Turn(Seen(prices)[n - 1], Directions(prices)[n - 1])
<1> DEFINE l == Len(prices)
           d == Directions(prices)
           start == [last |-> 0, count |-> 0]
           Move == [n \in 1..l |-> [s \in Seeing |-> IF n <= 1 THEN start ELSE Turn(s, d[n - 1])]]
           Step(g) == [n \in 0..l |-> IF n <= 1 THEN start ELSE Turn(g[n - 1], d[n - 1])]
<1>1. l \in Nat /\ \A n \in 2..l : d[n - 1] \in {-1, 0, 1}
  BY DirectionFacts
<1>2. start \in Seeing
  BY DEF Seeing
<1>3. \A n \in 1..l, s \in Seeing : n <= 1 \/ Turn(s, d[n - 1]) \in Seeing
  <2> TAKE n \in 1..l, s \in Seeing
  <2>1. n <= 1 \/ n \in 2..l
    BY <1>1
  <2> QED
    BY <1>1, <2>1, TurnFacts
<1>4. Move \in [1..l -> [Seeing -> Seeing]]
  BY <1>2, <1>3
<1>5. PICK g \in [0..l -> Seeing] : g[0] = start /\ \A n \in 1..l : g[n] = Move[n][g[n - 1]]
  <2>1. l \in Nat
    BY <1>1
  <2> HIDE DEF Move, start, l, d, Step
  <2>2. \E g \in [0..l -> Seeing] : CarriedAlong(g, start, l, Move)
    BY <2>1, <1>2, <1>4, Along
  <2> QED
    BY <2>2 DEF CarriedAlong
<1>6. \A n \in 1..l : g[n - 1] \in Seeing
  BY <1>1
<1>7. \A n \in 1..l : g[n] = IF n <= 1 THEN start ELSE Turn(g[n - 1], d[n - 1])
  <2> HIDE DEF start, d
  <2> QED
    BY <1>5, <1>6
<1>8. g = Step(g)
  <2> HIDE DEF start, d
  <2>1. \A n \in 0..l : n = 0 \/ n \in 1..l
    BY <1>1
  <2>2. \A n \in 0..l : g[n] = Step(g)[n]
    BY <1>1, <1>5, <1>7, <2>1
  <2> QED
    BY <2>2
<1>9. Seen(prices) = CHOOSE f : f = Step(f)
  BY DEF Seen
<1>10. Seen(prices) = Step(Seen(prices))
  <2> HIDE DEF Step
  <2> QED
    BY <1>8, <1>9
<1>11. \A n \in 0..l : Seen(prices)[n] = IF n <= 1 THEN start
                         ELSE Turn(Seen(prices)[n - 1], d[n - 1])
  <2> HIDE DEF start, d
  <2> QED
    BY <1>10
<1>12. \A n \in 0..l : Seen(prices)[n] \in Seeing
  <2> DEFINE T == {n \in Nat : n <= l => Seen(prices)[n] \in Seeing}
  <2>1. 0 \in T
    BY <1>1, <1>2, <1>11
  <2>2. ASSUME NEW n \in 0..l, n \in T, n < l PROVE n + 1 \in T
    <3>1. n + 1 \in 0..l /\ n + 1 \in 1..l /\ (n + 1) - 1 = n /\ Seen(prices)[n] \in Seeing
      BY <1>1, <2>2
    <3>2. CASE n + 1 <= 1
      BY <1>2, <1>11, <3>1, <3>2
    <3>3. CASE ~ (n + 1 <= 1)
      <4>1. Seen(prices)[n + 1] = Turn(Seen(prices)[n], d[n])
        <5> HIDE DEF d, start
        <5> QED
          BY <1>11, <3>1, <3>3
      <4>2. Turn(Seen(prices)[n], d[n]) \in Seeing
        <5>1. d[n] \in {-1, 0, 1}
          BY <1>1, <3>1, <3>3
        <5> QED
          BY <3>1, <5>1, TurnFacts
      <4> QED
        BY <3>1, <4>1, <4>2
    <3> QED
      BY <3>2, <3>3
  <2>3. \A n \in 0..l : n \in T
    <3> HIDE DEF T
    <3> QED
      BY <1>1, <2>1, <2>2, UpTo
  <2> QED
    BY <2>3
<1> QED
  <2> HIDE DEF start, d
  <2>1. \A n \in 2..l : n \in 0..l /\ ~ (n <= 1)
    BY <1>1
  <2>2. \A n \in 2..l : Seen(prices)[n] = Turn(Seen(prices)[n - 1], d[n - 1])
    BY <1>11, <2>1
  <2>3. \A n \in 0..l : n <= 1 => Seen(prices)[n] = start
    BY <1>11
  <2> QED
    BY <1>12, <2>2, <2>3 DEF start, d

\* What the pass knows after n prices: the number of turning points among the
\* moves so far, and the last of them that was one.
Told(prices, n) ==
  LET s == Seen(prices)[n]
      d == Directions(prices)
  IN  /\ s.count = Cardinality(TurningPoints(prices) \cap (1..n - 1))
      /\ s.last = 0 => \A k \in 1..n - 1 : d[k] = 0
      /\ s.last # 0 => \E j \in 1..n - 1 : d[j] = s.last /\ \A k \in j + 1..n - 1 : d[k] = 0

\* A turning point is a move against the last move before it.
LEMMA TurningPointFacts ==
  ASSUME NEW prices \in Seq(Nat), NEW n \in 1..Len(prices) - 1, NEW last \in {-1, 0, 1},
         last = 0 => \A k \in 1..n - 1 : Directions(prices)[k] = 0,
         last # 0 => \E j \in 1..n - 1 : /\ Directions(prices)[j] = last
                                         /\ \A k \in j + 1..n - 1 : Directions(prices)[k] = 0
  PROVE  n \in TurningPoints(prices)
           <=> Directions(prices)[n] # 0 /\ last \notin {0, Directions(prices)[n]}
<1> DEFINE d == Directions(prices)
<1>1. /\ Len(prices) \in Nat /\ DOMAIN d = 1..Len(prices) - 1
      /\ \A i \in 1..Len(prices) - 1 : d[i] \in {-1, 0, 1}
  BY DirectionFacts
<1>2. n \in TurningPoints(prices)
        <=> \E i \in 1..n - 1 : d[i] # 0 /\ d[n] = -d[i] /\ \A k \in i + 1..n - 1 : d[k] = 0
  BY <1>1 DEF TurningPoints
<1> HIDE DEF d
<1>3. n \in Nat /\ d[n] \in {-1, 0, 1} /\ \A i \in 1..n - 1 : d[i] \in {-1, 0, 1} /\ i \in Nat
  BY <1>1
<1>4. CASE last = 0
  <2>1. \A k \in 1..n - 1 : d[k] = 0
    BY <1>4 DEF d
  <2> QED
    BY <1>2, <1>4, <2>1 DEF d
<1>5. CASE last # 0
  <2>1. PICK j \in 1..n - 1 : d[j] = last /\ \A k \in j + 1..n - 1 : d[k] = 0
    BY <1>5 DEF d
  <2>2. ASSUME NEW i \in 1..n - 1, d[i] # 0, \A k \in i + 1..n - 1 : d[k] = 0
        PROVE  i = j
    <3>1. i \in Nat /\ j \in Nat
      BY <1>3
    <3>2. CASE i < j
      <4>1. j \in i + 1..n - 1
        BY <1>3, <3>1, <3>2
      <4> QED
        BY <1>5, <2>1, <2>2, <4>1
    <3>3. CASE j < i
      <4>1. i \in j + 1..n - 1
        BY <1>3, <3>1, <3>3
      <4> QED
        BY <2>1, <2>2, <4>1
    <3> QED
      BY <3>1, <3>2, <3>3
  <2>3. n \in TurningPoints(prices) <=> d[n] = -last
    BY <1>2, <1>5, <2>1, <2>2
  <2>4. d[n] = -last <=> d[n] # 0 /\ last \notin {0, d[n]}
    BY <1>3, <1>5
  <2> QED
    BY <2>3, <2>4 DEF d
<1> QED
  BY <1>4, <1>5

\* The pass knows it after every price.
LEMMA PassFacts ==
  ASSUME NEW prices \in Seq(Nat), NEW n \in 1..Len(prices)
  PROVE  Told(prices, n)
<1> DEFINE l == Len(prices)
           d == Directions(prices)
           TP == TurningPoints(prices)
           s(i) == Seen(prices)[i]
           Known == {i \in Nat : i \in 1..l => Told(prices, i)}
<1>1. l \in Nat /\ \A i \in 1..l - 1 : d[i] \in {-1, 0, 1}
  BY DirectionFacts
<1>2. 0 \in Known
  OBVIOUS
<1>3. ASSUME 1 \in 1..l PROVE Told(prices, 1)
  <2>1. s(1) = [last |-> 0, count |-> 0]
    BY <1>1, <1>3, SeenFacts
  <2>2. TP \cap (1..1 - 1) = {} /\ \A k \in 1..1 - 1 : FALSE
    OBVIOUS
  <2> HIDE DEF TP, s
  <2>3. s(1).count = Cardinality(TP \cap (1..1 - 1))
    BY <2>1, <2>2, FS_EmptySet
  <2>4. s(1).last = 0
    BY <2>1
  <2> QED
    BY <2>2, <2>3, <2>4 DEF Told, TP, s
<1>4. ASSUME NEW i \in 1..l, i < l, Told(prices, i) PROVE Told(prices, i + 1)
  <2>1. /\ i + 1 \in 2..l /\ (i + 1) - 1 = i /\ i \in 1..l - 1 /\ i \in 0..l
        /\ s(i) \in Seeing /\ d[i] \in {-1, 0, 1}
        /\ s(i + 1) = Turn(s(i), d[i])
    BY <1>1, <1>4, SeenFacts
  <2>2. /\ s(i).count = Cardinality(TP \cap (1..i - 1))
        /\ s(i).last = 0 => \A k \in 1..i - 1 : d[k] = 0
        /\ s(i).last # 0 =>
             \E j \in 1..i - 1 : d[j] = s(i).last /\ \A k \in j + 1..i - 1 : d[k] = 0
    BY <1>4 DEF Told
  <2>3. i \in TP <=> d[i] # 0 /\ s(i).last \notin {0, d[i]}
    BY <2>1, <2>2, TurningPointFacts DEF Seeing
  <2>4. IsFiniteSet(TP \cap (1..i - 1)) /\ i \notin TP \cap (1..i - 1)
    <3>0. 1 \in Int /\ i - 1 \in Int
      BY <1>4
    <3>1. IsFiniteSet(1..i - 1) /\ TP \cap (1..i - 1) \subseteq 1..i - 1
      BY <3>0, FS_Interval
    <3>2. i \notin 1..i - 1
      BY <1>4
    <3> QED
      BY <3>1, <3>2, FS_Subset
  <2>5. 1..i = (1..i - 1) \cup {i} /\ \A j \in Nat : (j + 1..i) \subseteq (j + 1..i - 1) \cup {i}
    BY <1>4
  <2> HIDE DEF s, d, TP, l
  <2>6. CASE d[i] = 0
    <3>1. s(i + 1) = s(i)
      BY <2>1, <2>6, TurnFacts
    <3>2. TP \cap (1..i) = TP \cap (1..i - 1)
      BY <2>3, <2>5, <2>6
    <3>3. s(i).last = 0 => \A k \in 1..i : d[k] = 0
      BY <2>2, <2>5, <2>6
    <3>4. ASSUME s(i).last # 0
          PROVE  \E j \in 1..i : d[j] = s(i).last /\ \A k \in j + 1..i : d[k] = 0
      <4>1. PICK j \in 1..i - 1 : d[j] = s(i).last /\ \A k \in j + 1..i - 1 : d[k] = 0
        BY <2>2, <3>4
      <4>2. j \in 1..i /\ j \in Nat
        BY <2>5
      <4>3. \A k \in j + 1..i : d[k] = 0
        BY <2>5, <2>6, <4>1, <4>2
      <4> QED
        BY <4>1, <4>2, <4>3
    <3>5. s(i + 1).count = Cardinality(TP \cap (1..(i + 1) - 1))
      BY <2>1, <2>2, <3>1, <3>2
    <3> QED
      BY <2>1, <3>1, <3>3, <3>4, <3>5 DEF Told, s, d, TP
  <2>7. CASE d[i] # 0
    <3>1. /\ s(i + 1).last = d[i]
          /\ s(i + 1).count = s(i).count + IF s(i).last \notin {0, d[i]} THEN 1 ELSE 0
      BY <2>1, <2>7, TurnFacts
    <3>2. s(i + 1).count = Cardinality(TP \cap (1..i))
      <4>1. CASE i \in TP
        <5>1. TP \cap (1..i) = (TP \cap (1..i - 1)) \cup {i}
          BY <2>5, <4>1
        <5>2. s(i + 1).count = s(i).count + 1
          BY <2>3, <3>1, <4>1
        <5> QED
          BY <2>2, <2>4, <5>1, <5>2, FS_AddElement
      <4>2. CASE i \notin TP
        <5>1. TP \cap (1..i) = TP \cap (1..i - 1)
          BY <2>5, <4>2
        <5>2. s(i + 1).count = s(i).count + 0
          BY <2>3, <2>7, <3>1, <4>2
        <5>3. s(i).count \in Nat
          BY <2>1 DEF Seeing
        <5>4. s(i + 1).count = s(i).count
          BY <5>2, <5>3
        <5> QED
          BY <2>2, <5>1, <5>4
      <4> QED
        BY <4>1, <4>2
    <3>3. i \in 1..i /\ d[i] = s(i + 1).last /\ \A k \in i + 1..i : d[k] = 0
      BY <1>4, <3>1
    <3>4. s(i + 1).last # 0
      BY <2>7, <3>1
    <3> QED
      BY <2>1, <3>2, <3>3, <3>4 DEF Told, s, d, TP
  <2> QED
    BY <2>6, <2>7
<1>5. ASSUME NEW i \in 0..l, i \in Known, i < l PROVE i + 1 \in Known
  <2>1. i = 0 \/ i \in 1..l
    BY <1>1
  <2>2. CASE i = 0
    BY <1>3, <2>2
  <2>3. CASE i \in 1..l
    BY <1>4, <1>5, <2>3
  <2> QED
    BY <2>1, <2>2, <2>3
<1> HIDE DEF Known
<1>6. \A i \in 0..l : i \in Known
  <2> HIDE DEF l, d
  <2> QED
    BY <1>1, <1>2, <1>5, UpTo
<1>7. n \in 0..l
  BY <1>1
<1> QED
  BY <1>6, <1>7 DEF Known

\* One pass counts the turning points, whatever the prices.
LEMMA CountIsRight ==
  ASSUME NEW prices \in Seq(Nat)
  PROVE  CountReversals(prices) = Cardinality(TurningPoints(prices))
<1> DEFINE l == Len(prices)
<1>1. l \in Nat /\ TurningPoints(prices) \subseteq 1..l - 1
  BY DirectionFacts DEF TurningPoints
<1>2. CASE l = 0
  <2>0. 0 \in 0..l /\ 0 <= 1
    BY <1>1
  <2>1. Seen(prices)[0] = [last |-> 0, count |-> 0]
    BY <2>0, SeenFacts
  <2>2. TurningPoints(prices) = {}
    BY <1>1, <1>2
  <2> QED
    BY <1>2, <2>1, <2>2, FS_EmptySet DEF CountReversals
<1>3. CASE l # 0
  <2>1. l \in 1..l
    BY <1>1, <1>3
  <2>2. Seen(prices)[l].count = Cardinality(TurningPoints(prices) \cap (1..l - 1))
    BY <2>1, PassFacts DEF Told
  <2>3. TurningPoints(prices) \cap (1..l - 1) = TurningPoints(prices)
    BY <1>1
  <2> QED
    BY <2>2, <2>3 DEF CountReversals
<1> QED
  BY <1>2, <1>3

\* Two prices fewer than there are can turn.
LEMMA CountIsBounded ==
  ASSUME NEW prices \in Seq(Nat), NEW m \in Nat, Len(prices) <= m + 2
  PROVE  CountReversals(prices) \in 0..m
<1> DEFINE l == Len(prices)
           TP == TurningPoints(prices)
<1>1. l \in Nat /\ TP \subseteq 2..l - 1
  <2>1. l \in Nat /\ TP \subseteq 1..l - 1
    BY DirectionFacts DEF TurningPoints
  <2>2. 1 \notin TP
    BY DEF TurningPoints
  <2> QED
    BY <2>1, <2>2
<1>2. TP \subseteq 2..m + 1
  BY <1>1
<1>3. IsFiniteSet(2..m + 1) /\ Cardinality(2..m + 1) = m
  <2>1. 2 \in Int /\ m + 1 \in Int
    OBVIOUS
  <2>2. Cardinality(2..m + 1) = IF 2 > m + 1 THEN 0 ELSE (m + 1) - 2 + 1
    BY <2>1, FS_Interval
  <2> QED
    BY <2>1, <2>2, FS_Interval
<1>4. Cardinality(TP) \in Nat /\ Cardinality(TP) <= m
  BY <1>2, <1>3, FS_Subset, FS_CardinalityType
<1> QED
  BY <1>4, CountIsRight

-----------------------------------------------------------------------------
(***************************************************************************)
(* What the checks read.                                                   *)
(***************************************************************************)
\* The rows by position.
LEMMA RowFacts ==
  ASSUME TypeOK
  PROVE  /\ rows \in Seq(Action) /\ Len(rows) \in 0..MaxRows /\ DOMAIN rows = 1..Len(rows)
         /\ \A i \in 1..Len(rows) :
              /\ rows[i] \in Action
              /\ rows[i].ride \in Rides /\ rows[i].price \in Nat /\ rows[i].tick \in 0..MaxTick
<1>1. PICK n \in 0..MaxRows : rows \in [1..n -> Action]
  BY DEF TypeOK
<1>2. rows \in Seq(Action) /\ Len(rows) = n /\ DOMAIN rows = 1..n
  BY <1>1, FunctionFacts
<1>3. \A i \in 1..n : rows[i] \in Action
  BY <1>1
<1> QED
  BY <1>2, <1>3 DEF Action

\* No row is younger than the latest tick.
LEMMA LatestFacts ==
  ASSUME TypeOK
  PROVE  LatestTick \in Nat /\ \A i \in 1..Len(rows) : rows[i].tick <= LatestTick
<1> DEFINE ticks == {rows[i].tick : i \in DOMAIN rows}
           M == ticks \ {0}
<1>1. ticks \subseteq 0..MaxTick /\ \A i \in 1..Len(rows) : rows[i].tick \in ticks
  BY RowFacts
<1>2. M \in SUBSET (1..MaxTick) /\ {0} \cup ticks = M \cup {0}
  BY <1>1
<1>3. LatestTick = Max(M \cup {0})
  BY <1>2 DEF LatestTick
<1> HIDE DEF M
<1>4. LatestTick \in M \cup {0} /\ \A y \in M : y <= LatestTick
  BY <1>2, <1>3, MaxFacts
<1>5. LatestTick \in Nat
  BY <1>2, <1>4
<1>6. \A y \in ticks : y = 0 \/ y \in M
  BY DEF M
<1> HIDE DEF ticks
<1>7. ASSUME NEW y \in ticks PROVE y <= LatestTick
  <2>1. CASE y = 0
    BY <1>5, <2>1
  <2>2. CASE y \in M
    BY <1>4, <2>2
  <2> QED
    BY <1>6, <2>1, <2>2
<1> QED
  BY <1>1, <1>5, <1>7

\* Fewer times the same is less.
LEMMA Cancel ==
  ASSUME NEW a \in Nat, NEW b \in Nat, NEW c \in Nat, a * c < b * c
  PROVE  a < b
<1> SUFFICES ASSUME a >= b PROVE FALSE
  OBVIOUS
<1>1. PICK k \in Nat : a = b + k
  <2>1. a - b \in Nat /\ a = b + (a - b)
    OBVIOUS
  <2> QED
    BY <2>1
<1>2. a * c = b * c + k * c
  BY <1>1
<1>3. k * c >= 0 /\ k * c \in Int /\ b * c \in Int
  OBVIOUS
<1> QED
  BY <1>2, <1>3

\* While no orchestrator was restarted, the cooldown leaves no room in the window
\* for as many price changes as an alarm takes.
LEMMA WindowHolds ==
  ASSUME TypeOK, RestedInv, born = 0, NEW ride \in Rides, NEW prices \in PriceHistories(ride)
  PROVE  prices \in Seq(Nat) /\ Len(prices) <= MaxReversals + 2
<1> DEFINE recent == {i \in DOMAIN rows :
                        rows[i].ride = ride /\ rows[i].tick >= LatestTick - WindowTicks}
           c == Cardinality(recent)
<1>1. PICK order \in SetToSeqs(recent) :
        /\ \A m, n \in DOMAIN order : m < n => rows[order[m]].tick <= rows[order[n]].tick
        /\ prices = [n \in DOMAIN order |-> rows[order[n]].price]
  BY DEF PriceHistories
<1>2. /\ Len(rows) \in Nat /\ recent \subseteq 1..Len(rows)
      /\ \A i \in recent :
           /\ rows[i].ride = ride /\ rows[i].price \in Nat /\ rows[i].tick \in Nat
           /\ rows[i].tick >= LatestTick - WindowTicks /\ rows[i].tick <= LatestTick
  BY RowFacts, LatestFacts
<1>3. c \in Nat
  <2>1. 1 \in Int /\ Len(rows) \in Int
    BY <1>2
  <2>2. IsFiniteSet(1..Len(rows))
    BY <2>1, FS_Interval
  <2>3. IsFiniteSet(recent)
    BY <1>2, <2>2, FS_Subset
  <2> QED
    BY <2>3, FS_CardinalityType
<1>4. order \in [1..c -> recent] /\ \A i, j \in 1..c : i # j => order[i] # order[j]
  BY DEF SetToSeqs
<1> HIDE DEF recent, c
<1> DEFINE Tick(n) == rows[order[n]].tick
<1>5. \A n \in 1..c : order[n] \in recent /\ Tick(n) \in Nat
  BY <1>2, <1>4
<1>6. prices \in Seq(Nat) /\ Len(prices) = c
  <2>1. prices = [n \in 1..c |-> rows[order[n]].price]
    BY <1>1, <1>4
  <2>2. prices \in [1..c -> Nat]
    BY <1>2, <1>5, <2>1
  <2> QED
    BY <1>3, <2>2, FunctionFacts
<1>7. Cooldown \in Nat /\ Cooldown > 0 /\ WindowTicks \in Nat /\ MaxReversals \in Nat
      /\ WindowTicks < (MaxReversals + 2) * Cooldown
  <2>1. Cooldown # 0
    <3> SUFFICES ASSUME Cooldown = 0 PROVE FALSE
      OBVIOUS
    <3>1. (MaxReversals + 2) * Cooldown = 0
      BY ChecksAssumption
    <3> QED
      BY <3>1, ChecksAssumption, MarginsAssumption
  <2> QED
    BY <2>1, ChecksAssumption, MarginsAssumption
<1>8. ASSUME NEW n \in 1..c, n < c PROVE Tick(n + 1) >= Tick(n) + Cooldown
  <2>1. n + 1 \in 1..c /\ n < n + 1 /\ n # n + 1
    BY <1>3, <1>8
  <2>2. order[n] # order[n + 1] /\ Tick(n) <= Tick(n + 1)
    BY <1>1, <1>4, <2>1
  <2>3. /\ order[n] \in 1..Len(rows) /\ order[n + 1] \in 1..Len(rows)
        /\ rows[order[n]].ride = rows[order[n + 1]].ride
        /\ Tick(n) \in Nat /\ Tick(n + 1) \in Nat
    BY <1>2, <1>5, <2>1
  <2>4. \A i, j \in 1..Len(rows) :
          i < j /\ rows[i].ride = rows[j].ride => rows[j].tick >= rows[i].tick + Cooldown
    BY DEF RestedInv
  <2>5. CASE order[n] < order[n + 1]
    BY <2>3, <2>4, <2>5
  <2>6. CASE order[n + 1] < order[n]
    <3>1. Tick(n) >= Tick(n + 1) + Cooldown
      BY <2>3, <2>4, <2>6
    <3> HIDE DEF Tick
    <3> QED
      BY <1>7, <2>2, <2>3, <3>1
  <2> QED
    BY <1>2, <2>2, <2>3, <2>5, <2>6
<1> HIDE DEF Tick
<1>9. ASSUME c > 0 PROVE Tick(c) >= Tick(1) + (c - 1) * Cooldown
  <2> DEFINE T == {n \in Nat : n + 1 \in 1..c => Tick(n + 1) >= Tick(1) + n * Cooldown}
  <2>1. 0 \in T
    BY <1>3, <1>5, <1>7
  <2>2. ASSUME NEW n \in 0..c - 1, n \in T, n < c - 1 PROVE n + 1 \in T
    <3>1. n + 1 \in 1..c /\ n + 1 < c /\ (n + 1) + 1 \in 1..c /\ 1 \in 1..c /\ n \in Nat
      BY <1>3, <2>2
    <3>2. Tick(n + 1) >= Tick(1) + n * Cooldown
      BY <2>2, <3>1
    <3>3. Tick((n + 1) + 1) >= Tick(n + 1) + Cooldown
      BY <1>8, <3>1
    <3>4. Tick(1) \in Nat /\ Tick(n + 1) \in Nat /\ Tick((n + 1) + 1) \in Nat
      BY <1>5, <3>1
    <3>5. (n + 1) * Cooldown = n * Cooldown + Cooldown /\ n * Cooldown \in Int
      BY <1>7, <3>1
    <3>6. Tick((n + 1) + 1) >= Tick(1) + (n + 1) * Cooldown
      BY <1>7, <3>2, <3>3, <3>4, <3>5
    <3> QED
      BY <3>1, <3>6
  <2>3. c - 1 \in Nat
    BY <1>3, <1>9
  <2> HIDE DEF T
  <2>4. \A n \in 0..c - 1 : n \in T
    BY <2>1, <2>2, <2>3, UpTo
  <2>5. c - 1 \in T /\ (c - 1) + 1 = c /\ c \in 1..c
    BY <1>3, <1>9, <2>3, <2>4
  <2> QED
    BY <2>5 DEF T
<1>10. c <= MaxReversals + 2
  <2>1. CASE c = 0
    BY <1>7, <2>1
  <2>2. CASE c > 0
    <3>1. 1 \in 1..c /\ c \in 1..c /\ c - 1 \in Nat
      BY <1>3, <2>2
    <3>2. Tick(c) <= LatestTick /\ Tick(1) >= LatestTick - WindowTicks /\ LatestTick \in Nat
          /\ Tick(c) \in Nat /\ Tick(1) \in Nat
      BY <1>2, <1>5, <3>1, LatestFacts DEF Tick
    <3>3. (c - 1) * Cooldown \in Int /\ (MaxReversals + 2) * Cooldown \in Int
      BY <1>7, <3>1
    <3>4. (c - 1) * Cooldown < (MaxReversals + 2) * Cooldown
      BY <1>7, <1>9, <2>2, <3>2, <3>3
    <3>5. c - 1 < MaxReversals + 2
      BY <1>7, <3>1, <3>4, Cancel
    <3> QED
      BY <1>3, <1>7, <3>5
  <2> QED
    BY <1>3, <2>1, <2>2
<1> QED
  BY <1>6, <1>10

\* So it finds no ride oscillating.
LEMMA NoneOscillates ==
  ASSUME TypeOK, RestedInv, born = 0, NEW ride \in Rides
  PROVE  ~ Finds(ride, TRUE)
<1> SUFFICES ASSUME NEW prices \in PriceHistories(ride), Oscillates(prices) = TRUE
             PROVE  FALSE
  BY DEF Finds
<1>1. MaxReversals \in Nat
  BY ChecksAssumption
<1>2. CountReversals(prices) \in 0..MaxReversals
  BY <1>1, WindowHolds, CountIsBounded
<1> QED
  BY <1>1, <1>2 DEF Oscillates

-----------------------------------------------------------------------------
(***************************************************************************)
(* The steps.                                                              *)
(***************************************************************************)
\* An escalation ends in one of three ways.
LEMMA EscalationFacts ==
  ASSUME TypeOK, EscalationEnds
  PROVE  /\ wd' \in {"health", "lookup", "oscillation", "unstable"}
         /\ alarms' \subseteq Rides
         /\ wd' = "unstable" => wd = "unstable"
BY DEF EscalationEnds, TypeOK

\* The age of an outage stays within its bound.
LEMMA OlderFacts ==
  ASSUME NEW n \in 0..OutageThreshold
  PROVE  Older(n) \in 0..OutageThreshold
BY ChecksAssumption DEF Older

\* The types are kept by every step.
LEMMA TypeStep == IInv /\ [Next]_vars => TypeOK'
<1> SUFFICES ASSUME IInv, [Next]_vars PROVE TypeOK'
  OBVIOUS
<1> USE ChecksAssumption DEF table, NotDown, Escalating, Manual
<1>0. TypeOK /\ RestedInv /\ HourInv
  BY DEF IInv
<1>1. /\ rows \in Seq(Action) /\ Len(rows) \in 0..MaxRows
      /\ born \in 0..Len(rows) /\ fresh \in 0..Len(rows) /\ hour \in 0..Len(rows) - born
  BY <1>0, RowFacts DEF TypeOK
<1>2. CASE PollFails
  <2>1. since' \in NotDown..OutageThreshold /\ failures' \in 0..OutageThreshold
    <3>1. since = NotDown \/ since \in 0..OutageThreshold
      BY <1>0 DEF TypeOK
    <3>2. failures' = Older(failures) /\ failures' \in 0..OutageThreshold
      BY <1>0, <1>2, OlderFacts DEF PollFails, TypeOK
    <3>3. since' = 0 \/ (since \in 0..OutageThreshold /\ since' = Older(since))
      BY <1>2, <3>1 DEF PollFails
    <3>4. since' \in 0..OutageThreshold
      BY <3>3, OlderFacts
    <3> QED
      BY <3>2, <3>4
  <2> QED
    BY <1>0, <1>2, <2>1 DEF PollFails, TypeOK
<1>3. CASE PollSucceeds
  <2>1. wd' \in {"outage", "lookup"}
    BY <1>3 DEF PollSucceeds
  <2> QED
    BY <1>0, <1>3, <2>1 DEF PollSucceeds, TypeOK
<1>4. ASSUME NEW ok \in BOOLEAN, Lookup(ok) PROVE TypeOK'
  <2>1. wd' \in {"rate", "health"}
    BY <1>4 DEF Lookup
  <2> QED
    BY <1>0, <1>4, <2>1 DEF Lookup, TypeOK
<1>5. ASSUME NEW ok \in BOOLEAN, CheckRate(ok) PROVE TypeOK'
  <2>1. wd' \in {"runaway", "oscillation"}
    BY <1>5 DEF CheckRate
  <2> QED
    BY <1>0, <1>5, <2>1 DEF CheckRate, TypeOK
<1>6. ASSUME NEW ok \in BOOLEAN, CheckOscillation(ok) PROVE TypeOK'
  <2>1. wd' \in {"health", "unstable"} /\ alarms' \subseteq Rides
    BY <1>6 DEF CheckOscillation
  <2> QED
    BY <1>0, <1>6, <2>1 DEF CheckOscillation, TypeOK
<1>7. ASSUME NEW ok \in BOOLEAN, EscalateRead(ok) PROVE TypeOK'
  <2>1. /\ wd' \in {"health", "lookup", "rate", "oscillation"} \cup Escalating
        /\ alarms' \subseteq Rides /\ writing' \in BOOLEAN
    BY <1>0, <1>7, EscalationFacts DEF EscalateRead, TypeOK
  <2> QED
    BY <1>0, <1>7, <2>1 DEF EscalateRead, TypeOK
<1>8. ASSUME NEW ok \in BOOLEAN, EscalateInsert(ok) PROVE TypeOK'
  <2>1. /\ wd' \in {"health", "lookup", "rate", "oscillation"} \cup Escalating
        /\ alarms' \subseteq Rides
    BY <1>0, <1>8, EscalationFacts DEF EscalateInsert
  <2>2. global' \in {"normal", "cautious"} \cup Manual
    BY <1>0, <1>8 DEF EscalateInsert, Target, TypeOK
  <2> QED
    BY <1>0, <1>8, <2>1, <2>2 DEF EscalateInsert, TypeOK
<1>9. ASSUME NEW r \in Rides, NEW p \in Prices, NEW t \in 0..MaxTick, RecordAction(r, p, t)
      PROVE  TypeOK'
  <2> DEFINE a == [ride |-> r, price |-> p, tick |-> t]
  <2>1. a \in Action
    BY DEF Action
  <2>2. rows' = Append(rows, a) /\ Len(rows) < MaxRows /\ fresh' = fresh + 1
        /\ hour' = hour + 1 /\ born' = born
    BY <1>9 DEF RecordAction
  <2> HIDE DEF a
  <2>3. rows' \in Seq(Action) /\ Len(rows') = Len(rows) + 1
    BY <1>1, <2>1, <2>2, AppendFacts
  <2>4. rows' \in [1..Len(rows') -> Action] /\ Len(rows') \in 0..MaxRows
    <3>1. rows' \in [1..Len(rows') -> Action]
      BY <2>3, LenProperties
    <3> QED
      BY <1>1, <2>2, <2>3, <3>1
  <2>5. rows' \in UNION {[1..n -> Action] : n \in 0..MaxRows}
    BY <2>4
  <2>6. born' \in 0..Len(rows') /\ fresh' \in 0..Len(rows') /\ hour' \in 0..Len(rows') - born'
    BY <1>1, <2>2, <2>3
  <2> QED
    BY <1>0, <1>9, <2>5, <2>6 DEF RecordAction, TypeOK
<1>10. CASE MinutePasses
  BY <1>0, <1>1, <1>10 DEF MinutePasses, TypeOK
<1>11. CASE HourPasses
  BY <1>0, <1>1, <1>11 DEF HourPasses, TypeOK
<1>12. CASE Restart
  BY <1>0, <1>1, <1>12 DEF Restart, TypeOK
<1>13. CASE Resolve
  BY <1>0, <1>13 DEF Resolve, TypeOK
<1>14. CASE GetHealth \/ UNCHANGED vars
  BY <1>0, <1>14 DEF GetHealth, vars, TypeOK
<1> QED
  BY <1>2, <1>3, <1>4, <1>5, <1>6, <1>7, <1>8, <1>9, <1>10, <1>11, <1>12, <1>13, <1>14
     DEF Next, Poll, Check, Environment

\* The watchdog only reads the table.
LEMMA TableFrame ==
  ASSUME Poll \/ Check \/ Resolve \/ UNCHANGED vars
  PROVE  UNCHANGED table
BY DEF Poll, Check, Resolve, GetHealth, PollFails, PollSucceeds, Lookup, CheckRate, CheckOscillation,
       EscalateRead, EscalateInsert, vars, table

\* The governor keeps the cooldown and the hour of its process.
LEMMA GovernedStep == IInv /\ [Next]_vars => RestedInv' /\ HourInv'
<1> SUFFICES ASSUME IInv, [Next]_vars PROVE RestedInv' /\ HourInv'
  OBVIOUS
<1> USE ChecksAssumption DEF table
<1>0. TypeOK /\ RestedInv /\ HourInv
  BY DEF IInv
<1>1. /\ rows \in Seq(Action) /\ Len(rows) \in 0..MaxRows /\ DOMAIN rows = 1..Len(rows)
      /\ born \in 0..Len(rows) /\ fresh \in 0..Len(rows) /\ hour \in 0..Len(rows) - born
  BY <1>0, RowFacts DEF TypeOK
<1>2. CASE UNCHANGED table
  BY <1>0, <1>2 DEF RestedInv, HourInv
<1>3. ASSUME NEW r \in Rides, NEW p \in Prices, NEW t \in 0..MaxTick, RecordAction(r, p, t)
      PROVE  RestedInv' /\ HourInv'
  <2> DEFINE a == [ride |-> r, price |-> p, tick |-> t]
  <2>1. a \in Action /\ a.ride = r /\ a.tick = t
    BY DEF Action
  <2>2. rows' = Append(rows, a) /\ fresh' = fresh + 1 /\ hour' = hour + 1 /\ born' = born
        /\ hour < MaxPerHour
    BY <1>3 DEF RecordAction
  <2>3. \A i \in born + 1..Len(rows) : rows[i].ride = r => t >= rows[i].tick + Cooldown
    BY <1>3 DEF RecordAction, Rested
  <2> HIDE DEF a
  <2>4. /\ Len(rows') = Len(rows) + 1 /\ rows'[Len(rows) + 1] = a
        /\ \A i \in 1..Len(rows) : rows'[i] = rows[i]
    BY <1>1, <2>1, <2>2, AppendFacts
  <2>5. ASSUME NEW i \in born' + 1..Len(rows'), NEW j \in born' + 1..Len(rows'), i < j,
               rows'[i].ride = rows'[j].ride
        PROVE  rows'[j].tick >= rows'[i].tick + Cooldown
    <3>1. i \in born + 1..Len(rows) /\ rows'[i] = rows[i]
      BY <1>1, <2>2, <2>4, <2>5
    <3>2. CASE j = Len(rows) + 1
      BY <2>1, <2>3, <2>4, <2>5, <3>1, <3>2
    <3>3. CASE j # Len(rows) + 1
      <4>1. j \in born + 1..Len(rows) /\ rows'[j] = rows[j]
        BY <1>1, <2>2, <2>4, <2>5, <3>3
      <4> QED
        BY <1>0, <2>5, <3>1, <4>1 DEF RestedInv
    <3> QED
      BY <3>2, <3>3
  <2>6. HourInv'
    BY <1>0, <1>1, <2>2 DEF HourInv
  <2> QED
    BY <2>5, <2>6 DEF RestedInv
<1>4. CASE MinutePasses
  BY <1>0, <1>1, <1>4 DEF MinutePasses, RestedInv, HourInv
<1>5. CASE HourPasses
  BY <1>0, <1>1, <1>5 DEF HourPasses, RestedInv, HourInv
<1>6. CASE Restart
  <2>1. born' = Len(rows) /\ hour' = 0 /\ rows' = rows /\ fresh' = fresh
    BY <1>6 DEF Restart
  <2>2. born' + 1..Len(rows') = {}
    BY <1>1, <2>1
  <2>3. RestedInv'
    BY <2>2 DEF RestedInv
  <2>4. HourInv'
    BY <1>1, <2>1 DEF HourInv
  <2> QED
    BY <2>3, <2>4
<1> QED
  BY <1>2, <1>3, <1>4, <1>5, <1>6, TableFrame DEF Next, Environment

\* The watchdog comes to an alarm only after a restart.
LEMMA AlarmStep == IInv /\ [Next]_vars => AlarmsTakeARestart'
<1> SUFFICES ASSUME IInv, [Next]_vars PROVE AlarmsTakeARestart'
  OBVIOUS
<1> USE ChecksAssumption DEF table
<1>0. TypeOK /\ RestedInv /\ HourInv /\ AlarmsTakeARestart
  BY DEF IInv
<1>1. born \in Nat /\ Len(rows) \in Nat /\ born <= Len(rows) /\ fresh \in Nat /\ hour \in Nat
  BY <1>0, RowFacts DEF TypeOK
<1>2. ASSUME wd' \in {"runaway", "unstable"} => wd' = wd, born' = born \/ born' = Len(rows)
      PROVE  AlarmsTakeARestart'
  BY <1>0, <1>1, <1>2 DEF AlarmsTakeARestart
<1>3. CASE Poll
  BY <1>2, <1>3 DEF Poll, GetHealth, PollFails, PollSucceeds
<1>4. CASE Environment
  BY <1>2, <1>4 DEF Environment, RecordAction, MinutePasses, HourPasses, Restart, Resolve
<1>5. ASSUME NEW ok \in BOOLEAN, Lookup(ok) PROVE AlarmsTakeARestart'
  BY <1>2, <1>5 DEF Lookup
<1>6. ASSUME NEW ok \in BOOLEAN, CheckRate(ok) PROVE AlarmsTakeARestart'
  <2>1. born' = born /\ (wd' = "runaway" => fresh > RateThreshold) /\ wd' # "unstable"
    BY <1>6 DEF CheckRate
  <2>2. born = 0 => fresh <= RateThreshold
    BY <1>0, <1>1, MarginsAssumption DEF HourInv
  <2> QED
    BY <1>1, <2>1, <2>2 DEF AlarmsTakeARestart
<1>7. ASSUME NEW ok \in BOOLEAN, CheckOscillation(ok) PROVE AlarmsTakeARestart'
  <2>1. born' = born /\ wd' # "runaway"
    BY <1>7 DEF CheckOscillation
  <2>2. CASE wd' = "unstable"
    <3>1. alarms' # {} /\ alarms' \in SUBSET Rides /\ \A r \in Rides : Finds(r, r \in alarms')
      BY <1>7, <2>2 DEF CheckOscillation
    <3>2. PICK r \in Rides : r \in alarms'
      BY <3>1
    <3>3. Finds(r, TRUE)
      <4>1. Finds(r, r \in alarms') /\ (r \in alarms') = TRUE
        BY <3>1, <3>2
      <4> QED
        BY <4>1
    <3>4. born # 0
      BY <1>0, <3>3, NoneOscillates
    <3> QED
      BY <1>1, <2>1, <3>4 DEF AlarmsTakeARestart
  <2> QED
    BY <2>1, <2>2 DEF AlarmsTakeARestart
<1>8. ASSUME NEW ok \in BOOLEAN, EscalateRead(ok) \/ EscalateInsert(ok) PROVE AlarmsTakeARestart'
  <2>1. born' = born /\ ((wd' = wd) \/ EscalationEnds)
    BY <1>8 DEF EscalateRead, EscalateInsert
  <2> QED
    BY <1>0, <1>2, <2>1, EscalationFacts
<1>9. CASE UNCHANGED vars
  BY <1>2, <1>9 DEF vars
<1> QED
  BY <1>3, <1>4, <1>5, <1>6, <1>7, <1>8, <1>9 DEF Next, Check

-----------------------------------------------------------------------------
(***************************************************************************)
(* The theorems.                                                           *)
(***************************************************************************)
\* At first there are no rows.
LEMMA Initially == Init => IInv
<1> SUFFICES ASSUME Init PROVE IInv
  OBVIOUS
<1> USE ChecksAssumption DEF Init
<1>1. Len(<<>>) = 0 /\ <<>> \in [1..0 -> Action]
  BY EmptyFacts
<1>2. rows \in UNION {[1..n -> Action] : n \in 0..MaxRows}
  BY <1>1
<1>3. Len(rows) = 0 /\ born \in 0..0 /\ fresh \in 0..0 /\ hour \in 0..0 - born
      /\ since \in NotDown..OutageThreshold /\ failures \in 0..OutageThreshold
  BY <1>1 DEF NotDown
<1>4. TypeOK
  BY <1>2, <1>3 DEF TypeOK, Manual, Escalating
<1> QED
  BY <1>3, <1>4 DEF IInv, RestedInv, HourInv, AlarmsTakeARestart

\* Every reachable state satisfies the inductive invariant: what the running
\* governor has kept is what the checks of the watchdog count on.
THEOREM Invariant == Spec => []IInv
<1>1. Init => IInv
  BY Initially
<1>2. IInv /\ [Next]_vars => IInv'
  BY TypeStep, GovernedStep, AlarmStep DEF IInv
<1> QED
  BY <1>1, <1>2, PTL DEF Spec

\* The table, the budget of the governor and the state of the watchdog's loop keep
\* their types and their bounds.
THEOREM TypeCorrect == Spec => []TypeOK
<1>1. IInv => TypeOK
  BY DEF IInv
<1> QED
  BY <1>1, Invariant, PTL

\* The one pass of count_reversals finds every turning point of the prices of the
\* table and nothing else, however many there are.
THEOREM CountsRight == Spec => []CountsTurningPoints
<1>1. IInv => CountsTurningPoints
  <2> SUFFICES ASSUME IInv PROVE CountsTurningPoints
    OBVIOUS
  <2> DEFINE prices == [i \in DOMAIN rows |-> rows[i].price]
  <2>1. Len(rows) \in Nat /\ prices \in [1..Len(rows) -> Nat]
    BY RowFacts DEF IInv
  <2>2. prices \in Seq(Nat)
    BY <2>1, FunctionFacts
  <2> QED
    BY <2>2, CountIsRight DEF CountsTurningPoints
<1> QED
  BY <1>1, Invariant, PTL

\* A governor that was never restarted raises neither the alarm of the rate nor
\* that of oscillation, under every constitution that keeps the margins.
THEOREM OneProcessIsQuiet == Spec => []AlarmsTakeARestart
<1>1. IInv => AlarmsTakeARestart
  BY DEF IInv
<1> QED
  BY <1>1, Invariant, PTL
-----------------------------------------------------------------------------
(***************************************************************************)
(* What is safe of OutagesAreNoticed: `db_unreachable_since` is as old as  *)
(* the run of failed polls, so the poll that ends the outage notices it.   *)
(***************************************************************************)
\* The outage is dated from the first poll of the run, which is one less than
\* there are polls in it, until both have reached the threshold.
SinceInv ==
  \/ since = failures - 1
  \/ since = OutageThreshold /\ failures = OutageThreshold

\* A failed poll makes both one older; the one that succeeds forgets both.
LEMMA SinceStep == IInv /\ SinceInv /\ [Next]_vars => SinceInv'
<1> SUFFICES ASSUME IInv, SinceInv, [Next]_vars PROVE SinceInv'
  OBVIOUS
<1>0. failures \in 0..OutageThreshold /\ OutageThreshold \in Nat \ {0}
  BY ChecksAssumption DEF IInv, TypeOK
<1>1. CASE PollFails
  <2>1. /\ failures' = Older(failures)
        /\ since' = IF since = NotDown THEN 0 ELSE Older(since)
    BY <1>1 DEF PollFails
  <2> QED
    BY <1>0, <2>1 DEF SinceInv, Older, NotDown
<1>2. CASE PollSucceeds
  BY <1>0, <1>2 DEF PollSucceeds, SinceInv, NotDown
<1>3. CASE GetHealth \/ UNCHANGED <<since, failures>>
  BY <1>3 DEF GetHealth, SinceInv
<1>4. Check => UNCHANGED <<since, failures>>
  BY DEF Check, Lookup, CheckRate, CheckOscillation, EscalateRead, EscalateInsert
<1>5. Environment => UNCHANGED <<since, failures>>
  BY DEF Environment, RecordAction, MinutePasses, HourPasses, Restart, Resolve
<1> QED
  BY <1>1, <1>2, <1>3, <1>4, <1>5 DEF Next, Poll, vars

\* A poll that succeeds goes on to the escalation of an outage exactly if the run
\* of failed polls it ends was as long as the constitution allows: no long one
\* is missed, and no short one, nor two short ones together, stops the game.
THEOREM OutageNoticed ==
  Spec => [][wd = "poll" /\ wd' \notin {"poll", "health"}
             => (wd' = "outage" <=> failures = OutageThreshold)]_vars
<1> DEFINE Noticed == wd = "poll" /\ wd' \notin {"poll", "health"}
                      => (wd' = "outage" <=> failures = OutageThreshold)
<1>1. Init => SinceInv
  BY DEF Init, SinceInv, NotDown
<1>2. IInv /\ SinceInv /\ [Next]_vars => [Noticed]_vars
  <2> SUFFICES ASSUME IInv, SinceInv, Next PROVE Noticed
    OBVIOUS
  <2>0. failures \in 0..OutageThreshold /\ OutageThreshold \in Nat \ {0}
    BY ChecksAssumption DEF IInv, TypeOK
  <2>1. CASE GetHealth \/ PollFails
    BY <2>1 DEF GetHealth, PollFails
  <2>2. CASE PollSucceeds
    <3>1. wd' = "outage" <=> since # NotDown /\ Older(since) >= OutageThreshold
      BY <2>2 DEF PollSucceeds
    <3>2. since # NotDown /\ Older(since) >= OutageThreshold <=> failures = OutageThreshold
      BY <2>0 DEF SinceInv, Older, NotDown
    <3> QED
      BY <3>1, <3>2
  <2>3. Check => wd # "poll"
    <3>1. \A ok \in BOOLEAN :
            Lookup(ok) \/ CheckRate(ok) \/ CheckOscillation(ok) => wd # "poll"
      BY DEF Lookup, CheckRate, CheckOscillation
    <3>2. \A ok \in BOOLEAN : EscalateRead(ok) => wd # "poll"
      BY DEF EscalateRead, Escalating
    <3>3. \A ok \in BOOLEAN : EscalateInsert(ok) => wd # "poll"
      BY DEF EscalateInsert, EscalationEnds
    <3> QED
      BY <3>1, <3>2, <3>3 DEF Check
  <2>4. Environment => wd' = wd
    BY DEF Environment, RecordAction, MinutePasses, HourPasses, Restart, Resolve
  <2> QED
    BY <2>1, <2>2, <2>3, <2>4 DEF Next, Poll
<1> QED
  BY <1>1, <1>2, SinceStep, Invariant, PTL DEF Spec
=============================================================================
