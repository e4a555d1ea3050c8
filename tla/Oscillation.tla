----------------------------- MODULE Oscillation -----------------------------
(***************************************************************************)
(* Price reversals of one ride (core/orchestrator/src/oscillation.rs): the *)
(* code's left-to-right count, and what it is meant to count.              *)
(***************************************************************************)
EXTENDS Integers, FiniteSets, SequencesExt

\* The comparison of two consecutive prices; 0 when they are equal.
Sign(n) == IF n < 0 THEN -1 ELSE IF n > 0 THEN 1 ELSE 0

Directions(prices) == [i \in 1..Len(prices) - 1 |-> Sign(prices[i + 1] - prices[i])]

\* Plausible fault: an unchanged price counts as a direction.
TurnAtEveryChange(seen, direction) ==
  [last  |-> direction,
   count |-> seen.count + IF seen.last \notin {0, direction} THEN 1 ELSE 0]

\* The loop's body; `last` is 0 until a price has moved.
Turn(seen, direction) ==
  IF direction = 0
    THEN seen
    ELSE [last  |-> direction,
          count |-> seen.count + IF seen.last \notin {0, direction} THEN 1 ELSE 0]

\* What the loop has seen of the first n prices.
Seen(prices) ==
  LET seen[n \in 0..Len(prices)] ==
        IF n <= 1 THEN [last |-> 0, count |-> 0]
                  ELSE Turn(seen[n - 1], Directions(prices)[n - 1])
  IN  seen

CountReversals(prices) == Seen(prices)[Len(prices)].count

\* The moves that undo the move before them, unchanged prices aside.
TurningPoints(prices) ==
  LET moves == Directions(prices)
  IN  {j \in DOMAIN moves :
         \E i \in 1..j - 1 :
           /\ moves[i] # 0
           /\ moves[j] = -moves[i]
           /\ \A k \in i + 1..j - 1 : moves[k] = 0}
=============================================================================
