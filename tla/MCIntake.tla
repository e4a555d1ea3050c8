------------------------------ MODULE MCIntake ------------------------------
EXTENDS Intake

\* A ride that is missing; with an empty queue, above the lowest price and at
\* it; with a long one, below the highest and at it; and with one in between.
SomeReports ==
  {None, [price |-> 0, queue_length |-> 3]}
    \cup {[price |-> p, queue_length |-> q] : p \in {0, 1}, q \in {0, 6}}
=============================================================================
