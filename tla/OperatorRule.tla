---------------------------- MODULE OperatorRule ----------------------------
(***************************************************************************)
(* The world model's window of snapshots (core/world-model/src/lib.rs) and *)
(* The Operator's rule on it (core/orchestrator/src/operator.rs).  Of a    *)
(* snapshot, what the rule reads: per ride, its price and queue length.    *)
(* Names, texts, the confidence and the expiry of a proposal are left out: *)
(* no one decides by the expiry.                                           *)
(***************************************************************************)
EXTENDS Integers, Sequences

CONSTANTS
  RideIds,
  None,          \* a ride that is not in a snapshot
  MaxHistory,    \* MAX_HISTORY
  \* The constitution.
  ConsecutiveSnapshotsRequired, QueueLengthHighThreshold, QueueLengthLowThreshold,
  PriceStep, MinPrice, MaxPrice

ASSUME HistoryAssumption == MaxHistory \in Nat \ {0}
\* That the window is long enough for the rule is up to the configuration.
ASSUME RuleAssumption ==
  /\ ConsecutiveSnapshotsRequired \in 0..MaxHistory
  /\ QueueLengthHighThreshold \in Nat /\ QueueLengthLowThreshold \in Nat
  /\ PriceStep \in Int /\ MinPrice \in Int /\ MaxPrice \in Int

Report == [price: Nat, queue_length: Nat]
Proposal == [ride_id: RideIds, proposed_price: Int]

\* Plausible fault: the window closes one snapshot early.
RecordSnapshotOneShort(history, snapshot) ==
  LET longer == Append(history, snapshot) IN
  IF Len(longer) >= MaxHistory THEN Tail(longer) ELSE longer

RecordSnapshot(history, snapshot) ==
  LET longer == Append(history, snapshot) IN
  IF Len(longer) > MaxHistory THEN Tail(longer) ELSE longer

\* The rides whose every report of the last n snapshots satisfies P, and that
\* are in each of them.
Throughout(history, n, P(_)) ==
  {id \in RideIds :
     \A i \in Len(history) - n + 1..Len(history) :
       history[i][id] # None /\ P(history[i][id].queue_length)}

ProposePriceChanges(history) ==
  LET n == ConsecutiveSnapshotsRequired
      latest == history[Len(history)]
      high == Throughout(history, n, LAMBDA q : q > QueueLengthHighThreshold)
      low == Throughout(history, n, LAMBDA q : q <= QueueLengthLowThreshold) \ high
      Priced(ids, step) ==
        {[ride_id |-> id, proposed_price |-> latest[id].price + step] : id \in ids}
  IN
  IF n = 0 \/ Len(history) < n THEN {}
  ELSE {p \in Priced(high, PriceStep) : p.proposed_price <= MaxPrice}
         \cup {p \in Priced(low, -PriceStep) : p.proposed_price >= MinPrice}
=============================================================================
