---------------------------- MODULE SafetyStates ----------------------------
(***************************************************************************)
(* The six safety states of core/governor/src/safety_state.rs, and what a  *)
(* reader of the state_transitions ledger finds in the row it selects      *)
(* (core/orchestrator/src/db.rs, current_safety_state).                    *)
(***************************************************************************)
EXTENDS Integers

SafetyState ==
  {"normal", "cautious", "conservation", "quarantine", "rollback", "stopped"}

\* Plausible fault: rejecting only the states that need a human.
AuthorizesUnlessManual(st) == st \notin {"quarantine", "stopped"}

AuthorizesProposals(st) == st = "normal"

RequiresManualResolution(st) == st \in {"quarantine", "stopped"}

(***************************************************************************)
(* A ledger row, reduced to the two columns current_safety_state selects.  *)
(* NoExpiry stands for a NULL expires_at_tick.                             *)
(***************************************************************************)
NoExpiry == -1

Row == [to : SafetyState, expires : Int]

Unexpiring(st) == [to |-> st, expires |-> NoExpiry]

\* Plausible fault: the window is one tick short.
ExpiredEarly(row, tick) ==
  row.to = "conservation" /\ row.expires # NoExpiry /\ tick + 1 >= row.expires

\* The reader must write a Conservation -> Normal row before it may answer.
Expired(row, tick) ==
  /\ row.to = "conservation"
  /\ row.expires # NoExpiry
  /\ tick >= row.expires
=============================================================================
