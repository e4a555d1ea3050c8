----------------------------- MODULE RemotePark -----------------------------
(***************************************************************************)
(* What the bridge promises: the orchestrator commands a park of which it  *)
(* sees snapshots.  In the terms of the protocol alone, the park does what *)
(* a command says or what somebody in the game does, and no command that   *)
(* was not asked for.                                                      *)
(***************************************************************************)
EXTENDS Protocol

VARIABLES
  observed,   \* the snapshot the bridge would send now
  fee,        \* the entrance fee, which no snapshot tells
  asked       \* commands sent so far

vars == <<observed, fee, asked>>

Ask ==
  /\ asked \subseteq asked'
  /\ \A c \in asked' \ asked : c \in CommandAction
  /\ UNCHANGED <<observed, fee>>

\* Something the game does by itself: it tests and breaks rides, builds and
\* demolishes them, changes weather and date; it neither opens or closes what
\* stands nor touches prices, staff and fee.
GameMoves ==
  /\ observed'.staff_counts = observed.staff_counts
  /\ \A id \in RideIds : observed.rides[id] # None /\ observed'.rides[id] # None =>
       /\ observed'.rides[id].price = observed.rides[id].price
       /\ observed'.rides[id].status \in {observed.rides[id].status, "testing"}
  /\ UNCHANGED <<fee, asked>>

SetRidePrice(id, price) ==
  /\ [action |-> "set_ride_price", ride_id |-> id, price |-> price] \in asked
  /\ observed.rides[id] # None
  /\ observed' = [observed EXCEPT !.rides[id].price = price]
  /\ UNCHANGED <<fee, asked>>

SetParkEntryFee(price) ==
  /\ [action |-> "set_park_entry_fee", price |-> price] \in asked
  /\ fee' = price
  /\ UNCHANGED <<observed, asked>>

HireStaff(type) ==
  /\ [action |-> "hire_staff", type |-> type] \in asked
  /\ observed' = [observed EXCEPT !.staff_counts[type] = @ + 1]
  /\ UNCHANGED <<fee, asked>>

SetStatus(id, action, status) ==
  /\ [action |-> action, ride_id |-> id] \in asked
  /\ observed.rides[id] # None
  /\ observed' = [observed EXCEPT !.rides[id].status = status]
  /\ UNCHANGED <<fee, asked>>

Next ==
  \/ Ask
  \/ GameMoves
  \/ \E id \in RideIds :
       \/ \E c \in asked : c.action = "set_ride_price" /\ SetRidePrice(id, c.price)
       \/ SetStatus(id, "open_ride", "open")
       \/ SetStatus(id, "close_ride", "closed")
  \/ \E c \in asked : c.action = "set_park_entry_fee" /\ SetParkEntryFee(c.price)
  \/ \E type \in StaffType : HireStaff(type)

Init ==
  /\ observed \in ObservationSnapshot
  /\ fee \in Nat
  /\ asked = {}

Spec == Init /\ [][Next]_vars
=============================================================================
