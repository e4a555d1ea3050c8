-------------------------- MODULE MCBridgeCommands --------------------------
EXTENDS BridgeCommands

CONSTANTS r1, r2, k1, k2

\* One ride, and room for another that does not exist.
OnePark ==
  {[month |-> 7, weather |-> "blizzard", fee |-> 0, staff |-> <<>>,
    rides |-> [r \in {r1, r2} |->
                IF r = r1 THEN [status |-> "closed", price |-> <<0, 5>>] ELSE None]]}

\* One key for each of the five actions, a second for one that can be counted.
SomeCommands ==
  [idempotency_key: {k1},
   command: {[action |-> "set_ride_price", ride_id |-> r1, price |-> 1],
             [action |-> "open_ride", ride_id |-> r1],
             [action |-> "close_ride", ride_id |-> r1],
             [action |-> "hire_staff", type |-> "mechanic"],
             [action |-> "set_park_entry_fee", price |-> 1]}]
    \cup [idempotency_key: {k2}, command: {[action |-> "hire_staff", type |-> "entertainer"]}]
=============================================================================
