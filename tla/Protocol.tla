------------------------------ MODULE Protocol ------------------------------
(***************************************************************************)
(* The messages of bridge/openrct2-plugin/src/protocol/types.ts that either *)
(* side sends, as the sets of their values.  What no one decides by is left *)
(* out: names, versions, wall-clock times, texts; a payload's kind is told  *)
(* by its envelope.  shutdown and ack exist as types and are never sent.    *)
(***************************************************************************)
EXTENDS Naturals

CONSTANTS
  RideIds,    \* ride_id
  Keys,       \* idempotency_key
  None        \* null

MessageId == Nat \ {0}

RideStatus == {"open", "closed", "testing"}
Weather == {"sunny", "partially_cloudy", "cloudy", "rain", "heavy_rain", "thunder", "snow",
            "heavy_snow"}
StaffType == {"handyman", "mechanic", "security", "entertainer"}

StaffCounts == [StaffType -> Nat]

Ride == [status: RideStatus, price: Nat, queue_length: Nat]

\* rides[] by id; None for a ride that is not in it.
ObservationSnapshot ==
  [month: 1..8,
   rides: [RideIds -> Ride \cup {None}],
   staff_counts: StaffCounts,
   weather: Weather]

\* The five bounded actions.
CommandAction ==
  [action: {"set_ride_price"}, ride_id: RideIds, price: Nat]
    \cup [action: {"set_park_entry_fee"}, price: Nat]
    \cup [action: {"hire_staff"}, type: StaffType]
    \cup [action: {"open_ride", "close_ride"}, ride_id: RideIds]

CommandRequest == [command: CommandAction, idempotency_key: Keys]

\* ErrorInfo by its code.
ErrorInfo == [code: Nat \ {0}]

CommandResult == [engine_cost: Nat \cup {None}, engine_error: ErrorInfo \cup {None}]

\* null is none of the things it stands for the absence of.
ASSUME NoneAssumption == None \notin Ride \cup ErrorInfo \cup CommandResult

\* An envelope the bridge writes in answer to a request.
ResultEnvelope ==
  [kind: {"command.result"}, payload: CommandResult,
   correlation_id: MessageId, status: {"ok", "error"}]
=============================================================================
