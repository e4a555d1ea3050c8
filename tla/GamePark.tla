------------------------------ MODULE GamePark ------------------------------
(***************************************************************************)
(* The park inside the game, what a game action does to it, and the two    *)
(* translations of the bridge: commands into game actions (commands.ts)    *)
(* and the park into a snapshot (observation.ts).  The engine is external: *)
(* types/openrct2.d.ts fixes the numbers its actions take and the strings  *)
(* its park shows.                                                         *)
(***************************************************************************)
EXTENDS Protocol, Sequences, FiniteSets

EngineStatus == {"closed", "open", "testing", "simulating"}
EngineWeather == {"sunny", "partiallyCloudy", "cloudy", "rain", "heavyRain", "thunder", "snow",
                  "heavySnow", "blizzard"}

\* price lists the primary price, then the secondary, for rides that have them.
EngineRide == [status: EngineStatus, price: Seq(Nat)]

\* A ride that is gone is told from one that stands.
ASSUME NoRideAssumption == None \notin EngineRide

Park == [month: 0..7,
         weather: EngineWeather,
         rides: [RideIds -> EngineRide \cup {None}],
         fee: Nat,
         staff: Seq(StaffType)]

-----------------------------------------------------------------------------
(***************************************************************************)
(* commands.ts: a command as a game action.                                *)
(***************************************************************************)
\* Plausible fault: a numbering that starts at one.
StaffTypeFromOne(type) ==
  CASE type = "handyman" -> 1 [] type = "mechanic" -> 2 [] type = "security" -> 3
    [] OTHER -> 0

StaffTypeToNumber(type) ==
  CASE type = "handyman" -> 0 [] type = "mechanic" -> 1 [] type = "security" -> 2
    [] type = "entertainer" -> 3 [] OTHER -> 0

ToGameAction(command) ==
  CASE command.action = "set_ride_price" ->
         [action |-> "ridesetprice", ride |-> command.ride_id, price |-> command.price,
          isPrimaryPrice |-> TRUE]
    [] command.action = "set_park_entry_fee" ->
         [action |-> "parksetentrancefee", value |-> command.price]
    [] command.action = "hire_staff" ->
         [action |-> "staffhire", staffType |-> StaffTypeToNumber(command.type)]
    [] command.action = "open_ride" ->
         [action |-> "ridesetstatus", ride |-> command.ride_id, status |-> 1]
    [] command.action = "close_ride" ->
         [action |-> "ridesetstatus", ride |-> command.ride_id, status |-> 0]

\* Plausible fault: an error is one only if it comes with a message.
ToErrorInfoIfExplained(result) ==
  IF result.error = None \/ result.error = 0 \/ ~result.message
    THEN None ELSE [code |-> result.error]

ToErrorInfo(result) ==
  IF result.error = None \/ result.error = 0 THEN None ELSE [code |-> result.error]

-----------------------------------------------------------------------------
(***************************************************************************)
(* The engine: what executing an action does.  A ride that is gone, or a   *)
(* price that the ride does not have, leaves the park as it is.            *)
(***************************************************************************)
EngineStaffType == <<"handyman", "mechanic", "security", "entertainer">>
EngineStatusOf == <<"closed", "open", "testing", "simulating">>

Executed(park, act) ==
  CASE act.action = "ridesetprice" ->
         LET which == IF act.isPrimaryPrice THEN 1 ELSE 2 IN
         IF park.rides[act.ride] # None /\ which \in DOMAIN park.rides[act.ride].price
           THEN [park EXCEPT !.rides[act.ride].price[which] = act.price]
           ELSE park
    [] act.action = "parksetentrancefee" -> [park EXCEPT !.fee = act.value]
    [] act.action = "staffhire" ->
         [park EXCEPT !.staff = Append(@, EngineStaffType[act.staffType + 1])]
    [] act.action = "ridesetstatus" ->
         IF park.rides[act.ride] # None
           THEN [park EXCEPT !.rides[act.ride].status = EngineStatusOf[act.status + 1]]
           ELSE park

-----------------------------------------------------------------------------
(***************************************************************************)
(* observation.ts: the park as a snapshot.                                 *)
(***************************************************************************)
MapWeather(raw) ==
  CASE raw = "partiallyCloudy" -> "partially_cloudy"
    [] raw = "heavyRain" -> "heavy_rain"
    [] raw \in {"heavySnow", "blizzard"} -> "heavy_snow"
    [] raw \in {"cloudy", "rain", "thunder", "snow"} -> raw
    [] OTHER -> "sunny"

\* Plausible fault: the engine's strings are passed on as they are.
MapRideStatusAsIs(raw) == raw

MapRideStatus(raw) == IF raw \in RideStatus THEN raw ELSE "testing"

\* No API tells the length of a queue; 0 is a placeholder.
BuildRides(park) ==
  [id \in RideIds |-> IF park.rides[id] = None THEN None ELSE
     [status |-> MapRideStatus(park.rides[id].status),
      price |-> IF park.rides[id].price = <<>> THEN 0 ELSE park.rides[id].price[1],
      queue_length |-> 0]]

BuildStaffCounts(park) ==
  [type \in StaffType |-> Cardinality({i \in DOMAIN park.staff : park.staff[i] = type})]

BuildObservationSnapshot(park) ==
  [month |-> park.month + 1,
   rides |-> BuildRides(park),
   staff_counts |-> BuildStaffCounts(park),
   weather |-> MapWeather(park.weather)]
=============================================================================
