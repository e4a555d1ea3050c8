------------------------------ MODULE Watchdog ------------------------------
(***************************************************************************)
(* The watchdog's polling loop (bin/watchdog.rs) over the rows it reads    *)
(* (db.rs, "Watchdog queries"), while the orchestrator records actions and *)
(* restarts, an operator resolves and the database comes and goes.         *)
(*                                                                         *)
(* One simulation.  Every query is a step that succeeds or fails; an outage *)
(* is a run of failures.  Each round first awaits the orchestrator's /health. *)
(* The orchestrator's gate is left open: what the   *)
(* safety state keeps it from doing is SafetyNet's subject.  What its      *)
(* governor refuses is kept, because the checks count on it.               *)
(***************************************************************************)
EXTENDS Oscillation

CONSTANTS
  Rides,
  Prices,
  MaxTick,           \* ticks are 0..MaxTick (bound)
  MaxRows,           \* actions recorded (bound)
  Cooldown,          \* constitution.per_ride_cooldown_ticks
  MaxPerHour,        \* constitution.max_actions_per_hour
  WindowTicks,       \* constitution.oscillation_window_ticks
  MaxReversals,      \* constitution.oscillation_max_reversals
  RateThreshold,     \* constitution.action_rate_stopped_threshold_per_minute
  OutageThreshold    \* db_unreachable_stopped_after_secs, in poll intervals

ASSUME BoundsAssumption == MaxTick \in Nat /\ MaxRows \in Nat
ASSUME PricesAssumption == Prices \subseteq Nat
ASSUME ChecksAssumption ==
  /\ Cooldown \in Nat /\ WindowTicks \in Nat /\ MaxReversals \in Nat
  /\ MaxPerHour \in Nat /\ RateThreshold \in Nat
  /\ OutageThreshold \in Nat \ {0}

\* The shipped constitution: 5000 < (3 + 2) * 2000 and 10 <= 20.
ASSUME MarginsAssumption ==
  /\ WindowTicks < (MaxReversals + 2) * Cooldown
  /\ MaxPerHour <= RateThreshold

VARIABLES
  rows,      \* the actions table, oldest first
  born,      \* rows up to here were written by earlier orchestrator processes
  fresh,     \* the newest rows that are younger than a minute
  hour,      \* the newest rows the running governor counts for its hour
  global,    \* the latest safety-state row without a simulation
  wd,        \* where the watchdog's loop stands; "health" is its sleep and its
             \* request to /health
  writing,   \* escalate has read the state and is about to insert
  alarms,    \* rides found oscillating and not yet escalated
  since,     \* db_unreachable_since, as its age in poll intervals, or NotDown
  failures   \* history: polls in a row that found no database

table == <<rows, born, fresh, hour>>
vars == <<rows, born, fresh, hour, global, wd, writing, alarms, since, failures>>

NotDown == -1
Action == [ride : Rides, price : Prices, tick : 0..MaxTick]
Manual == {"quarantine", "stopped"}
Escalating == {"outage", "runaway", "unstable"}

TypeOK ==
  /\ rows \in UNION {[1..n -> Action] : n \in 0..MaxRows}
  /\ born \in 0..Len(rows)
  /\ fresh \in 0..Len(rows)
  /\ hour \in 0..Len(rows) - born
  /\ global \in {"normal", "cautious"} \cup Manual
  /\ wd \in {"health", "poll", "lookup", "rate", "oscillation"} \cup Escalating
  /\ writing \in BOOLEAN
  /\ alarms \subseteq Rides
  /\ since \in NotDown..OutageThreshold
  /\ failures \in 0..OutageThreshold

Init ==
  /\ rows = <<>>
  /\ born = 0
  /\ fresh = 0
  /\ hour = 0
  /\ global = "normal"
  /\ wd = "health"
  /\ writing = FALSE
  /\ alarms = {}
  /\ since = NotDown
  /\ failures = 0

-----------------------------------------------------------------------------
(***************************************************************************)
(* The orchestrator, its clock and its governor; the operator.               *)
(***************************************************************************)

\* Plausible fault: the cooldown ends one tick early.
RestedEarly(ride, tick) ==
  \A i \in born + 1..Len(rows) :
    rows[i].ride = ride => tick + 1 >= rows[i].tick + Cooldown

\* The running governor knows the actions of its own process only.
Rested(ride, tick) ==
  \A i \in born + 1..Len(rows) :
    rows[i].ride = ride => tick >= rows[i].tick + Cooldown

RecordAction(ride, price, tick) ==
  /\ Len(rows) < MaxRows
  /\ Rested(ride, tick)
  /\ hour < MaxPerHour
  /\ rows' = Append(rows, [ride |-> ride, price |-> price, tick |-> tick])
  /\ fresh' = fresh + 1
  /\ hour' = hour + 1
  /\ UNCHANGED <<born, global, wd, writing, alarms, since, failures>>

\* A row gets older than a minute, or older than an hour.
MinutePasses ==
  /\ fresh > 0
  /\ fresh' = fresh - 1
  /\ UNCHANGED <<rows, born, hour, global, wd, writing, alarms, since, failures>>

HourPasses ==
  /\ hour > fresh
  /\ hour' = hour - 1
  /\ UNCHANGED <<rows, born, fresh, global, wd, writing, alarms, since, failures>>

\* Plausible fault: the budget outlives the process, the cooldowns do not.
RestartKeepsTheHour ==
  /\ born' = Len(rows)
  /\ global' = "cautious"
  /\ UNCHANGED <<rows, fresh, hour, wd, writing, alarms, since, failures>>

\* A new process with an empty governor, whose first act is the Cautious row.
Restart ==
  /\ born' = Len(rows)
  /\ hour' = 0
  /\ global' = "cautious"
  /\ UNCHANGED <<rows, fresh, wd, writing, alarms, since, failures>>

\* `orchestrator resolve`, two steps in SafetyNet.  Heartbeats clear Cautious
\* with rows of a simulation, so nothing else moves the global row.
Resolve ==
  /\ global \in Manual
  /\ global' = "normal"
  /\ UNCHANGED <<table, wd, writing, alarms, since, failures>>

-----------------------------------------------------------------------------
(***************************************************************************)
(* The watchdog's queries.                                                 *)
(***************************************************************************)
LatestTick == Max({0} \cup {rows[i].tick : i \in DOMAIN rows})

\* recent_price_changes, grouped by ride: ascending ticks, ties in any order.
PriceHistories(ride) ==
  LET recent == {i \in DOMAIN rows :
                   rows[i].ride = ride /\ rows[i].tick >= LatestTick - WindowTicks}
  IN  {[n \in DOMAIN order |-> rows[order[n]].price] :
         order \in {o \in SetToSeqs(recent) :
                      \A m, n \in DOMAIN o : m < n => rows[o[m]].tick <= rows[o[n]].tick}}

Oscillates(prices) == CountReversals(prices) > MaxReversals

\* The check of this ride may come to this verdict.
Finds(ride, verdict) ==
  \E prices \in PriceHistories(ride) : Oscillates(prices) = verdict

-----------------------------------------------------------------------------
(***************************************************************************)
(* The loop.                                                               *)
(***************************************************************************)
Older(n) == IF n < OutageThreshold THEN n + 1 ELSE n

\* The interval passes, and the orchestrator answers /health, refuses or dies,
\* all of which is only logged.  There is no timeout: one that accepts the
\* connection and says nothing keeps the loop here.
GetHealth ==
  /\ wd = "health"
  /\ wd' = "poll"
  /\ UNCHANGED <<table, global, writing, alarms, since, failures>>

\* Plausible fault: the outage is dated from its latest failed poll.
PollFailsAfresh ==
  /\ wd = "poll"
  /\ wd' = "health"
  /\ since' = 0
  /\ failures' = Older(failures)
  /\ UNCHANGED <<table, global, writing, alarms>>

\* SELECT 1 fails: remember since when, and try again at the next interval.
PollFails ==
  /\ wd = "poll"
  /\ wd' = "health"
  /\ since' = IF since = NotDown THEN 0 ELSE Older(since)
  /\ failures' = Older(failures)
  /\ UNCHANGED <<table, global, writing, alarms>>

\* SELECT 1 succeeds: `since` is taken, whatever becomes of the escalation.
PollSucceeds ==
  /\ wd = "poll"
  /\ since' = NotDown
  /\ failures' = 0
  /\ wd' = IF since # NotDown /\ Older(since) >= OutageThreshold THEN "outage" ELSE "lookup"
  /\ UNCHANGED <<table, global, writing, alarms>>

\* latest_simulation_id
Lookup(ok) ==
  /\ wd = "lookup"
  /\ wd' = IF ok THEN "rate" ELSE "health"
  /\ UNCHANGED <<table, global, writing, alarms, since, failures>>

CheckRate(ok) ==
  /\ wd = "rate"
  /\ wd' = IF ok /\ fresh > RateThreshold THEN "runaway" ELSE "oscillation"
  /\ UNCHANGED <<table, global, writing, alarms, since, failures>>

CheckOscillation(ok) ==
  /\ wd = "oscillation"
  /\ alarms' \in IF ok THEN {A \in SUBSET Rides : \A r \in Rides : Finds(r, r \in A)}
                          ELSE {{}}
  /\ wd' = IF alarms' = {} THEN "health" ELSE "unstable"
  /\ UNCHANGED <<table, global, writing, since, failures>>

\* escalate, called for an outage, for the rate, or for one ride of `alarms`.
Target == IF wd = "unstable" THEN "quarantine" ELSE "stopped"

EscalationEnds ==
  \/ wd = "outage"   /\ wd' = "lookup" /\ UNCHANGED alarms
  \/ wd = "runaway"  /\ wd' = "oscillation" /\ UNCHANGED alarms
  \/ wd = "unstable" /\ \E r \in alarms :
       /\ alarms' = alarms \ {r}
       /\ wd' = IF alarms' = {} THEN "health" ELSE "unstable"

\* Plausible fault: only Normal is escalated, not a restart's Cautious.
EscalateReadNormalOnly(ok) ==
  /\ wd \in Escalating
  /\ ~writing
  /\ IF ok /\ global = "normal"
       THEN writing' = TRUE /\ UNCHANGED <<wd, alarms>>
       ELSE UNCHANGED writing /\ EscalationEnds
  /\ UNCHANGED <<table, global, since, failures>>

EscalateRead(ok) ==
  /\ wd \in Escalating
  /\ ~writing
  /\ IF ok /\ global \notin {Target, "stopped"}
       THEN writing' = TRUE /\ UNCHANGED <<wd, alarms>>
       ELSE UNCHANGED writing /\ EscalationEnds
  /\ UNCHANGED <<table, global, since, failures>>

EscalateInsert(ok) ==
  /\ writing
  /\ writing' = FALSE
  /\ global' = IF ok THEN Target ELSE global
  /\ EscalationEnds
  /\ UNCHANGED <<table, since, failures>>

Poll == GetHealth \/ PollFails \/ PollSucceeds

Check ==
  \E ok \in BOOLEAN :
    Lookup(ok) \/ CheckRate(ok) \/ CheckOscillation(ok)
      \/ EscalateRead(ok) \/ EscalateInsert(ok)

Environment ==
  \/ \E r \in Rides, p \in Prices, t \in 0..MaxTick : RecordAction(r, p, t)
  \/ MinutePasses
  \/ HourPasses
  \/ Restart
  \/ Resolve

Next == Poll \/ Check \/ Environment

Spec == Init /\ [][Next]_vars

(***************************************************************************)
(* Fairness.  An outage of the database ends: a query that is awaited, or  *)
(* made again and again, succeeds some time.  There is no fairness of      *)
(* GetHealth, because nothing in the code bounds its wait.                 *)
(***************************************************************************)
FairSpec ==
  /\ Spec
  /\ SF_vars(PollSucceeds)
  /\ SF_vars(Lookup(TRUE))
  /\ WF_vars(\E ok \in BOOLEAN : CheckRate(ok))
  /\ SF_vars(CheckOscillation(TRUE))
  /\ SF_vars(EscalateRead(TRUE))
  /\ SF_vars(EscalateInsert(TRUE))

-----------------------------------------------------------------------------
(***************************************************************************)
(* Properties.                                                             *)
(***************************************************************************)

\* The code's one pass over a ride's prices finds the turning points, whatever
\* unchanged prices lie between them.
CountsTurningPoints ==
  LET prices == [i \in DOMAIN rows |-> rows[i].price]
  IN  CountReversals(prices) = Cardinality(TurningPoints(prices))

\* Neither alarm can be raised by the actions of one process: the cooldown and
\* the hourly limit stay below both thresholds.  What the checks catch is a
\* governor that a restart made forget.
AlarmsTakeARestart == wd \in {"runaway", "unstable"} => born > 0

\* Some ride oscillates in whatever order ties are read.
Unstable == \E r \in Rides : ~Finds(r, FALSE)

\* The orchestrator never hangs for good in the middle of a /health request.
\* The watchdog is to work "even if the orchestrator process it's watching is
\* completely wedged or dead" (bin/watchdog.rs).  Dead is enough for what
\* follows; a wedged one stops its loop, and nothing follows.
NeverWedged == []<>(wd # "health")

\* A ride that oscillates is answered again and again, whoever resolves it and
\* however often the orchestrator restarts: no resolve makes the watchdog
\* forget rows that are still in the window.
InstabilityIsAnswered == NeverWedged /\ <>[]Unstable => []<>(global \in Manual)

\* However polls and outages fall, an outage that lasted is acted upon.
OutagesAreNoticed == NeverWedged => (failures = OutageThreshold ~> wd = "outage")

\* "If the watchdog finds the database unreachable for longer than this, it
\* enters SafetyState::Stopped" (constitution-0.1.yaml): not if the escalation
\* itself fails, for the outage was forgotten before it.
OutageStops == NeverWedged => (failures = OutageThreshold ~> global = "stopped")

-----------------------------------------------------------------------------
(***************************************************************************)
(* An inductive invariant: what the theorems of WatchdogProofs rest on.    *)
(***************************************************************************)
\* The running process has kept its cooldown between any two of its actions.
RestedInv ==
  \A i, j \in born + 1..Len(rows) :
    i < j /\ rows[i].ride = rows[j].ride => rows[j].tick >= rows[i].tick + Cooldown

\* It has kept its hour, of which the last minute is a part.
HourInv == hour <= MaxPerHour /\ (born = 0 => fresh <= hour)

IInv == TypeOK /\ RestedInv /\ HourInv /\ AlarmsTakeARestart
=============================================================================
