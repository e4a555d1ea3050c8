------------------------------ MODULE Governor ------------------------------
(***************************************************************************)
(* Governor::authorize (core/governor/src/lib.rs): the checks in order,    *)
(* the pruned vector of grant times, and the last tick per ride.  Callers  *)
(* pass whatever tick the world model holds, which starts over with a new  *)
(* park; the clock is Instant::now(), which does not.                      *)
(*                                                                         *)
(* authorized_at holds times only; here each time comes with the grant it  *)
(* stands for, of which nothing but the time is read.                      *)
(***************************************************************************)
EXTENDS Integers, FiniteSets

CONSTANTS
  Rides,                     \* ride ids, reused from one park to the next
  Confidences, Prices,       \* what proposals may carry (bounds)
  MinConfidence,             \* constitution.min_confidence
  PriceMin, PriceMax,        \* constitution.price_bounds
  MaxTick, MaxNow,           \* bounds on ticks and on the clock
  Hour, Day,                 \* ONE_HOUR and ONE_DAY
  MaxPerHour, DailyBudget,   \* max_actions_per_hour, daily_action_budget
  Cooldown                   \* per_ride_cooldown_ticks

ASSUME NumbersAssumption ==
  /\ Confidences \subseteq Int /\ Prices \subseteq Int
  /\ MinConfidence \in Int /\ PriceMin \in Int /\ PriceMax \in Int
  /\ MaxTick \in Nat /\ MaxNow \in Nat
  /\ MaxPerHour \in Nat /\ DailyBudget \in Nat /\ Cooldown \in Nat
ASSUME WindowsAssumption == Hour \in Nat /\ Day \in Nat /\ Hour <= Day

VARIABLES
  now,            \* the monotonic clock
  authorized_at,  \* the grants whose times the vector still holds
  last_tick,      \* per_ride_last_authorized_tick, Never where absent
  grants,         \* history: every grant since the process started
  answer          \* history: the last authorization returned

vars == <<now, authorized_at, last_tick, grants, answer>>

Proposal == [ride : Rides, price : Prices, confidence : Confidences]
Never == -1
Tick == 0..MaxTick

RideOf(p) == p.ride

Fit(p) ==
  /\ p.confidence >= MinConfidence
  /\ PriceMin <= p.price /\ p.price <= PriceMax

Limits == INSTANCE RateLimits WITH Proposals <- Proposal

Grant == [n : Nat, at : 0..MaxNow, ride : Rides, tick : Tick]

TypeOK ==
  /\ now \in 0..MaxNow
  /\ grants \subseteq Grant
  /\ authorized_at \subseteq grants
  /\ last_tick \in [Rides -> Tick \cup {Never}]

Init ==
  /\ now = 0
  /\ authorized_at = {}
  /\ last_tick = [r \in Rides |-> Never]
  /\ grants = {}
  /\ answer = Limits!NoAnswer

-----------------------------------------------------------------------------
SaturatingSub(a, b) == IF a > b THEN a - b ELSE 0

\* Plausible fault: the distance between the ticks, whichever is later.
CooledByDistance(ride, tick) ==
  \/ last_tick[ride] = Never
  \/ tick - last_tick[ride] >= Cooldown
  \/ last_tick[ride] - tick >= Cooldown

Cooled(ride, tick) ==
  \/ last_tick[ride] = Never
  \/ SaturatingSub(tick, last_tick[ride]) >= Cooldown

\* Plausible fault: pruning with the wrong window.
KeptForAnHour == {g \in authorized_at : now - g.at < Hour}

\* What retain leaves of the vector.
Kept == {g \in authorized_at : now - g.at < Day}

\* Plausible fault: the hour is one instant short.
LastHourShort == {g \in Kept : now - g.at < Hour - 1}

LastHour == {g \in Kept : now - g.at < Hour}

\* Plausible fault: the budgets may be exceeded by one.
BudgetLeftAtLimit ==
  Cardinality(LastHour) <= MaxPerHour /\ Cardinality(Kept) <= DailyBudget

BudgetLeft ==
  Cardinality(LastHour) < MaxPerHour /\ Cardinality(Kept) < DailyBudget

\* Confidence, price or cooldown: rejected before the vector is touched.
RejectUnfit(p, tick) ==
  /\ ~(Fit(p) /\ Cooled(p.ride, tick))
  /\ answer' = Limits!Answer(p, tick, FALSE)
  /\ UNCHANGED <<now, authorized_at, last_tick, grants>>

\* Either budget is spent: the vector has been pruned all the same.
RejectSpent(p, tick) ==
  /\ Fit(p) /\ Cooled(p.ride, tick)
  /\ ~BudgetLeft
  /\ authorized_at' = Kept
  /\ answer' = Limits!Answer(p, tick, FALSE)
  /\ UNCHANGED <<now, last_tick, grants>>

\* Plausible fault: remembering the end of the cooldown, not its beginning.
AuthorizeUntil(p, tick) ==
  LET g == Limits!GrantOf(p, tick) IN
  /\ Fit(p) /\ Cooled(p.ride, tick)
  /\ BudgetLeft
  /\ authorized_at' = Kept \cup {g}
  /\ grants' = grants \cup {g}
  /\ last_tick' = [last_tick EXCEPT ![p.ride] = tick + Cooldown]
  /\ answer' = Limits!Answer(p, tick, TRUE)
  /\ UNCHANGED now

\* Authorized: both budgets and the ride's cooldown are committed at once.
Authorize(p, tick) ==
  LET g == Limits!GrantOf(p, tick) IN
  /\ Fit(p) /\ Cooled(p.ride, tick)
  /\ BudgetLeft
  /\ authorized_at' = Kept \cup {g}
  /\ grants' = grants \cup {g}
  /\ last_tick' = [last_tick EXCEPT ![p.ride] = tick]
  /\ answer' = Limits!Answer(p, tick, TRUE)
  /\ UNCHANGED now

Advance ==
  /\ now < MaxNow
  /\ now' = now + 1
  /\ UNCHANGED <<authorized_at, last_tick, grants, answer>>

\* A new orchestrator process begins with an empty governor.
Restart ==
  /\ authorized_at' = {}
  /\ last_tick' = [r \in Rides |-> Never]
  /\ grants' = {}
  /\ answer' = Limits!NoAnswer
  /\ UNCHANGED now

Next ==
  \/ \E p \in Proposal, tick \in Tick :
       RejectUnfit(p, tick) \/ RejectSpent(p, tick) \/ Authorize(p, tick)
  \/ Advance
  \/ Restart

Spec == Init /\ [][Next]_vars

-----------------------------------------------------------------------------
\* No hour holds more grants than max_actions_per_hour.
HourlyLimit == Limits!HourlyLimit

\* No day holds more grants than daily_action_budget.
DailyLimit == Limits!DailyLimit

\* Two grants for one ride are the cooldown apart, whatever the ticks do.
RidesRest == Limits!RidesRest

\* The governor, with its pruned vector and its one tick per ride, answers
\* every proposal as the whole history of grants says it should: what it
\* forgets changes no answer, in either direction.
AnswersAsTheHistorySays == Limits!Spec

-----------------------------------------------------------------------------
(***************************************************************************)
(* The inductive invariant behind them.                                    *)
(***************************************************************************)

\* Grants are numbered in the order they are made, none in the future.
NumberInv ==
  /\ IsFiniteSet(grants)
  /\ \A g \in grants : g.n < Cardinality(grants) /\ g.at <= now

\* The grants of the last day are all still in the vector: pruning at each
\* call, and only at a call that gets that far, forgets nothing it needs.
MemoryInv == Limits!Within(Day) \subseteq authorized_at

\* last_tick[r] is the tick of a grant for r, and of the latest one unless the
\* cooldown is zero.
LastTickInv ==
  /\ \A g \in grants :
       /\ last_tick[g.ride] # Never
       /\ Cooldown > 0 => g.tick <= last_tick[g.ride]
  /\ \A r \in Rides :
       last_tick[r] # Never => \E g \in grants : g.ride = r /\ g.tick = last_tick[r]

IInv ==
  /\ TypeOK
  /\ NumberInv
  /\ MemoryInv
  /\ LastTickInv
  /\ HourlyLimit
  /\ DailyLimit
  /\ RidesRest
=============================================================================
