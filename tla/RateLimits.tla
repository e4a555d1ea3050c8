----------------------------- MODULE RateLimits -----------------------------
(***************************************************************************)
(* What the governor promises of the proposals it answers, over the whole  *)
(* history of its process: how many it grants in any hour and any day, and *)
(* how far apart it grants two for one ride.  The history ends with the    *)
(* process (ADR-0004: the governor's memory is not persisted).             *)
(***************************************************************************)
EXTENDS Integers, FiniteSets

CONSTANTS
  Proposals,       \* records with a ride and whatever else is weighed
  RideOf(_),       \* the ride a proposal is about
  Fit(_),          \* confident enough, and priced within bounds
  MaxTick,         \* ticks are 0..MaxTick (bound)
  MaxNow,          \* the wall clock runs to MaxNow (bound)
  Hour, Day,       \* the two windows
  MaxPerHour,      \* constitution.max_actions_per_hour
  DailyBudget,     \* constitution.daily_action_budget
  Cooldown         \* constitution.per_ride_cooldown_ticks

VARIABLES
  now,      \* the monotonic clock
  grants,   \* every grant of this process: number, time, ride and tick
  answer    \* the last answer: proposal, tick, and whether it was granted

limitVars == <<now, grants, answer>>

Within(span) == {g \in grants : now - g.at < span}

Rested(ride, tick) ==
  Cooldown > 0 => \A g \in grants : g.ride = ride => g.tick + Cooldown <= tick

Permitted(p, tick) ==
  /\ Fit(p)
  /\ Rested(RideOf(p), tick)
  /\ Cardinality(Within(Hour)) < MaxPerHour
  /\ Cardinality(Within(Day)) < DailyBudget

NoAnswer == [granted |-> FALSE]
Answer(p, tick, granted) == [proposal |-> p, tick |-> tick, granted |-> granted]
GrantOf(p, tick) == [n |-> Cardinality(grants), at |-> now, ride |-> RideOf(p), tick |-> tick]

Init == now = 0 /\ grants = {} /\ answer = NoAnswer

Allow(p, tick) ==
  /\ Permitted(p, tick)
  /\ grants' = grants \cup {GrantOf(p, tick)}
  /\ answer' = Answer(p, tick, TRUE)
  /\ UNCHANGED now

Refuse(p, tick) ==
  /\ ~Permitted(p, tick)
  /\ answer' = Answer(p, tick, FALSE)
  /\ UNCHANGED <<now, grants>>

Advance == now < MaxNow /\ now' = now + 1 /\ UNCHANGED <<grants, answer>>

Restart == grants' = {} /\ answer' = NoAnswer /\ UNCHANGED now

Next ==
  \/ \E p \in Proposals, tick \in 0..MaxTick : Allow(p, tick) \/ Refuse(p, tick)
  \/ Advance
  \/ Restart

Spec == Init /\ [][Next]_limitVars

-----------------------------------------------------------------------------
\* The grants of the span that begins at w.
From(w, span) == {g \in grants : w <= g.at /\ g.at < w + span}

\* No hour, wherever it begins, holds more grants than max_actions_per_hour.
HourlyLimit == \A w \in 0..now : Cardinality(From(w, Hour)) <= MaxPerHour

\* No day, wherever it begins, holds more grants than daily_action_budget.
DailyLimit == \A w \in 0..now : Cardinality(From(w, Day)) <= DailyBudget

\* Any two grants for one ride are at least the cooldown apart, in ticks, in
\* the order they were made: also when a new park's ticks start over.
RidesRest ==
  Cooldown > 0 =>
    \A g, h \in grants : g.ride = h.ride /\ g.n < h.n => g.tick + Cooldown <= h.tick
=============================================================================
