--------------------------- MODULE GovernorProofs ---------------------------
(***************************************************************************)
(* The governor keeps its limits and answers as the whole history says,    *)
(* for every constitution, every pair of windows with Hour <= Day, and     *)
(* every order of ticks.                                                   *)
(***************************************************************************)
EXTENDS Governor, FiniteSetTheorems, TLAPS

USE NumbersAssumption, WindowsAssumption

\* RateLimits counts as FiniteSets does.
LEMMA SameCardinality == \A S : Limits!Cardinality(S) = Cardinality(S)
BY DEF Limits!Cardinality, Cardinality

\* After pruning, the vector holds exactly the last day's grants, and what it
\* counts for the last hour is exactly the last hour's.
LEMMA PruningIsExact ==
  ASSUME TypeOK, MemoryInv
  PROVE  Kept = Limits!Within(Day) /\ LastHour = Limits!Within(Hour)
<1>1. Kept = Limits!Within(Day)
  BY DEF Kept, Limits!Within, TypeOK, MemoryInv
<1>2. \A g \in grants : now - g.at < Hour => now - g.at < Day
  BY DEF TypeOK, Grant
<1> QED
  BY <1>1, <1>2 DEF LastHour, Limits!Within

\* One tick per ride is enough to know whether the ride has rested.
LEMMA LatestTickIsEnough ==
  ASSUME TypeOK, LastTickInv, NEW r \in Rides, NEW tick \in Tick
  PROVE  Cooled(r, tick) <=> Limits!Rested(r, tick)
<1>1. CASE last_tick[r] = Never
  BY <1>1 DEF Cooled, Limits!Rested, LastTickInv
<1>2. CASE last_tick[r] # Never
  <2>1. last_tick[r] \in Nat /\ tick \in Nat
    BY <1>2 DEF TypeOK, Tick
  <2>2. PICK h \in grants : h.ride = r /\ h.tick = last_tick[r]
    BY <1>2 DEF LastTickInv
  <2>3. \A g \in grants : g.tick \in Nat
    BY DEF TypeOK, Grant, Tick
  <2>4. ASSUME Cooldown > 0, Cooled(r, tick), NEW g \in grants, g.ride = r
        PROVE  g.tick + Cooldown <= tick
    <3>1. g.tick <= last_tick[r]
      BY <2>4 DEF LastTickInv
    <3> QED
      BY <3>1, <2>4, <2>1, <2>3, <1>2 DEF Cooled, SaturatingSub
  <2>5. ASSUME Limits!Rested(r, tick) PROVE Cooled(r, tick)
    BY <2>5, <2>1, <2>2 DEF Limits!Rested, Cooled, SaturatingSub
  <2> QED
    BY <2>4, <2>5 DEF Limits!Rested
<1> QED
  BY <1>1, <1>2

\* The checks of the code decide as the whole history does.
LEMMA ChecksDecidePermission ==
  ASSUME IInv, NEW p \in Proposal, NEW tick \in Tick
  PROVE  (Fit(p) /\ Cooled(p.ride, tick) /\ BudgetLeft) <=> Limits!Permitted(p, tick)
<1>1. p.ride \in Rides
  BY DEF Proposal
<1>2. Cooled(p.ride, tick) <=> Limits!Rested(p.ride, tick)
  BY <1>1, LatestTickIsEnough DEF IInv
<1> QED
  BY <1>2, PruningIsExact, SameCardinality DEF IInv, Limits!Permitted, BudgetLeft, RideOf

\* A new grant has a number of its own, and makes one more.
LEMMA NewGrant ==
  ASSUME TypeOK, NumberInv, NEW p \in Proposal, NEW tick \in Tick
  PROVE  LET g == Limits!GrantOf(p, tick) IN
         /\ g \in Grant /\ g \notin grants /\ g.at = now /\ g.ride = p.ride /\ g.tick = tick
         /\ g.n = Cardinality(grants)
         /\ IsFiniteSet(grants \cup {g})
         /\ Cardinality(grants \cup {g}) = Cardinality(grants) + 1
<1> DEFINE g == Limits!GrantOf(p, tick)
<1>1. Cardinality(grants) \in Nat
  BY FS_CardinalityType DEF NumberInv
<1>2. g = [n |-> Cardinality(grants), at |-> now, ride |-> p.ride, tick |-> tick]
  BY SameCardinality DEF Limits!GrantOf, RideOf
<1>3. p.ride \in Rides
  BY DEF Proposal
<1>4. g \in Grant
  BY <1>1, <1>2, <1>3 DEF Grant, TypeOK
<1>5. g \notin grants
  BY <1>1, <1>2 DEF NumberInv
<1>6. IsFiniteSet(grants \cup {g}) /\ Cardinality(grants \cup {g}) = Cardinality(grants) + 1
  BY <1>5, FS_AddElement DEF NumberInv
<1> HIDE DEF g
<1> QED
  BY <1>2, <1>4, <1>5, <1>6 DEF g

\* A window that reaches the present lies within the span before now, so a
\* grant that finds room there overfills no window.
LEMMA WindowHolds ==
  ASSUME TypeOK, NumberInv, NEW span \in Nat, NEW limit \in Nat,
         NEW p \in Proposal, NEW tick \in Tick,
         Cardinality(Limits!Within(span)) < limit,
         \A w \in 0..now : Cardinality(Limits!From(w, span)) <= limit,
         NEW w \in 0..now
  PROVE  Cardinality({h \in grants \cup {Limits!GrantOf(p, tick)} :
                        w <= h.at /\ h.at < w + span}) <= limit
<1> DEFINE g == Limits!GrantOf(p, tick)
           Old == Limits!From(w, span)
           New == {h \in grants \cup {g} : w <= h.at /\ h.at < w + span}
<1>1. g.at = now /\ g \notin grants
  BY NewGrant
<1>2. Old = {h \in grants : w <= h.at /\ h.at < w + span}
  BY DEF Limits!From
<1>3. now \in Nat /\ w \in Nat /\ \A h \in grants : h.at \in Nat /\ h.at <= now
  BY DEF TypeOK, NumberInv, Grant
<1>4. IsFiniteSet(Limits!Within(span)) /\ IsFiniteSet(Old)
  BY FS_Subset, <1>2 DEF NumberInv, Limits!Within
<1>5. CASE now < w + span
  <2>1. Old \subseteq Limits!Within(span)
    BY <1>2, <1>3, <1>5 DEF Limits!Within
  <2>2. Cardinality(Old) <= Cardinality(Limits!Within(span))
    BY <2>1, <1>4, FS_Subset
  <2>3. New = Old \cup {g}
    BY <1>1, <1>2, <1>3, <1>5
  <2>4. Cardinality(Old) \in Nat /\ Cardinality(Limits!Within(span)) \in Nat
    BY <1>4, FS_CardinalityType
  <2>5. g \notin Old
    BY <1>1, <1>2
  <2>6. Cardinality(Old \cup {g}) = Cardinality(Old) + 1
    BY <1>4, <2>5, FS_AddElement
  <2>7. Cardinality(New) <= limit
    <3>1. limit \in Nat /\ Cardinality(Limits!Within(span)) < limit
      OBVIOUS
    <3> HIDE DEF Old, New, g
    <3> QED
      BY <3>1, <2>2, <2>3, <2>4, <2>6
  <2> QED
    BY <2>7
<1>6. CASE ~(now < w + span)
  <2>1. New = Old
    BY <1>1, <1>2, <1>3, <1>6
  <2> QED
    BY <2>1
<1> QED
  BY <1>5, <1>6

\* A window that begins after every grant is empty.
LEMMA FutureWindowIsEmpty ==
  ASSUME TypeOK, NumberInv, NEW span \in Nat
  PROVE  Cardinality({h \in grants : now + 1 <= h.at /\ h.at < now + 1 + span}) = 0
<1>1. {h \in grants : now + 1 <= h.at /\ h.at < now + 1 + span} = {}
  BY DEF TypeOK, NumberInv, Grant
<1> QED
  BY <1>1, FS_EmptySet

-----------------------------------------------------------------------------
Fresh ==
  /\ authorized_at = {}
  /\ grants = {}
  /\ last_tick = [r \in Rides |-> Never]
  /\ now \in 0..MaxNow

\* A new process satisfies the invariant.
LEMMA FreshGovernor == Fresh => IInv
<1> SUFFICES ASSUME Fresh PROVE IInv
  OBVIOUS
<1> USE DEF Fresh
<1>1. TypeOK /\ NumberInv /\ MemoryInv /\ LastTickInv
  BY FS_EmptySet DEF TypeOK, NumberInv, MemoryInv, LastTickInv, Limits!Within
<1>2. \A w \in 0..now, span \in {Hour, Day} : Limits!From(w, span) = {}
  BY DEF Limits!From
<1>3. HourlyLimit /\ DailyLimit
  BY <1>2, FS_EmptySet, SameCardinality DEF HourlyLimit, DailyLimit, Limits!HourlyLimit, Limits!DailyLimit
<1>4. RidesRest
  BY DEF RidesRest, Limits!RidesRest
<1> QED
  BY <1>1, <1>3, <1>4 DEF IInv

\* Every initial state satisfies the invariant.
LEMMA InitIInv == Init => IInv
BY FreshGovernor DEF Init, Fresh

\* A grant preserves the invariant.
LEMMA AuthorizeIInv ==
  ASSUME IInv, NEW p \in Proposal, NEW tick \in Tick, Authorize(p, tick)
  PROVE  IInv'
<1> DEFINE g == Limits!GrantOf(p, tick)
<1>0. TypeOK /\ NumberInv /\ MemoryInv /\ LastTickInv /\ HourlyLimit /\ DailyLimit /\ RidesRest
  BY DEF IInv
<1>1. /\ g \in Grant /\ g \notin grants /\ g.at = now /\ g.ride = p.ride /\ g.tick = tick
      /\ g.n = Cardinality(grants) /\ IsFiniteSet(grants \cup {g})
      /\ Cardinality(grants \cup {g}) = Cardinality(grants) + 1
  BY <1>0, NewGrant
<1>2. /\ grants' = grants \cup {g} /\ authorized_at' = Kept \cup {g} /\ now' = now
      /\ last_tick' = [last_tick EXCEPT ![p.ride] = tick]
      /\ Cooled(p.ride, tick) /\ BudgetLeft
  BY DEF Authorize
<1> HIDE DEF g
<1>3. p.ride \in Rides /\ Cardinality(grants) \in Nat
  BY <1>0, FS_CardinalityType DEF Proposal, NumberInv
<1>4. Limits!Permitted(p, tick)
  BY ChecksDecidePermission DEF Authorize
<1>5. TypeOK'
  BY <1>0, <1>1, <1>2, <1>3 DEF TypeOK, Kept
<1>6. NumberInv'
  BY <1>0, <1>1, <1>2, <1>3 DEF NumberInv, TypeOK, Grant
<1>7. MemoryInv'
  BY <1>0, <1>2 DEF MemoryInv, Limits!Within, Kept
<1>8. LastTickInv'
  <2>1. Limits!Rested(p.ride, tick)
    BY <1>4 DEF Limits!Permitted, RideOf
  <2>2. \A h \in grants : h.tick \in Nat /\ h.ride \in Rides
    BY <1>0 DEF TypeOK, Grant, Tick
  <2>3. tick \in Nat /\ tick # Never
    BY DEF Tick, Never
  <2>4. last_tick \in [Rides -> Tick \cup {Never}]
    BY <1>0 DEF TypeOK
  <2>5. ASSUME NEW h \in grants'
        PROVE  /\ last_tick'[h.ride] # Never
               /\ Cooldown > 0 => h.tick <= last_tick'[h.ride]
    <3>1. CASE h = g
      BY <3>1, <1>1, <1>2, <1>3, <2>3, <2>4
    <3>2. CASE h \in grants /\ h.ride = p.ride
      BY <3>2, <1>2, <1>3, <2>1, <2>2, <2>3, <2>4 DEF Limits!Rested
    <3>3. CASE h \in grants /\ h.ride # p.ride
      BY <3>3, <1>0, <1>2, <1>3, <2>2, <2>4 DEF LastTickInv
    <3> QED
      BY <3>1, <3>2, <3>3, <1>2
  <2>6. ASSUME NEW r \in Rides, last_tick'[r] # Never
        PROVE  \E h \in grants' : h.ride = r /\ h.tick = last_tick'[r]
    <3>1. CASE r = p.ride
      BY <3>1, <1>1, <1>2, <1>3, <2>4
    <3>2. CASE r # p.ride
      BY <3>2, <2>6, <1>0, <1>2, <1>3, <2>4 DEF LastTickInv
    <3> QED
      BY <3>1, <3>2
  <2> QED
    BY <2>5, <2>6 DEF LastTickInv
<1>9. HourlyLimit'
  <2>1. \A w \in 0..now : Cardinality({h \in grants \cup {g} : w <= h.at /\ h.at < w + Hour})
                            <= MaxPerHour
    BY <1>0, <1>4, WindowHolds, SameCardinality
       DEF g, Limits!Permitted, HourlyLimit, Limits!HourlyLimit
  <2> QED
    BY <2>1, <1>2, SameCardinality DEF HourlyLimit, Limits!HourlyLimit, Limits!From
<1>10. DailyLimit'
  <2>1. \A w \in 0..now : Cardinality({h \in grants \cup {g} : w <= h.at /\ h.at < w + Day})
                            <= DailyBudget
    BY <1>0, <1>4, WindowHolds, SameCardinality
       DEF g, Limits!Permitted, DailyLimit, Limits!DailyLimit
  <2> QED
    BY <2>1, <1>2, SameCardinality DEF DailyLimit, Limits!DailyLimit, Limits!From
<1>11. RidesRest'
  <2>1. Limits!Rested(p.ride, tick)
    BY <1>4 DEF Limits!Permitted, RideOf
  <2>2. \A h \in grants : h.n \in Nat /\ h.n < Cardinality(grants)
    BY <1>0 DEF TypeOK, NumberInv, Grant
  <2> QED
    BY <1>0, <1>1, <1>2, <1>3, <2>1, <2>2 DEF RidesRest, Limits!RidesRest, Limits!Rested
<1> QED
  BY <1>5, <1>6, <1>7, <1>8, <1>9, <1>10, <1>11 DEF IInv

\* The other steps preserve it.
LEMMA NextIInv == IInv /\ [Next]_vars => IInv'
<1> SUFFICES ASSUME IInv, [Next]_vars PROVE IInv'
  OBVIOUS
<1>0. TypeOK /\ NumberInv /\ MemoryInv /\ LastTickInv /\ HourlyLimit /\ DailyLimit /\ RidesRest
  BY DEF IInv
<1>1. ASSUME NEW p \in Proposal, NEW tick \in Tick, Authorize(p, tick) PROVE IInv'
  BY <1>1, AuthorizeIInv
<1>2. ASSUME NEW p \in Proposal, NEW tick \in Tick, RejectSpent(p, tick) PROVE IInv'
  <2>1. UNCHANGED <<now, last_tick, grants>> /\ authorized_at' = Kept
    BY <1>2 DEF RejectSpent
  <2>2. TypeOK' /\ MemoryInv'
    BY <2>1, <1>0 DEF TypeOK, MemoryInv, Kept, Limits!Within
  <2>3. NumberInv' /\ LastTickInv'
    BY <2>1, <1>0 DEF NumberInv, LastTickInv
  <2>4. HourlyLimit' /\ DailyLimit' /\ RidesRest'
    BY <2>1, <1>0 DEF HourlyLimit, Limits!HourlyLimit, DailyLimit, Limits!DailyLimit,
                      Limits!From, RidesRest, Limits!RidesRest
  <2> QED
    BY <2>2, <2>3, <2>4 DEF IInv
<1>3. ASSUME UNCHANGED <<now, authorized_at, last_tick, grants>> PROVE IInv'
  <2>1. TypeOK' /\ NumberInv' /\ LastTickInv'
    BY <1>3, <1>0 DEF TypeOK, NumberInv, LastTickInv
  <2>2. MemoryInv' /\ RidesRest'
    BY <1>3, <1>0 DEF MemoryInv, Limits!Within, RidesRest, Limits!RidesRest
  <2>3. HourlyLimit' /\ DailyLimit'
    BY <1>3, <1>0 DEF HourlyLimit, Limits!HourlyLimit, DailyLimit, Limits!DailyLimit,
                      Limits!From
  <2> QED
    BY <2>1, <2>2, <2>3 DEF IInv
<1>4. ASSUME Advance PROVE IInv'
  <2>1. now' = now + 1 /\ now < MaxNow /\ UNCHANGED <<authorized_at, last_tick, grants>>
    BY <1>4 DEF Advance
  <2>2. TypeOK' /\ NumberInv' /\ LastTickInv'
    BY <2>1, <1>0 DEF TypeOK, NumberInv, LastTickInv, Grant
  <2>3. MemoryInv'
    <3>1. now \in Nat /\ \A h \in grants : h.at \in Nat
      BY <1>0 DEF TypeOK, Grant
    <3>2. \A h \in grants : now + 1 - h.at < Day => h \in authorized_at
      BY <3>1, <1>0 DEF MemoryInv, Limits!Within
    <3>3. now' = now + 1 /\ grants' = grants /\ authorized_at' = authorized_at
      BY <2>1
    <3>4. \A h \in grants' : now' - h.at < Day => h \in authorized_at'
      BY <3>1, <3>2, <3>3
    <3> QED
      BY <3>4 DEF MemoryInv, Limits!Within
  <2>4. RidesRest'
    BY <2>1, <1>0 DEF RidesRest, Limits!RidesRest
  <2>5. ASSUME NEW w \in 0..now + 1
        PROVE  /\ Cardinality({h \in grants : w <= h.at /\ h.at < w + Hour}) <= MaxPerHour
               /\ Cardinality({h \in grants : w <= h.at /\ h.at < w + Day}) <= DailyBudget
    <3>1. CASE w \in 0..now
      BY <3>1, <1>0, SameCardinality
         DEF HourlyLimit, Limits!HourlyLimit, DailyLimit, Limits!DailyLimit, Limits!From
    <3>2. CASE w = now + 1
      <4>1. Cardinality({h \in grants : w <= h.at /\ h.at < w + Hour}) = 0
        BY <3>2, <1>0, FutureWindowIsEmpty
      <4>2. Cardinality({h \in grants : w <= h.at /\ h.at < w + Day}) = 0
        BY <3>2, <1>0, FutureWindowIsEmpty
      <4> QED
        BY <4>1, <4>2
    <3> QED
      BY <3>1, <3>2, <1>0 DEF TypeOK
  <2>6. HourlyLimit' /\ DailyLimit'
    BY <2>1, <2>5, SameCardinality
       DEF HourlyLimit, Limits!HourlyLimit, DailyLimit, Limits!DailyLimit, Limits!From
  <2> QED
    BY <2>2, <2>3, <2>4, <2>6 DEF IInv
<1>5. ASSUME Restart PROVE IInv'
  <2>1. Fresh'
    BY <1>5, <1>0 DEF Restart, TypeOK, Fresh
  <2> QED
    BY <2>1, FreshGovernor, PTL
<1> QED
  BY <1>1, <1>2, <1>3, <1>4, <1>5 DEF Next, vars, RejectUnfit

-----------------------------------------------------------------------------
\* The invariant holds throughout: pruning forgets nothing that is needed.
THEOREM Invariance == Spec => []IInv
BY InitIInv, NextIInv, PTL DEF Spec

\* The governor's variables keep their types.
THEOREM TypeCorrect == Spec => []TypeOK
<1>1. IInv => TypeOK
  BY DEF IInv
<1> QED
  BY <1>1, Invariance, PTL

\* max_actions_per_hour bounds the grants of every hour, not of the last only.
THEOREM HourlyLimitHolds == Spec => []HourlyLimit
<1>1. IInv => HourlyLimit
  BY DEF IInv
<1> QED
  BY <1>1, Invariance, PTL

\* daily_action_budget bounds the grants of every day.
THEOREM DailyLimitHolds == Spec => []DailyLimit
<1>1. IInv => DailyLimit
  BY DEF IInv
<1> QED
  BY <1>1, Invariance, PTL

\* per_ride_cooldown_ticks separates any two grants for one ride, also when
\* ticks go backwards between them.
THEOREM RidesRestHolds == Spec => []RidesRest
<1>1. IInv => RidesRest
  BY DEF IInv
<1> QED
  BY <1>1, Invariance, PTL

\* The governor implements the limits on the whole history: every step of it
\* is a step of theirs, with the same answer.
THEOREM Refinement == Spec => AnswersAsTheHistorySays
<1>1. Init => Limits!Init
  BY DEF Init, Limits!Init
<1>2. IInv /\ [Next]_vars => [Limits!Next]_(Limits!limitVars)
  <2> SUFFICES ASSUME IInv, [Next]_vars PROVE [Limits!Next]_(Limits!limitVars)
    OBVIOUS
  <2>1. ASSUME NEW p \in Proposal, NEW tick \in Tick, Authorize(p, tick)
        PROVE  Limits!Allow(p, tick)
    BY <2>1, ChecksDecidePermission DEF Authorize, Limits!Allow
  <2>2. ASSUME NEW p \in Proposal, NEW tick \in Tick,
               RejectUnfit(p, tick) \/ RejectSpent(p, tick)
        PROVE  Limits!Refuse(p, tick)
    BY <2>2, ChecksDecidePermission DEF RejectUnfit, RejectSpent, Limits!Refuse
  <2>3. ASSUME Advance PROVE Limits!Advance
    BY <2>3 DEF Advance, Limits!Advance
  <2>4. ASSUME Restart PROVE Limits!Restart
    BY <2>4 DEF Restart, Limits!Restart
  <2>5. ASSUME UNCHANGED vars PROVE UNCHANGED Limits!limitVars
    BY <2>5 DEF vars, Limits!limitVars
  <2> QED
    BY <2>1, <2>2, <2>3, <2>4, <2>5 DEF Next, Limits!Next, Tick
<1> QED
  BY <1>1, <1>2, Invariance, PTL DEF Spec, AnswersAsTheHistorySays, Limits!Spec
=============================================================================
