# A formal model of Helter Skelter

Helter Skelter runs an OpenRCT2 park without a human at the keyboard. A plugin in the
game (the *bridge*) observes the park and executes commands; the *orchestrator*, a Rust
process, proposes price changes, asks a *governor* whether they are allowed, sends them,
verifies their effect and rolls back; a *watchdog* process stops everything when the
pattern of actions looks wrong; Postgres holds the ledger that all of them read.

This directory holds TLA+ models of that system, the TLC configurations that check them
on small instances, and theorems about them that the TLA+ proof system checks for every
value of the constants. `PROJECT.json` names, for every definition, the source lines it
translates. Paths below are relative to the repository's root.

    tlc -config MCSafetyNet_races.cfg MCSafetyNet      # a model-checking run
    tlapm SafetyNetProofs.tla                          # a proof

## 1. The system

| Component | State | Operations | Talks to |
|---|---|---|---|
| Connection loop (`core/orchestrator/src/tcp_server.rs`) | two maps of pending commands, local to a connection | one handler per message: hello, heartbeat, snapshot, command.result | everything below |
| Heartbeat tasks (spawned by it) | a counter in `SharedState` | read the safety state; count; write Normal | ledger |
| Safety-state ledger (`db.rs`, `state_transitions`) | rows, append-only; the state is the latest row for a simulation or for none | insert; read, which itself resolves an expired Conservation | written by loop, tasks, startup, watchdog, resolve |
| Startup (`startup.rs`) | none | write Cautious | ledger |
| Watchdog (`bin/watchdog.rs`, `oscillation.rs`) | since when the database is unreachable | poll; escalate to Quarantine or Stopped | ledger, /health |
| CLI (`main.rs`) | none | resolve, rollback, report | ledger, park file |
| Governor (`core/governor/src/lib.rs`) | grant times of a day, last tick per ride; in memory | authorize | called by the loop |
| Decision ledger (`db.rs`: proposals, authorizations, actions, action_results, snapshots, rollbacks) | rows | one insert per step of a decision | loop, watchdog, report |
| Snapshots (`snapshot.rs`, `scripts/dev/snapshot.sh`) | files named by tick | take, reuse, restore | autosave of the game |
| Persistence (`db.rs`) | bounded queue of observations | submit or drop; retry for ever | Postgres |
| World model and operator rule (`core/world-model`, `operator.rs`) | last tick, last 64 snapshots | record; propose | loop |
| Bridge connection (`bridge/openrct2-plugin/src/connection.ts`) | socket, timer, backoff, snapshot buffer, inbound fragment | connect, reconnect, send, flush | orchestrator |
| Bridge commands (`commands.ts`, `index.ts`) | idempotency cache | query, execute, answer; several at once | game engine |
| Connection health (`state.rs`, `health.rs`) | CONNECTING, LIVE, DEGRADED, LOST | connect, hello, heartbeat, disconnect, poll | loop, /health |

What makes it hard:

* the safety state is a *row* that five writers in three processes replace without any
  compare-and-set; each reads, awaits, and writes on the strength of what it read;
* every database call can fail, and most failures are logged and passed over;
* connections break at any point, taking with them what was on the wire and both pending
  maps, while spawned tasks, the governor, the tick and the counter live on;
* the orchestrator can crash between any two steps, and forgets everything but the ledger;
* ticks start over with a new park and after a restart, while rides keep their ids;
* commands are executed by concurrent promises, so results come in any order.

`PROJECT.json`, under "hazards", lists each such place at its line, with the property
that covers it or the reason none does.

What makes each component correct:

* *safety states*: nothing is authorized by a process that has not earned it; Stopped and
  Quarantine wait for a human; a rollback cools its own simulation off, no other, for the
  whole window; Cautious, Conservation and Rollback end by themselves (the code keeps part
  of this only, section 3);
* *governor*: hourly and daily budget, cooldown per ride, and no refusal that the
  constitution does not ask for;
* *pipeline*: nothing is executed that the ledger does not hold, or twice; a result row
  tells the truth; an effect is judged after it happened; a rollback restores a park from
  before the command;
* *link*: exactly one connection or attempt; hello first; snapshots in order, the newest
  kept; LOST stays lost until a new sign of life; service resumes;
* *watchdog checks*: the count of reversals is right; an oscillating ride is answered
  however often it is resolved; a lasting outage is noticed;
* *bridge commands*: a request is handled once and in order whatever the chunks; a replay
  does nothing; an answer is true; commands and snapshots mean the same park;
* *persistence*: what the channel took is persisted, in order and once;
* *operator rule*: it judges the last snapshots read, all of them, and stays in its bounds.

## 2. Modules

| Module | Models | Notes |
|---|---|---|
| `SafetyStates` | `safety_state.rs`, the row that `current_safety_state` selects | shared vocabulary |
| `SafetyNet` | every writer of the safety-state ledger, interleaved | one action per step between two awaits |
| `SafetyPromises` | nothing more: two history variables beside `SafetyNet` | what the documents promise of authorizations |
| `SafetyNetProofs` | theorems about `SafetyNet` | |
| `RateLimits` | what the governor promises, over the whole history of grants | abstract specification |
| `Governor` | `Governor::authorize` with its pruned memory | implements `RateLimits` |
| `GovernorProofs` | theorems about `Governor`, the refinement among them | |
| `DecisionPipeline` | one simulation's decisions from proposal to rollback, the wire, the bridge's command handler | |
| `DecisionPipelineProofs` | theorems about `DecisionPipeline` | |
| `BridgeLink` | `connection.ts` against the serial accept loop, `ConnectionHealth` | |
| `BridgeLinkProofs` | theorems about `BridgeLink` | |
| `Oscillation` | `oscillation.rs` | the count, and what it should count |
| `Watchdog` | the loop of `bin/watchdog.rs` and its queries | the orchestrator as the writer of what it reads |
| `WatchdogProofs` | theorems about `Watchdog` and the one pass of `Oscillation` | |
| `Protocol` | the messages of `protocol/types.ts`, as sets | |
| `GamePark` | `commands.ts` and `observation.ts` as translations to and from a park | the engine's part of it is external |
| `RemotePark` | what the bridge promises in the terms of the protocol | abstract specification |
| `BridgeCommands` | inbound framing, the promises of `handleCommandRequest`, the answers | implements `RemotePark` |
| `BridgeCommandsProofs` | theorems about `BridgeCommands` and `GamePark`, the refinement among them | |
| `OperatorRule` | `operator.rs` and the window of `world-model/src/lib.rs` | operators, no state |
| `Intake` | the snapshot handler, the channel, the persistence worker, the database | |
| `IntakeProofs` | theorems about `Intake` and `OperatorRule` | |
| `SequenceFacts` | lemmas about sequences and about least numbers that the proofs share | no model |
| `MC...` | the instances TLC checks | |

### SafetyNet

The ledger is held as the rows its two queries select: `global`, the latest row without
a simulation (what the watchdog, resolve and startup read), and `view[s]`, the latest row
that is for `s` or for no simulation (what the loop and the tasks read). An insert without
a simulation replaces all of them, an insert for `s` only `view[s]`, and fails unless
`s` has its row in `simulations`.

`main` is the place of the connection loop between two database calls; `hb[k]` the place
of a spawned heartbeat task; `wd` and `cli` what the watchdog and resolve are about to
write. A call that may fail is an action with a parameter `ok`. `current_safety_state`
is two steps where it finds an expired window: the read, and the insert of Normal
(`..._heal`). The pending maps are counted, not listed: here it only matters that a
command may still be out when the state moves; `DecisionPipeline` tells commands apart.
The two history variables `heard` and `resolved` record what no code variable does and are
never read by an action. `SafetyPromises` adds two more, for the promises that the code
does not keep: `tripped`, that the watchdog stopped the serving system and nobody resolved
since, and `cooling[s]`, the tick to which the last window of `s` runs.

The watchdog may escalate at any time, to either state: when its checks ask for it is not
modelled here but in `Watchdog`. A heartbeat may carry any tick, an earlier one included:
PROTOCOL.md:60-62 says the orchestrator enforces that ticks do not go back, and no code
does.

### Governor and RateLimits

`RateLimits` remembers every grant since the process started and answers a proposal by
looking at all of them. `Governor` keeps, as the code does, a vector of grant times that
it prunes when a call gets that far, and one tick per ride. `AnswersAsTheHistorySays`
(`Limits!Spec`) says the second implements the first: with the same grants and the same
answers. Callers pass any tick, earlier ones included, as they do when a new park is
loaded; `SaturatingSub` is the code's `saturating_sub`. A restart forgets both.

### DecisionPipeline

`main` walks through `handle_proposal`; `proposals`, `authorizations`, `actions`,
`results`, `snapshots` are the ledger's tables, with a proposal's number for the ids of
all the rows made for it and for the message that carries it. `files[t]` is the park
saved under the label `t`, represented by the set of commands executed in it; a snapshot
observed by the bridge is the same set, so that "judged after its effect" and "restored
from before" can be said. `toBridge` and `toOrch` are the two directions of the
connection; a break loses the requests and any tail of what the bridge sent. `handling`
holds the bridge's running promises, each at its query, its execution or its answer.
The safety state and the governor's budgets answer as they like, which includes all they
do in the two modules above; the cooldown and the idempotency key are kept, because a
restart forgets the one and regenerates the other.

### BridgeLink

Both ends of the one connection. `sock[s]` is what the engine and the network do with a
socket, `socket`, `connected`, `timers`, `delay`, `buffer` the fields of
`BridgeConnection`; `serving`, `backlog` the accept loop; `health`, `age` the
`ConnectionHealth` that /health polls. One assumption on the engine: a socket ends with
one event, "error" or "close". The code schedules a reconnect on each, so an engine that
raised both would leave it with two timers and then two connections.

### Watchdog

`wd` walks through the loop: `health` (asleep, or waiting for the answer of /health), poll,
look up the simulation, check the rate, check the prices; in `outage`, `runaway` and `unstable` it is inside `escalate`, `writing` once
that has read the state and found it milder than its target. `rows` is the actions table
in the order of its inserts. Time has no clock here: `fresh` and `hour` say how many of
the newest rows are younger than a minute and an hour, and shrink as time passes; `since`
is the age of `db_unreachable_since` in polls. What /health answers does not matter, for it
is only logged; whether it answers does, because `get_health` has no timeout. `born` separates the rows of earlier
orchestrator processes from those the running governor remembers.

Ascending ticks with ties in any order is what `ORDER BY ac.tick` promises, so a check
may find a ride oscillating, or not, when ticks are equal (`Finds`). The writer may
record an action in any safety state, more than `SafetyNet` allows; it keeps the
governor's cooldown and hourly limit.

### BridgeCommands, GamePark and RemotePark

`stream` is what the other end wrote and the network has not delivered, in *pieces*: a
line is two of them, the second with the newline, so that a chunk of any number of
pieces may end inside a line or between two. `inbound` is `inboundBuffer`, which outlives
a connection; `Split` is the loop of `onData`, as a function of how many pieces of the
buffer it has passed, and `Take` one round of it. A line that is not exactly one request does
not parse. `phase[m]` is where the promise of request `m` stands between its awaits,
`cache` the idempotency cache, `outcome[m]` what it will answer. The sender may repeat a
request under its key, before or after the first is answered: the orchestrator never
does, but this is what the cache is for. `park` is the game's, with a status the protocol
has no word for and rides that have no price or are not there; `Executed` is what the
engine does with an action, by the numbers that it takes (`EngineStatusOf`,
`EngineStaffType`: external). `RemotePark` sees of all this what the bridge would observe
now, and the entrance fee, which no snapshot tells; its steps are the five commands as
their names say, done only when asked for, and the moves of the game itself.

### Intake and OperatorRule

`Intake` begins where a snapshot arrives at the orchestrator. `ReadSnapshot` is the whole
handler up to the rule: `Submit` (a `try_send` that drops when the channel is full) and
`Observe` (the window, then the rule). `job` is the one job the worker retries; an insert
may fail, succeed, or commit and lose its answer (`ApplyFails(committed)`). The foreign key
to `simulations` and the hello that may not have been persisted are modelled, because
they decide whether a job can ever succeed. A crash takes window, channel and job along; a
disconnect takes none of them. What the handler does after the rule, verifications and
proposals, is `SafetyNet` and `DecisionPipeline`; here the next snapshot is read when it
is done. `OperatorRule` has the rule's own form, nested conditions on
a window of `MaxHistory`; the property states it over all snapshots ever read. The bridge
sends 0 for every queue length, for want of an API (`observation.ts:65-67`); the rule is
modelled for any.

## 3. What is checked

| Run | Instance | Question |
|---|---|---|
| `races` | 2 simulations, 2 tasks, ticks 0..1 | all writers of the ledger at once |
| `live` | 1 simulation, 1 task, 2 commands, ticks 0..2, fair | does it recover by itself |
| `governor` | 2 rides, day of 4, hour of 2, clock to 5 | budgets, cooldown, refinement |
| `pipeline` | 2 rides, 2 proposals, ticks 0..1 | decisions over a breaking connection |
| `link` | 2 sockets, 4 snapshots, 2 breaks, fair | reconnecting |
| `watchdog` | 1 ride, 2 prices, 3 actions, ticks 0..3, fair | when an alarm is raised, and answered |
| `bridge` | 3 requests, 2 keys, 6 commands, 1 break, fair | framing, replays, what commands mean |
| `intake` | 2 simulations, 3 snapshots of 1 ride, window 2, channel 1, fair | what becomes of a snapshot |
| `manual`, `cool`, `stuck`, `outage` | 1 simulation, 1 task; 1 action | promises the code does not keep |

Safety of the ledger (`races`):

* `AuthorizationIsEarned`: after a start, no authorization before the process has counted
  its heartbeats, unless a human resolved. Several tasks share the counter, resets and
  failed inserts interleave, restarts happen at any point. (That the heartbeats counted be
  consecutive and not degraded, `constitution-0.1.yaml:66-68`, is not checked: the code that
  counts looks neither at the health of the connection nor at the time between heartbeats,
  and nothing but a read of a state other than Cautious resets the counter.)
* `OnlyEscalationOvertakesTheGate`: the state is read long before the command leaves. All
  that can have happened in between is an escalation, never a rollback, a window, or
  Cautious.
* `EscalationsOnlyEscalate`: `escalate` reads, then writes; whatever falls in between, the
  row it writes is severer than what it replaces, for the system and every simulation.
* `ManualStatesHold`: once nothing is in flight for a simulation that was begun before it
  got into Quarantine or Stopped, nothing that is begun in it leads out of it, through
  heartbeats, snapshots, reconnects and crashes, but a resolve or a restart's Cautious.
* `WindowsHold`: likewise a window, once no task of its simulation carries a later tick or
  has decided on an older row, goes on until a heartbeat reports its tick, its simulation is
  rolled back again, or a restart, an escalation or a resolve writes for the whole system.
  (The last two say what the code keeps of promises it breaks; items 1 and 3 below are
  about the rest.)
* `RollbackStaysInItsSimulation`: rollback and window move one simulation's state.

Liveness (`live`): `CautiousClears`, `ConservationClears`: once a connection lasts and
its hello was persisted, both states end. A window needs one thing more
(`TicksStopGoingBack`): without it heartbeats may alternate between late ticks, whose
reads fail, and early ones, whose reads see a window that has not expired.

Governor: `HourlyLimit`, `DailyLimit` over every window, wherever it begins; `RidesRest`;
`AnswersAsTheHistorySays`. Pipeline: `ExecutesWhatTheLedgerHolds`,
`ResultsTellWhatHappened`, `JudgedAfterItsEffect`, `RollbackUndoesTheCommand`. Link:
`OneLifeline`, `HelloComesFirst`, `SnapshotsInOrder` (in what arrived, in the buffer after
it, and no gap among the newest), `LostIsNotResurrected`, `Reconnects`.

Watchdog: `CountsTurningPoints`, `InstabilityIsAnswered`, `OutagesAreNoticed`, and
`AlarmsTakeARestart`: with the shipped margins (a window shorter than five cooldowns, an
hourly limit below the minute's threshold: `MarginsAssumption`) one orchestrator process
can trip neither the rate check nor the oscillation check. They only ever see what
several processes did, each with an empty governor.

Bridge:

* `LinesSurviveChunks`: requests are handled in the order they were sent, none twice, and
  a break costs at most one line that did arrive: the one glued to the fragment it left.
* `ReplaysAreNoOps`: a request that comes when its key has a result does nothing, and is
  answered with a result that key had. (Which one, when two ran at once, depends on who
  came last.)
* `AnswersAreTrue`: no "ok" without an execution and no "error" without a refusal, of a
  request under the same key.
* `ObservedAsCommanded` (`RemotePark!Spec`): through numbers one way and strings the other,
  each command does to the next snapshots what it says and nothing else.
* `SteadyLinkAnswers`: unless the connection breaks, a request on its way is answered, if
  no fragment of an earlier connection is waiting for it.

Intake:

* `LedgerKeepsTheOrder`: the observations are in order of arrival, none twice although a
  lost answer repeats the insert, and what the channel took is in the table or waiting.
* `RuleFollowsTheStreaks`: the rule on its window proposes what the streaks of *all*
  snapshots read ask for, across reconnects and simulations, whatever persistence drops.
* `AcceptedIsPersisted`: a database that does not refuse for ever gets every job, unless
  the process dies or the worker is stuck at a job whose simulation has no row.

Every property has a *mutant*: a definition named in PROJECT.json, marked "Plausible
fault" in its module, that replaces the code's by what a likely mistake would make of it,
and which violates the property in the same instance.

### What the code does not keep

Four statements of the repository are refuted by runs that stop at a counterexample:

1. `manual` (`ManualStatesNeedAHuman`): "only a human running `orchestrator resolve`
   moves the system out of" Quarantine and Stopped (`safety_state.rs:52-54`), "the only way
   out of either, by design ... before the system resumes acting" (`main.rs:31-35`). A
   heartbeat task that read Cautious before the watchdog wrote inserts Normal after it, and
   the gate authorizes. There are three more ways: a restart writes Cautious over either
   state, and two heartbeats lead from there to Normal (`startup.rs:27`); a command sent
   while Normal fails after the escalation, and the rows of its rollback replace the manual
   state for its simulation (Rollback, Conservation, and Normal when the window expires);
   and whoever found an expired window before the escalation inserts its Normal after it.
2. `cool` (`CoolingOffIsKept`): "after an automatic rollback, no proposal is authorized for
   this many ticks" (`constitution-0.1.yaml:59-62`). A heartbeat task that read Cautious
   before the rollback inserts Normal into the window, and the gate authorizes. Two more
   ways: a restart writes Cautious over Conservation, and two heartbeats lead to Normal
   whatever tick the window ran to; and a rollback none of whose rows could be written has
   no window.
3. `stuck` (`RollbackIsMomentary`): Rollback is "momentary ... exited into `Conservation`
   right after" (`safety_state.rs:35-36`). If the restore fails, heartbeats, ticks and
   resolve leave it alone (resolve looks at the global row, which asks for no resolution);
   what ends it is a restart, an escalation and the resolve after it, or another rollback.
4. `outage` (`OutageStops`): "if the watchdog finds the database unreachable for longer
   than this, it enters SafetyState::Stopped" (`constitution-0.1.yaml:79-80`). The poll
   that ends the outage also forgets it, before `escalate`; if that fails, nothing
   tries again.

Five more have no run of their own. Some are the exception or the premise of a property that
holds:

* "Replaying the same idempotency_key returns the cached result instead of re-invoking
  either" (`commands.ts:4-6`; `DECISIONS.md:519-520`): a duplicate that arrives while the
  first is still awaited finds no cached result and is executed. `ReplaysAreNoOps` is
  about the later ones only. Nothing in the repository sends duplicates.
* "only a sustained outage past that capacity drops new submissions" (`DECISIONS.md`, on
  the persistence worker): if the row of a simulation could not be inserted, its first
  observation fails the foreign key for as long as no later hello succeeds; the worker
  stays with it, and the channel fills and drops with the database up. This is the third
  alternative of `AcceptedIsPersisted`.
* The watchdog "keeps working ... even if the orchestrator process it's watching is
  completely wedged or dead" (`bin/watchdog.rs:9-13`; `DECISIONS.md`, ADR-0006). A dead one
  refuses the connection; a wedged one may accept it and never answer, and `get_health`,
  awaited in every round before the database is looked at, has no timeout. `NeverWedged`
  says that this does not last and is the premise of `InstabilityIsAnswered`,
  `OutagesAreNoticed` and `OutageStops`.
* Recovery from Cautious takes "two clean heartbeat cycles ... on the new connection"
  (`safety_state.rs:24-26`; `state.rs:118-120`: "on its current connection"); no disconnect
  resets the counter, so heartbeats of several connections add up.
  `AuthorizationIsEarned` counts them over the life of the process, as the code does.
* "DB outage degrades, never blocks" (`db.rs:41-49`, on `ACQUIRE_TIMEOUT`): the timeout is
  for getting a connection. A query that hangs on an established one has none, and blocks
  the message loop. The models take a call that is awaited to return some time.

### Bounds

Two tasks are enough for two of them to race on the counter and on the ledger; a third
adds no new pair of steps. One command outstanding is enough to fail after an escalation;
two (`live`) let a second one fail into the window that the first opened, and find it
expired; for that step in `races`' properties the proofs stand in, which know no bound.
Ticks 0..1 with a window of one let a window expire and not expire; 0..2 (`live`)
let it be renewed later. Two heartbeats needed make
"one too few" different from none. Two simulations let the tasks of one outlive its
connection into the other's. The governor's day is two of its hours and the clock outlasts
the day, so every grant can leave either window; the hourly budget is below the daily one,
so each can be what refuses. Two proposals and two ticks let one key come again after a
restart, and two results overtake each other; two file labels let a file be overwritten.
Two sockets are enough because there is never more than one (`OneLifeline`); buffer and
inbox of two can be empty, full and overflow. The watchdog's cooldown and window of two
ticks let two actions of one process share a window, which is one too few to oscillate,
and a third of the next process lie between them, so that no order of ties is needed; tick
3 pushes tick 0 out of the window. One ride is enough because each is counted by itself.
Three requests under two keys let a replay meet its first while another key's is under
way, and one break leave a fragment for the next connection; there is a command of each of
the five kinds, to a ride that stands and with a price it has. Three snapshots overflow a
window of two and a channel of one behind a job being retried; the reports lie on both
sides of either threshold and of either price bound.

`Tasks`, `MaxTick`, `MaxOutstanding` (SafetyNet), `MaxNow`, `MaxTick` (Governor),
`MaxProposals`, `MaxTick`, `MaxQueue` (DecisionPipeline), `Sockets`, `MaxSnapshots`,
`MaxInbox`, `MaxBreaks` (BridgeLink), `MaxTick`, `MaxRows` (Watchdog), `MaxRequests`,
`MaxBreaks` (BridgeCommands), `MaxSnapshots` (Intake) are bounds of the models; the other constants are configuration of the program. Counters are kept below
their bounds by guards on the actions that would raise them. Tasks,
rides and, in `races`, simulations are symmetric; no run with a liveness property uses
symmetry.

### Fairness

`SafetyNet!FairSpec`: the runtime polls its tasks and the loop; a snapshot holds finitely
many proposals; a database call made again and again succeeds some time; a running game
gets to the latest tick. That a call which is awaited returns at all is part of this, and a
premise on the database: the code bounds only the wait for a pooled connection. Nothing is assumed of the watchdog, a human, a connection,
a restore or a crash; that a connection lasts is the premise of the property.
`BridgeLink!FairSpec`: timers fire, the engine delivers events, `createSocket` does not
throw for ever, the loop accepts and reads, the game sends heartbeats. That the
orchestrator stays up is the premise.
`Watchdog!FairSpec`: a query that is awaited, or made again and again, succeeds some time,
which is to say that outages end. There is no fairness of `GetHealth`, because nothing
bounds its wait; that the loop does not stay there (`NeverWedged`) is a premise of the
three properties. Nothing is assumed of the operator, of restarts
of the orchestrator or of the actions it records.
`BridgeCommands!FairSpec`: while a connection lasts the network delivers what was
written, and the game calls back for a query and an execution, after which a promise goes
on. A sender need not send and a connection may break.
`Intake!FairSpec`: the worker, which awaits nothing but the channel between two jobs, takes
the next one. Nothing is assumed of the loop, and of the database nothing but in the
property: that an insert tried again and again succeeds some time (`SF_vars(Apply)`) is a
premise of `AcceptedIsPersisted`.

## 4. What is proved

The theorems hold for all values of the constants that satisfy the assumptions each module
names, so with no bound on the number of simulations, tasks, rides, ticks, proposals,
sockets, snapshots, rows, requests or breaks. What is assumed of constants is:

* that numbers are numbers and that `NoSim`, `NoSocket`, `NoJob`, `None` stand for the
  absence of something and are none of the things that may be absent (`SimsAssumption`,
  `SocketsAssumption`, `IntakeAssumption`, `NoneAssumption`, `NoRideAssumption`);
* that Cautious needs a heartbeat at least, that an hour is no longer than a day, that
  DEGRADED does not come after LOST, and that the rule's streak fits in the window of
  snapshots (`NeededAssumption`, `WindowsAssumption`, `ThresholdsAssumption`,
  `RuleAssumption`), as the code's constants and the shipped configuration have it;
* the watchdog's margins, for the one theorem that is about them (`MarginsAssumption`);
* that requests and parks are values of their types (`CommandsAssumption`,
  `StartParksAssumption`).

Every safety invariant, every action property and both refinements that the passing runs
check have a theorem. The inductive invariants (`IInv` in each module) were first checked
by TLC on the instances of section 3; each of their conjuncts has one lemma that a step
preserves it, with one case per action.

`SafetyNetProofs`: `TypeCorrect`, `AuthorizationEarned`, `GateOvertaken`,
`EscalationsEscalate`, `ManualHolds`, `WindowHolds`, `RollbackIsolated`. The parts of `SafetyNet!IInv`
are what the properties silently rely on:

* `LifetimesInv`: pending maps are empty without a connection, tasks do not outlive
  their process;
* `UnearnedInv`: until it has earned Normal, a process sees only Cautious, Quarantine and
  Stopped, has no command out, and has no task about to write Normal. This is why nothing
  it does can lead to an authorization;
* `WatchdogInv`: the watchdog alone writes Quarantine and Stopped, and for everybody. So
  neither can slip under a write it has decided on, and a simulation in one of them is
  there because the whole system is;
* `HealInv`: a window that the loop decided to resolve is still expired when it writes,
  because only the loop itself opens windows;
* `BudgetInv`: room for the command in hand, needed for the types.

`GovernorProofs`: `TypeCorrect`, `HourlyLimitHolds`, `DailyLimitHolds`, `RidesRestHolds`,
`Refinement` (`Spec => AnswersAsTheHistorySays`). `Governor!IInv` says that grants are
numbered in order, that the vector contains every grant of the last day however rarely it
is pruned (`MemoryInv`), and that the one remembered tick per ride is the latest
(`LastTickInv`). Hence the vector filtered by a window is the history filtered by it
(`PruningIsExact`), the remembered tick decides the cooldown (`LatestTickIsEnough`), and
every check answers as the abstract one (`ChecksDecidePermission`). `WindowHolds` carries
a limit on the window that ends now to every window: a grant adds to windows that the
check just found below the limit.

`DecisionPipelineProofs`: `TypeCorrect`, `LedgerHoldsExecuted`, `ResultsTrue`,
`JudgedAfter`, `RollbackUndoes`. The invariant says where a command is. Until the engine
executes or refuses it, it is in exactly one place: in the loop's hand, on the wire, or
with one promise (`OnePlaceInv`), and has left no trace anywhere (`WaitingInv`); after
that, every row, answer and pending entry agrees with what was executed (`OutcomeInv`). On
the wire a snapshot behind a good result is one of a park that felt the command
(`OrderInv`), which carries `JudgedAfter` through both pending maps. `RollbackUndoes` rests
on the labels of snapshot rows, which ascend within and across processes, so that the file
of a row in use is never written again (`FilesInv`).

`BridgeLinkProofs`: `TypeCorrect`, `Lifeline`, `HelloFirst`, `InOrder`, `LostStays`. The
invariant puts the connections in the order in which they were established: the one being
served, the backlog, and last, if any, the one the bridge still holds (`EstablishedInv`).
The snapshots in them are in that same order: recorded, unread on the connection being
served, unread in each of the backlog, buffered (`AgeInv`). A reconnect appends to the
order, `accept` and a read move its front; nothing overtakes.

`WatchdogProofs`: `TypeCorrect`, `CountsRight`, `OneProcessIsQuiet`. `CountsRight` says
that the one pass of `count_reversals` counts the turning points of a price history of any
length; the pass and the reference are followed element by element. `OneProcessIsQuiet` is
arithmetic over rows: with `MaxReversals` + 1 turning points there are at least
`MaxReversals` + 3 actions of one ride, a cooldown apart each (`RestedInv`), which do not
fit in the window.

`IntakeProofs`: `TypeCorrect`, `LedgerInOrder`, `StreaksDecide`, `ProposalsModest`.
Numbers ascend through table, job and channel, and only the job being retried may be in
the table already (`OrderInv`); the window is the end of all that was read (`WindowInv`),
and since no streak the rule asks for is longer than the window, a streak in one is a
streak in the other. `ProposalsModest` says that a proposal moves the last price seen by
one step, never up over the highest price nor down under the lowest, one proposal per
ride. It does not say that proposals are within the price range: a price that is above the
range and falls by one step may still be above it, which is the governor's to refuse.

`BridgeCommandsProofs`: `TypeCorrect`, `LinesSurvive`, `ReplaysDoNothing`, `AnswersTrue`,
`NothingTakenBack`, `Refinement` (`Spec => ObservedAsCommanded`). Three arguments:

* *Framing.* Requests handled and pieces to come are in the order of sending (`InOrder`),
  the newline of a line follows its first half or, after it, the fragment (`Paired`), and
  the lines lost so far, with one more if the fragment will spoil the next line, are no
  more than the breaks (`Paid`). The three are preserved by *one piece* (`HalfStep`,
  `NewlineStep`); `ChunkFramed` carries them along a chunk of any length.
* *Results.* A step takes back no result and no execution (`Kept`, itself the theorem
  `NothingTakenBack`). So a result, wherever it is found, in a promise, in the cache or in
  an answer, was earned by some request of that key that was executed or refused as it
  says (`Tells`, `TruthInv`); a key whose request was answered has a result in the cache
  (`CacheInv`), which is why a replay has one to give (`ReplayInv`).
* *Refinement.* For each kind of command, what `toGameAction`, the engine's numbers and
  `buildObservationSnapshot` make of it together is what the protocol says of it
  (`PriceObeyed`, `StatusObeyed`, `HireObeyed`, `FeeObeyed`: for every park, every ride
  and every price). `Execute` is then that step of `RemotePark`, or a stutter where the
  engine refuses or has nothing to change; a request sent is `Ask`; all else stutters.

*Towards liveness.* Five theorems state what is safe of properties that say "eventually".
No run checks them: they were checked with
TLC on the instances of section 3 before they were proved.

* `IntakeProofs!PlaceKept`: a job the channel took is in the table after a step, or it
  waits with no more jobs ahead of it than before. Each job of lower number that leaves
  brings it nearer, and a fresh snapshot has a higher number (`FreshInv`), so
  `AcceptedIsPersisted` fails only where the worker itself stops.
* `WatchdogProofs!OutageNoticed`: the poll that ends an outage turns to it exactly if it
  lasted as long as the constitution allows. It needs `SinceInv`: the age kept in
  `db_unreachable_since` is that of the run of failed polls, neither too young nor left
  over from an earlier run.
* `BridgeLinkProofs!JoinedStays`: what `Reconnects` reaches is left only by a crash or the
  network. A second timer, or the callback of a socket given up, would break it; there is
  neither (`LifelineInv`).
* `BridgeCommandsProofs!CleanLinkLosesNothing` and `AnsweredOnce`, for `SteadyLinkAnswers`:
  if the fragment is empty or the half of the very next line (`Whole`), each line that is
  read is handled and the next is whole again, along a chunk of any length
  (`NextLineParses`, `ChunkFramed`); and no request is answered twice. `Whole` implies the
  property's `Clean`; that the two are the same in all reachable states was checked, not
  proved.

*Towards promises that are broken.* `SafetyNetProofs!ManualHolds` and `WindowHolds` say what
is kept of the two promises that `manual` and `cool` refute, for any number of tasks: once
what was begun before has ended, nothing that begins in the manual state, or in the window,
leads out of it early, short of a restart or, for a window, an escalation or a resolve.
What was begun before includes the loop itself: a rollback that reads Quarantine still
writes Rollback over it, and is excluded by the premise (`NothingInFlight`).

Recursion over data is reached without induction over data: the library's induction
theorems take an operator, which the provers here cannot instantiate, but a *set* of
numbers has a least element (`SequenceFacts!LeastFacts`), and a set that contains the
start, and with every number the next, contains all of them (`UpTo`, `Along`). With the
recursive functions `Split` and the count's pass written over positions, that is enough to
say what they do with every buffer and every price history.

What stays with TLC is liveness, which needs fairness and ENABLED: `CautiousClears`,
`ConservationClears`, `Reconnects`, `InstabilityIsAnswered`, `OutagesAreNoticed`,
`SteadyLinkAnswers`, `AcceptedIsPersisted`. The four statements of
section 3 that the code does not keep have counterexamples, not theorems.

## 5. What is not modelled

* Bytes: a line is two pieces in `BridgeCommands` and whole or lost everywhere else, where
  only its kind and its place in the order matter. The orchestrator's own framing
  (`BufReader::lines`, one reader per connection) and serialisation are left out, and so is
  what `protocol/types.ts` carries without anyone deciding by it: names, times, versions.
* `uuid.ts`: ids are unique because they are random; the models number messages.
* Promises of the bridge that reject: `index.ts:25` logs them and nothing is answered. The
  handler has no step that throws but the engine's own.
* `esbuild.config.mjs`, `fake-orchestrator.js` and the shell scripts: a build step, a
  printing stand-in, and the faults that the models have as actions.
* Ties and steps back of `created_at`: rows are ordered by insertion.
* A restart of the watchdog, which forgets an outage it was counting, and what /health
  answers, which it only logs (that it may not answer is `GetHealth`). `Watchdog` has one simulation: that the checks turn to a
  new one with its hello row is not modelled.
* The report, which only reads; manual `rollback --to`, which copies a file no running
  part reads and writes no safety-state row; configuration loading.
* Money: whether cash dropped is a free choice; prices matter only inside the
  governor, the rule and the park of `GamePark`.

## 6. Plan

1. *Core* (done): `SafetyStates`, `SafetyNet`, `RateLimits`, `Governor`,
   `DecisionPipeline`, `BridgeLink`, `Watchdog`, with the runs above and both proof
   modules.
2. *Breadth* (done): the path of a snapshot through persistence and rule (`OperatorRule`,
   `Intake`); the bridge as executor and observer (`Protocol`, `GamePark`, `RemotePark`,
   `BridgeCommands`).
3. *Proof* (done): an inductive invariant for every module with state, the properties
   that follow from it, and both refinements, step by step (section 4).
4. *Steps towards liveness* (done for four of the seven liveness properties, section 4):
   that no step undoes the progress made. For `CautiousClears` and `ConservationClears`
   this would be that a heartbeat count falls only with a reset a task has decided on
   before the state changed, which needs a history of what each task read.
5. *Ledger* (open): `TransitionLedger`, the append-only rows with both queries and with ties
   of `created_at`, of which `SafetyNet`'s `global` and `view` are the refinement.
