-------------------------- MODULE DecisionPipeline --------------------------
(***************************************************************************)
(* One decision from proposal to outcome: handle_proposal and the results  *)
(* it waits for (core/orchestrator/src/tcp_server.rs), the ledger rows it   *)
(* writes (db.rs), the park files it may restore (snapshot.rs), and the    *)
(* bridge that executes (bridge/openrct2-plugin/src/commands.ts and        *)
(* connection.ts), over a connection that breaks and an orchestrator that  *)
(* crashes between any two steps.                                          *)
(*                                                                         *)
(* One simulation.  Proposals are numbered; the number stands for the      *)
(* proposal, authorization and action rows made for it and for the         *)
(* message that carries it.  The safety state and the budgets answer as    *)
(* they like: SafetyNet and Governor say what they really answer.          *)
(***************************************************************************)
EXTENDS Integers, Sequences, SequencesExt

CONSTANTS
  Rides,
  MaxProposals,   \* proposals over the whole run (bound)
  MaxTick,        \* ticks are 0..MaxTick (bound)
  MaxQueue,       \* observations on the wire at once (bound)
  MaxBuffered,    \* maxBufferedSnapshots of the bridge
  Cooldown,       \* per_ride_cooldown_ticks
  SnapshotMaxAge  \* snapshot_max_age_ticks

ASSUME BoundsAssumption ==
  /\ MaxProposals \in Nat /\ MaxTick \in Nat /\ MaxQueue \in Nat /\ MaxBuffered \in Nat
ASSUME ConstitutionAssumption == Cooldown \in Nat /\ SnapshotMaxAge \in Nat

VARIABLES
  \* The ledger, and the checkpoint directory.
  proposals,       \* sequence of [ride, tick]; the position is the number
  authorizations,  \* per proposal number: "none", "rejected" or "authorized"
  actions,         \* numbers of the proposals with an actions row
  results,         \* per number: "none", "ok" or "error"
  snapshots,       \* sequence of tick labels, each also a file name
  files,           \* per label, the commands executed in the park saved there
  \* The orchestrator.
  main,            \* where its connection loop stands
  todo,            \* rides left to propose for in this snapshot
  snap,            \* snapshot_id of the proposal in hand
  tick,            \* world.tick()
  last_tick,       \* per_ride_last_authorized_tick
  pending_actions,        \* [id, snap] of commands awaiting their result
  pending_verifications,  \* [id, snap] of results awaiting a snapshot
  unverified,      \* those of them this snapshot has yet to check
  seen,            \* commands executed in the park of the last snapshot
  \* The wire.
  link,            \* "up", or "down", or "eof": down and not yet noticed
  toBridge,        \* numbers of the command.requests in flight
  toOrch,          \* messages from the bridge in flight
  \* The bridge and its engine.
  buffered,        \* snapshots waiting for a connection
  clock,           \* the engine's tick
  handling,        \* [id, phase, ok] of each running handleCommandRequest
  cache,           \* idempotencyCache, per key
  executed,        \* commands executeAction has carried out, in order
  autosave,        \* what the newest autosave holds, or NoSave
  \* History.
  restored         \* [id, park] of every restore caused by command id

ledger == <<proposals, authorizations, actions, results>>
parks  == <<snapshots, files, restored>>
memory == <<tick, last_tick, pending_actions, pending_verifications, unverified, seen>>
hand   == <<todo, snap>>
wire   == <<link, toBridge, toOrch>>
bridge == <<buffered, clock, handling, cache, executed, autosave>>
vars == <<proposals, authorizations, actions, results, snapshots, files, main, todo, snap,
          tick, last_tick, pending_actions, pending_verifications, unverified, seen, link,
          toBridge, toOrch, buffered, clock, handling, cache, executed, autosave, restored>>

Ids == 1..MaxProposals
Ticks == 0..MaxTick
Key == [ride : Rides, tick : Ticks]
Never == -1
NoSave == {0}
NoSnap == 0
Park == SUBSET Ids
MainPC == {"down", "accept", "idle", "verify", "propose", "gate", "snapshot", "authorize",
           "record", "refuse", "action", "send"}
Pending == [id : Ids, snap : 1..(MaxTick + 1)]
Message == [kind : {"heartbeat"}, tick : Ticks]
           \cup [kind : {"snapshot"}, park : Park]
           \cup [kind : {"result"}, id : Ids, ok : BOOLEAN]
Handling == [id : Ids, phase : {"query", "execute", "reply"}, ok : BOOLEAN]

TypeOK ==
  /\ proposals \in Seq(Key) /\ Len(proposals) <= MaxProposals
  /\ authorizations \in [Ids -> {"none", "rejected", "authorized"}]
  /\ actions \subseteq Ids
  /\ results \in [Ids -> {"none", "ok", "error"}]
  /\ snapshots \in Seq(Ticks)
  /\ files \in [Ticks -> Park]
  /\ main \in MainPC
  /\ todo \subseteq Rides
  /\ snap \in {NoSnap} \cup DOMAIN snapshots
  /\ tick \in Ticks
  /\ last_tick \in [Rides -> Ticks \cup {Never}]
  /\ pending_actions \subseteq Pending
  /\ pending_verifications \subseteq Pending
  /\ unverified \subseteq Pending
  /\ seen \in Park
  /\ link \in {"up", "down", "eof"}
  /\ toBridge \in Seq(Ids)
  /\ toOrch \in Seq(Message)
  /\ buffered \in Seq(Park) /\ Len(buffered) <= MaxBuffered
  /\ clock \in Ticks
  /\ handling \subseteq Handling
  /\ cache \in [Key -> {"none", "ok", "error"}]
  /\ executed \in Seq(Ids)
  /\ autosave \in Park \cup {NoSave}
  /\ restored \subseteq [id : Ids, park : Park]

Init ==
  /\ proposals = <<>>
  /\ authorizations = [i \in Ids |-> "none"]
  /\ actions = {}
  /\ results = [i \in Ids |-> "none"]
  /\ snapshots = <<>>
  /\ files = [t \in Ticks |-> {}]
  /\ main = "accept"
  /\ todo = {}
  /\ snap = NoSnap
  /\ tick = 0
  /\ last_tick = [r \in Rides |-> Never]
  /\ pending_actions = {}
  /\ pending_verifications = {}
  /\ unverified = {}
  /\ seen = {}
  /\ link = "down"
  /\ toBridge = <<>>
  /\ toOrch = <<>>
  /\ buffered = <<>>
  /\ clock = 0
  /\ handling = {}
  /\ cache = [k \in Key |-> "none"]
  /\ executed = <<>>
  /\ autosave = NoSave
  /\ restored = {}

-----------------------------------------------------------------------------
(***************************************************************************)
(* The wire.  A broken connection loses the requests in flight and any     *)
(* tail of what the bridge sent; the orchestrator reads the rest, then     *)
(* sees the end and drops both pending maps.  The bridge may reconnect     *)
(* before that: what it then sends waits in the listener's backlog, and    *)
(* Connect is the moment the orchestrator accepts it.                      *)
(***************************************************************************)
Push(msg) == toOrch' = IF link = "up" THEN Append(toOrch, msg) ELSE toOrch

Connect ==
  /\ main = "accept"
  /\ link = "down"
  /\ main' = "idle"
  /\ link' = "up"
  /\ toOrch' = [i \in DOMAIN buffered |-> [kind |-> "snapshot", park |-> buffered[i]]]
  /\ buffered' = <<>>
  /\ UNCHANGED <<ledger, parks, hand, memory, toBridge, clock, handling, cache, executed,
                 autosave>>

Break ==
  /\ link = "up"
  /\ link' = "eof"
  /\ toBridge' = <<>>
  /\ \E n \in 0..Len(toOrch) : toOrch' = SubSeq(toOrch, 1, n)
  /\ UNCHANGED <<ledger, parks, main, hand, memory, bridge>>

EndOfConnection ==
  /\ main = "idle"
  /\ link = "eof"
  /\ toOrch = <<>>
  /\ main' = "accept"
  /\ link' = "down"
  /\ pending_actions' = {}
  /\ pending_verifications' = {}
  /\ UNCHANGED <<ledger, parks, hand, tick, last_tick, unverified, seen, toBridge, toOrch,
                 bridge>>

\* The orchestrator dies; the governor, the world model and both maps with it.
Crash ==
  /\ main # "down"
  /\ main' = "down"
  /\ todo' = {}
  /\ snap' = NoSnap
  /\ tick' = 0
  /\ last_tick' = [r \in Rides |-> Never]
  /\ pending_actions' = {}
  /\ pending_verifications' = {}
  /\ unverified' = {}
  /\ seen' = {}
  /\ link' = "down"
  /\ toBridge' = <<>>
  /\ toOrch' = <<>>
  /\ UNCHANGED <<ledger, parks, bridge>>

Restart ==
  /\ main = "down"
  /\ main' = "accept"
  /\ UNCHANGED <<ledger, parks, hand, memory, wire, bridge>>

-----------------------------------------------------------------------------
(***************************************************************************)
(* Automatic rollback: the file of the snapshot that the command was sent  *)
(* under is copied over the current park, and a rollbacks row written.     *)
(***************************************************************************)

\* Plausible fault: restoring the latest snapshot, not the command's own.
RestoreLatest(p, copied) ==
  restored' = IF copied
                THEN restored \cup {[id |-> p.id, park |-> files[Last(snapshots)]]}
                ELSE restored

Restore(p, copied) ==
  restored' = IF copied
                THEN restored \cup {[id |-> p.id, park |-> files[snapshots[p.snap]]]}
                ELSE restored

-----------------------------------------------------------------------------
(***************************************************************************)
(* The connection loop: one message at a time, in order.                   *)
(***************************************************************************)
Receive(kind) == main = "idle" /\ toOrch # <<>> /\ Head(toOrch).kind = kind

HeartbeatReceived ==
  /\ Receive("heartbeat")
  /\ tick' = Head(toOrch).tick
  /\ toOrch' = Tail(toOrch)
  /\ UNCHANGED <<ledger, parks, main, hand, last_tick, pending_actions,
                 pending_verifications, unverified, seen, link, toBridge, bridge>>

\* A snapshot: the world model takes it, the pending verifications are
\* drained, and the rule chooses the rides to propose for.
SnapshotReceived ==
  /\ Receive("snapshot")
  /\ main' = "verify"
  /\ seen' = Head(toOrch).park
  /\ toOrch' = Tail(toOrch)
  /\ unverified' = pending_verifications
  /\ pending_verifications' = {}
  /\ UNCHANGED <<ledger, parks, hand, tick, last_tick, pending_actions, link, toBridge, bridge>>

\* One drained verification; a cash drop restores the command's snapshot.
Verify(p, dropped, copied) ==
  /\ main = "verify"
  /\ p \in unverified
  /\ unverified' = unverified \ {p}
  /\ IF dropped THEN Restore(p, copied) ELSE UNCHANGED restored
  /\ UNCHANGED <<ledger, snapshots, files, main, hand, tick, last_tick, pending_actions,
                 pending_verifications, seen, wire, bridge>>

StartProposing(rides) ==
  /\ main = "verify"
  /\ unverified = {}
  /\ main' = "propose"
  /\ todo' = rides
  /\ UNCHANGED <<ledger, parks, snap, memory, wire, bridge>>

\* Plausible fault: results taken in the order the commands were sent.
ResultOfOldest(id) ==
  CHOOSE p \in pending_actions : \A q \in pending_actions : p.id <= q.id

\* The pending action a command.result's correlation_id names.
Correlated(id) == CHOOSE p \in pending_actions : p.id = id

UnknownResult ==
  /\ Receive("result")
  /\ \A p \in pending_actions : p.id # Head(toOrch).id
  /\ toOrch' = Tail(toOrch)
  /\ UNCHANGED <<ledger, parks, main, hand, memory, link, toBridge, bridge>>

\* The result row; without it, neither a rollback nor a verification.
ResultReceived(persisted, copied) ==
  LET msg == Head(toOrch)
      p   == Correlated(msg.id)
  IN
  /\ Receive("result")
  /\ \E q \in pending_actions : q.id = msg.id
  /\ toOrch' = Tail(toOrch)
  /\ pending_actions' = pending_actions \ {p}
  /\ results' = IF persisted
                  THEN [results EXCEPT ![p.id] = IF msg.ok THEN "ok" ELSE "error"]
                  ELSE results
  /\ pending_verifications' =
       IF persisted /\ msg.ok THEN pending_verifications \cup {p} ELSE pending_verifications
  /\ IF persisted /\ ~msg.ok THEN Restore(p, copied) ELSE UNCHANGED restored
  /\ UNCHANGED <<proposals, authorizations, actions, snapshots, files, main, hand, tick,
                 last_tick, unverified, seen, link, toBridge, bridge>>

-----------------------------------------------------------------------------
(***************************************************************************)
(* handle_proposal, for one ride after another.                            *)
(***************************************************************************)
Current == Len(proposals)
SaturatingSub(a, b) == IF a > b THEN a - b ELSE 0
IdempotencyKey(id) == proposals[id]

Propose(ride, ok) ==
  /\ main = "propose"
  /\ ride \in todo
  /\ Current < MaxProposals
  /\ todo' = todo \ {ride}
  /\ proposals' = IF ok THEN Append(proposals, [ride |-> ride, tick |-> tick]) ELSE proposals
  /\ main' = IF ok THEN "gate" ELSE "propose"
  /\ UNCHANGED <<authorizations, actions, results, parks, snap, memory, wire, bridge>>

DoneProposing ==
  /\ main = "propose"
  /\ todo = {} \/ Current = MaxProposals
  /\ main' = "idle"
  /\ todo' = {}
  /\ UNCHANGED <<ledger, parks, snap, memory, wire, bridge>>

\* current_safety_state: unreadable, open, or closed.
Gate(answer) ==
  /\ main = "gate"
  /\ main' = CASE answer = "open" -> "snapshot"
               [] answer = "closed" -> "refuse"
               [] answer = "unreadable" -> "propose"
  /\ UNCHANGED <<ledger, parks, hand, memory, wire, bridge>>

\* A rejected authorization, by the gate or for want of a snapshot.
Refuse(ok) ==
  /\ main = "refuse"
  /\ main' = "propose"
  /\ authorizations' = IF ok THEN [authorizations EXCEPT ![Current] = "rejected"]
                             ELSE authorizations
  /\ UNCHANGED <<proposals, actions, results, parks, hand, memory, wire, bridge>>

\* The latest snapshot row is young enough to roll back to.
Recent ==
  /\ snapshots # <<>>
  /\ SaturatingSub(tick, Last(snapshots)) <= SnapshotMaxAge

ReuseSnapshot ==
  /\ main = "snapshot"
  /\ Recent
  /\ snap' = Len(snapshots)
  /\ main' = "authorize"
  /\ UNCHANGED <<ledger, parks, todo, memory, wire, bridge>>

\* snapshot.sh copies the newest autosave to the file named after the tick;
\* then the row is inserted.
TakeSnapshot(ok) ==
  /\ main = "snapshot"
  /\ ~Recent
  /\ autosave # NoSave
  /\ files' = [files EXCEPT ![tick] = autosave]
  /\ IF ok
       THEN /\ snapshots' = Append(snapshots, tick)
            /\ snap' = Len(snapshots')
            /\ main' = "authorize"
       ELSE main' = "refuse" /\ UNCHANGED <<snapshots, snap>>
  /\ UNCHANGED <<ledger, restored, todo, memory, wire, bridge>>

\* The latest row cannot be read, or the script fails or finds no autosave.
NoSnapshot ==
  /\ main = "snapshot"
  /\ main' = "refuse"
  /\ UNCHANGED <<ledger, parks, hand, memory, wire, bridge>>

Cooled(ride) ==
  last_tick[ride] = Never \/ SaturatingSub(tick, last_tick[ride]) >= Cooldown

\* Governor::authorize, which commits the cooldown as it grants; `spent` is
\* its confidence, price and budget checks.
Authorize(spent) ==
  LET ride == proposals[Current].ride
      granted == Cooled(ride) /\ ~spent
  IN
  /\ main = "authorize"
  /\ last_tick' = IF granted THEN [last_tick EXCEPT ![ride] = tick] ELSE last_tick
  /\ main' = IF granted THEN "record" ELSE "refuse"
  /\ UNCHANGED <<ledger, parks, hand, tick, pending_actions, pending_verifications,
                 unverified, seen, wire, bridge>>

RecordAuthorization(ok) ==
  /\ main = "record"
  /\ main' = IF ok THEN "action" ELSE "propose"
  /\ authorizations' = IF ok THEN [authorizations EXCEPT ![Current] = "authorized"]
                             ELSE authorizations
  /\ UNCHANGED <<proposals, actions, results, parks, hand, memory, wire, bridge>>

\* Plausible fault: a duplicate key is not refused.
KeyIsAnybodys == TRUE

\* actions.idempotency_key is UNIQUE.
KeyIsFree == \A i \in actions : IdempotencyKey(i) # IdempotencyKey(Current)

\* The actions row; without it the command is not sent.
RecordAction(ok) ==
  /\ main = "action"
  /\ IF ok /\ KeyIsFree
       THEN actions' = actions \cup {Current} /\ main' = "send"
       ELSE main' = "propose" /\ UNCHANGED actions
  /\ UNCHANGED <<proposals, authorizations, results, parks, hand, memory, wire, bridge>>

\* Plausible fault: a written command is verified from the start.
SendUnawaited(ok) ==
  /\ main = "send"
  /\ main' = "propose"
  /\ IF ok
       THEN /\ pending_actions' = pending_actions \cup {[id |-> Current, snap |-> snap]}
            /\ pending_verifications' =
                 pending_verifications \cup {[id |-> Current, snap |-> snap]}
            /\ toBridge' = IF link = "up" THEN Append(toBridge, Current) ELSE toBridge
       ELSE UNCHANGED <<pending_actions, pending_verifications, toBridge>>
  /\ UNCHANGED <<ledger, parks, hand, tick, last_tick, unverified, seen, link, toOrch, bridge>>

\* The write; on a connection already broken it may seem to succeed.
Send(ok) ==
  /\ main = "send"
  /\ main' = "propose"
  /\ IF ok
       THEN /\ pending_actions' = pending_actions \cup {[id |-> Current, snap |-> snap]}
            /\ toBridge' = IF link = "up" THEN Append(toBridge, Current) ELSE toBridge
       ELSE UNCHANGED <<pending_actions, toBridge>>
  /\ UNCHANGED <<ledger, parks, hand, tick, last_tick, pending_verifications, unverified,
                 seen, link, toOrch, bridge>>

-----------------------------------------------------------------------------
(***************************************************************************)
(* The bridge.  Ticks advance while the engine runs; each command.request  *)
(* is handled by a promise of its own.                                     *)
(***************************************************************************)
Replace(old, new) == handling' = (handling \ {old}) \cup {new}

\* The game goes on, and reports it if connected.
EngineTick ==
  /\ clock < MaxTick
  /\ Len(toOrch) < MaxQueue
  /\ clock' = clock + 1
  /\ Push([kind |-> "heartbeat", tick |-> clock'])
  /\ UNCHANGED <<ledger, parks, main, hand, memory, link, toBridge, buffered, handling,
                 cache, executed, autosave>>

\* Plausible fault: nothing gives way.
SendSnapshotKeepsAll ==
  LET park == ToSet(executed) IN
  /\ Len(toOrch) < MaxQueue
  /\ Push([kind |-> "snapshot", park |-> park])
  /\ buffered' = IF link = "up" THEN buffered ELSE Append(buffered, park)
  /\ UNCHANGED <<ledger, parks, main, hand, memory, link, toBridge, clock, handling, cache,
                 executed, autosave>>

\* sendSnapshot; without a connection the oldest buffered ones give way.
SendSnapshot ==
  LET park == ToSet(executed)
      line == Append(buffered, park)
  IN
  /\ Len(toOrch) < MaxQueue
  /\ Push([kind |-> "snapshot", park |-> park])
  /\ buffered' = IF link = "up" THEN buffered
                 ELSE IF Len(line) > MaxBuffered THEN Tail(line)
                 ELSE line
  /\ UNCHANGED <<ledger, parks, main, hand, memory, link, toBridge, clock, handling, cache,
                 executed, autosave>>

Autosave ==
  /\ autosave' = ToSet(executed)
  /\ UNCHANGED <<ledger, parks, main, hand, memory, wire, buffered, clock, handling, cache,
                 executed>>

\* handleCommandRequest up to its first await: a known key is answered from
\* the cache, any other is queried.
HandleRequest ==
  LET id == Head(toBridge)
      known == cache[IdempotencyKey(id)]
  IN
  /\ toBridge # <<>>
  /\ toBridge' = Tail(toBridge)
  /\ handling' = handling \cup
       {IF known = "none" THEN [id |-> id, phase |-> "query", ok |-> TRUE]
        ELSE [id |-> id, phase |-> "reply", ok |-> known = "ok"]}
  /\ UNCHANGED <<ledger, parks, main, hand, memory, link, toOrch, buffered, clock, cache,
                 executed, autosave>>

QueryAction(h, ok) ==
  /\ h \in handling /\ h.phase = "query"
  /\ IF ok
       THEN Replace(h, [h EXCEPT !.phase = "execute"]) /\ UNCHANGED cache
       ELSE /\ Replace(h, [h EXCEPT !.phase = "reply", !.ok = FALSE])
            /\ cache' = [cache EXCEPT ![IdempotencyKey(h.id)] = "error"]
  /\ UNCHANGED <<ledger, parks, main, hand, memory, wire, buffered, clock, executed, autosave>>

ExecuteAction(h, ok) ==
  /\ h \in handling /\ h.phase = "execute"
  /\ Replace(h, [h EXCEPT !.phase = "reply", !.ok = ok])
  /\ cache' = [cache EXCEPT ![IdempotencyKey(h.id)] = IF ok THEN "ok" ELSE "error"]
  /\ executed' = IF ok THEN Append(executed, h.id) ELSE executed
  /\ UNCHANGED <<ledger, parks, main, hand, memory, wire, buffered, clock, autosave>>

\* sendCommandResult, on whatever connection there is by then.
SendCommandResult(h) ==
  /\ h \in handling /\ h.phase = "reply"
  /\ handling' = handling \ {h}
  /\ Push([kind |-> "result", id |-> h.id, ok |-> h.ok])
  /\ UNCHANGED <<ledger, parks, main, hand, memory, link, toBridge, buffered, clock, cache,
                 executed, autosave>>

-----------------------------------------------------------------------------
Wire == Connect \/ Break \/ EndOfConnection \/ Crash \/ Restart

Receives ==
  \/ HeartbeatReceived
  \/ SnapshotReceived
  \/ \E p \in unverified, dropped, copied \in BOOLEAN : Verify(p, dropped, copied)
  \/ \E rides \in SUBSET Rides : StartProposing(rides)
  \/ UnknownResult
  \/ \E persisted, copied \in BOOLEAN : ResultReceived(persisted, copied)

HandleProposal ==
  \/ \E ride \in Rides, ok \in BOOLEAN : Propose(ride, ok)
  \/ DoneProposing
  \/ \E answer \in {"open", "closed", "unreadable"} : Gate(answer)
  \/ \E ok \in BOOLEAN : Refuse(ok)
  \/ ReuseSnapshot
  \/ \E ok \in BOOLEAN : TakeSnapshot(ok)
  \/ NoSnapshot
  \/ \E spent \in BOOLEAN : Authorize(spent)
  \/ \E ok \in BOOLEAN : RecordAuthorization(ok) \/ RecordAction(ok) \/ Send(ok)

Bridge ==
  \/ EngineTick
  \/ SendSnapshot
  \/ Autosave
  \/ HandleRequest
  \/ \E h \in handling, ok \in BOOLEAN : QueryAction(h, ok) \/ ExecuteAction(h, ok)
  \/ \E h \in handling : SendCommandResult(h)

Next == Wire \/ Receives \/ HandleProposal \/ Bridge

Spec == Init /\ [][Next]_vars

-----------------------------------------------------------------------------
\* The engine executes nothing that the ledger does not hold as an action of
\* an authorized proposal, and no key twice: also across a restart, which
\* forgets the cooldown and starts the tick over.
ExecutesWhatTheLedgerHolds ==
  /\ \A i \in ToSet(executed) : i \in actions /\ authorizations[i] = "authorized"
  /\ \A m, n \in DOMAIN executed :
       m # n => IdempotencyKey(executed[m]) # IdempotencyKey(executed[n])

\* A result row says what happened to its own command, whatever order results
\* come in and whatever connection they come on; and nothing follows from a
\* result, neither a verification nor a rollback, that has no row.
ResultsTellWhatHappened ==
  \A i \in Ids :
    /\ results[i] = "ok" => i \in ToSet(executed)
    /\ results[i] = "error" => i \notin ToSet(executed)
    /\ (\E p \in pending_verifications \cup unverified : p.id = i) => results[i] = "ok"
    /\ (\E r \in restored : r.id = i) => results[i] # "none"

\* A command's effect is judged on a snapshot of a park that has felt it.
JudgedAfterItsEffect ==
  main = "verify" => \A p \in unverified : p.id \in seen

\* An automatic rollback restores a park saved before the command it answers.
RollbackUndoesTheCommand == \A r \in restored : r.id \notin r.park

-----------------------------------------------------------------------------
(***************************************************************************)
(* The inductive invariant: where each command is, from the row that       *)
(* makes it an action to the result that answers it, and what each park    *)
(* file holds.                                                             *)
(***************************************************************************)

\* i is an action that the engine may still be asked to execute.
Awaits(i) ==
  \/ main = "send" /\ i = Current
  \/ i \in ToSet(toBridge)
  \/ \E h \in handling : h.id = i /\ h.phase # "reply"

Results == {m \in ToSet(toOrch) : m.kind = "result"}
Snapshots == {m \in ToSet(toOrch) : m.kind = "snapshot"}

\* Actions are authorized proposals of different keys; the proposal in hand
\* is one from its row until its request is written, and not before.
LedgerInv ==
  /\ \A i \in actions : i <= Current /\ authorizations[i] = "authorized"
  /\ \A i, j \in actions : i # j => IdempotencyKey(i) # IdempotencyKey(j)
  /\ main \in {"gate", "snapshot", "authorize", "record", "refuse", "action"} =>
       Current >= 1 /\ Current \notin actions
  /\ main = "action" => authorizations[Current] = "authorized"
  /\ main = "send" => Current \in actions

\* A request is written, in flight, or handled once.
OnePlaceInv ==
  /\ ToSet(toBridge) \subseteq actions
  /\ \A m, n \in DOMAIN toBridge : m # n => toBridge[m] # toBridge[n]
  /\ \A h \in handling : h.id \in actions /\ h.id \notin ToSet(toBridge)
  /\ \A g, h \in handling : g.id = h.id => g = h
  /\ main = "send" =>
       Current \notin ToSet(toBridge) /\ \A h \in handling : h.id # Current

\* What the engine has yet to execute has left no trace.
WaitingInv ==
  \A i \in actions : Awaits(i) =>
    /\ i \notin ToSet(executed)
    /\ results[i] = "none"
    /\ \A m \in Results : m.id # i
    /\ cache[IdempotencyKey(i)] = "none"

\* Every trace is an action's, and every answer says whether it was executed.
OutcomeInv ==
  /\ ToSet(executed) \subseteq actions
  /\ \A m, n \in DOMAIN executed : m # n => executed[m] # executed[n]
  /\ \A k \in Key : cache[k] # "none" => \E i \in actions : IdempotencyKey(i) = k
  /\ \A h \in handling : h.phase = "reply" => (h.ok <=> h.id \in ToSet(executed))
  /\ \A m \in Results : m.id \in actions /\ (m.ok <=> m.id \in ToSet(executed))
  /\ \A i \in Ids : results[i] # "none" =>
       i \in actions /\ (results[i] = "ok" <=> i \in ToSet(executed))
  /\ \A p \in pending_verifications \cup unverified : results[p.id] = "ok"
  /\ \A r \in restored : results[r.id] # "none"

\* A snapshot behind a good result is one of a park that felt the command.
OrderInv ==
  /\ main \in {"down", "accept"} => pending_verifications = {}
  /\ \A m, n \in DOMAIN toOrch :
       (/\ m < n
        /\ toOrch[m].kind = "result" /\ toOrch[m].ok
        /\ toOrch[n].kind = "snapshot") => toOrch[m].id \in toOrch[n].park
  /\ \A p \in pending_verifications, m \in Snapshots : p.id \in m.park
  /\ main = "verify" => \A p \in unverified : p.id \in seen

\* The rows' labels ascend, so that no row's file is written again; a file
\* holds only what was executed, and a command's own file not that command.
FilesInv ==
  /\ \A n \in DOMAIN snapshots : snapshots[n] >= n - 1
  /\ \A m, n \in DOMAIN snapshots : m < n => snapshots[m] < snapshots[n]
  /\ \A t \in Ticks : files[t] \subseteq ToSet(executed)
  /\ autosave # NoSave => autosave \subseteq ToSet(executed)
  /\ main \in {"authorize", "record", "action", "send"} => snap \in DOMAIN snapshots
  /\ \A p \in pending_actions \cup pending_verifications \cup unverified :
       p.snap \in DOMAIN snapshots /\ p.id \notin files[snapshots[p.snap]]
  /\ \A r \in restored : r.id \notin r.park

IInv ==
  /\ TypeOK
  /\ LedgerInv
  /\ OnePlaceInv
  /\ WaitingInv
  /\ OutcomeInv
  /\ OrderInv
  /\ FilesInv
=============================================================================
