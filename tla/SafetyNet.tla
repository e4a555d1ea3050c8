------------------------------ MODULE SafetyNet ------------------------------
(***************************************************************************)
(* Every writer of the safety-state ledger, interleaved: the orchestrator's *)
(* startup and connection loop (startup.rs, tcp_server.rs), the heartbeat  *)
(* tasks that loop spawns (recover_from_cautious_on_clean_heartbeat), the  *)
(* watchdog process (bin/watchdog.rs) and `orchestrator resolve` (main.rs). *)
(*                                                                         *)
(* Each database call is one atomic step that succeeds or fails; whatever  *)
(* another process does may fall between two of them.  The code between    *)
(* two awaits is part of the step that ends at the second one.             *)
(*                                                                         *)
(* The ledger is held as the rows its two queries select: `global`, the    *)
(* latest row without a simulation, and view[s], the latest row that is    *)
(* for s or for no simulation.  Global rows never carry an expiry.         *)
(***************************************************************************)
EXTENDS SafetyStates

CONSTANTS
  Sims,               \* simulation ids: one per load of the bridge plugin
  Tasks,              \* heartbeat tasks that may be alive at once (bound)
  MaxTick,            \* ticks a bridge reports are 0..MaxTick (bound)
  ConservationTicks,  \* constitution.conservation_ticks
  NeededHeartbeats,   \* constitution.cautious_recovery_heartbeats
  MaxOutstanding,     \* commands sent and not yet verified (bound)
  NoSim               \* no bridge is connected

ASSUME SimsAssumption == NoSim \notin Sims
ASSUME TickAssumption == MaxTick \in Nat /\ ConservationTicks \in Nat
ASSUME NeededAssumption == NeededHeartbeats \in Nat \ {0}
ASSUME OutstandingAssumption == MaxOutstanding \in Nat \ {0}

VARIABLES
  global,       \* latest state_transitions row with simulation_id NULL
  view,         \* per simulation, the row current_safety_state selects
  registered,   \* simulations with a row in the simulations table
  main,         \* where the orchestrator's startup or connection loop stands
  after,        \* where a rollback returns to: "idle" or "verify"
  conn,         \* simulation of the open connection, or NoSim
  tick,         \* world.tick(), 0 before the first heartbeat
  count,        \* clean_heartbeats_since_cautious, up to NeededHeartbeats
  outstanding,  \* size of pending_actions
  verifying,    \* size of pending_verifications
  hb,           \* the spawned heartbeat tasks
  wd,           \* what the watchdog is about to write, or "watching"
  cli,          \* whether `orchestrator resolve` is about to write
  heard,        \* history: heartbeats counted by this orchestrator process
  resolved      \* history: a resolve wrote Normal since the process started

ledger  == <<global, view, registered>>
pending == <<outstanding, verifying>>
history == <<heard, resolved>>
others  == <<hb, wd, cli>>
vars == <<global, view, registered, main, after, conn, tick, count, outstanding,
          verifying, hb, wd, cli, heard, resolved>>

MainPC == {"down", "reconcile", "accept", "hello", "idle", "verify", "propose",
           "gate", "gate_heal", "authorized", "rb_read", "rb_heal", "rb_enter",
           "rb_restore", "rb_conserve"}
TaskPC == {"free", "read", "heal", "reset", "count", "insert"}

Task == [pc : TaskPC, sim : Sims \cup {NoSim}, tick : 0..MaxTick]
FreeTask == [pc |-> "free", sim |-> NoSim, tick |-> 0]

TypeOK ==
  /\ global \in SafetyState
  /\ view \in [Sims -> Row]
  /\ registered \subseteq Sims
  /\ main \in MainPC
  /\ after \in {"idle", "verify"}
  /\ conn \in Sims \cup {NoSim}
  /\ tick \in 0..MaxTick
  /\ count \in 0..NeededHeartbeats
  /\ outstanding \in 0..MaxOutstanding
  /\ verifying \in 0..MaxOutstanding
  /\ hb \in [Tasks -> Task]
  /\ wd \in {"watching", "quarantine", "stopped"}
  /\ cli \in {"idle", "insert"}
  /\ heard \in 0..NeededHeartbeats
  /\ resolved \in BOOLEAN

\* The ledger is empty: every query finds no row and answers Normal.
Init ==
  /\ global = "normal"
  /\ view = [s \in Sims |-> Unexpiring("normal")]
  /\ registered = {}
  /\ main = "down"
  /\ after = "idle"
  /\ conn = NoSim
  /\ tick = 0
  /\ count = 0
  /\ outstanding = 0
  /\ verifying = 0
  /\ hb = [k \in Tasks |-> FreeTask]
  /\ wd = "watching"
  /\ cli = "idle"
  /\ heard = 0
  /\ resolved = FALSE

-----------------------------------------------------------------------------
(***************************************************************************)
(* insert_state_transition.  A row for a simulation needs the simulation's *)
(* own row (a foreign key), which `hello` writes and may fail to write.    *)
(***************************************************************************)
InsertGlobal(st) ==
  /\ global' = st
  /\ view' = [s \in Sims |-> Unexpiring(st)]
  /\ UNCHANGED registered

InsertFor(s, row) ==
  /\ s \in registered
  /\ view' = [view EXCEPT ![s] = row]
  /\ UNCHANGED <<global, registered>>

Saturating(n) == IF n < NeededHeartbeats THEN n + 1 ELSE n

\* A spawned task ends when its work or its process does.
Finish(k) == hb' = [hb EXCEPT ![k] = FreeTask]

-----------------------------------------------------------------------------
(***************************************************************************)
(* Startup, and the end of the process.                                    *)
(***************************************************************************)

\* reconcile_on_startup up to and including its read of the global state.
StartupRead ==
  /\ main = "down"
  /\ main' = "reconcile"
  /\ UNCHANGED <<ledger, after, conn, tick, count, pending, others, history>>

\* The unconditional Cautious row; the process serves only if it is written.
StartupInsert ==
  /\ main = "reconcile"
  /\ main' = "accept"
  /\ InsertGlobal("cautious")
  /\ heard' = 0
  /\ resolved' = FALSE
  /\ UNCHANGED <<after, conn, tick, count, pending, others>>

\* The process dies at any point: everything it held in memory goes with it.
\* A failed read or write of reconcile_on_startup is one of those points.
Crash ==
  /\ main # "down"
  /\ main' = "down"
  /\ after' = "idle"
  /\ conn' = NoSim
  /\ tick' = 0
  /\ count' = 0
  /\ outstanding' = 0
  /\ verifying' = 0
  /\ hb' = [k \in Tasks |-> FreeTask]
  /\ UNCHANGED <<ledger, wd, cli, history>>

-----------------------------------------------------------------------------
(***************************************************************************)
(* The connection loop.  world.tick and count outlive a connection; the    *)
(* two pending maps are locals of handle_connection and do not.            *)
(***************************************************************************)

Connect(s) ==
  /\ main = "accept"
  /\ main' = "hello"
  /\ conn' = s
  /\ UNCHANGED <<ledger, after, tick, count, pending, others, history>>

\* The bridge's first line.  A failed insert_simulation_start is only logged.
Hello(ok) ==
  /\ main = "hello"
  /\ main' = "idle"
  /\ registered' = IF ok THEN registered \cup {conn} ELSE registered
  /\ UNCHANGED <<global, view, after, conn, tick, count, pending, others, history>>

Disconnect ==
  /\ main = "idle"
  /\ main' = "accept"
  /\ conn' = NoSim
  /\ outstanding' = 0
  /\ verifying' = 0
  /\ UNCHANGED <<ledger, after, tick, count, others, history>>

\* A heartbeat line: record the tick, whatever it is, and spawn the recovery
\* check.  Nothing here notices a tick that goes back.
Heartbeat(k, t) ==
  /\ main = "idle"
  /\ hb[k].pc = "free"
  /\ tick' = t
  /\ hb' = [hb EXCEPT ![k] = [pc |-> "read", sim |-> conn, tick |-> t]]
  /\ UNCHANGED <<ledger, main, after, conn, count, pending, wd, cli, history>>

\* An observation.snapshot line: verifications first, then proposals.
Snapshot ==
  /\ main = "idle"
  /\ main' = "verify"
  /\ UNCHANGED <<ledger, after, conn, tick, count, pending, others, history>>

\* check_pending_verifications drains the map, rolling back on a cash drop.
Verify(dropped) ==
  /\ main = "verify"
  /\ verifying > 0
  /\ dropped => tick + ConservationTicks <= MaxTick
  /\ verifying' = verifying - 1
  /\ main' = IF dropped THEN "rb_read" ELSE "verify"
  /\ after' = IF dropped THEN "verify" ELSE "idle"
  /\ UNCHANGED <<ledger, conn, tick, count, outstanding, others, history>>

Verified ==
  /\ main = "verify"
  /\ verifying = 0
  /\ main' = "propose"
  /\ UNCHANGED <<ledger, after, conn, tick, count, pending, others, history>>

\* insert_proposal; it needs the simulation's row too, and on failure the
\* next proposal is handled.
Propose ==
  /\ main = "propose"
  /\ conn \in registered
  /\ outstanding + verifying < MaxOutstanding
  /\ main' = "gate"
  /\ UNCHANGED <<ledger, after, conn, tick, count, pending, others, history>>

NoMoreProposals ==
  /\ main = "propose"
  /\ main' = "idle"
  /\ UNCHANGED <<ledger, after, conn, tick, count, pending, others, history>>

\* handle_proposal's read of the safety state; anything but Normal rejects.
GateRead(ok) ==
  /\ main = "gate"
  /\ main' = IF ~ok THEN "propose"
             ELSE IF Expired(view[conn], tick) THEN "gate_heal"
             ELSE IF AuthorizesProposals(view[conn].to) THEN "authorized"
             ELSE "propose"
  /\ UNCHANGED <<ledger, after, conn, tick, count, pending, others, history>>

GateHeal(ok) ==
  /\ main = "gate_heal"
  /\ main' = IF ok THEN "authorized" ELSE "propose"
  /\ IF ok THEN InsertFor(conn, Unexpiring("normal")) ELSE UNCHANGED ledger
  /\ UNCHANGED <<after, conn, tick, count, pending, others, history>>

\* Snapshot, governor, authorization, action row and write: either all of it
\* succeeds and the command is on the wire, or some step stops it.
Send(ok) ==
  /\ main = "authorized"
  /\ main' = "propose"
  /\ outstanding' = IF ok THEN outstanding + 1 ELSE outstanding
  /\ UNCHANGED <<ledger, after, conn, tick, count, verifying, others, history>>

\* Plausible fault: the result is looked up, and its command stays pending.
ResultLeavesPending(persisted, engineError) ==
  /\ main = "idle"
  /\ outstanding > 0
  /\ persisted /\ engineError => tick + ConservationTicks <= MaxTick
  /\ verifying' = IF persisted /\ ~engineError THEN verifying + 1 ELSE verifying
  /\ main' = IF persisted /\ engineError THEN "rb_read" ELSE "idle"
  /\ after' = "idle"
  /\ UNCHANGED <<ledger, conn, tick, count, outstanding, others, history>>

\* A command.result line.  If its row cannot be written the outcome is
\* dropped: neither a rollback nor a verification follows.
Result(persisted, engineError) ==
  /\ main = "idle"
  /\ outstanding > 0
  /\ persisted /\ engineError => tick + ConservationTicks <= MaxTick
  /\ outstanding' = outstanding - 1
  /\ verifying' = IF persisted /\ ~engineError THEN verifying + 1 ELSE verifying
  /\ main' = IF persisted /\ engineError THEN "rb_read" ELSE "idle"
  /\ after' = "idle"
  /\ UNCHANGED <<ledger, conn, tick, count, others, history>>

-----------------------------------------------------------------------------
(***************************************************************************)
(* trigger_automatic_rollback.  Failures of the read and of both inserts   *)
(* are logged and passed over; a failed restore ends it.                   *)
(***************************************************************************)
RollbackRead(ok) ==
  /\ main = "rb_read"
  /\ main' = IF ok /\ Expired(view[conn], tick) THEN "rb_heal" ELSE "rb_enter"
  /\ UNCHANGED <<ledger, after, conn, tick, count, pending, others, history>>

RollbackHeal(ok) ==
  /\ main = "rb_heal"
  /\ main' = "rb_enter"
  /\ IF ok THEN InsertFor(conn, Unexpiring("normal")) ELSE UNCHANGED ledger
  /\ UNCHANGED <<after, conn, tick, count, pending, others, history>>

RollbackEnter(ok) ==
  /\ main = "rb_enter"
  /\ main' = "rb_restore"
  /\ IF ok THEN InsertFor(conn, Unexpiring("rollback")) ELSE UNCHANGED ledger
  /\ UNCHANGED <<after, conn, tick, count, pending, others, history>>

RollbackRestore(ok) ==
  /\ main = "rb_restore"
  /\ main' = IF ok THEN "rb_conserve" ELSE after
  /\ after' = IF ok THEN after ELSE "idle"
  /\ UNCHANGED <<ledger, conn, tick, count, pending, others, history>>

\* Plausible fault: the Conservation row is written for no simulation.
RollbackConservesAll(ok) ==
  /\ main = "rb_conserve"
  /\ main' = after
  /\ after' = "idle"
  /\ IF ok THEN InsertGlobal("conservation") ELSE UNCHANGED ledger
  /\ UNCHANGED <<conn, tick, count, pending, others, history>>

RollbackConserve(ok) ==
  /\ main = "rb_conserve"
  /\ main' = after
  /\ after' = "idle"
  /\ IF ok
       THEN InsertFor(conn, [to |-> "conservation", expires |-> tick + ConservationTicks])
       ELSE UNCHANGED ledger
  /\ UNCHANGED <<conn, tick, count, pending, others, history>>

-----------------------------------------------------------------------------
(***************************************************************************)
(* A heartbeat task: read; outside Cautious, zero the counter; in Cautious,*)
(* count, and write Normal once enough were counted.                       *)
(***************************************************************************)
\* Plausible fault: reading the latest row without resolving its expiry.
TaskReadsRawRow(k, ok) ==
  LET next == IF view[hb[k].sim].to = "cautious" THEN "count" ELSE "reset"
  IN
  /\ hb[k].pc = "read"
  /\ IF ok THEN hb' = [hb EXCEPT ![k].pc = next] ELSE Finish(k)
  /\ UNCHANGED <<ledger, main, after, conn, tick, count, pending, wd, cli, history>>

\* Plausible fault: heartbeats count in every state that blocks.
TaskReadCountsUnlessNormal(k, ok) ==
  LET row  == view[hb[k].sim]
      next == IF Expired(row, hb[k].tick) THEN "heal"
              ELSE IF row.to # "normal" THEN "count"
              ELSE "reset"
  IN
  /\ hb[k].pc = "read"
  /\ IF ok THEN hb' = [hb EXCEPT ![k].pc = next] ELSE Finish(k)
  /\ UNCHANGED <<ledger, main, after, conn, tick, count, pending, wd, cli, history>>

TaskRead(k, ok) ==
  LET row  == view[hb[k].sim]
      next == IF Expired(row, hb[k].tick) THEN "heal"
              ELSE IF row.to = "cautious" THEN "count"
              ELSE "reset"
  IN
  /\ hb[k].pc = "read"
  /\ IF ok THEN hb' = [hb EXCEPT ![k].pc = next] ELSE Finish(k)
  /\ UNCHANGED <<ledger, main, after, conn, tick, count, pending, wd, cli, history>>

TaskHeal(k, ok) ==
  /\ hb[k].pc = "heal"
  /\ IF ok
       THEN /\ InsertFor(hb[k].sim, Unexpiring("normal"))
            /\ hb' = [hb EXCEPT ![k].pc = "reset"]
       ELSE Finish(k) /\ UNCHANGED ledger
  /\ UNCHANGED <<main, after, conn, tick, count, pending, wd, cli, history>>

TaskReset(k) ==
  /\ hb[k].pc = "reset"
  /\ count' = 0
  /\ Finish(k)
  /\ UNCHANGED <<ledger, main, after, conn, tick, pending, wd, cli, history>>

\* Plausible fault: one heartbeat too few.
TaskCountOneShort(k) ==
  /\ hb[k].pc = "count"
  /\ count' = Saturating(count)
  /\ heard' = Saturating(heard)
  /\ IF count' >= NeededHeartbeats - 1
       THEN hb' = [hb EXCEPT ![k].pc = "insert"]
       ELSE Finish(k)
  /\ UNCHANGED <<ledger, main, after, conn, tick, pending, wd, cli, resolved>>

\* Plausible fault: every task counts on its own.
TaskCountAlone(k) ==
  /\ hb[k].pc = "count"
  /\ count' = 1
  /\ heard' = Saturating(heard)
  /\ IF count' >= NeededHeartbeats
       THEN hb' = [hb EXCEPT ![k].pc = "insert"]
       ELSE Finish(k)
  /\ UNCHANGED <<ledger, main, after, conn, tick, pending, wd, cli, resolved>>

TaskCount(k) ==
  /\ hb[k].pc = "count"
  /\ count' = Saturating(count)
  /\ heard' = Saturating(heard)
  /\ IF count' >= NeededHeartbeats
       THEN hb' = [hb EXCEPT ![k].pc = "insert"]
       ELSE Finish(k)
  /\ UNCHANGED <<ledger, main, after, conn, tick, pending, wd, cli, resolved>>

TaskInsert(k, ok) ==
  /\ hb[k].pc = "insert"
  /\ IF ok
       THEN /\ InsertFor(hb[k].sim, Unexpiring("normal"))
            /\ hb' = [hb EXCEPT ![k].pc = "reset"]
       ELSE Finish(k) /\ UNCHANGED ledger
  /\ UNCHANGED <<main, after, conn, tick, count, pending, wd, cli, history>>

-----------------------------------------------------------------------------
(***************************************************************************)
(* The watchdog's escalate, for whichever check asks for `to`, and the     *)
(* operator's `resolve`.  Both read the global state, then write.          *)
(***************************************************************************)
\* Plausible fault: escalate may downgrade.
WatchdogReadsPastStopped(to) ==
  /\ wd = "watching"
  /\ global # to
  /\ wd' = to
  /\ UNCHANGED <<ledger, main, after, conn, tick, count, pending, hb, cli, history>>

WatchdogRead(to) ==
  /\ wd = "watching"
  /\ global # to
  /\ global # "stopped"
  /\ wd' = to
  /\ UNCHANGED <<ledger, main, after, conn, tick, count, pending, hb, cli, history>>

WatchdogInsert(ok) ==
  /\ wd # "watching"
  /\ wd' = "watching"
  /\ IF ok THEN InsertGlobal(wd) ELSE UNCHANGED ledger
  /\ UNCHANGED <<main, after, conn, tick, count, pending, hb, cli, history>>

ResolveRead ==
  /\ cli = "idle"
  /\ RequiresManualResolution(global)
  /\ cli' = "insert"
  /\ UNCHANGED <<ledger, main, after, conn, tick, count, pending, hb, wd, history>>

ResolveInsert(ok) ==
  /\ cli = "insert"
  /\ cli' = "idle"
  /\ IF ok
       THEN InsertGlobal("normal") /\ resolved' = TRUE
       ELSE UNCHANGED ledger /\ UNCHANGED resolved
  /\ UNCHANGED <<main, after, conn, tick, count, pending, hb, wd, heard>>

-----------------------------------------------------------------------------
Startup == StartupRead \/ StartupInsert \/ Crash

Serve ==
  \/ \E s \in Sims : Connect(s)
  \/ \E ok \in BOOLEAN : Hello(ok)
  \/ Disconnect
  \/ \E k \in Tasks, t \in 0..MaxTick : Heartbeat(k, t)
  \/ Snapshot
  \/ \E dropped \in BOOLEAN : Verify(dropped)
  \/ Verified
  \/ Propose
  \/ NoMoreProposals
  \/ \E ok \in BOOLEAN : GateRead(ok)
  \/ \E ok \in BOOLEAN : GateHeal(ok)
  \/ \E ok \in BOOLEAN : Send(ok)
  \/ \E persisted, engineError \in BOOLEAN : Result(persisted, engineError)

Rollback ==
  \E ok \in BOOLEAN :
    \/ RollbackRead(ok)
    \/ RollbackHeal(ok)
    \/ RollbackEnter(ok)
    \/ RollbackRestore(ok)
    \/ RollbackConserve(ok)

TaskStep(k) ==
  \/ TaskReset(k)
  \/ TaskCount(k)
  \/ \E ok \in BOOLEAN : TaskRead(k, ok) \/ TaskHeal(k, ok) \/ TaskInsert(k, ok)

Watchdog ==
  \/ \E to \in {"quarantine", "stopped"} : WatchdogRead(to)
  \/ \E ok \in BOOLEAN : WatchdogInsert(ok)

Resolve == ResolveRead \/ \E ok \in BOOLEAN : ResolveInsert(ok)

Next ==
  \/ Startup
  \/ Serve
  \/ Rollback
  \/ \E k \in Tasks : TaskStep(k)
  \/ Watchdog
  \/ Resolve

Spec == Init /\ [][Next]_vars

(***************************************************************************)
(* Fairness.  The runtime goes on polling the connection loop and every    *)
(* spawned task; a snapshot holds finitely many proposals; an outage of the *)
(* database ends, so a call that is awaited returns and one that is made   *)
(* again and again succeeds, which the code does not bound; and a running  *)
(* game goes on reporting the latest tick.  Nothing is assumed of          *)
(* the watchdog, of a human, of connections, of the restore of a file, or  *)
(* of a crash.                                                             *)
(***************************************************************************)
LoopFairness ==
  /\ WF_vars(StartupInsert)
  /\ WF_vars(\E ok \in BOOLEAN : Hello(ok))
  /\ WF_vars(Verified \/ \E dropped \in BOOLEAN : Verify(dropped))
  /\ SF_vars(NoMoreProposals)
  /\ WF_vars(\E ok \in BOOLEAN : GateRead(ok) \/ GateHeal(ok) \/ Send(ok))
  /\ WF_vars(Rollback)
  /\ SF_vars(\E k \in Tasks : Heartbeat(k, MaxTick))

TaskFairness ==
  \A k \in Tasks :
    /\ WF_vars(TaskStep(k))
    /\ SF_vars(TaskRead(k, TRUE))
    /\ SF_vars(TaskHeal(k, TRUE))
    /\ SF_vars(TaskInsert(k, TRUE))

FairSpec == Spec /\ LoopFairness /\ TaskFairness

-----------------------------------------------------------------------------
(***************************************************************************)
(* Safety.                                                                 *)
(***************************************************************************)

\* A process that starts in Cautious hands out no authorization before it has
\* itself counted NeededHeartbeats heartbeats, whatever tasks, restarts and
\* escalations interleave; only a human's resolve makes it shorter.
Earned == heard >= NeededHeartbeats \/ resolved

AuthorizationIsEarned == main = "authorized" => Earned

\* Between the gate's read and the send, nothing but a watchdog escalation can
\* have moved the simulation out of Normal: the command that escapes the gate
\* never leaves during a rollback, a cooling-off window or a restart's Cautious.
OnlyEscalationOvertakesTheGate ==
  main = "authorized" => view[conn].to \in {"normal", "quarantine", "stopped"}

Severer(st, than) ==
  \/ st = "stopped" /\ than # "stopped"
  \/ st = "quarantine" /\ ~RequiresManualResolution(than)

\* `escalate` "never downgrades" (bin/watchdog.rs), not even when restarts,
\* resolves and rollbacks fall between its read and its write: the row it
\* writes is severer than what it replaces when it lands, for the system and
\* for every simulation.
EscalationsOnlyEscalate ==
  [][WatchdogInsert(TRUE) =>
       /\ Severer(global', global)
       /\ \A s \in Sims : Severer(view'[s].to, view[s].to)]_vars

\* Nothing that was begun for s while it was not yet in a manual state can
\* still write: no command of its connection is out, no rollback under way, and
\* no task of it has got past its read.
NothingInFlight(s) ==
  /\ conn = s => /\ main \in {"hello", "idle", "verify", "propose", "gate"}
                 /\ outstanding = 0 /\ verifying = 0
  /\ \A k \in Tasks : hb[k].sim = s => hb[k].pc \notin {"heal", "count", "insert"}

Held(s) == RequiresManualResolution(view[s].to) /\ NothingInFlight(s)

\* What is begun in Quarantine or Stopped never leads out of it: once nothing
\* older is in flight, heartbeats, snapshots, reconnects and crashes leave the
\* simulation where it is, with nothing in flight, until a human resolves or a
\* restart writes Cautious.  (What an older step, or the restart, makes of the
\* promise that only a human does, is ManualStatesNeedAHuman.)
ManualStatesHold ==
  [][\A s \in Sims : Held(s) => Held(s)' \/ ResolveInsert(TRUE) \/ StartupInsert]_vars

\* A rollback and its cooling-off window stay inside the simulation whose
\* action caused them: no other simulation's state, and no global row, moves.
RollbackStaysInItsSimulation ==
  [][\A s \in Sims :
       /\ view'[s] # view[s]
       /\ view'[s].to \in {"rollback", "conservation"}
       => /\ s = conn
          /\ global' = global
          /\ \A t \in Sims \ {s} : view'[t] = view[t]]_vars

\* A window of s is running, and every task of s that is under way carries a
\* tick from within it and has decided nothing on an older row.
Cooling(s) ==
  /\ view[s].to = "conservation"
  /\ tick < view[s].expires
  /\ \A k \in Tasks :
       hb[k].sim = s => /\ hb[k].pc \in {"read", "reset"}
                        /\ hb[k].tick < view[s].expires

\* Such a window goes on until a heartbeat reports its tick, another command of
\* the simulation is rolled back, or a row is written for the whole system: by
\* a restart, an escalation or a resolve.  However slow they are, the
\* connection loop and the tasks of its heartbeats never end it before.  (What
\* a task from before the window, or the Cautious of a restart, makes of the
\* promised ticks is CoolingOffIsKept.)
WindowsHold ==
  [][\A s \in Sims : Cooling(s) =>
       \/ Cooling(s)' /\ view'[s] = view[s]
       \/ tick' >= view[s].expires
       \/ s = conn /\ view'[s].to \in {"rollback", "conservation"}
       \/ StartupInsert \/ WatchdogInsert(TRUE) \/ ResolveInsert(TRUE)]_vars

-----------------------------------------------------------------------------
(***************************************************************************)
(* The inductive invariant behind the safety properties.                   *)
(***************************************************************************)
Serving == main \notin {"down", "reconcile"}
Connected == main \notin {"down", "reconcile", "accept"}

\* The pending maps live and die with a connection, the tasks with a process.
LifetimesInv ==
  /\ Connected => conn \in Sims
  /\ ~Connected => outstanding = 0 /\ verifying = 0
  /\ ~Serving => count = 0 /\ \A k \in Tasks : hb[k] = FreeTask
  /\ \A k \in Tasks : hb[k].pc # "free" => hb[k].sim \in Sims

\* Room for the command that is being decided.
BudgetInv ==
  /\ outstanding + verifying <= MaxOutstanding
  /\ main \in {"gate", "gate_heal", "authorized"} =>
       outstanding + verifying < MaxOutstanding

\* The watchdog, alone in writing manual states, never finds what it is about
\* to write, or worse, under its feet; and it writes them for everybody.
WatchdogInv ==
  /\ wd # "watching" => global \notin {wd, "stopped"}
  /\ \A s \in Sims : RequiresManualResolution(view[s].to) => view[s].to = global

\* Until a process has earned it, nothing it does can lead to Normal.
UnearnedInv ==
  /\ count <= heard
  /\ Serving /\ ~Earned =>
       /\ \A s \in Sims : view[s].to \in {"cautious", "quarantine", "stopped"}
       /\ outstanding = 0 /\ verifying = 0
       /\ main \in {"accept", "hello", "idle", "verify", "propose", "gate"}
       /\ \A k \in Tasks : hb[k].pc \notin {"heal", "insert"}

\* A row the loop decided to resolve is not replaced by a newer window.
HealInv ==
  main \in {"gate_heal", "rb_heal"} /\ view[conn].to = "conservation"
    => tick >= view[conn].expires

IInv ==
  /\ TypeOK
  /\ LifetimesInv
  /\ BudgetInv
  /\ WatchdogInv
  /\ UnearnedInv
  /\ HealInv
  /\ OnlyEscalationOvertakesTheGate

-----------------------------------------------------------------------------
(***************************************************************************)
(* Liveness.                                                               *)
(***************************************************************************)

\* The bridge of s stays connected for good, and its hello was persisted.
Settled(s) == conn = s /\ s \in registered

\* Cautious clears itself once a connection lasts: failed reads, failed writes
\* and a counter left over from an earlier connection do not starve it.
CautiousClears ==
  \A s \in Sims : <>[]Settled(s) => <>[](view[s].to # "cautious")

\* PROTOCOL.md has the orchestrator enforce it; in truth it is up to the game.
TicksStopGoingBack == <>[][tick' >= tick]_tick

\* A cooling-off window ends once a connection lasts and its ticks do not go
\* back, with no background sweep: the reads that heartbeats cause are enough.
ConservationClears ==
  TicksStopGoingBack =>
    \A s \in Sims : <>[]Settled(s) => []<>(view[s].to # "conservation")

-----------------------------------------------------------------------------
(***************************************************************************)
(* What the documents promise and the code does not keep; more of it is in *)
(* SafetyPromises.                                                         *)
(***************************************************************************)

\* "Momentary: entered immediately before a rollback's file restore and ledger
\* recording, exited into Conservation right after" (safety_state.rs).
RollbackIsMomentary ==
  \A s \in Sims : <>[]Settled(s) => []<>(view[s].to # "rollback")
=============================================================================
