------------------------------- MODULE Intake -------------------------------
(***************************************************************************)
(* What becomes of an observation.snapshot at the orchestrator: the        *)
(* connection loop hands it to the persistence worker and to the world     *)
(* model and lets the rule look (core/orchestrator/src/tcp_server.rs); the *)
(* worker writes it, however long the database refuses (db.rs).            *)
(*                                                                         *)
(* Snapshots are numbered as they arrive.  Which of them the bridge sends  *)
(* and loses is BridgeLink; what follows a proposal is DecisionPipeline.   *)
(***************************************************************************)
EXTENDS OperatorRule, SequencesExt

CONSTANTS
  Sims,           \* simulation ids
  NoSim,          \* no bridge is connected
  NoJob,          \* the worker has no job
  BufferCapacity, \* BUFFER_CAPACITY
  Reports,        \* what a snapshot may say of a ride
  MaxSnapshots    \* snapshots over the whole run (bound)

ASSUME IntakeAssumption ==
  /\ NoSim \notin Sims
  /\ BufferCapacity \in Nat \ {0}
  /\ MaxSnapshots \in Nat
  /\ NoJob \notin [sim: Sims, id: 1..MaxSnapshots]
  /\ \A r \in Reports : r = None \/ r \in Report

VARIABLES
  \* The connection loop.
  main,        \* "down", or waits for "accept", for "hello", for any "line"
  conn,        \* simulation of the open connection
  wire,        \* snapshots arrived and not yet read
  made,        \* how many have arrived over the whole run
  \* Memory of the process.
  history,     \* WorldModel.history
  queue,       \* the channel of the persistence worker
  job,         \* the job it retries
  db_state,    \* what /health reports of the database
  \* The database.
  registered,  \* simulations with a row
  table,       \* the observations, in the order they were inserted
  \* History.
  received,    \* snapshots this process has read
  accepted,    \* jobs its channel has taken
  proposed     \* what the rule made of the last one

loop == <<main, conn, wire, made>>
worker == <<queue, job, db_state, accepted>>
database == <<registered, table>>
rule == <<history, received, proposed>>
vars == <<main, conn, wire, made, history, queue, job, db_state, registered, table, received,
          accepted, proposed>>

Snapshot == [RideIds -> Reports]
Job == [sim: Sims, id: 1..MaxSnapshots]

TypeOK ==
  /\ main \in {"down", "accept", "hello", "line"}
  /\ conn \in Sims \cup {NoSim}
  /\ wire \in Seq(Snapshot) /\ Len(wire) <= 1
  /\ made \in 0..MaxSnapshots
  /\ history \in Seq(Snapshot) /\ Len(history) <= MaxHistory
  /\ queue \in Seq(Job) /\ Len(queue) <= BufferCapacity
  /\ job \in Job \cup {NoJob}
  /\ db_state \in {"connected", "cautious"}
  /\ registered \subseteq Sims
  /\ table \in Seq(Job)
  /\ received \in Seq(Snapshot)
  /\ accepted \subseteq Job
  /\ \A p \in proposed : p \in Proposal

Init ==
  /\ main = "down"
  /\ conn = NoSim
  /\ wire = <<>>
  /\ made = 0
  /\ history = <<>>
  /\ queue = <<>>
  /\ job = NoJob
  /\ db_state = "connected"
  /\ registered = {}
  /\ table = <<>>
  /\ received = <<>>
  /\ accepted = {}
  /\ proposed = {}

-----------------------------------------------------------------------------
(***************************************************************************)
(* The process and its connections.                                        *)
(***************************************************************************)
Start ==
  /\ main = "down"
  /\ main' = "accept"
  /\ UNCHANGED <<conn, wire, made, worker, database, rule>>

\* World model, channel and job go with the process; a bridge does not resend.
Crash ==
  /\ main # "down"
  /\ main' = "down"
  /\ conn' = NoSim
  /\ wire' = <<>>
  /\ history' = <<>> /\ received' = <<>> /\ proposed' = {}
  /\ queue' = <<>> /\ job' = NoJob /\ db_state' = "connected" /\ accepted' = {}
  /\ UNCHANGED <<made, database>>

Connect(s) ==
  /\ main = "accept"
  /\ main' = "hello"
  /\ conn' = s
  /\ UNCHANGED <<wire, made, worker, database, rule>>

\* insert_simulation_start; that it fails is only logged.
Hello(ok) ==
  /\ main = "hello"
  /\ main' = "line"
  /\ registered' = IF ok THEN registered \cup {conn} ELSE registered
  /\ UNCHANGED <<conn, wire, made, worker, table, rule>>

Disconnect ==
  /\ main = "line"
  /\ main' = "accept"
  /\ conn' = NoSim
  /\ wire' = <<>>
  /\ UNCHANGED <<made, worker, database, rule>>

Arrive(snapshot) ==
  /\ main = "line"
  /\ wire = <<>>
  /\ made < MaxSnapshots
  /\ made' = made + 1
  /\ wire' = <<snapshot>>
  /\ UNCHANGED <<main, conn, worker, database, rule>>

-----------------------------------------------------------------------------
(***************************************************************************)
(* The snapshot handler.                                                   *)
(***************************************************************************)
\* Plausible fault: a channel without a bound.
SubmitUnbounded(j) == queue' = Append(queue, j) /\ accepted' = accepted \cup {j}

\* try_send: what a full channel does not take is dropped.
Submit(j) ==
  IF Len(queue) < BufferCapacity
    THEN queue' = Append(queue, j) /\ accepted' = accepted \cup {j}
    ELSE UNCHANGED <<queue, accepted>>

\* The world model takes the snapshot, and the rule looks at its window.
Observe(snapshot) ==
  /\ history' = RecordSnapshot(history, snapshot)
  /\ received' = Append(received, snapshot)
  /\ proposed' = ProposePriceChanges(history')

\* What the handler awaits after this, the verifications and the proposals, is
\* not modelled, nor is that it ends.
ReadSnapshot ==
  /\ main = "line" /\ wire # <<>>
  /\ wire' = <<>>
  /\ Submit([sim |-> conn, id |-> made])
  /\ Observe(Head(wire))
  /\ UNCHANGED <<main, conn, made, job, db_state, database>>

-----------------------------------------------------------------------------
(***************************************************************************)
(* The worker: one job until the database has confirmed it.                *)
(***************************************************************************)
Receive ==
  /\ job = NoJob /\ queue # <<>>
  /\ job' = Head(queue)
  /\ queue' = Tail(queue)
  /\ UNCHANGED <<loop, db_state, accepted, database, rule>>

\* Plausible fault: a row is inserted again when its confirmation was lost.
InsertAgain(j) == table' = Append(table, j)

\* ON CONFLICT (message_id) DO NOTHING.
Insert(j) == table' = IF Contains(table, j) THEN table ELSE Append(table, j)

\* The row needs the simulation's own (a foreign key).
Apply ==
  /\ job # NoJob
  /\ job.sim \in registered
  /\ Insert(job)
  /\ job' = NoJob
  /\ db_state' = "connected"
  /\ UNCHANGED <<loop, queue, accepted, registered, rule>>

\* Plausible fault: a failed job is given up.
ApplyFailsOnce(committed) ==
  /\ job # NoJob
  /\ committed => job.sim \in registered
  /\ IF committed THEN Insert(job) ELSE UNCHANGED table
  /\ job' = NoJob
  /\ db_state' = "cautious"
  /\ UNCHANGED <<loop, queue, accepted, registered, rule>>

\* An error: the database refused or was not reached, or the answer was lost
\* on the way back.  The job is tried again.
ApplyFails(committed) ==
  /\ job # NoJob
  /\ committed => job.sim \in registered
  /\ IF committed THEN Insert(job) ELSE UNCHANGED table
  /\ db_state' = "cautious"
  /\ UNCHANGED <<loop, queue, job, accepted, registered, rule>>

-----------------------------------------------------------------------------
Next ==
  \/ Start
  \/ Crash
  \/ \E s \in Sims : Connect(s)
  \/ \E ok \in BOOLEAN : Hello(ok)
  \/ Disconnect
  \/ \E snapshot \in Snapshot : Arrive(snapshot)
  \/ ReadSnapshot
  \/ Receive
  \/ Apply
  \/ \E committed \in BOOLEAN : ApplyFails(committed)

Spec == Init /\ [][Next]_vars

\* The runtime polls the worker.  Of the loop nothing is assumed: it awaits
\* queries, of which ACQUIRE_TIMEOUT bounds the wait for a connection only.  Of
\* the database nothing is either.
FairSpec == Spec /\ WF_vars(Receive)

-----------------------------------------------------------------------------
Waiting == ToSet(queue) \cup ({job} \ {NoJob})

\* The observations are in the order they arrived, none twice, although a lost
\* answer makes the worker insert again; and of what the channel took, none is
\* missing that is not still waiting.
LedgerKeepsTheOrder ==
  /\ \A i, j \in DOMAIN table : i < j => table[i].id < table[j].id
  /\ accepted \subseteq ToSet(table) \cup Waiting

\* A database that does not refuse for ever gets every job the channel took,
\* unless the process dies or the worker reaches a job whose simulation has no
\* row, at which it then stays.
AcceptedIsPersisted ==
  SF_vars(Apply) =>
    \A j \in Job :
      j \in Waiting ~> \/ Contains(table, j)
                       \/ main = "down"
                       \/ job # NoJob /\ job.sim \notin registered

\* How many of the last snapshots read, without a gap, have the ride with such
\* a queue.
Streak(id, P(_)) ==
  LET fits(i) == received[i][id] # None /\ P(received[i][id].queue_length)
      misses == {i \in DOMAIN received : ~fits(i)}
  IN  Len(received) - Max(misses \cup {0})

\* The rule proposes one step up for a queue that was long, one step down for
\* one that was empty, in the last so many snapshots of all that were read, and
\* never out of bounds: whatever the window has dropped, and across reconnects.
RuleFollowsTheStreaks ==
  LET n == ConsecutiveSnapshotsRequired
      long(id) == Streak(id, LAMBDA q : q > QueueLengthHighThreshold) >= n
      empty(id) == Streak(id, LAMBDA q : q <= QueueLengthLowThreshold) >= n
      price(id) == Last(received)[id].price
      wanted(id, p) == IF long(id)
                         THEN p = price(id) + PriceStep /\ p <= MaxPrice
                         ELSE empty(id) /\ p = price(id) - PriceStep /\ p >= MinPrice
  IN
  \A id \in RideIds, p \in MinPrice - 1..MaxPrice + 1 :
    [ride_id |-> id, proposed_price |-> p] \in proposed
      <=> received # <<>> /\ n # 0 /\ wanted(id, p)

-----------------------------------------------------------------------------
(***************************************************************************)
(* An inductive invariant: what the theorems of IntakeProofs rest on.      *)
(***************************************************************************)
\* A snapshot is read on the connection of some simulation.
ConnInv == main \in {"hello", "line"} => conn \in Sims

\* There is something to read only on an open connection, and it has a number.
WireInv == wire # <<>> => main = "line" /\ made > 0

Earlier(S, T) == \A a \in S, b \in T : a.id < b.id
Ascending(jobs) == \A i, j \in DOMAIN jobs : i < j => jobs[i].id < jobs[j].id
Held == {job} \ {NoJob}

\* Table, job and channel hold the numbers in one ascending order; only the job
\* being tried may be in the table already, as its answer may have been lost.
OrderInv ==
  /\ Ascending(table) /\ Ascending(queue)
  /\ Earlier(ToSet(table), ToSet(queue))
  /\ Earlier(Held, ToSet(queue))
  /\ \A a \in ToSet(table), b \in Held : a = b \/ a.id < b.id

\* The next snapshot to be read has a number that none of them has.
FreshInv ==
  \A j \in ToSet(table) \cup Waiting : j.id <= made /\ (wire # <<>> => j.id < made)

AcceptedInv == accepted \subseteq ToSet(table) \cup Waiting

\* The window is what was last read, as far as it reaches.
WindowInv ==
  /\ Len(history) = IF Len(received) < MaxHistory THEN Len(received) ELSE MaxHistory
  /\ \A i \in DOMAIN history : history[i] = received[Len(received) - Len(history) + i]
  /\ proposed = ProposePriceChanges(history)

IInv ==
  /\ TypeOK /\ ConnInv /\ WireInv /\ OrderInv /\ FreshInv /\ AcceptedInv /\ WindowInv
=============================================================================
