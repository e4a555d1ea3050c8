----------------------------- MODULE BridgeLink -----------------------------
(***************************************************************************)
(* The one connection between the bridge and the orchestrator, from both   *)
(* ends: BridgeConnection (bridge/openrct2-plugin/src/connection.ts) with  *)
(* its sockets, timers and snapshot buffer, the serial accept loop of      *)
(* core/orchestrator/src/tcp_server.rs, and the health it reports          *)
(* (ConnectionHealth, state.rs).                                           *)
(*                                                                         *)
(* The handlers of a socket act on the connection's fields, whichever      *)
(* socket those hold by then.  One assumption on the game engine: a socket *)
(* ends with one event, "error" or "close", never both.  connection.ts     *)
(* schedules a reconnect on each, so both would start two timers.          *)
(***************************************************************************)
EXTENDS Integers, Sequences, SequencesExt, FiniteSets

CONSTANTS
  Sockets,          \* sockets that exist at once (bound)
  NoSocket,
  MaxDelay,         \* maxReconnectDelayMs in initial delays
  MaxBuffered,      \* maxBufferedSnapshots
  MaxSnapshots,     \* snapshots over the whole run (bound)
  MaxInbox,         \* lines in flight on a socket (bound)
  MaxBreaks,        \* crashes and resets over the whole run (bound)
  DegradedAfter,    \* DEGRADED_AFTER
  LostAfter         \* LOST_AFTER

ASSUME SocketsAssumption == NoSocket \notin Sockets
ASSUME LinkBoundsAssumption ==
  /\ MaxDelay \in Nat \ {0} /\ MaxBuffered \in Nat
  /\ MaxSnapshots \in Nat /\ MaxInbox \in Nat /\ MaxBreaks \in Nat
ASSUME ThresholdsAssumption ==
  DegradedAfter \in Nat /\ LostAfter \in Nat /\ DegradedAfter <= LostAfter

VARIABLES
  \* The bridge.
  socket,      \* this.socket
  connected,   \* this.connected
  timers,      \* setTimeout(connect) calls that have not fired
  delay,       \* reconnectDelayMs
  buffer,      \* snapshotBuffer: snapshots by number
  made,        \* snapshots taken so far
  \* The sockets.
  sock,        \* per socket: "free", "connecting", "open", "failing", "closing"
  inbox,       \* per socket, lines written and not yet read
  eof,         \* sockets whose orchestrator end will read an end or an error
  \* The orchestrator.
  up,          \* whether it listens
  backlog,     \* established and not yet accepted
  serving,     \* the accepted connection
  health,      \* ConnectionHealth.state
  age,         \* time since last_heartbeat_at, or Unheard
  \* History.
  read,        \* what the connection being served has sent so far
  recorded,    \* numbers of the snapshots received over the whole run
  breaks       \* crashes and resets so far

bridge  == <<buffer, made>>
client  == <<socket, connected, timers, delay>>
server  == <<up, backlog, serving, health, age, read, recorded>>
vars == <<socket, connected, timers, delay, buffer, made, sock, inbox, eof, up, backlog,
          serving, health, age, read, recorded, breaks>>

Unheard == -1
\* A line is a hello, a heartbeat, or the number of a snapshot.
HelloLine == -1
HeartbeatLine == 0
Line == {HelloLine, HeartbeatLine} \cup (1..MaxSnapshots)
Health == {"connecting", "live", "degraded", "lost"}

TypeOK ==
  /\ socket \in Sockets \cup {NoSocket}
  /\ connected \in BOOLEAN
  /\ timers \in Nat
  /\ delay \in 1..MaxDelay
  /\ buffer \in Seq(1..MaxSnapshots) /\ Len(buffer) <= MaxBuffered
  /\ made \in 0..MaxSnapshots
  /\ sock \in [Sockets -> {"free", "connecting", "open", "failing", "closing"}]
  /\ inbox \in [Sockets -> Seq(Line)]
  /\ eof \subseteq Sockets
  /\ up \in BOOLEAN
  /\ backlog \in Seq(Sockets)
  /\ serving \in Sockets \cup {NoSocket}
  /\ health \in Health
  /\ age \in {Unheard} \cup 0..LostAfter
  /\ read \in {"nothing", "hello", "other"}
  /\ recorded \in Seq(1..MaxSnapshots)
  /\ breaks \in 0..MaxBreaks

\* start() has been called: the first connect is due.
Init ==
  /\ socket = NoSocket
  /\ connected = FALSE
  /\ timers = 1
  /\ delay = 1
  /\ buffer = <<>>
  /\ made = 0
  /\ sock = [s \in Sockets |-> "free"]
  /\ inbox = [s \in Sockets |-> <<>>]
  /\ eof = {}
  /\ up = FALSE
  /\ backlog = <<>>
  /\ serving = NoSocket
  /\ health = "connecting"
  /\ age = Unheard
  /\ read = "nothing"
  /\ recorded = <<>>
  /\ breaks = 0

-----------------------------------------------------------------------------
(***************************************************************************)
(* The bridge's end.                                                       *)
(***************************************************************************)
\* Plausible fault: a backoff without its cap.
DoubledUncapped(d) == 2 * d

Doubled(d) == IF 2 * d < MaxDelay THEN 2 * d ELSE MaxDelay

\* A line written to s arrives if the connection still stands at both ends.
Deliver(s, lines) ==
  inbox' = IF s # NoSocket /\ sock'[s] = "open" /\ s \notin eof
             THEN [inbox EXCEPT ![s] = @ \o lines]
             ELSE inbox

\* connect(), from start() or from a timer.
Connect(s) ==
  /\ timers > 0
  /\ sock[s] = "free" /\ s \notin eof
  /\ timers' = timers - 1
  /\ socket' = s
  /\ sock' = [sock EXCEPT ![s] = "connecting"]
  /\ UNCHANGED <<connected, delay, bridge, inbox, eof, server, breaks>>

\* createSocket() throws, and connect() schedules itself again.
ConnectThrows ==
  /\ timers > 0
  /\ delay' = Doubled(delay)
  /\ UNCHANGED <<socket, connected, timers, bridge, sock, inbox, eof, server, breaks>>

\* Plausible fault: the buffer goes out before hello.
OnConnectFlushesFirst(s) ==
  /\ sock[s] = "connecting"
  /\ up
  /\ sock' = [sock EXCEPT ![s] = "open"]
  /\ backlog' = Append(backlog, s)
  /\ connected' = TRUE
  /\ delay' = 1
  /\ buffer' = <<>>
  /\ Deliver(socket, buffer \o <<HelloLine>>)
  /\ UNCHANGED <<socket, timers, made, eof, up, serving, health, age, read, recorded, breaks>>

\* Plausible fault: the buffer is flushed from its newer end.
OnConnectFlushesBackwards(s) ==
  /\ sock[s] = "connecting"
  /\ up
  /\ sock' = [sock EXCEPT ![s] = "open"]
  /\ backlog' = Append(backlog, s)
  /\ connected' = TRUE
  /\ delay' = 1
  /\ buffer' = <<>>
  /\ Deliver(socket, <<HelloLine>> \o Reverse(buffer))
  /\ UNCHANGED <<socket, timers, made, eof, up, serving, health, age, read, recorded, breaks>>

\* onConnect: hello and the buffered snapshots, oldest first.
OnConnect(s) ==
  /\ sock[s] = "connecting"
  /\ up
  /\ sock' = [sock EXCEPT ![s] = "open"]
  /\ backlog' = Append(backlog, s)
  /\ connected' = TRUE
  /\ delay' = 1
  /\ buffer' = <<>>
  /\ Deliver(socket, <<HelloLine>> \o buffer)
  /\ UNCHANGED <<socket, timers, made, eof, up, serving, health, age, read, recorded, breaks>>

\* Plausible fault: a failed connection is not tried again.
GiveUp ==
  /\ connected' = FALSE
  /\ socket' = NoSocket
  /\ UNCHANGED <<timers, delay>>

\* What onError and onClose both do.
ScheduleReconnect ==
  /\ connected' = FALSE
  /\ socket' = NoSocket
  /\ timers' = timers + 1
  /\ delay' = Doubled(delay)

\* "error": the connection was refused, or an established one was reset.
OnError(s) ==
  /\ sock[s] = "failing" \/ (sock[s] = "connecting" /\ ~up)
  /\ sock' = [sock EXCEPT ![s] = "free"]
  /\ ScheduleReconnect
  /\ UNCHANGED <<bridge, inbox, eof, server, breaks>>

\* "close": the other end closed the connection.
OnClose(s) ==
  /\ sock[s] = "closing"
  /\ sock' = [sock EXCEPT ![s] = "free"]
  /\ ScheduleReconnect
  /\ UNCHANGED <<bridge, inbox, eof, server, breaks>>

\* sendHeartbeat, on a tick that calls for one.
SendHeartbeat ==
  /\ connected
  /\ socket # NoSocket /\ Len(inbox[socket]) < MaxInbox
  /\ UNCHANGED <<client, bridge, sock, eof, server, breaks>>
  /\ Deliver(socket, <<HeartbeatLine>>)

\* Plausible fault: the newest snapshot is dropped from a full buffer.
SendSnapshotKeepsOldest ==
  LET n == made + 1 IN
  /\ made < MaxSnapshots
  /\ UNCHANGED <<client, sock, eof, server, breaks>>
  /\ made' = n
  /\ IF connected /\ socket # NoSocket
       THEN Deliver(socket, <<n>>) /\ UNCHANGED buffer
       ELSE /\ buffer' = IF Len(buffer) < MaxBuffered THEN Append(buffer, n) ELSE buffer
            /\ UNCHANGED inbox

\* sendSnapshot; without a connection the oldest of a full buffer is dropped.
SendSnapshot ==
  LET n == made + 1
      kept == Append(buffer, n)
  IN
  /\ made < MaxSnapshots
  /\ UNCHANGED <<client, sock, eof, server, breaks>>
  /\ made' = n
  /\ IF connected /\ socket # NoSocket
       THEN Deliver(socket, <<n>>) /\ UNCHANGED buffer
       ELSE /\ buffer' = IF Len(kept) > MaxBuffered THEN Tail(kept) ELSE kept
            /\ UNCHANGED inbox

-----------------------------------------------------------------------------
(***************************************************************************)
(* The orchestrator's end.                                                 *)
(***************************************************************************)
Start ==
  /\ ~up
  /\ up' = TRUE
  /\ health' = "connecting"
  /\ age' = Unheard
  /\ UNCHANGED <<client, bridge, sock, inbox, eof, backlog, serving, read, recorded, breaks>>

\* The process dies; the bridge will see the end of what it had established.
Crash ==
  /\ up
  /\ breaks < MaxBreaks
  /\ breaks' = breaks + 1
  /\ up' = FALSE
  /\ backlog' = <<>>
  /\ serving' = NoSocket
  /\ eof' = {}
  /\ inbox' = [s \in Sockets |-> <<>>]
  /\ sock' = [s \in Sockets |-> IF sock[s] = "open" THEN "closing" ELSE sock[s]]
  /\ UNCHANGED <<client, bridge, health, age, read, recorded>>

\* One established connection breaks: each end will find out by itself.
Reset(s) ==
  /\ sock[s] = "open"
  /\ breaks < MaxBreaks
  /\ breaks' = breaks + 1
  /\ sock' = [sock EXCEPT ![s] = "failing"]
  /\ eof' = eof \cup {s}
  /\ UNCHANGED <<client, bridge, inbox, server>>

\* Plausible fault: a connection taken while the last one counts as lost is
\* hung up on.
AcceptUnlessLost ==
  /\ up
  /\ serving = NoSocket
  /\ backlog # <<>>
  /\ serving' = IF health = "lost" THEN NoSocket ELSE Head(backlog)
  /\ sock' = IF health = "lost" THEN [sock EXCEPT ![Head(backlog)] = "closing"] ELSE sock
  /\ inbox' = IF health = "lost" THEN [inbox EXCEPT ![Head(backlog)] = <<>>] ELSE inbox
  /\ backlog' = Tail(backlog)
  /\ health' = IF health = "lost" THEN health ELSE "connecting"
  /\ age' = Unheard
  /\ read' = "nothing"
  /\ UNCHANGED <<client, bridge, eof, up, recorded, breaks>>

\* accept() and on_connect; one connection is served at a time.
Accept ==
  /\ up
  /\ serving = NoSocket
  /\ backlog # <<>>
  /\ serving' = Head(backlog)
  /\ backlog' = Tail(backlog)
  /\ health' = "connecting"
  /\ age' = Unheard
  /\ read' = "nothing"
  /\ UNCHANGED <<client, bridge, sock, inbox, eof, up, recorded, breaks>>

\* The next line: hello and heartbeats are signs of life, snapshots are not.
ReadLine ==
  LET line == Head(inbox[serving]) IN
  /\ serving # NoSocket
  /\ inbox[serving] # <<>>
  /\ inbox' = [inbox EXCEPT ![serving] = Tail(@)]
  /\ read' = IF read # "nothing" THEN read ELSE IF line = HelloLine THEN "hello" ELSE "other"
  /\ IF line \in {HelloLine, HeartbeatLine}
       THEN health' = "live" /\ age' = 0 /\ UNCHANGED recorded
       ELSE recorded' = Append(recorded, line) /\ UNCHANGED <<health, age>>
  /\ UNCHANGED <<client, bridge, sock, eof, up, backlog, serving, breaks>>

\* An end of stream, or an error that may leave lines unread: on_disconnect.
Disconnect ==
  /\ serving # NoSocket
  /\ serving \in eof
  /\ serving' = NoSocket
  /\ eof' = eof \ {serving}
  /\ inbox' = [inbox EXCEPT ![serving] = <<>>]
  /\ health' = "lost"
  /\ UNCHANGED <<client, bridge, sock, up, backlog, age, read, recorded, breaks>>

TimePasses ==
  /\ age # Unheard /\ age < LostAfter
  /\ age' = age + 1
  /\ UNCHANGED <<client, bridge, sock, inbox, eof, up, backlog, serving, health, read,
                 recorded, breaks>>

\* Plausible fault: elapsed time alone decides.
TickCheckByTime ==
  /\ up
  /\ age # Unheard
  /\ health' = IF age >= LostAfter THEN "lost"
               ELSE IF age >= DegradedAfter THEN "degraded"
               ELSE "live"
  /\ UNCHANGED <<client, bridge, sock, inbox, eof, up, backlog, serving, age, read, recorded,
                 breaks>>

\* tick_check, on each request for /health.
TickCheck ==
  /\ up
  /\ health # "lost"
  /\ age # Unheard
  /\ health' = IF age >= LostAfter THEN "lost"
               ELSE IF age >= DegradedAfter THEN "degraded"
               ELSE "live"
  /\ UNCHANGED <<client, bridge, sock, inbox, eof, up, backlog, serving, age, read, recorded,
                 breaks>>

-----------------------------------------------------------------------------
Next ==
  \/ \E s \in Sockets : Connect(s) \/ OnConnect(s) \/ OnError(s) \/ OnClose(s) \/ Reset(s)
  \/ ConnectThrows
  \/ SendHeartbeat
  \/ SendSnapshot
  \/ Start
  \/ Crash
  \/ Accept
  \/ ReadLine
  \/ Disconnect
  \/ TimePasses
  \/ TickCheck

Spec == Init /\ [][Next]_vars

(***************************************************************************)
(* Fairness: timers fire and a connect attempt does not throw for ever,    *)
(* the engine delivers its socket events, the orchestrator goes on         *)
(* accepting and reading, and the game goes on sending heartbeats.  That   *)
(* the orchestrator is up is a premise of the property, not assumed here.  *)
(***************************************************************************)
FairSpec ==
  /\ Spec
  /\ SF_vars(\E s \in Sockets : Connect(s))
  /\ \A s \in Sockets : WF_vars(OnConnect(s)) /\ WF_vars(OnError(s)) /\ WF_vars(OnClose(s))
  /\ WF_vars(Accept)
  /\ WF_vars(ReadLine)
  /\ WF_vars(Disconnect)
  /\ SF_vars(SendHeartbeat)

-----------------------------------------------------------------------------
\* Of timers and sockets there is always exactly one: the bridge never holds
\* two connections, and never stops trying for one.
OneLifeline == timers + Cardinality({s \in Sockets : sock[s] # "free"}) = 1

\* hello is the first line of every connection that is read from.
HelloComesFirst == read # "other"

\* Snapshots are received in the order they were taken, none twice, across
\* reconnects; what waits in the buffer is newer than all of those, and is the
\* newest there is without a gap.
SnapshotsInOrder ==
  /\ \A m, n \in DOMAIN recorded : m < n => recorded[m] < recorded[n]
  /\ \A m \in DOMAIN recorded, i \in DOMAIN buffer : recorded[m] < buffer[i]
  /\ \A i \in DOMAIN buffer : buffer[i] = made - Len(buffer) + i

\* LOST is left only by a new connection or by a line on this one (tick_check
\* "must not resurrect a state we know is gone"), or by a new process.
LostIsNotResurrected ==
  [][health = "lost" /\ health' # "lost" => Accept \/ ReadLine \/ Start]_vars

\* An orchestrator that is up for good ends up serving the socket the bridge
\* writes to, whatever was refused, reset or closed before.
Reconnects ==
  <>[]up => <>[](connected /\ serving = socket /\ socket # NoSocket)

-----------------------------------------------------------------------------
(***************************************************************************)
(* The inductive invariant: the connections in the order in which they     *)
(* were established, of which the bridge holds at most the last, and the   *)
(* snapshots in that same order, from those recorded to those buffered.    *)
(***************************************************************************)
Established == ToSet(backlog) \cup ({serving} \ {NoSocket})
Numbered(lines) == ToSet(lines) \cap (1..MaxSnapshots)
Unread(s) == Numbered(inbox[s])
Older(S, T) == \A m \in S, n \in T : m < n

\* A timer, or the socket the bridge holds; connected once that is open.
LifelineInv ==
  \/ /\ timers = 1 /\ socket = NoSocket /\ ~connected
     /\ \A s \in Sockets : sock[s] = "free"
  \/ /\ timers = 0 /\ socket \in Sockets
     /\ \A s \in Sockets : (sock[s] = "free") <=> (s # socket)
     /\ connected <=> sock[socket] # "connecting"

\* An open socket is the last one established; one whose number is used
\* again has been forgotten by the orchestrator.
EstablishedInv ==
  /\ \A s \in Established : sock[s] = "open" \/ s \in eof
  /\ \A s \in Sockets : sock[s] = "connecting" => s \notin eof
  /\ \A s \in Sockets : sock[s] = "open" =>
       /\ s \notin eof
       /\ IF backlog = <<>> THEN s = serving ELSE s = backlog[Len(backlog)]
  /\ \A m, n \in DOMAIN backlog : m # n => backlog[m] # backlog[n]
  /\ serving \notin ToSet(backlog)
  /\ \A s \in Sockets : inbox[s] # <<>> => s \in Established

\* What has not been read from yet begins with hello.
HelloInv ==
  \A s \in Established :
    s # serving \/ read = "nothing" => inbox[s] # <<>> /\ Head(inbox[s]) = HelloLine

\* Recorded, unread and buffered snapshots, each older than the next.
AgeInv ==
  /\ SnapshotsInOrder
  /\ \A s \in Sockets : \A m, n \in DOMAIN inbox[s] :
       (m < n /\ {inbox[s][m], inbox[s][n]} \subseteq 1..MaxSnapshots) =>
          inbox[s][m] < inbox[s][n]
  /\ \A s \in Sockets :
       /\ Older(ToSet(recorded), Unread(s))
       /\ Older(Unread(s), ToSet(buffer))
  /\ \A s \in ToSet(backlog) : serving # NoSocket => Older(Unread(serving), Unread(s))
  /\ \A m, n \in DOMAIN backlog : m < n => Older(Unread(backlog[m]), Unread(backlog[n]))
  /\ \A s \in Sockets : Unread(s) \subseteq 1..made
  /\ ToSet(recorded) \subseteq 1..made
  /\ connected => buffer = <<>>

IInv ==
  /\ TypeOK
  /\ LifelineInv
  /\ EstablishedInv
  /\ HelloComesFirst
  /\ HelloInv
  /\ AgeInv
=============================================================================
