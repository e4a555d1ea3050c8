--------------------------- MODULE BridgeCommands ---------------------------
(***************************************************************************)
(* The bridge as the executor of commands: framing of the inbound stream   *)
(* (connection.ts, onData and handleLine), the promises of                 *)
(* handleCommandRequest with its idempotency cache (commands.ts), and the  *)
(* results it sends (index.ts).  The connection itself, its reconnects and *)
(* what the bridge sends besides, is BridgeLink.                           *)
(*                                                                         *)
(* A line is sent as two pieces, the second of which ends in the newline,  *)
(* so that a chunk may end inside a line or between lines.  The sender may *)
(* send a request again under its key, which is what the cache is for.     *)
(***************************************************************************)
EXTENDS GamePark, SequencesExt

CONSTANTS
  Commands,      \* command.request payloads that may be sent
  StartParks,    \* parks the game may start with
  MaxRequests,   \* requests over the whole run (bound)
  MaxBreaks      \* breaks of the connection over the whole run (bound)

ASSUME CommandsAssumption == \A c \in Commands : c \in CommandRequest
ASSUME StartParksAssumption == \A p \in StartParks : p \in Park
ASSUME BridgeBoundsAssumption == MaxRequests \in Nat /\ MaxBreaks \in Nat

VARIABLES
  connected,   \* this.connected
  stream,      \* pieces written to the bridge and not yet delivered
  inbound,     \* inboundBuffer
  cache,       \* idempotencyCache
  phase,       \* per request, where its promise is
  outcome,     \* per request, its CommandResult once there is one
  park,        \* the park in the game
  \* History.
  sent,        \* requests sent, numbered by their position
  read,        \* requests whose newline was delivered
  handled,     \* requests in the order they were handled
  before,      \* per request, those of its key with a result when it was handled
  performed,   \* requests whose game action was executed with success
  answers,     \* results written while connected
  breaks

link == <<connected, breaks>>
wire == <<stream, inbound, read>>
vars == <<connected, stream, inbound, cache, phase, outcome, park, sent, read, handled, before,
          performed, answers, breaks>>

Request == 1..MaxRequests
Piece == [msg: Request, last: BOOLEAN]
\* A promise is in its query or its execution, has a result to record or to
\* send, or is done.
Phase == {"none", "query", "execute", "settle", "reply", "done"}
\* What an action costs is left out: an absent cost counts as 0.
GameActionResult == [error: {None, 0, 1}, message: BOOLEAN, cost: {None}]

Key(m) == sent[m].idempotency_key

TypeOK ==
  /\ connected \in BOOLEAN
  /\ stream \in Seq(Piece)
  /\ inbound \in Seq(Piece)
  /\ cache \in [Keys -> CommandResult \cup {None}]
  /\ phase \in [Request -> Phase]
  /\ outcome \in [Request -> CommandResult \cup {None}]
  /\ park \in Park
  /\ sent \in Seq(CommandRequest) /\ Len(sent) <= MaxRequests
  /\ read \subseteq Request
  /\ handled \in Seq(Request)
  /\ before \in [Request -> SUBSET Request]
  /\ performed \subseteq Request
  /\ answers \in Seq(ResultEnvelope)
  /\ breaks \in 0..MaxBreaks
  /\ BuildObservationSnapshot(park) \in ObservationSnapshot

Init ==
  /\ connected = TRUE
  /\ stream = <<>>
  /\ inbound = <<>>
  /\ cache = [k \in Keys |-> None]
  /\ phase = [m \in Request |-> "none"]
  /\ outcome = [m \in Request |-> None]
  /\ park \in StartParks
  /\ sent = <<>>
  /\ read = {}
  /\ handled = <<>>
  /\ before = [m \in Request |-> {}]
  /\ performed = {}
  /\ answers = <<>>
  /\ breaks = 0

-----------------------------------------------------------------------------
(***************************************************************************)
(* The other end, the network and the game.                                *)
(***************************************************************************)
\* A request under a new key, or again the one sent under that key.
Send(request) ==
  LET m == Len(sent) + 1 IN
  /\ connected
  /\ m \in Request
  /\ \A n \in DOMAIN sent : Key(n) = request.idempotency_key => sent[n] = request
  /\ sent' = Append(sent, request)
  /\ stream' = stream \o <<[msg |-> m, last |-> FALSE], [msg |-> m, last |-> TRUE]>>
  /\ UNCHANGED <<link, inbound, read, cache, phase, outcome, park, handled, before, performed,
                 answers>>

\* onClose or onError: what is under way is lost, the fragment stays.
Break ==
  /\ connected
  /\ breaks < MaxBreaks
  /\ breaks' = breaks + 1
  /\ connected' = FALSE
  /\ stream' = <<>>
  /\ UNCHANGED <<inbound, read, cache, phase, outcome, park, sent, handled, before, performed,
                 answers>>

OnConnect ==
  /\ ~connected
  /\ connected' = TRUE
  /\ UNCHANGED <<wire, breaks, cache, phase, outcome, park, sent, handled, before, performed,
                 answers>>

\* A ride is simulated, a status the protocol has no word for.
GameMoves(id) ==
  /\ park.rides[id] # None
  /\ park' = [park EXCEPT !.rides[id].status = "simulating"]
  /\ UNCHANGED <<link, wire, cache, phase, outcome, sent, handled, before, performed, answers>>

-----------------------------------------------------------------------------
(***************************************************************************)
(* onData and handleLine.                                                  *)
(***************************************************************************)
\* JSON.parse succeeds on a line that is one whole request.
Parses(line) ==
  Len(line) = 2 /\ line[1] = [msg |-> line[2].msg, last |-> FALSE] /\ line[2].last

\* One more piece: a newline ends the line, which is a request if it parses.
Take(split, piece) ==
  LET line == Append(split.rest, piece) IN
  IF ~piece.last
    THEN [split EXCEPT !.rest = line]
    ELSE [requests |-> IF Parses(line) THEN Append(split.requests, piece.msg)
                                       ELSE split.requests,
          rest |-> <<>>]

\* What the loop finds in the first n pieces of the buffer: the requests among
\* the lines that are complete, and the fragment after the last newline.
Split(buffer) ==
  LET split[n \in 0..Len(buffer)] ==
        IF n = 0 THEN [requests |-> <<>>, rest |-> <<>>]
                 ELSE Take(split[n - 1], buffer[n])
  IN  split

\* The first, synchronous part of handleCommandRequest for the requests ms: a
\* recorded result is the answer, otherwise the game is queried.
Begin(ms) ==
  LET late(m) == cache[Key(m)] # None IN
  /\ handled' = handled \o ms
  /\ phase' = [m \in Request |-> IF m \notin Range(ms) THEN phase[m]
                                 ELSE IF late(m) THEN "reply" ELSE "query"]
  /\ outcome' = [m \in Request |-> IF m \in Range(ms) THEN cache[Key(m)] ELSE outcome[m]]
  /\ before' = [m \in Request |->
                  IF m \notin Range(ms) THEN before[m]
                  ELSE {n \in Range(handled) : Key(n) = Key(m) /\ phase[n] \in {"reply", "done"}}]

\* Plausible fault: one line is taken out of a chunk, not all of them.
OnDataOneLine(n) ==
  LET buffer == inbound \o SubSeq(stream, 1, n)
      newlines == {i \in DOMAIN buffer : buffer[i].last}
      end == IF newlines = {} THEN 0 ELSE Min(newlines)
  IN
  /\ stream' = SubSeq(stream, n + 1, Len(stream))
  /\ read' = read \cup {stream[i].msg : i \in {j \in 1..n : stream[j].last}}
  /\ inbound' = SubSeq(buffer, end + 1, Len(buffer))
  /\ Begin(Split(buffer)[end].requests)
  /\ UNCHANGED <<link, cache, park, sent, performed, answers>>

\* Plausible fault: every chunk is parsed by itself.
OnDataUnbuffered(n) ==
  /\ stream' = SubSeq(stream, n + 1, Len(stream))
  /\ read' = read \cup {stream[i].msg : i \in {j \in 1..n : stream[j].last}}
  /\ UNCHANGED inbound
  /\ Begin(Split(SubSeq(stream, 1, n))[n].requests)
  /\ UNCHANGED <<link, cache, park, sent, performed, answers>>

\* A chunk of n pieces arrives: its complete lines are handled in one go.
OnData(n) ==
  LET buffer == inbound \o SubSeq(stream, 1, n)
      parts == Split(buffer)[Len(buffer)]
  IN
  /\ stream' = SubSeq(stream, n + 1, Len(stream))
  /\ read' = read \cup {stream[i].msg : i \in {j \in 1..n : stream[j].last}}
  /\ inbound' = parts.rest
  /\ Begin(parts.requests)
  /\ UNCHANGED <<link, cache, park, sent, performed, answers>>

-----------------------------------------------------------------------------
(***************************************************************************)
(* The awaited rest of handleCommandRequest, one step per continuation.    *)
(***************************************************************************)
\* The result of a query or an execution that was refused, or went well.
ResultOf(r) ==
  [engine_cost |-> IF ToErrorInfo(r) # None THEN None ELSE IF r.cost = None THEN 0 ELSE r.cost,
   engine_error |-> ToErrorInfo(r)]

\* Plausible fault: a refusal is returned without being recorded.
QueryRefusedUnrecorded(m, r) ==
  /\ phase[m] = "query"
  /\ phase' = [phase EXCEPT ![m] = IF ToErrorInfo(r) = None THEN "execute" ELSE "reply"]
  /\ outcome' = [outcome EXCEPT ![m] = IF ToErrorInfo(r) = None THEN None ELSE ResultOf(r)]
  /\ UNCHANGED <<link, wire, cache, park, sent, handled, before, performed, answers>>

\* queryAction's callback: a refusal is the result, else executeAction follows.
QueryReturns(m, r) ==
  /\ phase[m] = "query"
  /\ phase' = [phase EXCEPT ![m] = IF ToErrorInfo(r) = None THEN "execute" ELSE "settle"]
  /\ outcome' = [outcome EXCEPT ![m] = IF ToErrorInfo(r) = None THEN None ELSE ResultOf(r)]
  /\ UNCHANGED <<link, wire, cache, park, sent, handled, before, performed, answers>>

\* The game executes the action, or refuses it after all.
Execute(m, r) ==
  LET failed == r.error \notin {None, 0} IN
  /\ phase[m] = "execute"
  /\ phase' = [phase EXCEPT ![m] = "settle"]
  /\ outcome' = [outcome EXCEPT ![m] = ResultOf(r)]
  /\ park' = IF failed THEN park ELSE Executed(park, ToGameAction(sent[m].command))
  /\ performed' = IF failed THEN performed ELSE performed \cup {m}
  /\ UNCHANGED <<link, wire, cache, sent, handled, before, answers>>

\* idempotencyCache.set and the return.
Settle(m) ==
  /\ phase[m] = "settle"
  /\ phase' = [phase EXCEPT ![m] = "reply"]
  /\ cache' = [cache EXCEPT ![Key(m)] = outcome[m]]
  /\ UNCHANGED <<link, wire, outcome, park, sent, handled, before, performed, answers>>

\* sendCommandResult, which writes nothing without a connection.
Reply(m) ==
  /\ phase[m] = "reply"
  /\ phase' = [phase EXCEPT ![m] = "done"]
  /\ answers' = IF ~connected THEN answers
                ELSE Append(answers,
                            [kind |-> "command.result", payload |-> outcome[m],
                             correlation_id |-> m,
                             status |-> IF outcome[m].engine_error = None THEN "ok" ELSE "error"])
  /\ UNCHANGED <<link, wire, cache, outcome, park, sent, handled, before, performed>>

-----------------------------------------------------------------------------
Promise(m) ==
  \/ \E r \in GameActionResult : QueryReturns(m, r) \/ Execute(m, r)
  \/ Settle(m)
  \/ Reply(m)

Next ==
  \/ \E request \in Commands : Send(request)
  \/ Break
  \/ OnConnect
  \/ \E id \in RideIds : GameMoves(id)
  \/ \E n \in 1..Len(stream) : OnData(n)
  \/ \E m \in Request : Promise(m)

Spec == Init /\ [][Next]_vars

\* The network delivers what was written while the connection lasts, and the
\* game calls back.
FairSpec ==
  /\ Spec
  /\ WF_vars(\E n \in 1..Len(stream) : OnData(n))
  /\ \A m \in Request : WF_vars(Promise(m))

-----------------------------------------------------------------------------
\* Whatever the chunks, requests are handled in the order they were sent, none
\* twice, and each break costs at most one whole line: the one that is glued to
\* the fragment it left.
LinesSurviveChunks ==
  /\ \A i, j \in DOMAIN handled : i < j => handled[i] < handled[j]
  /\ Cardinality(read \ Range(handled)) <= breaks

\* A request that comes when its key has a result does nothing and is answered
\* with a result its key already had.  (One that comes earlier, while the first
\* is still awaited, is executed again.)
ReplaysAreNoOps ==
  \A m \in Range(handled) : before[m] # {} =>
    /\ phase[m] \in {"reply", "done"}
    /\ m \notin performed
    /\ \E n \in before[m] : outcome[n] = outcome[m]

\* "ok" is only said of a command that was executed, "error" only of one that
\* was refused, under the same key.
AnswersAreTrue ==
  \A i \in DOMAIN answers :
    \E n \in Range(handled) :
      /\ Key(n) = Key(answers[i].correlation_id)
      /\ answers[i].status = "ok" <=> n \in performed
      /\ outcome[n] = answers[i].payload

\* The commands mean on the park what the protocol says, as its snapshots show.
Remote == INSTANCE RemotePark WITH
  observed <- BuildObservationSnapshot(park), fee <- park.fee,
  asked <- {sent[m].command : m \in DOMAIN sent}
ObservedAsCommanded == Remote!Spec

\* No fragment of an earlier connection is waiting for this one's first line.
Clean == inbound = <<>> \/ \E i \in DOMAIN stream : stream[i].msg = Head(inbound).msg

\* A request on its way on a connection without such a fragment is answered, or
\* the connection breaks first.
SteadyLinkAnswers ==
  \A m \in Request :
    (\E i \in DOMAIN stream : stream[i].msg = m) /\ Clean
      ~> ~connected \/ \E i \in DOMAIN answers : answers[i].correlation_id = m

-----------------------------------------------------------------------------
(***************************************************************************)
(* The inductive invariant.                                                *)
(***************************************************************************)
Answered == {"reply", "done"}
Settled == {"settle"} \cup Answered

\* Requests and the pieces to come are in the order in which they were sent.
InOrder(done, pieces) ==
  /\ \A i \in DOMAIN done : done[i] \in DOMAIN sent
  /\ \A i, j \in DOMAIN done : i < j => done[i] < done[j]
  /\ \A i \in DOMAIN pieces :
       pieces[i].msg \in DOMAIN sent /\ \A j \in DOMAIN done : done[j] < pieces[i].msg
  /\ \A i, j \in DOMAIN pieces : i < j =>
       pieces[i].msg < pieces[j].msg \/ (~pieces[i].last /\ pieces[j].last)

\* No newline waits in the fragment, and each one to come follows its own line's
\* first half, though that may have been the end of the fragment.
Paired(fragment, pieces) ==
  /\ \A i \in DOMAIN fragment : ~fragment[i].last
  /\ \A i \in DOMAIN pieces :
       IF pieces[i].last
         THEN IF i = 1 THEN fragment # <<>> ELSE ~pieces[i - 1].last
         ELSE i + 1 \in DOMAIN pieces /\ pieces[i + 1] = [msg |-> pieces[i].msg, last |-> TRUE]

\* The next newline ends exactly the line that the fragment began.
Whole(fragment, pieces) ==
  \/ fragment = <<>>
  \/ /\ Len(fragment) = 1 /\ pieces # <<>>
     /\ pieces[1] = [msg |-> fragment[1].msg, last |-> TRUE]

\* Each break has cost a line, or the fragment it left still has it to cost.
Paid(done, fragment, pieces, ends) ==
  Cardinality(ends \ Range(done)) + (IF Whole(fragment, pieces) THEN 0 ELSE 1) <= breaks

FramingInv ==
  InOrder(handled, stream) /\ Paired(inbound, stream) /\ Paid(handled, inbound, stream, read)

\* A promise began with its request; one that has a result keeps it, and only
\* one that has a result has changed the game.
PromiseInv ==
  \A m \in Request :
    /\ phase[m] = "none" <=> m \notin Range(handled)
    /\ phase[m] \in Settled => outcome[m] \in CommandResult
    /\ m \in performed => phase[m] \in Settled

\* n is a request of key k that was executed or refused as its result r says.
Tells(n, k, r) ==
  /\ n \in Range(handled)
  /\ Key(n) = k
  /\ phase[n] \in Settled
  /\ outcome[n] = r
  /\ r.engine_error = None <=> n \in performed

\* Whatever result a key, a promise or an answer has was once earned.
TruthInv ==
  /\ \A m \in Range(handled) :
       phase[m] \in Settled => \E n \in Range(handled) : Tells(n, Key(m), outcome[m])
  /\ \A i \in DOMAIN answers :
       /\ answers[i].correlation_id \in DOMAIN sent
       /\ answers[i].status = "ok" <=> answers[i].payload.engine_error = None
       /\ \E n \in Range(handled) : Tells(n, Key(answers[i].correlation_id), answers[i].payload)

\* A key has a result in the cache once a request of it is answered, and it is
\* the result of one of them.
CacheInv ==
  /\ \A m \in Range(handled) : phase[m] \in Answered => cache[Key(m)] # None
  /\ \A k \in Keys : cache[k] # None =>
       \E n \in Range(handled) : /\ Key(n) = k /\ phase[n] \in Answered
                                 /\ outcome[n] = cache[k]

\* The requests that came before a replay are answered.
ReplayInv ==
  /\ \A m \in Range(handled) : \A n \in before[m] : n \in Range(handled) /\ phase[n] \in Answered
  /\ ReplaysAreNoOps

IInv ==
  /\ TypeOK
  /\ FramingInv
  /\ PromiseInv
  /\ TruthInv
  /\ CacheInv
  /\ ReplayInv
=============================================================================
