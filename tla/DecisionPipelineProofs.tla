----------------------- MODULE DecisionPipelineProofs -----------------------
(***************************************************************************)
(* IInv is inductive, and the safety properties of DecisionPipeline follow *)
(* from it, for every set of rides, every Constitution and every bound.    *)
(***************************************************************************)
EXTENDS DecisionPipeline, SequenceFacts

USE BoundsAssumption, ConstitutionAssumption

-----------------------------------------------------------------------------
\* The empty ledger and the first start satisfy the invariant.
LEMMA InitIInv == Init => IInv
<1> SUFFICES ASSUME Init PROVE IInv
  OBVIOUS
<1> USE DEF Init
<1>1. /\ proposals \in Seq(Key) /\ snapshots \in Seq(Ticks) /\ toBridge \in Seq(Ids)
      /\ toOrch \in Seq(Message) /\ buffered \in Seq(Park) /\ executed \in Seq(Ids)
  BY EmptyFacts
<1>2. /\ Len(proposals) = 0 /\ Len(buffered) = 0
      /\ DOMAIN snapshots = {} /\ DOMAIN toBridge = {} /\ DOMAIN toOrch = {}
      /\ DOMAIN executed = {}
      /\ ToSet(toBridge) = {} /\ ToSet(toOrch) = {} /\ ToSet(executed) = {}
  BY EmptyFacts
<1>3. TypeOK
  BY <1>1, <1>2 DEF TypeOK, MainPC, Ticks, Park, NoSave, NoSnap
<1>4. LedgerInv
  BY DEF LedgerInv
<1>5. OnePlaceInv
  BY <1>2 DEF OnePlaceInv
<1>6. WaitingInv
  BY DEF WaitingInv
<1>7. OutcomeInv
  BY <1>2 DEF OutcomeInv, Results
<1>8. OrderInv
  BY <1>2 DEF OrderInv, Snapshots
<1>9. FilesInv
  BY <1>2 DEF FilesInv
<1> QED
  BY <1>3, <1>4, <1>5, <1>6, <1>7, <1>8, <1>9 DEF IInv

-----------------------------------------------------------------------------
\* What the bridge sends is a message, and arrives last or not at all.
LEMMA PushType ==
  ASSUME TypeOK, NEW m \in Message, Push(m)
  PROVE  toOrch' \in Seq(Message)
BY AppendFacts DEF TypeOK, Push

\* A restore joins the others.
LEMMA RestoreType ==
  ASSUME TypeOK, FilesInv, NEW p \in Pending, NEW copied \in BOOLEAN, Restore(p, copied),
         p.snap \in DOMAIN snapshots
  PROVE  restored' \subseteq [id : Ids, park : Park]
<1>1. files[snapshots[p.snap]] \in Park
  BY SeqFacts DEF TypeOK
<1> QED
  BY <1>1 DEF Restore, TypeOK, Pending

\* Types are preserved.
LEMMA TypeStep == IInv /\ [Next]_vars => TypeOK'
<1> SUFFICES ASSUME IInv, [Next]_vars PROVE TypeOK'
  OBVIOUS
<1> USE DEF ledger, parks, memory, hand, wire, bridge
<1>0. TypeOK /\ LedgerInv /\ OutcomeInv /\ FilesInv
  BY DEF IInv
<1>1. ASSUME Wire PROVE TypeOK'
  <2>1. CASE Connect
    <3>1. toOrch' \in Seq(Message)
      <4>1. toOrch' \in [1..Len(buffered) -> Message]
        BY <1>0, <2>1, SeqFacts DEF Connect, Message, TypeOK
      <4> QED
        BY <4>1, <1>0, SeqFacts, FunctionFacts DEF TypeOK
    <3>2. buffered' \in Seq(Park) /\ Len(buffered') <= MaxBuffered
      BY <2>1, EmptyFacts DEF Connect
    <3> QED
      BY <1>0, <2>1, <3>1, <3>2 DEF Connect, TypeOK, MainPC
  <2>2. CASE Break
    <3>1. toBridge' \in Seq(Ids) /\ toOrch' \in Seq(Message)
      BY <1>0, <2>2, EmptyFacts, PrefixFacts DEF Break, TypeOK
    <3> QED
      BY <1>0, <2>2, <3>1 DEF Break, TypeOK
  <2>3. CASE EndOfConnection
    BY <1>0, <2>3 DEF EndOfConnection, TypeOK, MainPC
  <2>4. CASE Crash
    <3>1. toBridge' \in Seq(Ids) /\ toOrch' \in Seq(Message)
      BY <2>4, EmptyFacts DEF Crash
    <3> QED
      BY <1>0, <2>4, <3>1 DEF Crash, TypeOK, MainPC, Ticks, Park
  <2>5. CASE Restart
    BY <1>0, <2>5 DEF Restart, TypeOK, MainPC
  <2> QED
    BY <1>1, <2>1, <2>2, <2>3, <2>4, <2>5 DEF Wire
<1>2. ASSUME Receives PROVE TypeOK'
  <2>0. ASSUME NEW kind, Receive(kind)
        PROVE  Head(toOrch) \in Message /\ Tail(toOrch) \in Seq(Message)
    BY <1>0, <2>0, TailFacts DEF Receive, TypeOK
  <2>1. CASE HeartbeatReceived
    BY <1>0, <2>0, <2>1 DEF HeartbeatReceived, TypeOK, Receive, Message
  <2>2. CASE SnapshotReceived
    BY <1>0, <2>0, <2>2 DEF SnapshotReceived, TypeOK, Receive, Message, MainPC
  <2>3. ASSUME NEW p \in unverified, NEW dropped \in BOOLEAN, NEW copied \in BOOLEAN,
               Verify(p, dropped, copied)
        PROVE  TypeOK'
    <3>1. restored' \subseteq [id : Ids, park : Park]
      BY <1>0, <2>3, RestoreType DEF Verify, TypeOK, FilesInv
    <3> QED
      BY <1>0, <2>3, <3>1 DEF Verify, TypeOK
  <2>4. ASSUME NEW rides \in SUBSET Rides, StartProposing(rides) PROVE TypeOK'
    BY <1>0, <2>4 DEF StartProposing, TypeOK, MainPC
  <2>5. CASE UnknownResult
    BY <1>0, <2>0, <2>5 DEF UnknownResult, TypeOK
  <2>6. ASSUME NEW persisted \in BOOLEAN, NEW copied \in BOOLEAN,
               ResultReceived(persisted, copied)
        PROVE  TypeOK'
    <3> DEFINE p == Correlated(Head(toOrch).id)
    <3>1. p \in pending_actions /\ p \in Pending
      BY <1>0, <2>6 DEF ResultReceived, Correlated, TypeOK
    <3>2. restored' \subseteq [id : Ids, park : Park]
      BY <1>0, <2>6, <3>1, RestoreType DEF ResultReceived, TypeOK, FilesInv
    <3>3. results' \in [Ids -> {"none", "ok", "error"}]
      BY <1>0, <2>6, <3>1 DEF ResultReceived, TypeOK, Pending
    <3>4. pending_actions' \subseteq Pending /\ pending_verifications' \subseteq Pending
      BY <1>0, <2>6, <3>1 DEF ResultReceived, TypeOK
    <3>5. toOrch' \in Seq(Message)
      BY <2>0, <2>6 DEF ResultReceived
    <3> QED
      BY <1>0, <2>6, <3>2, <3>3, <3>4, <3>5 DEF ResultReceived, TypeOK
  <2> QED
    BY <1>2, <2>1, <2>2, <2>3, <2>4, <2>5, <2>6 DEF Receives
<1>3. ASSUME HandleProposal PROVE TypeOK'
  <2>0. Current \in Nat /\ (Current >= 1 => Current \in Ids /\ proposals[Current] \in Key)
    BY <1>0, SeqFacts DEF TypeOK, Current, Ids
  <2>1. ASSUME NEW ride \in Rides, NEW ok \in BOOLEAN, Propose(ride, ok) PROVE TypeOK'
    <3>1. proposals' \in Seq(Key) /\ Len(proposals') <= MaxProposals
      <4>1. [ride |-> ride, tick |-> tick] \in Key
        BY <1>0 DEF Key, TypeOK
      <4> QED
        BY <1>0, <2>0, <2>1, <4>1, AppendFacts DEF Propose, TypeOK, Current
    <3> QED
      BY <1>0, <2>1, <3>1 DEF Propose, TypeOK, MainPC
  <2>2. CASE DoneProposing
    BY <1>0, <2>2 DEF DoneProposing, TypeOK, MainPC
  <2>3. ASSUME NEW answer \in {"open", "closed", "unreadable"}, Gate(answer) PROVE TypeOK'
    BY <1>0, <2>3 DEF Gate, TypeOK, MainPC
  <2>4. ASSUME NEW ok \in BOOLEAN, Refuse(ok) PROVE TypeOK'
    BY <1>0, <2>0, <2>4 DEF Refuse, TypeOK, MainPC, LedgerInv
  <2>5. CASE ReuseSnapshot
    <3>1. snap' \in DOMAIN snapshots
      BY <1>0, <2>5, TailFacts, SeqFacts DEF ReuseSnapshot, Recent, TypeOK
    <3> QED
      BY <1>0, <2>5, <3>1 DEF ReuseSnapshot, TypeOK, MainPC
  <2>6. ASSUME NEW ok \in BOOLEAN, TakeSnapshot(ok) PROVE TypeOK'
    <3>1. files' \in [Ticks -> Park]
      BY <1>0, <2>6 DEF TakeSnapshot, TypeOK
    <3>2. snapshots' \in Seq(Ticks) /\ snap' \in {NoSnap} \cup DOMAIN snapshots'
      <4>1. /\ Append(snapshots, tick) \in Seq(Ticks)
            /\ Len(Append(snapshots, tick)) = Len(snapshots) + 1
            /\ DOMAIN Append(snapshots, tick) = 1..Len(snapshots) + 1
            /\ DOMAIN snapshots = 1..Len(snapshots) /\ Len(snapshots) \in Nat
        BY <1>0, AppendFacts, SeqFacts DEF TypeOK
      <4>2. CASE ok
        BY <2>6, <4>1, <4>2 DEF TakeSnapshot
      <4>3. CASE ~ok
        BY <1>0, <2>6, <4>3 DEF TakeSnapshot, TypeOK
      <4> QED
        BY <4>2, <4>3
    <3> QED
      BY <1>0, <2>6, <3>1, <3>2 DEF TakeSnapshot, TypeOK, MainPC
  <2>7. CASE NoSnapshot
    BY <1>0, <2>7 DEF NoSnapshot, TypeOK, MainPC
  <2>8. ASSUME NEW spent \in BOOLEAN, Authorize(spent) PROVE TypeOK'
    BY <1>0, <2>0, <2>8 DEF Authorize, TypeOK, MainPC, LedgerInv, Key
  <2>9. ASSUME NEW ok \in BOOLEAN, RecordAuthorization(ok) PROVE TypeOK'
    BY <1>0, <2>0, <2>9 DEF RecordAuthorization, TypeOK, MainPC, LedgerInv
  <2>10. ASSUME NEW ok \in BOOLEAN, RecordAction(ok) PROVE TypeOK'
    BY <1>0, <2>0, <2>10 DEF RecordAction, TypeOK, MainPC, LedgerInv
  <2>11. ASSUME NEW ok \in BOOLEAN, Send(ok) PROVE TypeOK'
    <3>1. Current \in Ids /\ [id |-> Current, snap |-> snap] \in Pending
      <4>1. Current \in Ids
        BY <1>0, <2>11 DEF Send, LedgerInv, TypeOK
      <4>2. snap \in 1..Len(snapshots) /\ Len(snapshots) \in Nat
        BY <1>0, <2>11, SeqFacts DEF Send, FilesInv, TypeOK
      <4>3. Len(snapshots) \in DOMAIN snapshots
        BY <1>0, <4>2, SeqFacts DEF TypeOK
      <4>4. snapshots[Len(snapshots)] \in Ticks /\ snapshots[Len(snapshots)] >= Len(snapshots) - 1
        BY <1>0, <4>3, SeqFacts DEF TypeOK, FilesInv
      <4>5. snap \in 1..(MaxTick + 1)
        BY <4>2, <4>4 DEF Ticks
      <4> QED
        BY <4>1, <4>5 DEF Pending
    <3>2. toBridge' \in Seq(Ids)
      <4>1. toBridge \in Seq(Ids) /\ Append(toBridge, Current) \in Seq(Ids)
        BY <1>0, <3>1, AppendFacts DEF TypeOK
      <4> QED
        BY <2>11, <4>1 DEF Send
    <3> QED
      BY <1>0, <2>11, <3>1, <3>2 DEF Send, TypeOK, MainPC
  <2> QED
    BY <1>3, <2>1, <2>2, <2>3, <2>4, <2>5, <2>6, <2>7, <2>8, <2>9, <2>10, <2>11
       DEF HandleProposal
<1>4. ASSUME Bridge PROVE TypeOK'
  <2>0. ToSet(executed) \in Park
    BY <1>0, SeqFacts DEF TypeOK, Park
  <2>1. CASE EngineTick
    <3>1. clock' \in Ticks
      BY <1>0, <2>1 DEF EngineTick, TypeOK, Ticks
    <3>2. toOrch' \in Seq(Message)
      BY <1>0, <2>1, <3>1, PushType DEF EngineTick, Message
    <3> QED
      BY <1>0, <2>1, <3>1, <3>2 DEF EngineTick, TypeOK
  <2>2. CASE SendSnapshot
    <3>1. toOrch' \in Seq(Message)
      BY <1>0, <2>0, <2>2, PushType DEF SendSnapshot, Message
    <3>2. buffered' \in Seq(Park) /\ Len(buffered') <= MaxBuffered
      <4> DEFINE line == Append(buffered, ToSet(executed))
      <4>1. line \in Seq(Park) /\ Len(line) = Len(buffered) + 1
        BY <1>0, <2>0, AppendFacts DEF TypeOK
      <4>2. Len(buffered) \in Nat /\ line # <<>>
        <5>1. Len(buffered) \in Nat
          BY <1>0, SeqFacts DEF TypeOK
        <5>2. Len(<<>>) = 0
          BY EmptyFacts
        <5> QED
          BY <4>1, <5>1, <5>2
      <4>3. Tail(line) \in Seq(Park) /\ Len(Tail(line)) = Len(buffered)
        BY <4>1, <4>2, TailFacts
      <4> QED
        BY <1>0, <2>2, <4>1, <4>2, <4>3 DEF SendSnapshot, TypeOK
    <3> QED
      BY <1>0, <2>2, <3>1, <3>2 DEF SendSnapshot, TypeOK
  <2>3. CASE Autosave
    BY <1>0, <2>0, <2>3 DEF Autosave, TypeOK
  <2>4. CASE HandleRequest
    <3>1. Head(toBridge) \in Ids /\ Tail(toBridge) \in Seq(Ids)
      BY <1>0, <2>4, TailFacts DEF HandleRequest, TypeOK
    <3>2. handling' \subseteq Handling
      <4> DEFINE id == Head(toBridge)
      <4>1. [id |-> id, phase |-> "query", ok |-> TRUE] \in Handling
        BY <3>1 DEF Handling
      <4>2. \A good \in BOOLEAN : [id |-> id, phase |-> "reply", ok |-> good] \in Handling
        BY <3>1 DEF Handling
      <4>3. (cache[IdempotencyKey(id)] = "ok") \in BOOLEAN
        OBVIOUS
      <4> QED
        BY <1>0, <2>4, <4>1, <4>2, <4>3 DEF HandleRequest, TypeOK
    <3> QED
      BY <1>0, <2>4, <3>1, <3>2 DEF HandleRequest, TypeOK
  <2>5. ASSUME NEW h \in handling, NEW ok \in BOOLEAN, QueryAction(h, ok) PROVE TypeOK'
    <3>1. handling' \subseteq Handling
      <4>1. /\ [h EXCEPT !.phase = "execute"] \in Handling
            /\ [h EXCEPT !.phase = "reply", !.ok = FALSE] \in Handling
        BY <1>0 DEF TypeOK, Handling
      <4> QED
        <5>1. \E new \in Handling : handling' = (handling \ {h}) \cup {new}
          BY <2>5, <4>1 DEF QueryAction, Replace
        <5>2. handling \subseteq Handling
          BY <1>0 DEF TypeOK
        <5> QED
          BY <5>1, <5>2
    <3>2. cache' \in [Key -> {"none", "ok", "error"}]
      BY <1>0, <2>5 DEF QueryAction, TypeOK
    <3> QED
      BY <1>0, <2>5, <3>1, <3>2 DEF QueryAction, TypeOK
  <2>6. ASSUME NEW h \in handling, NEW ok \in BOOLEAN, ExecuteAction(h, ok) PROVE TypeOK'
    <3>1. h.id \in Ids /\ [h EXCEPT !.phase = "reply", !.ok = ok] \in Handling
      BY <1>0 DEF TypeOK, Handling
    <3>2. executed' \in Seq(Ids)
      BY <1>0, <2>6, <3>1, AppendFacts DEF ExecuteAction, TypeOK
    <3>3. handling' \subseteq Handling
      BY <1>0, <2>6, <3>1 DEF ExecuteAction, Replace, TypeOK
    <3>4. cache' \in [Key -> {"none", "ok", "error"}]
      BY <1>0, <2>6 DEF ExecuteAction, TypeOK
    <3> QED
      BY <1>0, <2>6, <3>2, <3>3, <3>4 DEF ExecuteAction, TypeOK
  <2>7. ASSUME NEW h \in handling, SendCommandResult(h) PROVE TypeOK'
    <3>1. toOrch' \in Seq(Message)
      BY <1>0, <2>7, PushType DEF SendCommandResult, Message, TypeOK, Handling
    <3> QED
      BY <1>0, <2>7, <3>1 DEF SendCommandResult, TypeOK
  <2> QED
    BY <1>4, <2>1, <2>2, <2>3, <2>4, <2>5, <2>6, <2>7 DEF Bridge
<1>5. ASSUME UNCHANGED vars PROVE TypeOK'
  BY <1>0, <1>5 DEF TypeOK, vars
<1> QED
  BY <1>1, <1>2, <1>3, <1>4, <1>5 DEF Next

-----------------------------------------------------------------------------
\* What the steps of the wire leave alone, and where they take the loop.
LEMMA WireFrame ==
  ASSUME Wire
  PROVE  /\ UNCHANGED <<proposals, authorizations, actions, results>>
         /\ UNCHANGED <<snapshots, files, restored>>
         /\ UNCHANGED <<clock, handling, cache, executed, autosave>>
         /\ main' = main \/ main' \in {"down", "accept", "idle"}
         /\ toBridge' = toBridge \/ toBridge' = <<>>
<1> USE DEF ledger, parks, memory, hand, wire, bridge
<1>1. CASE Connect \/ Break
  BY <1>1 DEF Connect, Break
<1>2. CASE EndOfConnection \/ Crash \/ Restart
  BY <1>2 DEF EndOfConnection, Crash, Restart
<1> QED
  BY <1>1, <1>2 DEF Wire

\* The same of a message received, and of what it starts.
LEMMA ReceivesFrame ==
  ASSUME Receives
  PROVE  /\ UNCHANGED <<proposals, authorizations, actions, snapshots, files>>
         /\ UNCHANGED <<link, toBridge, buffered, clock, handling, cache, executed, autosave>>
         /\ main' = main \/ main' \in {"verify", "propose"}
<1> USE DEF ledger, parks, memory, hand, wire, bridge
<1>1. CASE HeartbeatReceived \/ SnapshotReceived \/ UnknownResult
  BY <1>1 DEF HeartbeatReceived, SnapshotReceived, UnknownResult
<1>2. CASE \E p \in unverified, dropped, copied \in BOOLEAN : Verify(p, dropped, copied)
  BY <1>2 DEF Verify
<1>3. CASE \E rides \in SUBSET Rides : StartProposing(rides)
  BY <1>3 DEF StartProposing
<1>4. CASE \E persisted, copied \in BOOLEAN : ResultReceived(persisted, copied)
  BY <1>4 DEF ResultReceived
<1> QED
  BY <1>1, <1>2, <1>3, <1>4 DEF Receives

\* The same of the steps of handle_proposal.
LEMMA HandleProposalFrame ==
  ASSUME HandleProposal
  PROVE  /\ UNCHANGED <<results, restored, tick, pending_verifications, unverified, seen>>
         /\ UNCHANGED <<link, toOrch, buffered, clock, handling, cache, executed, autosave>>
         /\ main' \notin {"down", "accept", "verify"}
<1> USE DEF ledger, parks, memory, hand, wire, bridge
<1>1. CASE (\E ride \in Rides, ok \in BOOLEAN : Propose(ride, ok)) \/ DoneProposing
  BY <1>1 DEF Propose, DoneProposing
<1>2. CASE \E answer \in {"open", "closed", "unreadable"} : Gate(answer)
  BY <1>2 DEF Gate
<1>3. CASE (\E ok \in BOOLEAN : Refuse(ok) \/ TakeSnapshot(ok)) \/ ReuseSnapshot \/ NoSnapshot
  BY <1>3 DEF Refuse, ReuseSnapshot, TakeSnapshot, NoSnapshot
<1>4. CASE \E spent \in BOOLEAN : Authorize(spent)
  BY <1>4 DEF Authorize
<1>5. CASE \E ok \in BOOLEAN : RecordAuthorization(ok) \/ RecordAction(ok) \/ Send(ok)
  BY <1>5 DEF RecordAuthorization, RecordAction, Send
<1> QED
  BY <1>1, <1>2, <1>3, <1>4, <1>5 DEF HandleProposal

\* The same of the bridge, which knows nothing of the ledger.
LEMMA BridgeFrame ==
  ASSUME Bridge
  PROVE  /\ UNCHANGED <<proposals, authorizations, actions, results>>
         /\ UNCHANGED <<snapshots, files, restored, main, todo, snap>>
         /\ UNCHANGED <<tick, last_tick, pending_actions, pending_verifications, unverified,
                        seen, link>>
<1> USE DEF ledger, parks, memory, hand, wire, bridge
<1>1. CASE EngineTick \/ SendSnapshot \/ Autosave \/ HandleRequest
  BY <1>1 DEF EngineTick, SendSnapshot, Autosave, HandleRequest
<1>2. CASE \E h \in handling, ok \in BOOLEAN : QueryAction(h, ok) \/ ExecuteAction(h, ok)
  BY <1>2 DEF QueryAction, ExecuteAction
<1>3. CASE \E h \in handling : SendCommandResult(h)
  BY <1>3 DEF SendCommandResult
<1> QED
  BY <1>1, <1>2, <1>3 DEF Bridge

-----------------------------------------------------------------------------
\* The ledger stays consistent: an action is authorized before its row, and no
\* other action has its key.
LEMMA LedgerStep == IInv /\ [Next]_vars => LedgerInv'
<1> SUFFICES ASSUME IInv, [Next]_vars PROVE LedgerInv'
  OBVIOUS
<1> USE DEF ledger, parks, memory, hand, wire, bridge
<1>0. TypeOK /\ LedgerInv
  BY DEF IInv
<1>1. ASSUME UNCHANGED <<proposals, authorizations, actions>>,
             main' = main \/ main' \in {"down", "accept", "idle", "verify", "propose"}
      PROVE  LedgerInv'
  BY <1>0, <1>1 DEF LedgerInv, Current, IdempotencyKey
<1>2. CASE Wire
  BY <1>1, <1>2, WireFrame
<1>3. CASE Receives
  BY <1>1, <1>3, ReceivesFrame
<1>4. ASSUME HandleProposal PROVE LedgerInv'
  <2>0. Current \in Nat /\ actions \subseteq Ids
    BY <1>0, SeqFacts DEF TypeOK, Current
  <2>1. ASSUME NEW ride \in Rides, NEW ok \in BOOLEAN, Propose(ride, ok) PROVE LedgerInv'
    <3>1. CASE ok
      <4>1. [ride |-> ride, tick |-> tick] \in Key
        BY <1>0 DEF Key, TypeOK
      <4>2. /\ Current' = Current + 1
            /\ \A i \in 1..Current : IdempotencyKey(i)' = IdempotencyKey(i)
        BY <1>0, <2>1, <3>1, <4>1, AppendFacts, SeqFacts
           DEF Propose, TypeOK, Current, IdempotencyKey
      <4>3. \A i \in actions : i \in 1..Current /\ i # Current'
        BY <1>0, <2>0, <4>2 DEF LedgerInv, Ids
      <4> QED
        BY <1>0, <2>0, <2>1, <3>1, <4>2, <4>3 DEF Propose, LedgerInv
    <3>2. CASE ~ok
      BY <1>1, <2>1, <3>2 DEF Propose
    <3> QED
      BY <3>1, <3>2
  <2>2. CASE DoneProposing \/ ReuseSnapshot \/ NoSnapshot
    BY <1>0, <2>2 DEF DoneProposing, ReuseSnapshot, NoSnapshot, LedgerInv, Current,
                      IdempotencyKey
  <2>3. ASSUME NEW answer \in {"open", "closed", "unreadable"}, Gate(answer)
        PROVE  LedgerInv'
    BY <1>0, <2>3 DEF Gate, LedgerInv, Current, IdempotencyKey
  <2>4. ASSUME NEW ok \in BOOLEAN, Refuse(ok) PROVE LedgerInv'
    BY <1>0, <2>4 DEF Refuse, LedgerInv, Current, IdempotencyKey, TypeOK
  <2>5. ASSUME NEW ok \in BOOLEAN, TakeSnapshot(ok) PROVE LedgerInv'
    BY <1>0, <2>5 DEF TakeSnapshot, LedgerInv, Current, IdempotencyKey
  <2>6. ASSUME NEW spent \in BOOLEAN, Authorize(spent) PROVE LedgerInv'
    BY <1>0, <2>6 DEF Authorize, LedgerInv, Current, IdempotencyKey
  <2>7. ASSUME NEW ok \in BOOLEAN, RecordAuthorization(ok) PROVE LedgerInv'
    <3>1. Current \in Ids
      BY <1>0, <2>0, <2>7 DEF RecordAuthorization, LedgerInv, TypeOK, Current, Ids
    <3> QED
      BY <1>0, <2>7, <3>1 DEF RecordAuthorization, LedgerInv, Current, IdempotencyKey, TypeOK
  <2>8. ASSUME NEW ok \in BOOLEAN, RecordAction(ok) PROVE LedgerInv'
    BY <1>0, <2>0, <2>8 DEF RecordAction, KeyIsFree, LedgerInv, Current, IdempotencyKey
  <2>9. ASSUME NEW ok \in BOOLEAN, Send(ok) PROVE LedgerInv'
    BY <1>1, <2>9 DEF Send
  <2> QED
    BY <1>4, <2>1, <2>2, <2>3, <2>4, <2>5, <2>6, <2>7, <2>8, <2>9 DEF HandleProposal
<1>5. CASE Bridge
  BY <1>1, <1>5, BridgeFrame
<1>6. CASE UNCHANGED vars
  BY <1>1, <1>6 DEF vars
<1> QED
  BY <1>2, <1>3, <1>4, <1>5, <1>6 DEF Next

-----------------------------------------------------------------------------
\* A handled request leaves the wire, and no other has its number.
LEMMA HandledOnce ==
  ASSUME TypeOK, OnePlaceInv, HandleRequest
  PROVE  /\ Head(toBridge) \in ToSet(toBridge)
         /\ ToSet(toBridge) = ToSet(toBridge') \cup {Head(toBridge)}
         /\ Head(toBridge) \notin ToSet(toBridge')
         /\ \A m, n \in DOMAIN toBridge' : m # n => toBridge'[m] # toBridge'[n]
         /\ \E new \in Handling :
              /\ new.id = Head(toBridge)
              /\ handling' = handling \cup {new}
              /\ cache[IdempotencyKey(new.id)] = "none" => new.phase = "query"
<1> DEFINE id == Head(toBridge)
<1>1. /\ toBridge' = Tail(toBridge) /\ id \in Ids /\ id = toBridge[1] /\ 1 \in DOMAIN toBridge
      /\ toBridge' \in Seq(Ids) /\ DOMAIN toBridge' = 1..Len(toBridge) - 1
      /\ \A i \in DOMAIN toBridge' : i + 1 \in DOMAIN toBridge /\ toBridge'[i] = toBridge[i + 1]
      /\ ToSet(toBridge) = ToSet(toBridge') \cup {id}
  BY TailFacts DEF HandleRequest, TypeOK
<1>2. ASSUME NEW m \in DOMAIN toBridge', NEW n \in DOMAIN toBridge', m # n
      PROVE  toBridge'[m] # toBridge'[n]
  <2>1. m \in Int /\ n \in Int
    BY <1>1
  <2>2. m + 1 # n + 1
    BY <1>2, <2>1
  <2>3. /\ m + 1 \in DOMAIN toBridge /\ toBridge'[m] = toBridge[m + 1]
        /\ n + 1 \in DOMAIN toBridge /\ toBridge'[n] = toBridge[n + 1]
    BY <1>1
  <2> QED
    BY <2>2, <2>3 DEF OnePlaceInv
<1>3. \A i \in DOMAIN toBridge' : toBridge'[i] # id
  BY <1>1 DEF OnePlaceInv
<1>4. id \notin ToSet(toBridge')
  <2>1. toBridge' \in Seq(Ids)
    BY <1>1
  <2>2. \A x \in ToSet(toBridge') : \E i \in DOMAIN toBridge' : toBridge'[i] = x
    BY <2>1, SeqFacts
  <2> QED
    BY <1>3, <2>2
<1>5. \E new \in Handling :
        /\ new.id = id
        /\ handling' = handling \cup {new}
        /\ cache[IdempotencyKey(new.id)] = "none" => new.phase = "query"
  <2> DEFINE known == cache[IdempotencyKey(id)]
             query == [id |-> id, phase |-> "query", ok |-> TRUE]
             reply == [id |-> id, phase |-> "reply", ok |-> known = "ok"]
  <2>1. query \in Handling /\ query.id = id /\ query.phase = "query"
    BY <1>1 DEF Handling
  <2>2. (known = "ok") \in BOOLEAN
    OBVIOUS
  <2>3. reply \in Handling /\ reply.id = id
    BY <1>1, <2>2 DEF Handling
  <2>4. CASE known = "none"
    BY <2>1, <2>4 DEF HandleRequest
  <2>5. CASE known # "none"
    BY <2>3, <2>5 DEF HandleRequest
  <2> QED
    BY <2>4, <2>5
<1> QED
  BY <1>1, <1>2, <1>4, <1>5

\* A query or an execution moves its own handler on, and no other.
LEMMA MovedOn ==
  ASSUME TypeOK, NEW h \in handling, NEW ok \in BOOLEAN, QueryAction(h, ok) \/ ExecuteAction(h, ok)
  PROVE  \E new \in Handling :
           /\ new.id = h.id
           /\ handling' = (handling \ {h}) \cup {new}
           /\ h.phase # "reply"
           /\ QueryAction(h, ok) =>
                IF ok THEN new.phase = "execute" ELSE new.phase = "reply" /\ new.ok = FALSE
           /\ ExecuteAction(h, ok) => new.phase = "reply" /\ new.ok = ok
<1>0. h \in Handling /\ h.id \in Ids /\ DOMAIN h = {"id", "phase", "ok"}
  BY DEF TypeOK, Handling
<1>1. ASSUME QueryAction(h, ok), ok
      PROVE  /\ [h EXCEPT !.phase = "execute"] \in Handling
             /\ [h EXCEPT !.phase = "execute"].id = h.id
             /\ [h EXCEPT !.phase = "execute"].phase = "execute"
             /\ handling' = (handling \ {h}) \cup {[h EXCEPT !.phase = "execute"]}
  BY <1>0, <1>1 DEF QueryAction, Replace, Handling
<1>2. ASSUME QueryAction(h, ok), ~ok
      PROVE  \E new \in Handling :
               /\ new.id = h.id /\ new.phase = "reply" /\ new.ok = FALSE
               /\ handling' = (handling \ {h}) \cup {new}
  <2> DEFINE new == [h EXCEPT !.phase = "reply", !.ok = FALSE]
  <2>1. new \in Handling /\ new.id = h.id /\ new.phase = "reply" /\ new.ok = FALSE
    BY <1>0 DEF Handling
  <2> QED
    BY <1>2, <2>1 DEF QueryAction, Replace
<1>3. ASSUME ExecuteAction(h, ok)
      PROVE  \E new \in Handling :
               /\ new.id = h.id /\ new.phase = "reply" /\ new.ok = ok
               /\ handling' = (handling \ {h}) \cup {new}
  <2> DEFINE new == [h EXCEPT !.phase = "reply", !.ok = ok]
  <2>1. new \in Handling /\ new.id = h.id /\ new.phase = "reply" /\ new.ok = ok
    BY <1>0 DEF Handling
  <2> QED
    BY <1>3, <2>1 DEF ExecuteAction, Replace
<1>4. ~ (QueryAction(h, ok) /\ ExecuteAction(h, ok))
  BY DEF QueryAction, ExecuteAction
<1>5. h.phase # "reply"
  BY DEF QueryAction, ExecuteAction
<1> QED
  BY <1>1, <1>2, <1>3, <1>4, <1>5

\* Every request stays at one place on its way to the engine.
LEMMA OnePlaceStep == IInv /\ [Next]_vars => OnePlaceInv'
<1> SUFFICES ASSUME IInv, [Next]_vars PROVE OnePlaceInv'
  OBVIOUS
<1> USE DEF ledger, parks, memory, hand, wire, bridge
<1>0. TypeOK /\ LedgerInv /\ OnePlaceInv /\ toBridge \in Seq(Ids)
  BY DEF IInv, TypeOK
<1>1. ASSUME UNCHANGED <<actions, toBridge, handling>>, main' # "send" \/ UNCHANGED <<main, proposals>>
      PROVE  OnePlaceInv'
  BY <1>0, <1>1 DEF OnePlaceInv, Current
<1>2. ASSUME Wire PROVE OnePlaceInv'
  <2>1. CASE toBridge' = toBridge
    BY <1>1, <1>2, <2>1, WireFrame
  <2>2. CASE toBridge' = <<>>
    <3>1. ToSet(toBridge') = {} /\ DOMAIN toBridge' = {}
      BY <2>2, EmptyFacts
    <3> QED
      BY <1>0, <1>2, <3>1, WireFrame DEF OnePlaceInv, Current
  <2> QED
    BY <1>2, <2>1, <2>2, WireFrame
<1>3. CASE Receives
  BY <1>1, <1>3, ReceivesFrame
<1>4. ASSUME HandleProposal PROVE OnePlaceInv'
  <2>1. ASSUME NEW ride \in Rides, NEW ok \in BOOLEAN, Propose(ride, ok) PROVE OnePlaceInv'
    BY <1>1, <2>1 DEF Propose
  <2>2. CASE DoneProposing \/ ReuseSnapshot \/ NoSnapshot
    BY <1>1, <2>2 DEF DoneProposing, ReuseSnapshot, NoSnapshot
  <2>3. ASSUME NEW answer \in {"open", "closed", "unreadable"}, Gate(answer)
        PROVE  OnePlaceInv'
    BY <1>1, <2>3 DEF Gate
  <2>4. ASSUME NEW ok \in BOOLEAN, Refuse(ok) \/ TakeSnapshot(ok) \/ RecordAuthorization(ok)
        PROVE  OnePlaceInv'
    BY <1>1, <2>4 DEF Refuse, TakeSnapshot, RecordAuthorization
  <2>5. ASSUME NEW spent \in BOOLEAN, Authorize(spent) PROVE OnePlaceInv'
    BY <1>1, <2>5 DEF Authorize
  <2>6. ASSUME NEW ok \in BOOLEAN, RecordAction(ok) PROVE OnePlaceInv'
    BY <1>0, <2>6 DEF RecordAction, LedgerInv, OnePlaceInv, Current
  <2>7. ASSUME NEW ok \in BOOLEAN, Send(ok) PROVE OnePlaceInv'
    <3>1. CASE toBridge' = toBridge
      BY <1>1, <2>7, <3>1 DEF Send
    <3>2. CASE toBridge' = Append(toBridge, Current)
      <4>1. main = "send" /\ Current \in actions /\ Current \in Ids
        BY <1>0, <2>7 DEF Send, LedgerInv, TypeOK
      <4>2. /\ DOMAIN toBridge' = 1..Len(toBridge) + 1
            /\ \A i \in DOMAIN toBridge : toBridge'[i] = toBridge[i]
            /\ toBridge'[Len(toBridge) + 1] = Current
            /\ ToSet(toBridge') = ToSet(toBridge) \cup {Current}
        BY <1>0, <3>2, <4>1, AppendFacts
      <4>3. /\ \A i \in DOMAIN toBridge : toBridge[i] # Current
            /\ DOMAIN toBridge = 1..Len(toBridge) /\ Len(toBridge) \in Nat
        BY <1>0, <4>1, SeqFacts DEF OnePlaceInv
      <4>4. \A m, n \in DOMAIN toBridge' : m # n => toBridge'[m] # toBridge'[n]
        BY <1>0, <4>2, <4>3 DEF OnePlaceInv
      <4> QED
        BY <1>0, <2>7, <4>1, <4>2, <4>4 DEF OnePlaceInv, Send
    <3> QED
      BY <2>7, <3>1, <3>2 DEF Send
  <2> QED
    BY <1>4, <2>1, <2>2, <2>3, <2>4, <2>5, <2>6, <2>7 DEF HandleProposal
<1>5. ASSUME Bridge PROVE OnePlaceInv'
  <2>0. UNCHANGED <<actions, main, proposals>>
    BY <1>5, BridgeFrame
  <2>1. CASE EngineTick \/ SendSnapshot \/ Autosave
    BY <1>1, <2>0, <2>1 DEF EngineTick, SendSnapshot, Autosave
  <2>2. CASE HandleRequest
    BY <1>0, <2>0, <2>2, HandledOnce DEF OnePlaceInv, Current
  <2>3. ASSUME NEW h \in handling, NEW ok \in BOOLEAN, QueryAction(h, ok) \/ ExecuteAction(h, ok)
        PROVE  OnePlaceInv'
    <3>1. toBridge' = toBridge
      BY <2>3 DEF QueryAction, ExecuteAction
    <3>2. PICK new \in Handling : new.id = h.id /\ handling' = (handling \ {h}) \cup {new}
      BY <1>0, <2>3, MovedOn
    <3> QED
      BY <1>0, <2>0, <3>1, <3>2 DEF OnePlaceInv, Current
  <2>4. ASSUME NEW h \in handling, SendCommandResult(h) PROVE OnePlaceInv'
    BY <1>0, <2>0, <2>4 DEF SendCommandResult, OnePlaceInv, Current
  <2> QED
    BY <1>5, <2>1, <2>2, <2>3, <2>4 DEF Bridge
<1>6. CASE UNCHANGED vars
  BY <1>1, <1>6 DEF vars
<1> QED
  BY <1>2, <1>3, <1>4, <1>5, <1>6 DEF Next

-----------------------------------------------------------------------------
\* No step takes an action from the ledger, or changes its key.
LEMMA LedgerKeeps ==
  ASSUME IInv, [Next]_vars
  PROVE  actions \subseteq actions' /\ \A i \in actions : IdempotencyKey(i)' = IdempotencyKey(i)
<1> USE DEF ledger, parks, memory, hand, wire, bridge
<1>0. TypeOK /\ LedgerInv
  BY DEF IInv
<1>1. CASE UNCHANGED <<actions, proposals>>
  BY <1>1 DEF IdempotencyKey
<1>2. CASE Wire \/ Receives \/ Bridge \/ UNCHANGED vars
  BY <1>1, <1>2, WireFrame, ReceivesFrame, BridgeFrame DEF vars
<1>3. ASSUME NEW ride \in Rides, NEW ok \in BOOLEAN, Propose(ride, ok)
      PROVE  actions' = actions /\ \A i \in actions : IdempotencyKey(i)' = IdempotencyKey(i)
  <2>1. CASE ok
    <3>1. [ride |-> ride, tick |-> tick] \in Key
      BY <1>0 DEF Key, TypeOK
    <3>2. \A i \in 1..Current : IdempotencyKey(i)' = IdempotencyKey(i)
      BY <1>0, <1>3, <2>1, <3>1, AppendFacts, SeqFacts
         DEF Propose, TypeOK, Current, IdempotencyKey
    <3>3. \A i \in actions : i \in 1..Current
      BY <1>0, SeqFacts DEF TypeOK, LedgerInv, Ids, Current
    <3> QED
      BY <1>3, <3>2, <3>3 DEF Propose
  <2>2. CASE ~ok
    BY <1>3, <2>2 DEF Propose, IdempotencyKey
  <2> QED
    BY <2>1, <2>2
<1>4. ASSUME NEW ok \in BOOLEAN, RecordAction(ok)
      PROVE  actions \subseteq actions' /\ proposals' = proposals
  BY <1>4 DEF RecordAction
<1>5. CASE \/ DoneProposing \/ ReuseSnapshot \/ NoSnapshot
           \/ \E answer \in {"open", "closed", "unreadable"} : Gate(answer)
           \/ \E ok \in BOOLEAN : Refuse(ok) \/ TakeSnapshot(ok)
           \/ \E spent \in BOOLEAN : Authorize(spent)
           \/ \E ok \in BOOLEAN : RecordAuthorization(ok) \/ Send(ok)
  BY <1>1, <1>5 DEF DoneProposing, ReuseSnapshot, NoSnapshot, Gate, Refuse, TakeSnapshot,
                    Authorize, RecordAuthorization, Send
<1>6. CASE HandleProposal
  BY <1>3, <1>4, <1>5, <1>6 DEF HandleProposal, IdempotencyKey
<1> QED
  BY <1>2, <1>6 DEF Next

\* A message received leaves the others behind it in their order.
LEMMA Received ==
  ASSUME TypeOK, NEW kind, Receive(kind), toOrch' = Tail(toOrch)
  PROVE  /\ Head(toOrch) \in ToSet(toOrch) /\ Head(toOrch) \in Message
         /\ Head(toOrch).kind = kind /\ Head(toOrch) = toOrch[1] /\ 1 \in DOMAIN toOrch
         /\ ToSet(toOrch') \subseteq ToSet(toOrch)
         /\ \A i \in DOMAIN toOrch' :
              i \in Nat \ {0} /\ i + 1 \in DOMAIN toOrch /\ toOrch'[i] = toOrch[i + 1]
<1>1. toOrch \in Seq(Message) /\ toOrch # <<>>
  BY DEF TypeOK, Receive
<1>2. DOMAIN toOrch' \subseteq Nat \ {0}
  BY <1>1, TailFacts
<1> QED
  BY <1>1, <1>2, TailFacts DEF Receive

\* A message sent comes after all the others, or is lost.
LEMMA Pushed ==
  ASSUME TypeOK, NEW m \in Message, Push(m)
  PROVE  /\ ToSet(toOrch') \subseteq ToSet(toOrch) \cup {m}
         /\ \A i, j \in DOMAIN toOrch' : i < j =>
              /\ i \in DOMAIN toOrch /\ toOrch'[i] = toOrch[i]
              /\ (j \in DOMAIN toOrch /\ toOrch'[j] = toOrch[j]) \/ toOrch'[j] = m
<1>1. toOrch \in Seq(Message)
  BY DEF TypeOK
<1>2. /\ DOMAIN toOrch = 1..Len(toOrch) /\ Len(toOrch) \in Nat
      /\ DOMAIN Append(toOrch, m) = 1..Len(toOrch) + 1
      /\ ToSet(Append(toOrch, m)) = ToSet(toOrch) \cup {m}
      /\ \A i \in DOMAIN toOrch : Append(toOrch, m)[i] = toOrch[i]
      /\ Append(toOrch, m)[Len(toOrch) + 1] = m
  BY <1>1, SeqFacts, AppendFacts
<1>3. CASE link = "up"
  BY <1>2, <1>3 DEF Push
<1>4. CASE link # "up"
  BY <1>2, <1>4 DEF Push
<1> QED
  BY <1>3, <1>4

\* A broken or lost connection adds no message; a new one adds only snapshots.
LEMMA WireMessages ==
  ASSUME TypeOK, Wire
  PROVE  /\ Results' \subseteq Results
         /\ Connect \/ /\ ToSet(toOrch') \subseteq ToSet(toOrch)
                       /\ \A i \in DOMAIN toOrch' :
                            i \in DOMAIN toOrch /\ toOrch'[i] = toOrch[i]
         /\ Connect => \A i \in DOMAIN toOrch' : toOrch'[i].kind = "snapshot"
<1> USE DEF ledger, parks, memory, hand, wire, bridge
<1>0. toOrch \in Seq(Message)
  BY DEF TypeOK
<1>1. CASE Connect
  <2>1. \A i \in DOMAIN toOrch' : toOrch'[i].kind = "snapshot"
    BY <1>1 DEF Connect
  <2>2. \A m \in ToSet(toOrch') : m.kind = "snapshot"
    BY <2>1 DEF ToSet
  <2> QED
    BY <1>1, <2>1, <2>2 DEF Results
<1>2. ASSUME ~Connect
      PROVE  /\ ToSet(toOrch') \subseteq ToSet(toOrch)
             /\ \A i \in DOMAIN toOrch' : i \in DOMAIN toOrch /\ toOrch'[i] = toOrch[i]
  <2>1. CASE Break
    <3>1. PICK n \in 0..Len(toOrch) : toOrch' = SubSeq(toOrch, 1, n)
      BY <2>1 DEF Break
    <3>2. \A i \in DOMAIN toOrch' : i \in DOMAIN toOrch /\ toOrch'[i] = toOrch[i]
      BY <1>0, <3>1, PrefixFacts
    <3> QED
      BY <3>2 DEF ToSet
  <2>2. CASE Crash
    BY <2>2, EmptyFacts DEF Crash
  <2>3. CASE EndOfConnection \/ Restart
    BY <2>3 DEF EndOfConnection, Restart
  <2> QED
    BY <1>2, <2>1, <2>2, <2>3 DEF Wire
<1> QED
  BY <1>1, <1>2 DEF Results

-----------------------------------------------------------------------------
\* What waits for the engine leaves no trace before it is executed.
LEMMA WaitingStep == IInv /\ [Next]_vars => WaitingInv'
<1> SUFFICES ASSUME IInv, [Next]_vars PROVE WaitingInv'
  OBVIOUS
<1> USE DEF ledger, parks, memory, hand, wire, bridge
<1>0. TypeOK /\ LedgerInv /\ OnePlaceInv /\ WaitingInv /\ OutcomeInv
  BY DEF IInv
<1>00. \A i \in actions : IdempotencyKey(i)' = IdempotencyKey(i)
  BY LedgerKeeps
<1>1. ASSUME UNCHANGED <<actions, executed, results, cache>>, Results' \subseteq Results,
             \A i \in actions : Awaits(i)' => Awaits(i)
      PROVE  WaitingInv'
  BY <1>0, <1>00, <1>1 DEF WaitingInv
<1>2. ASSUME Wire PROVE WaitingInv'
  <2>1. ToSet(toBridge') \subseteq ToSet(toBridge)
    BY <1>2, WireFrame, EmptyFacts
  <2>2. \A i \in actions : Awaits(i)' => Awaits(i)
    BY <1>2, <2>1, WireFrame DEF Awaits, Current
  <2> QED
    BY <1>0, <1>1, <1>2, <2>2, WireFrame, WireMessages
<1>3. ASSUME Receives PROVE WaitingInv'
  <2>1. \A i \in actions : Awaits(i)' => Awaits(i)
    BY <1>3, ReceivesFrame DEF Awaits, Current
  <2>2. ASSUME UNCHANGED results, ToSet(toOrch') \subseteq ToSet(toOrch)
        PROVE  WaitingInv'
    BY <1>1, <1>3, <2>1, <2>2, ReceivesFrame DEF Results
  <2>3. CASE HeartbeatReceived \/ SnapshotReceived \/ UnknownResult
    BY <1>0, <2>2, <2>3, Received DEF HeartbeatReceived, SnapshotReceived, UnknownResult
  <2>4. CASE \/ \E p \in unverified, dropped, copied \in BOOLEAN : Verify(p, dropped, copied)
             \/ \E rides \in SUBSET Rides : StartProposing(rides)
    BY <2>2, <2>4 DEF Verify, StartProposing
  <2>5. ASSUME NEW persisted \in BOOLEAN, NEW copied \in BOOLEAN,
               ResultReceived(persisted, copied)
        PROVE  WaitingInv'
    <3> DEFINE msg == Head(toOrch)
               p == Correlated(msg.id)
    <3>1. p \in pending_actions /\ p.id = msg.id /\ p.id \in Ids
      BY <1>0, <2>5 DEF ResultReceived, Correlated, TypeOK, Pending
    <3>2. msg \in Results /\ ToSet(toOrch') \subseteq ToSet(toOrch)
      BY <1>0, <2>5, Received DEF ResultReceived, Results
    <3>3. \A i \in actions : Awaits(i) => i # p.id
      BY <1>0, <3>1, <3>2 DEF WaitingInv
    <3>4. \A i \in Ids : i # p.id => results'[i] = results[i]
      BY <1>0, <2>5, <3>1 DEF ResultReceived, TypeOK
    <3>5. Results' \subseteq Results
      BY <3>2 DEF Results
    <3>6. actions \subseteq Ids
      BY <1>0 DEF TypeOK
    <3> QED
      BY <1>0, <1>00, <1>3, <2>1, <3>3, <3>4, <3>5, <3>6, ReceivesFrame DEF WaitingInv
  <2> QED
    BY <1>3, <2>3, <2>4, <2>5 DEF Receives
<1>4. ASSUME HandleProposal PROVE WaitingInv'
  <2>0. UNCHANGED <<executed, results, cache, toOrch, handling>> /\ Results' = Results
    BY <1>4, HandleProposalFrame DEF Results
  <2>1. ASSUME UNCHANGED <<actions, toBridge>>, main' # "send"
        PROVE  WaitingInv'
    BY <1>1, <2>0, <2>1 DEF Awaits
  <2>2. ASSUME NEW ride \in Rides, NEW ok \in BOOLEAN, Propose(ride, ok) PROVE WaitingInv'
    BY <2>1, <2>2 DEF Propose
  <2>3. CASE DoneProposing \/ ReuseSnapshot \/ NoSnapshot
    BY <2>1, <2>3 DEF DoneProposing, ReuseSnapshot, NoSnapshot
  <2>4. ASSUME NEW answer \in {"open", "closed", "unreadable"}, Gate(answer)
        PROVE  WaitingInv'
    BY <2>1, <2>4 DEF Gate
  <2>5. ASSUME NEW ok \in BOOLEAN, Refuse(ok) \/ TakeSnapshot(ok) \/ RecordAuthorization(ok)
        PROVE  WaitingInv'
    BY <2>1, <2>5 DEF Refuse, TakeSnapshot, RecordAuthorization
  <2>6. ASSUME NEW spent \in BOOLEAN, Authorize(spent) PROVE WaitingInv'
    BY <2>1, <2>6 DEF Authorize
  <2>7. ASSUME NEW ok \in BOOLEAN, RecordAction(ok) PROVE WaitingInv'
    <3>1. CASE ok /\ KeyIsFree
      <4>1. Current \notin actions /\ Current \in Ids /\ proposals[Current] \in Key
        BY <1>0, <2>7, SeqFacts DEF RecordAction, LedgerInv, TypeOK, Current, Ids
      <4>2. /\ Current \notin ToSet(executed) /\ results[Current] = "none"
            /\ \A m \in Results : m.id # Current
        BY <1>0, <4>1 DEF OutcomeInv
      <4>3. cache[IdempotencyKey(Current)] = "none"
        BY <1>0, <3>1, <4>1 DEF OutcomeInv, KeyIsFree, IdempotencyKey
      <4>4. /\ actions' = actions \cup {Current}
            /\ UNCHANGED <<proposals, toBridge>>
        BY <2>7, <3>1 DEF RecordAction
      <4>5. \A i \in actions : Awaits(i)' => Awaits(i)
        BY <2>0, <4>1, <4>4 DEF Awaits, Current
      <4> QED
        BY <1>0, <2>0, <4>2, <4>3, <4>4, <4>5 DEF WaitingInv, IdempotencyKey
    <3>2. CASE ~ (ok /\ KeyIsFree)
      BY <2>1, <2>7, <3>2 DEF RecordAction
    <3> QED
      BY <3>1, <3>2
  <2>8. ASSUME NEW ok \in BOOLEAN, Send(ok) PROVE WaitingInv'
    <3>1. main = "send" /\ main' # "send" /\ UNCHANGED <<actions, proposals>>
      BY <2>8 DEF Send
    <3>2. Current \in Ids
      BY <1>0, <3>1 DEF LedgerInv, TypeOK
    <3>3. ToSet(toBridge') \subseteq ToSet(toBridge) \cup {Current}
      <4>1. ToSet(Append(toBridge, Current)) = ToSet(toBridge) \cup {Current}
        BY <1>0, <3>2, AppendFacts DEF TypeOK
      <4>2. toBridge' = toBridge \/ toBridge' = Append(toBridge, Current)
        BY <2>8 DEF Send
      <4> QED
        BY <4>1, <4>2
    <3>4. \A i \in actions : Awaits(i)' => Awaits(i)
      BY <2>0, <3>1, <3>3 DEF Awaits
    <3> QED
      BY <1>1, <2>0, <3>1, <3>4
  <2> QED
    BY <1>4, <2>2, <2>3, <2>4, <2>5, <2>6, <2>7, <2>8 DEF HandleProposal
<1>5. ASSUME Bridge PROVE WaitingInv'
  <2>0. UNCHANGED <<proposals, actions, results, main>>
    BY <1>5, BridgeFrame
  <2>1. CASE EngineTick \/ SendSnapshot \/ Autosave
    <3>1. UNCHANGED <<executed, cache, toBridge, handling>>
      BY <2>1 DEF EngineTick, SendSnapshot, Autosave
    <3>2. Results' \subseteq Results
      <4>1. CASE EngineTick
        <5>1. clock' \in Ticks
          BY <1>0, <4>1 DEF EngineTick, TypeOK, Ticks
        <5> QED
          BY <1>0, <4>1, <5>1, Pushed DEF EngineTick, Results, Message
      <4>2. CASE SendSnapshot
        <5>1. ToSet(executed) \in Park
          BY <1>0, SeqFacts DEF TypeOK, Park
        <5> QED
          BY <1>0, <4>2, <5>1, Pushed DEF SendSnapshot, Results, Message
      <4>3. CASE Autosave
        BY <4>3 DEF Autosave, Results
      <4> QED
        BY <2>1, <4>1, <4>2, <4>3
    <3> QED
      BY <1>1, <2>0, <3>1, <3>2 DEF Awaits, Current
  <2>2. CASE HandleRequest
    <3>1. UNCHANGED <<executed, cache, toOrch>>
      BY <2>2 DEF HandleRequest
    <3>2. \A i \in actions : Awaits(i)' => Awaits(i)
      BY <1>0, <2>0, <2>2, HandledOnce DEF Awaits, Current
    <3> QED
      BY <1>1, <2>0, <3>1, <3>2 DEF Results
  <2>3. ASSUME NEW h \in handling, NEW ok \in BOOLEAN, QueryAction(h, ok) PROVE WaitingInv'
    <3>1. UNCHANGED <<executed, toOrch, toBridge>>
      BY <2>3 DEF QueryAction
    <3>2. PICK new \in Handling :
            /\ new.id = h.id
            /\ handling' = (handling \ {h}) \cup {new}
            /\ h.phase # "reply"
            /\ IF ok THEN new.phase = "execute" ELSE new.phase = "reply" /\ new.ok = FALSE
      BY <1>0, <2>3, MovedOn
    <3>3. \A i \in actions : Awaits(i)' => Awaits(i)
      BY <2>0, <3>1, <3>2 DEF Awaits, Current
    <3>4. CASE ok
      BY <1>1, <2>0, <2>3, <3>1, <3>3, <3>4 DEF QueryAction, Results
    <3>5. CASE ~ok
      <4>1. \A i \in actions : Awaits(i)' => i # h.id
        BY <1>0, <2>0, <3>1, <3>2, <3>5 DEF Awaits, Current, OnePlaceInv
      <4>2. h.id \in actions
        BY <1>0 DEF OnePlaceInv
      <4>3. \A i \in actions : i # h.id => IdempotencyKey(i) # IdempotencyKey(h.id)
        BY <1>0, <4>2 DEF LedgerInv
      <4>4. \A i \in actions : IdempotencyKey(i) \in Key
        BY <1>0, SeqFacts DEF TypeOK, LedgerInv, Current, Ids, IdempotencyKey
      <4>5. \A i \in actions : i # h.id => cache'[IdempotencyKey(i)] = cache[IdempotencyKey(i)]
        BY <1>0, <2>3, <3>5, <4>3, <4>4 DEF QueryAction, TypeOK
      <4> QED
        BY <1>0, <1>00, <2>0, <3>1, <3>3, <4>1, <4>5 DEF WaitingInv, Results
    <3> QED
      BY <3>4, <3>5
  <2>4. ASSUME NEW h \in handling, NEW ok \in BOOLEAN, ExecuteAction(h, ok) PROVE WaitingInv'
    <3>1. UNCHANGED <<toOrch, toBridge>>
      BY <2>4 DEF ExecuteAction
    <3>2. PICK new \in Handling :
            /\ new.id = h.id
            /\ handling' = (handling \ {h}) \cup {new}
            /\ h.phase # "reply"
            /\ new.phase = "reply"
      BY <1>0, <2>4, MovedOn
    <3>3. \A i \in actions : Awaits(i)' => Awaits(i) /\ i # h.id
      BY <1>0, <2>0, <3>1, <3>2 DEF Awaits, Current, OnePlaceInv
    <3>4. h.id \in actions /\ h.id \in Ids
      BY <1>0 DEF OnePlaceInv, TypeOK
    <3>5. \A i \in actions : i # h.id => IdempotencyKey(i) # IdempotencyKey(h.id)
      BY <1>0, <3>4 DEF LedgerInv
    <3>6. \A i \in actions : IdempotencyKey(i) \in Key
      BY <1>0, SeqFacts DEF TypeOK, LedgerInv, Current, Ids, IdempotencyKey
    <3>7. \A i \in actions : i # h.id => cache'[IdempotencyKey(i)] = cache[IdempotencyKey(i)]
      BY <1>0, <2>4, <3>5, <3>6 DEF ExecuteAction, TypeOK
    <3>8. ToSet(executed') \subseteq ToSet(executed) \cup {h.id}
      BY <1>0, <2>4, <3>4, AppendFacts DEF ExecuteAction, TypeOK
    <3> QED
      BY <1>0, <1>00, <2>0, <3>1, <3>3, <3>7, <3>8 DEF WaitingInv, Results
  <2>5. ASSUME NEW h \in handling, SendCommandResult(h) PROVE WaitingInv'
    <3>1. UNCHANGED <<executed, cache, toBridge>> /\ handling' = handling \ {h}
      BY <2>5 DEF SendCommandResult
    <3>2. \A i \in actions : Awaits(i)' => Awaits(i)
      BY <2>0, <3>1 DEF Awaits, Current
    <3>3. \A i \in actions : Awaits(i)' => i # h.id
      BY <1>0, <2>0, <2>5, <3>1 DEF Awaits, Current, OnePlaceInv, SendCommandResult
    <3>4. \A m \in Results' : m \in Results \/ m.id = h.id
      <4> DEFINE new == [kind |-> "result", id |-> h.id, ok |-> h.ok]
      <4>1. new \in Message
        BY <1>0 DEF TypeOK, Handling, Message
      <4> QED
        BY <1>0, <2>5, <4>1, Pushed DEF SendCommandResult, Results
    <3> QED
      BY <1>0, <1>00, <2>0, <3>1, <3>2, <3>3, <3>4 DEF WaitingInv
  <2> QED
    BY <1>5, <2>1, <2>2, <2>3, <2>4, <2>5 DEF Bridge
<1>6. ASSUME UNCHANGED vars PROVE WaitingInv'
  BY <1>1, <1>6 DEF vars, Awaits, Current, Results
<1> QED
  BY <1>2, <1>3, <1>4, <1>5, <1>6 DEF Next

-----------------------------------------------------------------------------
\* Whatever a command leaves behind says whether the engine executed it.
LEMMA OutcomeStep == IInv /\ [Next]_vars => OutcomeInv'
<1> SUFFICES ASSUME IInv, [Next]_vars PROVE OutcomeInv'
  OBVIOUS
<1> USE DEF ledger, parks, memory, hand, wire, bridge
<1>0. TypeOK /\ LedgerInv /\ OnePlaceInv /\ WaitingInv /\ OutcomeInv
  BY DEF IInv
<1>00. actions \subseteq actions' /\ \A i \in actions : IdempotencyKey(i)' = IdempotencyKey(i)
  BY LedgerKeeps
<1>1. ASSUME UNCHANGED <<executed, results, cache, handling, restored>>,
             Results' \subseteq Results,
             pending_verifications' \cup unverified' \subseteq
               pending_verifications \cup unverified
      PROVE  OutcomeInv'
  BY <1>0, <1>00, <1>1 DEF OutcomeInv
<1>2. ASSUME Wire PROVE OutcomeInv'
  <2>1. pending_verifications' \cup unverified' \subseteq pending_verifications \cup unverified
    BY <1>2 DEF Wire, Connect, Break, EndOfConnection, Crash, Restart
  <2> QED
    BY <1>0, <1>1, <1>2, <2>1, WireFrame, WireMessages
<1>3. ASSUME Receives PROVE OutcomeInv'
  <2>0. UNCHANGED <<proposals, actions, cache, handling, executed>>
    BY <1>3, ReceivesFrame
  <2>1. CASE HeartbeatReceived \/ SnapshotReceived \/ UnknownResult
    <3>1. ToSet(toOrch') \subseteq ToSet(toOrch)
      BY <1>0, <2>1, Received DEF HeartbeatReceived, SnapshotReceived, UnknownResult
    <3>2. pending_verifications' \cup unverified' \subseteq pending_verifications \cup unverified
      BY <2>1 DEF HeartbeatReceived, SnapshotReceived, UnknownResult
    <3> QED
      BY <1>1, <2>0, <2>1, <3>1, <3>2
         DEF HeartbeatReceived, SnapshotReceived, UnknownResult, Results
  <2>2. ASSUME NEW p \in unverified, NEW dropped \in BOOLEAN, NEW copied \in BOOLEAN,
               Verify(p, dropped, copied)
        PROVE  OutcomeInv'
    <3>1. \A r \in restored' : r \in restored \/ r.id = p.id
      BY <2>2 DEF Verify, Restore
    <3>2. results[p.id] # "none"
      BY <1>0 DEF OutcomeInv
    <3>3. \A r \in restored' : results[r.id] # "none"
      BY <1>0, <3>1, <3>2 DEF OutcomeInv
    <3>4. UNCHANGED <<results, toOrch, pending_verifications>> /\ unverified' \subseteq unverified
      BY <2>2 DEF Verify
    <3> QED
      BY <1>0, <2>0, <3>3, <3>4 DEF OutcomeInv, IdempotencyKey, Results
  <2>3. ASSUME NEW rides \in SUBSET Rides, StartProposing(rides) PROVE OutcomeInv'
    BY <1>1, <2>0, <2>3 DEF StartProposing, Results
  <2>4. ASSUME NEW persisted \in BOOLEAN, NEW copied \in BOOLEAN,
               ResultReceived(persisted, copied)
        PROVE  OutcomeInv'
    <3> DEFINE msg == Head(toOrch)
               p == Correlated(msg.id)
               told == IF msg.ok THEN "ok" ELSE "error"
    <3>1. p \in pending_actions /\ p.id = msg.id /\ p.id \in Ids
      BY <1>0, <2>4 DEF ResultReceived, Correlated, TypeOK, Pending
    <3>2. msg \in Results /\ Results' \subseteq Results
      BY <1>0, <2>4, Received DEF ResultReceived, Results
    <3>3. p.id \in actions /\ (msg.ok <=> p.id \in ToSet(executed))
      BY <1>0, <3>1, <3>2 DEF OutcomeInv
    <3>4. told # "none" /\ (told = "ok" <=> p.id \in ToSet(executed))
      BY <3>3
    <3>5. /\ \A i \in Ids : i # p.id => results'[i] = results[i]
          /\ persisted => results'[p.id] = told
          /\ ~persisted => results' = results
      BY <1>0, <2>4, <3>1 DEF ResultReceived, TypeOK
    <3>6. \A i \in Ids : results'[i] # "none" =>
            i \in actions /\ (results'[i] = "ok" <=> i \in ToSet(executed))
      BY <1>0, <3>3, <3>4, <3>5 DEF OutcomeInv
    <3>7. \A q \in pending_verifications \cup unverified : q.id \in Ids /\ results'[q.id] = "ok"
      <4>1. \A q \in pending_verifications \cup unverified :
              q.id \in Ids /\ results[q.id] = "ok" /\ q.id \in ToSet(executed)
        BY <1>0 DEF OutcomeInv, TypeOK, Pending
      <4>2. results' = [results EXCEPT ![p.id] = told] \/ results' = results
        BY <2>4 DEF ResultReceived
      <4> QED
        BY <3>4, <3>5, <4>1
    <3>8. \A q \in pending_verifications' \cup unverified' : results'[q.id] = "ok"
      <4>1. unverified' = unverified
        BY <2>4 DEF ResultReceived
      <4>2. CASE persisted /\ msg.ok
        BY <2>4, <3>3, <3>4, <3>5, <3>7, <4>1, <4>2 DEF ResultReceived
      <4>3. CASE ~ (persisted /\ msg.ok)
        BY <2>4, <3>7, <4>1, <4>3 DEF ResultReceived
      <4> QED
        BY <4>2, <4>3
    <3>9. \A r \in restored' : results'[r.id] # "none"
      <4>1. \A r \in restored : r.id \in Ids /\ results[r.id] # "none"
        BY <1>0 DEF OutcomeInv, TypeOK
      <4>2. \A r \in restored : results'[r.id] # "none"
        BY <3>4, <3>5, <4>1
      <4>3. \A r \in restored' : r \in restored \/ (persisted /\ r.id = p.id)
        BY <2>4 DEF ResultReceived, Restore
      <4> QED
        BY <3>4, <3>5, <4>2, <4>3
    <3> QED
      BY <1>0, <2>0, <3>2, <3>6, <3>8, <3>9 DEF OutcomeInv, IdempotencyKey
  <2> QED
    BY <1>3, <2>1, <2>2, <2>3, <2>4 DEF Receives
<1>4. CASE HandleProposal
  BY <1>1, <1>4, HandleProposalFrame DEF Results
<1>5. ASSUME Bridge PROVE OutcomeInv'
  <2>0. UNCHANGED <<proposals, actions, results, restored, pending_verifications, unverified>>
    BY <1>5, BridgeFrame
  <2>1. CASE EngineTick
    <3>1. clock' \in Ticks
      BY <1>0, <2>1 DEF EngineTick, TypeOK, Ticks
    <3>2. Results' \subseteq Results
      BY <1>0, <2>1, <3>1, Pushed DEF EngineTick, Results, Message
    <3> QED
      BY <1>1, <2>0, <2>1, <3>2 DEF EngineTick
  <2>2. CASE SendSnapshot
    <3>1. ToSet(executed) \in Park
      BY <1>0, SeqFacts DEF TypeOK, Park
    <3>2. Results' \subseteq Results
      BY <1>0, <2>2, <3>1, Pushed DEF SendSnapshot, Results, Message
    <3> QED
      BY <1>1, <2>0, <2>2, <3>2 DEF SendSnapshot
  <2>3. CASE Autosave
    BY <1>1, <2>0, <2>3 DEF Autosave, Results
  <2>4. CASE HandleRequest
    <3> DEFINE id == Head(toBridge)
    <3>1. UNCHANGED <<executed, cache, toOrch>>
      BY <2>4 DEF HandleRequest
    <3>2. id \in actions /\ Awaits(id)
      BY <1>0, <2>4, HandledOnce DEF OnePlaceInv, Awaits
    <3>3. cache[IdempotencyKey(id)] = "none"
      BY <1>0, <3>2 DEF WaitingInv
    <3>4. PICK new \in Handling : handling' = handling \cup {new} /\ new.phase = "query"
      BY <1>0, <2>4, <3>3, HandledOnce
    <3> QED
      BY <1>0, <2>0, <3>1, <3>4 DEF OutcomeInv, Results, IdempotencyKey
  <2>5. ASSUME NEW h \in handling, NEW ok \in BOOLEAN, QueryAction(h, ok) PROVE OutcomeInv'
    <3>1. UNCHANGED <<executed, toOrch>>
      BY <2>5 DEF QueryAction
    <3>2. PICK new \in Handling :
            /\ new.id = h.id
            /\ handling' = (handling \ {h}) \cup {new}
            /\ h.phase # "reply"
            /\ IF ok THEN new.phase = "execute" ELSE new.phase = "reply" /\ new.ok = FALSE
      BY <1>0, <2>5, MovedOn
    <3>3. h.id \in actions /\ Awaits(h.id)
      BY <1>0, <3>2 DEF OnePlaceInv, Awaits
    <3>4. h.id \notin ToSet(executed)
      BY <1>0, <3>3 DEF WaitingInv
    <3>5. \A g \in handling' : g.phase = "reply" => (g.ok <=> g.id \in ToSet(executed))
      BY <1>0, <3>2, <3>4 DEF OutcomeInv
    <3>6. \A k \in Key : cache'[k] # "none" => \E i \in actions : IdempotencyKey(i) = k
      BY <1>0, <2>5, <3>3 DEF QueryAction, OutcomeInv, TypeOK
    <3> QED
      BY <1>0, <2>0, <3>1, <3>5, <3>6 DEF OutcomeInv, Results, IdempotencyKey
  <2>6. ASSUME NEW h \in handling, NEW ok \in BOOLEAN, ExecuteAction(h, ok) PROVE OutcomeInv'
    <3>1. UNCHANGED toOrch
      BY <2>6 DEF ExecuteAction
    <3>2. PICK new \in Handling :
            /\ new.id = h.id
            /\ handling' = (handling \ {h}) \cup {new}
            /\ h.phase # "reply"
            /\ new.phase = "reply" /\ new.ok = ok
      BY <1>0, <2>6, MovedOn
    <3>3. h.id \in actions /\ h.id \in Ids /\ Awaits(h.id)
      BY <1>0, <3>2 DEF OnePlaceInv, Awaits, TypeOK
    <3>4. /\ h.id \notin ToSet(executed) /\ results[h.id] = "none"
          /\ \A m \in Results : m.id # h.id
      BY <1>0, <3>3 DEF WaitingInv
    <3>5. /\ ToSet(executed') = IF ok THEN ToSet(executed) \cup {h.id} ELSE ToSet(executed)
          /\ \A m, n \in DOMAIN executed' : m # n => executed'[m] # executed'[n]
      <4>1. executed \in Seq(Ids)
        BY <1>0 DEF TypeOK
      <4>2. CASE ok
        <5>1. /\ executed' = Append(executed, h.id)
              /\ ToSet(executed') = ToSet(executed) \cup {h.id}
              /\ DOMAIN executed' = 1..Len(executed) + 1
              /\ \A i \in DOMAIN executed : executed'[i] = executed[i]
              /\ executed'[Len(executed) + 1] = h.id
          BY <2>6, <3>3, <4>1, <4>2, AppendFacts DEF ExecuteAction
        <5>2. /\ \A i \in DOMAIN executed : executed[i] # h.id
              /\ DOMAIN executed = 1..Len(executed) /\ Len(executed) \in Nat
          BY <3>4, <4>1, SeqFacts
        <5> QED
          BY <1>0, <4>2, <5>1, <5>2 DEF OutcomeInv
      <4>3. CASE ~ok
        BY <1>0, <2>6, <4>3 DEF ExecuteAction, OutcomeInv
      <4> QED
        BY <4>2, <4>3
    <3>6. h.id \in ToSet(executed') <=> ok
      BY <3>4, <3>5
    <3>7. \A i \in Ids : i # h.id => (i \in ToSet(executed') <=> i \in ToSet(executed))
      BY <3>5
    <3>8. \A g \in handling' : g.phase = "reply" => (g.ok <=> g.id \in ToSet(executed'))
      <4>1. \A g \in handling \ {h} : g.id # h.id /\ g.id \in Ids
        BY <1>0 DEF OnePlaceInv, TypeOK, Handling
      <4> QED
        BY <1>0, <3>2, <3>6, <3>7, <4>1 DEF OutcomeInv
    <3>9. \A k \in Key : cache'[k] # "none" => \E i \in actions : IdempotencyKey(i) = k
      BY <1>0, <2>6, <3>3 DEF ExecuteAction, OutcomeInv, TypeOK
    <3>10. \A m \in Results : m.id \in actions /\ (m.ok <=> m.id \in ToSet(executed'))
      BY <1>0, <3>4, <3>7 DEF OutcomeInv, TypeOK
    <3>11. \A i \in Ids : results[i] # "none" =>
             i \in actions /\ (results[i] = "ok" <=> i \in ToSet(executed'))
      BY <1>0, <3>4, <3>7 DEF OutcomeInv
    <3>12. ToSet(executed') \subseteq actions
      BY <1>0, <3>3, <3>5 DEF OutcomeInv
    <3> QED
      BY <1>0, <2>0, <3>1, <3>5, <3>8, <3>9, <3>10, <3>11, <3>12
         DEF OutcomeInv, Results, IdempotencyKey
  <2>7. ASSUME NEW h \in handling, SendCommandResult(h) PROVE OutcomeInv'
    <3> DEFINE new == [kind |-> "result", id |-> h.id, ok |-> h.ok]
    <3>1. UNCHANGED <<executed, cache>> /\ handling' = handling \ {h} /\ h.phase = "reply"
      BY <2>7 DEF SendCommandResult
    <3>2. new \in Message /\ new.id = h.id /\ new.ok = h.ok
      BY <1>0 DEF TypeOK, Handling, Message
    <3>3. \A m \in Results' : m \in Results \/ m = new
      BY <1>0, <2>7, <3>2, Pushed DEF SendCommandResult, Results
    <3>4. h.id \in actions /\ (h.ok <=> h.id \in ToSet(executed))
      BY <1>0, <3>1 DEF OutcomeInv, OnePlaceInv
    <3> QED
      BY <1>0, <2>0, <3>1, <3>2, <3>3, <3>4 DEF OutcomeInv, IdempotencyKey
  <2> QED
    BY <1>5, <2>1, <2>2, <2>3, <2>4, <2>5, <2>6, <2>7 DEF Bridge
<1>6. CASE UNCHANGED vars
  BY <1>1, <1>6 DEF vars, Results
<1> QED
  BY <1>2, <1>3, <1>4, <1>5, <1>6 DEF Next

-----------------------------------------------------------------------------
\* A snapshot that follows a good result shows what the command did.
LEMMA OrderStep == IInv /\ [Next]_vars => OrderInv'
<1> SUFFICES ASSUME IInv, [Next]_vars PROVE OrderInv'
  OBVIOUS
<1> USE DEF ledger, parks, memory, hand, wire, bridge
<1>0. TypeOK /\ OutcomeInv /\ OrderInv
  BY DEF IInv
<1>1. ASSUME UNCHANGED <<toOrch, pending_verifications, unverified, seen>>,
             main' = main \/ main' \notin {"down", "accept", "verify"}
      PROVE  OrderInv'
  BY <1>0, <1>1 DEF OrderInv, Snapshots
<1>2. ASSUME Wire PROVE OrderInv'
  <2>1. CASE Connect
    <3>1. \A i \in DOMAIN toOrch' : toOrch'[i].kind = "snapshot"
      BY <1>0, <1>2, <2>1, WireMessages
    <3>2. pending_verifications' = {} /\ main' = "idle"
      BY <1>0, <2>1 DEF Connect, OrderInv
    <3> QED
      BY <3>1, <3>2 DEF OrderInv
  <2>2. ASSUME ~Connect PROVE OrderInv'
    <3>1. /\ ToSet(toOrch') \subseteq ToSet(toOrch)
          /\ \A i \in DOMAIN toOrch' : i \in DOMAIN toOrch /\ toOrch'[i] = toOrch[i]
      BY <1>0, <1>2, <2>2, WireMessages
    <3>2. /\ pending_verifications' \subseteq pending_verifications
          /\ main' \in {"down", "accept"} => pending_verifications' = {}
          /\ main' = "verify" => UNCHANGED <<main, unverified, seen>>
      BY <1>0, <1>2, <2>2 DEF Wire, Break, EndOfConnection, Crash, Restart, OrderInv
    <3> QED
      BY <1>0, <3>1, <3>2 DEF OrderInv, Snapshots
  <2> QED
    BY <2>1, <2>2
<1>3. ASSUME Receives PROVE OrderInv'
  <2>1. ASSUME NEW kind, Receive(kind), toOrch' = Tail(toOrch)
        PROVE  \A m, n \in DOMAIN toOrch' :
                 (/\ m < n
                  /\ toOrch'[m].kind = "result" /\ toOrch'[m].ok
                  /\ toOrch'[n].kind = "snapshot") => toOrch'[m].id \in toOrch'[n].park
    BY <1>0, <2>1, Received DEF OrderInv
  <2>2. CASE HeartbeatReceived \/ UnknownResult
    <3>1. PICK kind \in {"heartbeat", "result"} : Receive(kind) /\ toOrch' = Tail(toOrch)
      BY <2>2 DEF HeartbeatReceived, UnknownResult
    <3>2. UNCHANGED <<main, pending_verifications, unverified, seen>>
      BY <2>2 DEF HeartbeatReceived, UnknownResult
    <3>3. ToSet(toOrch') \subseteq ToSet(toOrch)
      BY <1>0, <3>1, Received
    <3> QED
      BY <1>0, <2>1, <3>1, <3>2, <3>3 DEF OrderInv, Snapshots
  <2>3. CASE SnapshotReceived
    <3>1. Receive("snapshot") /\ toOrch' = Tail(toOrch)
      BY <2>3 DEF SnapshotReceived
    <3>2. Head(toOrch) \in Snapshots
      BY <1>0, <3>1, Received DEF Snapshots
    <3>3. \A p \in pending_verifications : p.id \in Head(toOrch).park
      BY <1>0, <3>2 DEF OrderInv
    <3> QED
      BY <2>1, <2>3, <3>1, <3>3 DEF SnapshotReceived, OrderInv
  <2>4. ASSUME NEW p \in unverified, NEW dropped \in BOOLEAN, NEW copied \in BOOLEAN,
               Verify(p, dropped, copied)
        PROVE  OrderInv'
    BY <1>0, <2>4 DEF Verify, OrderInv, Snapshots
  <2>5. ASSUME NEW rides \in SUBSET Rides, StartProposing(rides) PROVE OrderInv'
    BY <1>1, <2>5 DEF StartProposing
  <2>6. ASSUME NEW persisted \in BOOLEAN, NEW copied \in BOOLEAN,
               ResultReceived(persisted, copied)
        PROVE  OrderInv'
    <3> DEFINE msg == Head(toOrch)
               p == Correlated(msg.id)
    <3>1. Receive("result") /\ toOrch' = Tail(toOrch)
      BY <2>6 DEF ResultReceived
    <3>2. p.id = msg.id
      BY <2>6 DEF ResultReceived, Correlated
    <3>3. UNCHANGED <<main, unverified, seen>> /\ main = "idle"
      BY <2>6 DEF ResultReceived, Receive
    <3>4. ToSet(toOrch') \subseteq ToSet(toOrch)
      BY <1>0, <3>1, Received
    <3>5. ASSUME msg.ok, NEW m \in ToSet(toOrch'), m.kind = "snapshot" PROVE p.id \in m.park
      <4>1. toOrch' \in Seq(Message)
        BY <1>0, <2>6, <3>1, TypeStep DEF TypeOK, Next, Receives
      <4>2. PICK i \in DOMAIN toOrch' : toOrch'[i] = m
        BY <4>1, <3>5, SeqFacts
      <4>3. 1 < i + 1 /\ i + 1 \in DOMAIN toOrch /\ toOrch[i + 1] = m
        BY <1>0, <3>1, <4>2, Received
      <4>4. 1 \in DOMAIN toOrch /\ toOrch[1] = msg /\ msg.kind = "result"
        BY <1>0, <3>1, Received
      <4> QED
        BY <1>0, <3>2, <3>5, <4>3, <4>4 DEF OrderInv
    <3>6. pending_verifications' =
            IF persisted /\ msg.ok THEN pending_verifications \cup {p} ELSE pending_verifications
      BY <2>6 DEF ResultReceived
    <3>7. \A q \in pending_verifications', m \in Snapshots' : q.id \in m.park
      BY <1>0, <3>4, <3>5, <3>6 DEF OrderInv, Snapshots
    <3> QED
      BY <2>1, <3>1, <3>3, <3>7 DEF OrderInv
  <2> QED
    BY <1>3, <2>2, <2>3, <2>4, <2>5, <2>6 DEF Receives
<1>4. CASE HandleProposal
  BY <1>1, <1>4, HandleProposalFrame
<1>5. ASSUME Bridge PROVE OrderInv'
  <2>0. UNCHANGED <<main, pending_verifications, unverified, seen>>
    BY <1>5, BridgeFrame
  <2>1. ASSUME NEW m \in Message, Push(m),
               m.kind = "snapshot" => m.park = ToSet(executed)
        PROVE  OrderInv'
    <3>1. \A q \in pending_verifications : q.id \in ToSet(executed)
      BY <1>0 DEF OutcomeInv, TypeOK, Pending
    <3>2. \A i \in DOMAIN toOrch :
            toOrch[i].kind = "result" /\ toOrch[i].ok => toOrch[i].id \in ToSet(executed)
      BY <1>0, SeqFacts DEF OutcomeInv, Results, TypeOK
    <3>3. \A i, j \in DOMAIN toOrch' :
            (/\ i < j
             /\ toOrch'[i].kind = "result" /\ toOrch'[i].ok
             /\ toOrch'[j].kind = "snapshot") => toOrch'[i].id \in toOrch'[j].park
      BY <1>0, <2>1, <3>2, Pushed DEF OrderInv
    <3>4. \A q \in pending_verifications', n \in Snapshots' : q.id \in n.park
      BY <1>0, <2>0, <2>1, <3>1, Pushed DEF OrderInv, Snapshots
    <3> QED
      BY <1>0, <2>0, <3>3, <3>4 DEF OrderInv
  <2>2. CASE EngineTick
    <3>1. clock' \in Ticks
      BY <1>0, <2>2 DEF EngineTick, TypeOK, Ticks
    <3>2. [kind |-> "heartbeat", tick |-> clock'] \in Message
      BY <3>1 DEF Message
    <3> QED
      BY <2>1, <2>2, <3>2 DEF EngineTick
  <2>3. CASE SendSnapshot
    <3>1. ToSet(executed) \in Park
      BY <1>0, SeqFacts DEF TypeOK, Park
    <3>2. [kind |-> "snapshot", park |-> ToSet(executed)] \in Message
      BY <3>1 DEF Message
    <3> QED
      BY <2>1, <2>3, <3>2 DEF SendSnapshot
  <2>4. CASE Autosave \/ HandleRequest
    BY <1>1, <2>0, <2>4 DEF Autosave, HandleRequest
  <2>5. ASSUME NEW h \in handling, NEW ok \in BOOLEAN, QueryAction(h, ok) \/ ExecuteAction(h, ok)
        PROVE  OrderInv'
    BY <1>1, <2>0, <2>5 DEF QueryAction, ExecuteAction
  <2>6. ASSUME NEW h \in handling, SendCommandResult(h) PROVE OrderInv'
    <3>1. [kind |-> "result", id |-> h.id, ok |-> h.ok] \in Message
      BY <1>0 DEF TypeOK, Handling, Message
    <3> QED
      BY <2>1, <2>6, <3>1 DEF SendCommandResult
  <2> QED
    BY <1>5, <2>2, <2>3, <2>4, <2>5, <2>6 DEF Bridge
<1>6. CASE UNCHANGED vars
  BY <1>1, <1>6 DEF vars
<1> QED
  BY <1>2, <1>3, <1>4, <1>5, <1>6 DEF Next

-----------------------------------------------------------------------------
\* No file that a row names is written again, and a command's own file does
\* not hold it.
LEMMA FilesStep == IInv /\ [Next]_vars => FilesInv'
<1> SUFFICES ASSUME IInv, [Next]_vars PROVE FilesInv'
  OBVIOUS
<1> USE DEF ledger, parks, memory, hand, wire, bridge
<1> DEFINE Sending == {"authorize", "record", "action", "send"}
           Held == pending_actions \cup pending_verifications \cup unverified
<1>0. TypeOK /\ LedgerInv /\ WaitingInv /\ FilesInv
  BY DEF IInv
<1>1. ASSUME UNCHANGED <<snapshots, files, restored, autosave>>,
             ToSet(executed) \subseteq ToSet(executed'),
             main' \in Sending => main \in Sending /\ snap' = snap,
             Held' \subseteq Held
      PROVE  FilesInv'
  <2>1. \A p \in Held' : p.snap \in DOMAIN snapshots' /\ p.id \notin files'[snapshots'[p.snap]]
    BY <1>0, <1>1 DEF FilesInv
  <2>2. (\A t \in Ticks : files'[t] \subseteq ToSet(executed'))
        /\ (autosave' # NoSave => autosave' \subseteq ToSet(executed'))
    BY <1>0, <1>1 DEF FilesInv
  <2>3. main' \in Sending => snap' \in DOMAIN snapshots'
    BY <1>0, <1>1 DEF FilesInv
  <2> QED
    BY <1>0, <1>1, <2>1, <2>2, <2>3 DEF FilesInv
<1>2. ASSUME Wire PROVE FilesInv'
  <2>1. Held' \subseteq Held /\ (main' = main => snap' = snap \/ main = "down")
    BY <1>2 DEF Wire, Connect, Break, EndOfConnection, Crash, Restart
  <2> QED
    BY <1>1, <1>2, <2>1, WireFrame
<1>3. ASSUME Receives PROVE FilesInv'
  <2>0. UNCHANGED <<snapshots, files, autosave, executed>> /\ main' \notin Sending
    BY <1>3, ReceivesFrame
       DEF Receives, HeartbeatReceived, SnapshotReceived, Verify, StartProposing, UnknownResult,
           ResultReceived, Receive
  <2>1. CASE \/ HeartbeatReceived \/ SnapshotReceived \/ UnknownResult
             \/ \E rides \in SUBSET Rides : StartProposing(rides)
    <3>1. Held' \subseteq Held /\ UNCHANGED restored
      BY <2>1 DEF HeartbeatReceived, SnapshotReceived, UnknownResult, StartProposing
    <3> QED
      BY <1>1, <2>0, <3>1
  <2>2. ASSUME NEW p \in Held, NEW copied \in BOOLEAN, Restore(p, copied) \/ UNCHANGED restored,
               Held' \subseteq Held
        PROVE  FilesInv'
    <3>1. \A r \in restored' : r.id \notin r.park
      BY <1>0, <2>2 DEF Restore, FilesInv
    <3> QED
      BY <1>0, <2>0, <2>2, <3>1 DEF FilesInv
  <2>3. ASSUME NEW p \in unverified, NEW dropped \in BOOLEAN, NEW copied \in BOOLEAN,
               Verify(p, dropped, copied)
        PROVE  FilesInv'
    BY <2>2, <2>3 DEF Verify
  <2>4. ASSUME NEW persisted \in BOOLEAN, NEW copied \in BOOLEAN,
               ResultReceived(persisted, copied)
        PROVE  FilesInv'
    <3> DEFINE p == Correlated(Head(toOrch).id)
    <3>1. p \in pending_actions
      BY <2>4 DEF ResultReceived, Correlated
    <3>2. Held' \subseteq Held
      BY <2>4, <3>1 DEF ResultReceived
    <3>3. Restore(p, copied) \/ UNCHANGED restored
      BY <2>4 DEF ResultReceived
    <3> QED
      BY <2>2, <3>1, <3>2, <3>3
  <2> QED
    BY <1>3, <2>1, <2>3, <2>4 DEF Receives
<1>4. ASSUME HandleProposal PROVE FilesInv'
  <2>0. UNCHANGED <<restored, autosave, executed, pending_verifications, unverified>>
    BY <1>4, HandleProposalFrame
  <2>00. snapshots \in Seq(Ticks) /\ DOMAIN snapshots = 1..Len(snapshots) /\ Len(snapshots) \in Nat
         /\ \A i \in DOMAIN snapshots : snapshots[i] \in Ticks
    BY <1>0, SeqFacts DEF TypeOK
  <2>1. ASSUME UNCHANGED <<snapshots, files, pending_actions>>,
               main' \in Sending => main \in Sending /\ snap' = snap
        PROVE  FilesInv'
    BY <1>1, <2>0, <2>1
  <2>2. CASE \/ \E ride \in Rides, ok \in BOOLEAN : Propose(ride, ok)
             \/ DoneProposing \/ NoSnapshot
             \/ \E answer \in {"open", "closed", "unreadable"} : Gate(answer)
             \/ \E ok \in BOOLEAN : Refuse(ok)
    BY <2>1, <2>2 DEF Propose, DoneProposing, NoSnapshot, Gate, Refuse
  <2>3. CASE \/ \E spent \in BOOLEAN : Authorize(spent)
             \/ \E ok \in BOOLEAN : RecordAuthorization(ok) \/ RecordAction(ok)
    BY <2>1, <2>3 DEF Authorize, RecordAuthorization, RecordAction
  <2>4. CASE ReuseSnapshot
    <3>1. snap' \in DOMAIN snapshots
      BY <2>00, <2>4, EmptySeq, LenProperties DEF ReuseSnapshot, Recent
    <3> QED
      BY <1>0, <2>0, <2>4, <3>1 DEF ReuseSnapshot, FilesInv
  <2>5. ASSUME NEW ok \in BOOLEAN, TakeSnapshot(ok) PROVE FilesInv'
    <3>1. tick \in Nat /\ tick \in Ticks
      BY <1>0 DEF TypeOK, Ticks
    <3>2. \A n \in DOMAIN snapshots : snapshots[n] < tick
      <4> SUFFICES ASSUME NEW n \in DOMAIN snapshots PROVE snapshots[n] < tick
        OBVIOUS
      <4>1. snapshots # <<>>
        BY EmptyFacts
      <4>2. Last(snapshots) = snapshots[Len(snapshots)] /\ Len(snapshots) \in DOMAIN snapshots
        BY <2>00 DEF Last
      <4>3. SaturatingSub(tick, Last(snapshots)) > SnapshotMaxAge
        <5>1. SaturatingSub(tick, Last(snapshots)) \in Nat
          BY <2>00, <3>1, <4>2 DEF SaturatingSub, Ticks
        <5> QED
          BY <2>5, <4>1, <5>1 DEF TakeSnapshot, Recent
      <4>4. Last(snapshots) < tick
        BY <2>00, <3>1, <4>2, <4>3 DEF SaturatingSub, Ticks
      <4>5. snapshots[n] <= Last(snapshots)
        <5>1. n < Len(snapshots) => snapshots[n] < snapshots[Len(snapshots)]
          BY <1>0, <4>2 DEF FilesInv
        <5>2. snapshots[n] \in Nat /\ (n < Len(snapshots) \/ n = Len(snapshots))
          BY <2>00 DEF Ticks
        <5> QED
          BY <2>00, <4>2, <5>1, <5>2 DEF Ticks
      <4> QED
        BY <2>00, <3>1, <4>2, <4>4, <4>5 DEF Ticks
    <3>3. /\ \A t \in Ticks : files'[t] \subseteq ToSet(executed)
          /\ \A n \in DOMAIN snapshots : files'[snapshots[n]] = files[snapshots[n]]
      BY <1>0, <2>00, <2>5, <3>1, <3>2 DEF TakeSnapshot, FilesInv, TypeOK, Ticks
    <3>4. UNCHANGED pending_actions
      BY <2>5 DEF TakeSnapshot
    <3>5. CASE ok
      <4>1. /\ snapshots' = Append(snapshots, tick)
            /\ DOMAIN snapshots' = 1..Len(snapshots) + 1
            /\ \A n \in DOMAIN snapshots : snapshots'[n] = snapshots[n]
            /\ snapshots'[Len(snapshots) + 1] = tick
            /\ Len(snapshots') = Len(snapshots) + 1
        BY <2>00, <2>5, <3>1, <3>5, AppendFacts DEF TakeSnapshot
      <4>2. snap' \in DOMAIN snapshots'
        BY <2>00, <2>5, <3>5, <4>1 DEF TakeSnapshot
      <4>3. tick >= Len(snapshots)
        BY <1>0, <2>00, <3>1, <3>2 DEF FilesInv, Ticks
      <4>4. \A n \in DOMAIN snapshots' : snapshots'[n] >= n - 1
        BY <1>0, <2>00, <4>1, <4>3 DEF FilesInv
      <4>5. \A m, n \in DOMAIN snapshots' : m < n => snapshots'[m] < snapshots'[n]
        BY <1>0, <2>00, <3>2, <4>1 DEF FilesInv
      <4>6. \A p \in Held' : p.snap \in DOMAIN snapshots' /\ p.id \notin files'[snapshots'[p.snap]]
        BY <1>0, <2>0, <2>00, <3>3, <3>4, <4>1 DEF FilesInv
      <4> QED
        BY <1>0, <2>0, <3>3, <4>2, <4>4, <4>5, <4>6 DEF FilesInv
    <3>6. CASE ~ok
      <4>1. UNCHANGED snapshots /\ main' \notin Sending
        BY <2>5, <3>6 DEF TakeSnapshot
      <4> QED
        BY <1>0, <2>0, <3>3, <3>4, <4>1 DEF FilesInv
    <3> QED
      BY <3>5, <3>6
  <2>6. ASSUME NEW ok \in BOOLEAN, Send(ok) PROVE FilesInv'
    <3>1. UNCHANGED <<snapshots, files>> /\ main' \notin Sending /\ main = "send"
      BY <2>6 DEF Send
    <3>2. Current \in actions /\ Awaits(Current) /\ snap \in DOMAIN snapshots
      BY <1>0, <3>1 DEF LedgerInv, Awaits, FilesInv
    <3>3. Current \notin files[snapshots[snap]]
      BY <1>0, <2>00, <3>2 DEF WaitingInv, FilesInv
    <3>4. \A p \in Held' : p \in Held \/ (p.id = Current /\ p.snap = snap)
      BY <2>0, <2>6 DEF Send
    <3>5. \A p \in Held' : p.snap \in DOMAIN snapshots /\ p.id \notin files[snapshots[p.snap]]
      BY <1>0, <3>2, <3>3, <3>4 DEF FilesInv
    <3> QED
      BY <1>0, <2>0, <3>1, <3>5 DEF FilesInv
  <2> QED
    BY <1>4, <2>2, <2>3, <2>4, <2>5, <2>6 DEF HandleProposal
<1>5. ASSUME Bridge PROVE FilesInv'
  <2>0. UNCHANGED <<snapshots, files, restored, main, snap>> /\ Held' = Held
    BY <1>5, BridgeFrame
  <2>1. CASE EngineTick \/ SendSnapshot \/ HandleRequest
    BY <1>1, <2>0, <2>1 DEF EngineTick, SendSnapshot, HandleRequest
  <2>2. CASE Autosave
    BY <1>0, <2>0, <2>2 DEF Autosave, FilesInv
  <2>3. ASSUME NEW h \in handling, NEW ok \in BOOLEAN, QueryAction(h, ok) PROVE FilesInv'
    BY <1>1, <2>0, <2>3 DEF QueryAction
  <2>4. ASSUME NEW h \in handling, NEW ok \in BOOLEAN, ExecuteAction(h, ok) PROVE FilesInv'
    <3>1. ToSet(executed) \subseteq ToSet(executed')
      BY <1>0, <2>4, AppendFacts DEF ExecuteAction, TypeOK, Handling
    <3> QED
      BY <1>1, <2>0, <2>4, <3>1 DEF ExecuteAction
  <2>5. ASSUME NEW h \in handling, SendCommandResult(h) PROVE FilesInv'
    BY <1>1, <2>0, <2>5 DEF SendCommandResult
  <2> QED
    BY <1>5, <2>1, <2>2, <2>3, <2>4, <2>5 DEF Bridge
<1>6. CASE UNCHANGED vars
  BY <1>1, <1>6 DEF vars
<1> QED
  BY <1>2, <1>3, <1>4, <1>5, <1>6 DEF Next

-----------------------------------------------------------------------------
\* The invariant is inductive.
THEOREM Invariant == Spec => []IInv
<1>1. IInv /\ [Next]_vars => IInv'
  BY TypeStep, LedgerStep, OnePlaceStep, WaitingStep, OutcomeStep, OrderStep, FilesStep DEF IInv
<1> QED
  BY <1>1, InitIInv, PTL DEF Spec

\* Every variable keeps its type, and every row, message and map entry its form.
THEOREM TypeCorrect == Spec => []TypeOK
<1>1. IInv => TypeOK
  BY DEF IInv
<1> QED
  BY <1>1, Invariant, PTL

\* The engine executes only actions of authorized proposals, and no
\* idempotency key twice, whatever breaks or restarts: the UNIQUE key of the
\* actions table stands where the bridge's cache and the cooldown do not.
THEOREM LedgerHoldsExecuted == Spec => []ExecutesWhatTheLedgerHolds
<1>1. IInv => ExecutesWhatTheLedgerHolds
  <2> SUFFICES ASSUME IInv PROVE ExecutesWhatTheLedgerHolds
    OBVIOUS
  <2>1. TypeOK /\ LedgerInv /\ OutcomeInv
    BY DEF IInv
  <2>2. \A m \in DOMAIN executed : executed[m] \in actions
    BY <2>1, SeqFacts DEF TypeOK, OutcomeInv
  <2> QED
    BY <2>1, <2>2 DEF ExecutesWhatTheLedgerHolds, LedgerInv, OutcomeInv
<1> QED
  BY <1>1, Invariant, PTL

\* A result row, a verification and a rollback tell the truth of their own
\* command, in whatever order and over whatever connection results arrive.
THEOREM ResultsTrue == Spec => []ResultsTellWhatHappened
<1>1. IInv => ResultsTellWhatHappened
  BY DEF IInv, TypeOK, OutcomeInv, ResultsTellWhatHappened
<1> QED
  BY <1>1, Invariant, PTL

\* A command is verified only on a snapshot of a park that has felt it.
THEOREM JudgedAfter == Spec => []JudgedAfterItsEffect
<1>1. IInv => JudgedAfterItsEffect
  BY DEF IInv, OrderInv, JudgedAfterItsEffect
<1> QED
  BY <1>1, Invariant, PTL

\* An automatic rollback restores a park saved before the command it answers,
\* for no file that a snapshots row names is ever written again.
THEOREM RollbackUndoes == Spec => []RollbackUndoesTheCommand
<1>1. IInv => RollbackUndoesTheCommand
  BY DEF IInv, FilesInv, RollbackUndoesTheCommand
<1> QED
  BY <1>1, Invariant, PTL
=============================================================================
