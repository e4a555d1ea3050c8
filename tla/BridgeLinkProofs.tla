-------------------------- MODULE BridgeLinkProofs --------------------------
(***************************************************************************)
(* IInv is inductive, and the safety properties of BridgeLink follow from  *)
(* it, for every set of sockets and every bound.                           *)
(***************************************************************************)
EXTENDS BridgeLink, SequenceFacts, FiniteSetTheorems

USE SocketsAssumption, LinkBoundsAssumption, ThresholdsAssumption

\* The backoff doubles within its limits.
LEMMA DoubledFacts ==
  ASSUME NEW d \in 1..MaxDelay
  PROVE  Doubled(d) \in 1..MaxDelay
BY DEF Doubled

\* Lines written reach one inbox at its end, or none.
LEMMA Delivered ==
  ASSUME TypeOK, NEW s \in Sockets \cup {NoSocket}, NEW lines \in Seq(Line), Deliver(s, lines)
  PROVE  /\ inbox' \in [Sockets -> Seq(Line)]
         /\ \/ UNCHANGED inbox
            \/ /\ s \in Sockets /\ sock'[s] = "open" /\ s \notin eof
               /\ inbox' = [inbox EXCEPT ![s] = inbox[s] \o lines]
<1>1. CASE s # NoSocket /\ sock'[s] = "open" /\ s \notin eof
  <2>1. s \in Sockets /\ inbox[s] \in Seq(Line) /\ inbox \in [Sockets -> Seq(Line)]
    BY <1>1 DEF TypeOK
  <2>2. inbox[s] \o lines \in Seq(Line)
    BY <2>1, ConcatFacts
  <2>3. inbox' = [inbox EXCEPT ![s] = inbox[s] \o lines]
    BY <1>1 DEF Deliver
  <2> QED
    BY <1>1, <2>1, <2>2, <2>3
<1>2. CASE ~ (s # NoSocket /\ sock'[s] = "open" /\ s \notin eof)
  BY <1>2 DEF Deliver, TypeOK
<1> QED
  BY <1>1, <1>2

\* What a new connection is greeted with: hello, then the buffer.
LEMMA Greeting ==
  ASSUME TypeOK
  PROVE  /\ <<HelloLine>> \o buffer \in Seq(Line)
         /\ Len(<<HelloLine>> \o buffer) = Len(buffer) + 1
         /\ DOMAIN (<<HelloLine>> \o buffer) = 1..Len(buffer) + 1
         /\ (<<HelloLine>> \o buffer)[1] = HelloLine
         /\ \A i \in 2..Len(buffer) + 1 :
              i - 1 \in DOMAIN buffer /\ (<<HelloLine>> \o buffer)[i] = buffer[i - 1]
         /\ ToSet(<<HelloLine>> \o buffer) = {HelloLine} \cup ToSet(buffer)
<1> DEFINE hello == <<HelloLine>>
<1>1. HelloLine \in Line /\ 1..MaxSnapshots \subseteq Line
  BY DEF Line
<1>2. buffer \in Seq(Line)
  <2>1. \A i \in 1..Len(buffer) : buffer[i] \in Line
    BY <1>1, SeqFacts DEF TypeOK
  <2>2. buffer \in Seq(1..MaxSnapshots)
    BY DEF TypeOK
  <2> QED
    BY <2>1, <2>2, ElementOfSeq, SeqDef, LenProperties
<1>3. /\ hello \in Seq(Line) /\ Len(hello) = 1 /\ DOMAIN hello = {1}
      /\ hello[1] = HelloLine /\ ToSet(hello) = {HelloLine}
  BY <1>1, SingletonFacts
<1>4. Len(buffer) \in Nat /\ DOMAIN buffer = 1..Len(buffer)
  BY <1>2, SeqFacts
<1> HIDE DEF hello
<1>5. /\ hello \o buffer \in Seq(Line)
      /\ Len(hello \o buffer) = Len(buffer) + 1
      /\ DOMAIN (hello \o buffer) = 1..Len(buffer) + 1
      /\ ToSet(hello \o buffer) = {HelloLine} \cup ToSet(buffer)
      /\ (hello \o buffer)[1] = HelloLine
      /\ \A i \in DOMAIN buffer : (hello \o buffer)[1 + i] = buffer[i]
  <2>1. /\ hello \o buffer \in Seq(Line)
        /\ Len(hello \o buffer) = 1 + Len(buffer)
        /\ DOMAIN (hello \o buffer) = 1..1 + Len(buffer)
        /\ ToSet(hello \o buffer) = ToSet(hello) \cup ToSet(buffer)
        /\ \A i \in DOMAIN hello : (hello \o buffer)[i] = hello[i]
        /\ \A i \in DOMAIN buffer : (hello \o buffer)[1 + i] = buffer[i]
    BY <1>2, <1>3, ConcatFacts
  <2> QED
    BY <1>3, <1>4, <2>1
<1>6. \A i \in 2..Len(buffer) + 1 :
        i - 1 \in DOMAIN buffer /\ (hello \o buffer)[i] = buffer[i - 1]
  BY <1>4, <1>5
<1> QED
  BY <1>5, <1>6 DEF hello

-----------------------------------------------------------------------------
\* The first start satisfies the invariant.
LEMMA InitIInv == Init => IInv
<1> SUFFICES ASSUME Init PROVE IInv
  OBVIOUS
<1> USE DEF Init
<1>1. /\ buffer \in Seq(1..MaxSnapshots) /\ backlog \in Seq(Sockets)
      /\ recorded \in Seq(1..MaxSnapshots) /\ \A s \in Sockets : inbox[s] \in Seq(Line)
  BY EmptyFacts
<1>2. /\ Len(buffer) = 0 /\ DOMAIN buffer = {} /\ ToSet(buffer) = {}
      /\ DOMAIN backlog = {} /\ ToSet(backlog) = {}
      /\ DOMAIN recorded = {} /\ ToSet(recorded) = {}
      /\ \A s \in Sockets : DOMAIN inbox[s] = {} /\ ToSet(inbox[s]) = {}
  BY EmptyFacts
<1>3. TypeOK
  <2>1. sock \in [Sockets -> {"free", "connecting", "open", "failing", "closing"}]
    OBVIOUS
  <2>2. inbox \in [Sockets -> Seq(Line)]
    BY <1>1
  <2>3. /\ timers \in Nat /\ delay \in 1..MaxDelay /\ made \in 0..MaxSnapshots
        /\ breaks \in 0..MaxBreaks /\ age \in {Unheard} \cup 0..LostAfter
    BY DEF Unheard
  <2>4. Len(buffer) <= MaxBuffered
    BY <1>2
  <2>5. connected \in BOOLEAN /\ up \in BOOLEAN
    OBVIOUS
  <2> QED
    BY <1>1, <2>1, <2>2, <2>3, <2>4, <2>5 DEF TypeOK, Health
<1>4. LifelineInv
  BY DEF LifelineInv
<1>5. EstablishedInv
  BY <1>2 DEF EstablishedInv, Established
<1>6. HelloComesFirst /\ HelloInv
  BY <1>2 DEF HelloComesFirst, HelloInv, Established
<1>7. AgeInv
  BY <1>2 DEF AgeInv, SnapshotsInOrder, Older, Unread, Numbered
<1> QED
  BY <1>3, <1>4, <1>5, <1>6, <1>7 DEF IInv

\* Types are preserved.
LEMMA TypeStep == IInv /\ [Next]_vars => TypeOK'
<1> SUFFICES ASSUME IInv, [Next]_vars PROVE TypeOK'
  OBVIOUS
<1> USE DEF bridge, client, server
<1>0. TypeOK /\ EstablishedInv
  BY DEF IInv
<1>1. ASSUME NEW s \in Sockets, Connect(s) PROVE TypeOK'
  BY <1>0, <1>1 DEF Connect, TypeOK
<1>2. CASE ConnectThrows
  BY <1>0, <1>2, DoubledFacts DEF ConnectThrows, TypeOK
<1>3. ASSUME NEW s \in Sockets, OnConnect(s) PROVE TypeOK'
  <2>1. inbox' \in [Sockets -> Seq(Line)]
    BY <1>0, <1>3, Delivered, Greeting DEF OnConnect, TypeOK
  <2>2. backlog' \in Seq(Sockets)
    BY <1>0, <1>3, AppendFacts DEF OnConnect, TypeOK
  <2>3. buffer' \in Seq(1..MaxSnapshots) /\ Len(buffer') <= MaxBuffered
    BY <1>3, EmptyFacts DEF OnConnect
  <2>4. /\ connected' \in BOOLEAN /\ delay' \in 1..MaxDelay
        /\ sock' \in [Sockets -> {"free", "connecting", "open", "failing", "closing"}]
    BY <1>0, <1>3 DEF OnConnect, TypeOK
  <2> QED
    BY <1>0, <1>3, <2>1, <2>2, <2>3, <2>4 DEF OnConnect, TypeOK
<1>4. ASSUME NEW s \in Sockets, OnError(s) \/ OnClose(s) PROVE TypeOK'
  <2>1. timers' \in Nat /\ delay' = Doubled(delay) /\ socket' = NoSocket /\ connected' = FALSE
    BY <1>0, <1>4 DEF OnError, OnClose, ScheduleReconnect, TypeOK
  <2>3. connected' \in BOOLEAN
    BY <2>1
  <2>4. delay' \in 1..MaxDelay
    BY <1>0, <2>1, DoubledFacts DEF TypeOK
  <2>2. sock' \in [Sockets -> {"free", "connecting", "open", "failing", "closing"}]
    BY <1>0, <1>4 DEF OnError, OnClose, TypeOK
  <2> QED
    BY <1>0, <1>4, <2>1, <2>2, <2>3, <2>4 DEF OnError, OnClose, TypeOK
<1>5. CASE SendHeartbeat
  <2>1. <<HeartbeatLine>> \in Seq(Line)
    BY SingletonFacts DEF Line
  <2>2. inbox' \in [Sockets -> Seq(Line)]
    BY <1>0, <1>5, <2>1, Delivered DEF SendHeartbeat, TypeOK
  <2> QED
    BY <1>0, <1>5, <2>2 DEF SendHeartbeat, TypeOK
<1>6. CASE SendSnapshot
  <2> DEFINE n == made + 1
             kept == Append(buffer, n)
  <2>1. n \in 1..MaxSnapshots /\ n \in Line /\ made' = n
    BY <1>0, <1>6 DEF SendSnapshot, TypeOK, Line
  <2>2. <<n>> \in Seq(Line)
    BY <2>1, SingletonFacts
  <2>3. inbox' \in [Sockets -> Seq(Line)]
    BY <1>0, <1>6, <2>2, Delivered DEF SendSnapshot, TypeOK
  <2>4. buffer' \in Seq(1..MaxSnapshots) /\ Len(buffer') <= MaxBuffered
    <3>1. kept \in Seq(1..MaxSnapshots) /\ Len(kept) = Len(buffer) + 1 /\ Len(buffer) \in Nat
      BY <1>0, <2>1, AppendFacts, SeqFacts DEF TypeOK
    <3>2. kept # <<>>
      BY <3>1, EmptyFacts
    <3>3. Tail(kept) \in Seq(1..MaxSnapshots) /\ Len(Tail(kept)) = Len(buffer)
      BY <3>1, <3>2, TailFacts
    <3>4. buffer' = buffer \/ buffer' = IF Len(kept) > MaxBuffered THEN Tail(kept) ELSE kept
      BY <1>6 DEF SendSnapshot
    <3>5. CASE buffer' = buffer
      BY <1>0, <3>5 DEF TypeOK
    <3>6. CASE Len(kept) > MaxBuffered /\ buffer' = Tail(kept)
      BY <1>0, <3>3, <3>6 DEF TypeOK
    <3>7. CASE ~ (Len(kept) > MaxBuffered) /\ buffer' = kept
      BY <3>1, <3>7
    <3> QED
      BY <3>4, <3>5, <3>6, <3>7
  <2> QED
    BY <1>0, <1>6, <2>1, <2>3, <2>4 DEF SendSnapshot, TypeOK
<1>7. CASE Start
  BY <1>0, <1>7 DEF Start, TypeOK, Health
<1>8. CASE Crash
  <2>1. backlog' \in Seq(Sockets) /\ inbox' \in [Sockets -> Seq(Line)]
    BY <1>8, EmptyFacts DEF Crash
  <2>2. breaks' \in 0..MaxBreaks
    BY <1>0, <1>8 DEF Crash, TypeOK
  <2>3. sock' \in [Sockets -> {"free", "connecting", "open", "failing", "closing"}]
    BY <1>0, <1>8 DEF Crash, TypeOK
  <2> QED
    BY <1>0, <1>8, <2>1, <2>2, <2>3 DEF Crash, TypeOK
<1>9. ASSUME NEW s \in Sockets, Reset(s) PROVE TypeOK'
  BY <1>0, <1>9 DEF Reset, TypeOK
<1>10. CASE Accept
  <2>1. Head(backlog) \in Sockets /\ Tail(backlog) \in Seq(Sockets)
    BY <1>0, <1>10, TailFacts DEF Accept, TypeOK
  <2> QED
    BY <1>0, <1>10, <2>1 DEF Accept, TypeOK, Health
<1>11. CASE ReadLine
  <2> DEFINE line == Head(inbox[serving])
  <2>1. /\ serving \in Sockets /\ line \in Line
        /\ Tail(inbox[serving]) \in Seq(Line)
    BY <1>0, <1>11, TailFacts DEF ReadLine, TypeOK
  <2>2. inbox' \in [Sockets -> Seq(Line)]
    BY <1>0, <1>11, <2>1 DEF ReadLine, TypeOK
  <2>3. recorded' \in Seq(1..MaxSnapshots)
    <3>1. line \notin {HelloLine, HeartbeatLine} => line \in 1..MaxSnapshots
      BY <2>1 DEF Line
    <3> QED
      <4>1. CASE line \in {HelloLine, HeartbeatLine}
        BY <1>0, <1>11, <4>1 DEF ReadLine, TypeOK
      <4>2. CASE line \notin {HelloLine, HeartbeatLine}
        <5>1. recorded' = Append(recorded, line) /\ recorded \in Seq(1..MaxSnapshots)
          BY <1>0, <1>11, <4>2 DEF ReadLine, TypeOK
        <5> QED
          BY <3>1, <4>2, <5>1, AppendFacts
      <4> QED
        BY <4>1, <4>2
  <2>4. health' \in Health /\ age' \in {Unheard} \cup 0..LostAfter
    BY <1>0, <1>11 DEF ReadLine, TypeOK, Health
  <2>5. read' \in {"nothing", "hello", "other"}
    BY <1>0, <1>11 DEF ReadLine, TypeOK
  <2> QED
    BY <1>0, <1>11, <2>2, <2>3, <2>4, <2>5 DEF ReadLine, TypeOK
<1>12. CASE Disconnect
  <2>1. inbox' \in [Sockets -> Seq(Line)]
    BY <1>0, <1>12, EmptyFacts DEF Disconnect, TypeOK
  <2> QED
    BY <1>0, <1>12, <2>1 DEF Disconnect, TypeOK, Health
<1>13. CASE TimePasses
  BY <1>0, <1>13 DEF TimePasses, TypeOK, Unheard
<1>14. CASE TickCheck
  BY <1>0, <1>14 DEF TickCheck, TypeOK, Health
<1>15. CASE UNCHANGED vars
  BY <1>0, <1>15 DEF vars, TypeOK
<1> QED
  BY <1>1, <1>2, <1>3, <1>4, <1>5, <1>6, <1>7, <1>8, <1>9, <1>10, <1>11, <1>12, <1>13, <1>14,
     <1>15 DEF Next

-----------------------------------------------------------------------------
\* There is always one timer or one socket.
LEMMA LifelineStep == IInv /\ [Next]_vars => LifelineInv'
<1> SUFFICES ASSUME IInv, [Next]_vars PROVE LifelineInv'
  OBVIOUS
<1> USE DEF bridge, client, server
<1>0. TypeOK /\ LifelineInv
  BY DEF IInv
<1>1. ASSUME UNCHANGED <<socket, connected, timers, sock>> PROVE LifelineInv'
  BY <1>0, <1>1 DEF LifelineInv
<1>2. ASSUME NEW s \in Sockets, Connect(s) PROVE LifelineInv'
  BY <1>0, <1>2 DEF Connect, LifelineInv, TypeOK
<1>3. ASSUME NEW s \in Sockets, OnConnect(s) PROVE LifelineInv'
  BY <1>0, <1>3 DEF OnConnect, LifelineInv, TypeOK
<1>4. ASSUME NEW s \in Sockets, OnError(s) \/ OnClose(s) PROVE LifelineInv'
  <2>1. /\ sock' = [sock EXCEPT ![s] = "free"] /\ sock[s] # "free"
        /\ timers' = timers + 1 /\ socket' = NoSocket /\ connected' = FALSE
    BY <1>4 DEF OnError, OnClose, ScheduleReconnect
  <2>2. timers = 0 /\ \A t \in Sockets : t # s => sock[t] = "free"
    BY <1>0, <2>1 DEF LifelineInv
  <2>3. \A t \in Sockets : sock'[t] = "free"
    BY <1>0, <2>1, <2>2 DEF TypeOK
  <2> QED
    BY <2>1, <2>2, <2>3 DEF LifelineInv
<1>5. ASSUME NEW s \in Sockets, Reset(s) PROVE LifelineInv'
  BY <1>0, <1>5 DEF Reset, LifelineInv, TypeOK
<1>6. CASE Crash
  BY <1>0, <1>6 DEF Crash, LifelineInv, TypeOK
<1>7. CASE ConnectThrows \/ SendHeartbeat \/ SendSnapshot
  BY <1>1, <1>7 DEF ConnectThrows, SendHeartbeat, SendSnapshot
<1>8. CASE Start \/ Accept \/ ReadLine \/ Disconnect \/ TimePasses \/ TickCheck
  BY <1>1, <1>8 DEF Start, Accept, ReadLine, Disconnect, TimePasses, TickCheck
<1>9. CASE UNCHANGED vars
  BY <1>1, <1>9 DEF vars
<1> QED
  BY <1>2, <1>3, <1>4, <1>5, <1>6, <1>7, <1>8, <1>9 DEF Next

\* A line written on a connection reaches the one last established.
LEMMA Written ==
  ASSUME IInv, NEW n \in Line, UNCHANGED <<client, sock, eof, server>>,
         Deliver(socket, <<n>>), connected, socket # NoSocket
  PROVE  \/ UNCHANGED inbox
         \/ /\ socket \in Established
            /\ IF backlog = <<>> THEN socket = serving
               ELSE backlog[Len(backlog)] = socket /\ socket # serving
            /\ inbox' = [inbox EXCEPT ![socket] = inbox[socket] \o <<n>>]
            /\ inbox[socket] \in Seq(Line) /\ <<n>> \in Seq(Line)
<1>0. TypeOK /\ EstablishedInv
  BY DEF IInv
<1>1. <<n>> \in Seq(Line)
  BY SingletonFacts
<1>2. socket \in Sockets
  BY <1>0 DEF TypeOK
<1>3. \/ UNCHANGED inbox
      \/ /\ sock'[socket] = "open"
         /\ inbox' = [inbox EXCEPT ![socket] = inbox[socket] \o <<n>>]
  BY <1>0, <1>1, <1>2, Delivered
<1>4. ASSUME sock[socket] = "open"
      PROVE  /\ socket \in Established
             /\ IF backlog = <<>> THEN socket = serving
                ELSE backlog[Len(backlog)] = socket /\ socket # serving
  <2>1. IF backlog = <<>> THEN socket = serving ELSE socket = backlog[Len(backlog)]
    BY <1>0, <1>2, <1>4 DEF EstablishedInv
  <2>2. backlog # <<>> => backlog[Len(backlog)] \in ToSet(backlog)
    <3>1. ASSUME backlog # <<>> PROVE Len(backlog) \in DOMAIN backlog
      BY <1>0, <3>1, EmptySeq, LenProperties DEF TypeOK
    <3> QED
      BY <1>0, <3>1, SeqFacts DEF TypeOK
  <2> QED
    BY <1>0, <1>2, <2>1, <2>2 DEF Established, EstablishedInv
<1>5. inbox[socket] \in Seq(Line)
  BY <1>0, <1>2 DEF TypeOK
<1> QED
  BY <1>1, <1>3, <1>4, <1>5

\* The greeting fills the empty inbox of a connection not yet known.
LEMMA Greeted ==
  ASSUME IInv, NEW s \in Sockets, OnConnect(s)
  PROVE  /\ socket = s /\ s \notin Established /\ s \notin eof
         /\ \A t \in Sockets : t # s => sock[t] = "free"
         /\ inbox' = [inbox EXCEPT ![s] = <<HelloLine>> \o buffer]
<1>0. TypeOK /\ LifelineInv /\ EstablishedInv
  BY DEF IInv
<1>1. socket = s /\ s \notin Established /\ s \notin eof
  BY <1>0 DEF OnConnect, LifelineInv, EstablishedInv
<1>2. \A t \in Sockets : t # s => sock[t] = "free"
  BY <1>0, <1>1 DEF OnConnect, LifelineInv
<1>3. inbox[s] = <<>>
  BY <1>0, <1>1 DEF EstablishedInv
<1>4. s # NoSocket /\ sock'[s] = "open"
  BY <1>0 DEF OnConnect, TypeOK
<1>5. inbox' = [inbox EXCEPT ![s] = inbox[s] \o (<<HelloLine>> \o buffer)]
  BY <1>1, <1>4 DEF OnConnect, Deliver
<1>6. inbox[s] \o (<<HelloLine>> \o buffer) = <<HelloLine>> \o buffer
  <2>1. <<HelloLine>> \o buffer \in Seq(Line)
    BY <1>0, Greeting
  <2> QED
    BY <1>3, <2>1, ConcatEmptySeq
<1> QED
  BY <1>1, <1>2, <1>5, <1>6

\* Accepting takes the first of the connections established.
LEMMA Accepted ==
  ASSUME IInv, Accept
  PROVE  /\ serving' \in Sockets /\ serving' = backlog[1] /\ 1 \in DOMAIN backlog
         /\ backlog \in Seq(Sockets) /\ backlog' \in Seq(Sockets)
         /\ Len(backlog) \in Nat /\ Len(backlog') = Len(backlog) - 1
         /\ DOMAIN backlog' = 1..Len(backlog) - 1
         /\ \A i \in DOMAIN backlog' :
              i \in Nat \ {0} /\ i + 1 \in DOMAIN backlog /\ backlog'[i] = backlog[i + 1]
         /\ ToSet(backlog) = ToSet(backlog') \cup {serving'}
         /\ serving' \notin ToSet(backlog')
         /\ serving = NoSocket
<1>0. TypeOK /\ EstablishedInv
  BY DEF IInv
<1>1. backlog \in Seq(Sockets) /\ backlog # <<>> /\ backlog' = Tail(backlog)
      /\ serving' = Head(backlog) /\ serving = NoSocket
  BY <1>0 DEF TypeOK, Accept
<1>2. /\ serving' \in Sockets /\ serving' = backlog[1] /\ 1 \in DOMAIN backlog
      /\ backlog' \in Seq(Sockets)
      /\ Len(backlog) \in Nat /\ Len(backlog') = Len(backlog) - 1
      /\ DOMAIN backlog' = 1..Len(backlog) - 1
      /\ \A i \in DOMAIN backlog' : i + 1 \in DOMAIN backlog /\ backlog'[i] = backlog[i + 1]
      /\ ToSet(backlog) = ToSet(backlog') \cup {serving'}
  BY <1>1, TailFacts, SeqFacts
<1>3. \A i \in DOMAIN backlog' : i \in Nat \ {0}
  BY <1>2
<1>4. \A i \in DOMAIN backlog' : backlog'[i] # serving'
  BY <1>0, <1>2, <1>3 DEF EstablishedInv
<1>5. serving' \notin ToSet(backlog')
  BY <1>2, <1>4, SeqFacts
<1> QED
  BY <1>1, <1>2, <1>3, <1>5

\* The orchestrator knows each connection once, and the open one last.
LEMMA EstablishedStep == IInv /\ [Next]_vars => EstablishedInv'
<1> SUFFICES ASSUME IInv, [Next]_vars PROVE EstablishedInv'
  OBVIOUS
<1> USE DEF bridge, client, server
<1>0. TypeOK /\ LifelineInv /\ EstablishedInv
  BY DEF IInv
<1>1. ASSUME UNCHANGED <<sock, eof, backlog, serving>>,
             \A s \in Sockets : inbox'[s] # <<>> => inbox[s] # <<>> \/ s \in Established
      PROVE  EstablishedInv'
  BY <1>0, <1>1 DEF EstablishedInv, Established
<1>2. ASSUME NEW s \in Sockets, Connect(s) PROVE EstablishedInv'
  BY <1>0, <1>2 DEF Connect, EstablishedInv, Established, TypeOK
<1>3. ASSUME NEW s \in Sockets, OnConnect(s) PROVE EstablishedInv'
  <2>1. /\ s \notin Established /\ s \notin eof /\ s # serving
        /\ \A t \in Sockets : t # s => sock[t] = "free"
    BY <1>3, Greeted DEF Established
  <2>2. /\ backlog' = Append(backlog, s) /\ UNCHANGED <<serving, eof>>
        /\ sock' = [sock EXCEPT ![s] = "open"]
    BY <1>3 DEF OnConnect
  <2>3. /\ backlog \in Seq(Sockets) /\ DOMAIN backlog = 1..Len(backlog) /\ Len(backlog) \in Nat
        /\ DOMAIN backlog' = 1..Len(backlog) + 1
        /\ Len(backlog') = Len(backlog) + 1
        /\ \A i \in DOMAIN backlog : backlog'[i] = backlog[i] /\ backlog[i] \in ToSet(backlog)
        /\ backlog'[Len(backlog) + 1] = s
        /\ ToSet(backlog') = ToSet(backlog) \cup {s}
    BY <1>0, <2>2, AppendFacts, SeqFacts DEF TypeOK
  <2>4. Established' = Established \cup {s}
    BY <2>2, <2>3 DEF Established
  <2>5. \A m, n \in DOMAIN backlog' : m # n => backlog'[m] # backlog'[n]
    BY <1>0, <2>1, <2>3 DEF EstablishedInv, Established
  <2>6. \A t \in Sockets : sock'[t] = "open" <=> t = s
    BY <1>0, <2>1, <2>2 DEF TypeOK
  <2>7. backlog' # <<>>
    BY <2>3, EmptySeq
  <2>8. \A t \in Established' : sock'[t] = "open" \/ t \in eof'
    BY <1>0, <2>1, <2>2, <2>4, <2>6 DEF EstablishedInv
  <2>9. \A t \in Sockets : inbox'[t] # <<>> => t \in Established'
    BY <1>0, <1>3, <2>4, Greeted DEF EstablishedInv, TypeOK
  <2>10. serving' \notin ToSet(backlog')
    BY <1>0, <2>1, <2>2, <2>3 DEF EstablishedInv
  <2>11. \A t \in Sockets : sock'[t] # "connecting"
    BY <1>0, <2>1, <2>2 DEF TypeOK
  <2> QED
    BY <2>1, <2>2, <2>3, <2>5, <2>6, <2>7, <2>8, <2>9, <2>10, <2>11 DEF EstablishedInv
<1>4. ASSUME NEW s \in Sockets, OnError(s) \/ OnClose(s) PROVE EstablishedInv'
  <2>1. sock' = [sock EXCEPT ![s] = "free"] /\ sock[s] # "open"
        /\ UNCHANGED <<inbox, eof, backlog, serving>>
    BY <1>4 DEF OnError, OnClose
  <2> QED
    BY <1>0, <2>1 DEF EstablishedInv, Established, TypeOK
<1>5. ASSUME NEW n \in Line, UNCHANGED <<client, sock, eof, server>>,
             Deliver(socket, <<n>>), connected, socket # NoSocket
      PROVE  EstablishedInv'
  BY <1>0, <1>1, <1>5, Written DEF TypeOK
<1>6. CASE SendHeartbeat
  BY <1>5, <1>6 DEF SendHeartbeat, Line
<1>7. CASE SendSnapshot
  <2>1. made + 1 \in Line
    BY <1>0, <1>7 DEF SendSnapshot, TypeOK, Line
  <2> QED
    BY <1>1, <1>5, <1>7, <2>1 DEF SendSnapshot
<1>8. CASE Crash
  <2>1. /\ ToSet(backlog') = {} /\ DOMAIN backlog' = {} /\ Established' = {}
    BY <1>8, EmptyFacts DEF Crash, Established
  <2> QED
    BY <1>0, <1>8, <2>1 DEF Crash, EstablishedInv, TypeOK
<1>9. ASSUME NEW s \in Sockets, Reset(s) PROVE EstablishedInv'
  BY <1>0, <1>9 DEF Reset, EstablishedInv, Established, TypeOK
<1>10. CASE Accept
  <2>1. Established' = Established
    BY <1>0, <1>10, Accepted DEF Established
  <2>2. UNCHANGED <<sock, eof, inbox>>
    BY <1>10 DEF Accept
  <2>3. ASSUME NEW s \in Sockets, sock[s] = "open"
        PROVE  IF backlog' = <<>> THEN s = serving' ELSE s = backlog'[Len(backlog')]
    <3>1. s = backlog[Len(backlog)]
      BY <1>0, <1>10, <2>3 DEF Accept, EstablishedInv
    <3>2. backlog' = <<>> => Len(backlog) = 1
      BY <1>10, Accepted, EmptySeq
    <3>3. backlog' # <<>> => Len(backlog') \in DOMAIN backlog'
      BY <1>10, Accepted, EmptySeq, LenProperties
    <3> QED
      BY <1>10, <3>1, <3>2, <3>3, Accepted
  <2>4. \A m, n \in DOMAIN backlog' : m # n => backlog'[m] # backlog'[n]
    BY <1>0, <1>10, Accepted DEF EstablishedInv
  <2> QED
    BY <1>0, <1>10, <2>1, <2>2, <2>3, <2>4, Accepted DEF EstablishedInv
<1>11. CASE ReadLine
  BY <1>0, <1>1, <1>11 DEF ReadLine, TypeOK
<1>12. CASE Disconnect
  <2>1. serving \in Sockets /\ serving \notin ToSet(backlog)
    BY <1>0, <1>12 DEF Disconnect, TypeOK, EstablishedInv
  <2>2. Established' = ToSet(backlog) /\ Established = ToSet(backlog) \cup {serving}
    BY <1>12, <2>1 DEF Disconnect, Established
  <2>3. NoSocket \notin ToSet(backlog)
    BY <1>0, SeqFacts DEF TypeOK
  <2> QED
    BY <1>0, <1>12, <2>1, <2>2, <2>3 DEF Disconnect, EstablishedInv, TypeOK
<1>13. CASE ConnectThrows \/ Start \/ TimePasses \/ TickCheck
  BY <1>1, <1>13 DEF ConnectThrows, Start, TimePasses, TickCheck
<1>14. CASE UNCHANGED vars
  BY <1>1, <1>14 DEF vars
<1> QED
  BY <1>2, <1>3, <1>4, <1>6, <1>7, <1>8, <1>9, <1>10, <1>11, <1>12, <1>13, <1>14 DEF Next

-----------------------------------------------------------------------------
\* Every connection's first line is hello.
LEMMA HelloStep == IInv /\ [Next]_vars => HelloComesFirst' /\ HelloInv'
<1> SUFFICES ASSUME IInv, [Next]_vars PROVE HelloComesFirst' /\ HelloInv'
  OBVIOUS
<1> USE DEF bridge, client, server
<1>0. TypeOK /\ EstablishedInv /\ HelloComesFirst /\ HelloInv
  BY DEF IInv
<1>1. ASSUME UNCHANGED <<inbox, backlog, serving, read>>
      PROVE  HelloComesFirst' /\ HelloInv'
  BY <1>0, <1>1 DEF HelloComesFirst, HelloInv, Established
<1>2. CASE \/ \E s \in Sockets : Connect(s) \/ OnError(s) \/ OnClose(s) \/ Reset(s)
           \/ ConnectThrows \/ Start \/ TimePasses \/ TickCheck \/ UNCHANGED vars
  BY <1>1, <1>2 DEF Connect, OnError, OnClose, Reset, ConnectThrows, Start, TimePasses,
                    TickCheck, vars
<1>3. ASSUME NEW s \in Sockets, OnConnect(s) PROVE HelloComesFirst' /\ HelloInv'
  <2>1. s \notin Established /\ inbox' = [inbox EXCEPT ![s] = <<HelloLine>> \o buffer]
    BY <1>3, Greeted
  <2>2. /\ <<HelloLine>> \o buffer # <<>>
        /\ Head(<<HelloLine>> \o buffer) = HelloLine
    <3>1. /\ <<HelloLine>> \o buffer \in Seq(Line) /\ Len(buffer) \in Nat
          /\ Len(<<HelloLine>> \o buffer) = Len(buffer) + 1
          /\ (<<HelloLine>> \o buffer)[1] = HelloLine
      BY <1>0, Greeting, SeqFacts DEF TypeOK
    <3>2. <<HelloLine>> \o buffer # <<>>
      BY <3>1, EmptySeq
    <3> QED
      BY <3>1, <3>2, TailFacts
  <2>3. Established' = Established \cup {s} /\ UNCHANGED <<serving, read>>
    <3>1. ToSet(backlog') = ToSet(backlog) \cup {s} /\ UNCHANGED <<serving, read>>
      BY <1>0, <1>3, AppendFacts DEF OnConnect, TypeOK
    <3> QED
      BY <3>1 DEF Established
  <2>4. Established' \subseteq Sockets
    <3>1. Established \subseteq Sockets
      BY <1>0, SeqFacts DEF Established, TypeOK
    <3> QED
      BY <2>3, <3>1
  <2> QED
    BY <1>0, <2>1, <2>2, <2>3, <2>4 DEF HelloComesFirst, HelloInv, TypeOK
<1>4. ASSUME NEW n \in Line, UNCHANGED <<client, sock, eof, server>>,
             Deliver(socket, <<n>>), connected, socket # NoSocket
      PROVE  HelloComesFirst' /\ HelloInv'
  <2>1. CASE UNCHANGED inbox
    BY <1>1, <1>4, <2>1
  <2>2. CASE ~ UNCHANGED inbox
    <3>1. /\ inbox' = [inbox EXCEPT ![socket] = inbox[socket] \o <<n>>]
          /\ inbox[socket] \in Seq(Line) /\ <<n>> \in Seq(Line)
      BY <1>4, <2>2, Written
    <3>2. ASSUME inbox[socket] # <<>>
          PROVE  /\ inbox[socket] \o <<n>> # <<>>
                 /\ Head(inbox[socket] \o <<n>>) = Head(inbox[socket])
      <4>1. 1 \in DOMAIN inbox[socket] /\ Head(inbox[socket]) = inbox[socket][1]
        BY <3>1, <3>2, TailFacts
      <4>2. /\ inbox[socket] \o <<n>> \in Seq(Line)
            /\ 1 \in DOMAIN (inbox[socket] \o <<n>>)
            /\ (inbox[socket] \o <<n>>)[1] = inbox[socket][1]
        BY <3>1, <4>1, ConcatFacts
      <4>3. inbox[socket] \o <<n>> # <<>>
        BY <4>2, EmptyFacts
      <4> QED
        BY <4>1, <4>2, <4>3, TailFacts
    <3>3. Established' = Established /\ UNCHANGED <<serving, read>>
      BY <1>4 DEF Established
    <3>4. Established \subseteq Sockets
      BY <1>0, SeqFacts DEF Established, TypeOK
    <3> QED
      BY <1>0, <3>1, <3>2, <3>3, <3>4 DEF HelloComesFirst, HelloInv, TypeOK
  <2> QED
    BY <2>1, <2>2
<1>5. CASE SendHeartbeat
  BY <1>4, <1>5 DEF SendHeartbeat, Line
<1>6. CASE SendSnapshot
  <2>1. made + 1 \in Line
    BY <1>0, <1>6 DEF SendSnapshot, TypeOK, Line
  <2> QED
    BY <1>1, <1>4, <1>6, <2>1 DEF SendSnapshot
<1>7. CASE Crash
  <2>1. Established' = {} /\ UNCHANGED read
    BY <1>7, EmptyFacts DEF Crash, Established
  <2> QED
    BY <1>0, <2>1 DEF HelloComesFirst, HelloInv
<1>8. CASE Accept
  <2>1. Established' = Established /\ UNCHANGED inbox /\ read' = "nothing"
    BY <1>8, <1>0, Accepted DEF Established, Accept
  <2>2. NoSocket \notin Established /\ serving = NoSocket
    BY <1>0, <1>8, SeqFacts DEF Established, Accept, TypeOK
  <2> QED
    BY <1>0, <2>1, <2>2 DEF HelloComesFirst, HelloInv
<1>9. CASE ReadLine
  <2>1. UNCHANGED <<backlog, serving>> /\ Established' = Established
    BY <1>9 DEF ReadLine, Established
  <2>2. serving \in Established /\ serving \in Sockets
    BY <1>0, <1>9 DEF ReadLine, Established, TypeOK
  <2>3. read' # "nothing" /\ read' # "other"
    BY <1>0, <1>9, <2>2 DEF ReadLine, HelloInv, HelloComesFirst
  <2>4. \A s \in Sockets : s # serving => inbox'[s] = inbox[s]
    BY <1>0, <1>9, <2>2 DEF ReadLine, TypeOK
  <2>5. Established \subseteq Sockets
    BY <1>0, SeqFacts DEF Established, TypeOK
  <2> QED
    BY <1>0, <2>1, <2>3, <2>4, <2>5 DEF HelloComesFirst, HelloInv
<1>10. CASE Disconnect
  <2>1. serving \in Sockets /\ serving \notin ToSet(backlog) /\ UNCHANGED read
    BY <1>0, <1>10 DEF Disconnect, TypeOK, EstablishedInv
  <2>2. Established' = ToSet(backlog) /\ ToSet(backlog) \subseteq Established
    BY <1>10, <2>1 DEF Disconnect, Established
  <2>3. \A s \in Established' : s \in Sockets /\ inbox'[s] = inbox[s] /\ s # serving
    BY <1>0, <1>10, <2>1, <2>2, SeqFacts DEF Disconnect, TypeOK
  <2> QED
    BY <1>0, <2>1, <2>2, <2>3 DEF HelloComesFirst, HelloInv
<1> QED
  BY <1>2, <1>3, <1>5, <1>6, <1>7, <1>8, <1>9, <1>10 DEF Next

-----------------------------------------------------------------------------
\* Snapshots keep their age order on their way from the buffer to the rows.
LEMMA AgeStep == IInv /\ [Next]_vars => AgeInv'
<1> SUFFICES ASSUME IInv, [Next]_vars PROVE AgeInv'
  OBVIOUS
<1> USE DEF bridge, client, server, Unread
<1> DEFINE Ascends(line) ==
             \A m, n \in DOMAIN line :
               (m < n /\ {line[m], line[n]} \subseteq 1..MaxSnapshots) => line[m] < line[n]
<1>0. TypeOK /\ LifelineInv /\ EstablishedInv /\ AgeInv
  BY DEF IInv
<1>00. /\ made \in Nat
       /\ buffer \in Seq(1..MaxSnapshots) /\ recorded \in Seq(1..MaxSnapshots)
       /\ Len(buffer) \in Nat /\ DOMAIN buffer = 1..Len(buffer)
       /\ \A i \in DOMAIN buffer : buffer[i] \in ToSet(buffer) /\ buffer[i] \in Nat
       /\ \A n \in ToSet(buffer) : \E i \in DOMAIN buffer : buffer[i] = n
       /\ \A i \in DOMAIN recorded : recorded[i] \in ToSet(recorded) /\ recorded[i] \in Nat
       /\ \A n \in ToSet(recorded) : n \in 1..MaxSnapshots
  BY <1>0, SeqFacts DEF TypeOK
<1>000. ToSet(backlog) \subseteq Sockets
  BY <1>0, SeqFacts DEF TypeOK
<1>01. /\ \A s \in Sockets : \A n \in Numbered(inbox[s]) : n \in Nat /\ n <= made
       /\ \A n \in ToSet(recorded) : n \in Nat /\ n <= made
       /\ \A i \in DOMAIN buffer : buffer[i] = made - Len(buffer) + i
       /\ \A n \in ToSet(buffer) : n \in 1..MaxSnapshots /\ n <= made
  <2>1. \A i \in DOMAIN buffer : buffer[i] = made - Len(buffer) + i
    BY <1>0 DEF AgeInv, SnapshotsInOrder
  <2>2. \A i \in DOMAIN buffer : buffer[i] <= made
    BY <1>00, <2>1
  <2>3. \A n \in ToSet(buffer) : n \in 1..MaxSnapshots /\ n <= made
    BY <1>00, <2>2, SeqFacts
  <2>4. \A n \in 1..made : n \in Nat /\ n <= made
    BY <1>00
  <2> QED
    BY <1>0, <2>1, <2>3, <2>4 DEF AgeInv
<1>03. /\ \A s \in Sockets : \A n \in Numbered(inbox[s]) : n \in Nat /\ n < made + 1
       /\ \A n \in ToSet(recorded) : n \in Nat /\ n < made + 1
  <2>1. made \in Nat
    BY <1>00
  <2>2. \A n \in Nat : n <= made => n < made + 1
    BY <2>1
  <2> QED
    BY <1>01, <2>2
<1>02. /\ \A m, n \in DOMAIN recorded : m < n => recorded[m] < recorded[n]
       /\ \A x \in ToSet(recorded), y \in ToSet(buffer) : x < y
  BY <1>0 DEF AgeInv, SnapshotsInOrder, ToSet
<1>04. \A s \in Sockets : Ascends(inbox[s])
  BY <1>0 DEF AgeInv
<1>1. ASSUME UNCHANGED <<inbox, backlog, serving, recorded, buffer, made>>,
             connected' => connected
      PROVE  AgeInv'
  BY <1>0, <1>1 DEF AgeInv, SnapshotsInOrder, Numbered
<1>2. CASE \/ \E s \in Sockets : Connect(s) \/ Reset(s)
           \/ ConnectThrows \/ Start \/ TimePasses \/ TickCheck \/ UNCHANGED vars
  BY <1>1, <1>2 DEF Connect, Reset, ConnectThrows, Start, TimePasses, TickCheck, vars
<1>3. ASSUME NEW s \in Sockets, OnError(s) \/ OnClose(s) PROVE AgeInv'
  BY <1>1, <1>3 DEF OnError, OnClose, ScheduleReconnect
<1>4. ASSUME NEW s \in Sockets, OnConnect(s) PROVE AgeInv'
  <2> DEFINE line == <<HelloLine>> \o buffer
  <2>1. /\ s \notin Established /\ s # serving /\ s \notin ToSet(backlog)
        /\ inbox' = [inbox EXCEPT ![s] = line]
    BY <1>4, Greeted DEF Established
  <2>2. /\ DOMAIN line = 1..Len(buffer) + 1 /\ line[1] = HelloLine
        /\ \A i \in 2..Len(buffer) + 1 : i - 1 \in DOMAIN buffer /\ line[i] = buffer[i - 1]
        /\ ToSet(line) = {HelloLine} \cup ToSet(buffer)
    BY <1>0, Greeting
  <2>3. HelloLine \notin 1..MaxSnapshots
    BY DEF HelloLine
  <2>4. Numbered(line) = ToSet(buffer)
    BY <1>01, <2>2, <2>3 DEF Numbered
  <2>5. Ascends(line)
    <3> SUFFICES ASSUME NEW m \in DOMAIN line, NEW n \in DOMAIN line, m < n,
                        line[m] \in 1..MaxSnapshots
                 PROVE  line[m] < line[n]
      OBVIOUS
    <3>1. m \in 2..Len(buffer) + 1 /\ n \in 2..Len(buffer) + 1
      BY <1>00, <2>2, <2>3
    <3> QED
      <4>1. line[m] = made - Len(buffer) + (m - 1) /\ line[n] = made - Len(buffer) + (n - 1)
        BY <1>01, <2>2, <3>1
      <4>2. made - Len(buffer) + (m - 1) < made - Len(buffer) + (n - 1)
        BY <1>00, <3>1
      <4> QED
        BY <4>1, <4>2
  <2>6. /\ UNCHANGED <<serving, recorded, made>> /\ buffer' = <<>>
        /\ backlog' = Append(backlog, s)
    BY <1>4 DEF OnConnect
  <2>7. DOMAIN buffer' = {} /\ ToSet(buffer') = {}
    BY <2>6, EmptyFacts
  <2>8. /\ DOMAIN backlog' = 1..Len(backlog) + 1 /\ DOMAIN backlog = 1..Len(backlog)
        /\ Len(backlog) \in Nat
        /\ \A i \in DOMAIN backlog :
             backlog'[i] = backlog[i] /\ backlog[i] \in ToSet(backlog) /\ backlog[i] # s
        /\ backlog'[Len(backlog) + 1] = s
        /\ ToSet(backlog') = ToSet(backlog) \cup {s}
    BY <1>0, <2>1, <2>6, AppendFacts, SeqFacts DEF TypeOK
  <2>9. /\ Numbered(inbox'[s]) = ToSet(buffer)
        /\ \A t \in Sockets : t # s => Numbered(inbox'[t]) = Numbered(inbox[t]) /\ inbox'[t] = inbox[t]
        /\ inbox'[s] = line
    BY <1>0, <2>1, <2>4 DEF Numbered, TypeOK
  <2>10. ToSet(buffer) \subseteq 1..made
    BY <1>00, <1>01
  <2>11. Older(ToSet(recorded), ToSet(buffer))
    BY <1>02 DEF Older
  <2>12. \A t \in Sockets : Ascends(inbox'[t])
    <3> HIDE DEF Ascends, line
    <3> QED
      BY <1>04, <2>5, <2>9
  <2>13. SnapshotsInOrder'
    BY <1>0, <2>6, <2>7 DEF AgeInv, SnapshotsInOrder
  <2>14. \A t \in Sockets : /\ Older(ToSet(recorded'), Numbered(inbox'[t]))
                            /\ Older(Numbered(inbox'[t]), ToSet(buffer'))
    <3>1. Older(ToSet(recorded), Numbered(inbox'[s]))
      BY <2>9, <2>11
    <3>2. \A t \in Sockets : t # s => Older(ToSet(recorded), Numbered(inbox'[t]))
      BY <1>0, <2>9 DEF AgeInv
    <3>3. \A t \in Sockets : Older(Numbered(inbox'[t]), ToSet(buffer'))
      BY <2>7 DEF Older
    <3> QED
      BY <2>6, <3>1, <3>2, <3>3
  <2>15. \A t \in ToSet(backlog') : serving' # NoSocket => Older(Numbered(inbox'[serving]), Numbered(inbox'[t]))
    <3>1. serving # NoSocket => serving \in Sockets
      BY <1>0 DEF TypeOK
    <3> QED
      BY <1>0, <1>000, <2>1, <2>6, <2>8, <2>9, <3>1 DEF AgeInv
  <2>16. \A m, n \in DOMAIN backlog' :
           m < n => Older(Numbered(inbox'[backlog'[m]]), Numbered(inbox'[backlog'[n]]))
    <3> SUFFICES ASSUME NEW m \in DOMAIN backlog', NEW n \in DOMAIN backlog', m < n
                 PROVE  Older(Numbered(inbox'[backlog'[m]]), Numbered(inbox'[backlog'[n]]))
      OBVIOUS
    <3>1. m \in DOMAIN backlog /\ backlog'[m] = backlog[m] /\ backlog[m] \in Sockets
      BY <1>000, <2>8
    <3>2. CASE n \in DOMAIN backlog
      BY <1>0, <1>000, <2>8, <2>9, <3>1, <3>2 DEF AgeInv
    <3>3. CASE n = Len(backlog) + 1
      <4>1. Numbered(inbox'[backlog'[n]]) = ToSet(buffer)
        BY <2>8, <2>9, <3>3
      <4>2. Numbered(inbox'[backlog'[m]]) = Numbered(inbox[backlog[m]])
        BY <2>8, <2>9, <3>1
      <4>3. Older(Numbered(inbox[backlog[m]]), ToSet(buffer))
        BY <1>0, <3>1 DEF AgeInv
      <4> QED
        BY <4>1, <4>2, <4>3
    <3> QED
      BY <2>8, <3>2, <3>3
  <2>17. \A t \in Sockets : Numbered(inbox'[t]) \subseteq 1..made'
    BY <1>0, <2>6, <2>9, <2>10 DEF AgeInv
  <2> QED
    BY <1>0, <2>6, <2>12, <2>13, <2>14, <2>15, <2>16, <2>17 DEF AgeInv
<1>5. ASSUME NEW n \in Line, n = HeartbeatLine \/ (n = made + 1 /\ n \in 1..MaxSnapshots),
             made' = made \/ made' = n, made' >= made, UNCHANGED buffer,
             n \in 1..MaxSnapshots => made' = n,
             UNCHANGED <<client, sock, eof, server>>,
             Deliver(socket, <<n>>), connected, socket # NoSocket
      PROVE  AgeInv'
  <2>0. buffer = <<>> /\ DOMAIN buffer = {} /\ ToSet(buffer) = {} /\ made' \in Nat
    <3>1. buffer = <<>>
      BY <1>0, <1>5 DEF AgeInv
    <3>2. made' \in Nat
      BY <1>00, <1>5 DEF HeartbeatLine
    <3> QED
      BY <3>1, <3>2, EmptyFacts
  <2>1. SnapshotsInOrder'
    BY <1>0, <1>5, <2>0 DEF AgeInv, SnapshotsInOrder
  <2>2. CASE UNCHANGED inbox
    <3>1. \A t \in Sockets : Numbered(inbox'[t]) = Numbered(inbox[t])
      BY <2>2 DEF Numbered
    <3>2. 1..made \subseteq 1..made'
      BY <1>00, <1>5, <2>0
    <3> QED
      BY <1>0, <1>5, <2>0, <2>1, <2>2, <3>1, <3>2 DEF AgeInv, Numbered
  <2>3. CASE ~ UNCHANGED inbox
    <3> DEFINE old == inbox[socket]
               line == old \o <<n>>
    <3>1. /\ socket \in Established
          /\ IF backlog = <<>> THEN socket = serving
             ELSE backlog[Len(backlog)] = socket /\ socket # serving
          /\ inbox' = [inbox EXCEPT ![socket] = line]
          /\ old \in Seq(Line) /\ <<n>> \in Seq(Line)
      BY <1>5, <2>3, Written
    <3>2. /\ DOMAIN line = 1..Len(old) + 1 /\ DOMAIN old = 1..Len(old) /\ Len(old) \in Nat
          /\ \A i \in DOMAIN old : line[i] = old[i] /\ old[i] \in ToSet(old)
          /\ line[Len(old) + 1] = n
          /\ ToSet(line) = ToSet(old) \cup {n}
      <4> DEFINE one == <<n>>
      <4>1. Len(one) = 1 /\ DOMAIN one = {1} /\ one[1] = n /\ ToSet(one) = {n} /\ one \in Seq(Line)
        BY <1>5, SingletonFacts
      <4> HIDE DEF one
      <4>2. /\ DOMAIN (old \o one) = 1..Len(old) + 1
            /\ \A i \in DOMAIN old : (old \o one)[i] = old[i]
            /\ (old \o one)[Len(old) + 1] = n
            /\ ToSet(old \o one) = ToSet(old) \cup {n}
        BY <3>1, <4>1, ConcatFacts
      <4>3. DOMAIN old = 1..Len(old) /\ Len(old) \in Nat /\ \A i \in DOMAIN old : old[i] \in ToSet(old)
        BY <3>1, SeqFacts
      <4> QED
        BY <4>2, <4>3 DEF one
    <3>3. socket \in Sockets
      BY <1>0, <1>5 DEF TypeOK
    <3>4. \A t \in Sockets : t # socket => Numbered(inbox'[t]) = Numbered(inbox[t]) /\ inbox'[t] = inbox[t]
      BY <1>0, <3>1, <3>3 DEF Numbered, TypeOK
    <3>5. inbox'[socket] = line
      BY <1>0, <3>1, <3>3 DEF TypeOK
    <3>6. CASE n = HeartbeatLine
      <4>1. n \notin 1..MaxSnapshots
        BY <3>6 DEF HeartbeatLine
      <4>2. Numbered(inbox'[socket]) = Numbered(inbox[socket])
        BY <3>2, <3>5, <4>1 DEF Numbered
      <4>3. Ascends(line)
        <5> SUFFICES ASSUME NEW i \in DOMAIN line, NEW j \in DOMAIN line, i < j,
                            {line[i], line[j]} \subseteq 1..MaxSnapshots
                     PROVE  line[i] < line[j]
          OBVIOUS
        <5>1. i \in DOMAIN old /\ line[i] = old[i] /\ j \in DOMAIN old /\ line[j] = old[j]
          BY <3>2, <4>1
        <5>2. Ascends(old)
          BY <1>04, <3>3
        <5> QED
          BY <5>1, <5>2
      <4>4. \A t \in Sockets : Numbered(inbox'[t]) = Numbered(inbox[t]) /\ Ascends(inbox'[t])
        <5> HIDE DEF Ascends, line
        <5> QED
          BY <1>04, <3>4, <3>5, <4>2, <4>3
      <4>5. 1..made \subseteq 1..made'
        BY <1>00, <1>5, <2>0
      <4>6. \A t \in Sockets : Numbered(inbox'[t]) \subseteq 1..made'
        BY <1>0, <4>4, <4>5 DEF AgeInv
      <4>7. \A t \in ToSet(backlog) :
              serving # NoSocket => Older(Numbered(inbox'[serving]), Numbered(inbox'[t]))
        BY <1>0, <1>000, <4>4 DEF AgeInv, TypeOK
      <4>8. \A i, j \in DOMAIN backlog : i < j => Older(Numbered(inbox'[backlog[i]]), Numbered(inbox'[backlog[j]]))
        BY <1>0, <4>4, SeqFacts DEF AgeInv, TypeOK
      <4> QED
        BY <1>0, <1>5, <2>0, <2>1, <4>4, <4>5, <4>6, <4>7, <4>8 DEF AgeInv
    <3>7. CASE n = made + 1 /\ n \in 1..MaxSnapshots
      <4>1. Numbered(inbox'[socket]) = Numbered(inbox[socket]) \cup {n}
        BY <3>2, <3>5, <3>7 DEF Numbered
      <4>2. \A t \in Sockets : \A x \in Numbered(inbox[t]) : x \in Nat /\ x < n
        BY <1>03, <3>7
      <4>3. Ascends(line)
        <5> SUFFICES ASSUME NEW i \in DOMAIN line, NEW j \in DOMAIN line, i < j,
                            {line[i], line[j]} \subseteq 1..MaxSnapshots
                     PROVE  line[i] < line[j]
          OBVIOUS
        <5>1. i \in DOMAIN old /\ line[i] = old[i] /\ old[i] \in Numbered(inbox[socket])
          BY <3>2 DEF Numbered
        <5>2. CASE j \in DOMAIN old
          <6>1. line[j] = old[j] /\ Ascends(old)
            BY <1>04, <3>2, <3>3, <5>2
          <6> QED
            BY <5>1, <5>2, <6>1
        <5>3. CASE j = Len(old) + 1
          BY <3>2, <3>3, <4>2, <5>1, <5>3
        <5> QED
          BY <3>2, <5>2, <5>3
      <4>4. \A t \in Sockets : Ascends(inbox'[t])
        <5> HIDE DEF Ascends, line
        <5> QED
          BY <1>04, <3>4, <3>5, <4>3
      <4>5. \A x \in ToSet(recorded) : x < n
        BY <1>03, <3>7
      <4>6. \A t \in Sockets : Older(ToSet(recorded), Numbered(inbox'[t]))
        BY <1>0, <3>4, <4>1, <4>5 DEF AgeInv, Older
      <4>7. \A t \in Sockets : Numbered(inbox'[t]) \subseteq 1..n
        <5>1. \A t \in Sockets : \A x \in Numbered(inbox[t]) : x \in 1..n
          BY <1>00, <3>7, <4>2 DEF Numbered
        <5>2. n \in 1..n
          BY <3>7
        <5> QED
          BY <3>4, <4>1, <5>1, <5>2
      <4>8. \A t \in ToSet(backlog) :
              serving # NoSocket => Older(Numbered(inbox'[serving]), Numbered(inbox'[t]))
        <5> SUFFICES ASSUME NEW t \in ToSet(backlog), serving # NoSocket
                     PROVE  Older(Numbered(inbox'[serving]), Numbered(inbox'[t]))
          OBVIOUS
        <5>1. backlog # <<>> /\ t \in Sockets /\ serving \in Sockets
          BY <1>0, <1>000, EmptyFacts DEF TypeOK
        <5>2. serving # socket
          BY <3>1, <5>1
        <5>3. Older(Numbered(inbox[serving]), Numbered(inbox[t]))
          BY <1>0 DEF AgeInv
        <5> QED
          BY <3>4, <4>1, <4>2, <5>1, <5>2, <5>3 DEF Older
      <4>9. \A i, j \in DOMAIN backlog :
              i < j => Older(Numbered(inbox'[backlog[i]]), Numbered(inbox'[backlog[j]]))
        <5> SUFFICES ASSUME NEW i \in DOMAIN backlog, NEW j \in DOMAIN backlog, i < j
                     PROVE  Older(Numbered(inbox'[backlog[i]]), Numbered(inbox'[backlog[j]]))
          OBVIOUS
        <5>1. /\ backlog[i] \in Sockets /\ backlog[j] \in Sockets
              /\ DOMAIN backlog = 1..Len(backlog) /\ Len(backlog) \in Nat
          BY <1>0, SeqFacts DEF TypeOK
        <5>2. backlog # <<>>
          BY EmptyFacts
        <5>3. backlog[i] # socket
          BY <1>0, <3>1, <5>1, <5>2 DEF EstablishedInv
        <5>4. Older(Numbered(inbox[backlog[i]]), Numbered(inbox[backlog[j]]))
          BY <1>0 DEF AgeInv
        <5> QED
          BY <3>4, <4>1, <4>2, <5>1, <5>3, <5>4 DEF Older
      <4>10. ToSet(recorded) \subseteq 1..made'
        BY <1>0, <1>00, <1>5, <2>0 DEF AgeInv
      <4>11. made' = n
        BY <1>5, <3>7
      <4>12. \A t \in Sockets : Older(Numbered(inbox'[t]), ToSet(buffer))
        BY <2>0 DEF Older
      <4> QED
        BY <1>0, <1>5, <2>0, <2>1, <4>4, <4>6, <4>7, <4>8, <4>9, <4>10, <4>11, <4>12 DEF AgeInv
    <3> QED
      BY <1>5, <3>6, <3>7
  <2> QED
    BY <2>2, <2>3
<1>6. CASE SendHeartbeat
  <2>1. /\ UNCHANGED <<client, bridge, sock, eof, server>> /\ connected /\ socket # NoSocket
        /\ Deliver(socket, <<HeartbeatLine>>)
    BY <1>6 DEF SendHeartbeat
  <2>2. HeartbeatLine \in Line /\ HeartbeatLine \notin 1..MaxSnapshots
    BY DEF HeartbeatLine, Line
  <2>3. made' = made /\ made' >= made
    BY <1>00, <2>1
  <2> QED
    BY <1>5, <2>1, <2>2, <2>3
<1>7. CASE SendSnapshot
  <2> DEFINE n == made + 1
             kept == Append(buffer, n)
  <2>1. n \in 1..MaxSnapshots /\ n \in Line /\ made' = n /\ UNCHANGED <<client, sock, eof, server>>
    BY <1>0, <1>7 DEF SendSnapshot, TypeOK, Line
  <2>2. CASE connected /\ socket # NoSocket
    <3>1. Deliver(socket, <<n>>) /\ UNCHANGED buffer
      BY <1>7, <2>2 DEF SendSnapshot
    <3>2. made' >= made
      BY <1>00, <2>1
    <3> QED
      BY <1>5, <2>1, <2>2, <3>1, <3>2
  <2>3. CASE ~ (connected /\ socket # NoSocket)
    <3>1. /\ UNCHANGED inbox
          /\ buffer' = IF Len(kept) > MaxBuffered THEN Tail(kept) ELSE kept
      BY <1>7, <2>3 DEF SendSnapshot
    <3>2. /\ kept \in Seq(1..MaxSnapshots) /\ Len(kept) = Len(buffer) + 1
          /\ DOMAIN kept = 1..Len(buffer) + 1
          /\ \A i \in DOMAIN buffer : kept[i] = buffer[i]
          /\ kept[Len(buffer) + 1] = n
          /\ ToSet(kept) = ToSet(buffer) \cup {n}
      <4>1. buffer \in Seq(1..MaxSnapshots) /\ n \in 1..MaxSnapshots
        BY <1>00, <2>1
      <4> HIDE DEF n
      <4> QED
        BY <4>1, AppendFacts
    <3>3. \A i \in DOMAIN kept : kept[i] = n - Len(kept) + i
      BY <1>0, <1>00, <3>2 DEF AgeInv, SnapshotsInOrder
    <3>4. kept # <<>>
      BY <1>00, <3>2, EmptySeq
    <3>5. /\ Len(Tail(kept)) = Len(buffer)
          /\ DOMAIN Tail(kept) = 1..Len(buffer)
          /\ \A i \in DOMAIN Tail(kept) : i + 1 \in DOMAIN kept /\ Tail(kept)[i] = kept[i + 1]
          /\ ToSet(Tail(kept)) \subseteq ToSet(kept)
      <4>1. /\ Len(Tail(kept)) = Len(kept) - 1
            /\ DOMAIN Tail(kept) = 1..Len(kept) - 1
            /\ \A i \in DOMAIN Tail(kept) : i + 1 \in DOMAIN kept /\ Tail(kept)[i] = kept[i + 1]
            /\ ToSet(kept) = ToSet(Tail(kept)) \cup {Head(kept)}
        BY <3>2, <3>4, TailFacts
      <4>2. Len(kept) - 1 = Len(buffer)
        BY <1>00, <3>2
      <4> QED
        BY <4>1, <4>2
    <3>6. /\ DOMAIN buffer' \subseteq Nat \ {0}
          /\ \A i \in DOMAIN buffer' : buffer'[i] = n - Len(buffer') + i
          /\ ToSet(buffer') \subseteq ToSet(buffer) \cup {n}
          /\ buffer' \in Seq(1..MaxSnapshots)
      <4>1. CASE buffer' = kept
        BY <1>00, <3>2, <3>3, <4>1
      <4>2. CASE buffer' = Tail(kept)
        <5>1. buffer' \in Seq(1..MaxSnapshots)
          BY <3>2, <3>4, <4>2, TailFacts
        <5>2. \A i \in DOMAIN buffer' : buffer'[i] = n - Len(buffer') + i
          <6> SUFFICES ASSUME NEW i \in DOMAIN buffer' PROVE buffer'[i] = n - Len(buffer') + i
            OBVIOUS
          <6>1. i \in 1..Len(buffer) /\ i + 1 \in DOMAIN kept /\ buffer'[i] = kept[i + 1]
            BY <3>5, <4>2
          <6>2. kept[i + 1] = n - Len(kept) + (i + 1)
            BY <3>3, <6>1
          <6> QED
            <7>1. Len(kept) = Len(buffer) + 1 /\ Len(buffer') = Len(buffer)
              BY <3>2, <3>5, <4>2
            <7>2. n - (Len(buffer) + 1) + (i + 1) = n - Len(buffer) + i
              BY <1>00, <2>1, <6>1
            <7> QED
              BY <6>1, <6>2, <7>1, <7>2
        <5>3. DOMAIN buffer' \subseteq Nat \ {0}
          BY <1>00, <3>5, <4>2
        <5>4. ToSet(buffer') \subseteq ToSet(buffer) \cup {n}
          BY <3>2, <3>5, <4>2
        <5> QED
          BY <5>1, <5>2, <5>3, <5>4
      <4> QED
        BY <3>1, <4>1, <4>2
    <3>7. \A t \in Sockets : \A x \in Numbered(inbox[t]) : x \in Nat /\ x < n
      BY <1>03
    <3>8. \A x \in ToSet(recorded) : x \in Nat /\ x < n
      BY <1>03
    <3>9. \A t \in Sockets : Numbered(inbox'[t]) = Numbered(inbox[t])
      BY <3>1 DEF Numbered
    <3>10. \A t \in Sockets : Older(Numbered(inbox[t]), ToSet(buffer'))
      BY <1>0, <3>6, <3>7 DEF AgeInv, Older
    <3>11. SnapshotsInOrder'
      <4>1. \A m \in DOMAIN recorded, i \in DOMAIN buffer' : recorded[m] < buffer'[i]
        <5>1. \A i \in DOMAIN buffer' : buffer'[i] = n \/ buffer'[i] \in ToSet(buffer)
          BY <3>6, SeqFacts
        <5>2. \A x \in ToSet(recorded), y \in ToSet(buffer) : x < y
          BY <1>0, <1>00 DEF AgeInv, SnapshotsInOrder, ToSet
        <5> QED
          BY <1>00, <3>8, <5>1, <5>2
      <4> QED
        BY <1>0, <2>1, <3>6, <4>1 DEF AgeInv, SnapshotsInOrder
    <3>12. 1..made \subseteq 1..n
      BY <1>00
    <3>13. ~connected
      BY <1>0, <2>3 DEF LifelineInv, TypeOK
    <3> QED
      BY <1>0, <2>1, <3>1, <3>9, <3>10, <3>11, <3>12, <3>13 DEF AgeInv, Numbered
  <2> QED
    BY <2>2, <2>3
<1>8. CASE Crash
  <2>1. /\ ToSet(backlog') = {} /\ DOMAIN backlog' = {}
        /\ \A s \in Sockets : DOMAIN inbox'[s] = {} /\ Numbered(inbox'[s]) = {}
    BY <1>8, EmptyFacts DEF Crash, Numbered
  <2> QED
    BY <1>0, <1>8, <2>1 DEF Crash, AgeInv, SnapshotsInOrder, Older
<1>9. CASE Accept
  <2>1. UNCHANGED <<inbox, recorded, buffer, made, connected>>
    BY <1>9 DEF Accept
  <2>2. \A s \in Sockets : Numbered(inbox'[s]) = Numbered(inbox[s])
    BY <2>1 DEF Numbered
  <2>3. \A s \in ToSet(backlog') : Older(Numbered(inbox[serving']), Numbered(inbox[s]))
    <3> SUFFICES ASSUME NEW s \in ToSet(backlog') PROVE Older(Numbered(inbox[serving']), Numbered(inbox[s]))
      OBVIOUS
    <3>1. PICK i \in DOMAIN backlog' : backlog'[i] = s
      BY <1>9, Accepted, SeqFacts
    <3> QED
      BY <1>0, <1>9, <3>1, Accepted DEF AgeInv
  <2>4. \A m, n \in DOMAIN backlog' : m < n => Older(Numbered(inbox[backlog'[m]]), Numbered(inbox[backlog'[n]]))
    BY <1>0, <1>9, Accepted DEF AgeInv
  <2>5. SnapshotsInOrder'
    BY <1>0, <2>1 DEF AgeInv, SnapshotsInOrder
  <2> QED
    BY <1>0, <1>9, <2>1, <2>2, <2>3, <2>4, <2>5, Accepted DEF AgeInv, Numbered
<1>10. CASE ReadLine
  <2> DEFINE old == inbox[serving]
             line == Head(old)
  <2>1. /\ serving \in Sockets /\ old \in Seq(Line) /\ old # <<>>
        /\ inbox' = [inbox EXCEPT ![serving] = Tail(old)]
        /\ UNCHANGED <<backlog, serving, buffer, made, connected>>
    BY <1>0, <1>10 DEF ReadLine, TypeOK
  <2>2. /\ line = old[1] /\ 1 \in DOMAIN old /\ line \in Line
        /\ Tail(old) \in Seq(Line)
        /\ DOMAIN Tail(old) = 1..Len(old) - 1
        /\ \A i \in DOMAIN Tail(old) :
             i + 1 \in DOMAIN old /\ Tail(old)[i] = old[i + 1] /\ i \in Nat \ {0}
        /\ ToSet(old) = ToSet(Tail(old)) \cup {line}
    <3>1. DOMAIN Tail(old) \subseteq Nat \ {0}
      BY <2>1, TailFacts
    <3> QED
      BY <2>1, <3>1, TailFacts
  <2>3. inbox'[serving] = Tail(old) /\ \A s \in Sockets : s # serving => inbox'[s] = inbox[s]
    BY <1>0, <2>1 DEF TypeOK
  <2>4. \A s \in Sockets : Numbered(inbox'[s]) \subseteq Numbered(inbox[s])
    BY <2>1, <2>2, <2>3 DEF Numbered
  <2>5. Ascends(Tail(old))
    <3>1. Ascends(old)
      BY <1>04, <2>1
    <3> SUFFICES ASSUME NEW m \in DOMAIN Tail(old), NEW n \in DOMAIN Tail(old), m < n,
                        {Tail(old)[m], Tail(old)[n]} \subseteq 1..MaxSnapshots
                 PROVE  Tail(old)[m] < Tail(old)[n]
      OBVIOUS
    <3>2. m + 1 < n + 1
      BY <2>2
    <3> QED
      BY <2>2, <3>1, <3>2
  <2>6. \A s \in Sockets : Ascends(inbox'[s])
    <3> HIDE DEF Ascends
    <3> QED
      BY <1>04, <2>3, <2>5
  <2>7. ASSUME line \in 1..MaxSnapshots
        PROVE  /\ line \in Numbered(inbox[serving])
               /\ \A s \in Sockets : \A n \in Numbered(inbox'[s]) : line < n
    <3>1. line \in Numbered(inbox[serving])
      BY <2>2, <2>7 DEF Numbered
    <3>2. \A n \in Numbered(inbox'[serving]) : line < n
      <4> SUFFICES ASSUME NEW n \in Numbered(inbox'[serving]) PROVE line < n
        OBVIOUS
      <4>1. n \in ToSet(Tail(old)) /\ n \in 1..MaxSnapshots
        BY <2>3 DEF Numbered
      <4>2. PICK i \in DOMAIN Tail(old) : Tail(old)[i] = n
        <5>1. Tail(old) \in Seq(Line)
          BY <2>2
        <5> QED
          BY <4>1, <5>1, SeqFacts
      <4>3. 1 < i + 1 /\ i + 1 \in DOMAIN old /\ old[i + 1] = n
        BY <2>2, <4>2
      <4> QED
        BY <1>0, <2>1, <2>2, <2>7, <4>1, <4>3 DEF AgeInv
    <3>3. ASSUME NEW s \in Sockets, s # serving, NEW n \in Numbered(inbox'[s]) PROVE line < n
      <4>1. n \in Numbered(inbox[s]) /\ inbox[s] # <<>>
        BY <2>4, <3>3, EmptyFacts DEF Numbered
      <4>2. s \in ToSet(backlog)
        BY <1>0, <3>3, <4>1 DEF EstablishedInv, Established
      <4> QED
        BY <1>0, <2>1, <3>1, <4>1, <4>2 DEF AgeInv, Older
    <3> QED
      BY <3>1, <3>2, <3>3
  <2>8. \/ UNCHANGED recorded
        \/ line \in 1..MaxSnapshots /\ recorded' = Append(recorded, line)
    BY <1>10, <2>2 DEF ReadLine, Line
  <2>9. /\ SnapshotsInOrder'
        /\ \A s \in Sockets : Older(ToSet(recorded'), Numbered(inbox'[s]))
        /\ ToSet(recorded') \subseteq 1..made
    <3>1. CASE UNCHANGED recorded
      BY <1>0, <2>1, <2>4, <3>1 DEF AgeInv, SnapshotsInOrder, Older
    <3>2. CASE line \in 1..MaxSnapshots /\ recorded' = Append(recorded, line)
      <4>1. /\ DOMAIN recorded' = 1..Len(recorded) + 1 /\ DOMAIN recorded = 1..Len(recorded)
            /\ Len(recorded) \in Nat
            /\ \A i \in DOMAIN recorded : recorded'[i] = recorded[i]
            /\ recorded'[Len(recorded) + 1] = line
            /\ ToSet(recorded') = ToSet(recorded) \cup {line}
        <5>1. Append(recorded, line) = recorded'
          BY <3>2
        <5>2. DOMAIN recorded = 1..Len(recorded) /\ Len(recorded) \in Nat
          BY <1>00, SeqFacts
        <5> QED
          BY <1>00, <3>2, <5>1, <5>2, AppendFacts
      <4>2. line \in Numbered(inbox[serving]) /\ \A x \in ToSet(recorded) : x < line
        BY <1>0, <2>1, <2>7, <3>2 DEF AgeInv, Older
      <4>3. \A m, n \in DOMAIN recorded' : m < n => recorded'[m] < recorded'[n]
        <5> SUFFICES ASSUME NEW m \in DOMAIN recorded', NEW n \in DOMAIN recorded', m < n
                     PROVE  recorded'[m] < recorded'[n]
          OBVIOUS
        <5>1. m \in DOMAIN recorded /\ (n \in DOMAIN recorded \/ n = Len(recorded) + 1)
          BY <4>1
        <5>2. recorded[m] < line
          BY <1>00, <4>2, <5>1
        <5> QED
          BY <1>02, <4>1, <5>1, <5>2
      <4>4. \A i \in DOMAIN buffer : line < buffer[i]
        BY <1>0, <1>00, <2>1, <4>2 DEF AgeInv, Older
      <4>5. \A m \in DOMAIN recorded', i \in DOMAIN buffer : recorded'[m] < buffer[i]
        BY <1>0, <4>1, <4>4 DEF AgeInv, SnapshotsInOrder
      <4>6. SnapshotsInOrder'
        BY <1>0, <2>1, <4>3, <4>5 DEF AgeInv, SnapshotsInOrder
      <4>7. \A s \in Sockets : Older(ToSet(recorded'), Numbered(inbox'[s]))
        BY <1>0, <2>4, <2>7, <3>2, <4>1 DEF AgeInv, Older
      <4>8. line \in 1..made
        BY <1>0, <2>1, <4>2 DEF AgeInv
      <4> QED
        BY <1>0, <4>1, <4>6, <4>7, <4>8 DEF AgeInv
    <3> QED
      BY <2>8, <3>1, <3>2
  <2>10. \A s \in Sockets : Older(Numbered(inbox'[s]), ToSet(buffer)) /\ Numbered(inbox'[s]) \subseteq 1..made
    BY <1>0, <2>4 DEF AgeInv, Older
  <2>11. \A s \in ToSet(backlog) : Older(Numbered(inbox'[serving]), Numbered(inbox'[s]))
    BY <1>0, <1>000, <2>1, <2>4 DEF AgeInv, Older, TypeOK
  <2>12. \A m, n \in DOMAIN backlog : m < n => Older(Numbered(inbox'[backlog[m]]), Numbered(inbox'[backlog[n]]))
    <3>1. \A m \in DOMAIN backlog : backlog[m] \in Sockets
      BY <1>0, SeqFacts DEF TypeOK
    <3> QED
      BY <1>0, <2>4, <3>1 DEF AgeInv, Older
  <2> QED
    BY <1>0, <2>1, <2>6, <2>9, <2>10, <2>11, <2>12 DEF AgeInv, Numbered
<1>11. CASE Disconnect
  <2>1. /\ serving \in Sockets /\ serving' = NoSocket
        /\ inbox' = [inbox EXCEPT ![serving] = <<>>]
        /\ UNCHANGED <<backlog, recorded, buffer, made, connected>>
    BY <1>0, <1>11 DEF Disconnect, TypeOK
  <2>2. inbox'[serving] = <<>> /\ \A s \in Sockets : s # serving => inbox'[s] = inbox[s]
    BY <1>0, <2>1 DEF TypeOK
  <2>3. /\ \A s \in Sockets : Numbered(inbox'[s]) \subseteq Numbered(inbox[s])
        /\ DOMAIN inbox'[serving] = {}
    BY <2>2, EmptyFacts DEF Numbered
  <2>4. \A s \in Sockets : Ascends(inbox'[s])
    BY <1>0, <2>2, <2>3 DEF AgeInv
  <2>5. \A s \in Sockets : /\ Older(ToSet(recorded), Numbered(inbox'[s]))
                           /\ Older(Numbered(inbox'[s]), ToSet(buffer)) /\ Numbered(inbox'[s]) \subseteq 1..made
    BY <1>0, <2>3 DEF AgeInv, Older
  <2>6. \A m, n \in DOMAIN backlog : m < n => Older(Numbered(inbox'[backlog[m]]), Numbered(inbox'[backlog[n]]))
    <3>1. \A m \in DOMAIN backlog : backlog[m] \in Sockets
      BY <1>0, SeqFacts DEF TypeOK
    <3> QED
      BY <1>0, <2>3, <3>1 DEF AgeInv, Older
  <2>7. SnapshotsInOrder'
    BY <1>0, <2>1 DEF AgeInv, SnapshotsInOrder
  <2> QED
    BY <1>0, <2>1, <2>4, <2>5, <2>6, <2>7 DEF AgeInv, Numbered
<1> QED
  BY <1>2, <1>3, <1>4, <1>6, <1>7, <1>8, <1>9, <1>10, <1>11 DEF Next

-----------------------------------------------------------------------------
\* The invariant is inductive.
THEOREM Invariant == Spec => []IInv
<1>1. IInv /\ [Next]_vars => IInv'
  BY TypeStep, LifelineStep, EstablishedStep, HelloStep, AgeStep DEF IInv
<1> QED
  BY <1>1, InitIInv, PTL DEF Spec

\* Every variable keeps its type, the buffer and the backoff their bounds.
THEOREM TypeCorrect == Spec => []TypeOK
<1>1. IInv => TypeOK
  BY DEF IInv
<1> QED
  BY <1>1, Invariant, PTL

\* The bridge always has one timer or one socket, so no failure, close or
\* throw leaves it with two connections or with none on the way.
THEOREM Lifeline == Spec => []OneLifeline
<1>1. IInv => OneLifeline
  <2> SUFFICES ASSUME LifelineInv PROVE OneLifeline
    BY DEF IInv
  <2> DEFINE busy == {s \in Sockets : sock[s] # "free"}
  <2>1. CASE timers = 1 /\ \A s \in Sockets : sock[s] = "free"
    <3>1. busy = {}
      BY <2>1
    <3> QED
      BY <2>1, <3>1, FS_EmptySet DEF OneLifeline
  <2>2. CASE timers = 0 /\ socket \in Sockets /\ \A s \in Sockets : sock[s] = "free" <=> s # socket
    <3>1. busy = {socket}
      BY <2>2
    <3> QED
      BY <2>2, <3>1, FS_Singleton DEF OneLifeline
  <2> QED
    BY <2>1, <2>2 DEF LifelineInv
<1> QED
  BY <1>1, Invariant, PTL

\* The first line the orchestrator reads on any connection is hello, however
\* connections are refused, reset, closed or abandoned in the backlog.
THEOREM HelloFirst == Spec => []HelloComesFirst
<1>1. IInv => HelloComesFirst
  BY DEF IInv
<1> QED
  BY <1>1, Invariant, PTL

\* Snapshots are recorded in the order in which they were taken, none twice,
\* and the buffer holds the newest without a gap, across every reconnect.
THEOREM InOrder == Spec => []SnapshotsInOrder
<1>1. IInv => SnapshotsInOrder
  BY DEF IInv, AgeInv
<1> QED
  BY <1>1, Invariant, PTL

\* A lost connection stays lost until a line, a new connection or a new
\* process says otherwise; elapsed time alone never does.
THEOREM LostStays == Spec => LostIsNotResurrected
<1>1. [Next]_vars => (health = "lost" /\ health' # "lost" => Accept \/ ReadLine \/ Start)
  BY DEF Next, vars, bridge, client, server, Connect, OnConnect, OnError, OnClose,
         ScheduleReconnect, Reset, ConnectThrows, SendHeartbeat, SendSnapshot, Crash, Disconnect,
         TimePasses, TickCheck
<1> QED
  BY <1>1, PTL DEF Spec, LostIsNotResurrected
-----------------------------------------------------------------------------
(***************************************************************************)
(* What is safe of Reconnects.                                             *)
(***************************************************************************)
\* Both ends hold the same open connection.
Joined ==
  up /\ connected /\ socket # NoSocket /\ sock[socket] = "open" /\ serving = socket

\* Once both ends hold the same connection, nothing the two programs do ends
\* it: no late timer, no callback of an earlier socket, no accept and no age of
\* the last heartbeat; only a crash or the network does.
THEOREM JoinedStays ==
  Spec => [][Joined => Joined' \/ Crash \/ \E s \in Sockets : Reset(s)]_vars
<1> USE SocketsAssumption
<1> DEFINE Stays == Joined => Joined' \/ Crash \/ \E s \in Sockets : Reset(s)
<1>1. IInv /\ [Next]_vars => [Stays]_vars
  <2> SUFFICES ASSUME IInv, Next, Joined PROVE Joined' \/ Crash \/ \E s \in Sockets : Reset(s)
    OBVIOUS
  <2>1. /\ timers = 0 /\ socket \in Sockets
        /\ \A s \in Sockets : s # socket => sock[s] = "free"
        /\ serving \notin eof
    <3>1. LifelineInv /\ EstablishedInv
      BY DEF IInv
    <3>2. timers = 0 /\ socket \in Sockets /\ \A s \in Sockets : s # socket => sock[s] = "free"
      BY <3>1 DEF LifelineInv, Joined
    <3>3. serving \notin eof
      BY <3>1, <3>2 DEF EstablishedInv, Joined
    <3> QED
      BY <3>2, <3>3
  <2>2. up /\ connected /\ socket # NoSocket /\ sock[socket] = "open" /\ serving = socket
    BY DEF Joined
  <2>3. ~ConnectThrows /\ ~Start /\ ~Accept /\ ~Disconnect
        /\ \A s \in Sockets : ~(Connect(s) \/ OnConnect(s) \/ OnError(s) \/ OnClose(s))
    <3>0. ~ConnectThrows
      BY <2>1 DEF ConnectThrows
    <3>1. ~Start /\ ~Accept /\ ~Disconnect
      BY <2>1, <2>2, Zenon DEF Start, Accept, Disconnect
    <3>2. \A s \in Sockets : sock[s] \in {"free", "open"}
      BY <2>1, <2>2
    <3>3. \A s \in Sockets : ~(Connect(s) \/ OnConnect(s) \/ OnError(s) \/ OnClose(s))
      BY <2>1, <3>2 DEF Connect, OnConnect, OnError, OnClose
    <3> QED
      BY <3>0, <3>1, <3>3
  <2>4. SendHeartbeat \/ SendSnapshot \/ ReadLine \/ TimePasses \/ TickCheck
        => UNCHANGED <<up, connected, socket, sock, serving>>
    BY DEF SendHeartbeat, SendSnapshot, ReadLine, TimePasses, TickCheck, client, server, bridge
  <2> QED
    BY <2>2, <2>3, <2>4 DEF Next, Joined
<1> QED
  BY Invariant, <1>1, PTL DEF Spec
=============================================================================
