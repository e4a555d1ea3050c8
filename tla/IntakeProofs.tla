---------------------------- MODULE IntakeProofs ----------------------------
(***************************************************************************)
(* IInv is inductive, and the safety properties of Intake follow from it,  *)
(* for every set of simulations, reports and rides, every window and every *)
(* bound.                                                                  *)
(***************************************************************************)
EXTENDS Intake, SequenceFacts

USE IntakeAssumption, HistoryAssumption, RuleAssumption

\* No job is the mark that there is none.
LEMMA JobFacts ==
  ASSUME TypeOK
  PROVE  /\ Held \subseteq Job
         /\ ToSet(table) \subseteq Job /\ ToSet(queue) \subseteq Job
         /\ \A j \in Job : j.id \in 1..MaxSnapshots /\ j.sim \in Sims
<1>1. Held \subseteq Job
  BY DEF TypeOK, Held
<1>2. table \in Seq(Job) /\ queue \in Seq(Job)
  BY DEF TypeOK
<1>3. ToSet(table) \subseteq Job /\ ToSet(queue) \subseteq Job
  BY <1>2, SeqFacts
<1> QED
  BY <1>1, <1>3 DEF Job

\* What the channel makes of a job: it is put last, or nothing changes.
LEMMA Submitted ==
  ASSUME TypeOK, NEW j \in Job, Submit(j)
  PROVE  /\ queue' \in Seq(Job) /\ Len(queue') <= BufferCapacity /\ accepted' \subseteq Job
         /\ \/ queue' = queue /\ accepted' = accepted
            \/ queue' = Append(queue, j) /\ accepted' = accepted \cup {j}
<1>1. queue \in Seq(Job) /\ Len(queue) \in Nat /\ Len(queue) <= BufferCapacity
      /\ accepted \subseteq Job
  BY LenProperties DEF TypeOK
<1>2. CASE Len(queue) < BufferCapacity
  <2>1. queue' = Append(queue, j) /\ accepted' = accepted \cup {j}
    BY <1>2 DEF Submit
  <2>2. Append(queue, j) \in Seq(Job) /\ Len(Append(queue, j)) = Len(queue) + 1
    BY <1>1, AppendFacts
  <2> QED
    BY <1>1, <1>2, <2>1, <2>2
<1>3. CASE ~ (Len(queue) < BufferCapacity)
  BY <1>1, <1>3 DEF Submit
<1> QED
  BY <1>2, <1>3

\* What the table makes of a row: it is put last, or it is there already.
LEMMA Inserted ==
  ASSUME TypeOK, NEW j \in Job, Insert(j)
  PROVE  /\ table' \in Seq(Job)
         /\ ToSet(table') = ToSet(table) \cup {j}
         /\ \/ table' = table
            \/ j \notin ToSet(table) /\ table' = Append(table, j)
<1>1. table \in Seq(Job) /\ DOMAIN table = 1..Len(table)
  BY SeqFacts DEF TypeOK
<1>2. Contains(table, j) <=> j \in ToSet(table)
  BY <1>1, SeqFacts DEF Contains
<1>3. CASE Contains(table, j)
  BY <1>1, <1>2, <1>3 DEF Insert
<1>4. CASE ~ Contains(table, j)
  <2>1. table' = Append(table, j)
    BY <1>4 DEF Insert
  <2>2. Append(table, j) \in Seq(Job) /\ ToSet(Append(table, j)) = ToSet(table) \cup {j}
    BY <1>1, AppendFacts
  <2> QED
    BY <1>2, <1>4, <2>1, <2>2
<1> QED
  BY <1>3, <1>4

\* How far a window of n snapshots reaches after one more.
Reach(n) == IF n < MaxHistory THEN n + 1 ELSE MaxHistory

\* The window after one more snapshot: the last of the longer one.
LEMMA Recorded ==
  ASSUME NEW S, NEW h \in Seq(S), NEW x \in S, NEW m \in Nat, Len(h) = m, m <= MaxHistory
  PROVE  /\ RecordSnapshot(h, x) \in Seq(S)
         /\ Len(RecordSnapshot(h, x)) = Reach(m) /\ DOMAIN RecordSnapshot(h, x) = 1..Reach(m)
         /\ \A i \in 1..Reach(m) :
              LET k == m + 1 - Reach(m) + i IN
              /\ k \in 1..m + 1
              /\ RecordSnapshot(h, x)[i] = IF k = m + 1 THEN x ELSE h[k]
<1> DEFINE longer == Append(h, x)
           w == RecordSnapshot(h, x)
           n == Reach(m)
<1>1. /\ longer \in Seq(S) /\ Len(longer) = m + 1 /\ longer # <<>>
      /\ DOMAIN h = 1..m /\ DOMAIN longer = 1..m + 1
      /\ \A i \in 1..m : longer[i] = h[i]
      /\ longer[m + 1] = x
  <2>1. /\ longer \in Seq(S) /\ Len(longer) = Len(h) + 1
        /\ DOMAIN h = 1..Len(h) /\ DOMAIN longer = 1..Len(h) + 1
        /\ \A i \in DOMAIN h : longer[i] = h[i]
        /\ longer[Len(h) + 1] = x
    BY AppendFacts, LenProperties
  <2>2. Len(longer) = m + 1 /\ m + 1 # 0
    BY <2>1
  <2>3. longer # <<>>
    BY <2>2, EmptyFacts
  <2> QED
    BY <2>1, <2>2, <2>3
<1>2. w = IF Len(longer) > MaxHistory THEN Tail(longer) ELSE longer
  BY DEF RecordSnapshot
<1>3. n \in Nat /\ n <= m + 1 /\ n = IF m < MaxHistory THEN m + 1 ELSE MaxHistory
  BY DEF Reach
<1> HIDE DEF longer, w, n
<1>4. /\ w \in Seq(S) /\ Len(w) = n /\ DOMAIN w = 1..n
      /\ \A i \in 1..n : w[i] = longer[m + 1 - n + i]
  <2>1. CASE m < MaxHistory
    <3>1. w = longer /\ n = m + 1
      BY <1>1, <1>2, <1>3, <2>1
    <3>2. \A i \in 1..n : m + 1 - n + i = i
      BY <3>1
    <3> QED
      BY <1>1, <3>1, <3>2
  <2>2. CASE ~ (m < MaxHistory)
    <3>1. n = m /\ w = Tail(longer)
      BY <1>1, <1>2, <1>3, <2>2
    <3>2. /\ w \in Seq(S) /\ Len(w) = Len(longer) - 1 /\ DOMAIN w = 1..Len(longer) - 1
          /\ \A i \in DOMAIN w : w[i] = longer[i + 1]
      BY <1>1, <3>1, TailFacts
    <3>3. Len(longer) - 1 = n
      BY <1>1, <3>1
    <3>4. \A i \in 1..n : m + 1 - n + i = i + 1
      BY <3>1
    <3> QED
      BY <3>2, <3>3, <3>4
  <2> QED
    BY <2>1, <2>2
<1>5. ASSUME NEW i \in 1..n
      PROVE  LET k == m + 1 - n + i IN
             k \in 1..m + 1 /\ w[i] = IF k = m + 1 THEN x ELSE h[k]
  <2> DEFINE k == m + 1 - n + i
  <2>1. k \in 1..m + 1
    BY <1>3
  <2>2. w[i] = longer[k]
    BY <1>4
  <2> HIDE DEF k
  <2>3. w[i] = IF k = m + 1 THEN x ELSE h[k]
    BY <1>1, <2>1, <2>2
  <2> QED
    BY <2>1, <2>3 DEF k
<1> QED
  BY <1>4, <1>5 DEF n, w

\* What the rule proposes has the type of a proposal.
LEMMA Proposed ==
  ASSUME NEW h \in Seq(Snapshot), NEW p \in ProposePriceChanges(h)
  PROVE  p \in Proposal
<1> DEFINE latest == h[Len(h)]
<1>1. Len(h) \in Nat /\ DOMAIN h = 1..Len(h)
  BY LenProperties
<1>2. PICK id \in RideIds, step \in Int :
        /\ ConsecutiveSnapshotsRequired # 0 /\ ~ (Len(h) < ConsecutiveSnapshotsRequired)
        /\ latest[id] # None
        /\ p = [ride_id |-> id, proposed_price |-> latest[id].price + step]
  BY <1>1 DEF ProposePriceChanges, Throughout
<1>3. latest \in Snapshot
  BY <1>1, <1>2
<1>4. latest[id] \in Report
  BY <1>2, <1>3 DEF Snapshot
<1>5. latest[id].price + step \in Int
  BY <1>4 DEF Report
<1> QED
  BY <1>2, <1>5 DEF Proposal

-----------------------------------------------------------------------------
(***************************************************************************)
(* Types, and what of a snapshot can be read.                              *)
(***************************************************************************)
\* The snapshot being read comes from a simulation and has a number.
LEMMA Reading ==
  ASSUME TypeOK, ConnInv, WireInv, main = "line", wire # <<>>
  PROVE  [sim |-> conn, id |-> made] \in Job /\ Head(wire) \in Snapshot
<1>1. conn \in Sims /\ made \in 1..MaxSnapshots
  BY DEF TypeOK, ConnInv, WireInv
<1>2. Head(wire) \in Snapshot
  BY TailFacts DEF TypeOK
<1> QED
  BY <1>1, <1>2 DEF Job

\* The types are kept by every step.
LEMMA TypeStep == IInv /\ [Next]_vars => TypeOK'
<1> SUFFICES ASSUME IInv, [Next]_vars PROVE TypeOK'
  OBVIOUS
<1> USE DEF loop, worker, database, rule
<1>0. TypeOK /\ ConnInv /\ WireInv
  BY DEF IInv
<1>1. /\ <<>> \in Seq(Snapshot) /\ <<>> \in Seq(Job) /\ Len(<<>>) = 0
  BY EmptyFacts
<1>2. CASE Start
  BY <1>0, <1>2 DEF Start, TypeOK
<1>3. CASE Crash
  BY <1>0, <1>1, <1>3 DEF Crash, TypeOK
<1>4. ASSUME NEW s \in Sims, Connect(s) PROVE TypeOK'
  BY <1>0, <1>4 DEF Connect, TypeOK
<1>5. ASSUME NEW ok \in BOOLEAN, Hello(ok) PROVE TypeOK'
  <2>1. conn \in Sims /\ registered' \subseteq registered \cup {conn}
    BY <1>0, <1>5 DEF Hello, ConnInv
  <2>2. registered' \subseteq Sims
    BY <1>0, <2>1 DEF TypeOK
  <2> QED
    BY <1>0, <1>5, <2>2 DEF Hello, TypeOK
<1>6. CASE Disconnect
  BY <1>0, <1>1, <1>6 DEF Disconnect, TypeOK
<1>7. ASSUME NEW snapshot \in Snapshot, Arrive(snapshot) PROVE TypeOK'
  <2>1. wire' \in Seq(Snapshot) /\ Len(wire') <= 1 /\ made' \in 0..MaxSnapshots
    BY <1>0, <1>7, SingletonFacts DEF Arrive, TypeOK
  <2> QED
    BY <1>0, <1>7, <2>1 DEF Arrive, TypeOK
<1>8. CASE ReadSnapshot
  <2> DEFINE j == [sim |-> conn, id |-> made]
             m == Len(history)
  <2>1. j \in Job /\ Head(wire) \in Snapshot
    BY <1>0, <1>8, Reading DEF ReadSnapshot
  <2>2. Submit(j) /\ Observe(Head(wire))
    BY <1>8 DEF ReadSnapshot
  <2>3. queue' \in Seq(Job) /\ Len(queue') <= BufferCapacity /\ accepted' \subseteq Job
    BY <1>0, <2>1, <2>2, Submitted
  <2>4. history \in Seq(Snapshot) /\ m \in Nat /\ m <= MaxHistory
    BY <1>0, LenProperties DEF TypeOK
  <2>5. history' \in Seq(Snapshot)
        /\ Len(history') = Reach(m)
    BY <2>1, <2>2, <2>4, Recorded DEF Observe
  <2>6. Len(history') <= MaxHistory
    BY <2>4, <2>5 DEF Reach
  <2>7. received' \in Seq(Snapshot)
    BY <1>0, <2>1, <2>2, AppendFacts DEF Observe, TypeOK
  <2>8. \A p \in proposed' : p \in Proposal
    BY <2>2, <2>5, Proposed DEF Observe
  <2> QED
    BY <1>0, <1>1, <1>8, <2>3, <2>5, <2>6, <2>7, <2>8 DEF ReadSnapshot, TypeOK
<1>9. CASE Receive
  <2>1. Head(queue) \in Job /\ Tail(queue) \in Seq(Job) /\ Len(Tail(queue)) = Len(queue) - 1
    BY <1>0, <1>9, TailFacts DEF Receive, TypeOK
  <2>2. Len(queue) \in Nat
    BY <1>0, LenProperties DEF TypeOK
  <2> QED
    BY <1>0, <1>9, <2>1, <2>2 DEF Receive, TypeOK
<1>10. CASE Apply
  <2>1. table' \in Seq(Job)
    BY <1>0, <1>10, Inserted DEF Apply, TypeOK
  <2> QED
    BY <1>0, <1>10, <2>1 DEF Apply, TypeOK
<1>11. ASSUME NEW committed \in BOOLEAN, ApplyFails(committed) PROVE TypeOK'
  <2>1. table' \in Seq(Job)
    BY <1>0, <1>11, Inserted DEF ApplyFails, TypeOK
  <2> QED
    BY <1>0, <1>11, <2>1 DEF ApplyFails, TypeOK
<1>12. CASE UNCHANGED vars
  BY <1>0, <1>12 DEF vars, TypeOK
<1> QED
  BY <1>2, <1>3, <1>4, <1>5, <1>6, <1>7, <1>8, <1>9, <1>10, <1>11, <1>12 DEF Next

\* Only Connect and a crash change who is at the other end.
LEMMA ConnStep == IInv /\ [Next]_vars => ConnInv'
<1> SUFFICES ASSUME IInv, [Next]_vars PROVE ConnInv'
  OBVIOUS
<1> USE DEF loop, worker, database, rule
<1>0. TypeOK /\ ConnInv
  BY DEF IInv
<1>1. CASE Start \/ Crash \/ Disconnect \/ (\E s \in Sims : Connect(s))
  BY <1>1 DEF Start, Crash, Disconnect, Connect, ConnInv
<1>2. CASE \/ \E ok \in BOOLEAN : Hello(ok)
           \/ \E snapshot \in Snapshot : Arrive(snapshot)
  BY <1>0, <1>2 DEF Hello, Arrive, ConnInv
<1>3. CASE UNCHANGED <<main, conn>>
  BY <1>0, <1>3 DEF ConnInv
<1>4. ASSUME ReadSnapshot \/ Receive \/ Apply \/ \E committed \in BOOLEAN : ApplyFails(committed)
      PROVE  UNCHANGED <<main, conn>>
  BY <1>4 DEF ReadSnapshot, Receive, Apply, ApplyFails
<1> QED
  BY <1>1, <1>2, <1>3, <1>4 DEF Next, vars

\* A snapshot waits only on an open connection.
LEMMA WireStep == IInv /\ [Next]_vars => WireInv'
<1> SUFFICES ASSUME IInv, [Next]_vars PROVE WireInv'
  OBVIOUS
<1> USE DEF loop, worker, database, rule
<1>0. TypeOK /\ WireInv
  BY DEF IInv
<1>1. CASE Crash \/ Disconnect \/ ReadSnapshot
  BY <1>1 DEF Crash, Disconnect, ReadSnapshot, WireInv
<1>2. CASE Start \/ (\E s \in Sims : Connect(s)) \/ (\E ok \in BOOLEAN : Hello(ok))
  BY <1>0, <1>2 DEF Start, Connect, Hello, WireInv
<1>3. CASE \E snapshot \in Snapshot : Arrive(snapshot)
  <2>1. main' = "line" /\ made' = made + 1 /\ made \in Nat
    BY <1>0, <1>3 DEF Arrive, TypeOK
  <2> QED
    BY <2>1 DEF WireInv
<1>4. CASE UNCHANGED loop
  BY <1>0, <1>4 DEF WireInv
<1>5. ASSUME Receive \/ Apply \/ \E committed \in BOOLEAN : ApplyFails(committed)
      PROVE  UNCHANGED loop
  BY <1>5 DEF Receive, Apply, ApplyFails
<1> QED
  BY <1>1, <1>2, <1>3, <1>4, <1>5 DEF Next, vars

-----------------------------------------------------------------------------
(***************************************************************************)
(* The order of the numbers.                                               *)
(***************************************************************************)
\* A later job may be put last.
LEMMA AscendingAppend ==
  ASSUME NEW s \in Seq(Job), NEW j \in Job, Ascending(s), Earlier(ToSet(s), {j})
  PROVE  Ascending(Append(s, j))
<1> DEFINE t == Append(s, j)
<1>1. /\ Len(s) \in Nat /\ DOMAIN s = 1..Len(s) /\ DOMAIN t = 1..Len(s) + 1
      /\ \A i \in DOMAIN s : t[i] = s[i] /\ s[i] \in ToSet(s)
      /\ t[Len(s) + 1] = j
  BY AppendFacts, SeqFacts
<1> HIDE DEF t
<1>2. ASSUME NEW a \in DOMAIN t, NEW b \in DOMAIN t, a < b PROVE t[a].id < t[b].id
  <2>1. a \in DOMAIN s
    BY <1>1, <1>2
  <2>2. CASE b \in DOMAIN s
    BY <1>1, <1>2, <2>1, <2>2 DEF Ascending
  <2>3. CASE b = Len(s) + 1
    BY <1>1, <2>1, <2>3 DEF Earlier
  <2> QED
    BY <1>1, <2>2, <2>3
<1> QED
  BY <1>2 DEF t, Ascending

\* The head is the earliest, and the others keep their order.
LEMMA AscendingTail ==
  ASSUME NEW s \in Seq(Job), s # <<>>, Ascending(s)
  PROVE  Ascending(Tail(s)) /\ Earlier({Head(s)}, ToSet(Tail(s)))
<1> DEFINE t == Tail(s)
<1>1. /\ t \in Seq(Job) /\ Len(s) \in Nat /\ DOMAIN s = 1..Len(s) /\ DOMAIN t = 1..Len(s) - 1
      /\ \A i \in DOMAIN t : i + 1 \in DOMAIN s /\ t[i] = s[i + 1]
      /\ Head(s) = s[1] /\ 1 \in DOMAIN s
  BY TailFacts, LenProperties
<1> HIDE DEF t
<1>2. \A x \in ToSet(t) : \E i \in DOMAIN t : t[i] = x
  <2>1. t \in Seq(Job)
    BY <1>1
  <2> QED
    BY <2>1, SeqFacts
<1>3. \A i \in DOMAIN t : i \in Nat /\ 1 < i + 1
  <2>1. \A l \in Nat : \A i \in 1..l - 1 : i \in Nat /\ 1 < i + 1
    OBVIOUS
  <2>2. Len(s) \in Nat /\ DOMAIN t = 1..Len(s) - 1
    BY <1>1
  <2> QED
    BY <2>1, <2>2
<1>4. ASSUME NEW a \in DOMAIN t, NEW b \in DOMAIN t, a < b PROVE t[a].id < t[b].id
  <2>1. a + 1 \in DOMAIN s /\ b + 1 \in DOMAIN s /\ a + 1 < b + 1
    BY <1>1, <1>3, <1>4
  <2> QED
    BY <1>1, <2>1 DEF Ascending
<1>5. ASSUME NEW x \in ToSet(t) PROVE s[1].id < x.id
  <2>1. PICK i \in DOMAIN t : t[i] = x
    BY <1>2
  <2>2. i + 1 \in DOMAIN s /\ s[i + 1] = x /\ 1 < i + 1
    BY <1>1, <1>3, <2>1
  <2> QED
    BY <1>1, <2>2 DEF Ascending
<1> QED
  BY <1>1, <1>4, <1>5 DEF t, Ascending, Earlier

\* A row inserted by the worker is the last of the table and before the channel.
LEMMA InsertStep ==
  ASSUME TypeOK, OrderInv, job # NoJob, table' = table \/ Insert(job),
         job' = job \/ job' = NoJob, queue' = queue
  PROVE  OrderInv'
<1>1. Held = {job} /\ job \in Job /\ (Held' = {job} \/ Held' = {})
  BY DEF TypeOK, Held
<1>2. table \in Seq(Job) /\ ToSet(table) \subseteq Job
  BY JobFacts DEF TypeOK
<1>3. CASE table' = table
  BY <1>1, <1>3 DEF OrderInv, Earlier, Held
<1>4. CASE table' # table
  <2>1. /\ job \notin ToSet(table) /\ table' = Append(table, job)
        /\ ToSet(table') = ToSet(table) \cup {job}
    BY <1>1, <1>4, Inserted
  <2>2. \A a \in ToSet(table) : a.id < job.id
    BY <1>1, <2>1 DEF OrderInv
  <2>3. Ascending(table')
    BY <1>1, <1>2, <2>1, <2>2, AscendingAppend DEF OrderInv, Earlier
  <2>4. Earlier(ToSet(table'), ToSet(queue'))
    BY <1>1, <2>1 DEF OrderInv, Earlier
  <2>5. Earlier(Held', ToSet(queue')) /\ Ascending(queue')
    BY <1>1 DEF OrderInv, Earlier
  <2>6. \A a \in ToSet(table'), b \in Held' : a = b \/ a.id < b.id
    BY <1>1, <2>1, <2>2
  <2> QED
    BY <2>3, <2>4, <2>5, <2>6 DEF OrderInv
<1> QED
  BY <1>3, <1>4

\* Table, job and channel stay in one ascending order.
LEMMA OrderStep == IInv /\ [Next]_vars => OrderInv'
<1> SUFFICES ASSUME IInv, [Next]_vars PROVE OrderInv'
  OBVIOUS
<1> USE DEF loop, worker, database, rule
<1>0. TypeOK /\ ConnInv /\ WireInv /\ OrderInv /\ FreshInv
  BY DEF IInv
<1>1. ASSUME UNCHANGED <<table, job, queue>> PROVE OrderInv'
  BY <1>0, <1>1 DEF OrderInv, Held
<1>2. ASSUME Start \/ Disconnect \/ (\E s \in Sims : Connect(s)) \/ (\E ok \in BOOLEAN : Hello(ok))
               \/ \E snapshot \in Snapshot : Arrive(snapshot)
      PROVE  UNCHANGED <<table, job, queue>>
  BY <1>2 DEF Start, Disconnect, Connect, Hello, Arrive
<1>3. CASE Crash
  <2>1. queue' = <<>> /\ job' = NoJob /\ table' = table
    BY <1>3 DEF Crash
  <2>2. ToSet(queue') = {} /\ Held' = {} /\ DOMAIN queue' = {}
    BY <2>1, EmptyFacts DEF Held
  <2> QED
    BY <1>0, <2>1, <2>2 DEF OrderInv, Ascending, Earlier
<1>4. CASE ReadSnapshot
  <2> DEFINE j == [sim |-> conn, id |-> made]
  <2>1. j \in Job /\ j.id = made /\ Submit(j) /\ table' = table /\ job' = job
    BY <1>0, <1>4, Reading DEF ReadSnapshot
  <2>2. \A a \in ToSet(table) \cup Held \cup ToSet(queue) : a.id < made
    BY <1>0, <1>4 DEF ReadSnapshot, FreshInv, Waiting, Held
  <2> HIDE DEF j
  <2>3. CASE queue' = queue
    BY <1>1, <2>1, <2>3
  <2>4. CASE queue' = Append(queue, j)
    <3>1. queue \in Seq(Job)
      BY <1>0 DEF TypeOK
    <3>2. ToSet(queue') = ToSet(queue) \cup {j}
      BY <2>1, <2>4, <3>1, AppendFacts
    <3>3. Ascending(queue')
      BY <1>0, <2>1, <2>2, <2>4, <3>1, AscendingAppend DEF OrderInv, Earlier
    <3>4. Earlier(ToSet(table), ToSet(queue')) /\ Earlier(Held, ToSet(queue'))
      BY <1>0, <2>1, <2>2, <3>2 DEF OrderInv, Earlier
    <3> QED
      BY <1>0, <2>1, <3>3, <3>4 DEF OrderInv, Held
  <2> QED
    BY <1>0, <2>1, <2>3, <2>4, Submitted
<1>5. CASE Receive
  <2>1. /\ queue \in Seq(Job) /\ queue # <<>> /\ job' = Head(queue) /\ queue' = Tail(queue)
        /\ table' = table
    BY <1>0, <1>5 DEF Receive, TypeOK
  <2>2. /\ Ascending(queue') /\ Earlier({job'}, ToSet(queue'))
    BY <1>0, <2>1, AscendingTail DEF OrderInv
  <2>3. ToSet(queue) = ToSet(queue') \cup {job'}
    BY <2>1, TailFacts
  <2>4. Earlier(Held', ToSet(queue'))
    BY <2>2 DEF Held, Earlier
  <2>5. \A a \in ToSet(table'), b \in Held' : a.id < b.id
    BY <1>0, <2>1, <2>3 DEF OrderInv, Earlier, Held
  <2>6. Earlier(ToSet(table'), ToSet(queue')) /\ Ascending(table')
    BY <1>0, <2>1, <2>3 DEF OrderInv, Earlier
  <2> QED
    BY <2>2, <2>4, <2>5, <2>6 DEF OrderInv
<1>6. CASE Apply
  BY <1>0, <1>6, InsertStep DEF Apply
<1>7. ASSUME NEW committed \in BOOLEAN, ApplyFails(committed) PROVE OrderInv'
  <2>1. table' = table \/ Insert(job)
    BY <1>7 DEF ApplyFails
  <2> QED
    BY <1>0, <1>7, <2>1, InsertStep DEF ApplyFails
<1>8. CASE UNCHANGED vars
  BY <1>1, <1>8 DEF vars
<1> QED
  BY <1>1, <1>2, <1>3, <1>4, <1>5, <1>6, <1>7, <1>8 DEF Next

-----------------------------------------------------------------------------
(***************************************************************************)
(* Fresh numbers, and what is kept of what was accepted.                   *)
(***************************************************************************)
\* Everything table, job and channel hold: what a step makes of it.
LEMMA Stored ==
  ASSUME TypeOK, ConnInv, WireInv, Next, ~ Crash
  PROVE  LET all == ToSet(table) \cup Waiting
             j == [sim |-> conn, id |-> made]
         IN  \/ ToSet(table') \cup Waiting' = all /\ accepted' = accepted
             \/ /\ ReadSnapshot /\ j \in Job
                /\ ToSet(table') \cup Waiting' = all \cup {j} /\ accepted' = accepted \cup {j}
<1> DEFINE all == ToSet(table) \cup Waiting
           j == [sim |-> conn, id |-> made]
<1> USE DEF loop, worker, database, rule
<1>1. ASSUME UNCHANGED <<table, job, queue, accepted>>
      PROVE  ToSet(table') \cup Waiting' = all /\ accepted' = accepted
  BY <1>1 DEF Waiting
<1>2. ASSUME Start \/ Disconnect \/ (\E s \in Sims : Connect(s)) \/ (\E ok \in BOOLEAN : Hello(ok))
               \/ \E snapshot \in Snapshot : Arrive(snapshot)
      PROVE  UNCHANGED <<table, job, queue, accepted>>
  BY <1>2 DEF Start, Disconnect, Connect, Hello, Arrive
<1>3. ASSUME ReadSnapshot
      PROVE  \/ ToSet(table') \cup Waiting' = all /\ accepted' = accepted
             \/ /\ j \in Job
                /\ ToSet(table') \cup Waiting' = all \cup {j} /\ accepted' = accepted \cup {j}
  <2>1. j \in Job /\ Submit(j) /\ table' = table /\ job' = job
    BY <1>3, Reading DEF ReadSnapshot
  <2> HIDE DEF j
  <2>2. CASE queue' = queue /\ accepted' = accepted
    BY <1>1, <2>1, <2>2
  <2>3. CASE queue' = Append(queue, j) /\ accepted' = accepted \cup {j}
    <3>1. ToSet(queue') = ToSet(queue) \cup {j}
      BY <2>1, <2>3, AppendFacts DEF TypeOK
    <3> QED
      BY <2>1, <2>3, <3>1 DEF Waiting
  <2> QED
    BY <2>1, <2>2, <2>3, Submitted
<1>4. ASSUME Receive PROVE ToSet(table') \cup Waiting' = all /\ accepted' = accepted
  <2>1. /\ job = NoJob /\ job' = Head(queue) /\ queue' = Tail(queue) /\ table' = table
        /\ accepted' = accepted /\ queue \in Seq(Job) /\ queue # <<>>
    BY <1>4 DEF Receive, TypeOK
  <2>2. ToSet(queue) = ToSet(queue') \cup {job'}
    BY <2>1, TailFacts
  <2>3. job' \in Job /\ NoJob \notin Job
    BY <2>1, TailFacts DEF Job
  <2> QED
    BY <2>1, <2>2, <2>3 DEF Waiting
<1>5. ASSUME NEW committed \in BOOLEAN, Apply \/ ApplyFails(committed)
      PROVE  ToSet(table') \cup Waiting' = all /\ accepted' = accepted
  <2>1. /\ job # NoJob /\ job \in Job /\ queue' = queue /\ accepted' = accepted
        /\ \/ Insert(job) /\ (job' = job \/ job' = NoJob)
           \/ table' = table /\ job' = job
    BY <1>5 DEF Apply, ApplyFails, TypeOK
  <2>2. CASE Insert(job)
    <3>1. ToSet(table') = ToSet(table) \cup {job}
      BY <2>1, <2>2, Inserted
    <3>2. CASE job' = job
      BY <2>1, <3>1, <3>2 DEF Waiting
    <3>3. CASE job' = NoJob
      BY <2>1, <3>1, <3>3 DEF Waiting
    <3> QED
      BY <2>1, <3>2, <3>3
  <2>3. CASE table' = table /\ job' = job
    BY <1>1, <2>1, <2>3
  <2> QED
    BY <2>1, <2>2, <2>3
<1> QED
  BY <1>1, <1>2, <1>3, <1>4, <1>5 DEF Next

\* A number is taken once.
LEMMA FreshStep == IInv /\ [Next]_vars => FreshInv'
<1> SUFFICES ASSUME IInv, [Next]_vars PROVE FreshInv'
  OBVIOUS
<1> USE DEF loop, worker, database, rule
<1> DEFINE all == ToSet(table) \cup Waiting
           j == [sim |-> conn, id |-> made]
<1>0. TypeOK /\ ConnInv /\ WireInv /\ FreshInv
  BY DEF IInv
<1>1. all \subseteq Job /\ Job \subseteq [sim: Sims, id: Nat] /\ made \in Nat
  <2>1. Waiting = ToSet(queue) \cup Held
    BY DEF Waiting, Held
  <2> QED
    BY <1>0, <2>1, JobFacts DEF TypeOK, Job
<1>2. \A x \in all : x.id <= made /\ (wire # <<>> => x.id < made)
  BY <1>0 DEF FreshInv
<1>3. CASE Crash
  <2>1. ToSet(table') = ToSet(table) /\ Waiting' = {} /\ made' = made /\ wire' = <<>>
    BY <1>3, EmptyFacts DEF Crash, Waiting
  <2> QED
    BY <1>2, <2>1 DEF FreshInv
<1>4. CASE ReadSnapshot
  <2>1. made' = made /\ wire' = <<>> /\ wire # <<>>
    BY <1>4 DEF ReadSnapshot
  <2>2. \A x \in ToSet(table') \cup Waiting' : x \in all \/ x = j
    <3>1. ~ Crash
      BY <2>1, <1>4 DEF ReadSnapshot, Crash
    <3> QED
      BY <1>0, <1>4, <3>1, Stored DEF Next
  <2>3. j.id = made
    OBVIOUS
  <2> HIDE DEF all, j
  <2>4. ASSUME NEW x \in ToSet(table') \cup Waiting' PROVE x.id <= made
    BY <1>1, <1>2, <2>2, <2>3
  <2> QED
    BY <2>1, <2>4 DEF FreshInv
<1>5. CASE Next /\ ~ Crash /\ ~ ReadSnapshot
  <2>1. ToSet(table') \cup Waiting' = all
    BY <1>0, <1>5, Stored
  <2>2. CASE \E snapshot \in Snapshot : Arrive(snapshot)
    <3>1. made' = made + 1
      BY <2>2 DEF Arrive
    <3> HIDE DEF all
    <3>2. ASSUME NEW x \in all PROVE x.id <= made + 1 /\ x.id < made + 1
      BY <1>1, <1>2
    <3> QED
      BY <2>1, <3>1, <3>2 DEF FreshInv
  <2>3. CASE made' = made /\ (wire' = wire \/ wire' = <<>>)
    BY <1>2, <2>1, <2>3 DEF FreshInv
  <2>4. ASSUME ~ \E snapshot \in Snapshot : Arrive(snapshot)
        PROVE  made' = made /\ (wire' = wire \/ wire' = <<>>)
    BY <1>5, <2>4 DEF Next, Start, Connect, Hello, Disconnect, Receive, Apply, ApplyFails
  <2> QED
    BY <2>2, <2>3, <2>4
<1>6. CASE UNCHANGED vars
  BY <1>0, <1>6 DEF vars, FreshInv, Waiting
<1> QED
  BY <1>3, <1>4, <1>5, <1>6

\* What the channel took is in the table or still waiting.
LEMMA AcceptedStep == IInv /\ [Next]_vars => AcceptedInv'
<1> SUFFICES ASSUME IInv, [Next]_vars PROVE AcceptedInv'
  OBVIOUS
<1>0. TypeOK /\ ConnInv /\ WireInv /\ AcceptedInv
  BY DEF IInv
<1>1. CASE Crash
  BY <1>1 DEF Crash, AcceptedInv
<1>2. CASE Next /\ ~ Crash
  BY <1>0, <1>2, Stored DEF AcceptedInv
<1>3. CASE UNCHANGED vars
  BY <1>0, <1>3 DEF vars, AcceptedInv, Waiting
<1> QED
  BY <1>1, <1>2, <1>3

-----------------------------------------------------------------------------
(***************************************************************************)
(* The window.                                                             *)
(***************************************************************************)
\* The window stays the last of what was read.
LEMMA WindowStep == IInv /\ [Next]_vars => WindowInv'
<1> SUFFICES ASSUME IInv, [Next]_vars PROVE WindowInv'
  OBVIOUS
<1> USE DEF loop, worker, database, rule
<1>0. TypeOK /\ ConnInv /\ WireInv /\ WindowInv
  BY DEF IInv
<1>1. CASE UNCHANGED rule
  BY <1>0, <1>1 DEF WindowInv
<1>2. ASSUME Next, ~ Crash, ~ ReadSnapshot PROVE UNCHANGED rule
  BY <1>2 DEF Next, Start, Connect, Hello, Disconnect, Arrive, Receive, Apply, ApplyFails
<1>3. CASE Crash
  <2>1. history' = <<>> /\ received' = <<>> /\ proposed' = {}
    BY <1>3 DEF Crash
  <2>2. Len(<<>>) = 0 /\ DOMAIN <<>> = {}
    BY EmptyFacts
  <2>3. ConsecutiveSnapshotsRequired = 0 \/ Len(<<>>) < ConsecutiveSnapshotsRequired
    BY <2>2
  <2>4. ProposePriceChanges(<<>>) = {}
    BY <2>3, Zenon DEF ProposePriceChanges
  <2> QED
    BY <2>1, <2>2, <2>4 DEF WindowInv
<1>4. CASE ReadSnapshot
  <2> DEFINE x == Head(wire)
             m == Len(history)
             l == Len(received)
             n == Reach(m)
  <2>1. x \in Snapshot
    BY <1>0, <1>4, Reading DEF ReadSnapshot
  <2>2. /\ history' = RecordSnapshot(history, x) /\ received' = Append(received, x)
        /\ proposed' = ProposePriceChanges(history')
    BY <1>4 DEF ReadSnapshot, Observe
  <2>3. /\ history \in Seq(Snapshot) /\ m \in Nat /\ m <= MaxHistory /\ DOMAIN history = 1..m
        /\ received \in Seq(Snapshot) /\ l \in Nat
        /\ m = IF l < MaxHistory THEN l ELSE MaxHistory
        /\ \A i \in 1..m : history[i] = received[l - m + i]
    BY <1>0, LenProperties DEF TypeOK, WindowInv
  <2>4. /\ Len(history') = n /\ DOMAIN history' = 1..n
        /\ \A i \in 1..n :
             LET k == m + 1 - n + i IN
             k \in 1..m + 1 /\ history'[i] = IF k = m + 1 THEN x ELSE history[k]
    <3>1. history \in Seq(Snapshot) /\ Len(history) = m /\ m \in Nat /\ m <= MaxHistory
      BY <2>3
    <3> HIDE DEF x, m
    <3>2. /\ Len(RecordSnapshot(history, x)) = n /\ DOMAIN RecordSnapshot(history, x) = 1..n
          /\ \A i \in 1..n :
               LET k == m + 1 - n + i IN
               /\ k \in 1..m + 1
               /\ RecordSnapshot(history, x)[i] = IF k = m + 1 THEN x ELSE history[k]
      BY <2>1, <3>1, Recorded
    <3> QED
      BY <2>2, <3>2
  <2>5. /\ Len(received') = l + 1 /\ received'[l + 1] = x
        /\ \A i \in 1..l : received'[i] = received[i]
    BY <2>1, <2>2, <2>3, AppendFacts, LenProperties
  <2>6. n = (IF l + 1 < MaxHistory THEN l + 1 ELSE MaxHistory) /\ n \in Nat
    BY <2>3 DEF Reach
  <2>7. m <= l
    BY <2>3
  <2> HIDE DEF x, m, l, n
  <2>8. ASSUME NEW i \in 1..n PROVE history'[i] = received'[l + 1 - n + i]
    <3> DEFINE k == m + 1 - n + i
    <3>1. k \in 1..m + 1 /\ history'[i] = IF k = m + 1 THEN x ELSE history[k]
      BY <2>4
    <3>2. l + 1 - n + i = l - m + k
      BY <2>3, <2>6
    <3> HIDE DEF k
    <3>3. CASE k = m + 1
      <4>1. l - m + k = l + 1
        BY <2>3, <3>3
      <4> QED
        BY <2>5, <3>1, <3>2, <3>3, <4>1
    <3>4. CASE k # m + 1
      <4>1. k \in 1..m /\ l - m + k \in 1..l
        BY <2>3, <2>7, <3>1, <3>4
      <4> QED
        BY <2>3, <2>5, <3>1, <3>2, <3>4, <4>1
    <3> QED
      BY <3>3, <3>4
  <2>9. Len(received') - Len(history') = l + 1 - n
    BY <2>3, <2>4, <2>5, <2>6
  <2> QED
    BY <2>2, <2>4, <2>5, <2>6, <2>8, <2>9 DEF WindowInv
<1>5. CASE UNCHANGED vars
  BY <1>1, <1>5 DEF vars
<1> QED
  BY <1>1, <1>2, <1>3, <1>4, <1>5

-----------------------------------------------------------------------------
(***************************************************************************)
(* What the rule makes of the window is what the streaks say.              *)
(***************************************************************************)
\* A streak is long enough when the last so many have no gap.
LEMMA StreakFacts ==
  ASSUME NEW l \in Nat, NEW n \in Nat, NEW M \in SUBSET (1..l)
  PROVE  l - Max(M \cup {0}) >= n <=> n <= l /\ \A i \in l - n + 1..l : i \notin M
<1> DEFINE x == Max(M \cup {0})
<1>1. x \in M \cup {0} /\ \A y \in M : y <= x
  BY MaxFacts
<1> HIDE DEF x
<1>2. x \in 0..l
  BY <1>1
<1>3. ASSUME l - x >= n PROVE n <= l /\ \A i \in l - n + 1..l : i \notin M
  <2>1. n <= l
    BY <1>2, <1>3
  <2>2. ASSUME NEW i \in l - n + 1..l, i \in M PROVE FALSE
    <3>1. i <= x /\ i \in Nat
      BY <1>1, <2>2
    <3> QED
      BY <1>2, <1>3, <3>1
  <2> QED
    BY <2>1, <2>2
<1>4. ASSUME n <= l, \A i \in l - n + 1..l : i \notin M PROVE l - x >= n
  <2>1. CASE x \in M
    BY <1>2, <1>4, <2>1
  <2>2. CASE x = 0
    BY <1>4, <2>2
  <2> QED
    BY <1>1, <2>1, <2>2
<1> QED
  BY <1>3, <1>4 DEF x

\* The window and all that was read agree on the last so many snapshots.
LEMMA SameEnd ==
  ASSUME TypeOK, WindowInv, NEW n \in Nat, n <= MaxHistory
  PROVE  LET l == Len(received)
             m == Len(history)
         IN  /\ l \in Nat /\ m \in Nat
             /\ n <= m <=> n <= l
             /\ n <= m =>
                  /\ \A i \in m - n + 1..m :
                       i + (l - m) \in l - n + 1..l /\ history[i] = received[i + (l - m)]
                  /\ \A i \in l - n + 1..l :
                       i - (l - m) \in m - n + 1..m /\ received[i] = history[i - (l - m)]
             /\ l > 0 => m > 0 /\ history[m] = received[l]
<1> DEFINE l == Len(received)
           m == Len(history)
<1>1. /\ l \in Nat /\ m \in Nat /\ DOMAIN history = 1..m
      /\ m = IF l < MaxHistory THEN l ELSE MaxHistory
      /\ \A i \in DOMAIN history : history[i] = received[l - m + i]
  BY LenProperties DEF TypeOK, WindowInv
<1> HIDE DEF l, m
<1>2. m <= l /\ (n <= m <=> n <= l) /\ (l > 0 => m > 0)
  BY <1>1
<1>3. \A i \in 1..m : history[i] = received[i + (l - m)]
  <2> TAKE i \in 1..m
  <2>1. l - m + i = i + (l - m)
    BY <1>1
  <2> QED
    BY <1>1, <2>1
<1>4. ASSUME n <= m, NEW i \in m - n + 1..m
      PROVE  i + (l - m) \in l - n + 1..l /\ history[i] = received[i + (l - m)]
  <2>1. i \in 1..m /\ i + (l - m) \in l - n + 1..l
    BY <1>1, <1>2, <1>4
  <2> QED
    BY <1>3, <2>1
<1>5. ASSUME n <= m, NEW i \in l - n + 1..l
      PROVE  i - (l - m) \in m - n + 1..m /\ received[i] = history[i - (l - m)]
  <2> DEFINE k == i - (l - m)
  <2>1. k \in 1..m /\ k \in m - n + 1..m /\ k + (l - m) = i
    BY <1>1, <1>2, <1>5
  <2> HIDE DEF k
  <2>2. received[i] = history[k]
    BY <1>3, <2>1
  <2> QED
    BY <2>1, <2>2 DEF k
<1>6. ASSUME l > 0 PROVE history[m] = received[l]
  <2>1. m \in 1..m /\ m + (l - m) = l
    BY <1>1, <1>2, <1>6
  <2> QED
    BY <1>3, <2>1
<1> QED
  BY <1>1, <1>2, <1>4, <1>5, <1>6 DEF l, m

\* The last so many snapshots of the window are all in a set exactly when those
\* that are not in it ended so many snapshots ago.
LEMMA WindowTells ==
  ASSUME TypeOK, WindowInv, NEW Good
  PROVE  LET n == ConsecutiveSnapshotsRequired
             m == Len(history)
             M == {i \in DOMAIN received : received[i] \notin Good}
         IN  Len(received) - Max(M \cup {0}) >= n
               <=> n <= m /\ \A i \in m - n + 1..m : history[i] \in Good
<1> DEFINE n == ConsecutiveSnapshotsRequired
           l == Len(received)
           m == Len(history)
           M == {i \in DOMAIN received : received[i] \notin Good}
<1>1. n \in Nat /\ n <= MaxHistory
  OBVIOUS
<1>2. /\ l \in Nat /\ m \in Nat
      /\ n <= m <=> n <= l
      /\ n <= m =>
           /\ \A i \in m - n + 1..m :
                i + (l - m) \in l - n + 1..l /\ history[i] = received[i + (l - m)]
           /\ \A i \in l - n + 1..l :
                i - (l - m) \in m - n + 1..m /\ received[i] = history[i - (l - m)]
  BY <1>1, SameEnd
<1>3. DOMAIN received = 1..l /\ M \subseteq 1..l
  BY LenProperties DEF TypeOK
<1>4. l - Max(M \cup {0}) >= n <=> n <= l /\ \A i \in l - n + 1..l : i \notin M
  BY <1>1, <1>2, <1>3, StreakFacts
<1>5. n <= l => \A i \in l - n + 1..l : i \in 1..l
  BY <1>1, <1>2
<1>6. n <= l => \A i \in l - n + 1..l : i \notin M <=> received[i] \in Good
  BY <1>3, <1>5
<1> HIDE DEF l, m, n, M
<1>7. n <= l => ((\A i \in l - n + 1..l : received[i] \in Good)
                   <=> \A i \in m - n + 1..m : history[i] \in Good)
  BY <1>2
<1>8. l - Max(M \cup {0}) >= n <=> n <= m /\ \A i \in m - n + 1..m : history[i] \in Good
  BY <1>2, <1>4, <1>6, <1>7
<1> QED
  BY <1>8 DEF l, m, n, M

\* What the rule sees throughout the window is a streak.
LEMMA LongStreak ==
  ASSUME TypeOK, WindowInv, NEW id \in RideIds
  PROVE  Streak(id, LAMBDA q : q > QueueLengthHighThreshold) >= ConsecutiveSnapshotsRequired
           <=> /\ ConsecutiveSnapshotsRequired <= Len(history)
               /\ id \in Throughout(history, ConsecutiveSnapshotsRequired,
                                    LAMBDA q : q > QueueLengthHighThreshold)
<1> DEFINE n == ConsecutiveSnapshotsRequired
           m == Len(history)
           Good == {s \in Snapshot :
                      s[id] # None /\ s[id].queue_length > QueueLengthHighThreshold}
           M == {i \in DOMAIN received : received[i] \notin Good}
<1>1. /\ \A i \in DOMAIN received : received[i] \in Snapshot
      /\ \A i \in 1..m : history[i] \in Snapshot
      /\ m \in Nat /\ n \in Nat
  BY SeqFacts DEF TypeOK
<1>2. Len(received) - Max(M \cup {0}) >= n
        <=> n <= m /\ \A i \in m - n + 1..m : history[i] \in Good
  BY WindowTells
<1>3. Streak(id, LAMBDA q : q > QueueLengthHighThreshold) = Len(received) - Max(M \cup {0})
  <2>1. M = {i \in DOMAIN received :
               ~ (received[i][id] # None
                    /\ received[i][id].queue_length > QueueLengthHighThreshold)}
    BY <1>1
  <2> HIDE DEF M
  <2> QED
    BY <2>1 DEF Streak
<1>4. n <= m => \A i \in m - n + 1..m : i \in 1..m
  BY <1>1
<1>5. n <= m => (id \in Throughout(history, n, LAMBDA q : q > QueueLengthHighThreshold)
                   <=> \A i \in m - n + 1..m : history[i] \in Good)
  BY <1>1, <1>4 DEF Throughout
<1> HIDE DEF Good, M
<1> QED
  BY <1>2, <1>3, <1>5

\* The same of an empty queue.
LEMMA EmptyStreak ==
  ASSUME TypeOK, WindowInv, NEW id \in RideIds
  PROVE  Streak(id, LAMBDA q : q <= QueueLengthLowThreshold) >= ConsecutiveSnapshotsRequired
           <=> /\ ConsecutiveSnapshotsRequired <= Len(history)
               /\ id \in Throughout(history, ConsecutiveSnapshotsRequired,
                                    LAMBDA q : q <= QueueLengthLowThreshold)
<1> DEFINE n == ConsecutiveSnapshotsRequired
           m == Len(history)
           Good == {s \in Snapshot :
                      s[id] # None /\ s[id].queue_length <= QueueLengthLowThreshold}
           M == {i \in DOMAIN received : received[i] \notin Good}
<1>1. /\ \A i \in DOMAIN received : received[i] \in Snapshot
      /\ \A i \in 1..m : history[i] \in Snapshot
      /\ m \in Nat /\ n \in Nat
  BY SeqFacts DEF TypeOK
<1>2. Len(received) - Max(M \cup {0}) >= n
        <=> n <= m /\ \A i \in m - n + 1..m : history[i] \in Good
  BY WindowTells
<1>3. Streak(id, LAMBDA q : q <= QueueLengthLowThreshold) = Len(received) - Max(M \cup {0})
  <2>1. M = {i \in DOMAIN received :
               ~ (received[i][id] # None
                    /\ received[i][id].queue_length <= QueueLengthLowThreshold)}
    BY <1>1
  <2> HIDE DEF M
  <2> QED
    BY <2>1 DEF Streak
<1>4. n <= m => \A i \in m - n + 1..m : i \in 1..m
  BY <1>1
<1>5. n <= m => (id \in Throughout(history, n, LAMBDA q : q <= QueueLengthLowThreshold)
                   <=> \A i \in m - n + 1..m : history[i] \in Good)
  BY <1>1, <1>4 DEF Throughout
<1> HIDE DEF Good, M
<1> QED
  BY <1>2, <1>3, <1>5

\* What the rule proposes is what the streaks say.
LEMMA RuleOfWindow ==
  ASSUME TypeOK, WindowInv
  PROVE  RuleFollowsTheStreaks
<1> DEFINE n == ConsecutiveSnapshotsRequired
           m == Len(history)
           latest == history[m]
           high == Throughout(history, n, LAMBDA q : q > QueueLengthHighThreshold)
           low == Throughout(history, n, LAMBDA q : q <= QueueLengthLowThreshold)
           Up(id) == [ride_id |-> id, proposed_price |-> latest[id].price + PriceStep]
           Down(id) == [ride_id |-> id, proposed_price |-> latest[id].price + (-PriceStep)]
<1>1. /\ m \in Nat /\ Len(received) \in Nat
      /\ Len(received) > 0 => m > 0 /\ history[m] = received[Len(received)]
      /\ Len(received) = 0 => m = 0
      /\ received = <<>> <=> Len(received) = 0
  <2>1. 0 \in Nat /\ 0 <= MaxHistory
    OBVIOUS
  <2>2. m \in Nat /\ Len(received) \in Nat
        /\ (Len(received) > 0 => m > 0 /\ history[m] = received[Len(received)])
    BY <2>1, SameEnd
  <2>3. Len(received) = 0 => m = 0
    BY DEF WindowInv
  <2>4. received = <<>> <=> Len(received) = 0
    BY EmptySeq, LenProperties DEF TypeOK
  <2> QED
    BY <2>2, <2>3, <2>4
<1>2. proposed = IF n = 0 \/ m < n THEN {}
                 ELSE {p \in {Up(id) : id \in high} : p.proposed_price <= MaxPrice}
                        \cup {p \in {Down(id) : id \in low \ high} : p.proposed_price >= MinPrice}
  BY DEF WindowInv, ProposePriceChanges
<1> DEFINE Long(id) == Streak(id, LAMBDA q : q > QueueLengthHighThreshold) >= n
           Empty(id) == Streak(id, LAMBDA q : q <= QueueLengthLowThreshold) >= n
           Price(id) == Last(received)[id].price
           Wanted(id, p) == IF Long(id) THEN p = Price(id) + PriceStep /\ p <= MaxPrice
                            ELSE Empty(id) /\ p = Price(id) - PriceStep /\ p >= MinPrice
<1>3. ASSUME NEW id \in RideIds, NEW p \in MinPrice - 1..MaxPrice + 1
      PROVE  [ride_id |-> id, proposed_price |-> p] \in proposed
               <=> received # <<>> /\ n # 0 /\ Wanted(id, p)
  <2> DEFINE proposal == [ride_id |-> id, proposed_price |-> p]
  <2>1. (Long(id) <=> n <= m /\ id \in high) /\ (Empty(id) <=> n <= m /\ id \in low)
    BY LongStreak, EmptyStreak
  <2>2. CASE n = 0 \/ m < n
    <3>1. proposal \notin proposed
      BY <1>2, <2>2
    <3>2. n = 0 \/ (~ Long(id) /\ ~ Empty(id))
      BY <1>1, <2>1, <2>2
    <3> HIDE DEF Long, Empty, Price, proposal
    <3>3. n # 0 => ~ Wanted(id, p)
      BY <3>2
    <3> QED
      BY <3>1, <3>3 DEF proposal
  <2>3. CASE ~ (n = 0 \/ m < n)
    <3>1. n # 0 /\ n <= m /\ received # <<>> /\ Price(id) = latest[id].price
      BY <1>1, <2>3 DEF Last
    <3> HIDE DEF high, low
    <3>2. proposal \in proposed
            <=> \/ id \in high /\ p = latest[id].price + PriceStep /\ p <= MaxPrice
                \/ /\ id \in low \ high /\ p = latest[id].price + (-PriceStep) /\ p >= MinPrice
      BY <1>2, <2>3
    <3>3. id \in high \/ id \in low => latest[id].price \in Int
      <4>1. m \in DOMAIN history /\ m \in m - n + 1..m
        BY <1>1, <2>3, LenProperties DEF TypeOK
      <4>2. latest \in Snapshot
        BY <4>1, SeqFacts DEF TypeOK
      <4>3. id \in high \/ id \in low => latest[id] # None
        BY <4>1 DEF high, low, Throughout
      <4> QED
        BY <4>2, <4>3 DEF Snapshot, Report
    <3> HIDE DEF Long, Empty, Price, proposal, latest
    <3>4. latest[id].price \in Int =>
            latest[id].price + (-PriceStep) = latest[id].price - PriceStep
      OBVIOUS
    <3>5. CASE id \in high
      BY <2>1, <3>1, <3>2, <3>5 DEF proposal
    <3>6. CASE id \notin high
      BY <2>1, <3>1, <3>2, <3>3, <3>4, <3>6 DEF proposal
    <3> QED
      BY <3>5, <3>6
  <2> QED
    BY <2>2, <2>3
<1> QED
  BY <1>3 DEF RuleFollowsTheStreaks

\* A proposal moves the price last seen of its ride by one step, never up over
\* the highest price nor down under the lowest, and each ride has one at most.
Modest ==
  \A p \in proposed :
    LET old == Last(received)[p.ride_id].price IN
    /\ received # <<>>
    /\ \/ p.proposed_price = old + PriceStep /\ p.proposed_price <= MaxPrice
       \/ p.proposed_price = old - PriceStep /\ p.proposed_price >= MinPrice
    /\ \A q \in proposed : q.ride_id = p.ride_id => q = p

\* That is what the rule does with its window.
LEMMA ModestOfWindow ==
  ASSUME TypeOK, WindowInv
  PROVE  Modest
<1> DEFINE n == ConsecutiveSnapshotsRequired
           m == Len(history)
           latest == history[m]
           high == Throughout(history, n, LAMBDA q : q > QueueLengthHighThreshold)
           low == Throughout(history, n, LAMBDA q : q <= QueueLengthLowThreshold)
           Up(id) == [ride_id |-> id, proposed_price |-> latest[id].price + PriceStep]
           Down(id) == [ride_id |-> id, proposed_price |-> latest[id].price + (-PriceStep)]
<1>1. proposed = IF n = 0 \/ m < n THEN {}
                 ELSE {p \in {Up(id) : id \in high} : p.proposed_price <= MaxPrice}
                        \cup {p \in {Down(id) : id \in low \ high} : p.proposed_price >= MinPrice}
  BY DEF WindowInv, ProposePriceChanges
<1>2. CASE n = 0 \/ m < n
  BY <1>1, <1>2 DEF Modest
<1>3. CASE ~ (n = 0 \/ m < n)
  <2>1. m \in Nat /\ m > 0 /\ received # <<>> /\ Last(received) = latest
    <3>1. /\ m \in Nat /\ Len(received) \in Nat
          /\ (Len(received) > 0 => m > 0 /\ history[m] = received[Len(received)])
      <4>1. 0 \in Nat /\ 0 <= MaxHistory
        OBVIOUS
      <4> QED
        BY <4>1, SameEnd
    <3>2. n \in Nat /\ m > 0
      BY <1>3, <3>1
    <3>3. Len(received) > 0
      BY <3>1, <3>2 DEF WindowInv
    <3>4. received # <<>>
      BY <3>3, EmptySeq
    <3> QED
      BY <3>1, <3>3, <3>4 DEF Last
  <2>2. ASSUME NEW id \in high \cup low PROVE latest[id].price \in Int
    <3>0. DOMAIN history = 1..m /\ n \in Nat
      BY LenProperties DEF TypeOK
    <3> HIDE DEF m, n
    <3>1. m \in DOMAIN history /\ m \in m - n + 1..m
      BY <1>3, <2>1, <3>0
    <3>2. latest \in Snapshot
      BY <3>1, SeqFacts DEF TypeOK
    <3>3. id \in RideIds /\ latest[id] # None
      BY <3>1 DEF m, n, high, low, Throughout
    <3> QED
      BY <3>2, <3>3 DEF Snapshot, Report
  <2> HIDE DEF high, low, latest
  <2>3. ASSUME NEW p \in proposed
        PROVE  \/ /\ p.ride_id \in high /\ p = Up(p.ride_id)
                  /\ p.proposed_price = latest[p.ride_id].price + PriceStep
                  /\ p.proposed_price <= MaxPrice
               \/ /\ p.ride_id \in low \ high /\ p = Down(p.ride_id)
                  /\ p.proposed_price = latest[p.ride_id].price + (-PriceStep)
                  /\ p.proposed_price >= MinPrice
    BY <1>1, <1>3
  <2> HIDE DEF Up, Down
  <2>4. ASSUME NEW p \in proposed, NEW q \in proposed, q.ride_id = p.ride_id PROVE q = p
    BY <2>3, <2>4
  <2>5. ASSUME NEW p \in proposed
        PROVE  LET old == latest[p.ride_id].price IN
               \/ p.proposed_price = old + PriceStep /\ p.proposed_price <= MaxPrice
               \/ p.proposed_price = old - PriceStep /\ p.proposed_price >= MinPrice
    <3>1. p.ride_id \in high \cup low
      BY <2>3
    <3>2. latest[p.ride_id].price \in Int
      BY <2>2, <3>1
    <3>3. latest[p.ride_id].price + (-PriceStep) = latest[p.ride_id].price - PriceStep
      BY <3>2
    <3> QED
      BY <2>3, <3>3
  <2> QED
    BY <2>1, <2>4, <2>5 DEF Modest
<1> QED
  BY <1>2, <1>3

-----------------------------------------------------------------------------
(***************************************************************************)
(* The theorems.                                                           *)
(***************************************************************************)
\* Nothing is held before the process runs.
LEMMA Initially == Init => IInv
<1> SUFFICES ASSUME Init PROVE IInv
  OBVIOUS
<1>1. /\ wire = <<>> /\ made = 0 /\ history = <<>> /\ queue = <<>> /\ job = NoJob
      /\ table = <<>> /\ received = <<>> /\ accepted = {} /\ proposed = {}
      /\ main = "down" /\ conn = NoSim /\ db_state = "connected" /\ registered = {}
  BY DEF Init
<1>2. /\ <<>> \in Seq(Snapshot) /\ <<>> \in Seq(Job) /\ Len(<<>>) = 0
      /\ DOMAIN <<>> = {} /\ ToSet(<<>>) = {}
  BY EmptyFacts
<1>3. TypeOK
  BY <1>1, <1>2 DEF TypeOK
<1>4. Held = {} /\ Waiting = {}
  BY <1>1, <1>2 DEF Held, Waiting
<1>5. ConnInv /\ WireInv
  BY <1>1 DEF ConnInv, WireInv
<1>6. OrderInv
  BY <1>1, <1>2, <1>4 DEF OrderInv, Ascending, Earlier
<1>7. FreshInv /\ AcceptedInv
  BY <1>1, <1>2, <1>4 DEF FreshInv, AcceptedInv
<1>8. WindowInv
  <2>1. ConsecutiveSnapshotsRequired = 0 \/ Len(<<>>) < ConsecutiveSnapshotsRequired
    BY <1>2
  <2>2. ProposePriceChanges(<<>>) = {}
    BY <2>1, Zenon DEF ProposePriceChanges
  <2> QED
    BY <1>1, <1>2, <2>2 DEF WindowInv
<1> QED
  BY <1>3, <1>5, <1>6, <1>7, <1>8 DEF IInv

\* Every reachable state satisfies the inductive invariant: where the numbers of
\* the snapshots are, and what the window is of what was read.
THEOREM Invariant == Spec => []IInv
<1>1. Init => IInv
  BY Initially
<1>2. IInv /\ [Next]_vars => IInv'
  BY TypeStep, ConnStep, WireStep, OrderStep, FreshStep, AcceptedStep, WindowStep DEF IInv
<1> QED
  BY <1>1, <1>2, PTL DEF Spec

\* The state of the connection loop, the worker, the database and the world model
\* keeps its type; the channel and the window keep their bounds.
THEOREM TypeCorrect == Spec => []TypeOK
<1>1. IInv => TypeOK
  BY DEF IInv
<1> QED
  BY <1>1, Invariant, PTL

\* The observations are written in the order they arrived, none twice although a
\* lost answer makes the worker insert again, and none the channel took is lost
\* while the process lives.
THEOREM LedgerInOrder == Spec => []LedgerKeepsTheOrder
<1>1. IInv => LedgerKeepsTheOrder
  BY DEF IInv, OrderInv, Ascending, AcceptedInv, LedgerKeepsTheOrder
<1> QED
  BY <1>1, Invariant, PTL

\* What the rule proposes from its window is what the streaks in all that was
\* read call for, for every threshold, step, price range and length of window.
THEOREM StreaksDecide == Spec => []RuleFollowsTheStreaks
<1>1. IInv => RuleFollowsTheStreaks
  BY RuleOfWindow DEF IInv
<1> QED
  BY <1>1, Invariant, PTL

\* The rule proposes small moves within the price range, one a ride; a price that
\* already lies outside it may stay outside, and is left to the governor.
THEOREM ProposalsModest == Spec => []Modest
<1>1. IInv => Modest
  BY ModestOfWindow DEF IInv
<1> QED
  BY <1>1, Invariant, PTL
-----------------------------------------------------------------------------
(***************************************************************************)
(* What is safe of AcceptedIsPersisted.                                    *)
(***************************************************************************)
\* The jobs of lower number that the channel has taken and that still wait.
Ahead(j) == {k \in Waiting : k.id < j.id}

\* Whoever waits has waited before, or is the snapshot just read.
LEMMA WaitedBefore ==
  ASSUME TypeOK, ConnInv, WireInv, Next
  PROVE  \A k \in Waiting' : k \in Waiting \/ (ReadSnapshot /\ k.id = made)
<1> USE DEF loop, worker, database, rule
<1>0. queue \in Seq(Job)
  BY DEF TypeOK
<1>1. ASSUME UNCHANGED <<job, queue>> PROVE Waiting' = Waiting
  BY <1>1 DEF Waiting
<1>2. ASSUME Start \/ Disconnect \/ (\E s \in Sims : Connect(s)) \/ (\E ok \in BOOLEAN : Hello(ok))
               \/ (\E snapshot \in Snapshot : Arrive(snapshot))
               \/ \E committed \in BOOLEAN : ApplyFails(committed)
      PROVE  UNCHANGED <<job, queue>>
  BY <1>2 DEF Start, Disconnect, Connect, Hello, Arrive, ApplyFails
<1>3. CASE Crash
  <2>1. job' = NoJob /\ ToSet(queue') = {}
    BY <1>3, EmptyFacts DEF Crash
  <2> QED
    BY <2>1 DEF Waiting
<1>4. CASE ReadSnapshot
  <2> DEFINE j == [sim |-> conn, id |-> made]
  <2>1. j \in Job /\ j.id = made /\ Submit(j) /\ job' = job
    BY <1>4, Reading DEF ReadSnapshot
  <2> HIDE DEF j
  <2>2. CASE queue' = queue
    BY <1>1, <2>1, <2>2
  <2>3. CASE queue' = Append(queue, j)
    <3>1. ToSet(queue') = ToSet(queue) \cup {j}
      BY <1>0, <2>1, <2>3, AppendFacts
    <3> QED
      BY <1>4, <2>1, <3>1 DEF Waiting
  <2> QED
    BY <2>1, <2>2, <2>3, Submitted
<1>5. CASE Receive
  <2>1. queue # <<>> /\ job' = Head(queue) /\ queue' = Tail(queue)
    BY <1>5 DEF Receive
  <2>2. ToSet(queue) = ToSet(queue') \cup {job'}
    BY <1>0, <2>1, TailFacts
  <2> QED
    BY <2>2 DEF Waiting
<1>6. CASE Apply
  BY <1>6 DEF Apply, Waiting
<1> QED
  BY <1>1, <1>2, <1>3, <1>4, <1>5, <1>6 DEF Next

\* Nothing overtakes a job that the channel has taken, and nothing but the end
\* of the process drops it: with each step it is in the table, or it waits on
\* with no more jobs ahead of it than before, however often the database
\* refuses, loses its answers, or the bridge reconnects.
THEOREM PlaceKept ==
  Spec => [][main' # "down" =>
               \A j \in Waiting :
                 \/ j \in ToSet(table')
                 \/ j \in Waiting' /\ Ahead(j)' \subseteq Ahead(j)]_vars
<1> DEFINE Kept == main' # "down" =>
                     \A j \in Waiting :
                       \/ j \in ToSet(table')
                       \/ j \in Waiting' /\ Ahead(j)' \subseteq Ahead(j)
<1>1. IInv /\ [Next]_vars => [Kept]_vars
  <2> SUFFICES ASSUME IInv, Next, main' # "down", NEW j \in Waiting
               PROVE  \/ j \in ToSet(table')
                      \/ j \in Waiting' /\ Ahead(j)' \subseteq Ahead(j)
    OBVIOUS
  <2>0. TypeOK /\ ConnInv /\ WireInv /\ FreshInv /\ ~Crash
    BY DEF IInv, Crash
  <2>1. j \in ToSet(table') \cup Waiting'
    BY <2>0, Stored
  <2>2. \A k \in Waiting' : k \in Waiting \/ (ReadSnapshot /\ k.id = made)
    BY <2>0, WaitedBefore
  <2>3. ASSUME ReadSnapshot PROVE j.id < made
    BY <2>0, <2>3 DEF ReadSnapshot, FreshInv
  <2>4. j.id \in Nat /\ made \in Nat
    <3>1. queue \in Seq(Job) /\ job \in Job \cup {NoJob}
      BY <2>0 DEF TypeOK
    <3>2. ToSet(queue) \subseteq Job
      BY <3>1, SeqFacts
    <3>3. j \in Job
      BY <3>1, <3>2 DEF Waiting
    <3> QED
      BY <2>0, <3>3, IntakeAssumption DEF TypeOK, Job
  <2>5. \A k \in Waiting' : k.id < j.id => k \in Waiting
    BY <2>2, <2>3, <2>4
  <2>6. Ahead(j)' \subseteq Ahead(j)
    BY <2>5 DEF Ahead
  <2> QED
    BY <2>1, <2>6
<1> QED
  BY <1>1, Invariant, PTL DEF Spec
=============================================================================
