--------------------------- MODULE SafetyNetProofs ---------------------------
(***************************************************************************)
(* IInv is inductive, and the safety properties of SafetyNet follow from   *)
(* it, for every set of simulations and tasks and every bound.             *)
(***************************************************************************)
EXTENDS SafetyNet, TLAPS

USE SimsAssumption, TickAssumption, NeededAssumption, OutstandingAssumption

\* Every state a process writes makes a well-formed ledger row.
LEMMA UnexpiringIsRow ==
  ASSUME NEW st \in SafetyState
  PROVE  Unexpiring(st) \in Row
BY DEF Unexpiring, NoExpiry, Row

\* A row for one simulation leaves the views well-formed.
LEMMA InsertForType ==
  ASSUME TypeOK, NEW s \in Sims, NEW row \in Row, InsertFor(s, row)
  PROVE  global' \in SafetyState /\ view' \in [Sims -> Row] /\ registered' \subseteq Sims
BY DEF TypeOK, InsertFor

\* So does a row for all of them.
LEMMA InsertGlobalType ==
  ASSUME TypeOK, NEW st \in SafetyState, InsertGlobal(st)
  PROVE  global' \in SafetyState /\ view' \in [Sims -> Row] /\ registered' \subseteq Sims
<1>1. view' = [s \in Sims |-> Unexpiring(st)]
  BY DEF InsertGlobal
<1>2. view' \in [Sims -> Row]
  BY <1>1, UnexpiringIsRow
<1> QED
  BY <1>2 DEF InsertGlobal, TypeOK

-----------------------------------------------------------------------------
\* The empty ledger and the stopped orchestrator satisfy the invariant.
LEMMA InitIInv == Init => IInv
<1> SUFFICES ASSUME Init PROVE IInv
  OBVIOUS
<1>1. TypeOK
  <2>1. view \in [Sims -> Row]
    BY UnexpiringIsRow DEF Init, SafetyState
  <2>2. hb \in [Tasks -> Task]
    BY DEF Init, Task, FreeTask, TaskPC
  <2>3. resolved \in BOOLEAN
    BY DEF Init
  <2> QED
    BY <2>1, <2>2, <2>3 DEF Init, TypeOK, SafetyState, MainPC
<1>2. LifetimesInv
  BY DEF Init, LifetimesInv, Connected, Serving, FreeTask
<1>3. BudgetInv
  BY DEF Init, BudgetInv
<1>4. WatchdogInv /\ UnearnedInv /\ HealInv /\ OnlyEscalationOvertakesTheGate
  BY DEF Init, WatchdogInv, UnearnedInv, Serving, HealInv, OnlyEscalationOvertakesTheGate,
     Unexpiring, RequiresManualResolution
<1> QED
  BY <1>1, <1>2, <1>3, <1>4 DEF IInv

\* Types are preserved.
LEMMA TypeStep == IInv /\ [Next]_vars => TypeOK'
<1> SUFFICES ASSUME IInv, [Next]_vars PROVE TypeOK'
  OBVIOUS
<1> USE DEF IInv, TypeOK, MainPC, TaskPC, Task, FreeTask, ledger, pending,
            history, others, Saturating, Finish
<1>1. ASSUME Startup PROVE TypeOK'
  <2>1. CASE StartupInsert
    <3>1. "cautious" \in SafetyState
      BY DEF SafetyState
    <3>2. global' \in SafetyState /\ view' \in [Sims -> Row] /\ registered' \subseteq Sims
      BY <2>1, <3>1, InsertGlobalType DEF StartupInsert
    <3>3. resolved' \in BOOLEAN
      BY <2>1 DEF StartupInsert
    <3> QED
      BY <2>1, <3>2, <3>3 DEF StartupInsert
  <2>2. CASE StartupRead \/ Crash
    BY <2>2 DEF StartupRead, Crash
  <2> QED
    BY <1>1, <2>1, <2>2 DEF Startup
<1>2. ASSUME Serve PROVE TypeOK'
  <2>1. ASSUME NEW ok \in BOOLEAN, Hello(ok) PROVE TypeOK'
    <3>1. registered' \subseteq Sims
      BY <2>1 DEF Hello, LifetimesInv, Connected
    <3> QED
      BY <2>1, <3>1 DEF Hello
  <2>2. ASSUME NEW ok \in BOOLEAN, GateHeal(ok) PROVE TypeOK'
    <3>1. conn \in Sims /\ Unexpiring("normal") \in Row
      BY <2>2, UnexpiringIsRow DEF GateHeal, LifetimesInv, Connected, SafetyState
    <3> QED
      BY <2>2, <3>1, InsertForType DEF GateHeal
  <2>3. ASSUME NEW s \in Sims, Connect(s) PROVE TypeOK'
    BY <2>3 DEF Connect
  <2>4. ASSUME NEW k \in Tasks, NEW t \in 0..MaxTick, Heartbeat(k, t) PROVE TypeOK'
    BY <2>4 DEF Heartbeat
  <2>5. ASSUME NEW dropped \in BOOLEAN, Verify(dropped) PROVE TypeOK'
    BY <2>5 DEF Verify
  <2>6. ASSUME NEW ok \in BOOLEAN, GateRead(ok) \/ Send(ok) PROVE TypeOK'
    BY <2>6 DEF GateRead, Send, BudgetInv
  <2>7. ASSUME NEW persisted \in BOOLEAN, NEW engineError \in BOOLEAN,
               Result(persisted, engineError)
        PROVE  TypeOK'
    BY <2>7 DEF Result, BudgetInv
  <2>8. CASE Disconnect \/ Snapshot \/ Verified \/ Propose \/ NoMoreProposals
    BY <2>8 DEF Disconnect, Snapshot, Verified, Propose, NoMoreProposals
  <2> QED
    BY <1>2, <2>1, <2>2, <2>3, <2>4, <2>5, <2>6, <2>7, <2>8 DEF Serve
<1>3. ASSUME Rollback PROVE TypeOK'
  BY <1>3 DEF Rollback, RollbackRead, RollbackHeal, RollbackEnter, RollbackRestore,
     RollbackConserve, InsertFor, Unexpiring, NoExpiry, Row, SafetyState
<1>4. ASSUME NEW k \in Tasks, TaskStep(k) PROVE TypeOK'
  <2>1. ASSUME NEW ok \in BOOLEAN, TaskHeal(k, ok) \/ TaskInsert(k, ok) PROVE TypeOK'
    <3>1. global' \in SafetyState /\ view' \in [Sims -> Row] /\ registered' \subseteq Sims
      BY <2>1 DEF TaskHeal, TaskInsert, InsertFor, Unexpiring, NoExpiry, Row, SafetyState
    <3>2. hb' \in [Tasks -> Task]
      BY <2>1 DEF TaskHeal, TaskInsert
    <3> QED
      BY <2>1, <3>1, <3>2 DEF TaskHeal, TaskInsert
  <2>2. ASSUME NEW ok \in BOOLEAN, TaskRead(k, ok) PROVE TypeOK'
    BY <2>2 DEF TaskRead
  <2>3. CASE TaskReset(k) \/ TaskCount(k)
    BY <2>3 DEF TaskReset, TaskCount
  <2> QED
    BY <1>4, <2>1, <2>2, <2>3 DEF TaskStep
<1>5. ASSUME Watchdog PROVE TypeOK'
  BY <1>5 DEF Watchdog, WatchdogRead, WatchdogInsert, InsertGlobal, Unexpiring,
     NoExpiry, Row, SafetyState
<1>6. ASSUME Resolve PROVE TypeOK'
  <2>1. ASSUME ResolveInsert(TRUE) PROVE TypeOK'
    <3>1. "normal" \in SafetyState
      BY DEF SafetyState
    <3> QED
      BY <2>1, <3>1, InsertGlobalType DEF ResolveInsert
  <2>2. CASE ResolveRead \/ ResolveInsert(FALSE)
    BY <2>2 DEF ResolveRead, ResolveInsert
  <2> QED
    BY <1>6, <2>1, <2>2 DEF Resolve
<1>7. CASE UNCHANGED vars
  BY <1>7 DEF vars
<1> QED
  BY <1>1, <1>2, <1>3, <1>4, <1>5, <1>6, <1>7 DEF Next

-----------------------------------------------------------------------------
(***************************************************************************)
(* The other conjuncts of IInv.  What a step writes is read off its action, *)
(* so one step of each proof treats all the actions of a process.          *)
(***************************************************************************)

\* The pending maps end with the connection, the tasks with the process.
LEMMA LifetimesStep == IInv /\ [Next]_vars => LifetimesInv'
<1> SUFFICES ASSUME IInv, [Next]_vars PROVE LifetimesInv'
  OBVIOUS
<1> USE DEF IInv, LifetimesInv, Serving, Connected, TypeOK, Task, FreeTask,
            pending, others, Finish
<1>1. ASSUME Startup PROVE LifetimesInv'
  BY <1>1 DEF Startup, StartupRead, StartupInsert, Crash
<1>2. ASSUME Serve PROVE LifetimesInv'
  BY <1>2, SMTT(30) DEF Serve, Connect, Hello, Disconnect, Heartbeat, Snapshot, Verify,
     Verified, Propose, NoMoreProposals, GateRead, GateHeal, Send, Result
<1>3. ASSUME Rollback PROVE LifetimesInv'
  BY <1>3 DEF Rollback, RollbackRead, RollbackHeal, RollbackEnter, RollbackRestore,
     RollbackConserve
<1>4. ASSUME NEW k \in Tasks, TaskStep(k) PROVE LifetimesInv'
  BY <1>4 DEF TaskStep, TaskRead, TaskHeal, TaskReset, TaskCount, TaskInsert
<1>5. ASSUME Watchdog \/ Resolve PROVE LifetimesInv'
  BY <1>5 DEF Watchdog, WatchdogRead, WatchdogInsert, Resolve, ResolveRead, ResolveInsert
<1>6. CASE UNCHANGED vars
  BY <1>6 DEF vars
<1> QED
  BY <1>1, <1>2, <1>3, <1>4, <1>5, <1>6 DEF Next

\* A proposal is decided only while there is room for its command.
LEMMA BudgetStep == IInv /\ [Next]_vars => BudgetInv'
<1> SUFFICES ASSUME IInv, [Next]_vars PROVE BudgetInv'
  OBVIOUS
<1> USE DEF IInv, LifetimesInv, BudgetInv, TypeOK, pending
<1>1. ASSUME Startup PROVE BudgetInv'
  BY <1>1 DEF Startup, StartupRead, StartupInsert, Crash
<1>2. ASSUME Serve PROVE BudgetInv'
  BY <1>2, SMTT(30) DEF Serve, Connect, Hello, Disconnect, Heartbeat, Snapshot, Verify,
     Verified, Propose, NoMoreProposals, GateRead, GateHeal, Send, Result
<1>3. ASSUME Rollback PROVE BudgetInv'
  BY <1>3 DEF Rollback, RollbackRead, RollbackHeal, RollbackEnter, RollbackRestore,
     RollbackConserve
<1>4. ASSUME NEW k \in Tasks, TaskStep(k) PROVE BudgetInv'
  BY <1>4 DEF TaskStep, TaskRead, TaskHeal, TaskReset, TaskCount, TaskInsert
<1>5. ASSUME Watchdog \/ Resolve PROVE BudgetInv'
  BY <1>5 DEF Watchdog, WatchdogRead, WatchdogInsert, Resolve, ResolveRead, ResolveInsert
<1>6. CASE UNCHANGED vars
  BY <1>6 DEF vars
<1> QED
  BY <1>1, <1>2, <1>3, <1>4, <1>5, <1>6 DEF Next

\* Only startup, the watchdog and resolve write a global row, which is then in
\* every view; and the watchdog, whose own write is the one pending, is alone
\* in writing Quarantine and Stopped.
LEMMA WatchdogStep == IInv /\ [Next]_vars => WatchdogInv'
<1> SUFFICES ASSUME IInv, [Next]_vars PROVE WatchdogInv'
  OBVIOUS
<1> USE DEF IInv, WatchdogInv, LifetimesInv, Connected, TypeOK, Row, Task, ledger, others,
            InsertGlobal, InsertFor, Unexpiring, RequiresManualResolution
<1>1. ASSUME Startup PROVE WatchdogInv'
  BY <1>1 DEF Startup, StartupRead, StartupInsert, Crash
<1>2. ASSUME Serve PROVE WatchdogInv'
  BY <1>2 DEF Serve, Connect, Hello, Disconnect, Heartbeat, Snapshot, Verify,
     Verified, Propose, NoMoreProposals, GateRead, GateHeal, Send, Result
<1>3. ASSUME Rollback PROVE WatchdogInv'
  BY <1>3 DEF Rollback, RollbackRead, RollbackHeal, RollbackEnter, RollbackRestore,
     RollbackConserve
<1>4. ASSUME NEW k \in Tasks, TaskStep(k) PROVE WatchdogInv'
  BY <1>4 DEF TaskStep, TaskRead, TaskHeal, TaskReset, TaskCount, TaskInsert
<1>5. ASSUME Watchdog PROVE WatchdogInv'
  BY <1>5 DEF Watchdog, WatchdogRead, WatchdogInsert
<1>6. ASSUME Resolve PROVE WatchdogInv'
  BY <1>6 DEF Resolve, ResolveRead, ResolveInsert
<1>7. CASE UNCHANGED vars
  BY <1>7 DEF vars
<1> QED
  BY <1>1, <1>2, <1>3, <1>4, <1>5, <1>6, <1>7 DEF Next

\* While a proposal is past the gate, every other writer of its simulation's
\* view writes Normal, Quarantine or Stopped: startup alone writes Cautious,
\* and the loop alone writes Rollback and Conservation.
LEMMA GateStep == IInv /\ [Next]_vars => OnlyEscalationOvertakesTheGate'
<1> SUFFICES ASSUME IInv, [Next]_vars PROVE OnlyEscalationOvertakesTheGate'
  OBVIOUS
<1> USE DEF IInv, OnlyEscalationOvertakesTheGate, LifetimesInv, Serving, Connected,
            TypeOK, Row, ledger, InsertGlobal, InsertFor, Unexpiring
<1>1. ASSUME Startup PROVE OnlyEscalationOvertakesTheGate'
  BY <1>1 DEF Startup, StartupRead, StartupInsert, Crash
<1>2. ASSUME Serve PROVE OnlyEscalationOvertakesTheGate'
  BY <1>2, SMTT(30) DEF Serve, Connect, Hello, Disconnect, Heartbeat, Snapshot, Verify,
     Verified, Propose, NoMoreProposals, GateRead, GateHeal, Send, Result,
     AuthorizesProposals
<1>3. ASSUME Rollback PROVE OnlyEscalationOvertakesTheGate'
  BY <1>3 DEF Rollback, RollbackRead, RollbackHeal, RollbackEnter, RollbackRestore,
     RollbackConserve
<1>4. ASSUME NEW k \in Tasks, TaskStep(k) PROVE OnlyEscalationOvertakesTheGate'
  BY <1>4, SMTT(30) DEF TaskStep, TaskRead, TaskHeal, TaskReset, TaskCount, TaskInsert
<1>5. ASSUME Watchdog PROVE OnlyEscalationOvertakesTheGate'
  BY <1>5 DEF Watchdog, WatchdogRead, WatchdogInsert
<1>6. ASSUME Resolve PROVE OnlyEscalationOvertakesTheGate'
  BY <1>6 DEF Resolve, ResolveRead, ResolveInsert
<1>7. CASE UNCHANGED vars
  BY <1>7 DEF vars
<1> QED
  BY <1>1, <1>2, <1>3, <1>4, <1>5, <1>6, <1>7 DEF Next

\* Until it is earned, no view is Normal and no write to Normal is pending.
LEMMA UnearnedStep == IInv /\ [Next]_vars => UnearnedInv'
<1> SUFFICES ASSUME IInv, [Next]_vars PROVE UnearnedInv'
  OBVIOUS
<1> USE DEF IInv, UnearnedInv, Earned, LifetimesInv, Serving, Connected, TypeOK, Task,
            FreeTask, Row, ledger, pending, history, others, InsertGlobal, InsertFor,
            Unexpiring, Saturating, Finish, Expired
<1>1. ASSUME Startup PROVE UnearnedInv'
  BY <1>1 DEF Startup, StartupRead, StartupInsert, Crash
<1>2. ASSUME Serve PROVE UnearnedInv'
  BY <1>2, SMTT(30) DEF Serve, Connect, Hello, Disconnect, Heartbeat, Snapshot, Verify,
     Verified, Propose, NoMoreProposals, GateRead, GateHeal, Send, Result,
     AuthorizesProposals
<1>3. ASSUME Rollback PROVE UnearnedInv'
  BY <1>3 DEF Rollback, RollbackRead, RollbackHeal, RollbackEnter, RollbackRestore,
     RollbackConserve
<1>4. ASSUME NEW k \in Tasks, TaskStep(k) PROVE UnearnedInv'
  <2>1. ASSUME NEW ok \in BOOLEAN, TaskRead(k, ok) PROVE UnearnedInv'
    <3>1. CASE Serving /\ ~Earned
      <4>1. view[hb[k].sim].to \in {"cautious", "quarantine", "stopped"}
        BY <2>1, <3>1 DEF TaskRead
      <4>2. hb'[k].pc \in {"free", "count", "reset"}
        BY <2>1, <4>1 DEF TaskRead
      <4>3. \A j \in Tasks \ {k} : hb'[j] = hb[j]
        BY <2>1 DEF TaskRead
      <4> QED
        BY <2>1, <3>1, <4>2, <4>3 DEF TaskRead
    <3>2. CASE ~(Serving /\ ~Earned)
      BY <2>1, <3>2 DEF TaskRead
    <3> QED
      BY <3>1, <3>2
  <2>2. ASSUME NEW ok \in BOOLEAN, TaskHeal(k, ok) PROVE UnearnedInv'
    BY <2>2 DEF TaskHeal
  <2>3. ASSUME TaskReset(k) PROVE UnearnedInv'
    BY <2>3 DEF TaskReset
  <2>4. ASSUME TaskCount(k) PROVE UnearnedInv'
    BY <2>4 DEF TaskCount
  <2>5. ASSUME NEW ok \in BOOLEAN, TaskInsert(k, ok) PROVE UnearnedInv'
    BY <2>5 DEF TaskInsert
  <2> QED
    BY <1>4, <2>1, <2>2, <2>3, <2>4, <2>5 DEF TaskStep
<1>5. ASSUME Watchdog PROVE UnearnedInv'
  BY <1>5 DEF Watchdog, WatchdogRead, WatchdogInsert
<1>6. ASSUME Resolve PROVE UnearnedInv'
  BY <1>6 DEF Resolve, ResolveRead, ResolveInsert
<1>7. CASE UNCHANGED vars
  BY <1>7 DEF vars
<1> QED
  BY <1>1, <1>2, <1>3, <1>4, <1>5, <1>6, <1>7 DEF Next

\* The tick stands still while the loop works on a line, and no other process
\* opens a window.
LEMMA HealStep == IInv /\ [Next]_vars => HealInv'
<1> SUFFICES ASSUME IInv, [Next]_vars PROVE HealInv'
  OBVIOUS
<1> USE DEF IInv, HealInv, LifetimesInv, Serving, Connected, TypeOK, Row, Task, ledger,
            InsertGlobal, InsertFor, Unexpiring, Expired
<1>1. ASSUME Startup PROVE HealInv'
  BY <1>1 DEF Startup, StartupRead, StartupInsert, Crash
<1>2. ASSUME Serve PROVE HealInv'
  BY <1>2, SMTT(30) DEF Serve, Connect, Hello, Disconnect, Heartbeat, Snapshot, Verify,
     Verified, Propose, NoMoreProposals, GateRead, GateHeal, Send, Result
<1>3. ASSUME Rollback PROVE HealInv'
  BY <1>3, SMTT(30) DEF Rollback, RollbackRead, RollbackHeal, RollbackEnter,
     RollbackRestore, RollbackConserve
<1>4. ASSUME NEW k \in Tasks, TaskStep(k) PROVE HealInv'
  BY <1>4, SMTT(30) DEF TaskStep, TaskRead, TaskHeal, TaskReset, TaskCount, TaskInsert
<1>5. ASSUME Watchdog PROVE HealInv'
  BY <1>5 DEF Watchdog, WatchdogRead, WatchdogInsert
<1>6. ASSUME Resolve PROVE HealInv'
  BY <1>6 DEF Resolve, ResolveRead, ResolveInsert
<1>7. CASE UNCHANGED vars
  BY <1>7 DEF vars
<1> QED
  BY <1>1, <1>2, <1>3, <1>4, <1>5, <1>6, <1>7 DEF Next

-----------------------------------------------------------------------------
\* The inductive invariant holds of every behaviour.
THEOREM Invariance == Spec => []IInv
<1>1. IInv /\ [Next]_vars => IInv'
  BY TypeStep, LifetimesStep, BudgetStep, WatchdogStep, UnearnedStep, HealStep,
     GateStep DEF IInv
<1> QED
  BY InitIInv, <1>1, PTL DEF Spec

\* Every variable of the safety net keeps its type.
THEOREM TypeCorrect == Spec => []TypeOK
<1>1. IInv => TypeOK
  BY DEF IInv
<1> QED
  BY Invariance, <1>1, PTL

\* No process hands out an authorization before it has counted its heartbeats
\* or a human resolved: a proposal past the gate found a Normal row, and until
\* then no such row can exist.
THEOREM AuthorizationEarned == Spec => []AuthorizationIsEarned
<1>1. IInv => AuthorizationIsEarned
  BY DEF IInv, UnearnedInv, Serving, AuthorizationIsEarned
<1> QED
  BY Invariance, <1>1, PTL

\* Only an escalation can fall between the gate and the send.
THEOREM GateOvertaken == Spec => []OnlyEscalationOvertakesTheGate
<1>1. IInv => OnlyEscalationOvertakesTheGate
  BY DEF IInv
<1> QED
  BY Invariance, <1>1, PTL

\* What escalate writes is severer than what it finds when it lands, for the
\* system and for each simulation: nobody else writes the manual states.
THEOREM EscalationsEscalate == Spec => EscalationsOnlyEscalate
<1>1. ASSUME IInv, WatchdogInsert(TRUE)
      PROVE  /\ Severer(global', global)
             /\ \A s \in Sims : Severer(view'[s].to, view[s].to)
  <2>1. wd \in {"quarantine", "stopped"} /\ global \notin {wd, "stopped"}
    BY <1>1 DEF WatchdogInsert, IInv, TypeOK, WatchdogInv
  <2>2. global' = wd /\ \A s \in Sims : view'[s].to = wd
    BY <1>1 DEF WatchdogInsert, InsertGlobal, Unexpiring
  <2>3. \A s \in Sims : view[s].to \in {"quarantine", "stopped"} => view[s].to = global
    BY <1>1 DEF IInv, WatchdogInv, RequiresManualResolution
  <2> QED
    BY <2>1, <2>2, <2>3 DEF Severer, RequiresManualResolution
<1>2. IInv /\ [Next]_vars
      => [WatchdogInsert(TRUE) => /\ Severer(global', global)
                                  /\ \A s \in Sims : Severer(view'[s].to, view[s].to)]_vars
  BY <1>1
<1> QED
  BY Invariance, <1>2, PTL DEF Spec, EscalationsOnlyEscalate

\* A rollback moves no other simulation and no global row: whoever writes for
\* all simulations writes neither Rollback nor Conservation, and the loop
\* writes those for its own connection.
THEOREM RollbackIsolated == Spec => RollbackStaysInItsSimulation
<1> DEFINE Isolated(s) ==
      /\ view'[s] # view[s]
      /\ view'[s].to \in {"rollback", "conservation"}
      => /\ s = conn
         /\ global' = global
         /\ \A t \in Sims \ {s} : view'[t] = view[t]
<1>1. IInv /\ [Next]_vars => [\A s \in Sims : Isolated(s)]_vars
  <2> SUFFICES ASSUME IInv, Next, NEW s \in Sims PROVE Isolated(s)
    OBVIOUS
  <2> USE DEF IInv, TypeOK, Row, Task, LifetimesInv, ledger, InsertGlobal, InsertFor,
              Unexpiring
  <2>1. ASSUME Startup PROVE Isolated(s)
    BY <2>1 DEF Startup, StartupRead, StartupInsert, Crash
  <2>2. ASSUME Serve PROVE Isolated(s)
    BY <2>2 DEF Serve, Connect, Hello, Disconnect, Heartbeat, Snapshot, Verify,
       Verified, Propose, NoMoreProposals, GateRead, GateHeal, Send, Result
  <2>3. ASSUME Rollback PROVE Isolated(s)
    BY <2>3 DEF Rollback, RollbackRead, RollbackHeal, RollbackEnter, RollbackRestore,
       RollbackConserve
  <2>4. ASSUME NEW k \in Tasks, TaskStep(k) PROVE Isolated(s)
    BY <2>4 DEF TaskStep, TaskRead, TaskHeal, TaskReset, TaskCount, TaskInsert
  <2>5. ASSUME Watchdog PROVE Isolated(s)
    BY <2>5 DEF Watchdog, WatchdogRead, WatchdogInsert
  <2>6. ASSUME Resolve PROVE Isolated(s)
    BY <2>6 DEF Resolve, ResolveRead, ResolveInsert
  <2> QED
    BY <2>1, <2>2, <2>3, <2>4, <2>5, <2>6 DEF Next
<1> QED
  BY Invariance, <1>1, PTL DEF Spec, RollbackStaysInItsSimulation

-----------------------------------------------------------------------------
(***************************************************************************)
(* What is kept of the promises in SafetyPromises.                         *)
(***************************************************************************)
\* No line a bridge sends, no task of its heartbeats and no crash takes a
\* simulation out of Quarantine or Stopped once the work begun before is done:
\* the gate's read and a task's decline what they find.  (A rollback's read does
\* not; the premise has no command out whose failure could cause one.)
THEOREM ManualHolds == Spec => ManualStatesHold
<1> DEFINE Stays(s) == Held(s) => Held(s)' \/ ResolveInsert(TRUE) \/ StartupInsert
<1>1. ASSUME IInv, Next, NEW s \in Sims, Held(s), ~ResolveInsert(TRUE), ~StartupInsert
      PROVE  Held(s)'
  <2>1. /\ RequiresManualResolution(view[s].to)
        /\ conn = s => /\ main \in {"hello", "idle", "verify", "propose", "gate"}
                       /\ outstanding = 0 /\ verifying = 0
        /\ \A k \in Tasks : hb[k].sim = s => hb[k].pc \notin {"heal", "count", "insert"}
    BY <1>1 DEF Held, NothingInFlight
  <2>2. TypeOK /\ LifetimesInv
    BY <1>1 DEF IInv
  <2> USE <1>1, <2>1, <2>2 DEF Held, NothingInFlight, TypeOK, Row, Task, FreeTask,
          LifetimesInv, Serving, Connected, ledger, pending, others, InsertGlobal,
          InsertFor, Unexpiring, RequiresManualResolution, Expired, Finish
  <2>3. ASSUME Startup PROVE Held(s)'
    BY <2>3 DEF Startup, StartupRead, Crash
  <2>4. ASSUME Serve PROVE Held(s)'
    BY <2>4, SMTT(60) DEF Serve, Connect, Hello, Disconnect, Heartbeat, Snapshot, Verify,
       Verified, Propose, NoMoreProposals, GateRead, GateHeal, Send, Result,
       AuthorizesProposals
  <2>5. ASSUME Rollback PROVE Held(s)'
    BY <2>5, SMTT(30) DEF Rollback, RollbackRead, RollbackHeal, RollbackEnter,
       RollbackRestore, RollbackConserve
  <2>6. ASSUME NEW k \in Tasks, TaskStep(k) PROVE Held(s)'
    BY <2>6, SMTT(30) DEF TaskStep, TaskRead, TaskHeal, TaskReset, TaskCount, TaskInsert
  <2>7. ASSUME Watchdog PROVE Held(s)'
    BY <2>7 DEF Watchdog, WatchdogRead, WatchdogInsert
  <2>8. ASSUME Resolve PROVE Held(s)'
    BY <2>8 DEF Resolve, ResolveRead, ResolveInsert
  <2> QED
    BY <2>3, <2>4, <2>5, <2>6, <2>7, <2>8 DEF Next
<1>2. IInv /\ [Next]_vars => [\A s \in Sims : Stays(s)]_vars
  BY <1>1
<1> QED
  BY Invariance, <1>2, PTL DEF Spec, ManualStatesHold

\* Neither the loop, however long its reads and writes take, nor a task of one
\* of the window's heartbeats ends a window before a heartbeat of its tick; nor
\* does a crash.  Only a row for the whole system or another rollback does.
THEOREM WindowHolds == Spec => WindowsHold
<1> DEFINE Lasts(s) == Cooling(s) =>
             \/ Cooling(s)' /\ view'[s] = view[s]
             \/ tick' >= view[s].expires
             \/ s = conn /\ view'[s].to \in {"rollback", "conservation"}
             \/ StartupInsert \/ WatchdogInsert(TRUE) \/ ResolveInsert(TRUE)
<1>1. ASSUME IInv, Next, NEW s \in Sims, Cooling(s), ~(tick' >= view[s].expires),
             ~(s = conn /\ view'[s].to \in {"rollback", "conservation"}),
             ~StartupInsert, ~WatchdogInsert(TRUE), ~ResolveInsert(TRUE)
      PROVE  Cooling(s)' /\ view'[s] = view[s]
  <2> DEFINE Goal == Cooling(s)' /\ view'[s] = view[s]
  <2>1. /\ view[s].to = "conservation"
        /\ tick < view[s].expires
        /\ \A k \in Tasks : hb[k].sim = s => /\ hb[k].pc \in {"read", "reset"}
                                             /\ hb[k].tick < view[s].expires
    BY <1>1 DEF Cooling
  <2>2. TypeOK /\ LifetimesInv /\ HealInv
    BY <1>1 DEF IInv
  <2> USE <1>1, <2>1, <2>2 DEF Cooling, TypeOK, Row, Task, FreeTask, LifetimesInv, HealInv,
          Serving, Connected, ledger, others, InsertFor, Unexpiring, Expired, Finish
  <2>3. ASSUME Startup PROVE Goal
    BY <2>3 DEF Startup, StartupRead, Crash
  <2>4. ASSUME Serve PROVE Goal
    BY <2>4, SMTT(60) DEF Serve, Connect, Hello, Disconnect, Heartbeat, Snapshot, Verify,
       Verified, Propose, NoMoreProposals, GateRead, GateHeal, Send, Result
  <2>5. ASSUME Rollback PROVE Goal
    BY <2>5, SMTT(30) DEF Rollback, RollbackRead, RollbackHeal, RollbackEnter,
       RollbackRestore, RollbackConserve
  <2>6. ASSUME NEW k \in Tasks, TaskStep(k) PROVE Goal
    <3>1. ASSUME NEW ok \in BOOLEAN, TaskRead(k, ok) PROVE Goal
      <4>1. hb[k].sim = s => ~Expired(view[s], hb[k].tick) /\ view[s].to # "cautious"
        OBVIOUS
      <4>2. hb'[k] = FreeTask \/ hb'[k] = [hb[k] EXCEPT !.pc = hb'[k].pc]
        BY <3>1 DEF TaskRead
      <4>3. hb'[k].sim = s => hb'[k].pc = "reset"
        BY <3>1, <4>1, <4>2 DEF TaskRead
      <4>4. \A j \in Tasks \ {k} : hb'[j] = hb[j]
        BY <3>1 DEF TaskRead
      <4> QED
        BY <3>1, <4>2, <4>3, <4>4 DEF TaskRead
    <3>2. ASSUME NEW ok \in BOOLEAN, TaskHeal(k, ok) \/ TaskInsert(k, ok) PROVE Goal
      BY <3>2 DEF TaskHeal, TaskInsert
    <3>3. CASE TaskReset(k) \/ TaskCount(k)
      BY <3>3 DEF TaskReset, TaskCount
    <3> QED
      BY <2>6, <3>1, <3>2, <3>3 DEF TaskStep
  <2>7. ASSUME Watchdog \/ Resolve PROVE Goal
    BY <2>7 DEF Watchdog, WatchdogRead, WatchdogInsert, Resolve, ResolveRead, ResolveInsert
  <2> QED
    BY <2>3, <2>4, <2>5, <2>6, <2>7 DEF Next
<1>2. IInv /\ [Next]_vars => [\A s \in Sims : Lasts(s)]_vars
  BY <1>1
<1> QED
  BY Invariance, <1>2, PTL DEF Spec, WindowsHold
=============================================================================
