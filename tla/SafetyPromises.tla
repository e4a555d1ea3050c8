--------------------------- MODULE SafetyPromises ---------------------------
(***************************************************************************)
(* What the documents promise of authorizations after an escalation and    *)
(* after a rollback, and SafetyNet does not keep.  Two history variables   *)
(* remember what a gate would have to wait for; they change nothing of     *)
(* what SafetyNet does.                                                    *)
(***************************************************************************)
EXTENDS SafetyNet

VARIABLES
  tripped,  \* the watchdog stopped the serving system, and no resolve since
  cooling   \* per simulation, the tick its last window runs to; 0 if none

hvars == <<vars, tripped, cooling>>

\* A window is remembered from its row on; a rollback whose rows the database
\* refused has none.  It is over when a tick reaches its end or a human resolves.
WindowAfter(s) ==
  IF view'[s] # view[s] /\ view'[s].to = "conservation" THEN view'[s].expires
  ELSE IF ResolveInsert(TRUE) \/ tick' >= cooling[s] THEN 0
  ELSE cooling[s]

HInit ==
  /\ Init
  /\ tripped = FALSE
  /\ cooling = [s \in Sims |-> 0]

HNext ==
  /\ Next
  /\ tripped' = IF WatchdogInsert(TRUE) THEN tripped \/ Serving
                ELSE tripped /\ ~ResolveInsert(TRUE)
  /\ cooling' = [s \in Sims |-> WindowAfter(s)]

HSpec == HInit /\ [][HNext]_hvars

Authorizes == main # "authorized" /\ main' = "authorized"

\* "Only a human running `orchestrator resolve` moves the system out of"
\* Quarantine and Stopped (safety_state.rs, requires_manual_resolution), "the
\* only way out of either, by design ... before the system resumes acting"
\* (main.rs, Resolve): a system that the watchdog stopped authorizes nothing
\* before a resolve.  It does after a heartbeat task that read Cautious before
\* the watchdog wrote, after a restart and two heartbeats, after the rollback of
\* a command already on the wire, and after whoever found an expired window.
ManualStatesNeedAHuman == [][Authorizes => ~tripped]_hvars

\* "After an automatic rollback, no proposal is authorized for this many ticks"
\* (constitution-0.1.yaml, conservation_ticks).  One is after a heartbeat task
\* that decided on an older row, and after a restart and two heartbeats.
CoolingOffIsKept == [][Authorizes => tick >= cooling[conn]]_hvars
=============================================================================
