\* Two simulations that take turns on the connection; two heartbeat tasks race the loop, the watchdog and resolve.
SPECIFICATION Spec
CONSTANTS
  Sims = {s1, s2}
  Tasks = {k1, k2}
  NoSim = NoSim
  MaxTick = 1
  ConservationTicks = 1
  NeededHeartbeats = 2
  MaxOutstanding = 1
SYMMETRY Symmetry
INVARIANTS
  TypeOK
  AuthorizationIsEarned
  OnlyEscalationOvertakesTheGate
PROPERTIES
  EscalationsOnlyEscalate
  ManualStatesHold
  WindowsHold
  RollbackStaysInItsSimulation
