\* Two proposals, for one ride or for two, and two ticks.
SPECIFICATION Spec
CONSTANTS
  Rides = {r1, r2}
  MaxProposals = 2
  MaxTick = 1
  MaxQueue = 1
  MaxBuffered = 1
  Cooldown = 1
  SnapshotMaxAge = 0
SYMMETRY RideSymmetry
INVARIANTS
  TypeOK
  ExecutesWhatTheLedgerHolds
  ResultsTellWhatHappened
  JudgedAfterItsEffect
  RollbackUndoesTheCommand
