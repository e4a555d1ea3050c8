\* A documented promise that the code does not keep.
SPECIFICATION HSpec
CONSTANTS
  Sims = {s1}
  Tasks = {k1}
  NoSim = NoSim
  MaxTick = 1
  ConservationTicks = 1
  NeededHeartbeats = 2
  MaxOutstanding = 1
PROPERTY CoolingOffIsKept
