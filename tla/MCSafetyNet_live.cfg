\* One simulation, one heartbeat task and two commands under fairness.
SPECIFICATION FairSpec
CONSTANTS
  Sims = {s1}
  Tasks = {k1}
  NoSim = NoSim
  MaxTick = 2
  ConservationTicks = 1
  NeededHeartbeats = 2
  MaxOutstanding = 2
PROPERTIES
  CautiousClears
  ConservationClears
