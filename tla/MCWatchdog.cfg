\* One ride; two actions fit its window, the third takes a restart.
SPECIFICATION FairSpec
CONSTANTS
  Rides = {r1}
  Prices = {1, 2}
  MaxTick = 3
  MaxRows = 3
  Cooldown = 2
  MaxPerHour = 2
  WindowTicks = 2
  MaxReversals = 0
  RateThreshold = 2
  OutageThreshold = 2
INVARIANTS
  TypeOK
  CountsTurningPoints
  AlarmsTakeARestart
PROPERTIES
  InstabilityIsAnswered
  OutagesAreNoticed
