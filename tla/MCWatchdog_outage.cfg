\* The smallest instance in which an outage lasts.
SPECIFICATION FairSpec
CONSTANTS
  Rides = {r1}
  Prices = {1, 2}
  MaxTick = 3
  MaxRows = 1
  Cooldown = 2
  MaxPerHour = 2
  WindowTicks = 2
  MaxReversals = 0
  RateThreshold = 2
  OutageThreshold = 2
PROPERTY OutageStops
