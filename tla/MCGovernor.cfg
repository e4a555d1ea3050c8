\* A day of two hours, and a clock that outlasts it.
SPECIFICATION Spec
CONSTANTS
  Rides = {r1, r2}
  Confidences = {0, 1}
  Prices = {0, 1}
  MinConfidence = 1
  PriceMin = 1
  PriceMax = 1
  MaxTick = 2
  MaxNow = 5
  Hour = 2
  Day = 4
  MaxPerHour = 2
  DailyBudget = 3
  Cooldown = 2
SYMMETRY RideSymmetry
INVARIANTS
  TypeOK
  HourlyLimit
  DailyLimit
  RidesRest
PROPERTIES
  AnswersAsTheHistorySays
