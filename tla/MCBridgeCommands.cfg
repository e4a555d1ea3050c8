\* Three requests, for one key or for two, and one break.
SPECIFICATION FairSpec
CONSTANTS
  r1 = r1
  r2 = r2
  k1 = k1
  k2 = k2
  RideIds = {r1, r2}
  Keys = {k1, k2}
  None = None
  Commands <- SomeCommands
  StartParks <- OnePark
  MaxRequests = 3
  MaxBreaks = 1
INVARIANTS
  TypeOK
  LinesSurviveChunks
  ReplaysAreNoOps
  AnswersAreTrue
PROPERTIES
  ObservedAsCommanded
  SteadyLinkAnswers
