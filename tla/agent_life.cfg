\* One or two agents on a line of three places in two countries.
SPECIFICATION FairSpec
CONSTANTS
  Places <- MCPlaces
  Country <- MCCountry
  Quality <- MCQuality
  Roads <- MCRoads
  BirthEnergy = {75000}
  PoolMin = 2
  GoalLife = 2
  SaveEvery = 2
  Configured = {1, 2}
  MaxTick = 6
  MaxFaults = 2
INVARIANTS NeverExhausted  EveryArrivalLearned PlacementCovers
PROPERTIES JourneysEnd
CHECK_DEADLOCK FALSE
