SPECIFICATION EvaluationSpec
CONSTANTS
  Scenarios <- MCScenarios
  Default = "usual"
  SaveEvery = 2
  Retries = 2
  Ahead = 2
  MaxFaults = 2
INVARIANTS RegimesApart
 
CHECK_DEADLOCK FALSE
