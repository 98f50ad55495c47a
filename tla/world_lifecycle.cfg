\* Two overlapping requests, a save every second tick, two starts in each of
\* two lives of the process, one failure.
SPECIFICATION FairSpec
CONSTANTS
  Callers = {1, 2}
  Domains = {weather}
  SaveEvery = 2
  MaxTick = 3
  MaxStarts = 2
  MaxCrashes = 1
  MaxCalls = 2
  MaxFails = 1
INVARIANTS OneHeartbeat RepeatedTicksBounded PausedIsDurable
PROPERTIES StopSettles
CHECK_DEADLOCK FALSE
