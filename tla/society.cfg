SPECIFICATION SocietySpec
CONSTANTS
  N = 3
  Places = {1, 2}
  Reach <- MCReach
  Sourced = {1}
  Recent = 3
  Shared = 2
  Dedupe = 5
  Memory = 12
  SaveEvery = 2
  SpecialistEvery = 2
  CentralityEvery = 2
  Modes = {FALSE, TRUE}
  MaxTick = 3
  MaxChanges = 1
  MaxFaults = 1
INVARIANTS   OneEncounterPerStay
CHECK_DEADLOCK FALSE
