SPECIFICATION Spec
CONSTANTS
  a1 = a1
  a2 = a2
  Agents = {a1, a2}
  Savers = {"tick"}
  Cap = 2
  MaxFacts = 3
  Quota <- MCQuota
  MaxTold <- MCMaxTold
  MaxAborts = 1
  MaxLives = 1
CHECK_DEADLOCK FALSE
PROPERTY FrontDropKeepsMidSaveFacts
