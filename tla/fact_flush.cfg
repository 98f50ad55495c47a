\* One saver; the agent a1 can fill its buffer beyond its cap while a2 learns
\* one fact; one failed save and one restart or reset.
SPECIFICATION FairSpec
CONSTANTS
  a1 = a1  a2 = a2
  Agents = {a1, a2}
  Savers = {"tick"}
  Cap = 2
  MaxFacts = 3
  Quota <- MCQuota
  MaxTold <- MCMaxTold
  MaxAborts = 1
  MaxLives = 1
INVARIANTS NoLossWithoutOverflow BufferMatchesKnowledge DuplicatesNeedLostAck
PROPERTIES ImplementsDurableMemory 
CHECK_DEADLOCK FALSE
