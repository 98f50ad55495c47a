SPECIFICATION FairSpec
CONSTANTS
  Callers = {l1, l2}
  Caps <- MCCaps
  TTL = 1
  MaxResolving = 2
  Batch = 2
  MaxNow = 1
  MaxVer = 2
  MaxAnnounced = 2
  MaxTrouble = 1
INVARIANTS OvershootBounded AskedOncePerTTL ProcessedOnce LayerHonest BudgetComesBack
PROPERTIES ChargedThroughLimiter 
CHECK_DEADLOCK FALSE
