\* Two clients of the world's process and a second process that restarts; a
\* stream that may keep one entry only; one fault.
SPECIFICATION FairSpec
CONSTANTS
  w = w  p = p
  k1 = k1  k2 = k2
  s1 = s1  s2 = s2
  None = None
  Procs = {w, p}
  World = w
  Conns = {k1, k2}
  Sessions = {s1, s2}
  Home <- MCHome
  Conn <- MCConn
  Sid <- MCSid
  MaxLen = 1
  Batch = 2
  MaxTick = 2
  MaxFaults = 1
  MaxRestarts = 1
INVARIANTS  DisorderNeedsFallback
PROPERTIES  EveryEntryArrives
CHECK_DEADLOCK FALSE
