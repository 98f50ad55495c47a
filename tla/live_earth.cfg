SPECIFICATION Spec
CONSTANTS
  Domains = {"weather", "wind", "geography"}
  Period <- MCPeriod
  Weathered = {"home"}
  Windy = {"home"}
  Homes = {"home"}
  Places = {"home", "far"}
  TTL = 1
INVARIANTS HonestAge 
PROPERTIES HomesStayLive
