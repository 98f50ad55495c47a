SPECIFICATION Spec
CONSTANTS
  Countries = {1, 2, 3}
  Deserted = {2}
  Attempts = 2
  Kinds = {"weather", "astronomy"}
  Stations = {s1}
  MaxKills = 1
INVARIANTS PlacedOnce LinkedUnlessHalved
 
