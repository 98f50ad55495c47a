\* One running agent, two facts, two fact numbers.
SPECIFICATION Spec
CONSTANTS
    Agents = {"now"}
    Deployed = {"now"}
    Facts = {"p", "r"}
    Plain = {"p"}
    Ids = {1, 2}
    Legacy <- MCLegacy
    Self = "self"
    NoFact = "none"
    PlainCap = 1
INVARIANTS LegacyKept BackfilledOnce EmptyNeedsOutage
