SPECIFICATION FairSpec
CONSTANTS
  a1 = a1
  a2 = a2
  a3 = a3
  Agent = {a1, a2, a3}
  Root = a1
  Director = Director
  Graphs <- Circles
  Sendable = {"RESEARCH", "QUERY"}
  MaxCalls = 2
INVARIANTS YesOverlooksNothing
PROPERTIES NoHasAReason WalkEnds
CHECK_DEADLOCK FALSE
