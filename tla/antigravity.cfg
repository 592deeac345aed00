SPECIFICATION FairSpec
CONSTANTS
  r1 = r1
  r2 = r2
  r3 = r3
  r4 = r4
  Rule = {r1, r2, r3, r4}
  Grants <- ThreeRules
  MaxTurns = 2
  Requests = {{r1, r2, r4}}
  MaxCalls = 1
INVARIANTS TypedWhenApart FinishedMeansEnded EditorIsLeft
PROPERTIES AnswersAreOwn OnlyNamedRulesGo  TurnsAreSettled
CHECK_DEADLOCK FALSE
