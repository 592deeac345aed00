SPECIFICATION Spec
CONSTANTS
  Rank <- TiedRank
  Interruptible = TRUE
  Lengths = {1, 2, 3, 4}
INVARIANTS
  TypeOK
  OnePausedWorkRow
  AnswerIsTaken
  FreshLabelFirst
PROPERTY InterruptionHolds
