SPECIFICATION StaffedSpec
CONSTANTS
  Code = Code
  Lab = Lab
  Lab2 = Lab2
  Chat = Chat
  Chat2 = Chat2
  Project = {Code, Lab, Lab2, Chat, Chat2}
  SourceOf <- Sources
  LiveLimit = 3
  MaxBudget = 1
  MaxId = 7
  MaxCalls = 4
  MaxWork = 2
INVARIANTS OneScienceSource LineageIsALine BudgetIsKept NobodyWaitsInACircle
PROPERTIES VanishingTells
CHECK_DEADLOCK FALSE
