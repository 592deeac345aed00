SPECIFICATION Spec
CONSTANTS
  Director = Director
  Worker = Worker
  Subject = Worker
  Here = Here
  There = There
  Partner = {Director, Worker}
  Process = {Here}
  Owner <- OneOwner
  Directs <- DirectorDirects
  Traffic <- ResearchAndQuestions
  Uncancellable = {}
  Events = {}
  MaxSends = 2
  MaxErrors = 1
INVARIANT AnswersEndedTurns
CHECK_DEADLOCK FALSE
