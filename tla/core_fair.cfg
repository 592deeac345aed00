SPECIFICATION FairSpec
CONSTANTS
  Director = Director
  Worker = Worker
  Subject = Worker
  Here = Here
  There = There
  Partner = {Director, Worker}
  Process = {Here}
  Owner <- OneOwner
  Directs <- DirectorDirects
  Traffic <- ResearchAndQuestions
  Uncancellable = {}
  Events = {"restart"}
  MaxSends = 2
  MaxErrors = 1
PROPERTIES OthersAreAnswered ArrivedAnswersRestart
CHECK_DEADLOCK FALSE
