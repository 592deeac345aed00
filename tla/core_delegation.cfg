SPECIFICATION Spec
CONSTANTS
  Director = Director
  Worker = Worker
  Subject = Worker
  Here = Here
  There = There
  Partner = {Director, Worker}
  Process = {Here}
  Owner <- OneOwner
  Directs <- DirectorDirects
  Traffic <- Delegation
  Uncancellable = {Worker}
  Events = {"deliver", "stop", "approval"}
  MaxSends = 2
  MaxErrors = 1
INVARIANTS TypeOK OnePlace InterruptedHoldsNothing SummaryMarkers AnsweredOnce
CHECK_DEADLOCK FALSE
PROPERTIES SubjectIsAQueue OnlyOwedAnswers
