SPECIFICATION Spec
CONSTANTS
  Director = Director
  Worker = Worker
  Subject = Worker
  Here = Here
  There = There
  Partner = {Director, Worker}
  Process = {Here}
  Owner <- OneOwner
  Directs <- DirectorDirects
  Traffic <- ResearchOnly
  Uncancellable = {}
  Events = {"archive", "batch"}
  MaxSends = 3
  MaxErrors = 1
INVARIANTS OnePlace CapHolds
CHECK_DEADLOCK FALSE
PROPERTIES ArchiveTellsCallers BatchStopsSender
