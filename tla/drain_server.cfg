SPECIFICATION Spec
CONSTANTS
  Partner = {p}
  Thread = {t1, t2}
  NoThread = NoThread
  Events = {"deliver", "database", "stop", "crash"}
  MaxTasks = 2
SYMMETRY ThreadSymmetry
INVARIANTS TypeOK LiveIsRegistered ArmedWorkHasThread
