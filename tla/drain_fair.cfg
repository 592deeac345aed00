SPECIFICATION FairSpec
CONSTANTS
  Partner = {p}
  Thread = {t1, t2}
  NoThread = NoThread
  Events = {"deliver", "database", "crash"}
  MaxTasks = 2
PROPERTY WorkIsAttended
