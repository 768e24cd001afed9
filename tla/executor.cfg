\* Three tasks, one or two workers, and another process that interferes once.
SPECIFICATION FairRun
CONSTANTS
  t1 = t1
  t2 = t2
  t3 = t3
  Tasks <- MCTasks
  OnDisk <- MCOnDisk
  Configs <- MCConfigs
  MaxVisits = 1
INVARIANTS RunTypeOK ReportedOnce SuccessIsComplete ScoredCompleted
PROPERTIES NoStartAfterAbort RunEnds
