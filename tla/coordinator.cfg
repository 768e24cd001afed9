SPECIFICATION FairMonitor
CONSTANTS
  Tools = {t1, t2}
  MaxTurns = 3
  MaxCalls = 2
INVARIANTS MonitorTypeOK EachActionOnce NoneMeansOver
PROPERTIES TurnsKept Shutdown
