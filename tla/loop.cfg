\* A session under the default tracker: limits of three steps, four actions.
CONSTANTS
  MaxSteps = 3
  MaxActions = 4
  MaxParallel = 2
  Limited = TRUE
  Horizon = 5
SPECIFICATION FairSpec
INVARIANTS TypeOK LimitRespected RecordedOnce OutcomeFaithful ClosedAtEnd
PROPERTIES FollowsProtocol Terminates
