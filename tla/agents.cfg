CONSTANTS
  MaxSteps = 2
  NumRetries = 1
  HealthRetries = 1
  MaxCalls = 2
SPECIFICATION Spec
INVARIANTS ConversationSafe ServicesSafe
PROPERTY AgentsEnd
CHECK_DEADLOCK FALSE
