\* Two runs; a queue so small that it overflows.
SPECIFICATION DashboardSpec
CONSTANTS
    s1 = s1
    s2 = s2
    SessionIds <- MCIds
    Planned <- MCPlanned
    Outcomes <- MCOutcomes
    MaxReactions = 1
    Workers = 2
    Capacity = 2
    Batch = 2
    Burst = 2
INVARIANT ViewsAgree
PROPERTY RunSettles
