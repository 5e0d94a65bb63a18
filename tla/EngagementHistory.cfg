CONSTANTS
  Ids = {e1}
  EngagementRequests = {r1, r2}
  MaxArrays = 1
SPECIFICATION EngagementSpec
INVARIANT HistoryEndsAtPhase
