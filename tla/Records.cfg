\* Two annual plans under one strategic plan, one engagement, the map and the
\* calendar, and three items of evidence, each under two requests at a time.
SPECIFICATION MCSpec
CONSTANTS
  s1 = s1
  a1 = a1
  a2 = a2
  y1 = y1
  u1 = u1
  none = none
  i1 = i1
  i2 = i2
  i3 = i3
  r1 = r1
  r2 = r2
  Strategic <- StrategicPlans
  Annual <- AnnualPlans
  Periods = {y1}
  Approvers = {u1}
  Nobody = none
  Requests <- TwoRequests
  MaxPatches = 2
  Ids = {s1}
  EngagementRequests <- TwoRequests
  MaxArrays = 3
  BusinessUnits <- TwoUnits
  ControlDomains <- TwoDomains
  Names = {"a", "b"}
  Matrices <- FewMatrices
  Calendars <- FewCalendars
  Patches <- TwoRequests
  EvidenceIds <- ThreeItems
  Batches <- FewBatches
  Ratings = {"informational", "low"}
  Ingests <- TwoRequests
SYMMETRY Symmetry
INVARIANTS StoredWasSignedOff VersionsWereAnswered YearSharedOnlyAfterRevival StoredIsOneRun RecordsAreKept
PROPERTY EvidenceIsWeighed
