\* A sync loop and two POSTs; directories of three accounts, Security Hub with
\* two findings, a scanner of three hosts, two exports to ServiceNow.
SPECIFICATION MCSpec
CONSTANTS
  loop = loop
  p1 = p1
  p2 = p2
  Loop <- loop
  Posts <- TwoPosts
  Mapped <- MfaProvisionMfa
  FailureThreshold = 2
  RecoveryTimeout = 2
  MaxFails = 2
  Accounts <- ThreeAccounts
  Events <- TwoEvents
  MaxChanges = 4
  UserPage = 2
  LogPage = 1
  Shapes <- FiveShapes
  Limits = {0, 1}
  HubIds <- AnyText
  MaxFindings = 2
  HubMaxPage = 12
  HubPage = 2
  Providers = {"qualys", "tenable", "crowdstrike", "nessus"}
  Hosts = {0, 1, 2}
  Reports <- ThreeReports
  MaxMoves = 5
  MaxPage = 100
  DefaultPage = 2
  Exporters <- TwoPosts
  Requests <- FewBodies
  MaxRecords = 3
INVARIANTS FilteringIsBounded CircuitAgrees SnapshotIsExplained ReadingsAgree ScanIsExplained ExportIsExplained
PROPERTY Recovers
