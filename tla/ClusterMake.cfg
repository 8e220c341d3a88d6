SPECIFICATION Spec
CONSTANTS
  c1 = c1
  c2 = c2
  c3 = c3
  d1 = d1
  d2 = d2
  p1 = p1
  None = None
  Creator <- TwoCreators
  Queued <- OneCreator
  Deleter <- Nobody
  Deployer <- OneDeployer
  Size = 1
  MaxVm = 2
  Admin = TRUE
  Faults <- MakingFaults
INVARIANTS NothingIsStranded RowsTellTheTruth
PROPERTIES RollbackReleasesOwn RequestsEnd
CHECK_DEADLOCK FALSE
