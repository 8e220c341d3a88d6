SPECIFICATION Spec
CONSTANTS
  c1 = c1
  c2 = c2
  c3 = c3
  d1 = d1
  d2 = d2
  p1 = p1
  None = None
  Creator <- ThreeCreators
  Queued <- ThreeCreators
  Deleter <- TwoDeleters
  Deployer <- Nobody
  Size = 2
  MaxVm = 4
  Admin = FALSE
  Faults <- DeletingFaults
INVARIANTS NothingIsStranded TableAllocates
PROPERTIES NoForeignRelease
SYMMETRY Symmetry
CHECK_DEADLOCK FALSE
