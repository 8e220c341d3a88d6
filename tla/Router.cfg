SPECIFICATION Spec
CONSTANTS
  k1 = k1  k2 = k2  k3 = k3  x1 = x1  Lan = Lan  None = None
  Cluster = {k1, k2}
  Visitor = {x1}
  List = {"device", "redirect"}
  MaxFail = 1
SYMMETRY Symmetry
INVARIANTS BystandersAreIntact NothingIsLeft
CHECK_DEADLOCK FALSE
