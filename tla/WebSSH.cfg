SPECIFICATION Spec
CONSTANTS
  a1 = a1  a2 = a2  b1 = b1  ann = ann  ben = ben  None = None
  Thread = {1, 2}
  Sid = {a1, b1}
  User = {ann, ben}
  Who <- Login
  Staff = {ben}
  Revocable = {ben}
  Cluster = {k1}
  Session = {s1, s2}
  MaxSessions = 1
  MaxPerUser = 1
  MaxChunk = 1
  MaxEvents = 3
INVARIANTS NoHalfMade  
 
CHECK_DEADLOCK FALSE
