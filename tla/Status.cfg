SPECIFICATION Spec
CONSTANTS
  m1 = m1  m2 = m2  s1 = s1  s2 = s2  c1 = c1  None = None
  Machine = {m1, m2}
  Server = {s1, s2}
  Home <- Apart
  Commander = {c1}
  MaxChange = 2
  MaxCommand = 1
 
PROPERTIES CacheConverges
CHECK_DEADLOCK FALSE
