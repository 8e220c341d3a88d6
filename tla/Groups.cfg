SPECIFICATION Spec
CONSTANTS
  ad = ad  t1 = t1  s1 = s1  s2 = s2  c1 = c1  c2 = c2  g1 = g1  g2 = g2  k1 = k1  k2 = k2
  n1 = n1  r1 = r1  r2 = r2  None = None
  Admin = {ad}
  Teacher = {t1}
  Student = {s1, s2}
  Class = {c1, c2}
  Group = {g1, g2}
  Cluster = {k1}
  GroupName = {n1}
  MaxSeats = 1
  Request = {r1, r2}
  MaxBegin = 3
SYMMETRY Symmetry
INVARIANTS  SharedNumberMeansOverlap AccessFollowsClass
PROPERTIES AnsweredMeansAsked
CHECK_DEADLOCK FALSE
