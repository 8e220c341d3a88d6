SPECIFICATION Spec
CONSTANTS
  h1 = h1  h2 = h2  None = None
  MaxVotes = 2
  Key = {vm}
  Student = {ann, bob}
  Teacher = {}
  Starter = {s1, s2}
  Handler = {h1}
  Revocable = {}
  Renewable = {}
  MaxIdent = 0
  MaxOld = 0
INVARIANTS
  KeysMatchVotes
