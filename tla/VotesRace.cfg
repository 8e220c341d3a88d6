SPECIFICATION Spec
CONSTANTS
  h1 = h1  h2 = h2  None = None
  MaxVotes = 1
  Key = {vm}
  Student = {ann, bob}
  Teacher = {carl}
  Starter = {s1}
  Handler = {h1, h2}
  Revocable = {bob}
  Renewable = {vm}
  MaxIdent = 1
  MaxOld = 1
INVARIANTS
  ExecutionHasConsent
PROPERTIES
  DecisionIsFinal 
