SPECIFICATION Spec
CONSTANTS
  f1 = f1  f2 = f2  teacher = teacher
  wCreate = wCreate  wDelete = wDelete  wDeploy = wDeploy  wDeploy2 = wDeploy2
  None = None
  Task = {t1, t2, t3}
  Caller = {c1, c2}
  Name = {n1}
  Fingerprint = {f1}
  Legacy = {}
  Actor = {teacher}
  Admin = {}
  Owner <- OwnerOf
  Operation = {"delete"}
  Revocable = {}
  Cancellers = {}
  Queue = {"delete"}
  Worker = {wDelete}
  Serves <- DeleteOnly
  EnvRows = {}
  Expire = 1
SYMMETRY CallerSymmetry
INVARIANTS
  IInv OneChildPerParent SubmissionSurvivesCleanup NoStrandedReservation
