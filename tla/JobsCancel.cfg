SPECIFICATION Spec
CONSTANTS
  f1 = f1  f2 = f2  teacher = teacher
  wCreate = wCreate  wDelete = wDelete  wDeploy = wDeploy  wDeploy2 = wDeploy2
  None = None
  Task = {t1, t2}
  Caller = {c1}
  Name = {n1}
  Fingerprint = {f1}
  Legacy = {}
  Actor = {teacher, admin}
  Admin = {admin}
  Owner <- OwnerOf
  Operation = {"deploy"}
  Revocable = {}
  Cancellers = {teacher}
  Queue = {"create", "deploy"}
  Worker = {wCreate, wDeploy}
  Serves <- ServesChain
  EnvRows = {}
  Expire = 1
INVARIANTS
  CancellationHolds
PROPERTIES
  OutcomeIsFinal
