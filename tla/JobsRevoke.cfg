SPECIFICATION Spec
CONSTANTS
  f1 = f1  f2 = f2  teacher = teacher
  wCreate = wCreate  wDelete = wDelete  wDeploy = wDeploy  wDeploy2 = wDeploy2
  None = None
  Task = {t1, t2}
  Caller = {c1}
  Name = {n1}
  Fingerprint = {f1, f2}
  Legacy = {f2}
  Actor = {teacher}
  Admin = {}
  Owner <- OwnerOf
  Operation = {"deploy"}
  Revocable = {teacher}
  Cancellers = {}
  Queue = {"deploy"}
  Worker = {wDeploy, wDeploy2}
  Serves <- DeployPool
  EnvRows <- RowsReused
  Expire = 1
INVARIANTS
  NoStuckJob  JobRunsOnce
PROPERTIES
  ProtectionIsReleased ImplementsContract
