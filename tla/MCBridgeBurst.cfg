SPECIFICATION Spec
CONSTANTS
  Call = {c1, c2}
  Replica = {p1}
  User = {u1}
  Deployments = {TRUE}
  CacheFaults = FALSE
  PlaneFaults = FALSE
  MaxKey = 3
  NoUser = NoUser
  NoReplica = NoReplica
INVARIANTS OneMintPerBurst
