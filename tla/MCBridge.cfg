SPECIFICATION Spec
CONSTANTS
  Call = {c1, c2}
  Replica = {p1, p2}
  User = {u1, u2}
  Deployments = {FALSE, TRUE}
  CacheFaults = TRUE
  PlaneFaults = TRUE
  MaxKey = 3
  NoUser = NoUser
  NoReplica = NoReplica
INVARIANTS TypeOK KeysStayWithTheirUser OnlyDeadKeysReplaced ActedOnOnce HealsUnlessDisturbed MintLeavesOneKey
SYMMETRY Symmetric
