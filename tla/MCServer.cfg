SPECIFICATION Spec
CONSTANTS
  Call = {"c1", "c2", "c3"}
  Job <- MCJob
  Workspace = {"w1", "w2"}
  NoWorkspace = "none"
  Environment = "w1"
  EnvironmentKey = "environment"
  MaxGeneration = 2
  Field = {"assignees", "labels"}
  Value = {"a", "b"}
  MaxTypes = 3
  Paged = FALSE
  Requests <- MCRequests
INVARIANTS TypeOK RightWorkspace ActsAsItself KeyIsNotShared ResolvedIsUsable
PROPERTIES EditsAddUp NoSecondType
CHECK_DEADLOCK FALSE
