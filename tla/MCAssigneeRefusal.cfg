SPECIFICATION Spec
CONSTANTS
  Surfaces <- MCAssigneeSurface
  Calls <- MCCalls
  Host = {"site", "mirror", "inner", "proxied"}
  NoHost = "none"
  Address = {"public", "private"}
  Private = {"private"}
  Literal <- MCLiteral
  Proxied = {"proxied"}
  MaxRedirects = 1
INVARIANTS RefusalCanBeFollowed
CHECK_DEADLOCK FALSE
