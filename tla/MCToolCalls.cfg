SPECIFICATION Spec
CONSTANTS
  Surfaces <- MCSurfaces
  Calls <- MCCalls
  Host = {"site", "mirror", "inner", "proxied"}
  NoHost = "none"
  Address = {"public", "private"}
  Private = {"private"}
  Literal <- MCLiteral
  Proxied = {"proxied"}
  MaxRedirects = 1
INVARIANTS TypeOK RefusalChangesNothing NothingLacking Correctable WithinHints OnlyEnabledReached NothingIgnored HalfDoneIsKnown OnlyGlobalReached
PROPERTIES EveryCallAnswered
CHECK_DEADLOCK FALSE
