SPECIFICATION Spec
CONSTANTS
  Request = {r1, r2}
  Background = {b1}
  Replica = {p1}
  Client = {c1}
  Session = {s1}
  NoClient = NoClient
  NoSession = NoSession
  Nobody = Nobody
  Lifetime = 3
  Window = 1
  Capacity = 2
  MaxToken = 3
  MaxUpstream = 3
  MaxTime = 1
  UpstreamRotates = TRUE
  AnswersLost = FALSE
  StoreFaults = TRUE
  Crashes = FALSE
INVARIANTS OneUpstreamCall
