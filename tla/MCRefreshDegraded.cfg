SPECIFICATION FairSpec
CONSTANTS
  Request = {r1, r2}
  Background = {b1}
  Replica = {p1}
  Client = {c1, c2}
  Session = {s1}
  NoClient = NoClient
  NoSession = NoSession
  Nobody = Nobody
  Lifetime = 3
  Window = 1
  Capacity = 1
  MaxToken = 2
  MaxUpstream = 1
  MaxTime = 0
  UpstreamRotates = FALSE
  AnswersLost = TRUE
  StoreFaults = TRUE
  Crashes = TRUE
INVARIANTS RejectionIsDeserved AnswersStayWithTheirClient
PROPERTY EveryRequestAnswered
