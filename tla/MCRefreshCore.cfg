SPECIFICATION Spec
CONSTANTS
  Request = {r1, r2, r3}
  Background = {b1}
  Replica = {p1}
  Client = {c1}
  Session = {s1}
  NoClient = NoClient
  NoSession = NoSession
  Nobody = Nobody
  Lifetime = 3
  Window = 0
  Capacity = 2
  MaxToken = 4
  MaxUpstream = 4
  MaxTime = 1
  UpstreamRotates = TRUE
  AnswersLost = FALSE
  StoreFaults = FALSE
  Crashes = FALSE
INVARIANTS TypeOK OneUpstreamCall NothingSpentIsPresented OneSuccessor RejectionIsDeserved QueuedDuplicatesReplayed NoGrantLost ReplayEndsOnLiveToken
SYMMETRY Symmetric
