SPECIFICATION Spec
CONSTANTS
  Window = 1
  Capacity = 3
  Client = {c1, c2}
  MaxToken = 6
  MaxTime = 2
  Lifetimes = {1, 3}
  None = None
INVARIANTS TypeOK OneAnswer
PROPERTY ReplayPromise
SYMMETRY Symmetric
