SPECIFICATION Spec
CONSTANTS
  Thread = {t1, t2, t3}
  TTL = 2
  FetchTime = 1
  Forces = {FALSE, TRUE}
  MaxVersion = 3
  MaxTime = 6
INVARIANTS TypeOK NothingOutdated
PROPERTIES NeverGoesBack
