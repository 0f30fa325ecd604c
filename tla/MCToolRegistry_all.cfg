SPECIFICATION FairSpec
CONSTANTS
  Callers = {c1, c2}
  Closer = Closer
  Nobody = Nobody
  Kinds <- AllKinds
  Wire = 1
  MaxId = 2
  MaxInbox = 1
  Tools = {t1}
  MaxJobs = 2
INVARIANTS Delivery NothingLeaks
PROPERTIES EntryStable JobsEnd
CHECK_DEADLOCK FALSE
