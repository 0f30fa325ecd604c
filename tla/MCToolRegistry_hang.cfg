SPECIFICATION FairSpec
CONSTANTS
  Callers = {c1}
  Closer = Closer
  Nobody = Nobody
  Kinds <- AllKinds
  Wire = 1
  MaxId = 1
  MaxInbox = 1
  Tools = {t1}
  MaxJobs = 1
PROPERTY RequestsFail
CHECK_DEADLOCK FALSE
