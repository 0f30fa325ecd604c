SPECIFICATION FairSpec
CONSTANTS
  Callers = {c1, c2}
  Nobody = Nobody
  Sources <- BothSources
  EventBuffer = 1
  MaxVersion = 3
  MaxNoise = 1
INVARIANTS RefreshedIsFresh RepliesExpected
PROPERTIES NeverOlder Settles
