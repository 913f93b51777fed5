SPECIFICATION FairSpec
CONSTANTS
  Tasks = {t1, t2}
  t1 = t1
  t2 = t2
  MaxEvents = 2
  MaxCloses = 2
  MaxLost = 1
  MaxRevokes = 0
PROPERTIES AllowedPeerReconnects WorkingLinkIsReported
CHECK_DEADLOCK FALSE
