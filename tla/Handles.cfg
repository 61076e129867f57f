SPECIFICATION FairSpec
CONSTANTS
  None = None
  Sessions = {s1, s2, s3}
  MaxSessions = 2
CHECK_DEADLOCK FALSE
INVARIANTS
  CallsLegal
  QuotaExact
PROPERTIES
  OwnQuotaSuffices
  NothingLeaks
