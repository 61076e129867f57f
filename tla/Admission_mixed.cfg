SPECIFICATION FairSpec
CONSTANTS
  s1 = s1
  s2 = s2
  s3 = s3
  g1 = g1
  NoJob = NoJob
  Jobs = {s1, s2, s3, g1}
  Strict = {s1, s2, s3}
  QueueLimit = 2
CHECK_DEADLOCK FALSE
INVARIANTS
  TypeOK
  WaitingExact
  LimitKept
  GaugeSettles
PROPERTIES
  AdmissionIsAtomic
  SubmissionReturns
