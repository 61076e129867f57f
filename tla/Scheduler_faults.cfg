SPECIFICATION Spec
CONSTANTS
  j1 = j1
  j2 = j2
  NoJob = NoJob
  Jobs = {j1, j2}
  Greedy = {j1, j2}
  Strict = {j1}
  Readers = {j1, j2}
  MaxNew = 2
  Capacity = 1
  MaxSessions = 2
  QueueLimit = 1
  Batching = TRUE
  Faults = {"timeout", "create", "reset", "prefill", "decode", "group", "add", "step"}
INVARIANTS
  TypeOK
  PoolConserved
  NoSoloUseInGroup
  StreamInOrder
  EndingTold
  NoDecodePastLimit
  EveryQuantumServes
  CancelWithinOneStep
  StreamGaugeExact
PROPERTIES
  StreamProtocol
  AdmissionGated
