SPECIFICATION FairSpec
CONSTANTS
  j1 = j1
  j2 = j2
  NoJob = NoJob
  Jobs = {j1, j2}
  Greedy = {j1, j2}
  Strict = {j1, j2}
  Readers = {j1}
  MaxNew = 2
  Capacity = 1
  MaxSessions = 2
  QueueLimit = 2
  Batching = TRUE
  Faults = {}
PROPERTIES
  ReadersAreServed
