SPECIFICATION FairQueueSpec
CONSTANTS
  c1 = c1
  c2 = c2
  CPUs <- MCCPUs
  Modulus = 2
  Units = 2
  QSize = 3
  Jobs <- MCJobs
INVARIANTS
  QueueTypeOK
  FlushComplete
  CompletionAfterExecution
  QueuesDrained
PROPERTIES
  FlushReturns
