SPECIFICATION FairSpec
CONSTANTS
  Thread <- MCThread
  Empty = 9
  Rank <- MCRank
  Inputs <- MCInputs
  JobsRange <- MCJobs
  HostParallelism = 2
INVARIANTS
  TypeOK
  EvaluatedOnce
PROPERTIES
  ImplementsPromise
  Terminates
