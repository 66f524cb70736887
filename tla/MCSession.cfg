SPECIFICATION FairSpec
CONSTANTS
  Unit <- MCUnit
  Groups <- MCGroups
  Settings <- MCSettings
INVARIANTS
  TypeOK
  ChainLinked
  SettledOnChain
  SteadyReplays
PROPERTIES
  ImplementsReduction
  Finishes
