SPECIFICATION FairSpec
CONSTANTS
  Unit <- MCUnit
  Groups <- MCGroups
  Outcomes <- MCOutcomes
INVARIANTS
  TypeOK
PROPERTIES
  ImplementsReduction
  Terminates
