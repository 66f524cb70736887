SPECIFICATION FairSpec
CONSTANTS
  Project <- MCProject
  Origin <- MCOrigin
  Refused = Refused
  Offers <- MCOffers
  Preserved = {"preserved", "mostly preserved"}
  Rejected = {"rejected"}
  Inconclusive = {"inconclusive"}
  Refusal = "rejected"
  Unsteady = "inconclusive"
  Settings <- MCSettings
INVARIANTS
  TypeOK
  ChainLinked
  ReplaysTheChain
  SettledOnChain
PROPERTIES
  ImplementsFixpoint
  Finishes
