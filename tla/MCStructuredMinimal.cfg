SPECIFICATION Spec
CONSTANTS
  Project <- MCProject
  Origin <- ReturningOrigin
  Refused = Refused
  Offers <- MCOffers
  Preserved = {"preserved", "mostly preserved"}
  Rejected = {"rejected"}
  Inconclusive = {"inconclusive"}
  Refusal = "rejected"
  Unsteady = "inconclusive"
  Settings <- ScriptedSettings
INVARIANT LocallyMinimal
