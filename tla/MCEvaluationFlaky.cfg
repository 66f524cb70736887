SPECIFICATION Spec
CONSTANTS
  Features <- MCFeatures
  Score <- MCScore
  MaxOutput = 3
  Requests <- LooseRequests
INVARIANT VerifiedIsPublishable
