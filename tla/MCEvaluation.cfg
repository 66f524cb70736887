SPECIFICATION FairSpec
CONSTANTS
  Features <- MCFeatures
  Score <- MCScore
  MaxOutput = 3
  Requests <- MCRequests
INVARIANTS
  TypeOK
  StopsWhenInevitable
  RecognisesBaselines
  VerifiedInThisRun
  StrictIsPublishable
  NoSurvivors
PROPERTIES
  EndsUnlessHeld
