CONSTANTS
  Path <- Paths
  Optional <- OptionalPaths
  Excluded <- ExcludedPaths
  MaxLength = 2
  Cuts <- AskedCuts
  Member <- Members
  Evidence = "evidence"
  Derived <- DerivedMembers
  Last = 2
  Order <- WriteOrder
  Requests <- AllRequests

SPECIFICATION Spec

INVARIANTS
  TypeOK
  SnapshotOfFiles
  VerifiedAtOneMoment

PROPERTIES
  OnlyWholeAppears
