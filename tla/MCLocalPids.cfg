SPECIFICATION Spec

CONSTANTS
  Docs = {d1, d2, d3, d4}
  Workers = {w1, w2}
  MaxActive = 2
  Faults <- AllFaults
  None = None
  Absent = Absent
  Torn = Torn

SYMMETRY Symmetry

INVARIANTS
  LocalTypeOK
  VersionsFollow
  BranchesOnlyAtFirst
  AcknowledgedSurvives
  TipCanBeExtended
