SPECIFICATION FairSpec

CONSTANTS
  Docs = {d1, d2, d3}
  Patchers = {}
  Readers = {d1}
  MaxActive = 2
  Faults <- RefusalsAndCrashes
  None = None

INVARIANTS
  PidIsBacked

PROPERTIES
  RowLineageConverges
