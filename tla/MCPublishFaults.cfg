SPECIFICATION TurnSpec

CONSTANTS
  Docs = {d1, d2, d3}
  Patchers = {q1}
  Readers = {}
  MaxActive = 2
  Faults <- AllFaults
  None = None

SYMMETRY Symmetry

INVARIANTS
  TypeOK
  FirstDocumentIsRoot
  LineageLinkResolves
  AcknowledgedIsComplete
  RightsStayResolvable
  LineageTracksTip

PROPERTIES
  AppendsToPublished
  AppendsToTip
