SPECIFICATION Spec

CONSTANTS
  Patches = {p1, p2}
  Creation = Creation
  Fields = {title}
  Extras = {x}
  Values = {v1}
  Stores <- BothStores
  MaxFaults = 1
  None = None
  Empty = Empty
  Keep = Keep
  Torn = Torn

SYMMETRY Symmetry

INVARIANTS
  TypeOK
  HistoryIsGenuine
  HistoryNeverVanishes
  HistoryIsComplete

PROPERTIES
  PatchIsApplied
