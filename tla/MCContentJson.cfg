SPECIFICATION AnalysisSpec

CONSTANTS
  Stores <- BothStores
  Ways <- BothWays
  MaxSize = 2
  SizeLimit = 2
  MaxFaults = 0
  Ids = {a}
  Missing = Missing
  MaxRelations = 0
  MaxAsked = 1

INVARIANTS
  JsonIsStored
