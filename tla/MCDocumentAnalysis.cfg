SPECIFICATION AnalysisSpec

CONSTANTS
  Stores <- BothStores
  Ways <- BothWays
  MaxSize = 3
  SizeLimit = 2
  MaxFaults = 2
  Ids = {a, b}
  Missing = Missing
  MaxRelations = 2
  MaxAsked = 2

INVARIANTS
  AnalysisTypeOK
  HashIsOfStoredFile
  DownloadReturnsUpload
  GraphReadsUpload
  BothIsComponent
  AnswerIsSelfContained

PROPERTIES
  RequestsEnd
