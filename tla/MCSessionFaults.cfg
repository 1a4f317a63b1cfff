SPECIFICATION FairSpec

CONSTANTS
  Calls = {c1, c2, c3, c4}
  Writers = {c1, c2, c3}
  Faults <- AllFaults
  None = None

INVARIANTS
  TypeOK
  SessionIsExplained
  AuthenticationsAreJustified

PROPERTIES
  EveryCallEnds
