SPECIFICATION Spec

CONSTANTS
  Calls = {c1, c2}
  Writers = {c1, c2}
  Faults <- NoFaults
  None = None

SYMMETRY Symmetry

INVARIANTS
  AuthenticatedBeforeCall
