SPECIFICATION Spec

CONSTANTS
  Docs = {d1, d2, d3}
  Patchers = {}
  Readers = {}
  MaxActive = 2
  Faults <- NoFaults
  None = None

SYMMETRY Symmetry

INVARIANTS
  NoLineageBranching

