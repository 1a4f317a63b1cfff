SPECIFICATION Spec

CONSTANTS
  Registrations = {u1}
  Grants = {g1, g2}
  Revokes = {r1}
  Checks = {c1}
  Limits = {2}
  Faults <- NoFaults
  None = None

SYMMETRY Symmetry

INVARIANTS
  OnePermissionPerUser
