SPECIFICATION Spec

CONSTANTS
  Registrations = {u1, u2}
  Grants = {g1, g2}
  Revokes = {r1, r2}
  Checks = {c1}
  Limits = {1, 3}
  Faults <- AllFaults
  None = None

SYMMETRY Symmetry

INVARIANTS
  TypeOK
  RegisteredIsFound
  NoAccessAfterRevocation
  GrantedUntilRevoked
