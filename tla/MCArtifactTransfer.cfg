SPECIFICATION Spec

CONSTANTS
  Uploads = {u1, u2}
  Downloads = {d1, d2}
  Backends = {"local", "minio"}
  Limits = {1, 3}
  MaxFaults = 2
  Faults <- AllFaults
  None = None

SYMMETRY Symmetry

INVARIANTS
  TypeOK
  AcknowledgedIsPublished
  SuccessSpendsToken
  AcknowledgedUploadStays
  LeftInOrder
