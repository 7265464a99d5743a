SPECIFICATION Spec
CONSTANTS
  m1 = m1
  m2 = m2
  c1 = c1
  s1 = s1
  none = none
  SessionUploads <- TwoSessionUploads
  ClassUploads <- OneClassUpload
  Users <- OneUser
  None = none
  MaxFaults = 2
  Faults <- AllFaults
SYMMETRY Symmetry
INVARIANTS
  TypeOK
  NoOrphan
  FirstUploadStands
  ShownIsAvailable
