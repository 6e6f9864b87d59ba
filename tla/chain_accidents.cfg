SPECIFICATION Spec
CONSTANTS
  Contents = {c1, c2}
  Garbage = Garbage
  Labels = {l1}
  MaxRows = 4
  MaxAccidents = 2
SYMMETRY Symmetry
INVARIANTS
  TypeOK
  IntactChainValidates
  VouchedIsRecorded
  NoSilentLoss
PROPERTY
  DetectionIsPermanent
CHECK_DEADLOCK FALSE
