SPECIFICATION TempSpec
CONSTANTS
  Writers = {w1, w2}
  Keep = 1
  MinList = 2
SYMMETRY Symmetry
INVARIANTS
  UploadKeepsMessages
CHECK_DEADLOCK FALSE
