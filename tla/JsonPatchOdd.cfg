SPECIFICATION Spec
CONSTANTS
  k1 = k1
  k2 = k2
  created = created
  Values <- OddValues
  Modifieds <- OddObjects
  Currents <- OddObjects
CHECK_DEADLOCK FALSE
INVARIANTS PatchYieldsModified
