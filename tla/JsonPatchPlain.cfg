SPECIFICATION Spec
CONSTANTS
  k1 = k1
  k2 = k2
  created = created
  Values <- PlainValues
  Modifieds <- PlainObjects
  Currents <- PlainCurrents
CHECK_DEADLOCK FALSE
INVARIANTS PatchYieldsModified EmptyIffEqual
