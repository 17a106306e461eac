\* A generated process at work on the kernel.
SPECIFICATION Spec
CONSTANTS
  LITERALS <- MCLiterals
  UNITS <- MCUnits
  DESIGNS <- MCDesigns
  LOWEST <- MCLowest
  LONGEST = 4
CHECK_DEADLOCK FALSE
INVARIANT ElementsFitTheRange
PROPERTIES
  ImplementsArrayValues
  LoopsVisitTheirRange
