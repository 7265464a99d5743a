SPECIFICATION Spec
CONSTANTS
  tea = tea
  e1 = e1
  a = a
  p1 = p1
  Users <- OneUser
  Teacher = tea
  Enders <- OneEnder
  Strokes <- OneStroke
  Pages <- OnePage
  PageOf <- OnFirst
  Erasures <- NoErasure
  MaxEnds = 1
  MaxFaults = 1
  Faults <- NoFaults
INVARIANTS
  ArchiveHoldsBoard
