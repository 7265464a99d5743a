SPECIFICATION Spec
CONSTANTS
  t1 = t1
  s1 = s1
  a = a
  b = b
  p1 = p1
  o1 = o1
  o2 = o2
  Teachers <- OneTeacher
  Students <- NoStudent
  StrokeIds <- OneStroke
  Pages <- OnePage
  Kinds <- AllKinds
  Ops <- TwoOps
  MaxAttempts = 1
  MaxEvents = 3
  MaxEpoch = 1
  Faults <- RestartOnly
SYMMETRY Symmetry
INVARIANTS
  TickMonotone
