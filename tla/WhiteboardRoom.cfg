SPECIFICATION FairSpec
CONSTANTS
  t1 = t1
  s1 = s1
  a = a
  b = b
  p1 = p1
  o1 = o1
  o2 = o2
  Teachers <- OneTeacher
  Students <- OneStudent
  StrokeIds <- OneStroke
  Pages <- OnePage
  Kinds <- OneErasure
  Ops <- TwoOps
  MaxAttempts = 1
  MaxEvents = 2
  MaxEpoch = 1
  Faults <- RoomFaults
INVARIANTS
  TicksInOrder
  NoOrphanedStroke
PROPERTIES
  HandlersFinish
