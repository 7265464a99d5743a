SPECIFICATION Spec
CONSTANTS
  s1 = s1
  t1 = t1
  k1 = k1
  k2 = k2
  k3 = k3
  q1 = q1
  a1 = a1
  a2 = a2
  c1 = c1
  c2 = c2
  Students <- OneStudent
  Teachers <- OneTeacher
  Sockets <- ThreeSockets
  UserOf <- Whose
  Ids <- OneId
  Answers <- TwoAnswers
  Requests <- TwoRequests
  MaxFaults = 1
  MaxMoves = 2
SYMMETRY Symmetry
INVARIANTS
  TypeOK
  OneAnswer
  NothingMissed
\* Nothing is left to do once every socket has gone.
CHECK_DEADLOCK FALSE
