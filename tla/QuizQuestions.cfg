SPECIFICATION QQSpec
CONSTANTS
  q1 = q1
  q2 = q2
  q3 = q3
  c1 = c1
  c2 = c2
  u1 = u1
  u2 = u2
  Ids <- ThreeIds
  Requests <- TwoRequests
  Clients <- TwoClients
  MaxQuestions = 2
SYMMETRY Symmetry
INVARIANTS
  QQTypeOK
  AtMostThree
  QuizIsSeen
