SPECIFICATION Spec
CONSTANTS
  s1 = s1
  s2 = s2
  q1 = q1
  c1 = c1
  c2 = c2
  Students <- TwoStudents
  Questions <- OneQuestion
  Requests <- TwoRequests
  MaxDaily = 1
  MaxCount = 3
  MaxFaults = 1
  MaxDays = 1
INVARIANTS
  TypeOK
  StatsAgree
  NothingUncounted
  DailyLimit
PROPERTIES
  FirstAnswerStands
CHECK_DEADLOCK FALSE
