SPECIFICATION FairSpec
CONSTANTS
  u1 = u1
  u2 = u2
  yes = yes
  no = no
  Students <- TwoStudents
  Options <- TwoOptions
  MaxPolls = 2
  MaxSent = 2
INVARIANTS
  TypeOK
  CountsAgree
  CountsThisPoll
  TimersAreExact
PROPERTIES
  TimedPollEnds
CHECK_DEADLOCK FALSE
