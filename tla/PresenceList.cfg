SPECIFICATION Spec
CONSTANTS
  s1 = s1
  s2 = s2
  s3 = s3
  tea = tea
  stu = stu
  r1 = r1
  r2 = r2
  Sockets <- ThreeSockets
  Keys <- TwoUsers
  KeyOf <- TwoAndOne
  Rooms <- TwoRooms
  MaxJoins = 2
INVARIANTS
  TypeOK
  Listed
PROPERTIES
  OldSocketTakesNothing
CHECK_DEADLOCK FALSE
