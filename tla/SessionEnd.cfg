SPECIFICATION FairSpec
CONSTANTS
  tea = tea
  e1 = e1
  a = a
  p1 = p1
  Users <- OneUser
  Teacher = tea
  Enders <- OneEnder
  Strokes <- OneStroke
  Pages <- OnePage
  PageOf <- OnFirst
  Erasures <- OneAndAll
  MaxEnds = 3
  MaxFaults = 2
  Faults <- AllFaults
INVARIANTS
  TypeOK
  EndedAfterSaved
  ArchiveHasWhatWasStored
  PurgeIsComplete
PROPERTIES
  EndKeepsPromise
  EndSucceeds
