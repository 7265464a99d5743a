SPECIFICATION Spec
CONSTANTS
  r1 = r1
  f1 = f1
  f2 = f2
  k1 = k1
  k2 = k2
  x1 = x1
  x2 = x2
  c1 = c1
  c2 = c2
  l1 = l1
  g = g
  h = h
  mail = mail
  none = none
  Signups <- OneSignup
  Flows <- TwoFlows
  Callbacks <- TwoCallbacks
  Exchanges <- TwoExchanges
  Confirms <- TwoConfirms
  LoginIds <- OneLogin
  Identities <- TwoIdentities
  EmailOf <- SameEmail
  None = none
  MaxFaults = 2
  MaxDevs = 1
  Faults <- AllFaults
SYMMETRY Symmetry
INVARIANTS
  TypeOK
  OneTokenPerCode
  CodeNamesIdentity
  TokensTellRole
CHECK_DEADLOCK FALSE
