SPECIFICATION Spec
CONSTANTS
  Username <- MCUsername
  Json <- MCJson
  Email = {e1, e2}
  Password = {p1, p2}
  Width = 32768
  Second = 3
  Lifetime = 6
  NoUser = NoUser
  MaxUsers = 2
  MaxTokens = 2
  MaxFaults = 1
  MaxClock = 9
INVARIANTS
  TokensLastTheirLifetime
  TokensNameTheirHolder
  ErrorsAreFaults
SYMMETRY Symmetry
CHECK_DEADLOCK FALSE
