SPECIFICATION Spec
CONSTANTS
  gen = gen
  lib = lib
  place = place
  depfiles = depfiles
  nar = nar
  Call = {place, depfiles}
  Asks <- McAsks
  BestEffort = {depfiles}
  Uploading = {nar}
  PoolMax = 2
  GateWidth = 1
  MaxStalls = 1
  ConnectRetries = 1
  Reaped = TRUE
  Daemons <- McDaemons
INVARIANTS
  AnswersMatch
PROPERTY
  CallsEnd
