SPECIFICATION FairSpec
CONSTANTS
  NoTask = NoTask
  NoPid = NoPid
  NoDigest = NoDigest
  Requests = {"arm", "boot", "disable", "pair", "pulse", "stop", "control"}
  MaxStarts = 2
  MaxFaults = 1
INVARIANTS
  TypeOK
  ServedIsOneRecord
  NothingLeftOn
  OneAgentUnlessRaced
PROPERTY
  RequestsHandled
CHECK_DEADLOCK FALSE
