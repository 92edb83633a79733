CONSTANTS
  Slots = {s1, s2}
  Workspaces = {demo}
  Runs = {r1}
  CodexIds = {c1, c2}
  BuildIds = {b1, b2}
  Files = {version}
  VersionFile = version
  MaxContent = 1
  CodexSandbox = "danger-full-access"
  Text <- MCText
  Truncated <- MCTruncated
  NoSlot = NoSlot
  NoId = NoId
  NoRun = NoRun
  NoWorkspace = NoWorkspace
  NoToken = NoToken
SPECIFICATION Spec
SYMMETRY Symmetry
INVARIANTS
  TypeOK
  OneAtATime
PROPERTIES
  ReviewedIsActedOn
  PushedIsReported
