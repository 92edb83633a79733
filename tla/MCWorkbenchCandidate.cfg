CONSTANTS
  Slots = {s1}
  Workspaces = {demo}
  Runs = {r1}
  CodexIds = {c1}
  BuildIds = {b1}
  Files = {version}
  VersionFile = version
  MaxContent = 1
  CodexSandbox = "danger-full-access"
  Text <- MCText
  Truncated <- MCTruncated
  NoSlot = NoSlot
  NoId = NoId
  NoRun = NoRun
  NoWorkspace = NoWorkspace
  NoToken = NoToken
SPECIFICATION Spec
INVARIANT CandidateIsItsCommit
