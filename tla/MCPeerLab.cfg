SPECIFICATION PeerLabSpec
CONSTANTS
  Agents = {1, 2, 3, 4}
  LinkSets <- RingLinks
  BeatSets <- MCBeatSets
  Ttls = {0, 1, 2}
  PassCounts = {0, 1, 2, 3}
  NameLengths = {2, 9}
  Deliveries = {1, 2}
  Messages = {"m1", "m2"}
  Targets = {"r1", "r2"}
  Inboxes = {"i1", "i2"}
  Source = "s"
  Segment <- MCSegment
  OutcomeFiles <- MCOutcomes
  Manifests <- MCManifests
  NoDir = NoDir
  NoReport = NoReport
  InitialPlans <- MCPlans
  InitialRoutes <- MCRoutes
  MaxEdits = 2
  t1 = t1
  t2 = t2
  Peers = {t1, t2}
  Labs <- MCLabs
  FirstRoutes <- MCFirstRoutes
  LaterRoutes <- MCLaterRoutes
  MaxChanges = 1
  MaxHealths = 2
  MaxScorecards = 2
  Missing = Missing
  SlotSets <- MCSlotSets
  RuleSets <- MCRuleSets
  NoSchema = NoSchema
  NoFile = NoFile
  MaxRuns = 7
INVARIANTS
  OnlyAlongLinks
  HeardOverShortestWay
  AcceptedWasStaged
  ClearRestsOnClear
  AcceptanceRestsOnHandoff
CHECK_DEADLOCK FALSE
