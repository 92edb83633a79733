\* One target, two contended keys, clock 0..2, up to four numbered changes.
CONSTANTS
    Agents = {"a", "b"}
    CommandIds = {"c1", "m1", "m2"}
    Keys = {"k1", "k2"}
    Leases = {"l1"}
    Kinds = {"status", "launch"}
    PassiveKinds = {"status"}
    AdbActionKinds = {"launch"}
    Intents = {"i1", "i2"}
    NoCommand = NoCommand
    NoLease = NoLease
    NoSource = NoSource
    NoIntent = NoIntent
    NoMirrorLease = NoMirrorLease
    Statuses = {"completed", "expired"}
    MirrorCommandId <- MCMirrorCommandId
    CommandRequests <- MCCommandRequests
    LeaseRequests <- MCLeaseRequests
    IntentRequests <- MCIntentRequests
    MaxTime = 2
    MaxSerial = 4
SPECIFICATION Spec
INVARIANTS SlotHoldsOneCommand IndexIsExact MirrorCommandCorrelated EventLogAgrees
PROPERTIES RejectedIsFinal DeliversAtMostOnce
CHECK_DEADLOCK FALSE
