\* The default configuration: ADB is not checked with the heartbeats.
CONSTANTS
    Agents = {"a", "b"}
    Fleet = {"b"}
    CommandIds = {"c1", "c2", "c3", "m1", "m2"}
    Keys = {"k1", "k2"}
    Leases = {"l1"}
    Kinds = {"status", "launch", "update", "check", "disconnect"}
    PassiveKinds = {"status"}
    ShellKinds = {"launch", "update"}
    UpdateKinds = {"update"}
    CheckKinds = {"check"}
    DisconnectKinds = {"disconnect"}
    AdbActionKinds = {"launch"}
    Intents = {"i1", "i2"}
    NoCommand = NoCommand
    NoLease = NoLease
    NoSource = NoSource
    NoIntent = NoIntent
    NoMirrorLease = NoMirrorLease
    Statuses = {"completed"}
    MirrorCommandId <- MCMirrorCommandId
    CommandRequests <- MCUpdates
    LeaseRequests <- MCLeaseRequests
    IntentRequests <- MCOneIntent
    RequestedVersion <- MCRequestedVersion
    Downgradable = {}
    local_adb_enabled = TRUE
    check_local_adb_on_heartbeat = FALSE
    MaxTime = 0
    MaxSerial = 12
    MaxFaults = 1
    MaxRestarts = 0
SPECIFICATION SystemSpec
INVARIANTS FailureSurfaces
CHECK_DEADLOCK FALSE
