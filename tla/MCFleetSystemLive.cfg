\* Answers and liveness: an update and a status request with one key, one mirror intent, two faults.
CONSTANTS
    Agents = {"a", "b"}
    Fleet = {"b"}
    CommandIds = {"c1", "c2", "c3", "m1", "m2"}
    Keys = {"k1", "k2"}
    Leases = {"l1"}
    Kinds = {"status", "launch", "update", "check", "disconnect"}
    PassiveKinds = {"status"}
    ShellKinds = {"launch", "update"}
    UpdateKinds = {"update"}
    CheckKinds = {"check"}
    DisconnectKinds = {"disconnect"}
    AdbActionKinds = {"launch"}
    Intents = {"i1", "i2"}
    NoCommand = NoCommand
    NoLease = NoLease
    NoSource = NoSource
    NoIntent = NoIntent
    NoMirrorLease = NoMirrorLease
    Statuses = {"completed"}
    MirrorCommandId <- MCMirrorCommandId
    CommandRequests <- MCUpdateAndStatus
    LeaseRequests <- MCLeaseRequests
    IntentRequests <- MCOneIntent
    RequestedVersion <- MCRequestedVersion
    Downgradable = {}
    local_adb_enabled = TRUE
    check_local_adb_on_heartbeat = TRUE
    MaxTime = 1
    MaxSerial = 12
    MaxFaults = 2
    MaxRestarts = 0
SPECIFICATION FairSystem
PROPERTIES AnswerIsFinal AdbLossSurfaces QueueDrains QueuedIntentAnswered
CHECK_DEADLOCK FALSE
