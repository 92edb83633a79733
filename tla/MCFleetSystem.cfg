\* Two updates and two looks at ADB, two faults, one restart of the controller.
CONSTANTS
    Agents = {"a", "b"}
    Fleet = {"b"}
    CommandIds = {"c1", "c2", "c3", "m1", "m2"}
    Keys = {"k1", "k2"}
    Leases = {"l1"}
    Kinds = {"status", "launch", "update", "check", "disconnect"}
    PassiveKinds = {"status"}
    ShellKinds = {"launch", "update"}
    UpdateKinds = {"update"}
    CheckKinds = {"check"}
    DisconnectKinds = {"disconnect"}
    AdbActionKinds = {"launch"}
    Intents = {"i1", "i2"}
    NoCommand = NoCommand
    NoLease = NoLease
    NoSource = NoSource
    NoIntent = NoIntent
    NoMirrorLease = NoMirrorLease
    Statuses = {"completed"}
    MirrorCommandId <- MCMirrorCommandId
    CommandRequests <- MCTwoUpdates
    LeaseRequests = {}
    IntentRequests = {}
    RequestedVersion <- MCRequestedVersion
    Downgradable = {}
    local_adb_enabled = TRUE
    check_local_adb_on_heartbeat = TRUE
    MaxTime = 1
    MaxSerial = 12
    MaxFaults = 2
    MaxRestarts = 1
SPECIFICATION SystemSpec
INVARIANTS SystemTypeOK ReportedUpdateIsInstalled UpdateOncePerLife
CHECK_DEADLOCK FALSE
