\* Two messages to one receiver with two threads, a contended message id, clock 0..2, one restart, four requests and runs of tools in all, two receipts.
CONSTANTS
    Agents = {"a", "b", "c"}
    Nodes = {"b"}
    Handlers = {h1, h2}
    MessageIds = {"m1", "m2"}
    Envelopes <- MCEnvelopes
    Invalid = {}
    NoObservation = NoObservation
    Look = Look
    NotSeen = NotSeen
    Idle = Idle
    seen_message_ttl_seconds = 1
    MaxTime = 2
    MaxRequests = 4
    MaxRestarts = 1
    Deliveries = {1, 2, 3}
    Target <- MCTarget
    Message <- MCMessage
    ExpiresAt <- MCExpiresAt
    Route <- MCRoute
    NoRoute = NoRoute
    max_attempts = 2
    min_retry_delay_seconds = 1
    max_retry_delay_seconds = 1
    backoff_multiplier = 2
    Retryable = {"no_response"}
    Never = Never
    NoReport = NoReport
    MaxOperations = 4
    MaxReceipts = 2
SYMMETRY MCSymmetry
SPECIFICATION MeshSpec
INVARIANTS MeshTypeOK NewestKept  AcceptedWasApplied HealthyRouteDelivered PlannersAgree
PROPERTIES AnsweredIsNotSent
CHECK_DEADLOCK FALSE
