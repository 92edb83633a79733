\* Requests interleave step by step; two clients use one idempotency key.
CONSTANTS
    Clients = {"a", "o"}
    Polls = {"g"}
    Requests = {"i1", "i2", "c1", "c2"}
    Keys = {"k1", "k2"}
    None = None
    Program <- MCProgram
    KeyOf <- MCSharedKey
    ExpiresAt <- MCExpiresAt
    Mirror = {"i1", "i2"}
    MaxTime = 0
    MaxPolls = 3
SPECIFICATION Spec
INVARIANTS QueuedOncePerKey
CHECK_DEADLOCK FALSE
