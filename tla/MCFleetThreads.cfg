\* Requests interleave step by step; one connection of the agent at a time.
CONSTANTS
    Clients = {"a", "o"}
    Polls = {"g"}
    Requests = {"i1", "i2", "c1", "c2"}
    Keys = {"k1", "k2"}
    None = None
    Program <- MCProgram
    KeyOf <- MCOwnKeys
    ExpiresAt <- MCExpiresAt
    Mirror = {"i1", "i2"}
    MaxTime = 1
    MaxPolls = 3
SPECIFICATION Spec
INVARIANTS TypeOK HandedOverOnce FirstComeFirstServed QueuedOncePerKey AnsweredIntentsGetResult
PROPERTIES LostOnlyLate
CHECK_DEADLOCK FALSE
