SPECIFICATION WebhookFairSpec
CONSTANTS
    Events = {v1, v2}
    Connections = {c1, c2}
    Capacity = 1
    TTL = 2
    Window = 1
    MaxEvents = 1
    MaxTime = 3
CHECK_DEADLOCK FALSE
INVARIANTS LimitsKept
PROPERTIES AcceptedOnce NoMissedEvent ConnectionsEnd
