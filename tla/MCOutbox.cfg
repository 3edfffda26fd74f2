SPECIFICATION FairSpec
CONSTANTS
    p1 = p1
    p2 = p2
    d1 = d1
    Offered <- MCOffered
    Producers = {p1, p2}
    Claimers = {p1}
    Digests = {d1}
    NoImage = noimage
    NoPayload = nopayload
    BatchLimit = 1
    MaxEvents = 2
    MaxFaults = 1
CHECK_DEADLOCK FALSE

INVARIANTS DeliveryAccounted EvidenceLostOnlyToTwin
PROPERTIES SendableIsDelivered
