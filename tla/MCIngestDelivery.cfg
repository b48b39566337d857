\* Delivery when nothing fails.
SPECIFICATION FairSpec
CONSTANTS
    r1 = r1
    Requests = {r1}
    MaxBatch = 2
    QueueCap = 1
    AckTTL = 0
    AckIDs <- MCAckIDs
    Faults = {}
PROPERTY GuaranteedDelivery
CHECK_DEADLOCK FALSE
