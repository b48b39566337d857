\* One batch of up to three events, every fault, with fairness.
SPECIFICATION FairSpec
CONSTANTS
    r1 = r1
    Requests = {r1}
    MaxBatch = 3
    QueueCap = 1
    AckTTL = 1
    AckIDs <- MCAckIDs
    Faults <- AllFaults
INVARIANTS
    AckTruth
    GaugeExact
PROPERTIES
    ChannelSpec
    AcceptedIsFinished
\* The service may be idle for ever.
CHECK_DEADLOCK FALSE
