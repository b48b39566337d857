\* Two requests of up to two events race for a queue of one slot.
SPECIFICATION Spec
CONSTANTS
    r1 = r1
    r2 = r2
    Requests = {r1, r2}
    MaxBatch = 2
    QueueCap = 1
    AckTTL = 0
    AckIDs <- MCAckIDs
    Faults = {}
SYMMETRY RequestSymmetry
INVARIANTS
    Custody
    AnswerMatchesQueue
CHECK_DEADLOCK FALSE
