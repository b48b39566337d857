\* Two queries, everything that may go wrong, with fairness.
SPECIFICATION FairSpec
CONSTANTS
    q1 = q1
    q2 = q2
    Queries = {q1, q2}
    ResultTTL = 1
    Hazards <- AllHazards
INVARIANTS
    ResultIsTrue
PROPERTIES
    PollMonotone
    CacheDrains
\* The clients may send nothing more.
CHECK_DEADLOCK FALSE
