\* The inputs of the algorithms, without lists to walk through.
CONSTANTS
    Values = {"a", "b"}
    MaxEvents = 1
    MaxThreshold = 1
    Instants = {1700}
    MaxItems = 1
    MaxChanges = 0
    DefaultLimit = 2
    MaxLimit = 3
    ResultWindow = 4
    MaxChips = 1
SPECIFICATION AlgorithmsSpec
CHECK_DEADLOCK FALSE
INVARIANT ValidQueryIsAnswered
