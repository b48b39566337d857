\* One alert that is switched off and on again, the signal at any time.
SPECIFICATION FairSpec
CONSTANTS
    a1 = a1
    Alerts = {a1}
    MaxTimers = 4
    MaxChanges = 3
    MayStop = TRUE
INVARIANTS
    OneOpenTimer
PROPERTIES
    QuietAfterStop
    StopEnds
    TimersFollowAlerts
\* Everything has ended when Stop has returned.
CHECK_DEADLOCK FALSE
