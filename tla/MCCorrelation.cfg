\* Two versions of one schema, the second without a query; two workers of each
\* kind, one of which is shut down; messages lost, publishes and reads failing.
SPECIFICATION FairSpec
CONSTANTS
    NoSchema = NoSchema
    NoOne = NoOne
    s1 = s1
    c1 = c1
    w1 = w1
    w2 = w2
    h1 = h1
    h2 = h2
    k1 = k1
    Schemas = {s1}
    Callers = {c1}
    MaxVersion = 2
    MaxJobs = 1
    Keys = {k1}
    SearchWorkers = {w1, w2}
    Own = h1
    RespondWorkers = {h1, h2}
    ListLimit = 2
    Silent = {2}
    Mishaps = {"publish", "loss", "db"}
INVARIANTS
    AlertProvenance
    OneAlertPerMatch
PROPERTIES
    QuietAfterStop
    ShutdownEnds
\* Everything has ended when main has closed the connection.
CHECK_DEADLOCK FALSE
