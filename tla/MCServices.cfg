\* One service or algorithm at a time.
\* Two callers on one schema of up to two versions; two editors of a saved search
\* of up to three; four requests within a limit of two, over a window longer
\* than the life of the key; two instances of ingest over two days; three
\* records and two failed flushes.  One input of an algorithm at a time; walks
\* through lists of up to three items of which one changes.
SPECIFICATION ServicesSpec
CONSTANTS
    s1 = s1
    c1 = c1
    c2 = c2
    NoSchema = NoSchema
    NoOne = NoOne
    Schemas = {s1}
    Callers = {c1, c2}
    MaxVersion = 2
    HecTokens = {t1}
    Addresses = {ip1, ip2}
    NoAddress = NoAddress
    MaxRecords = 3
    MaxFailures = 2
    Askers = {q1, q2, q3, q4}
    RateLimit = 2
    Window = 3
    Expiry = 2
    MaxInstant = 4
    MaxSecond = 2
    MaxEntries = 3
    Instances = {i1, i2}
    LastDay = 2
    MaxStarts = 2
    Editors = {e1, e2}
    MaxMoment = 3
    MaxVersionId = 2
    MaxSaved = 3
    ClientActions = {"login", "token_validate", "hec_token_validate"}
    MaxAuditCalls = 1
    Values = {"a", "b", "_unknown"}
    MaxEvents = 5
    MaxThreshold = 3
    Instants = {1100, 1700}
    MaxItems = 3
    MaxChanges = 1
    DefaultLimit = 2
    MaxLimit = 3
    ResultWindow = 4
    MaxChips = 3
SYMMETRY Symmetry
INVARIANTS
    AnsweredChangeIsKept
    UsageIsConserved
    RefusalIsEarned
    EntriesAreKept
    BootstrapIsSound
    LifecycleFollowsRequests
    NoFeedback
    MatchesAreExact
    
    PassthroughKeepsEvent
    TranslationKeepsMeaning
    ClientSeesOwnEvents
    WalkIsComplete
    PagesPartition
    AuthorityIsAHierarchy
    
\* Every input has an outcome, bounds are reached, and then nothing happens.
CHECK_DEADLOCK FALSE
