\* Two handlers, two tokens, room for one.
SPECIFICATION FairSpec
CONSTANTS
    k1 = k1
    k2 = k2
    h1 = h1
    h2 = h2
    NoToken = NoToken
    Tokens = {k1, k2}
    Handlers = {h1, h2}
    CacheTTL = 1
    CallTimeout = 1
    MaxSize = 1
    Faults = {"db", "net"}
INVARIANTS
    RevocationTakesEffect
    CacheIsBounded
PROPERTY EntriesEnd
