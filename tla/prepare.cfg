SPECIFICATION FairSpec
CONSTANTS
    w1 = w1  w2 = w2  u1 = u1  u2 = u2  None = None  Never = Never
    Workers = {w1, w2}
    Upstreams = {u1, u2}
    Settings <- AllSettings
    renewTimeout = 1
    renewInterval = 2
    sessionSkew = 1
    Lifetimes = {1, 3}
    cacheTTL = 2
    playbackQueueWait = 1
INVARIANTS TypeOK OneSolver
PROPERTIES RenewalsAreNeeded WalkedOncePerWindow GivenAsProbed EveryStartConcludes
