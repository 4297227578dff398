SPECIFICATION FairSpec
CONSTANTS
    c1 = c1  c2 = c2  None = None  Elsewhere = Elsewhere  b1 = b1  b2 = b2
    Challenges = {c1, c2}
    Browsers = {b1, b2}
    Configs <- AllConfigs
    MaxStrays = 1
INVARIANTS TypeOK ForwardsOnlyToAnnounced GrantGoesToItsChallenge RefusedOnlyAfterSolverFailed
PROPERTIES PassedIsGranted
CHECK_DEADLOCK FALSE
