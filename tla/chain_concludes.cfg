SPECIFICATION FairSpec
CONSTANTS
    j1 = j1
    j2 = j2
    tidal = tidal
    qobuz = qobuz
    amazon = amazon
    Jobs = {j1, j2}
    Services = {tidal, qobuz, amazon}
    Primary <- TidalAndAmazon
    Fallbacks <- ThenQobuz
    Supported = {tidal, qobuz}
    Outcomes = {"complete", "retryable", "permanent", "cooldown"}
    Breaks = {1}
    Threshold = 1
    Cooldown = 2
    MaxConcurrent = 2
    MaxAttempts = 1
    MaxUnattempted = 1
    MaxCooldowns = 2
    MaxPark = 1
INVARIANTS ViewsAgree
PROPERTIES EveryJobConcludes MeetsContract OnlyServiceFailuresOpen NeverProlonged
