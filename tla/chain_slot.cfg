SPECIFICATION Spec
CONSTANTS
    j1 = j1
    j2 = j2
    tidal = tidal
    qobuz = qobuz
    amazon = amazon
    Jobs = {j1, j2}
    Services = {tidal, qobuz}
    Primary <- AllTidal
    Fallbacks <- ThenQobuz
    Supported = {tidal, qobuz}
    Outcomes = {"complete", "retryable", "noRetry", "permanent", "cooldown", "killed"}
    Breaks = {1, 2}
    Threshold = 1
    Cooldown = 2
    MaxConcurrent = 1
    MaxAttempts = 2
    MaxUnattempted = 1
    MaxCooldowns = 1
    MaxPark = 3
SYMMETRY JobSymmetry
INVARIANTS TypeOK OpenCircuitNeverFails ParkIsWithdrawn
PROPERTIES CooldownStopsChain
