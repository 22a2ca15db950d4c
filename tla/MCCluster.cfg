CONSTANTS
    Nodes = {n1}
    Requests = {r1, r2}
    Models = {m}
    AnyModel = any
    Modes = {"standalone", "master"}
    FailureThreshold = 2
    FailureCap = 3
    MaxConcurrent = 1
    BreakerConfigs <- Strict
    DefaultProbeWindow = 3
    Horizon = 2
SPECIFICATION FairSpec
INVARIANTS
    ClusterSound
PROPERTIES
    
    HealthRecovers
