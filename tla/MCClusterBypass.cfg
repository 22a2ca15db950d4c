CONSTANTS
    Nodes = {n1}
    Requests = {r1}
    Models = {m}
    AnyModel = any
    Modes = {"standalone"}
    FailureThreshold = 2
    FailureCap = 3
    MaxConcurrent = 1
    BreakerConfigs <- Strict
    DefaultProbeWindow = 3
    Horizon = 2
SPECIFICATION FairSpec
PROPERTY NodeSelectableAgain
