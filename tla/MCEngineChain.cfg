CONSTANTS
    Requests = {r1}
    Inputs <- AllKinds
    Watched = {}
    BreakerConfigs <- Strict
    DefaultProbeWindow = 3
    Horizon = 2
SPECIFICATION Spec
INVARIANTS UnservableNeverLocal
PROPERTIES AllowlistHeldWhileClosed
