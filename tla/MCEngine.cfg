CONSTANTS
    Requests = {r1, r2}
    Inputs <- Kinds
    Watched = {}
    BreakerConfigs <- Patient
    DefaultProbeWindow = 3
    Horizon = 2
SPECIFICATION Spec
SYMMETRY Symmetry
INVARIANTS
    EngineSound
    ClosedIsClean
PROPERTIES
    RecoveryStartsFresh
    ClosesOnlyOnOutcome
    ProbeOnlyForLocalDispatch
