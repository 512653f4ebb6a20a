CONSTANTS
    Conns = {c1, c2}
    Contexts = {"x", "y"}
    FeatureLists = {"x", "y"}
    PeerRequests <- Failing
    AckBodies = {"true", "false", "undecodable"}
    Defects = {"prefix", "short_length", "long_variable", "cut_variable"}
    Tracing = TRUE
    StderrMayBreak = TRUE
    AcceptMayFail = TRUE
    PeersMayClose = TRUE
    PeersMayRepeat = FALSE
SYMMETRY Interchangeable
SPECIFICATION Spec
CHECK_DEADLOCK FALSE
INVARIANTS
    PoisonNeedsTrace
PROPERTIES
    PoisonFreezesTable
    ImplementsInitFlow
