CONSTANTS
    Conns = {c1, c2}
    Contexts = {x, y}
    FeatureLists = {x, y}
    PeerRequests <- SomeRequests
    AckBodies = {"true", "false"}
    Defects = {}
    Tracing = FALSE
    StderrMayBreak = FALSE
    AcceptMayFail = FALSE
    PeersMayClose = FALSE
    PeersMayRepeat = FALSE
SYMMETRY Interchangeable
SPECIFICATION StraySpec
CHECK_DEADLOCK FALSE
INVARIANT ContinuedOnce
