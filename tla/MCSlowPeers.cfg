CONSTANTS
    Conns = {c1, c2}
    Contexts = {"x"}
    FeatureLists = {"x"}
    PeerRequests <- SomeRequests
    AckBodies = {"true", "undecodable"}
    Defects = {}
    Tracing = FALSE
    StderrMayBreak = FALSE
    AcceptMayFail = FALSE
    PeersMayClose = FALSE
    PeersMayRepeat = FALSE
    Capacity = 1
    Troubled = {c2}
SPECIFICATION SlowSpec
CHECK_DEADLOCK FALSE
PROPERTY TroubleStaysHome
