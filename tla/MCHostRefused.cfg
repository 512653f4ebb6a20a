CONSTANTS
    Conns = {c1}
    Contexts = {"x"}
    FeatureLists = {"x"}
    PeerRequests <- Awaited
    AckBodies = {"true", "false"}
    Defects = {}
    Tracing = FALSE
    StderrMayBreak = FALSE
    AcceptMayFail = FALSE
    PeersMayClose = FALSE
    PeersMayRepeat = FALSE
SPECIFICATION FairSpec
CHECK_DEADLOCK FALSE
PROPERTIES
    HandlersRespond
