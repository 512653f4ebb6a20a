CONSTANTS
    Conns = {c1, c2}
    Contexts = {"x"}
    FeatureLists = {"x"}
    PeerRequests <- Contending
    AckBodies = {"true", "false", "undecodable"}
    Defects = {}
    Tracing = TRUE
    StderrMayBreak = TRUE
    AcceptMayFail = TRUE
    PeersMayClose = FALSE
    PeersMayRepeat = TRUE
SPECIFICATION FairLockSpec
CHECK_DEADLOCK FALSE
PROPERTIES
    HandlersAreAtomic
    WaitersProceed
