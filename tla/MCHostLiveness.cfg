CONSTANTS
    Conns = {c1, c2}
    Contexts = {"x"}
    FeatureLists = {"x"}
    PeerRequests <- Awaited
    AckBodies = {"true", "false"}
    Defects = {"cut_variable"}
    Tracing = TRUE
    StderrMayBreak = TRUE
    AcceptMayFail = FALSE
    PeersMayClose = TRUE
    PeersMayRepeat = FALSE
SPECIFICATION FairSpec
CHECK_DEADLOCK FALSE
PROPERTIES
    RequestsSettle
    PendingDrains
