CONSTANTS
    Conns = {c1, c2}
    Contexts = {"x", "y"}
    FeatureLists = {"x", "y"}
    PeerRequests <- Overlapping
    AckBodies = {"true", "false"}
    Defects = {}
    Tracing = FALSE
    StderrMayBreak = FALSE
    AcceptMayFail = FALSE
    PeersMayClose = FALSE
    PeersMayRepeat = TRUE
SPECIFICATION Spec
CHECK_DEADLOCK FALSE
INVARIANTS
    TypeOK
    RequestIdsUnique
    PendingCoversRequests
    ResponsesMatchRequests
    HostRequestsCarryInit
    AtMostOneResponse
    InitSequence
    OneContinuation
PROPERTY ImplementsInitFlow
