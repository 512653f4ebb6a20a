CONSTANTS
    Conns = {c1}
    Contexts = {"x", "y"}
    FeatureLists = {"x", "y"}
    PeerRequests <- Pipelined
    AckBodies = {"true", "false"}
    Defects = {}
    Tracing = FALSE
    StderrMayBreak = FALSE
    AcceptMayFail = FALSE
    PeersMayClose = FALSE
    PeersMayRepeat = FALSE
SPECIFICATION Spec
CHECK_DEADLOCK FALSE
INVARIANTS
    RepliesInOrder
    OneContinuation
