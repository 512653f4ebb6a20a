CONSTANTS
    Paths <- SomePaths
    RouteTables <- SomeRouteTables
    SentRequests <- SomeRequests
    Responses <- SomeResponses
SPECIFICATION Spec
CHECK_DEADLOCK FALSE
INVARIANTS
    DecodesWhatWasSent
    FirstRouteAnswers
    PeerUnderstandsReply
