CONSTANTS
    Requests <- SomeRequests
    Responses <- SomeResponses
    BareFrames <- SomeBare
    Defects = {"prefix", "short_length", "long_variable", "cut_variable"}
    MaxSent = 2
SPECIFICATION FairSpec
CHECK_DEADLOCK FALSE
INVARIANT TypeOK
PROPERTIES
    ImplementsFrameChannel
    ReadingProgresses
