CONSTANTS
    GroupBits = 2
    WordBits = 5
    MaxShift = 4
    MaxLength = 4
SPECIFICATION Spec
CHECK_DEADLOCK FALSE
INVARIANTS
    RoundTrip
    ReadsDenotedValue
    RefusesEndlessInput
