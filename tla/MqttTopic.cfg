CONSTANTS
    TOPIC_MAXLEN = 8
    FilterChars = {"/", "a", "+", "#", "ctl"}
    NameChars = {"/", "a", "b"}
    MaxFilter = 7
    MaxName = 4
    MaxMatched = 5
SPECIFICATION Spec
INVARIANTS MatchAgreesWithLevels WellFormedAccepted AcceptedIsChecked
