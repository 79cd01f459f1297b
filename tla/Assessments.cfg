CONSTANTS
    Requests = {r1, r2, r3}
    Operators = {o1, o2}
    Payloads = {p1, p2}
    NoOffer = NoOffer
    MaxMishaps = 2
SPECIFICATION FairAssessmentSpec
INVARIANTS OneAssessmentAtATime
PROPERTIES AssignmentsSurvive RetriesGetThrough
