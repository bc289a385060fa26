SPECIFICATION Spec
CONSTANTS
    Proc = {p1, p2}
    q1 = q1
    q2 = q2
    Ids = {q1, q2}
    Texts = {"a", "b"}
    Initially <- OneQuote
    MaxRequests = 3
PROPERTIES ImplementsLifeLog EntriesSayWhatWasWritten
CHECK_DEADLOCK FALSE
