SPECIFICATION CardsSpec
CONSTANTS
    Requests = {r1}
    Grants = {}
    Polls = {p1}
    Answers = {a1}
    Fetches = {f1}
    Durable = TRUE
    QueueTTL = 2
    ClaimsTTL = 2
    GrantTTL = 1
    ResultTTL = 1
    MaxTime = 2
INVARIANTS
    QueuedIsFound
