SPECIFICATION CardsSpec
CONSTANTS
    Requests = {r1}
    Grants = {r1}
    Polls = {p1, p2}
    Answers = {a1}
    Fetches = {f1}
    Durable = FALSE
    QueueTTL = 3
    ClaimsTTL = 2
    GrantTTL = 2
    ResultTTL = 2
    MaxTime = 3
INVARIANTS
    AnsweredOnce
