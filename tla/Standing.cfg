SPECIFICATION StandingSpec
CONSTANTS
    key = key
    older = older
    newer = newer
    beside = beside
    stop = stop
    phone = phone
    otherPhone = otherPhone
    GrantIds = {older, newer, beside}
    GrantOf <- SomeGrants
    StopIds = {stop}
    StopOf <- SomeStops
    UserPhones = {phone, otherPhone}
    r1 = r1
    r2 = r2
    RequestIds = {r1, r2}
    Submits = {h1, h2}
    RequestWindow = 1
    RaisesPerHour = 1
    Hour = 1
    LastTime = 3
    PatientPhone = TRUE
    guessed = guessed
    issued = issued
    SixDigits = {guessed, issued}
    Clients = {c1}
    WrongLimit = 2
    WrongWindow = 2
    Budget = 2
    MaxLife = 3
    MarkEvery = 2
    SpentMemory = 2
    EndTime = 4
    MemberPhones = {p1, p2}
    Bindings <- TwoMembers
    Registrations = {g1, g2}
    MaxTickets = 3
    ClusterIds = {ncus}
    LeaseTTL = 1
    MaxSpawned = 2
    ClockEnd = 4
    Requests = {q1, q2}
    Grants = {q1}
    Polls = {u1}
    y1 = y1
    y2 = y2
    Answers = {y1, y2}
    f1 = f1
    f2 = f2
    Fetches = {f1, f2}
    Durable = FALSE
    QueueTTL = 2
    ClaimsTTL = 2
    GrantTTL = 1
    ResultTTL = 1
    MaxTime = 3
SYMMETRY Symmetry
INVARIANTS
    StandingTypeOK
    TakenBackStaysOut
    ExposureBudget
    AnsweredAsShown
PROPERTIES
    RequestBookIsKept
    MembersAreBoundOnce
    LeasesAreKept
CHECK_DEADLOCK FALSE
