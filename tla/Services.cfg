SPECIFICATION ServicesSpec
CONSTANTS
    once = once
    many = many
    Jtis = {once, many}
    SingleUse = {once}
    ExpOf <- ExpOfTokens
    Readers = {x1, x2, x3}
    Durable = FALSE
    ListWrites = FALSE
    Stalls = FALSE
    EarlyExp = 1
    MaxTime = 4

    p1 = p1
    p2 = p2
    work = work
    home = home
    d1 = d1
    d2 = d2
    ProfileIds = {p1, p2}
    ProfileNames = {work, home}
    CoinOf <- Coins
    DeviceIds = {d1, d2}
    Wishes <- SomeWishes
    FirstBooks <- SomeBooks
    y1 = y1
    y2 = y2
    Answerers = {y1, y2}
    CardsLast = FALSE
    MaxCards = 3

    k1 = k1
    k2 = k2
    s1 = s1
    s2 = s2
    setGrant = setGrant
    deleteGrant = deleteGrant
    NoValue = NoValue
    VaultKeys = {k1, k2}
    VaultValues = {s1, s2}
    VaultGrants = {setGrant, deleteGrant}
    SignedOrder <- SomeOrders
    h1 = h1
    h2 = h2
    VaultHandlers = {h1, h2}

    a1 = a1
    v1 = v1
    v2 = v2
    gr = gr
    read = read
    pair = pair
    enable = enable
    vault = vault
    boot = boot
    app = app
    Agents = {a1}
    Actions = {read, pair, enable}
    ConnectionActs = {enable}
    ReadAction = read
    PairAction = pair
    Audiences = {vault, boot, app}
    VaultAudience = vault
    Bootloader = boot
    ScopeServices = {k1}
    ScopeAsks = {q1}
    AskedClaims <- SomeClaims
    Settings <- SomeSettings
    NoManifest = NoManifest
    NoRecord = NoRecord
    NoAsk = NoAsk

    g1 = g1
    g2 = g2
    c1 = c1
    c2 = c2
    PairGrants = {g1, g2}
    PairExp <- ExpOfGrants
    PairNotAfter <- NotAfterOfGrants
    Consumers = {c1, c2}
    PairHandlers = {ch1, ch2}
    SpendsSaved = TRUE
    PairEnd = 2
    NoPairing = NoPairing

    ph1 = ph1
    ph2 = ph2
    w1 = w1
    w2 = w2
    e1 = e1
    RowPhones = {ph1, ph2}
    PushTokens = {tk}
    WaitCards = {w1, w2}
    WindowCards = {w2}
    EntryCards = {e1}
    CardFor <- PhoneOfCards
    RowCalls = {rc1, rc2}
    Removed = Removed
    NoToken = NoToken

    m1 = m1
    m2 = m2
    m3 = m3
    mk1 = mk1
    mk2 = mk2
    mk3 = mk3
    u1 = u1
    u2 = u2
    u3 = u3
    bad = bad
    Members = {m1, m2, m3}
    Passphrase = m1
    MemberKeys = {mk1, mk2, mk3}
    Signatures = {u1, u2, u3, bad}
    SignerOf <- SomeSigners
    MaxSignatures = 4
SYMMETRY Symmetry
INVARIANTS
    ServicesTypeOK
    SpentOnce
    VaultKeepsItsWord
    UsedAsAllowed
    HandedOverOnce
    RemovedIsGone
    QuorumCountsMembers
PROPERTIES
    RevocationsStand
    BookKeepsItsWord
CHECK_DEADLOCK FALSE
