CONSTANTS
    i1 = i1
    i2 = i2
    u1 = u1
    u2 = u2
    c1 = c1
    c2 = c2
    s1 = s1
    s2 = s2
    w1 = w1
    w2 = w2
    p1 = p1
    p2 = p2
    m1 = m1
    m2 = m2
    a1 = a1
    a2 = a2
    r1 = r1
    r2 = r2
    j1 = j1
    j2 = j2
    n1 = n1
    n2 = n2
    o1 = o1
    g1 = g1
    Services = {"compliance"}
    Ids = {i1}
    MaxDeliver = 2
    MaxFaults = 2
    Opening = 0
    MaxManual = 2
    Users = {u1}
    Calls = {c1}
    Rate = 2
    Window = 3
    CleanupPeriod = 5
    MaxTime = 9
    Subscribers = {s1, s2}
    BroadcastSize = 1
    ChannelSize = 1
    MaxPrices = 3
    Settings = {w1, w2}
    TemplateChannels <- AllChannels
    WebhookMaxRetries = 3
    Providers = {p1, p2}
    Quotes = {1, 2}
    Hours = {3, 4, 24}
    MaxFetches = 3
    Posts = {m1, m2}
    Dates = {1, 2}
    Submissions = {a1, a2}
    Reviews = {r1, r2}
    Applicants = {u1}
    Jobs = {j1, j2}
    Registrations = {n1, n2}
    People = {u1}
    AccessTTL = 1
    RefreshTTL = 2
    MaxClock = 2
    MaxKeys = 2
    Operators = {o1}
    GatewayRequests = {g1}
    MaxChanges = 2
    Owners = {u1, u2}
    AddressCalls = {c1, c2}
    Payments = {m1, m2}
    Orders = {o1}
    Patches = {p1, p2}
    Schedules <- FeeTiers
    Changes <- FeeChanges
    Events <- TrailEvents
    PageSize = 1
    Grams = {1000, 4005, 10000}
SPECIFICATION Spec
PROPERTIES
    BlockSurvivesOrders
CHECK_DEADLOCK FALSE
