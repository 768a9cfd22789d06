SPECIFICATION SiteSpec
CONSTANTS
    c1 = c1
    c2 = c2
    c3 = c3
    f1 = f1
    f2 = f2
    h1 = h1
    h2 = h2
    t1 = t1
    t2 = t2
    h3 = h3
    i1 = i1
    i2 = i2
    reader = reader
    web = web
    worker = worker
    NoOne = NoOne
    Handlers = {t1, t2}
    Links = {"l1", "l2"}
    Newcomers = {"a", "b"}
    Member = reader
    Inviters = {i1}
    Host = i1
    LinkForms <- MCLinkForms
    MaxUses = 1
    MaxRequests = 2
    SignInFaults = 1
    Requests = {h1, h2, h3}
    Subs = {"s1", "s2"}
    Readers = {reader}
    Fresh = {f1, f2}
    MaxInputs = 3
    CoinpayFaults = 1
    Clerks = {h1, h2}
    Redeemers = {c1, c2, c3}
    CodeIds = {"k1"}
    CodeUses = 2
    CodeAsks = 3
    CodeFaults = 2
    Enrolled = {i1, c1, c2}
    Arriving = {c1, c2}
    InviteIds = {"v1", "v2"}
    Quota = 1
    InviteAsks = 5
    InviteFaults = 1
    Callers = {t1, t2}
    ConnectForms = {f1, f2}
    MaxLogins = 2
    MaxGens = 1
    MaxJars = 2
    RadioEvents = 2
    Listening = {c1, c2}
    Listeners = {reader, i1}
    ListenerOf <- MCListenerOf
    LineOwners = {reader}
    TuneTtl = 2
    RelayTime = 2
    RelayAsks = 4
    RelayChanges = 2
    VaultWrites = 2
    VaultEvents = 2
    Watchers = {t1, t2}
    Directories <- MCDirectories
    Upstream <- MCUpstream
    Answers <- MCAnswers
    Passing = {"p"}
    MaxHops = 1
    ListTtl = 1
    WatchTime = 2
    DirectoryMoves = 1
    MaxWants = 3
    TV = {"tv"}
    Radio = {"radio"}
    MaxRow = 2
    PageInputs = 3
    MaxVisits = 2
    LoneTabs = {c1}
    LoneChecks = {c2}
    LoneEndpoints = 2
    BothTabs = {t1, t2}
    BothChecks = {}
    BothEndpoints = 1
    PushFaults = 1
    Talk <- MCTalk
    Circle <- MCCircle
    Remarks <- MCRemarks
    Tied <- MCTied
    Buttons <- MCButtons
    Receipts <- MCReceipts
    Lapsed <- MCLapsed
    Doors = {h1, h2}
    Typed = {"p", "q"}
    DoorFailures = 1
    DoorWindow = 2
    DoorTime = 2
    DoorAsks = 3
    DoorChanges = 1
    Senders = {h1, h2}
    Guests = {i1, i2}
    Strangers = {f1}
    DailyLimit = 1
    PerForm = 2
    MailForms = 3
    MailFaults = 1
    Knockers = {c1, c2, c3}
    FreeAttempts = 1
    BaseLock = 1
    MaxLock = 2
    Decay = 3
    MaxTracked = 2
    ThrottleTime = 7
    Knocks = 4
    Askers = {h1, h2}
    Sources = {"playlist", "seg1", "seg2"}
    Weights <- MCWeights
    Lifetimes <- MCLifetimes
    MaxHeld = 2
    CacheTime = 4
    CacheAsks = 5
INVARIANTS
    SiteTypeOK
    AccountsHold
    StationHolds
PROPERTIES
    LimitsHold
    InvitesHold
    PeopleHold
    MoveIsSafe
    BrowserHolds
CHECK_DEADLOCK FALSE
SYMMETRY Interchangeable
