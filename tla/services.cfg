SPECIFICATION ServicesSpec
CONSTANTS
    Identity = {ann, vic, wim}
    Villager = {vic, wim}
    Log = {l1}
    Run = {r1, r2}
    NoRun = NoRun
    NoOne = NoOne
    Day = 2
    DreamMaxClock = 3
    DreamMaxFaults = 1
    Nights <- MCNights
    ann = ann
    vic = vic
    wim = wim
    a = a
    b = b
    Row = {d1, d2}
    Slug = {a, b}
    Ns = {n1}
    NsOf <- MCNs
    Handler = {h1, h2}
    NoRow = NoRow
    NoSlug = NoSlug
    MaxWrites = 2
    NoteMixes <- MCNoteMixes
    MaxJobs = 1
    MaxCount = 2
    Mail = {m1}
    Chat = {c1, c2}
    Job = {j1}
    Ping = {p1}
    Scene = {sc1, sc2}
    NoScene = NoScene
    Limit = 1
    Cooldown = 1
    Budget = 2
    Retries = 1
    VAMaxClock = 3
    VAMixes <- MCVAMixes
    File = {f1}
    Sync = {s1, s2}
    SyncMixes <- MCSyncMixes
    m1 = m1
    c1 = c1
    c2 = c2
    j1 = j1
    sc1 = sc1
    sc2 = sc2
    p1 = p1
    s1 = s1
    s2 = s2
    In = {i1, i2}
    i1 = i1
    i2 = i2
    Out = {o1}
    o1 = o1
    t1 = t1
    t2 = t2
    Transport = {t1, t2}
    RelayMixes <- MCRelayMixes
    BgJob = {b1, b2, b3}
    NoJob = NoJob
    Order = {order}
    NoOrder = NoOrder
    Limiter = {byWho, byAddress}
    byWho = byWho
    byAddress = byAddress
    First = byWho
    Keys <- MCKeys
    k1 = k1
    k2 = k2
    MaxAttempts <- MCMaxAttempts
    KeyWindow = 2
    MaxKeys = 1
    SweepAt = 1
    SweepInterval = 1
    Request = {q1, q2}
    AttemptsMaxClock = 3
    oa1 = oa1
    oa2 = oa2
    ka = ka
    kb = kb
    co1 = co1
    co2 = co2
    x1 = x1
    x2 = x2
    cb = cb
    cc = cc
    u1 = u1
    OAgent = {oa1, oa2}
    NoOAgent = NoOAgent
    ApiKey = {ka, kb}
    KeyAgent <- MCKeyAgent
    Cimd = {u1}
    Callback = {cb, cc}
    Code = {co1, co2}
    Browser = {br1}
    Exchange = {x1, x2}
    CodeTTL = 1
    SweepEach = 1
    OAuthMixes <- MCOAuthMixes
    me = me
    you = you
    aa = aa
    ab = ab
    lk1 = lk1
    lk2 = lk2
    sv1 = sv1
    sv2 = sv2
    g1 = g1
    Viewer = {me, you}
    Grantable <- MCGrantable
    Peers = {aa, ab}
    Super = Super
    Wildcard = Wildcard
    Lookup = {lk1, lk2}
    Saver = {sv1, sv2}
    AccessMixes <- MCAccessMixes
    rg1 = rg1
    rg2 = rg2
    nw1 = nw1
    ia1 = ia1
    ia2 = ia2
    ic1 = ic1
    ic2 = ic2
    na = na
    nb = nb
    Name = {na, nb}
    Invite = {ic1, ic2}
    NoInvite = NoInvite
    AccessRequest = {ar1}
    Registrant = {rg1, rg2}
    NoteWriter = {nw1}
    InviteAdmin = {ia1, ia2}
    RegMixes <- MCRegMixes
    w1 = w1
    w2 = w2
    Dashboard = {w1, w2}
    SendQueue = 2
    FeedMixes <- MCFeedMixes
    DayLength = 8
    LastInstant = 40
    Walks <- MCWalks
    Months <- MCMonths
    Ranges <- MCRanges
    Slots <- MCSlots
    MaxDelay = 5
    TaskMaxClock = 12
    MaxSteps = 2
CHECK_DEADLOCK FALSE
INVARIANT NoRescan
INVARIANT OneVersion
INVARIANT IndexKept
INVARIANT UsageKept
INVARIANT CallsBounded
INVARIANT SpendBounded
INVARIANT NothingSkipped
INVARIANT SentOnce
INVARIANT WithinLimits
INVARIANT CleanDrain
INVARIANT CodesSound
INVARIANT LookupsCurrent
INVARIANT InvitesSpentOnce
INVARIANT FeedSound
INVARIANT NextRight
INVARIANT FieldsRight
INVARIANT SlotsAccounted
PROPERTY CursorsKept
PROPERTY LogsDreamed
PROPERTY NotCutOff
PROPERTY AgentRecovers
PROPERTY MailAnswered
PROPERTY SyncConverges
PROPERTY PruneSpares
PROPERTY LogUploaded
PROPERTY NamespaceClaimed
