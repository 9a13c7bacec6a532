CONSTANTS
    vol = vol
    fdn = fdn
    plain = plain
    stale = stale
    f1 = f1
    t1 = t1
    t2 = t2
    h1 = h1
    h2 = h2
    p1 = p1
    s1 = s1
    s2 = s2
    cf = cf
    df = df
    None = None
    MaxTime = 3
    Trouble = 2
    Tickets = {t1, t2}
    TTL = 2
    Skew = 1
    MaxEntries = 1
    Stale = 1
    Handlers = {h1, h2}
    MaxHandshakes = 1
    MaxSessions = 2
    SourceSessions = 1
    MaxStreams = 1
    SourceStreams = 1
    Budget = 1
    Punches = {p1}
    MaxRelay = 1
    MaxIP = 1
    Reflectors = {s1, s2}
    Desc <- MCDesc
    Rosters <- MCRosters
    ActiveTimeout = 3
    RankWindow = 5
    RankingMode = "global"
    ListTime = 10
    Histories <- MCHistories
    PageSize = 2
    DirectorySize = 3
    Window = 1
    Defaults <- MCDefaults
    Primary = None
    Unbound = {}
    Loopback = {}
    Pinned = None
    Country = None
    Broker = cf
    Saves = {"dns"}
    Modes = {"proxy", "tun"}
    ServerLists <- MCServerLists
    MaxServers = 1
    Refresh = 1
    Validities = {2}
    MaxJobs = 2
    Mixed = FALSE
    Probes = 2
SPECIFICATION Spec
CHECK_DEADLOCK FALSE
INVARIANTS SlotsAccounted BlamedOnce OutsideTunnel ProbesProven ReliableFirst ListsSound
PROPERTIES HonouredOnce Settles HalvesKept
