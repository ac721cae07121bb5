\* One account per client, two owners of one clip, two hooks, two streams and one sender.
SPECIFICATION MCBackgroundSpec

CONSTANTS
    Users = {"ann"}
    NoOne = "nobody"
    MaxSteps = 2
    Badges = {"dm"}
    MaxTaps = 2
    MaxPolls = 2
    MaxCalls = 1
    Owners = {o1, o2}
    Clips = {c1}
    Callers = {k1}
    MaxRows = 2
    MaxUses = 3
    MaxOutages = 1
    MediaQueueCap = 1
    MediaSurface = {"delete", "post", "edit", "detach", "cleanup"}
    Hooks = {"h1", "h2"}
    NoHook = "none"
    MaxHooks = 1
    StreakLimit = 3
    HookQueueCap = 2
    Deliveries = {"d1", "d2"}
    MaxEvents = 6
    Listeners = {"u1", "u2"}
    Streams = {"s1", "s2"}
    Senders = {"p1"}
    Chans = {"n1", "n2", "n3"}
    NoChan = "none"
    RingCap = 1
    RetainAt = 2
    MaxNotices = 3

INVARIANTS
    StreamFollowsMe
    CacheFollowsMe
    RowsHaveFiles
    HeardOrTold

PROPERTIES
    StreamIsLiveFeed
    BadgeSettles
    VideosSettle
    DisabledForCause

CHECK_DEADLOCK FALSE
