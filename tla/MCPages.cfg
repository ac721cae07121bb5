\* Every page of the web client and the message thread of the app, one per behaviour.
SPECIFICATION MCPagesSpec

CONSTANTS
    Peers = {"ann", "bob"}
    Mutuals = {"ann"}
    Mutable = {"ann"}
    Clips = {2}
    MaxMessages = 2
    MaxMoves = 2

    Others = {"ann", "bob"}
    MutedOthers = {"bob"}
    FirstSide = {"ann"}
    MaxInboxMoves = 4

    Names = {"ann", "bob"}
    Pinners = {"ann"}
    MaxTurns = 3

    Lists = {"home", "feed", "federated", "videos", "notifications"}
    MaxRows = 5
    PageSize = 2
    Tied = {3}
    RowClips = {1, 3, 4}

    LongTexts = {2}
    MaxTexts = 2
    MaxEdits = 2

    Panels = {"profile", "security", "invites", "dev", "admin"}
    MaxPresses = 2

    MaxActs = 2
    MaxLine = 2
    MaxOpens = 2

INVARIANTS
    IncomingAlwaysShown
    ReadAndCounted
    InboxIsCurrent
    PageShowsItsAddress
    FollowButtonTruth
    PagesJoinUp
    TextNeverEaten
    PanelsAreCurrent
    OneStream

CHECK_DEADLOCK FALSE
