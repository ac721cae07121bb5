\* Posts, verdicts, bans and appeals, one multi-statement request at a time; heat is off.
\* Any request may be cut off, but for the two sweeps of a shadow ban and its lifting.
\* The statements of the posts table are those of PostStore, trash and purge included.
CONSTANTS
    Users = {adm, u1}
    Admins = {adm}
    Posts = {p1, p2}
    None = None
    PostVis = {"followers", "public"}
    Requests = {r1}
    Appeals = {a1}
    ReportThreshold = 2
    ShadowThreshold = 0
    SuspendThreshold = 0
    HeatCap = 0
    Surface = {"create", "edit", "repost", "delete", "restore", "appeal", "patch_post",
               "patch_user", "shadow", "unshadow", "delete_me", "age"}
    Cancels = {"stamp", "insert", "fetch", "repost", "settle", "appeal", "readmit", "reinstate",
               "revoke", "offense"}
SPECIFICATION Spec
SYMMETRY ModSymmetry
INVARIANTS StoreTypeOK CountersExact ReplyNotBroader ShadowMatchesFlag
PROPERTIES VerdictNotLaundered ThreadsSurvivePurge TrashIsKept
CHECK_DEADLOCK FALSE
