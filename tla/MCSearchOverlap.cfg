\* Requests and tasks overlap, calls fail and requests are cut off.
CONSTANTS
    Users = {adm, u1}
    Admins = {adm}
    Posts = {p1}
    None = None
    PostVis = {"followers", "public"}
    Requests = {r1}
    Appeals = {a1}
    ReportThreshold = 1
    ShadowThreshold = 0
    SuspendThreshold = 0
    HeatCap = 0
    Surface = {"create", "delete", "restore", "report", "appeal", "patch_post",
               "patch_user", "delete_me", "reindex"}
    Cancels = {"stamp", "insert", "fetch", "count", "quarantine", "offense", "revoke", "settle",
               "appeal", "readmit", "reinstate"}
    Tasks = {t1, t2}
    Overlap = TRUE
    Loses = TRUE
SPECIFICATION SearchSpec
INVARIANTS SearchTypeOK OnlyPublicIndexed
CHECK_DEADLOCK FALSE
