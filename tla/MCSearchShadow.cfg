\* A shadow-banned author posts, and anyone finds the post.
CONSTANTS
    Users = {adm, u1}
    Admins = {adm}
    Posts = {p1, p2}
    None = None
    PostVis = {"followers", "public"}
    Requests = {r1}
    Appeals = {a1}
    ReportThreshold = 1
    ShadowThreshold = 0
    SuspendThreshold = 0
    HeatCap = 0
    Surface = {"create", "edit", "delete", "restore", "patch_post",
               "patch_user", "shadow", "unshadow", "delete_me", "reindex"}
    Cancels = {}
    Tasks = {t1}
    Overlap = FALSE
    Loses = FALSE
SPECIFICATION SearchSpec
INVARIANTS ShadowNotSearchable
CHECK_DEADLOCK FALSE
