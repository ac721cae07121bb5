\* A ban and its lifting in flight at the same time.
CONSTANTS
    Users = {adm, u1}
    Admins = {adm}
    Posts = {p1}
    None = None
    PostVis = {"public"}
    Requests = {r1, r2}
    Appeals = {}
    ReportThreshold = 2
    ShadowThreshold = 0
    SuspendThreshold = 0
    HeatCap = 0
    Surface = {"create", "shadow", "unshadow"}
    Cancels = {}
SPECIFICATION Spec
INVARIANTS ShadowMatchesFlag
CHECK_DEADLOCK FALSE
