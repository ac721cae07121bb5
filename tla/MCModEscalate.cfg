\* Reports, removals and escalation, two requests in flight.
CONSTANTS
    Users = {adm, u1, u2}
    Admins = {adm}
    Posts = {p1}
    None = None
    PostVis = {"public"}
    Requests = {r1, r2}
    Appeals = {}
    ReportThreshold = 2
    ShadowThreshold = 3
    SuspendThreshold = 5
    HeatCap = 5
    Surface = {"create", "report", "resolve", "patch_post", "delete_me", "cool"}
    Cancels = {}
SPECIFICATION FairSpec
INVARIANTS ModTypeOK AdminsUntouchable NoMissedQuarantine EscalationEnforced
PROPERTIES ReportedPostComesDown
CHECK_DEADLOCK FALSE
