\* One code, two links, two sessions; two requests in flight, one confirmation at a time.
\* Any request may be cut off, but for the two sweeps of a suspension.
CONSTANTS
    Accounts = {u1, u2, u3}
    Settled = {u1}
    Admins = {}
    Links = {l1, l2}
    Codes = {c1}
    Ceremonies = {y1}
    Grants = {g1}
    Creds = {k1}
    Sessions = {s1, s2}
    Tokens = {t1}
    Recovery = {rc}
    MaxSecret = 2
    MaxStep = 3
    MaxEra = 2
    InviteLimit = 1
    PasskeyLimit = 1
    InvitesRequired = TRUE
    Requests = {r1, r2}
    Traffic <- AllTraffic
    Serial = {"confirm"}
    Cancels = {"issue", "upsert", "session", "clear", "invite", "take", "register", "swap", "delete"}
    None = None
SPECIFICATION Spec
SYMMETRY AccountSymmetry
INVARIANTS AccountsTypeOK OneSessionPerCredential InviteBringsOne SuspensionRevokes GoneLeavesNothing
PROPERTIES CodesSpentOnce
CHECK_DEADLOCK FALSE
