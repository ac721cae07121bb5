\* An inviter and an invited account try to leave.
CONSTANTS
    Accounts = {u1, u2, u3}
    Settled = {u1}
    Admins = {}
    Links = {l1, l2}
    Codes = {c1}
    Ceremonies = {y1}
    Grants = {g1}
    Creds = {k1}
    Sessions = {s1, s2}
    Tokens = {t1}
    Recovery = {rc}
    MaxSecret = 2
    MaxStep = 3
    MaxEra = 2
    InviteLimit = 1
    PasskeyLimit = 1
    InvitesRequired = TRUE
    Requests = {r1, r2}
    Traffic <- Leaving
    Serial = {"confirm"}
    Cancels = {}
    None = None
SPECIFICATION Spec
PROPERTIES DeletionSucceeds
CHECK_DEADLOCK FALSE
