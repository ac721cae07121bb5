------------------------------ MODULE Accounts ------------------------------
(***************************************************************************)
(* Accounts and login: magic links, invites and signup (auth.rs,           *)
(* invites.rs), passkeys (passkeys.rs), social login (oauth.rs), sessions  *)
(* and API tokens (session.rs, tokens.rs), the second factor (twofa.rs),   *)
(* suspension (admin.rs, moderation.rs, appeals.rs) and account deletion   *)
(* (users.rs), statement by statement as in Moderation.                    *)
(*                                                                         *)
(* Abstracted away: rate limits (they only refuse), the audit of attempts, *)
(* IP and user-agent drift, usernames, token scopes, cryptography.  Time   *)
(* passes in Expire... actions only; every TOTP step counts as current.    *)
(* The middleware's read of a session and the first SELECT of the handler  *)
(* behind it are one step; every write is a step of its own.               *)
(***************************************************************************)
EXTENDS Integers, FiniteSets

CONSTANTS Accounts,        \* email addresses, each with at most one users row ever
          Settled,         \* those with an account when the instance starts
          Admins,          \* bootstrap_admin_email
          Links, Codes, Ceremonies, Grants, Creds, Sessions, Tokens,
                           \* magic links, invite codes, passkey logins, OAuth states,
                           \* passkeys, sessions, API tokens: the ids there may ever be
          Recovery,        \* the recovery codes of an enrollment
          MaxSecret,       \* bound: enrollments
          MaxStep,         \* bound: TOTP steps 1 .. MaxStep
          MaxEra,          \* bound: suspensions of one account
          InviteLimit,     \* INVITE_DAILY_LIMIT
          PasskeyLimit,    \* MAX_PASSKEYS_PER_USER
          InvitesRequired, \* INVITES_REQUIRED
          Requests,        \* requests that may be in flight at once
          Traffic,         \* the sets of operations an instance may get requests for
          Serial,          \* statements at most one request is at
          Cancels,         \* statements before which a request may be cut off
          None

Operations == {"request", "verify", "invite", "passkey", "oauth", "token", "session",
               "factor", "suspend", "readmit", "delete", "expire"}

Label == {"idle", "issue", "upsert", "signup", "identity", "totp", "session",
          "state", "swap", "creds", "invite", "token", "take", "register",
          "enroll", "confirm", "spend", "clear", "disable",
          "sessions", "tokens", "delete"}

ASSUME AccountsAssumption ==
    /\ Settled \subseteq Accounts
    /\ None \notin Accounts \cup Links \cup Codes \cup Ceremonies \cup Grants
                     \cup Creds \cup Sessions \cup Recovery
    /\ Links \cap (Ceremonies \cup Grants) = {} /\ Ceremonies \cap Grants = {}
    /\ Recovery \cap (1 .. MaxStep) = {}
    /\ MaxSecret \in Nat /\ MaxStep \in Nat /\ MaxEra \in Nat
    /\ InviteLimit \in Nat /\ PasskeyLimit \in Nat
    /\ InvitesRequired \in BOOLEAN
    /\ Serial \subseteq Label /\ Cancels \subseteq Label
    /\ \A T \in Traffic : T \subseteq Operations

VARIABLES role,       \* users.role; "none" before signup, "gone" after deletion
          invitedBy,  \* users.invited_by
          link,       \* auth_tokens, with the invite stashed in Redis
          invite,     \* invites
          session,    \* sessions
          token,      \* api_tokens
          passkey,    \* webauthn_credentials: the owner of each, or None
          enrolling,  \* accounts with a registration ceremony in Redis
          ceremony,   \* login ceremonies in Redis
          grant,      \* OAuth states in Redis, and whether the provider's code is spent
          identity,   \* oauth_identities
          totp,       \* user_totp
          drawn,      \* TOTP secrets drawn so far; the newest is number `drawn`
          era,        \* history: suspensions of each account so far
          cameBy,     \* history: the invite each account signed up with
          spent,      \* history: one-time codes that were accepted
          open,       \* the operations of this instance; never changes
          req         \* the requests in flight

peopleVars  == <<role, invitedBy, cameBy, era>>
passVars    == <<passkey, enrolling, ceremony, grant, identity>>
factorVars  == <<totp, drawn, spent>>
vars == <<peopleVars, link, invite, session, token, passVars, factorVars, open, req>>

----------------------------------------------------------------------------
(* State.                                                                  *)

Roles       == {"none", "member", "admin", "suspended", "gone"}
Credentials == Links \cup Ceremonies \cup Grants
Steps       == 1 .. MaxStep
Factors     == Steps \cup Recovery

Frame == [at      : Label,
          who     : Accounts \cup {None},
          via     : Credentials \cup {None},   \* the credential a login began with
          code    : Codes \cup {None},         \* the pending invite
          cred    : Creds \cup {None},         \* the passkey presented
          session : Sessions \cup {None},      \* the session being challenged
          secret  : 0 .. MaxSecret,            \* the TOTP secret that was read
          last    : 0 .. MaxStep,              \* last_used_step as it was read
          factor  : Factors \cup {None},       \* the code presented
          pending : BOOLEAN]                   \* has_totp as it was read

Idle == [at |-> "idle", who |-> None, via |-> None, code |-> None, cred |-> None,
         session |-> None, secret |-> 0, last |-> 0, factor |-> None, pending |-> FALSE]

LinkRow    == [status : {"unsent", "sent", "used", "expired"},
               to : Accounts \cup {None}, code : Codes \cup {None}]
InviteRow  == [status : {"unmade", "open", "redeemed", "expired", "deleted"},
               by : Accounts \cup {None}, redeemer : Accounts \cup {None}]
SessionRow == [status : {"unmade", "live", "revoked", "deleted"},
               user : Accounts \cup {None}, pending : BOOLEAN,
               via : Credentials \cup {None}, era : 0 .. MaxEra]
TokenRow   == [status : {"unmade", "live", "revoked", "deleted"},
               user : Accounts \cup {None}, era : 0 .. MaxEra]
TotpRow    == [secret : 0 .. MaxSecret, confirmed : BOOLEAN,   \* secret 0: no row
               last : 0 .. MaxStep, codes : SUBSET Recovery]
NoTotp     == [secret |-> 0, confirmed |-> FALSE, last |-> 0, codes |-> {}]

AccountsTypeOK ==
    /\ role \in [Accounts -> Roles]
    /\ invitedBy \in [Accounts -> Accounts \cup {None}]
    /\ link \in [Links -> LinkRow]
    /\ invite \in [Codes -> InviteRow]
    /\ session \in [Sessions -> SessionRow]
    /\ token \in [Tokens -> TokenRow]
    /\ passkey \in [Creds -> Accounts \cup {None}]
    /\ enrolling \subseteq Accounts
    /\ ceremony \in [Ceremonies -> {"unmade", "open", "taken"}]
    /\ grant \in [Grants -> [state : {"unmade", "open", "deleted"}, spent : BOOLEAN]]
    /\ identity \subseteq Accounts
    /\ totp \in [Accounts -> TotpRow]
    /\ drawn \in 0 .. MaxSecret
    /\ era \in [Accounts -> 0 .. MaxEra]
    /\ cameBy \in [Accounts -> Codes \cup {None}]
    /\ spent \subseteq (0 .. MaxSecret) \X Factors
    /\ open \in Traffic
    /\ req \in [Requests -> Frame]

Init ==
    /\ role = [a \in Accounts |-> IF a \notin Settled THEN "none"
                                  ELSE IF a \in Admins THEN "admin" ELSE "member"]
    /\ invitedBy = [a \in Accounts |-> None]
    /\ link = [l \in Links |-> [status |-> "unsent", to |-> None, code |-> None]]
    /\ invite = [c \in Codes |-> [status |-> "unmade", by |-> None, redeemer |-> None]]
    /\ session = [s \in Sessions |-> [status |-> "unmade", user |-> None, pending |-> FALSE,
                                      via |-> None, era |-> 0]]
    /\ token = [t \in Tokens |-> [status |-> "unmade", user |-> None, era |-> 0]]
    /\ passkey = [k \in Creds |-> None]
    /\ enrolling = {}
    /\ ceremony = [y \in Ceremonies |-> "unmade"]
    /\ grant = [g \in Grants |-> [state |-> "unmade", spent |-> FALSE]]
    /\ identity = {}
    /\ totp = [a \in Accounts |-> NoTotp]
    /\ drawn = 0
    /\ era = [a \in Accounts |-> 0]
    /\ cameBy = [a \in Accounts |-> None]
    /\ spent = {}
    /\ open \in Traffic
    /\ req = [r \in Requests |-> Idle]

Present(a)   == role[a] \in {"member", "admin", "suspended"}
At(r, label) == req[r].at = label
Finish(r)    == req' = [req EXCEPT ![r] = Idle]
Goto(r, f)   == /\ f.at \in Serial => \A q \in Requests \ {r} : req[q].at # f.at
                /\ req' = [req EXCEPT ![r] = f]

\* A request for an operation of the instance, on a free frame.
Arrives(r, op) == op \in open /\ At(r, "idle")

----------------------------------------------------------------------------
(* session.rs, auth_extractor.rs: whom a request is served for.            *)

\* SessionUser: a browser session, past its second factor, of an account that is not
\* suspended.
BySession(a) == /\ role[a] \in {"member", "admin"}
                /\ \E s \in Sessions : /\ session[s].status = "live"
                                       /\ session[s].user = a
                                       /\ ~session[s].pending

\* CurrentUser: the same, or an API token.
Served(a) == \/ BySession(a)
             \/ /\ role[a] \in {"member", "admin"}
                /\ \E t \in Tokens : token[t].status = "live" /\ token[t].user = a

----------------------------------------------------------------------------
(* auth.rs                                                                 *)

Redeemable(c) == c # None /\ invite[c].status = "open"

\* request_handler up to the invite gate, which answers 204 as well when it refuses.
RequestLink(r, a, c) ==
    /\ Arrives(r, "request")
    /\ InvitesRequired /\ ~Present(a) => Redeemable(c)
    /\ Goto(r, [Idle EXCEPT !.at = "issue", !.who = a, !.code = c])
    /\ UNCHANGED <<peopleVars, link, invite, session, token, passVars, factorVars, open>>

\* The INSERT, the stashed invite and the mail; before the mail nobody has the link.
IssueLink(r) ==
    /\ At(r, "issue")
    /\ \E l \in Links : /\ link[l].status = "unsent"
                        /\ link' = [link EXCEPT ![l] = [status |-> "sent", to |-> req[r].who,
                                                        code |-> req[r].code]]
    /\ Finish(r)
    /\ UNCHANGED <<peopleVars, invite, session, token, passVars, factorVars, open>>

\* Mutant of ConsumeLink: a link already consumed is accepted.
ConsumeLinkAgain(r, l) ==
    /\ Arrives(r, "verify")
    /\ link[l].status \in {"sent", "used"}
    /\ link' = [link EXCEPT ![l].status = "used"]
    /\ Goto(r, [Idle EXCEPT !.at = "upsert", !.who = link[l].to, !.via = l, !.code = link[l].code])
    /\ UNCHANGED <<peopleVars, invite, session, token, passVars, factorVars, open>>

\* verify_handler: the UPDATE that tests and sets consumed_at; the winner also takes the
\* stashed invite, which nobody else can then reach.
ConsumeLink(r, l) ==
    /\ Arrives(r, "verify")
    /\ link[l].status = "sent"
    /\ link' = [link EXCEPT ![l].status = "used"]
    /\ Goto(r, [Idle EXCEPT !.at = "upsert", !.who = link[l].to, !.via = l, !.code = link[l].code])
    /\ UNCHANGED <<peopleVars, invite, session, token, passVars, factorVars, open>>

\* Where a login goes once its account is known: social login records the identity.
Known(f) == [f EXCEPT !.at = IF f.via \in Grants THEN "identity" ELSE "totp"]

\* upsert_user, its SELECT: a suspended account is refused, an unknown address signs up,
\* with an invite when they are required.  Bound: an address that left does not return.
Upsert(r) ==
    LET f == req[r] IN
    /\ At(r, "upsert")
    /\ CASE role[f.who] \in {"suspended", "gone"} -> Finish(r)
         [] role[f.who] \in {"member", "admin"}   -> Goto(r, Known(f))
         [] role[f.who] = "none" ->
               IF InvitesRequired /\ f.code = None THEN Finish(r)
               ELSE Goto(r, [f EXCEPT !.at = "signup"])
    /\ UNCHANGED <<peopleVars, link, invite, session, token, passVars, factorVars, open>>

Enter(f) ==
    /\ role' = [role EXCEPT ![f.who] = IF f.who \in Admins THEN "admin" ELSE "member"]
    /\ invitedBy' = [invitedBy EXCEPT ![f.who] = IF f.code = None THEN None ELSE invite[f.code].by]
    /\ cameBy' = [cameBy EXCEPT ![f.who] = f.code]
    /\ invite' = IF f.code = None THEN invite
                 ELSE [invite EXCEPT ![f.code].status = "redeemed", ![f.code].redeemer = f.who]

\* Mutant of Signup: the transaction trusts the check made when the link was requested.
SignupTrusting(r) ==
    LET f == req[r] IN
    /\ At(r, "signup")
    /\ IF role[f.who] = "none" THEN Enter(f) /\ Goto(r, Known(f))
       ELSE Finish(r) /\ UNCHANGED <<role, invitedBy, cameBy, invite>>
    /\ UNCHANGED <<era, link, session, token, passVars, factorVars, open>>

\* The transaction: the invite is locked and must still be open, the address must still
\* be free (UNIQUE), else it rolls back.
Signup(r) ==
    LET f == req[r] IN
    /\ At(r, "signup")
    /\ IF role[f.who] = "none" /\ (f.code # None => Redeemable(f.code))
       THEN Enter(f) /\ Goto(r, Known(f))
       ELSE Finish(r) /\ UNCHANGED <<role, invitedBy, cameBy, invite>>
    /\ UNCHANGED <<era, link, session, token, passVars, factorVars, open>>

\* has_totp.
ReadTotp(r) ==
    LET f == req[r] IN
    /\ At(r, "totp")
    /\ Goto(r, [f EXCEPT !.at = "session", !.pending = totp[f.who].confirmed])
    /\ UNCHANGED <<peopleVars, link, invite, session, token, passVars, factorVars, open>>

NewSession(f) == [status |-> "live", user |-> f.who, pending |-> f.pending,
                  via |-> f.via, era |-> era[f.who]]

\* Mutant of InsertSession: no foreign key.
InsertSessionUnkeyed(r) ==
    /\ At(r, "session")
    /\ \E s \in Sessions : /\ session[s].status = "unmade"
                           /\ session' = [session EXCEPT ![s] = NewSession(req[r])]
    /\ Finish(r)
    /\ UNCHANGED <<peopleVars, link, invite, token, passVars, factorVars, open>>

\* The INSERT into sessions, whose foreign key fails when the account has gone.
InsertSession(r) ==
    /\ At(r, "session")
    /\ IF Present(req[r].who)
       THEN \E s \in Sessions : /\ session[s].status = "unmade"
                                /\ session' = [session EXCEPT ![s] = NewSession(req[r])]
       ELSE UNCHANGED session
    /\ Finish(r)
    /\ UNCHANGED <<peopleVars, link, invite, token, passVars, factorVars, open>>

\* logout_handler, and revoke_session of users.rs.
Revoke(s) ==
    /\ "session" \in open
    /\ session[s].status = "live"
    /\ session' = [session EXCEPT ![s].status = "revoked"]
    /\ UNCHANGED <<peopleVars, link, invite, token, passVars, factorVars, open, req>>

\* revoke_other_sessions, from the session s.
RevokeOthers(s) ==
    /\ "session" \in open
    /\ session[s].status = "live" /\ ~session[s].pending
    /\ role[session[s].user] \in {"member", "admin"}
    /\ session' = [q \in Sessions |->
                     IF q # s /\ session[q].user = session[s].user /\ session[q].status = "live"
                     THEN [session[q] EXCEPT !.status = "revoked"] ELSE session[q]]
    /\ UNCHANGED <<peopleVars, link, invite, token, passVars, factorVars, open, req>>

\* Fifteen minutes, fourteen days, thirty days.
ExpireLink(l) ==
    /\ "expire" \in open
    /\ link[l].status = "sent"
    /\ link' = [link EXCEPT ![l].status = "expired"]
    /\ UNCHANGED <<peopleVars, invite, session, token, passVars, factorVars, open, req>>

ExpireInvite(c) ==
    /\ "expire" \in open
    /\ invite[c].status = "open"
    /\ invite' = [invite EXCEPT ![c].status = "expired"]
    /\ UNCHANGED <<peopleVars, link, session, token, passVars, factorVars, open, req>>

----------------------------------------------------------------------------
(* invites.rs                                                              *)

\* create: the day's codes are counted, then one is inserted.  Bound: no day passes.
CountInvites(r, a) ==
    /\ Arrives(r, "invite")
    /\ Served(a)
    /\ Cardinality({c \in Codes : invite[c].by = a /\ invite[c].status # "deleted"}) < InviteLimit
    /\ Goto(r, [Idle EXCEPT !.at = "invite", !.who = a])
    /\ UNCHANGED <<peopleVars, link, invite, session, token, passVars, factorVars, open>>

InsertInvite(r) ==
    /\ At(r, "invite")
    /\ IF Present(req[r].who)
       THEN \E c \in Codes :
               /\ invite[c].status = "unmade"
               /\ invite' = [invite EXCEPT ![c].status = "open", ![c].by = req[r].who]
       ELSE UNCHANGED invite
    /\ Finish(r)
    /\ UNCHANGED <<peopleVars, link, session, token, passVars, factorVars, open>>

\* revoke: an unredeemed code, expired or not.
RevokeInvite(a, c) ==
    /\ "invite" \in open
    /\ Served(a)
    /\ invite[c].by = a /\ invite[c].status \in {"open", "expired"}
    /\ invite' = [invite EXCEPT ![c].status = "deleted"]
    /\ UNCHANGED <<peopleVars, link, session, token, passVars, factorVars, open, req>>

----------------------------------------------------------------------------
(* passkeys.rs                                                             *)

\* register_start: the ceremony replaces one the account has under way.
StartRegistration(a) ==
    /\ "passkey" \in open
    /\ BySession(a)
    /\ enrolling' = enrolling \cup {a}
    /\ UNCHANGED <<peopleVars, link, invite, session, token, passkey, ceremony, grant,
                   identity, factorVars, open, req>>

\* register_finish: the count, the GETDEL, the INSERT.
CountPasskeys(r, a, k) ==
    /\ Arrives(r, "passkey")
    /\ BySession(a)
    /\ Cardinality({q \in Creds : passkey[q] = a}) < PasskeyLimit
    /\ Goto(r, [Idle EXCEPT !.at = "take", !.who = a, !.cred = k])
    /\ UNCHANGED <<peopleVars, link, invite, session, token, passVars, factorVars, open>>

TakeRegistration(r) ==
    /\ At(r, "take")
    /\ IF req[r].who \in enrolling THEN Goto(r, [req[r] EXCEPT !.at = "register"])
                                   ELSE Finish(r)
    /\ enrolling' = enrolling \ {req[r].who}
    /\ UNCHANGED <<peopleVars, link, invite, session, token, passkey, ceremony, grant,
                   identity, factorVars, open>>

\* ON CONFLICT (cred_id) DO NOTHING.
InsertPasskey(r) ==
    LET f == req[r] IN
    /\ At(r, "register")
    /\ passkey' = IF Present(f.who) /\ passkey[f.cred] = None
                  THEN [passkey EXCEPT ![f.cred] = f.who] ELSE passkey
    /\ Finish(r)
    /\ UNCHANGED <<peopleVars, link, invite, session, token, enrolling, ceremony, grant,
                   identity, factorVars, open>>

RemovePasskey(a, k) ==
    /\ "passkey" \in open
    /\ BySession(a)
    /\ passkey[k] = a
    /\ passkey' = [passkey EXCEPT ![k] = None]
    /\ UNCHANGED <<peopleVars, link, invite, session, token, enrolling, ceremony, grant,
                   identity, factorVars, open, req>>

StartLogin(y) ==
    /\ "passkey" \in open
    /\ ceremony[y] = "unmade"
    /\ ceremony' = [ceremony EXCEPT ![y] = "open"]
    /\ UNCHANGED <<peopleVars, link, invite, session, token, passkey, enrolling, grant,
                   identity, factorVars, open, req>>

\* login_finish: the GETDEL, then the credentials of the account the authenticator names,
\* then issue_session.  The account's role is not looked at.
TakeCeremony(r, y, a, k) ==
    /\ Arrives(r, "passkey")
    /\ ceremony[y] = "open"
    /\ ceremony' = [ceremony EXCEPT ![y] = "taken"]
    /\ Goto(r, [Idle EXCEPT !.at = "creds", !.who = a, !.via = y, !.cred = k])
    /\ UNCHANGED <<peopleVars, link, invite, session, token, passkey, enrolling, grant,
                   identity, factorVars, open>>

FindPasskey(r) ==
    LET f == req[r] IN
    /\ At(r, "creds")
    /\ IF passkey[f.cred] = f.who THEN Goto(r, [f EXCEPT !.at = "totp"]) ELSE Finish(r)
    /\ UNCHANGED <<peopleVars, link, invite, session, token, passVars, factorVars, open>>

----------------------------------------------------------------------------
(* oauth.rs; the provider is external and accepts an authorization code once. *)

StartOauth(g) ==
    /\ "oauth" \in open
    /\ grant[g].state = "unmade"
    /\ grant' = [grant EXCEPT ![g].state = "open"]
    /\ UNCHANGED <<peopleVars, link, invite, session, token, passkey, enrolling, ceremony,
                   identity, factorVars, open, req>>

\* callback: the state is read, deleted in a second call, the code is exchanged.
BeginCallback(r, g, a) ==
    /\ Arrives(r, "oauth")
    /\ grant[g].state = "open"
    /\ Goto(r, [Idle EXCEPT !.at = "state", !.who = a, !.via = g])
    /\ UNCHANGED <<peopleVars, link, invite, session, token, passVars, factorVars, open>>

DropState(r) ==
    /\ At(r, "state")
    /\ grant' = [grant EXCEPT ![req[r].via].state = "deleted"]
    /\ Goto(r, [req[r] EXCEPT !.at = "swap"])
    /\ UNCHANGED <<peopleVars, link, invite, session, token, passkey, enrolling, ceremony,
                   identity, factorVars, open>>

\* The exchange and the profile; a linked identity decides the account, an address not
\* linked yet must not be an admin's.
SwapCode(r) ==
    LET f == req[r] IN
    /\ At(r, "swap")
    /\ IF grant[f.via].spent \/ (f.who \notin identity /\ role[f.who] = "admin") THEN Finish(r)
       ELSE Goto(r, [f EXCEPT !.at = IF f.who \in identity THEN "totp" ELSE "upsert"])
    /\ grant' = [grant EXCEPT ![f.via].spent = TRUE]
    /\ UNCHANGED <<peopleVars, link, invite, session, token, passkey, enrolling, ceremony,
                   identity, factorVars, open>>

LinkIdentity(r) ==
    LET f == req[r] IN
    /\ At(r, "identity")
    /\ IF Present(f.who) THEN /\ identity' = identity \cup {f.who}
                              /\ Goto(r, [f EXCEPT !.at = "totp"])
       ELSE Finish(r) /\ UNCHANGED identity
    /\ UNCHANGED <<peopleVars, link, invite, session, token, passkey, enrolling, ceremony,
                   grant, factorVars, open>>

----------------------------------------------------------------------------
(* tokens.rs                                                               *)

BeginToken(r, a) ==
    /\ Arrives(r, "token")
    /\ BySession(a)
    /\ Goto(r, [Idle EXCEPT !.at = "token", !.who = a])
    /\ UNCHANGED <<peopleVars, link, invite, session, token, passVars, factorVars, open>>

InsertToken(r) ==
    LET a == req[r].who IN
    /\ At(r, "token")
    /\ IF Present(a)
       THEN \E t \in Tokens :
               /\ token[t].status = "unmade"
               /\ token' = [token EXCEPT ![t] = [status |-> "live", user |-> a, era |-> era[a]]]
       ELSE UNCHANGED token
    /\ Finish(r)
    /\ UNCHANGED <<peopleVars, link, invite, session, passVars, factorVars, open>>

RevokeToken(a, t) ==
    /\ "token" \in open
    /\ BySession(a)
    /\ token[t].user = a /\ token[t].status = "live"
    /\ token' = [token EXCEPT ![t].status = "revoked"]
    /\ UNCHANGED <<peopleVars, link, invite, session, passVars, factorVars, open, req>>

----------------------------------------------------------------------------
(* twofa.rs                                                                *)

\* enroll: a new secret and codes, unless the enrollment there is confirmed.
BeginEnroll(r, a) ==
    /\ Arrives(r, "factor")
    /\ BySession(a)
    /\ Goto(r, [Idle EXCEPT !.at = "enroll", !.who = a])
    /\ UNCHANGED <<peopleVars, link, invite, session, token, passVars, factorVars, open>>

Enroll(r) ==
    LET a == req[r].who IN
    /\ At(r, "enroll")
    /\ IF Present(a) /\ ~totp[a].confirmed
       THEN /\ drawn < MaxSecret
            /\ drawn' = drawn + 1
            /\ totp' = [totp EXCEPT ![a] = [secret |-> drawn + 1, confirmed |-> FALSE,
                                            last |-> 0, codes |-> Recovery]]
       ELSE UNCHANGED <<totp, drawn>>
    /\ Finish(r)
    /\ UNCHANGED <<peopleVars, link, invite, session, token, passVars, spent, open>>

\* confirm: a code of the pending secret, then an UPDATE with no condition on the row.
BeginConfirm(r, a, k) ==
    /\ Arrives(r, "factor")
    /\ BySession(a)
    /\ totp[a].secret # 0 /\ ~totp[a].confirmed
    /\ k > totp[a].last
    /\ Goto(r, [Idle EXCEPT !.at = "confirm", !.who = a, !.secret = totp[a].secret, !.factor = k])
    /\ UNCHANGED <<peopleVars, link, invite, session, token, passVars, factorVars, open>>

Confirm(r) ==
    LET f == req[r] IN
    /\ At(r, "confirm")
    /\ totp' = IF totp[f.who].secret = 0 THEN totp
               ELSE [totp EXCEPT ![f.who].confirmed = TRUE, ![f.who].last = f.factor]
    /\ spent' = spent \cup {<<f.secret, f.factor>>}
    /\ Finish(r)
    /\ UNCHANGED <<peopleVars, link, invite, session, token, passVars, drawn, open>>

\* challenge: the session and the factor as they are, then a code that fits.
BeginChallenge(r, s, x) ==
    LET a == session[s].user IN
    /\ Arrives(r, "factor")
    /\ session[s].status = "live"
    /\ role[a] \in {"member", "admin"}
    /\ totp[a].confirmed
    /\ x \in Steps => x > totp[a].last
    /\ Goto(r, [Idle EXCEPT !.at = "spend", !.who = a, !.session = s, !.factor = x,
                            !.secret = totp[a].secret, !.last = totp[a].last])
    /\ UNCHANGED <<peopleVars, link, invite, session, token, passVars, factorVars, open>>

\* Mutant of Accepted: the step is compared with the one read before.
AcceptedAsRead(f, row) ==
    /\ row.secret # 0
    /\ IF f.factor \in Steps THEN f.last < f.factor
       ELSE row.secret = f.secret /\ f.factor \in row.codes

\* The condition of the UPDATE that consumes the code: a step is compared with
\* last_used_step, whatever secret is there now; a recovery code is one of those drawn
\* with the secret.
Accepted(f, row) ==
    /\ row.secret # 0
    /\ IF f.factor \in Steps THEN row.last < f.factor
       ELSE row.secret = f.secret /\ f.factor \in row.codes

Spend(r) ==
    LET f == req[r] IN
    /\ At(r, "spend")
    /\ IF Accepted(f, totp[f.who])
       THEN /\ totp' = IF f.factor \in Steps THEN [totp EXCEPT ![f.who].last = f.factor]
                       ELSE [totp EXCEPT ![f.who].codes = @ \ {f.factor}]
            /\ spent' = spent \cup {<<f.secret, f.factor>>}
            /\ Goto(r, [f EXCEPT !.at = "clear"])
       ELSE Finish(r) /\ UNCHANGED <<totp, spent>>
    /\ UNCHANGED <<peopleVars, link, invite, session, token, passVars, drawn, open>>

\* The UPDATE of the session by id, whatever has become of it.
Clear(r) ==
    /\ At(r, "clear")
    /\ session' = [session EXCEPT ![req[r].session].pending = FALSE]
    /\ Finish(r)
    /\ UNCHANGED <<peopleVars, link, invite, token, passVars, factorVars, open>>

\* disable: a code of the confirmed secret, which is not consumed, then the DELETE.
BeginDisable(r, a, k) ==
    /\ Arrives(r, "factor")
    /\ BySession(a)
    /\ totp[a].confirmed
    /\ k > totp[a].last
    /\ Goto(r, [Idle EXCEPT !.at = "disable", !.who = a])
    /\ UNCHANGED <<peopleVars, link, invite, session, token, passVars, factorVars, open>>

Disable(r) ==
    /\ At(r, "disable")
    /\ totp' = [totp EXCEPT ![req[r].who] = NoTotp]
    /\ Finish(r)
    /\ UNCHANGED <<peopleVars, link, invite, session, token, passVars, drawn, spent, open>>

----------------------------------------------------------------------------
(* Suspension: patch_user of admin.rs and auto_suspend of moderation.rs.   *)

\* The role, then the sessions, then the tokens.
Suspend(r, a) ==
    /\ Arrives(r, "suspend")
    /\ role[a] \in {"member", "suspended"}
    /\ era[a] < MaxEra
    /\ role' = [role EXCEPT ![a] = "suspended"]
    /\ era' = [era EXCEPT ![a] = @ + 1]
    /\ Goto(r, [Idle EXCEPT !.at = "sessions", !.who = a])
    /\ UNCHANGED <<invitedBy, cameBy, link, invite, session, token, passVars, factorVars, open>>

Revoked(a, rows) == [k \in DOMAIN rows |-> IF rows[k].user = a /\ rows[k].status = "live"
                                          THEN [rows[k] EXCEPT !.status = "revoked"] ELSE rows[k]]

\* Mutant of SweepSessions: the API tokens are left alone.
SweepSessionsOnly(r) ==
    /\ At(r, "sessions")
    /\ session' = Revoked(req[r].who, session)
    /\ Finish(r)
    /\ UNCHANGED <<peopleVars, link, invite, token, passVars, factorVars, open>>

SweepSessions(r) ==
    /\ At(r, "sessions")
    /\ session' = Revoked(req[r].who, session)
    /\ Goto(r, [req[r] EXCEPT !.at = "tokens"])
    /\ UNCHANGED <<peopleVars, link, invite, token, passVars, factorVars, open>>

SweepTokens(r) ==
    /\ At(r, "tokens")
    /\ token' = Revoked(req[r].who, token)
    /\ Finish(r)
    /\ UNCHANGED <<peopleVars, link, invite, session, passVars, factorVars, open>>

\* Mutant of Readmit: the role written is none of the schema's.
ReadmitUnknown(a) ==
    /\ "readmit" \in open
    /\ role[a] = "suspended"
    /\ role' = [role EXCEPT ![a] = "active"]
    /\ UNCHANGED <<invitedBy, cameBy, era, link, invite, session, token, passVars, factorVars, open, req>>

\* patch_user to 'member', or an appeal granted.
Readmit(a) ==
    /\ "readmit" \in open
    /\ role[a] = "suspended"
    /\ role' = [role EXCEPT ![a] = "member"]
    /\ UNCHANGED <<invitedBy, cameBy, era, link, invite, session, token, passVars, factorVars, open, req>>

----------------------------------------------------------------------------
(* delete_me of users.rs.                                                  *)

BeginDelete(r, a) ==
    /\ Arrives(r, "delete")
    /\ BySession(a)
    /\ role[a] # "admin"
    /\ Goto(r, [Idle EXCEPT !.at = "delete", !.who = a])
    /\ UNCHANGED <<peopleVars, link, invite, session, token, passVars, factorVars, open>>

\* The two references to users that neither cascade nor null: users.invited_by, and
\* invites.redeemed_by of a code that does not go with the account itself.
Referenced(a) ==
    \/ \E b \in Accounts \ {a} : Present(b) /\ invitedBy[b] = a
    \/ \E c \in Codes : /\ invite[c].status = "redeemed"
                        /\ invite[c].redeemer = a /\ invite[c].by # a

\* The DELETE with its cascades, or the foreign key that refuses it.
Delete(r) ==
    LET a == req[r].who IN
    /\ At(r, "delete")
    /\ IF Referenced(a) THEN UNCHANGED <<role, session, token, passkey, identity, totp, invite>>
       ELSE /\ role' = [role EXCEPT ![a] = "gone"]
            /\ session' = [s \in Sessions |-> IF session[s].user = a
                                              THEN [session[s] EXCEPT !.status = "deleted"] ELSE session[s]]
            /\ token' = [t \in Tokens |-> IF token[t].user = a
                                          THEN [token[t] EXCEPT !.status = "deleted"] ELSE token[t]]
            /\ invite' = [c \in Codes |-> IF invite[c].by = a
                                          THEN [invite[c] EXCEPT !.status = "deleted"] ELSE invite[c]]
            /\ passkey' = [k \in Creds |-> IF passkey[k] = a THEN None ELSE passkey[k]]
            /\ identity' = identity \ {a}
            /\ totp' = [totp EXCEPT ![a] = NoTotp]
    /\ Finish(r)
    /\ UNCHANGED <<invitedBy, cameBy, era, link, enrolling, ceremony, grant, drawn, spent, open>>

----------------------------------------------------------------------------

\* The request is dropped before its next statement: a hang-up, the deadline, a restart.
Cancel(r) ==
    /\ req[r].at \in Cancels \ {"idle"}
    /\ Finish(r)
    /\ UNCHANGED <<peopleVars, link, invite, session, token, passVars, factorVars, open>>

Arrive ==
    \E r \in Requests :
       \/ \E a \in Accounts, c \in Codes \cup {None} : RequestLink(r, a, c)
       \/ \E l \in Links : ConsumeLink(r, l)
       \/ \E y \in Ceremonies, a \in Accounts, k \in Creds : TakeCeremony(r, y, a, k)
       \/ \E g \in Grants, a \in Accounts : BeginCallback(r, g, a)
       \/ \E s \in Sessions, x \in Factors : BeginChallenge(r, s, x)
       \/ \E a \in Accounts :
             \/ CountInvites(r, a) \/ BeginToken(r, a) \/ BeginEnroll(r, a)
             \/ BeginDelete(r, a) \/ Suspend(r, a)
             \/ \E k \in Creds : CountPasskeys(r, a, k)
             \/ \E k \in Steps : BeginConfirm(r, a, k) \/ BeginDisable(r, a, k)

Step ==
    \E r \in Requests :
       \/ IssueLink(r) \/ Upsert(r) \/ Signup(r) \/ ReadTotp(r) \/ InsertSession(r)
       \/ InsertInvite(r) \/ InsertToken(r) \/ Cancel(r)
       \/ TakeRegistration(r) \/ InsertPasskey(r) \/ FindPasskey(r)
       \/ DropState(r) \/ SwapCode(r) \/ LinkIdentity(r)
       \/ Enroll(r) \/ Confirm(r) \/ Spend(r) \/ Clear(r) \/ Disable(r)
       \/ SweepSessions(r) \/ SweepTokens(r) \/ Delete(r)

Single ==
    \/ \E s \in Sessions : Revoke(s) \/ RevokeOthers(s)
    \/ \E l \in Links : ExpireLink(l)
    \/ \E c \in Codes : ExpireInvite(c)
    \/ \E y \in Ceremonies : StartLogin(y)
    \/ \E g \in Grants : StartOauth(g)
    \/ \E a \in Accounts : \/ StartRegistration(a) \/ Readmit(a)
                           \/ \E c \in Codes : RevokeInvite(a, c)
                           \/ \E k \in Creds : RemovePasskey(a, k)
                           \/ \E t \in Tokens : RevokeToken(a, t)

Next == Arrive \/ Step \/ Single

Spec == Init /\ [][Next]_vars

----------------------------------------------------------------------------
(* Properties.                                                             *)

\* The statements of a login after its credential was consumed.
InLogin == {"upsert", "signup", "identity", "totp", "session", "creds"}

\* A magic link, a passkey ceremony or an authorization code opens at most one session,
\* however many requests present it at once: there are never two sessions, a session
\* and a login, or two logins that began with the same one.
OneSessionPerCredential ==
    /\ \A s, t \in Sessions :
          session[s].via # None /\ session[s].via = session[t].via => s = t
    /\ \A r \in Requests : req[r].at \in InLogin /\ req[r].via # None =>
          /\ \A s \in Sessions : session[s].via # req[r].via
          /\ \A q \in Requests : req[q].at \in InLogin /\ req[q].via = req[r].via => q = r

\* An invite brings one account and names it, however old the check made when the link
\* was requested, and where invites are required nobody comes without one.
InviteBringsOne ==
    /\ \A a, b \in Accounts : cameBy[a] # None /\ cameBy[a] = cameBy[b] => a = b
    /\ \A a \in Accounts : cameBy[a] # None =>
          invite[cameBy[a]].redeemer = a /\ invitedBy[a] = invite[cameBy[a]].by
    /\ \A c \in Codes : invite[c].redeemer # None => cameBy[invite[c].redeemer] = c
    /\ InvitesRequired => \A a \in Accounts \ Settled : Present(a) => cameBy[a] # None

\* Once the sweeps of a suspension are done, no session or token from before it is alive,
\* even when the account was readmitted in between.
SuspensionRevokes ==
    \A a \in Accounts :
       (\A r \in Requests : req[r].at \in {"sessions", "tokens"} => req[r].who # a) =>
          /\ \A s \in Sessions : session[s].user = a /\ session[s].status = "live" =>
                session[s].era = era[a]
          /\ \A t \in Tokens : token[t].user = a /\ token[t].status = "live" =>
                token[t].era = era[a]

\* "Two concurrent requests can't both spend the same TOTP step or the same recovery
\* code": no challenge is passed with a code of the enrollment there is that was accepted
\* before, when one confirmation is in flight at a time.
CodesSpentOnce ==
    [][\A r \in Requests :
          At(r, "spend") /\ req'[r].at = "clear" /\ req[r].secret = totp[req[r].who].secret =>
          <<req[r].secret, req[r].factor>> \notin spent]_vars

\* Nothing of a deleted account is left or appears later, whatever was in flight.
GoneLeavesNothing ==
    \A a \in Accounts : role[a] = "gone" =>
       /\ \A s \in Sessions : session[s].user = a => session[s].status = "deleted"
       /\ \A t \in Tokens : token[t].user = a => token[t].status = "deleted"
       /\ \A c \in Codes : invite[c].by = a => invite[c].status = "deleted"
       /\ \A k \in Creds : passkey[k] # a
       /\ a \notin identity /\ totp[a] = NoTotp

\* What delete_me promises: the account that asks for it is deleted.
DeletionSucceeds ==
    [][\A r \in Requests : At(r, "delete") /\ req'[r].at # "delete" =>
          role'[req[r].who] = "gone"]_vars
=============================================================================
