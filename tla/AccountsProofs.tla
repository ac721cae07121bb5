--------------------------- MODULE AccountsProofs ---------------------------
(***************************************************************************)
(* What holds of accounts and logins for any number of accounts, links,    *)
(* sessions and requests in flight: a credential opens one session, an     *)
(* invite brings one account, a deleted account leaves nothing; when its   *)
(* sweeps are not cut off, a suspension revokes what was there; and when   *)
(* confirmations are serial, a code of the second factor is spent once.    *)
(***************************************************************************)
EXTENDS Accounts, TLAPS

\* The tables, without the requests.
Tables ==
    /\ role \in [Accounts -> Roles]
    /\ invitedBy \in [Accounts -> Accounts \cup {None}]
    /\ link \in [Links -> LinkRow]
    /\ invite \in [Codes -> InviteRow]
    /\ session \in [Sessions -> SessionRow]
    /\ token \in [Tokens -> TokenRow]
    /\ passkey \in [Creds -> Accounts \cup {None}]
    /\ enrolling \subseteq Accounts
    /\ ceremony \in [Ceremonies -> {"unmade", "open", "taken"}]
    /\ grant \in [Grants -> [state : {"unmade", "open", "deleted"}, spent : BOOLEAN]]
    /\ identity \subseteq Accounts
    /\ totp \in [Accounts -> TotpRow]
    /\ drawn \in 0 .. MaxSecret
    /\ era \in [Accounts -> 0 .. MaxEra]
    /\ cameBy \in [Accounts -> Codes \cup {None}]
    /\ spent \subseteq (0 .. MaxSecret) \X Factors
    /\ open \in Traffic

\* A link that was sent has an address, a session that was opened an account.
Keyed ==
    /\ \A l \in Links : link[l].status # "unsent" => link[l].to \in Accounts
    /\ \A s \in Sessions : session[s].status # "unmade" => session[s].user \in Accounts

\* What a frame holds at the statements that use it.
FrameFits(f) ==
    /\ f.at # "idle" => f.who \in Accounts
    /\ f.at \in InLogin => f.via \in Credentials
    /\ f.at \in {"state", "swap", "identity"} => f.via \in Grants
    /\ f.at \in {"creds", "take", "register"} => f.cred \in Creds
    /\ f.at \in {"spend", "clear"} => f.session \in Sessions
    /\ f.at = "spend" => f.factor \in Factors
    /\ f.at = "confirm" => f.factor \in Steps

Frames == req \in [Requests -> Frame] /\ \A r \in Requests : FrameFits(req[r])

Typed == Tables /\ Keyed /\ Frames

----------------------------------------------------------------------------
(* Type correctness.                                                        *)

LEMMA IdleFits == Idle \in Frame /\ FrameFits(Idle)
BY AccountsAssumption DEF Idle, Frame, Label, FrameFits, InLogin

LEMMA MoveFits ==
    ASSUME Frames, NEW r \in Requests, NEW f \in Frame, FrameFits(f), Goto(r, f)
    PROVE  Frames'
<1>1. req' = [req EXCEPT ![r] = f]
  BY DEF Goto
<1>2. req' \in [Requests -> Frame]
  BY <1>1 DEF Frames
<1>3. ASSUME NEW q \in Requests
      PROVE  FrameFits(req'[q])
  <2>1. req'[q] = req[q] \/ req'[q] = f
    BY <1>1 DEF Frames
  <2>2. FrameFits(req[q])
    BY DEF Frames
  <2>3. QED
    BY <2>1, <2>2
<1>4. QED
  BY <1>2, <1>3 DEF Frames, FrameFits

LEMMA FinishFits ==
    ASSUME Frames, NEW r \in Requests, Finish(r)
    PROVE  Frames'
<1>1. req' = [req EXCEPT ![r] = Idle]
  BY DEF Finish
<1>2. req' \in [Requests -> Frame]
  BY <1>1, IdleFits DEF Frames
<1>3. ASSUME NEW q \in Requests
      PROVE  FrameFits(req'[q])
  <2>1. req'[q] = req[q] \/ req'[q] = Idle
    BY <1>1 DEF Frames
  <2>2. FrameFits(req[q])
    BY DEF Frames
  <2>3. QED
    BY <2>1, <2>2, IdleFits
<1>4. QED
  BY <1>2, <1>3 DEF Frames, FrameFits

LEMMA TablesSame ==
    ASSUME Tables, Keyed,
           UNCHANGED <<peopleVars, link, invite, session, token, passVars, factorVars, open>>
    PROVE  Tables' /\ Keyed'
BY DEF Tables, Keyed, peopleVars, passVars, factorVars

LEMMA StepTyped ==
    ASSUME Typed, NEW r \in Requests, NEW f, f = req[r],
           \/ IssueLink(r) \/ Upsert(r) \/ Signup(r) \/ ReadTotp(r) \/ InsertSession(r)
           \/ InsertInvite(r) \/ InsertToken(r) \/ Cancel(r)
    PROVE  Typed'
<1>1. f \in Frame /\ FrameFits(f)
  BY DEF Typed, Frames
<1>2. CASE IssueLink(r)
  <2>1. PICK l \in Links : /\ link[l].status = "unsent"
                           /\ link' = [link EXCEPT ![l] = [status |-> "sent", to |-> f.who,
                                                           code |-> f.code]]
    BY <1>2 DEF IssueLink
  <2>2. f.who \in Accounts /\ f.code \in Codes \cup {None}
    BY <1>1, <1>2 DEF IssueLink, At, FrameFits, Frame
  <2>3. link' \in [Links -> LinkRow]
    BY <2>1, <2>2 DEF Typed, Tables, LinkRow
  <2>4. \A m \in Links : link'[m].status # "unsent" => link'[m].to \in Accounts
    BY <2>1, <2>2 DEF Typed, Tables, Keyed
  <2>5. Keyed'
    BY <1>2, <2>4 DEF IssueLink, Typed, Keyed
  <2>6. Tables'
    BY <1>2, <2>3 DEF IssueLink, Typed, Tables, peopleVars, passVars, factorVars
  <2>7. QED
    BY <1>2, <2>5, <2>6, FinishFits DEF IssueLink, Typed
<1>3. CASE Upsert(r)
  <2>1. \A at \in {"identity", "totp", "signup"} :
          f.via \in Grants \/ at # "identity" =>
             LET g == [f EXCEPT !.at = at] IN f.at = "upsert" => g \in Frame /\ FrameFits(g)
    BY <1>1 DEF Frame, FrameFits, Label, InLogin
  <2>2. Finish(r) \/ Goto(r, Known(f)) \/ Goto(r, [f EXCEPT !.at = "signup"])
    BY <1>1, <1>3 DEF Upsert, At, FrameFits, Typed, Tables, Roles
  <2>3. Frames'
    BY <1>3, <2>1, <2>2, FinishFits, MoveFits DEF Known, Upsert, At, Typed
  <2>4. QED
    BY <1>3, <2>3, TablesSame DEF Upsert, Typed
<1>4. CASE Signup(r)
  <2>1. f.who \in Accounts /\ f.code \in Codes \cup {None}
    BY <1>1, <1>4 DEF Signup, At, FrameFits, Frame
  <2>2. Known(f) \in Frame /\ FrameFits(Known(f))
    BY <1>1, <1>4 DEF Signup, At, Known, Frame, FrameFits, Label, InLogin
  <2>3. Frames'
    BY <1>4, <2>2, FinishFits, MoveFits DEF Signup, Typed
  <2>4. CASE Enter(f)
    <3>1. role' \in [Accounts -> Roles] /\ cameBy' \in [Accounts -> Codes \cup {None}]
      BY <2>1, <2>4 DEF Enter, Typed, Tables, Roles
    <3>2. invitedBy' \in [Accounts -> Accounts \cup {None}]
      BY <2>1, <2>4 DEF Enter, Typed, Tables, InviteRow
    <3>3. invite' \in [Codes -> InviteRow]
      BY <2>1, <2>4 DEF Enter, Typed, Tables, InviteRow
    <3>4. QED
      BY <1>4, <2>3, <3>1, <3>2, <3>3 DEF Signup, Typed, Tables, Keyed, passVars, factorVars
  <2>5. CASE UNCHANGED <<role, invitedBy, cameBy, invite>>
    BY <1>4, <2>3, <2>5, TablesSame DEF Signup, Typed, peopleVars
  <2>6. QED
    BY <1>4, <2>4, <2>5 DEF Signup
<1>5. CASE ReadTotp(r)
  <2>1. totp[f.who].confirmed \in BOOLEAN
    BY <1>1, <1>5 DEF ReadTotp, At, FrameFits, Typed, Tables, TotpRow
  <2>2. LET g == [f EXCEPT !.at = "session", !.pending = totp[f.who].confirmed]
        IN  g \in Frame /\ FrameFits(g)
    BY <1>1, <1>5, <2>1 DEF ReadTotp, At, Frame, FrameFits, Label, InLogin
  <2>3. QED
    BY <1>5, <2>2, MoveFits, TablesSame DEF ReadTotp, Typed
<1>6. CASE InsertSession(r)
  <2>1. NewSession(f) \in SessionRow /\ NewSession(f).user \in Accounts
    BY <1>1, <1>6 DEF InsertSession, At, NewSession, SessionRow, FrameFits, Frame, Typed, Tables
  <2>2. session' \in [Sessions -> SessionRow]
    BY <1>6, <2>1 DEF InsertSession, Typed, Tables
  <2>3. \A s \in Sessions : session'[s].status # "unmade" => session'[s].user \in Accounts
    BY <1>6, <2>1 DEF InsertSession, Typed, Tables, Keyed
  <2>4. Keyed'
    BY <1>6, <2>3 DEF InsertSession, Typed, Keyed
  <2>5. Tables'
    BY <1>6, <2>2 DEF InsertSession, Typed, Tables, peopleVars, passVars, factorVars
  <2>6. QED
    BY <1>6, <2>4, <2>5, FinishFits DEF InsertSession, Typed
<1>7. CASE InsertInvite(r)
  <2>1. req[r].who \in Accounts
    BY <1>1, <1>7 DEF InsertInvite, At, FrameFits
  <2>2. invite' \in [Codes -> InviteRow]
    <3>1. CASE UNCHANGED invite
      BY <3>1 DEF Typed, Tables
    <3>2. ASSUME NEW c \in Codes,
                 invite' = [invite EXCEPT ![c].status = "open", ![c].by = req[r].who]
          PROVE  invite' \in [Codes -> InviteRow]
      <4>1. invite[c] \in InviteRow
        BY DEF Typed, Tables
      <4>2. [invite[c] EXCEPT !.status = "open", !.by = req[r].who] \in InviteRow
        BY <2>1, <4>1 DEF InviteRow
      <4>3. QED
        BY <3>2, <4>2 DEF Typed, Tables
    <3>3. QED
      BY <1>7, <3>1, <3>2 DEF InsertInvite
  <2>3. QED
    BY <1>7, <2>2, FinishFits DEF InsertInvite, Typed, Tables, Keyed, peopleVars, passVars, factorVars
<1>8. CASE InsertToken(r)
  <2>1. token' \in [Tokens -> TokenRow]
    BY <1>1, <1>8 DEF InsertToken, At, FrameFits, Typed, Tables, TokenRow
  <2>2. QED
    BY <1>8, <2>1, FinishFits DEF InsertToken, Typed, Tables, Keyed, peopleVars, passVars, factorVars
<1>9. CASE Cancel(r)
  BY <1>9, FinishFits, TablesSame DEF Cancel, Typed
<1>10. QED
  BY <1>2, <1>3, <1>4, <1>5, <1>6, <1>7, <1>8, <1>9

LEMMA CeremonyStepTyped ==
    ASSUME Typed, NEW r \in Requests, NEW f, f = req[r],
           \/ TakeRegistration(r) \/ InsertPasskey(r) \/ FindPasskey(r)
           \/ DropState(r) \/ SwapCode(r) \/ LinkIdentity(r)
    PROVE  Typed'
<1>1. f \in Frame /\ FrameFits(f)
  BY DEF Typed, Frames
<1>2. CASE TakeRegistration(r)
  <2>1. LET g == [f EXCEPT !.at = "register"] IN g \in Frame /\ FrameFits(g)
    BY <1>1, <1>2 DEF TakeRegistration, At, Frame, FrameFits, Label, InLogin
  <2>2. Frames'
    BY <1>2, <2>1, FinishFits, MoveFits DEF TakeRegistration, Typed
  <2>3. QED
    BY <1>2, <2>2 DEF TakeRegistration, Typed, Tables, Keyed, peopleVars, factorVars
<1>3. CASE InsertPasskey(r)
  <2>1. passkey' \in [Creds -> Accounts \cup {None}]
    BY <1>1, <1>3 DEF InsertPasskey, At, FrameFits, Typed, Tables
  <2>2. QED
    BY <1>3, <2>1, FinishFits DEF InsertPasskey, Typed, Tables, Keyed, peopleVars, factorVars
<1>4. CASE FindPasskey(r)
  <2>1. LET g == [f EXCEPT !.at = "totp"] IN g \in Frame /\ FrameFits(g)
    BY <1>1, <1>4 DEF FindPasskey, At, Frame, FrameFits, Label, InLogin
  <2>2. QED
    BY <1>4, <2>1, FinishFits, MoveFits, TablesSame DEF FindPasskey, Typed
<1>5. CASE DropState(r)
  <2>1. LET g == [f EXCEPT !.at = "swap"] IN g \in Frame /\ FrameFits(g)
    BY <1>1, <1>5 DEF DropState, At, Frame, FrameFits, Label, InLogin
  <2>2. grant' \in [Grants -> [state : {"unmade", "open", "deleted"}, spent : BOOLEAN]]
    BY <1>5 DEF DropState, Typed, Tables
  <2>3. QED
    BY <1>5, <2>1, <2>2, MoveFits DEF DropState, Typed, Tables, Keyed, peopleVars, factorVars
<1>6. CASE SwapCode(r)
  <2>1. \A at \in {"totp", "upsert"} :
           LET g == [f EXCEPT !.at = at] IN g \in Frame /\ FrameFits(g)
    BY <1>1, <1>6 DEF SwapCode, At, Frame, FrameFits, Label, InLogin, Credentials
  <2>2. Frames'
    BY <1>6, <2>1, FinishFits, MoveFits DEF SwapCode, Typed
  <2>3. grant' \in [Grants -> [state : {"unmade", "open", "deleted"}, spent : BOOLEAN]]
    BY <1>6 DEF SwapCode, Typed, Tables
  <2>4. QED
    BY <1>6, <2>2, <2>3 DEF SwapCode, Typed, Tables, Keyed, peopleVars, factorVars
<1>7. CASE LinkIdentity(r)
  <2>1. LET g == [f EXCEPT !.at = "totp"] IN g \in Frame /\ FrameFits(g)
    BY <1>1, <1>7 DEF LinkIdentity, At, Frame, FrameFits, Label, InLogin
  <2>2. Frames'
    BY <1>7, <2>1, FinishFits, MoveFits DEF LinkIdentity, Typed
  <2>3. identity' \subseteq Accounts
    BY <1>1, <1>7 DEF LinkIdentity, At, FrameFits, Typed, Tables
  <2>4. QED
    BY <1>7, <2>2, <2>3 DEF LinkIdentity, Typed, Tables, Keyed, peopleVars, factorVars
<1>8. QED
  BY <1>2, <1>3, <1>4, <1>5, <1>6, <1>7

LEMMA FactorStepTyped ==
    ASSUME Typed, NEW r \in Requests, NEW f, f = req[r],
           Enroll(r) \/ Confirm(r) \/ Spend(r) \/ Clear(r) \/ Disable(r)
    PROVE  Typed'
<1>1. f \in Frame /\ FrameFits(f)
  BY DEF Typed, Frames
<1>2. NoTotp \in TotpRow /\ \A n \in 0 .. MaxSecret :
         [secret |-> n, confirmed |-> FALSE, last |-> 0, codes |-> Recovery] \in TotpRow
  BY AccountsAssumption DEF NoTotp, TotpRow
<1>3. CASE Enroll(r)
  <2>1. f.who \in Accounts
    BY <1>1, <1>3 DEF Enroll, At, FrameFits
  <2>2. drawn' \in 0 .. MaxSecret
    BY <1>3, AccountsAssumption DEF Enroll, Typed, Tables
  <2>3. totp' \in [Accounts -> TotpRow]
    BY <1>2, <1>3, <2>1, <2>2 DEF Enroll, Typed, Tables
  <2>4. QED
    BY <1>3, <2>2, <2>3, FinishFits DEF Enroll, Typed, Tables, Keyed, peopleVars, passVars
<1>4. CASE Confirm(r)
  <2>1. f.who \in Accounts /\ f.factor \in Steps /\ f.secret \in 0 .. MaxSecret
    BY <1>1, <1>4 DEF Confirm, At, FrameFits, Frame
  <2>2. totp[f.who] \in TotpRow
    BY <2>1 DEF Typed, Tables
  <2>3. [totp[f.who] EXCEPT !.confirmed = TRUE, !.last = f.factor] \in TotpRow
    <3>1. f.factor \in 0 .. MaxStep
      BY <2>1, AccountsAssumption DEF Steps
    <3>2. QED
      BY <2>2, <3>1 DEF TotpRow
  <2>4. totp' \in [Accounts -> TotpRow]
    BY <1>4, <2>1, <2>3 DEF Confirm, Typed, Tables
  <2>5. spent' \subseteq (0 .. MaxSecret) \X Factors
    BY <1>4, <2>1 DEF Confirm, Typed, Tables, Factors
  <2>6. QED
    BY <1>4, <2>4, <2>5, FinishFits DEF Confirm, Typed, Tables, Keyed, peopleVars, passVars
<1>5. CASE Spend(r)
  <2>1. f.who \in Accounts /\ f.factor \in Factors /\ f.secret \in 0 .. MaxSecret
        /\ f.session \in Sessions
    BY <1>1, <1>5 DEF Spend, At, FrameFits, Frame
  <2>2. totp[f.who] \in TotpRow
    BY <2>1 DEF Typed, Tables
  <2>3. /\ f.factor \in Steps => [totp[f.who] EXCEPT !.last = f.factor] \in TotpRow
        /\ [totp[f.who] EXCEPT !.codes = @ \ {f.factor}] \in TotpRow
    BY <2>1, <2>2, AccountsAssumption DEF TotpRow, Steps
  <2>4. totp' \in [Accounts -> TotpRow]
    BY <1>5, <2>1, <2>3 DEF Spend, Typed, Tables
  <2>5. spent' \subseteq (0 .. MaxSecret) \X Factors
    BY <1>5, <2>1 DEF Spend, Typed, Tables
  <2>6. LET g == [f EXCEPT !.at = "clear"] IN g \in Frame /\ FrameFits(g)
    BY <1>1, <2>1 DEF Frame, FrameFits, Label, InLogin
  <2>7. Frames'
    BY <1>5, <2>6, FinishFits, MoveFits DEF Spend, Typed
  <2>8. QED
    BY <1>5, <2>4, <2>5, <2>7 DEF Spend, Typed, Tables, Keyed, peopleVars, passVars
<1>6. CASE Clear(r)
  <2>1. session' \in [Sessions -> SessionRow]
    <3>1. f.session \in Sessions
      BY <1>1, <1>6 DEF Clear, At, FrameFits
    <3>2. session[f.session] \in SessionRow
      BY <3>1 DEF Typed, Tables
    <3>3. [session[f.session] EXCEPT !.pending = FALSE] \in SessionRow
      BY <3>2 DEF SessionRow
    <3>4. QED
      BY <1>6, <3>3 DEF Clear, Typed, Tables
  <2>2. \A s \in Sessions : session'[s].status = session[s].status /\ session'[s].user = session[s].user
    BY <1>6 DEF Clear, Typed, Tables, SessionRow
  <2>3. Keyed'
    BY <1>6, <2>2 DEF Clear, Typed, Keyed
  <2>4. Tables'
    BY <1>6, <2>1 DEF Clear, Typed, Tables, peopleVars, passVars, factorVars
  <2>5. QED
    BY <1>6, <2>3, <2>4, FinishFits DEF Clear, Typed
<1>7. CASE Disable(r)
  <2>1. totp' \in [Accounts -> TotpRow]
    BY <1>2, <1>7 DEF Disable, Typed, Tables
  <2>2. QED
    BY <1>7, <2>1, FinishFits DEF Disable, Typed, Tables, Keyed, peopleVars, passVars
<1>8. QED
  BY <1>3, <1>4, <1>5, <1>6, <1>7

LEMMA RevokedRows ==
    ASSUME NEW a, NEW K, NEW rows,
           rows \in [K -> SessionRow] \/ rows \in [K -> TokenRow]
    PROVE  /\ rows \in [K -> SessionRow] => Revoked(a, rows) \in [K -> SessionRow]
           /\ rows \in [K -> TokenRow] => Revoked(a, rows) \in [K -> TokenRow]
           /\ \A k \in K : /\ Revoked(a, rows)[k].user = rows[k].user
                           /\ Revoked(a, rows)[k].era = rows[k].era
                           /\ Revoked(a, rows)[k].status =
                                 IF rows[k].user = a /\ rows[k].status = "live" THEN "revoked"
                                 ELSE rows[k].status
<1>1. \A row \in SessionRow : [row EXCEPT !.status = "revoked"] \in SessionRow
  BY DEF SessionRow
<1>2. \A row \in TokenRow : [row EXCEPT !.status = "revoked"] \in TokenRow
  BY DEF TokenRow
<1>3. \A row \in SessionRow \cup TokenRow :
         LET new == [row EXCEPT !.status = "revoked"]
         IN  new.user = row.user /\ new.era = row.era /\ new.status = "revoked"
  BY DEF SessionRow, TokenRow
<1>4. QED
  BY <1>1, <1>2, <1>3 DEF Revoked

LEMMA LeavingStepTyped ==
    ASSUME Typed, NEW r \in Requests, NEW f, f = req[r],
           SweepSessions(r) \/ SweepTokens(r) \/ Delete(r)
    PROVE  Typed'
<1>1. f \in Frame /\ FrameFits(f)
  BY DEF Typed, Frames
<1>2. CASE SweepSessions(r)
  <2>1. LET g == [f EXCEPT !.at = "tokens"] IN g \in Frame /\ FrameFits(g)
    BY <1>1, <1>2 DEF SweepSessions, At, Frame, FrameFits, Label, InLogin
  <2>2. /\ session' \in [Sessions -> SessionRow]
        /\ \A s \in Sessions : /\ session'[s].user = session[s].user
                               /\ session'[s].status # "unmade" => session[s].status # "unmade"
    <3>1. session \in [Sessions -> SessionRow] /\ session' = Revoked(f.who, session)
      BY <1>2 DEF SweepSessions, Typed, Tables
    <3>2. QED
      BY <3>1, RevokedRows
  <2>3. Keyed'
    BY <1>2, <2>2 DEF SweepSessions, Typed, Keyed
  <2>4. Tables'
    BY <1>2, <2>2 DEF SweepSessions, Typed, Tables, peopleVars, passVars, factorVars
  <2>5. QED
    BY <1>2, <2>1, <2>3, <2>4, MoveFits DEF SweepSessions, Typed
<1>3. CASE SweepTokens(r)
  <2>1. token' \in [Tokens -> TokenRow]
    BY <1>3, RevokedRows DEF SweepTokens, Typed, Tables
  <2>2. QED
    BY <1>3, <2>1, FinishFits DEF SweepTokens, Typed, Tables, Keyed, peopleVars, passVars, factorVars
<1>4. CASE Delete(r)
  <2>1. CASE Referenced(f.who)
    BY <1>4, <2>1, FinishFits DEF Delete, Typed, Tables, Keyed, passVars, factorVars
  <2>2. CASE ~Referenced(f.who)
    <3>1. role' \in [Accounts -> Roles]
      BY <1>4, <2>2 DEF Delete, Typed, Tables, Roles
    <3>2. /\ session' \in [Sessions -> SessionRow]
          /\ \A s \in Sessions : /\ session'[s].user = session[s].user
                                 /\ session[s].user = f.who \/ session'[s] = session[s]
      <4>1. \A row \in SessionRow :
               LET new == [row EXCEPT !.status = "deleted"]
               IN  new \in SessionRow /\ new.user = row.user
        BY DEF SessionRow
      <4>2. session \in [Sessions -> SessionRow]
        BY DEF Typed, Tables
      <4>3. session' = [s \in Sessions |-> IF session[s].user = f.who
                          THEN [session[s] EXCEPT !.status = "deleted"] ELSE session[s]]
        BY <1>4, <2>2 DEF Delete
      <4>4. QED
        BY <4>1, <4>2, <4>3
    <3>3. token' \in [Tokens -> TokenRow]
      BY <1>4, <2>2 DEF Delete, Typed, Tables, TokenRow
    <3>4. invite' \in [Codes -> InviteRow]
      <4>1. \A row \in InviteRow : [row EXCEPT !.status = "deleted"] \in InviteRow
        BY DEF InviteRow
      <4>2. QED
        BY <1>4, <2>2, <4>1 DEF Delete, Typed, Tables
    <3>5. passkey' \in [Creds -> Accounts \cup {None}] /\ identity' \subseteq Accounts
      BY <1>4, <2>2 DEF Delete, Typed, Tables
    <3>6. totp' \in [Accounts -> TotpRow]
      <4>1. NoTotp \in TotpRow
        BY AccountsAssumption DEF NoTotp, TotpRow
      <4>2. QED
        BY <1>4, <2>2, <4>1 DEF Delete, Typed, Tables
    <3>7. Keyed'
      <4>1. f.who \in Accounts
        BY <1>1, <1>4 DEF Delete, At, FrameFits
      <4>2. QED
        BY <1>4, <3>2, <4>1 DEF Delete, Typed, Keyed
    <3>8. Tables'
      BY <1>4, <3>1, <3>2, <3>3, <3>4, <3>5, <3>6 DEF Delete, Typed, Tables
    <3>9. QED
      BY <1>4, <3>7, <3>8, FinishFits DEF Delete, Typed
  <2>3. QED
    BY <2>1, <2>2
<1>5. QED
  BY <1>2, <1>3, <1>4

LEMMA ArriveTyped ==
    ASSUME Typed, Arrive
    PROVE  Typed'
<1>1. PICK r \in Requests :
         \/ \E a \in Accounts, c \in Codes \cup {None} : RequestLink(r, a, c)
         \/ \E l \in Links : ConsumeLink(r, l)
         \/ \E y \in Ceremonies, a \in Accounts, k \in Creds : TakeCeremony(r, y, a, k)
         \/ \E g \in Grants, a \in Accounts : BeginCallback(r, g, a)
         \/ \E s \in Sessions, x \in Factors : BeginChallenge(r, s, x)
         \/ \E a \in Accounts :
               \/ CountInvites(r, a) \/ BeginToken(r, a) \/ BeginEnroll(r, a)
               \/ BeginDelete(r, a) \/ Suspend(r, a)
               \/ \E k \in Creds : CountPasskeys(r, a, k)
               \/ \E k \in Steps : BeginConfirm(r, a, k) \/ BeginDisable(r, a, k)
  BY DEF Arrive
<1>2. ASSUME NEW a \in Accounts, NEW at \in Label \ (InLogin \cup {"state", "swap", "take", "register",
                                                    "spend", "clear", "confirm"})
      PROVE  [Idle EXCEPT !.at = at, !.who = a] \in Frame
             /\ FrameFits([Idle EXCEPT !.at = at, !.who = a])
  BY <1>2, IdleFits DEF Frame, FrameFits, InLogin
<1>3. ASSUME NEW a \in Accounts, NEW c \in Codes \cup {None}, RequestLink(r, a, c)
      PROVE  Typed'
  <2>1. LET g == [Idle EXCEPT !.at = "issue", !.who = a, !.code = c]
        IN  g \in Frame
    BY IdleFits DEF Frame, Label
  <2>1a. LET g == [Idle EXCEPT !.at = "issue", !.who = a, !.code = c]
        IN  FrameFits(g)
    BY IdleFits DEF Frame, FrameFits, InLogin
  <2>2. QED
    BY <1>3, <2>1, <2>1a, MoveFits, TablesSame DEF RequestLink, Typed
<1>4. ASSUME NEW l \in Links, ConsumeLink(r, l)
      PROVE  Typed'
  <2>1. link[l] \in LinkRow /\ link[l].to \in Accounts
    BY <1>4 DEF ConsumeLink, Typed, Tables, Keyed
  <2>2. LET g == [Idle EXCEPT !.at = "upsert", !.who = link[l].to, !.via = l, !.code = link[l].code]
        IN  g \in Frame
    BY <2>1, IdleFits DEF Frame, Label, LinkRow, Credentials
  <2>2a. LET g == [Idle EXCEPT !.at = "upsert", !.who = link[l].to, !.via = l, !.code = link[l].code]
        IN  FrameFits(g)
    BY <2>1, IdleFits DEF Frame, FrameFits, InLogin, LinkRow, Credentials
  <2>3. link' \in [Links -> LinkRow]
    BY <1>4, <2>1 DEF ConsumeLink, Typed, Tables, LinkRow
  <2>4. \A m \in Links : link'[m].status # "unsent" => link'[m].to \in Accounts
    BY <1>4, <2>1 DEF ConsumeLink, Typed, Tables, Keyed, LinkRow
  <2>5. Keyed' /\ Tables'
    BY <1>4, <2>3, <2>4 DEF ConsumeLink, Typed, Tables, Keyed, peopleVars, passVars, factorVars
  <2>6. QED
    BY <1>4, <2>2, <2>2a, <2>5, MoveFits DEF ConsumeLink, Typed
<1>5. ASSUME NEW y \in Ceremonies, NEW a \in Accounts, NEW k \in Creds, TakeCeremony(r, y, a, k)
      PROVE  Typed'
  <2>1. LET g == [Idle EXCEPT !.at = "creds", !.who = a, !.via = y, !.cred = k]
        IN  g \in Frame
    BY IdleFits DEF Frame, Label, Credentials
  <2>1a. LET g == [Idle EXCEPT !.at = "creds", !.who = a, !.via = y, !.cred = k]
        IN  FrameFits(g)
    BY IdleFits DEF Frame, FrameFits, InLogin, Credentials
  <2>2. ceremony' \in [Ceremonies -> {"unmade", "open", "taken"}]
    BY <1>5 DEF TakeCeremony, Typed, Tables
  <2>3. QED
    BY <1>5, <2>1, <2>1a, <2>2, MoveFits DEF TakeCeremony, Typed, Tables, Keyed, peopleVars, factorVars
<1>6. ASSUME NEW g \in Grants, NEW a \in Accounts, BeginCallback(r, g, a)
      PROVE  Typed'
  <2>1. LET h == [Idle EXCEPT !.at = "state", !.who = a, !.via = g]
        IN  h \in Frame
    BY IdleFits DEF Frame, Label, Credentials
  <2>1a. LET h == [Idle EXCEPT !.at = "state", !.who = a, !.via = g]
        IN  FrameFits(h)
    BY IdleFits DEF Frame, FrameFits, InLogin, Credentials
  <2>2. QED
    BY <1>6, <2>1, <2>1a, MoveFits, TablesSame DEF BeginCallback, Typed
<1>7. ASSUME NEW s \in Sessions, NEW x \in Factors, BeginChallenge(r, s, x)
      PROVE  Typed'
  <2>1. session[s].user \in Accounts
    BY <1>7 DEF BeginChallenge, Typed, Keyed
  <2>2. totp[session[s].user] \in TotpRow
    BY <2>1 DEF Typed, Tables
  <2>3. LET a == session[s].user
            g == [Idle EXCEPT !.at = "spend", !.who = a, !.session = s, !.factor = x,
                              !.secret = totp[a].secret, !.last = totp[a].last]
        IN  g \in Frame
    BY <2>1, <2>2, IdleFits DEF Frame, Label, TotpRow
  <2>3a. LET a == session[s].user
            g == [Idle EXCEPT !.at = "spend", !.who = a, !.session = s, !.factor = x,
                              !.secret = totp[a].secret, !.last = totp[a].last]
        IN  FrameFits(g)
    BY <2>1, <2>2, IdleFits DEF Frame, FrameFits, InLogin, TotpRow
  <2>4. QED
    BY <1>7, <2>3, <2>3a, MoveFits, TablesSame DEF BeginChallenge, Typed
<1>8. ASSUME NEW a \in Accounts,
             CountInvites(r, a) \/ BeginToken(r, a) \/ BeginEnroll(r, a) \/ BeginDelete(r, a)
      PROVE  Typed'
  <2>1. \E at \in {"invite", "token", "enroll", "delete"} : Goto(r, [Idle EXCEPT !.at = at, !.who = a])
    BY <1>8 DEF CountInvites, BeginToken, BeginEnroll, BeginDelete
  <2>2. Frames'
    BY <1>2, <2>1, MoveFits DEF Label, InLogin, Typed
  <2>3. QED
    BY <1>8, <2>2, TablesSame DEF CountInvites, BeginToken, BeginEnroll, BeginDelete, Typed
<1>9. ASSUME NEW a \in Accounts, Suspend(r, a)
      PROVE  Typed'
  <2>1. Frames'
    BY <1>2, <1>9, MoveFits DEF Suspend, Label, InLogin, Typed
  <2>2. role' \in [Accounts -> Roles]
    BY <1>9 DEF Suspend, Typed, Tables, Roles
  <2>3. era' \in [Accounts -> 0 .. MaxEra]
    BY <1>9, AccountsAssumption DEF Suspend, Typed, Tables
  <2>4. QED
    BY <1>9, <2>1, <2>2, <2>3 DEF Suspend, Typed, Tables, Keyed, passVars, factorVars
<1>10. ASSUME NEW a \in Accounts, NEW k \in Creds, CountPasskeys(r, a, k)
       PROVE  Typed'
  <2>1. LET g == [Idle EXCEPT !.at = "take", !.who = a, !.cred = k]
        IN  g \in Frame
    BY IdleFits DEF Frame, Label
  <2>1a. LET g == [Idle EXCEPT !.at = "take", !.who = a, !.cred = k]
        IN  FrameFits(g)
    BY IdleFits DEF Frame, FrameFits, InLogin
  <2>2. QED
    BY <1>10, <2>1, <2>1a, MoveFits, TablesSame DEF CountPasskeys, Typed
<1>11. ASSUME NEW a \in Accounts, NEW k \in Steps, BeginConfirm(r, a, k)
       PROVE  Typed'
  <2>1. totp[a] \in TotpRow
    BY DEF Typed, Tables
  <2>2. LET g == [Idle EXCEPT !.at = "confirm", !.who = a, !.secret = totp[a].secret, !.factor = k]
        IN  g \in Frame
    BY <2>1, IdleFits DEF Frame, Label, TotpRow, Factors
  <2>2a. LET g == [Idle EXCEPT !.at = "confirm", !.who = a, !.secret = totp[a].secret, !.factor = k]
        IN  FrameFits(g)
    BY <2>1, IdleFits DEF Frame, FrameFits, InLogin, TotpRow, Factors
  <2>3. QED
    BY <1>11, <2>2, <2>2a, MoveFits, TablesSame DEF BeginConfirm, Typed
<1>12. ASSUME NEW a \in Accounts, NEW k \in Steps, BeginDisable(r, a, k)
       PROVE  Typed'
  <2>1. Frames'
    BY <1>2, <1>12, MoveFits DEF BeginDisable, Label, InLogin, Typed
  <2>2. QED
    BY <1>12, <2>1, TablesSame DEF BeginDisable, Typed
<1>13. QED
  BY <1>1, <1>3, <1>4, <1>5, <1>6, <1>7, <1>8, <1>9, <1>10, <1>11, <1>12

\* The rows of a table are only ever revoked by the handlers without a frame.
LEMMA SingleTyped ==
    ASSUME Typed, Single
    PROVE  Typed'
<1>1. CASE \E s \in Sessions : Revoke(s) \/ RevokeOthers(s)
  <2>1. PICK s \in Sessions : Revoke(s) \/ RevokeOthers(s)
    BY <1>1
  <2>2. \A row \in SessionRow :
           LET new == [row EXCEPT !.status = "revoked"]
           IN  new \in SessionRow /\ new.user = row.user /\ new.status = "revoked"
    BY DEF SessionRow
  <2>3. \A q \in Sessions : session'[q] = session[q]
                           \/ /\ session'[q] = [session[q] EXCEPT !.status = "revoked"]
                              /\ session[q].status # "unmade"
    BY <2>1 DEF Revoke, RevokeOthers, Typed, Tables
  <2>4. session' \in [Sessions -> SessionRow]
    BY <2>1, <2>2 DEF Revoke, RevokeOthers, Typed, Tables
  <2>5. Keyed'
    BY <2>1, <2>2, <2>3 DEF Revoke, RevokeOthers, Typed, Tables, Keyed
  <2>6. QED
    BY <2>1, <2>4, <2>5 DEF Revoke, RevokeOthers, Typed, Tables, Frames, peopleVars, passVars, factorVars
<1>2. ASSUME NEW l \in Links, ExpireLink(l)
      PROVE  Typed'
  <2>1. [link[l] EXCEPT !.status = "expired"] \in LinkRow /\ link[l].to \in Accounts
    BY <1>2 DEF ExpireLink, Typed, Tables, Keyed, LinkRow
  <2>2. link' \in [Links -> LinkRow] /\ \A m \in Links : link'[m].to = link[m].to
                                         /\ (link'[m].status # "unsent" => link[m].status # "unsent")
    BY <1>2, <2>1 DEF ExpireLink, Typed, Tables, LinkRow
  <2>3. Keyed'
    BY <1>2, <2>2 DEF ExpireLink, Typed, Keyed
  <2>4. QED
    BY <1>2, <2>2, <2>3 DEF ExpireLink, Typed, Tables, Frames, peopleVars, passVars, factorVars
<1>3. ASSUME NEW a, NEW c \in Codes, ExpireInvite(c) \/ RevokeInvite(a, c)
      PROVE  Typed'
  <2>1. \A st \in {"expired", "deleted"} : [invite[c] EXCEPT !.status = st] \in InviteRow
    BY DEF Typed, Tables, InviteRow
  <2>2. invite' \in [Codes -> InviteRow]
    BY <1>3, <2>1 DEF ExpireInvite, RevokeInvite, Typed, Tables
  <2>3. QED
    BY <1>3, <2>2 DEF ExpireInvite, RevokeInvite, Typed, Tables, Keyed, Frames, peopleVars, passVars, factorVars
<1>4. ASSUME NEW y \in Ceremonies, StartLogin(y)
      PROVE  Typed'
  BY <1>4 DEF StartLogin, Typed, Tables, Keyed, Frames, peopleVars, factorVars
<1>5. ASSUME NEW g \in Grants, StartOauth(g)
      PROVE  Typed'
  <2>1. grant' \in [Grants -> [state : {"unmade", "open", "deleted"}, spent : BOOLEAN]]
    BY <1>5 DEF StartOauth, Typed, Tables
  <2>2. QED
    BY <1>5, <2>1 DEF StartOauth, Typed, Tables, Keyed, Frames, peopleVars, factorVars
<1>6. ASSUME NEW a \in Accounts, NEW k \in Creds, StartRegistration(a) \/ RemovePasskey(a, k)
      PROVE  Typed'
  BY <1>6 DEF StartRegistration, RemovePasskey, Typed, Tables, Keyed, Frames, peopleVars, factorVars
<1>7. ASSUME NEW a \in Accounts, StartRegistration(a)
      PROVE  Typed'
  BY <1>7 DEF StartRegistration, Typed, Tables, Keyed, Frames, peopleVars, factorVars
<1>8. ASSUME NEW a \in Accounts, Readmit(a)
      PROVE  Typed'
  <2>1. role' \in [Accounts -> Roles]
    BY <1>8 DEF Readmit, Typed, Tables, Roles
  <2>2. QED
    BY <1>8, <2>1 DEF Readmit, Typed, Tables, Keyed, Frames, passVars, factorVars
<1>9. ASSUME NEW a \in Accounts, NEW t \in Tokens, RevokeToken(a, t)
      PROVE  Typed'
  <2>1. token' \in [Tokens -> TokenRow]
    <3>1. [token[t] EXCEPT !.status = "revoked"] \in TokenRow
      BY DEF Typed, Tables, TokenRow
    <3>2. QED
      BY <1>9, <3>1 DEF RevokeToken, Typed, Tables
  <2>2. QED
    BY <1>9, <2>1 DEF RevokeToken, Typed, Tables, Keyed, Frames, peopleVars, passVars, factorVars
<1>10. QED
  BY <1>1, <1>2, <1>3, <1>4, <1>5, <1>6, <1>7, <1>8, <1>9 DEF Single

LEMMA InitTyped == Init => Typed
<1>1. ASSUME Init
      PROVE  Typed
  <2>1. NoTotp \in TotpRow /\ (0 \in 0 .. MaxEra) /\ (0 \in 0 .. MaxSecret)
    BY AccountsAssumption DEF NoTotp, TotpRow
  <2>2. /\ [status |-> "unsent", to |-> None, code |-> None] \in LinkRow
        /\ [status |-> "unmade", by |-> None, redeemer |-> None] \in InviteRow
        /\ [status |-> "unmade", user |-> None, pending |-> FALSE, via |-> None, era |-> 0] \in SessionRow
        /\ [status |-> "unmade", user |-> None, era |-> 0] \in TokenRow
    BY <2>1 DEF LinkRow, InviteRow, SessionRow, TokenRow
  <2>3. Tables
    BY <1>1, <2>1, <2>2 DEF Init, Tables, Roles
  <2>4. Keyed
    BY <1>1 DEF Init, Keyed
  <2>5. Frames
    BY <1>1, IdleFits DEF Init, Frames
  <2>6. QED
    BY <2>3, <2>4, <2>5 DEF Typed
<1>2. QED
  BY <1>1

LEMMA NextTyped == Typed /\ [Next]_vars => Typed'
<1>1. ASSUME Typed, Step
      PROVE  Typed'
  <2>1. PICK r \in Requests :
           \/ IssueLink(r) \/ Upsert(r) \/ Signup(r) \/ ReadTotp(r) \/ InsertSession(r)
           \/ InsertInvite(r) \/ InsertToken(r) \/ Cancel(r)
           \/ TakeRegistration(r) \/ InsertPasskey(r) \/ FindPasskey(r)
           \/ DropState(r) \/ SwapCode(r) \/ LinkIdentity(r)
           \/ Enroll(r) \/ Confirm(r) \/ Spend(r) \/ Clear(r) \/ Disable(r)
           \/ SweepSessions(r) \/ SweepTokens(r) \/ Delete(r)
    BY <1>1 DEF Step
  <2>2. QED
    BY <1>1, <2>1, StepTyped, CeremonyStepTyped, FactorStepTyped, LeavingStepTyped
<1>2. ASSUME Typed, UNCHANGED vars
      PROVE  Typed'
  BY <1>2, TablesSame DEF vars, Typed, Frames
<1>3. QED
  BY <1>1, <1>2, ArriveTyped, SingleTyped DEF Next

LEMMA TypedInvariant == Spec => []Typed
BY InitTyped, NextTyped, PTL DEF Spec

\* Every table and request keeps its type, whatever is in flight.
THEOREM AccountsTypeCorrect == Spec => []AccountsTypeOK
<1>1. Typed => AccountsTypeOK
  BY DEF Typed, Tables, Frames, AccountsTypeOK
<1>2. QED
  BY <1>1, TypedInvariant, PTL

----------------------------------------------------------------------------
(* Which actions write to which table.                                      *)

\* A request that arrives writes to a row only as a login or a suspension.
LEMMA ArriveWrites ==
    ASSUME Arrive
    PROVE  /\ UNCHANGED <<invitedBy, cameBy, invite, session, token, passkey, enrolling, grant,
                          identity, totp, drawn, spent, open>>
           /\ UNCHANGED <<role, era>> \/ \E r \in Requests, a \in Accounts : Suspend(r, a)
           /\ UNCHANGED link \/ \E r \in Requests, l \in Links : ConsumeLink(r, l)
           /\ \/ UNCHANGED ceremony
              \/ \E r \in Requests, y \in Ceremonies, a \in Accounts, k \in Creds : TakeCeremony(r, y, a, k)
<1>1. PICK r \in Requests :
         \/ \E a \in Accounts, c \in Codes \cup {None} : RequestLink(r, a, c)
         \/ \E l \in Links : ConsumeLink(r, l)
         \/ \E y \in Ceremonies, a \in Accounts, k \in Creds : TakeCeremony(r, y, a, k)
         \/ \E g \in Grants, a \in Accounts : BeginCallback(r, g, a)
         \/ \E s \in Sessions, x \in Factors : BeginChallenge(r, s, x)
         \/ \E a \in Accounts :
               \/ CountInvites(r, a) \/ BeginToken(r, a) \/ BeginEnroll(r, a)
               \/ BeginDelete(r, a) \/ Suspend(r, a)
               \/ \E k \in Creds : CountPasskeys(r, a, k)
               \/ \E k \in Steps : BeginConfirm(r, a, k) \/ BeginDisable(r, a, k)
  BY DEF Arrive
<1>2. CASE \E l \in Links : ConsumeLink(r, l)
  BY <1>2 DEF ConsumeLink, peopleVars, passVars, factorVars
<1>3. CASE \E y \in Ceremonies, a \in Accounts, k \in Creds : TakeCeremony(r, y, a, k)
  BY <1>3 DEF TakeCeremony, peopleVars, factorVars
<1>4. CASE \E a \in Accounts : Suspend(r, a)
  BY <1>4 DEF Suspend, passVars, factorVars
<1>5. CASE UNCHANGED <<peopleVars, link, invite, session, token, passVars, factorVars, open>>
  BY <1>5 DEF peopleVars, passVars, factorVars
<1>6. QED
  BY <1>1, <1>2, <1>3, <1>4, <1>5 DEF RequestLink, BeginCallback, BeginChallenge, CountInvites,
     BeginToken, BeginEnroll, BeginDelete, CountPasskeys, BeginConfirm, BeginDisable

LEMMA SessionWriters ==
    ASSUME [Next]_vars
    PROVE  \/ UNCHANGED session
           \/ \E r \in Requests : InsertSession(r) \/ Clear(r) \/ SweepSessions(r) \/ Delete(r)
           \/ \E s \in Sessions : Revoke(s) \/ RevokeOthers(s)
<1>1. CASE Step
  BY <1>1 DEF Step, IssueLink, Upsert, Signup, ReadTotp, InsertInvite, InsertToken, Cancel, TakeRegistration,
     InsertPasskey, FindPasskey, DropState, SwapCode, LinkIdentity, Enroll, Confirm, Spend, Disable, SweepTokens
<1>2. CASE Single
  BY <1>2 DEF Single, ExpireLink, ExpireInvite, StartLogin, StartOauth, StartRegistration, Readmit,
     RevokeInvite, RemovePasskey, RevokeToken
<1>3. QED
  BY <1>1, <1>2, ArriveWrites DEF Next, vars

LEMMA TokenWriters ==
    ASSUME [Next]_vars
    PROVE  \/ UNCHANGED token
           \/ \E r \in Requests : InsertToken(r) \/ SweepTokens(r) \/ Delete(r)
           \/ \E a \in Accounts, t \in Tokens : RevokeToken(a, t)
<1>1. CASE Step
  BY <1>1 DEF Step, IssueLink, Upsert, Signup, ReadTotp, InsertSession, InsertInvite, Cancel, TakeRegistration,
     InsertPasskey, FindPasskey, DropState, SwapCode, LinkIdentity, Enroll, Confirm, Spend, Clear, Disable,
     SweepSessions
<1>2. CASE Single
  BY <1>2 DEF Single, Revoke, RevokeOthers, ExpireLink, ExpireInvite, StartLogin, StartOauth,
     StartRegistration, Readmit, RevokeInvite, RemovePasskey
<1>3. QED
  BY <1>1, <1>2, ArriveWrites DEF Next, vars

LEMMA PeopleWriters ==
    ASSUME [Next]_vars
    PROVE  \/ UNCHANGED peopleVars
           \/ \E r \in Requests : Signup(r) \/ Delete(r)
           \/ \E a \in Accounts : Readmit(a) \/ \E r \in Requests : Suspend(r, a)
<1>1. CASE Step
  BY <1>1 DEF Step, IssueLink, Upsert, ReadTotp, InsertSession, InsertInvite, InsertToken, Cancel,
     TakeRegistration, InsertPasskey, FindPasskey, DropState, SwapCode, LinkIdentity, Enroll, Confirm, Spend,
     Clear, Disable, SweepSessions, SweepTokens
<1>2. CASE Single
  BY <1>2 DEF Single, Revoke, RevokeOthers, ExpireLink, ExpireInvite, StartLogin, StartOauth,
     StartRegistration, RevokeInvite, RemovePasskey, RevokeToken
<1>3. QED
  BY <1>1, <1>2, ArriveWrites DEF Next, vars, peopleVars

LEMMA InviteWriters ==
    ASSUME [Next]_vars
    PROVE  \/ UNCHANGED invite
           \/ \E r \in Requests : Signup(r) \/ InsertInvite(r) \/ Delete(r)
           \/ \E c \in Codes : ExpireInvite(c) \/ \E a \in Accounts : RevokeInvite(a, c)
<1>1. CASE Step
  BY <1>1 DEF Step, IssueLink, Upsert, ReadTotp, InsertSession, InsertToken, Cancel,
     TakeRegistration, InsertPasskey, FindPasskey, DropState, SwapCode, LinkIdentity, Enroll, Confirm, Spend,
     Clear, Disable, SweepSessions, SweepTokens
<1>2. CASE Single
  BY <1>2 DEF Single, Revoke, RevokeOthers, ExpireLink, StartLogin, StartOauth,
     StartRegistration, Readmit, RemovePasskey, RevokeToken
<1>3. QED
  BY <1>1, <1>2, ArriveWrites DEF Next, vars

LEMMA PasskeyWriters ==
    ASSUME [Next]_vars
    PROVE  \/ UNCHANGED passkey
           \/ \E r \in Requests : InsertPasskey(r) \/ Delete(r)
           \/ \E a \in Accounts, k \in Creds : RemovePasskey(a, k)
<1>1. CASE Step
  BY <1>1 DEF Step, IssueLink, Upsert, Signup, ReadTotp, InsertSession, InsertInvite, InsertToken, Cancel,
     TakeRegistration, FindPasskey, DropState, SwapCode, LinkIdentity, Enroll, Confirm, Spend, Clear,
     Disable, SweepSessions, SweepTokens, passVars, factorVars
<1>2. CASE Single
  BY <1>2 DEF Single, Revoke, RevokeOthers, ExpireLink, ExpireInvite, StartLogin, StartOauth, StartRegistration, Readmit,
     RevokeInvite, RevokeToken, passVars, factorVars
<1>3. QED
  BY <1>1, <1>2, ArriveWrites DEF Next, vars, passVars, factorVars

LEMMA IdentityWriters ==
    ASSUME [Next]_vars
    PROVE  UNCHANGED identity \/ \E r \in Requests : LinkIdentity(r) \/ Delete(r)
<1>1. CASE Step
  BY <1>1 DEF Step, IssueLink, Upsert, Signup, ReadTotp, InsertSession, InsertInvite, InsertToken, Cancel,
     TakeRegistration, InsertPasskey, FindPasskey, DropState, SwapCode, Enroll, Confirm, Spend, Clear,
     Disable, SweepSessions, SweepTokens, passVars, factorVars
<1>2. CASE Single
  BY <1>2 DEF Single, Revoke, RevokeOthers, ExpireLink, ExpireInvite, StartLogin, StartOauth, StartRegistration, Readmit,
     RevokeInvite, RemovePasskey, RevokeToken, passVars, factorVars
<1>3. QED
  BY <1>1, <1>2, ArriveWrites DEF Next, vars, passVars, factorVars

LEMMA TotpWriters ==
    ASSUME [Next]_vars
    PROVE  \/ UNCHANGED totp
           \/ \E r \in Requests : Enroll(r) \/ Confirm(r) \/ Spend(r) \/ Disable(r) \/ Delete(r)
<1>1. CASE Step
  BY <1>1 DEF Step, IssueLink, Upsert, Signup, ReadTotp, InsertSession, InsertInvite, InsertToken, Cancel,
     TakeRegistration, InsertPasskey, FindPasskey, DropState, SwapCode, LinkIdentity, Clear,
     SweepSessions, SweepTokens, passVars, factorVars
<1>2. CASE Single
  BY <1>2 DEF Single, Revoke, RevokeOthers, ExpireLink, ExpireInvite, StartLogin, StartOauth, StartRegistration, Readmit,
     RevokeInvite, RemovePasskey, RevokeToken, passVars, factorVars
<1>3. QED
  BY <1>1, <1>2, ArriveWrites DEF Next, vars, passVars, factorVars

----------------------------------------------------------------------------
(* A deleted account leaves nothing.                                        *)

\* An account leaves by a DELETE that no foreign key refuses, and for good.
LEMMA GoneBy ==
    ASSUME Typed, [Next]_vars, NEW a \in Accounts
    PROVE  /\ role[a] = "gone" => role'[a] = "gone"
           /\ role'[a] = "gone" /\ role[a] # "gone" =>
                 \E r \in Requests : Delete(r) /\ req[r].who = a /\ ~Referenced(a)
<1>1. ASSUME NEW r \in Requests, Signup(r)
      PROVE  role'[a] = "gone" <=> role[a] = "gone"
  <2>1. \/ UNCHANGED role
        \/ /\ role[req[r].who] = "none"
           /\ \E x \in {"admin", "member"} : role' = [role EXCEPT ![req[r].who] = x]
    BY <1>1 DEF Signup, Enter
  <2>2. QED
    BY <2>1 DEF Typed, Tables
<1>2. ASSUME NEW r \in Requests, Delete(r)
      PROVE  /\ role[a] = "gone" => role'[a] = "gone"
             /\ role'[a] = "gone" /\ role[a] # "gone" => req[r].who = a /\ ~Referenced(a)
  BY <1>2 DEF Delete, Typed, Tables
<1>3. ASSUME NEW b \in Accounts, Readmit(b) \/ \E r \in Requests : Suspend(r, b)
      PROVE  role'[a] = "gone" <=> role[a] = "gone"
  BY <1>3 DEF Readmit, Suspend, Typed, Tables
<1>4. QED
  BY <1>1, <1>2, <1>3, PeopleWriters DEF peopleVars

\* What the cascades of a DELETE leave of each row.
LEMMA DeletedRows ==
    ASSUME Typed, NEW r \in Requests, Delete(r), NEW a, a = req[r].who
    PROVE  /\ \A s \in Sessions :
                 /\ session'[s].user = session[s].user /\ session'[s].era = session[s].era
                 /\ session'[s].via = session[s].via
                 /\ session'[s].status = IF ~Referenced(a) /\ session[s].user = a THEN "deleted"
                                         ELSE session[s].status
           /\ \A t \in Tokens :
                 /\ token'[t].user = token[t].user /\ token'[t].era = token[t].era
                 /\ token'[t].status = IF ~Referenced(a) /\ token[t].user = a THEN "deleted"
                                       ELSE token[t].status
           /\ \A c \in Codes :
                 /\ invite'[c].by = invite[c].by /\ invite'[c].redeemer = invite[c].redeemer
                 /\ invite'[c].status = IF ~Referenced(a) /\ invite[c].by = a THEN "deleted"
                                        ELSE invite[c].status
<1>1. CASE Referenced(a)
  BY <1>1 DEF Delete
<1>2. CASE ~Referenced(a)
  <2>1. \A row \in SessionRow : LET new == [row EXCEPT !.status = "deleted"] IN
           new.user = row.user /\ new.era = row.era /\ new.via = row.via /\ new.status = "deleted"
    BY DEF SessionRow
  <2>2. \A row \in TokenRow : LET new == [row EXCEPT !.status = "deleted"] IN
           new.user = row.user /\ new.era = row.era /\ new.status = "deleted"
    BY DEF TokenRow
  <2>3. \A row \in InviteRow : LET new == [row EXCEPT !.status = "deleted"] IN
           new.by = row.by /\ new.redeemer = row.redeemer /\ new.status = "deleted"
    BY DEF InviteRow
  <2>4. session \in [Sessions -> SessionRow] /\ token \in [Tokens -> TokenRow]
        /\ invite \in [Codes -> InviteRow]
    BY DEF Typed, Tables
  <2>5. /\ session' = [s \in Sessions |-> IF session[s].user = a
                          THEN [session[s] EXCEPT !.status = "deleted"] ELSE session[s]]
        /\ token' = [t \in Tokens |-> IF token[t].user = a
                          THEN [token[t] EXCEPT !.status = "deleted"] ELSE token[t]]
        /\ invite' = [c \in Codes |-> IF invite[c].by = a
                          THEN [invite[c] EXCEPT !.status = "deleted"] ELSE invite[c]]
    BY <1>2 DEF Delete
  <2>6. QED
    BY <1>2, <2>1, <2>2, <2>3, <2>4, <2>5
<1>3. QED
  BY <1>1, <1>2

\* Logging out revokes live sessions and changes no other column.
LEMMA RevokedSessions ==
    ASSUME Typed, NEW s \in Sessions, Revoke(s) \/ RevokeOthers(s)
    PROVE  \A q \in Sessions :
              /\ session'[q].user = session[q].user /\ session'[q].era = session[q].era
              /\ session'[q].via = session[q].via
              /\ \/ session'[q].status = session[q].status
                 \/ session[q].status = "live" /\ session'[q].status = "revoked"
<1>1. \A row \in SessionRow : LET new == [row EXCEPT !.status = "revoked"] IN
         new.user = row.user /\ new.era = row.era /\ new.via = row.via /\ new.status = "revoked"
  BY DEF SessionRow
<1>2. session \in [Sessions -> SessionRow]
  BY DEF Typed, Tables
<1>3. \A q \in Sessions : \/ session'[q] = session[q]
                          \/ /\ session[q].status = "live"
                             /\ session'[q] = [session[q] EXCEPT !.status = "revoked"]
  BY <1>2 DEF Revoke, RevokeOthers
<1>4. \A q \in Sessions : session[q] \in SessionRow
  BY <1>2
<1>5. ASSUME NEW q \in Sessions, session'[q] = [session[q] EXCEPT !.status = "revoked"]
      PROVE  /\ session'[q].user = session[q].user /\ session'[q].era = session[q].era
             /\ session'[q].via = session[q].via /\ session'[q].status = "revoked"
  BY <1>1, <1>4, <1>5
<1>6. QED
  BY <1>3, <1>5

LEMMA GoneStep ==
    ASSUME Typed, GoneLeavesNothing, [Next]_vars
    PROVE  GoneLeavesNothing'
<1>1. SUFFICES ASSUME NEW a \in Accounts, role'[a] = "gone"
               PROVE  /\ \A s \in Sessions : session'[s].user = a => session'[s].status = "deleted"
                      /\ \A t \in Tokens : token'[t].user = a => token'[t].status = "deleted"
                      /\ \A c \in Codes : invite'[c].by = a => invite'[c].status = "deleted"
                      /\ \A k \in Creds : passkey'[k] # a
                      /\ a \notin identity' /\ totp'[a] = NoTotp
  BY DEF GoneLeavesNothing
<1>2. CASE role[a] # "gone"
  <2>1. PICK r \in Requests : Delete(r) /\ req[r].who = a /\ ~Referenced(a)
    BY <1>1, <1>2, GoneBy
  <2>2. \A s \in Sessions : session'[s].user = a => session'[s].status = "deleted"
    BY <2>1, DeletedRows
  <2>3. \A t \in Tokens : token'[t].user = a => token'[t].status = "deleted"
    BY <2>1, DeletedRows
  <2>4. \A c \in Codes : invite'[c].by = a => invite'[c].status = "deleted"
    BY <2>1, DeletedRows
  <2>5. (\A k \in Creds : passkey'[k] # a) /\ a \notin identity' /\ totp'[a] = NoTotp
    BY <2>1, AccountsAssumption DEF Delete, Typed, Tables
  <2>6. QED
    BY <2>2, <2>3, <2>4, <2>5
<1>3. CASE role[a] = "gone"
  <2>1. /\ ~Present(a)
        /\ \A s \in Sessions : session[s].user = a => session[s].status = "deleted"
        /\ \A t \in Tokens : token[t].user = a => token[t].status = "deleted"
        /\ \A c \in Codes : invite[c].by = a => invite[c].status = "deleted"
        /\ \A k \in Creds : passkey[k] # a
        /\ a \notin identity /\ totp[a] = NoTotp
    BY <1>3 DEF GoneLeavesNothing, Present
  <2>2. \A r \in Requests : req[r] \in Frame /\ FrameFits(req[r])
    BY DEF Typed, Frames
  <2>3. \A s \in Sessions : session'[s].user = a => session'[s].status = "deleted"
    <3>1. ASSUME NEW r \in Requests, InsertSession(r)
          PROVE  \A s \in Sessions : session'[s].user = a => session'[s].status = "deleted"
      BY <2>1, <3>1 DEF InsertSession, NewSession, Typed, Tables
    <3>2. ASSUME NEW r \in Requests, Clear(r)
          PROVE  \A s \in Sessions : session'[s].user = a => session'[s].status = "deleted"
      <4>1. \A s \in Sessions : session'[s].user = session[s].user /\ session'[s].status = session[s].status
        BY <3>2 DEF Clear, Typed, Tables, SessionRow
      <4>2. QED
        BY <2>1, <4>1
    <3>3. ASSUME NEW r \in Requests, SweepSessions(r)
          PROVE  \A s \in Sessions : session'[s].user = a => session'[s].status = "deleted"
      <4>1. session \in [Sessions -> SessionRow] /\ session' = Revoked(req[r].who, session)
        BY <3>3 DEF SweepSessions, Typed, Tables
      <4>2. QED
        BY <2>1, <4>1, RevokedRows
    <3>4. ASSUME NEW r \in Requests, Delete(r)
          PROVE  \A s \in Sessions : session'[s].user = a => session'[s].status = "deleted"
      BY <2>1, <3>4, DeletedRows
    <3>5. ASSUME NEW s \in Sessions, Revoke(s) \/ RevokeOthers(s)
          PROVE  \A q \in Sessions : session'[q].user = a => session'[q].status = "deleted"
      BY <2>1, <3>5, RevokedSessions
    <3>6. QED
      BY <2>1, <3>1, <3>2, <3>3, <3>4, <3>5, SessionWriters
  <2>4. \A t \in Tokens : token'[t].user = a => token'[t].status = "deleted"
    <3>1. ASSUME NEW r \in Requests, InsertToken(r)
          PROVE  \A t \in Tokens : token'[t].user = a => token'[t].status = "deleted"
      BY <2>1, <3>1 DEF InsertToken, Typed, Tables
    <3>2. ASSUME NEW r \in Requests, SweepTokens(r)
          PROVE  \A t \in Tokens : token'[t].user = a => token'[t].status = "deleted"
      <4>1. token \in [Tokens -> TokenRow] /\ token' = Revoked(req[r].who, token)
        BY <3>2 DEF SweepTokens, Typed, Tables
      <4>2. QED
        BY <2>1, <4>1, RevokedRows
    <3>3. ASSUME NEW r \in Requests, Delete(r)
          PROVE  \A t \in Tokens : token'[t].user = a => token'[t].status = "deleted"
      BY <2>1, <3>3, DeletedRows
    <3>4. ASSUME NEW b \in Accounts, NEW k \in Tokens, RevokeToken(b, k)
          PROVE  \A t \in Tokens : token'[t].user = a => token'[t].status = "deleted"
      <4>1. \A row \in TokenRow : [row EXCEPT !.status = "revoked"].user = row.user
        BY DEF TokenRow
      <4>2. QED
        BY <2>1, <3>4, <4>1 DEF RevokeToken, Typed, Tables
    <3>5. QED
      BY <2>1, <3>1, <3>2, <3>3, <3>4, TokenWriters
  <2>5. \A c \in Codes : invite'[c].by = a => invite'[c].status = "deleted"
    <3>1. ASSUME NEW r \in Requests, Signup(r)
          PROVE  \A c \in Codes : invite'[c].by = a => invite'[c].status = "deleted"
      <4>1. CASE UNCHANGED invite
        BY <2>1, <4>1
      <4>2. ASSUME NEW d \in Codes, invite[d].status = "open",
                   invite' = [invite EXCEPT ![d].status = "redeemed", ![d].redeemer = req[r].who]
            PROVE  \A c \in Codes : invite'[c].by = a => invite'[c].status = "deleted"
        <5>1. [invite[d] EXCEPT !.status = "redeemed", !.redeemer = req[r].who].by = invite[d].by
          BY DEF Typed, Tables, InviteRow
        <5>2. QED
          BY <2>1, <4>2, <5>1 DEF Typed, Tables
      <4>3. QED
        BY <2>2, <3>1, <4>1, <4>2 DEF Signup, Enter, Redeemable, Frame
    <3>2. ASSUME NEW r \in Requests, InsertInvite(r)
          PROVE  \A c \in Codes : invite'[c].by = a => invite'[c].status = "deleted"
      <4>1. CASE UNCHANGED invite
        BY <2>1, <4>1
      <4>2. ASSUME NEW d \in Codes, Present(req[r].who),
                   invite' = [invite EXCEPT ![d].status = "open", ![d].by = req[r].who]
            PROVE  \A c \in Codes : invite'[c].by = a => invite'[c].status = "deleted"
        <5>1. [invite[d] EXCEPT !.status = "open", !.by = req[r].who].by = req[r].who
          BY DEF Typed, Tables, InviteRow
        <5>2. QED
          BY <2>1, <4>2, <5>1 DEF Typed, Tables
      <4>3. QED
        BY <3>2, <4>1, <4>2 DEF InsertInvite
    <3>3. ASSUME NEW r \in Requests, Delete(r)
          PROVE  \A c \in Codes : invite'[c].by = a => invite'[c].status = "deleted"
      BY <2>1, <3>3, DeletedRows
    <3>4. ASSUME NEW d \in Codes, NEW b, ExpireInvite(d) \/ RevokeInvite(b, d)
          PROVE  \A c \in Codes : invite'[c].by = a => invite'[c].status = "deleted"
      <4>1. \A st \in {"expired", "deleted"} : [invite[d] EXCEPT !.status = st].by = invite[d].by
        BY DEF Typed, Tables, InviteRow
      <4>2. QED
        BY <2>1, <3>4, <4>1 DEF ExpireInvite, RevokeInvite, Typed, Tables
    <3>5. QED
      BY <2>1, <3>1, <3>2, <3>3, <3>4, InviteWriters
  <2>6. \A k \in Creds : passkey'[k] # a
    BY <2>1, PasskeyWriters, AccountsAssumption DEF InsertPasskey, Delete, RemovePasskey, Typed, Tables
  <2>7. a \notin identity'
    BY <2>1, IdentityWriters DEF LinkIdentity, Delete
  <2>8. totp'[a] = NoTotp
    <3>1. ASSUME NEW r \in Requests, Enroll(r) \/ Confirm(r) \/ Spend(r) \/ Disable(r) \/ Delete(r)
          PROVE  totp'[a] = NoTotp
      <4>1. totp[a].secret = 0
        BY <2>1 DEF NoTotp
      <4>2. QED
        BY <2>1, <3>1, <4>1 DEF Enroll, Confirm, Spend, Accepted, Disable, Delete, Typed, Tables
    <3>2. QED
      BY <2>1, <3>1, TotpWriters
  <2>9. QED
    BY <2>3, <2>4, <2>5, <2>6, <2>7, <2>8
<1>4. QED
  BY <1>2, <1>3

\* Nothing of a deleted account is left or appears later, whatever was in flight.
THEOREM DeletedAccountsLeaveNothing == Spec => []GoneLeavesNothing
<1>1. Init => GoneLeavesNothing
  BY DEF Init, GoneLeavesNothing
<1>2. Typed /\ GoneLeavesNothing /\ [Next]_vars => GoneLeavesNothing'
  BY GoneStep
<1>3. QED
  BY <1>1, <1>2, TypedInvariant, PTL DEF Spec

----------------------------------------------------------------------------
(* A suspension revokes what was there.                                     *)

\* The sweeps of a suspension are not cut off.
SweepsFinish == {"sessions", "tokens"} \cap Cancels = {}

Sweeping(a, labels) == \E r \in Requests : req[r].at \in labels /\ req[r].who = a

\* What is alive is of the account's era, or its sweep is still to come.
SweepInv ==
    \A a \in Accounts :
       /\ \A s \in Sessions : session[s].user = a /\ session[s].status = "live" =>
             session[s].era = era[a] \/ Sweeping(a, {"sessions"})
       /\ \A t \in Tokens : token[t].user = a /\ token[t].status = "live" =>
             token[t].era = era[a] \/ Sweeping(a, {"sessions", "tokens"})

\* A step moves its own request.
LEMMA StepMoves ==
    ASSUME Typed, NEW q \in Requests,
           \/ IssueLink(q) \/ Upsert(q) \/ Signup(q) \/ ReadTotp(q) \/ InsertSession(q)
           \/ InsertInvite(q) \/ InsertToken(q) \/ Cancel(q)
           \/ TakeRegistration(q) \/ InsertPasskey(q) \/ FindPasskey(q)
           \/ DropState(q) \/ SwapCode(q) \/ LinkIdentity(q)
           \/ Enroll(q) \/ Confirm(q) \/ Spend(q) \/ Clear(q) \/ Disable(q)
           \/ SweepSessions(q) \/ SweepTokens(q) \/ Delete(q)
    PROVE  \E f : req' = [req EXCEPT ![q] = f]
<1> DEFINE M == \E f : req' = [req EXCEPT ![q] = f]
<1>1. Finish(q) => M
  BY DEF Finish
<1>2. ASSUME NEW f, Goto(q, f)
      PROVE  M
  BY <1>2 DEF Goto
<1> HIDE DEF M
<1>3. IssueLink(q) \/ InsertSession(q) \/ InsertInvite(q) \/ InsertToken(q) \/ Cancel(q) => M
  BY <1>1 DEF IssueLink, InsertSession, InsertInvite, InsertToken, Cancel
<1>4. ASSUME Upsert(q)
      PROVE  M
  <2>1. req[q].who \in Accounts
    BY <1>4 DEF Upsert, At, Typed, Frames, FrameFits
  <2>2. role[req[q].who] \in Roles
    BY <2>1 DEF Typed, Tables
  <2>3. CASE role[req[q].who] \in {"suspended", "gone"}
    BY <1>1, <1>4, <2>3 DEF Upsert
  <2>4. CASE role[req[q].who] \in {"member", "admin"}
    BY <1>2, <1>4, <2>4 DEF Upsert
  <2>5. CASE role[req[q].who] = "none"
    BY <1>1, <1>2, <1>4, <2>5 DEF Upsert
  <2>6. QED
    BY <2>2, <2>3, <2>4, <2>5 DEF Roles
<1>5. Signup(q) => M
  BY <1>1, <1>2 DEF Signup
<1>6. ReadTotp(q) => M
  BY <1>2 DEF ReadTotp
<1>7. TakeRegistration(q) \/ InsertPasskey(q) \/ FindPasskey(q) => M
  BY <1>1, <1>2 DEF TakeRegistration, InsertPasskey, FindPasskey
<1>8. DropState(q) \/ SwapCode(q) \/ LinkIdentity(q) => M
  BY <1>1, <1>2 DEF DropState, SwapCode, LinkIdentity
<1>9. Enroll(q) \/ Confirm(q) \/ Clear(q) \/ Disable(q) \/ SweepTokens(q) \/ Delete(q) => M
  BY <1>1 DEF Enroll, Confirm, Clear, Disable, SweepTokens, Delete
<1>10. Spend(q) => M
  BY <1>1, <1>2 DEF Spend
<1>11. SweepSessions(q) => M
  BY <1>2 DEF SweepSessions
<1>12. QED
  BY <1>3, <1>4, <1>5, <1>6, <1>7, <1>8, <1>9, <1>10, <1>11 DEF M

\* A request arrives on an idle frame.
LEMMA ArriveMoves ==
    ASSUME Arrive
    PROVE  \E q \in Requests : \E f : At(q, "idle") /\ req' = [req EXCEPT ![q] = f] /\ f.at # "signup"
<1>1. PICK q \in Requests :
       \/ \E a \in Accounts, c \in Codes \cup {None} : RequestLink(q, a, c)
       \/ \E l \in Links : ConsumeLink(q, l)
       \/ \E y \in Ceremonies, a \in Accounts, k \in Creds : TakeCeremony(q, y, a, k)
       \/ \E g \in Grants, a \in Accounts : BeginCallback(q, g, a)
       \/ \E s \in Sessions, x \in Factors : BeginChallenge(q, s, x)
       \/ \E a \in Accounts :
             \/ CountInvites(q, a) \/ BeginToken(q, a) \/ BeginEnroll(q, a)
             \/ BeginDelete(q, a) \/ Suspend(q, a)
             \/ \E k \in Creds : CountPasskeys(q, a, k)
             \/ \E k \in Steps : BeginConfirm(q, a, k) \/ BeginDisable(q, a, k)
  BY DEF Arrive
<1> DEFINE M == At(q, "idle") /\ \E f : req' = [req EXCEPT ![q] = f] /\ f.at # "signup"
<1>2. ASSUME NEW op, NEW f, Arrives(q, op), Goto(q, f), f.at # "signup"
      PROVE  M
  BY <1>2 DEF Arrives, Goto
<1> HIDE DEF M
<1>3. ASSUME NEW a \in Accounts, NEW c \in Codes \cup {None}, RequestLink(q, a, c)
      PROVE  M
  BY <1>2, <1>3 DEF RequestLink, Idle
<1>4. ASSUME NEW l \in Links, ConsumeLink(q, l)
      PROVE  M
  BY <1>2, <1>4 DEF ConsumeLink, Idle
<1>5. ASSUME NEW y \in Ceremonies, NEW a \in Accounts, NEW k \in Creds, TakeCeremony(q, y, a, k)
      PROVE  M
  BY <1>2, <1>5 DEF TakeCeremony, Idle
<1>6. ASSUME NEW g \in Grants, NEW a \in Accounts, BeginCallback(q, g, a)
      PROVE  M
  BY <1>2, <1>6 DEF BeginCallback, Idle
<1>7. ASSUME NEW s \in Sessions, NEW x \in Factors, BeginChallenge(q, s, x)
      PROVE  M
  BY <1>2, <1>7 DEF BeginChallenge, Idle
<1>8. ASSUME NEW a \in Accounts,
             CountInvites(q, a) \/ BeginToken(q, a) \/ BeginEnroll(q, a) \/ BeginDelete(q, a) \/ Suspend(q, a)
      PROVE  M
  BY <1>2, <1>8 DEF CountInvites, BeginToken, BeginEnroll, BeginDelete, Suspend, Idle
<1>9. ASSUME NEW a \in Accounts, NEW k \in Creds, CountPasskeys(q, a, k)
      PROVE  M
  BY <1>2, <1>9 DEF CountPasskeys, Idle
<1>10. ASSUME NEW a \in Accounts, NEW k \in Steps, BeginConfirm(q, a, k) \/ BeginDisable(q, a, k)
      PROVE  M
  BY <1>2, <1>10 DEF BeginConfirm, BeginDisable, Idle
<1>11. M
  BY <1>1, <1>3, <1>4, <1>5, <1>6, <1>7, <1>8, <1>9, <1>10
<1>12. QED
  BY <1>11 DEF M

\* A sweep to come is only taken away by being done.
LEMMA SweepsKept ==
    ASSUME SweepsFinish, Typed, [Next]_vars, NEW r \in Requests, req[r].at \in {"sessions", "tokens"}
    PROVE  \/ req'[r] = req[r]
           \/ At(r, "sessions") /\ SweepSessions(r)
           \/ At(r, "tokens") /\ SweepTokens(r)
<1>1. req \in [Requests -> Frame]
  BY DEF Typed, Frames
<1>2. CASE Arrive
  <2>1. PICK q \in Requests : \E f : At(q, "idle") /\ req' = [req EXCEPT ![q] = f]
    BY <1>2, ArriveMoves
  <2>2. q # r
    BY <2>1 DEF At
  <2>3. QED
    BY <1>1, <2>1, <2>2
<1>3. CASE Step
  <2>1. PICK q \in Requests :
           \/ IssueLink(q) \/ Upsert(q) \/ Signup(q) \/ ReadTotp(q) \/ InsertSession(q)
           \/ InsertInvite(q) \/ InsertToken(q) \/ Cancel(q)
           \/ TakeRegistration(q) \/ InsertPasskey(q) \/ FindPasskey(q)
           \/ DropState(q) \/ SwapCode(q) \/ LinkIdentity(q)
           \/ Enroll(q) \/ Confirm(q) \/ Spend(q) \/ Clear(q) \/ Disable(q)
           \/ SweepSessions(q) \/ SweepTokens(q) \/ Delete(q)
    BY <1>3 DEF Step
  <2>2. CASE q # r
    <3>1. \E f : req' = [req EXCEPT ![q] = f]
      BY <2>1, StepMoves
    <3>2. QED
      BY <1>1, <2>2, <3>1
  <2>3. CASE q = r
    BY <2>1, <2>3 DEF SweepsFinish, IssueLink, Upsert, Signup, ReadTotp, InsertSession, InsertInvite,
       InsertToken, Cancel, TakeRegistration, InsertPasskey, FindPasskey, DropState, SwapCode, LinkIdentity,
       Enroll, Confirm, Spend, Clear, Disable, SweepSessions, SweepTokens, Delete, At
  <2>4. QED
    BY <2>2, <2>3
<1>4. CASE Single
  BY <1>4 DEF Single, Revoke, RevokeOthers, ExpireLink, ExpireInvite, StartLogin, StartOauth,
     StartRegistration, Readmit, RevokeInvite, RemovePasskey, RevokeToken
<1>5. QED
  BY <1>2, <1>3, <1>4 DEF Next, vars

\* Two sweeps are not done in one step.
LEMMA OneSweep ==
    ASSUME Typed, NEW q \in Requests, NEW r \in Requests
    PROVE  /\ SweepSessions(q) /\ SweepSessions(r) => q = r
           /\ SweepTokens(q) /\ SweepTokens(r) => q = r
<1>1. req \in [Requests -> Frame]
  BY DEF Typed, Frames
<1>2. ASSUME SweepSessions(q), SweepSessions(r), q # r
      PROVE  FALSE
  <2>1. req[r].at = "sessions" /\ req' = [req EXCEPT ![r] = [req[r] EXCEPT !.at = "tokens"]]
    BY <1>2 DEF SweepSessions, Goto, At
  <2>2. req'[r].at = "tokens"
    BY <1>1, <2>1 DEF Frame
  <2>3. req' = [req EXCEPT ![q] = [req[q] EXCEPT !.at = "tokens"]]
    BY <1>2 DEF SweepSessions, Goto
  <2>4. req'[r] = req[r]
    BY <1>1, <1>2, <2>3
  <2>5. QED
    BY <2>1, <2>2, <2>4
<1>3. ASSUME SweepTokens(q), SweepTokens(r), q # r
      PROVE  FALSE
  <2>1. req[r].at = "tokens" /\ req' = [req EXCEPT ![r] = Idle]
    BY <1>3 DEF SweepTokens, Finish, At
  <2>2. req'[r].at = "idle"
    BY <1>1, <2>1 DEF Idle
  <2>3. req' = [req EXCEPT ![q] = Idle]
    BY <1>3 DEF SweepTokens, Finish
  <2>4. req'[r] = req[r]
    BY <1>1, <1>3, <2>3
  <2>5. QED
    BY <2>1, <2>2, <2>4
<1>4. QED
  BY <1>2, <1>3

\* A new era begins with a sweep to come.
LEMMA ErasSwept ==
    ASSUME Typed, [Next]_vars, NEW a \in Accounts
    PROVE  era'[a] = era[a] \/ Sweeping(a, {"sessions"})'
<1>1. ASSUME NEW b \in Accounts, NEW r \in Requests, Suspend(r, b)
      PROVE  era'[a] = era[a] \/ Sweeping(a, {"sessions"})'
  <2>1. CASE b # a
    BY <1>1, <2>1 DEF Suspend, Typed, Tables
  <2>2. CASE b = a
    <3>1. req'[r] = [Idle EXCEPT !.at = "sessions", !.who = a]
      BY <1>1, <2>2 DEF Suspend, Goto, Typed, Frames
    <3>2. req'[r].at = "sessions" /\ req'[r].who = a
      BY <3>1, IdleFits DEF Frame
    <3>3. QED
      BY <3>2 DEF Sweeping
  <2>3. QED
    BY <2>1, <2>2
<1>2. QED
  BY <1>1, PeopleWriters DEF peopleVars, Signup, Delete, Readmit

LEMMA SweepStep ==
    ASSUME SweepsFinish, Typed, SweepInv, [Next]_vars
    PROVE  SweepInv'
<1>1. SUFFICES ASSUME NEW a \in Accounts
               PROVE  /\ \A s \in Sessions : session'[s].user = a /\ session'[s].status = "live" =>
                            session'[s].era = era'[a] \/ Sweeping(a, {"sessions"})'
                      /\ \A t \in Tokens : token'[t].user = a /\ token'[t].status = "live" =>
                            token'[t].era = era'[a] \/ Sweeping(a, {"sessions", "tokens"})'
  BY DEF SweepInv
<1>2. CASE Sweeping(a, {"sessions"})'
  BY <1>2 DEF Sweeping
<1>3. CASE era'[a] = era[a] /\ ~Sweeping(a, {"sessions"})'
  <2>1. \A s \in Sessions : session[s].user = a /\ session[s].status = "live" =>
           \/ session[s].era = era[a]
           \/ \E r \in Requests : SweepSessions(r) /\ req[r].who = a
    BY <1>3, SweepsKept DEF SweepInv, Sweeping, At, SweepTokens
  <2>2. \A s \in Sessions : session'[s].user = a /\ session'[s].status = "live" => session'[s].era = era'[a]
    <3>1. ASSUME NEW r \in Requests, SweepSessions(r)
          PROVE  \A s \in Sessions : session'[s].user = a /\ session'[s].status = "live" =>
                    session'[s].era = era'[a]
      <4>1. session \in [Sessions -> SessionRow] /\ session' = Revoked(req[r].who, session)
        BY <3>1 DEF SweepSessions, Typed, Tables
      <4>2. \A s \in Sessions : /\ session'[s].user = session[s].user /\ session'[s].era = session[s].era
                                /\ session'[s].status = "live" =>
                                     session[s].status = "live" /\ session[s].user # req[r].who
        BY <4>1, RevokedRows
      <4>3. ASSUME NEW q \in Requests, SweepSessions(q)
            PROVE  q = r
        BY <3>1, <4>3, OneSweep
      <4>4. SUFFICES ASSUME NEW s \in Sessions, session'[s].user = a, session'[s].status = "live"
                     PROVE  session'[s].era = era'[a]
        OBVIOUS
      <4>5. session[s].user = a /\ session[s].status = "live" /\ a # req[r].who /\ session'[s].era = session[s].era
        BY <4>2, <4>4
      <4>6. ~\E q \in Requests : SweepSessions(q) /\ req[q].who = a
        BY <4>3, <4>5
      <4>7. session[s].era = era[a]
        BY <2>1, <4>5, <4>6
      <4>8. QED
        BY <1>3, <4>5, <4>7
    <3>2. CASE ~\E r \in Requests : SweepSessions(r)
      <4>1. \A s \in Sessions : session[s].user = a /\ session[s].status = "live" => session[s].era = era'[a]
        BY <1>3, <2>1, <3>2
      <4>2. ASSUME NEW r \in Requests, InsertSession(r)
            PROVE  \A s \in Sessions : session'[s].user = a /\ session'[s].status = "live" =>
                      session'[s].era = era'[a]
        BY <1>3, <4>1, <4>2 DEF InsertSession, NewSession, Typed, Tables
      <4>3. ASSUME NEW r \in Requests, Clear(r)
            PROVE  \A s \in Sessions : session'[s].user = a /\ session'[s].status = "live" =>
                      session'[s].era = era'[a]
        <5>1. \A s \in Sessions : /\ session'[s].user = session[s].user /\ session'[s].era = session[s].era
                                  /\ session'[s].status = session[s].status
          BY <4>3 DEF Clear, Typed, Tables, SessionRow
        <5>2. QED
          BY <4>1, <5>1
      <4>4. QED
        BY <3>2, <4>1, <4>2, <4>3, SessionWriters, DeletedRows, RevokedSessions
    <3>3. QED
      BY <3>1, <3>2
  <2>3. \A t \in Tokens : token'[t].user = a /\ token'[t].status = "live" =>
           token'[t].era = era'[a] \/ Sweeping(a, {"sessions", "tokens"})'
    <3>1. CASE ~Sweeping(a, {"sessions", "tokens"})'
      <4>1. \A t \in Tokens : token[t].user = a /\ token[t].status = "live" =>
               token[t].era = era[a] \/ \E r \in Requests : SweepTokens(r) /\ req[r].who = a
        <5>1. ASSUME NEW r \in Requests, SweepSessions(r), req[r].who = a
              PROVE  FALSE
          <6>1. req'[r].at = "tokens" /\ req'[r].who = a
            BY <5>1 DEF SweepSessions, Goto, Typed, Frames, Frame
          <6>2. QED
            BY <3>1, <6>1 DEF Sweeping
        <5>2. QED
          BY <3>1, <5>1, SweepsKept DEF SweepInv, Sweeping
      <4>2. ASSUME NEW r \in Requests, SweepTokens(r)
            PROVE  \A t \in Tokens : token'[t].user = a /\ token'[t].status = "live" => token'[t].era = era'[a]
        <5>1. token \in [Tokens -> TokenRow] /\ token' = Revoked(req[r].who, token)
          BY <4>2 DEF SweepTokens, Typed, Tables
        <5>2. \A t \in Tokens : /\ token'[t].user = token[t].user /\ token'[t].era = token[t].era
                                /\ token'[t].status = "live" =>
                                     token[t].status = "live" /\ token[t].user # req[r].who
          BY <5>1, RevokedRows
        <5>3. ASSUME NEW q \in Requests, SweepTokens(q)
              PROVE  q = r
          BY <4>2, <5>3, OneSweep
        <5>4. SUFFICES ASSUME NEW t \in Tokens, token'[t].user = a, token'[t].status = "live"
                       PROVE  token'[t].era = era'[a]
          OBVIOUS
        <5>5. token[t].user = a /\ token[t].status = "live" /\ a # req[r].who /\ token'[t].era = token[t].era
          BY <5>2, <5>4
        <5>6. ~\E q \in Requests : SweepTokens(q) /\ req[q].who = a
          BY <5>3, <5>5
        <5>7. token[t].era = era[a]
          BY <4>1, <5>5, <5>6
        <5>8. QED
          BY <1>3, <5>5, <5>7
      <4>3. CASE ~\E r \in Requests : SweepTokens(r)
        <5>1. \A t \in Tokens : token[t].user = a /\ token[t].status = "live" => token[t].era = era'[a]
          BY <1>3, <4>1, <4>3
        <5>2. ASSUME NEW r \in Requests, InsertToken(r)
              PROVE  \A t \in Tokens : token'[t].user = a /\ token'[t].status = "live" =>
                        token'[t].era = era'[a]
          BY <1>3, <5>1, <5>2 DEF InsertToken, Typed, Tables
        <5>3. ASSUME NEW b \in Accounts, NEW k \in Tokens, RevokeToken(b, k)
              PROVE  \A t \in Tokens : token'[t].user = a /\ token'[t].status = "live" =>
                        token'[t].era = era'[a]
          <6>1. [token[k] EXCEPT !.status = "revoked"].status = "revoked"
            BY DEF Typed, Tables, TokenRow
          <6>2. QED
            BY <5>1, <5>3, <6>1 DEF RevokeToken, Typed, Tables
        <5>4. QED
          BY <4>3, <5>1, <5>2, <5>3, TokenWriters, DeletedRows
      <4>4. QED
        BY <4>2, <4>3
    <3>2. QED
      BY <3>1
  <2>4. QED
    BY <2>2, <2>3
<1>4. QED
  BY <1>2, <1>3, ErasSwept

\* Once its sweeps are done, no session or token from before a suspension is alive, for
\* any number of logins, suspensions and readmissions in flight.
THEOREM SuspensionAlwaysRevokes == SweepsFinish => (Spec => []SuspensionRevokes)
<1>1. SweepsFinish /\ Init => SweepInv
  BY DEF Init, SweepInv
<1>2. SweepsFinish /\ Typed /\ SweepInv /\ [Next]_vars => SweepInv'
  BY SweepStep
<1>3. SweepInv => SuspensionRevokes
  BY DEF SweepInv, SuspensionRevokes, Sweeping
<1>4. SweepsFinish => [](SweepsFinish)
  OBVIOUS
<1>5. QED
  BY <1>1, <1>2, <1>3, <1>4, TypedInvariant, PTL DEF Spec

----------------------------------------------------------------------------
(* A credential opens one session.                                          *)

Consumed(v) == \/ v \in Links /\ link[v].status = "used"
               \/ v \in Ceremonies /\ ceremony[v] = "taken"
               \/ v \in Grants /\ grant[v].spent = TRUE

\* A login and a session begin by consuming their credential.
ConsumedFirst ==
    /\ \A r \in Requests : req[r].at \in InLogin => Consumed(req[r].via)
    /\ \A s \in Sessions : session[s].via # None => Consumed(session[s].via)

\* The three things a step can do to the credentials behind logins and sessions.
Quiet ==
    /\ \A s \in Sessions : session'[s].via = session[s].via
    /\ \A q \in Requests : req'[q].at \in InLogin =>
          req[q].at \in InLogin /\ req'[q].via = req[q].via

Opens(r, v) ==
    /\ v \in Credentials /\ ~Consumed(v) /\ Consumed(v)'
    /\ UNCHANGED session
    /\ req'[r].via = v
    /\ \A q \in Requests \ {r} : req'[q] = req[q]

Concludes(r, s) ==
    /\ req[r].at \in InLogin /\ req'[r].at \notin InLogin
    /\ session'[s].via = req[r].via
    /\ \A t \in Sessions \ {s} : session'[t] = session[t]
    /\ \A q \in Requests \ {r} : req'[q] = req[q]

GrantRow == [state : {"unmade", "open", "deleted"}, spent : BOOLEAN]

LEMMA GrantRows ==
    \A row \in GrantRow : /\ \A x : [row EXCEPT !.state = x].spent = row.spent
                           /\ [row EXCEPT !.spent = TRUE].spent = TRUE
BY DEF GrantRow

LEMMA ConsumedStays ==
    ASSUME Typed, [Next]_vars, NEW v, Consumed(v)
    PROVE  Consumed(v)'
<1>1. CASE v \in Links /\ link[v].status = "used"
  <2>1. \/ UNCHANGED link
        \/ \E r \in Requests : IssueLink(r)
        \/ \E r \in Requests, l \in Links : ConsumeLink(r, l)
        \/ \E l \in Links : ExpireLink(l)
    <3>1. CASE Step
      BY <3>1 DEF Step, Upsert, Signup, ReadTotp, InsertSession, InsertInvite, InsertToken, Cancel,
         TakeRegistration, InsertPasskey, FindPasskey, DropState, SwapCode, LinkIdentity, Enroll, Confirm,
         Spend, Clear, Disable, SweepSessions, SweepTokens, Delete
    <3>2. CASE Single
      BY <3>2 DEF Single, Revoke, RevokeOthers, ExpireInvite, StartLogin, StartOauth, StartRegistration,
         Readmit, RevokeInvite, RemovePasskey, RevokeToken
    <3>3. QED
      BY <3>1, <3>2, ArriveWrites DEF Next, vars
  <2>2. link'[v].status = "used"
    BY <1>1, <2>1 DEF IssueLink, ConsumeLink, ExpireLink, Typed, Tables, LinkRow
  <2>3. QED
    BY <1>1, <2>2 DEF Consumed
<1>2. CASE v \in Ceremonies /\ ceremony[v] = "taken"
  <2>1. \/ UNCHANGED ceremony
        \/ \E r \in Requests, y \in Ceremonies, a \in Accounts, k \in Creds : TakeCeremony(r, y, a, k)
        \/ \E y \in Ceremonies : StartLogin(y)
    <3>1. CASE Step
      BY <3>1 DEF Step, IssueLink, Upsert, Signup, ReadTotp, InsertSession, InsertInvite, InsertToken, Cancel,
         TakeRegistration, InsertPasskey, FindPasskey, DropState, SwapCode, LinkIdentity, Enroll, Confirm,
         Spend, Clear, Disable, SweepSessions, SweepTokens, Delete, passVars
    <3>2. CASE Single
      BY <3>2 DEF Single, Revoke, RevokeOthers, ExpireLink, ExpireInvite, StartOauth, StartRegistration,
         Readmit, RevokeInvite, RemovePasskey, RevokeToken, passVars
    <3>3. QED
      BY <3>1, <3>2, ArriveWrites DEF Next, vars, passVars
  <2>2. ceremony'[v] = "taken"
    BY <1>2, <2>1 DEF TakeCeremony, StartLogin, Typed, Tables
  <2>3. QED
    BY <1>2, <2>2 DEF Consumed
<1>3. CASE v \in Grants /\ grant[v].spent = TRUE
  <2>1. \/ UNCHANGED grant
        \/ \E r \in Requests : DropState(r) \/ SwapCode(r)
        \/ \E g \in Grants : StartOauth(g)
    <3>1. CASE Step
      BY <3>1 DEF Step, IssueLink, Upsert, Signup, ReadTotp, InsertSession, InsertInvite, InsertToken, Cancel,
         TakeRegistration, InsertPasskey, FindPasskey, LinkIdentity, Enroll, Confirm,
         Spend, Clear, Disable, SweepSessions, SweepTokens, Delete, passVars
    <3>2. CASE Single
      BY <3>2 DEF Single, Revoke, RevokeOthers, ExpireLink, ExpireInvite, StartLogin, StartRegistration,
         Readmit, RevokeInvite, RemovePasskey, RevokeToken, passVars
    <3>3. QED
      BY <3>1, <3>2, ArriveWrites DEF Next, vars, passVars
  <2>2. grant \in [Grants -> GrantRow] /\ grant[v] \in GrantRow
    BY <1>3 DEF Typed, Tables, GrantRow
  <2>3. UNCHANGED grant => grant'[v].spent = TRUE
    BY <1>3
  <2>4. ASSUME NEW g, grant' = [grant EXCEPT ![g].state = "deleted"]
        PROVE  grant'[v].spent = TRUE
    BY <1>3, <2>2, <2>4, GrantRows
  <2>5. ASSUME NEW g, grant' = [grant EXCEPT ![g].state = "open"]
        PROVE  grant'[v].spent = TRUE
    BY <1>3, <2>2, <2>5, GrantRows
  <2>6. ASSUME NEW g, grant' = [grant EXCEPT ![g].spent = TRUE]
        PROVE  grant'[v].spent = TRUE
    BY <1>3, <2>2, <2>6, GrantRows
  <2>7. grant'[v].spent = TRUE
    BY <2>1, <2>3, <2>4, <2>5, <2>6 DEF DropState, SwapCode, StartOauth
  <2>8. QED
    BY <1>3, <2>7 DEF Consumed
<1>4. QED
  BY <1>1, <1>2, <1>3 DEF Consumed

\* A session keeps the credential it was opened with.
LEMMA ViaStays ==
    ASSUME Typed, [Next]_vars, ~\E r \in Requests : InsertSession(r)
    PROVE  \A s \in Sessions : session'[s].via = session[s].via
<1>1. session \in [Sessions -> SessionRow]
  BY DEF Typed, Tables
<1>2. \A row \in SessionRow : /\ [row EXCEPT !.status = "revoked"].via = row.via
                              /\ [row EXCEPT !.status = "deleted"].via = row.via
                              /\ [row EXCEPT !.pending = FALSE].via = row.via
  BY DEF SessionRow
<1>3. ASSUME NEW r \in Requests, SweepSessions(r)
      PROVE  \A s \in Sessions : session'[s].via = session[s].via
  <2>1. session' = [s \in Sessions |-> IF session[s].user = req[r].who /\ session[s].status = "live"
                                      THEN [session[s] EXCEPT !.status = "revoked"] ELSE session[s]]
    BY <1>1, <1>3 DEF SweepSessions, Revoked
  <2>2. QED
    BY <1>1, <1>2, <2>1
<1>4. ASSUME NEW r \in Requests, Clear(r)
      PROVE  \A s \in Sessions : session'[s].via = session[s].via
  BY <1>1, <1>2, <1>4 DEF Clear
<1>5. ASSUME NEW r \in Requests, Delete(r)
      PROVE  \A s \in Sessions : session'[s].via = session[s].via
  <2>1. \A s \in Sessions : session'[s] \in {session[s], [session[s] EXCEPT !.status = "deleted"]}
    BY <1>1, <1>5 DEF Delete
  <2>2. QED
    BY <1>1, <1>2, <2>1
<1>6. ASSUME NEW s \in Sessions, Revoke(s) \/ RevokeOthers(s)
      PROVE  \A t \in Sessions : session'[t].via = session[t].via
  BY <1>1, <1>2, <1>6 DEF Revoke, RevokeOthers
<1>7. QED
  BY <1>3, <1>4, <1>5, <1>6, SessionWriters

\* A frame that stays in its login, or leaves it, keeps its credential.
LEMMA FrameQuiet ==
    ASSUME Typed, NEW r \in Requests, NEW g, req' = [req EXCEPT ![r] = g],
           g.at \in InLogin => req[r].at \in InLogin /\ g.via = req[r].via
    PROVE  \A q \in Requests : req'[q].at \in InLogin =>
              req[q].at \in InLogin /\ req'[q].via = req[q].via
BY DEF Typed, Frames

LEMMA LoginSteps ==
    ASSUME Typed, NEW r \in Requests,
           \/ IssueLink(r) \/ Upsert(r) \/ Signup(r) \/ ReadTotp(r) \/ InsertSession(r)
           \/ InsertInvite(r) \/ InsertToken(r) \/ Cancel(r)
           \/ TakeRegistration(r) \/ InsertPasskey(r) \/ FindPasskey(r)
           \/ DropState(r) \/ LinkIdentity(r)
           \/ Enroll(r) \/ Confirm(r) \/ Spend(r) \/ Clear(r) \/ Disable(r)
           \/ SweepSessions(r) \/ SweepTokens(r) \/ Delete(r)
    PROVE  \A q \in Requests : req'[q].at \in InLogin =>
              req[q].at \in InLogin /\ req'[q].via = req[q].via
<1> DEFINE Kept == \A q \in Requests : req'[q].at \in InLogin =>
                      req[q].at \in InLogin /\ req'[q].via = req[q].via
           f == req[r]
<1>1. f \in Frame /\ FrameFits(f)
  BY DEF Typed, Frames
<1>2. Idle.at \notin InLogin
  BY DEF Idle, InLogin
<1>3. Finish(r) => Kept
  BY <1>2, FrameQuiet DEF Finish
<1>4. ASSUME NEW at \in Label, Goto(r, [f EXCEPT !.at = at]), at \in InLogin => f.at \in InLogin
      PROVE  Kept
  <2>1. [f EXCEPT !.at = at].at = at /\ [f EXCEPT !.at = at].via = f.via
    BY <1>1 DEF Frame
  <2>2. QED
    BY <1>4, <2>1, FrameQuiet DEF Goto
<1>5. ASSUME Goto(r, Known(f)), f.at \in InLogin
      PROVE  Kept
  BY <1>4, <1>5 DEF Known, Label
<1>6. ASSUME NEW b, Goto(r, [f EXCEPT !.at = "session", !.pending = b]), f.at \in InLogin
      PROVE  Kept
  <2>1. LET g == [f EXCEPT !.at = "session", !.pending = b] IN g.via = f.via
    BY <1>1 DEF Frame
  <2>2. QED
    BY <1>6, <2>1, FrameQuiet DEF Goto
<1> HIDE DEF Kept
<1>7. IssueLink(r) \/ InsertSession(r) \/ InsertInvite(r) \/ InsertToken(r) \/ Cancel(r) => Kept
  BY <1>3 DEF IssueLink, InsertSession, InsertInvite, InsertToken, Cancel
<1>8. ASSUME Upsert(r)
      PROVE  Kept
  <2>1. f.who \in Accounts /\ f.at \in InLogin
    BY <1>1, <1>8 DEF Upsert, At, FrameFits, InLogin
  <2>2. role[f.who] \in Roles
    BY <2>1 DEF Typed, Tables
  <2>3. Finish(r) \/ Goto(r, Known(f)) \/ Goto(r, [f EXCEPT !.at = "signup"])
    BY <1>8, <2>2 DEF Upsert, Roles
  <2>4. QED
    BY <1>3, <1>4, <1>5, <2>1, <2>3 DEF Label
<1>9. Signup(r) => Kept
  BY <1>3, <1>5 DEF Signup, At, InLogin
<1>10. ReadTotp(r) => Kept
  BY <1>6 DEF ReadTotp, At, InLogin
<1>11. TakeRegistration(r) \/ InsertPasskey(r) => Kept
  BY <1>3, <1>4 DEF TakeRegistration, InsertPasskey, Label, InLogin
<1>12. FindPasskey(r) => Kept
  BY <1>3, <1>4 DEF FindPasskey, At, Label, InLogin
<1>13. DropState(r) => Kept
  BY <1>4 DEF DropState, Label, InLogin
<1>14. LinkIdentity(r) => Kept
  BY <1>3, <1>4 DEF LinkIdentity, At, Label, InLogin
<1>15. Enroll(r) \/ Confirm(r) \/ Clear(r) \/ Disable(r) \/ SweepTokens(r) \/ Delete(r) => Kept
  BY <1>3 DEF Enroll, Confirm, Clear, Disable, SweepTokens, Delete
<1>16. Spend(r) => Kept
  BY <1>3, <1>4 DEF Spend, Label, InLogin
<1>17. SweepSessions(r) => Kept
  BY <1>4 DEF SweepSessions, Label, InLogin
<1>18. QED
  BY <1>7, <1>8, <1>9, <1>10, <1>11, <1>12, <1>13, <1>14, <1>15, <1>16, <1>17 DEF Kept

\* An arrival consumes its credential and begins a login with it, or begins no login.
LEMMA ArrivalEffects ==
    ASSUME Typed, Arrive
    PROVE  Quiet \/ \E r \in Requests, v \in Credentials : Opens(r, v)
<1>1. PICK r \in Requests :
         \/ \E a \in Accounts, c \in Codes \cup {None} : RequestLink(r, a, c)
         \/ \E l \in Links : ConsumeLink(r, l)
         \/ \E y \in Ceremonies, a \in Accounts, k \in Creds : TakeCeremony(r, y, a, k)
         \/ \E g \in Grants, a \in Accounts : BeginCallback(r, g, a)
         \/ \E s \in Sessions, x \in Factors : BeginChallenge(r, s, x)
         \/ \E a \in Accounts :
               \/ CountInvites(r, a) \/ BeginToken(r, a) \/ BeginEnroll(r, a)
               \/ BeginDelete(r, a) \/ Suspend(r, a)
               \/ \E k \in Creds : CountPasskeys(r, a, k)
               \/ \E k \in Steps : BeginConfirm(r, a, k) \/ BeginDisable(r, a, k)
  BY DEF Arrive
<1>2. UNCHANGED session
  BY ArriveWrites
<1>3. ASSUME NEW g, Goto(r, g), g.at \notin InLogin
      PROVE  Quiet
  BY <1>2, <1>3, FrameQuiet DEF Goto, Quiet
<1>4. ASSUME NEW v \in Credentials, NEW g, Goto(r, g), g.via = v, ~Consumed(v), Consumed(v)'
      PROVE  Opens(r, v)
  <2>1. req' = [req EXCEPT ![r] = g] /\ req \in [Requests -> Frame]
    BY <1>4 DEF Goto, Typed, Frames
  <2>2. req'[r] = g /\ \A q \in Requests \ {r} : req'[q] = req[q]
    BY <2>1
  <2>3. QED
    BY <1>2, <1>4, <2>2 DEF Opens
<1>5. ASSUME NEW l \in Links, ConsumeLink(r, l)
      PROVE  \E v \in Credentials : Opens(r, v)
  <2>1. LET g == [Idle EXCEPT !.at = "upsert", !.who = link[l].to, !.via = l, !.code = link[l].code]
        IN  g.via = l /\ Goto(r, g)
    BY <1>5 DEF ConsumeLink, Idle
  <2>2. ~Consumed(l)
    BY <1>5, AccountsAssumption DEF ConsumeLink, Consumed
  <2>3. Consumed(l)'
    BY <1>5 DEF ConsumeLink, Consumed, Typed, Tables, LinkRow
  <2>4. QED
    BY <1>4, <2>1, <2>2, <2>3 DEF Credentials
<1>6. ASSUME NEW y \in Ceremonies, NEW a \in Accounts, NEW k \in Creds, TakeCeremony(r, y, a, k)
      PROVE  \E v \in Credentials : Opens(r, v)
  <2>1. LET g == [Idle EXCEPT !.at = "creds", !.who = a, !.via = y, !.cred = k]
        IN  g.via = y /\ Goto(r, g)
    BY <1>6 DEF TakeCeremony, Idle
  <2>2. ~Consumed(y)
    BY <1>6, AccountsAssumption DEF TakeCeremony, Consumed
  <2>3. Consumed(y)'
    BY <1>6 DEF TakeCeremony, Consumed, Typed, Tables
  <2>4. QED
    BY <1>4, <2>1, <2>2, <2>3 DEF Credentials
<1>7. ASSUME NEW a \in Accounts, NEW c \in Codes \cup {None}, RequestLink(r, a, c)
      PROVE  Quiet
  <2>1. [Idle EXCEPT !.at = "issue", !.who = a, !.code = c].at = "issue"
    BY DEF Idle
  <2>2. QED
    BY <1>3, <1>7, <2>1 DEF RequestLink, InLogin
<1>8. ASSUME NEW g \in Grants, NEW a \in Accounts, BeginCallback(r, g, a)
      PROVE  Quiet
  <2>1. [Idle EXCEPT !.at = "state", !.who = a, !.via = g].at = "state"
    BY DEF Idle
  <2>2. QED
    BY <1>3, <1>8, <2>1 DEF BeginCallback, InLogin
<1>9. ASSUME NEW s \in Sessions, NEW x \in Factors, BeginChallenge(r, s, x)
      PROVE  Quiet
  <2>1. LET a == session[s].user
            g == [Idle EXCEPT !.at = "spend", !.who = a, !.session = s, !.factor = x,
                              !.secret = totp[a].secret, !.last = totp[a].last]
        IN  g.at = "spend" /\ Goto(r, g)
    BY <1>9 DEF BeginChallenge, Idle
  <2>2. QED
    BY <1>3, <2>1 DEF InLogin
<1>10. ASSUME NEW a \in Accounts,
              CountInvites(r, a) \/ BeginToken(r, a) \/ BeginEnroll(r, a) \/ BeginDelete(r, a) \/ Suspend(r, a)
       PROVE  Quiet
  <2>1. \E at \in {"invite", "token", "enroll", "delete", "sessions"} :
           Goto(r, [Idle EXCEPT !.at = at, !.who = a])
    BY <1>10 DEF CountInvites, BeginToken, BeginEnroll, BeginDelete, Suspend
  <2>2. \A at : [Idle EXCEPT !.at = at, !.who = a].at = at
    BY DEF Idle
  <2>3. QED
    BY <1>3, <2>1, <2>2 DEF InLogin
<1>11. ASSUME NEW a \in Accounts, NEW k \in Creds, CountPasskeys(r, a, k)
       PROVE  Quiet
  <2>1. [Idle EXCEPT !.at = "take", !.who = a, !.cred = k].at = "take"
    BY DEF Idle
  <2>2. QED
    BY <1>3, <1>11, <2>1 DEF CountPasskeys, InLogin
<1>12. ASSUME NEW a \in Accounts, NEW k \in Steps, BeginConfirm(r, a, k)
       PROVE  Quiet
  <2>1. [Idle EXCEPT !.at = "confirm", !.who = a, !.secret = totp[a].secret, !.factor = k].at = "confirm"
    BY DEF Idle
  <2>2. QED
    BY <1>3, <1>12, <2>1 DEF BeginConfirm, InLogin
<1>13. ASSUME NEW a \in Accounts, NEW k \in Steps, BeginDisable(r, a, k)
       PROVE  Quiet
  <2>1. [Idle EXCEPT !.at = "disable", !.who = a].at = "disable"
    BY DEF Idle
  <2>2. QED
    BY <1>3, <1>13, <2>1 DEF BeginDisable, InLogin
<1>14. QED
  BY <1>1, <1>5, <1>6, <1>7, <1>8, <1>9, <1>10, <1>11, <1>12, <1>13

LEMMA SwapEffects ==
    ASSUME Typed, NEW r \in Requests, SwapCode(r)
    PROVE  Quiet \/ \E v \in Credentials : Opens(r, v)
<1> DEFINE f == req[r]
<1>1. f \in Frame /\ f.via \in Grants /\ UNCHANGED session
  BY DEF SwapCode, At, Typed, Frames, FrameFits
<1>2. CASE Finish(r)
  BY <1>1, <1>2, FrameQuiet DEF Finish, Quiet, Idle, InLogin
<1>3. CASE ~Finish(r)
  <2>1. grant \in [Grants -> GrantRow] /\ req \in [Requests -> Frame]
    BY DEF Typed, Tables, GrantRow, Frames
  <2>2. PICK v \in Grants : v = f.via
    BY <1>1
  <2>3. ~Consumed(v)
    BY <1>3, <2>1, <2>2, AccountsAssumption DEF SwapCode, Consumed, GrantRow
  <2>4. grant' = [grant EXCEPT ![v].spent = TRUE]
    BY <2>2 DEF SwapCode
  <2>5. Consumed(v)'
    <3>1. grant'[v].spent = TRUE
      BY <2>1, <2>4, GrantRows
    <3>2. QED
      BY <3>1 DEF Consumed
  <2>6. \A at : [f EXCEPT !.at = at].via = f.via
    BY <1>1 DEF Frame
  <2>7. PICK g : Goto(r, g) /\ g.via = f.via
    <3>1. Goto(r, [f EXCEPT !.at = IF f.who \in identity THEN "totp" ELSE "upsert"])
      BY <1>3 DEF SwapCode
    <3>2. QED
      BY <2>6, <3>1
  <2>8. req'[r].via = f.via /\ \A q \in Requests \ {r} : req'[q] = req[q]
    BY <2>1, <2>7 DEF Goto
  <2>9. QED
    BY <1>1, <2>2, <2>3, <2>5, <2>8 DEF Opens, Credentials
<1>4. QED
  BY <1>2, <1>3

LEMMA InsertEffects ==
    ASSUME Typed, NEW r \in Requests, InsertSession(r)
    PROVE  Quiet \/ \E s \in Sessions : Concludes(r, s)
<1>1. CASE UNCHANGED session
  BY <1>1, LoginSteps DEF Quiet
<1>2. CASE session' # session
  <2>1. PICK s \in Sessions : session' = [session EXCEPT ![s] = NewSession(req[r])]
    BY <1>2 DEF InsertSession
  <2>2. session \in [Sessions -> SessionRow] /\ req \in [Requests -> Frame]
    BY DEF Typed, Tables, Frames
  <2>3. session'[s] = NewSession(req[r]) /\ \A t \in Sessions \ {s} : session'[t] = session[t]
    BY <2>1, <2>2
  <2>4. session'[s].via = req[r].via
    BY <2>3 DEF NewSession
  <2>5. req'[r] = Idle /\ \A q \in Requests \ {r} : req'[q] = req[q]
    BY <2>2 DEF InsertSession, Finish
  <2>6. req[r].at \in InLogin /\ req'[r].at \notin InLogin
    BY <2>5 DEF InsertSession, At, InLogin, Idle
  <2>7. QED
    BY <2>3, <2>4, <2>5, <2>6 DEF Concludes
<1>3. QED
  BY <1>1, <1>2

LEMMA LoginEffects ==
    ASSUME Typed, [Next]_vars
    PROVE  \/ Quiet
           \/ \E r \in Requests, v \in Credentials : Opens(r, v)
           \/ \E r \in Requests, s \in Sessions : Concludes(r, s)
<1>1. CASE \E r \in Requests : InsertSession(r)
  BY <1>1, InsertEffects
<1>2. CASE \E r \in Requests : SwapCode(r)
  BY <1>2, SwapEffects
<1>3. CASE Step /\ ~\E r \in Requests : InsertSession(r) \/ SwapCode(r)
  <2>1. PICK r \in Requests :
           \/ IssueLink(r) \/ Upsert(r) \/ Signup(r) \/ ReadTotp(r)
           \/ InsertInvite(r) \/ InsertToken(r) \/ Cancel(r)
           \/ TakeRegistration(r) \/ InsertPasskey(r) \/ FindPasskey(r)
           \/ DropState(r) \/ LinkIdentity(r)
           \/ Enroll(r) \/ Confirm(r) \/ Spend(r) \/ Clear(r) \/ Disable(r)
           \/ SweepSessions(r) \/ SweepTokens(r) \/ Delete(r)
    BY <1>3 DEF Step
  <2>2. \A s \in Sessions : session'[s].via = session[s].via
    BY <1>3, ViaStays
  <2>3. \A q \in Requests : req'[q].at \in InLogin => req[q].at \in InLogin /\ req'[q].via = req[q].via
    BY <2>1, LoginSteps
  <2>4. QED
    BY <2>2, <2>3 DEF Quiet
<1>4. CASE UNCHANGED req /\ ~\E r \in Requests : InsertSession(r)
  BY <1>4, ViaStays DEF Quiet
<1>5. Single => UNCHANGED req
  BY DEF Single, Revoke, RevokeOthers, ExpireLink, ExpireInvite, StartLogin, StartOauth,
     StartRegistration, Readmit, RevokeInvite, RemovePasskey, RevokeToken
<1>6. QED
  BY <1>1, <1>2, <1>3, <1>4, <1>5, ArrivalEffects DEF Next, vars

LEMMA OneSessionStep ==
    ASSUME Typed, ConsumedFirst, OneSessionPerCredential, [Next]_vars
    PROVE  (ConsumedFirst /\ OneSessionPerCredential)'
<1>1. \A r \in Requests : req[r].at \in InLogin => req[r].via # None
  BY AccountsAssumption DEF Typed, Frames, FrameFits, Credentials
<1>2. CASE Quiet
  <2>1. ConsumedFirst'
    <3>1. ASSUME NEW r \in Requests, NEW v, req'[r].at \in InLogin, v = req'[r].via
          PROVE  Consumed(v)'
      BY <1>2, <3>1, ConsumedStays DEF Quiet, ConsumedFirst
    <3>2. ASSUME NEW s \in Sessions, NEW v, v # None, v = session'[s].via
          PROVE  Consumed(v)'
      BY <1>2, <3>2, ConsumedStays DEF Quiet, ConsumedFirst
    <3>3. QED
      BY <3>1, <3>2 DEF ConsumedFirst, Consumed
  <2>2. OneSessionPerCredential'
    BY <1>2 DEF Quiet, OneSessionPerCredential
  <2>3. QED
    BY <2>1, <2>2
<1>3. ASSUME NEW r \in Requests, NEW v \in Credentials, Opens(r, v)
      PROVE  (ConsumedFirst /\ OneSessionPerCredential)'
  <2>1. /\ \A q \in Requests : req[q].at \in InLogin => req[q].via # v
        /\ \A s \in Sessions : session[s].via # v
    BY <1>3, AccountsAssumption DEF Opens, ConsumedFirst, Credentials
  <2>2. ASSUME NEW q \in Requests, NEW u, req'[q].at \in InLogin, u = req'[q].via
        PROVE  Consumed(u)'
    <3>1. CASE q = r
      BY <1>3, <2>2, <3>1 DEF Opens
    <3>2. CASE q # r
      BY <1>3, <2>2, <3>2, ConsumedStays DEF Opens, ConsumedFirst
    <3>3. QED
      BY <3>1, <3>2
  <2>3. ASSUME NEW s \in Sessions, NEW u, u # None, u = session'[s].via
        PROVE  Consumed(u)'
    BY <1>3, <2>3, ConsumedStays DEF Opens, ConsumedFirst
  <2>4. ConsumedFirst'
    BY <2>2, <2>3 DEF ConsumedFirst, Consumed
  <2>5. OneSessionPerCredential'
    BY <1>3, <2>1 DEF Opens, OneSessionPerCredential
  <2>6. QED
    BY <2>4, <2>5
<1>4. ASSUME NEW r \in Requests, NEW s \in Sessions, Concludes(r, s)
      PROVE  (ConsumedFirst /\ OneSessionPerCredential)'
  <2>1. /\ \A q \in Requests \ {r} : req[q].at \in InLogin => req[q].via # req[r].via
        /\ \A t \in Sessions : session[t].via # req[r].via
    BY <1>1, <1>4 DEF Concludes, OneSessionPerCredential
  <2>2. ASSUME NEW q \in Requests, NEW u, req'[q].at \in InLogin, u = req'[q].via
        PROVE  Consumed(u)'
    BY <1>4, <2>2, ConsumedStays DEF Concludes, ConsumedFirst
  <2>3. ASSUME NEW t \in Sessions, NEW u, u # None, u = session'[t].via
        PROVE  Consumed(u)'
    BY <1>4, <2>3, ConsumedStays DEF Concludes, ConsumedFirst
  <2>4. ConsumedFirst'
    BY <2>2, <2>3 DEF ConsumedFirst, Consumed
  <2>5. \A q \in Requests : req'[q].at \in InLogin => q # r /\ req'[q] = req[q]
    BY <1>4 DEF Concludes
  <2>6. \A t \in Sessions : t # s => session'[t] = session[t]
    BY <1>4 DEF Concludes
  <2>7. session'[s].via = req[r].via
    BY <1>4 DEF Concludes
  <2>8. OneSessionPerCredential'
    BY <2>1, <2>5, <2>6, <2>7 DEF OneSessionPerCredential
  <2>9. QED
    BY <2>4, <2>8
<1>5. QED
  BY <1>2, <1>3, <1>4, LoginEffects

\* However many requests present a magic link, a passkey ceremony or an authorization
\* code at once, it opens at most one session, for any number of each.
THEOREM CredentialsOpenOneSession == Spec => []OneSessionPerCredential
<1>1. Init => ConsumedFirst /\ OneSessionPerCredential
  BY DEF Init, Idle, InLogin, ConsumedFirst, OneSessionPerCredential
<1>2. Typed /\ ConsumedFirst /\ OneSessionPerCredential /\ [Next]_vars =>
         (ConsumedFirst /\ OneSessionPerCredential)'
  BY OneSessionStep
<1>3. QED
  BY <1>1, <1>2, TypedInvariant, PTL DEF Spec

----------------------------------------------------------------------------
(* An invite brings one account.                                            *)

\* An invite somebody came with is closed, an address nobody has signed up came with
\* none, and where invites are required a signup carries one.
CameInv ==
    /\ \A a \in Accounts : cameBy[a] # None => invite[cameBy[a]].status \in {"redeemed", "deleted"}
    /\ \A a \in Accounts : role[a] = "none" => cameBy[a] = None
    /\ \A r \in Requests : InvitesRequired /\ At(r, "signup") => req[r].code # None

\* Only the check in upsert_user leads to the signup.
LEMMA SignupFrames ==
    ASSUME Typed, [Next]_vars, NEW q \in Requests, At(q, "signup")'
    PROVE  \/ req'[q] = req[q]
           \/ /\ InvitesRequired => req[q].code # None
              /\ req'[q].code = req[q].code
<1>1. req \in [Requests -> Frame] /\ \A r \in Requests : req[r] \in Frame /\ FrameFits(req[r])
  BY DEF Typed, Frames
<1>2. CASE UNCHANGED req
  BY <1>2
<1>3. CASE Arrive
  BY <1>1, <1>3, ArriveMoves DEF At
<1>4. CASE Step
  <2>1. PICK r \in Requests :
           \/ IssueLink(r) \/ Upsert(r) \/ Signup(r) \/ ReadTotp(r) \/ InsertSession(r)
           \/ InsertInvite(r) \/ InsertToken(r) \/ Cancel(r)
           \/ TakeRegistration(r) \/ InsertPasskey(r) \/ FindPasskey(r)
           \/ DropState(r) \/ SwapCode(r) \/ LinkIdentity(r)
           \/ Enroll(r) \/ Confirm(r) \/ Spend(r) \/ Clear(r) \/ Disable(r)
           \/ SweepSessions(r) \/ SweepTokens(r) \/ Delete(r)
    BY <1>4 DEF Step
  <2>2. CASE r # q
    BY <1>1, <2>1, <2>2, StepMoves
  <2>3. CASE r = q
    <3> DEFINE f == req[r]
              K == /\ InvitesRequired => f.code # None
                   /\ req'[r].code = f.code
    <3>1. ASSUME Finish(r)
          PROVE  FALSE
      BY <1>1, <2>3, <3>1 DEF Finish, Idle, At
    <3>2. ASSUME NEW g, Goto(r, g)
          PROVE  req'[r] = g /\ g.at = "signup"
      BY <1>1, <2>3, <3>2 DEF Goto, At
    <3>3. \A at : [f EXCEPT !.at = at].at = at /\ [f EXCEPT !.at = at].code = f.code
      BY <1>1 DEF Frame
    <3>3a. ASSUME NEW at, Goto(r, [f EXCEPT !.at = at])
           PROVE  at = "signup" /\ req'[r].code = f.code
      BY <3>2, <3>3, <3>3a
    <3>4. \A b : [f EXCEPT !.at = "session", !.pending = b].at = "session"
      BY <1>1 DEF Frame
    <3>5. ~(IssueLink(r) \/ InsertSession(r) \/ InsertInvite(r) \/ InsertToken(r) \/ Cancel(r)
            \/ InsertPasskey(r) \/ Enroll(r) \/ Confirm(r) \/ Clear(r) \/ Disable(r) \/ SweepTokens(r)
            \/ Delete(r))
      BY <3>1 DEF IssueLink, InsertSession, InsertInvite, InsertToken, Cancel, InsertPasskey, Enroll,
         Confirm, Clear, Disable, SweepTokens, Delete
    <3>6. ~Signup(r)
      BY <3>1, <3>2, <3>3 DEF Signup, Known
    <3>7. ~ReadTotp(r)
      BY <3>2, <3>4 DEF ReadTotp
    <3>8. ~(TakeRegistration(r) \/ FindPasskey(r) \/ DropState(r) \/ LinkIdentity(r) \/ SweepSessions(r))
      BY <3>1, <3>3a DEF TakeRegistration, FindPasskey, DropState, LinkIdentity, SweepSessions
    <3>9. ~(SwapCode(r) \/ Spend(r))
      BY <3>1, <3>3a DEF SwapCode, Spend
    <3>10. CASE Upsert(r)
      <4>1. f.who \in Accounts
        BY <1>1, <3>10 DEF Upsert, At, FrameFits
      <4>2. role[f.who] \in Roles
        BY <4>1 DEF Typed, Tables
      <4>3. CASE role[f.who] \in {"suspended", "gone"}
        BY <3>1, <3>10, <4>3 DEF Upsert
      <4>4. CASE role[f.who] \in {"member", "admin"}
        BY <3>2, <3>3, <3>10, <4>4 DEF Upsert, Known
      <4>5. CASE role[f.who] = "none"
        <5>1. ~(InvitesRequired /\ f.code = None) /\ Goto(r, [f EXCEPT !.at = "signup"])
          BY <3>1, <3>10, <4>5 DEF Upsert
        <5>2. QED
          BY <2>3, <3>3a, <5>1
      <4>6. QED
        BY <4>2, <4>3, <4>4, <4>5 DEF Roles
    <3>11. QED
      BY <2>1, <3>5, <3>6, <3>7, <3>8, <3>9, <3>10
  <2>4. QED
    BY <2>2, <2>3
<1>5. Single => UNCHANGED req
  BY DEF Single, Revoke, RevokeOthers, ExpireLink, ExpireInvite, StartLogin, StartOauth,
     StartRegistration, Readmit, RevokeInvite, RemovePasskey, RevokeToken
<1>6. QED
  BY <1>2, <1>3, <1>4, <1>5 DEF Next, vars

\* Without a signup nobody comes, and a closed invite stays as it is or goes.
LEMMA NobodyComes ==
    ASSUME Typed, [Next]_vars, ~\E r \in Requests : Signup(r)
    PROVE  /\ UNCHANGED <<cameBy, invitedBy>>
           /\ \A a \in Accounts : /\ Present(a)' => Present(a)
                                  /\ role'[a] = "none" => role[a] = "none"
           /\ \A c \in Codes :
                 /\ invite'[c].redeemer = invite[c].redeemer
                 /\ invite[c].status \in {"redeemed", "deleted"} =>
                       invite'[c].status \in {"redeemed", "deleted"} /\ invite'[c].by = invite[c].by
<1>1. UNCHANGED <<cameBy, invitedBy>>
  BY PeopleWriters DEF peopleVars, Delete, Readmit, Suspend
<1>2. ASSUME NEW a \in Accounts
      PROVE  /\ Present(a)' => Present(a)
             /\ role'[a] = "none" => role[a] = "none"
  <2>1. role \in [Accounts -> Roles]
    BY DEF Typed, Tables
  <2>2. ASSUME NEW r \in Requests, Delete(r)
        PROVE  role'[a] \in {role[a], "gone"}
    <3>1. role' \in {role, [role EXCEPT ![req[r].who] = "gone"]}
      BY <2>2 DEF Delete
    <3>2. QED
      BY <2>1, <3>1
  <2>3. ASSUME NEW b \in Accounts, Readmit(b)
        PROVE  role'[a] = role[a] \/ (role[a] = "suspended" /\ role'[a] = "member")
    BY <2>1, <2>3 DEF Readmit
  <2>4. ASSUME NEW b \in Accounts, NEW r \in Requests, Suspend(r, b)
        PROVE  role'[a] = role[a] \/ (role[a] \in {"member", "suspended"} /\ role'[a] = "suspended")
    BY <2>1, <2>4 DEF Suspend
  <2>5. QED
    BY <2>2, <2>3, <2>4, PeopleWriters DEF peopleVars, Present
<1>3. ASSUME NEW c \in Codes
      PROVE  /\ invite'[c].redeemer = invite[c].redeemer
             /\ invite[c].status \in {"redeemed", "deleted"} =>
                   invite'[c].status \in {"redeemed", "deleted"} /\ invite'[c].by = invite[c].by
  <2>1. invite \in [Codes -> InviteRow]
    BY DEF Typed, Tables
  <2>2. \A row \in InviteRow : \A x, y :
           /\ [row EXCEPT !.status = x].redeemer = row.redeemer
           /\ [row EXCEPT !.status = x, !.by = y].redeemer = row.redeemer
    BY DEF InviteRow
  <2>3. ASSUME NEW r \in Requests, InsertInvite(r), invite' # invite
        PROVE  /\ invite'[c].redeemer = invite[c].redeemer
               /\ invite[c].status # "unmade" => invite'[c] = invite[c]
    <3>1. PICK d \in Codes : /\ invite[d].status = "unmade"
                             /\ invite' = [invite EXCEPT ![d].status = "open", ![d].by = req[r].who]
      BY <2>3 DEF InsertInvite
    <3>2. c # d => invite'[c] = invite[c]
      BY <2>1, <3>1
    <3>3. invite'[d] = [invite[d] EXCEPT !.status = "open", !.by = req[r].who]
      BY <2>1, <3>1
    <3>4. QED
      BY <2>1, <2>2, <3>1, <3>2, <3>3
  <2>4. ASSUME NEW a, NEW d \in Codes, ExpireInvite(d) \/ RevokeInvite(a, d)
        PROVE  /\ invite'[c].redeemer = invite[c].redeemer
               /\ invite[c].status \in {"redeemed", "deleted"} => invite'[c] = invite[c]
    <3>1. PICK x : /\ invite[d].status \in {"open", "expired"}
                   /\ invite' = [invite EXCEPT ![d].status = x]
      BY <2>4 DEF ExpireInvite, RevokeInvite
    <3>2. c # d => invite'[c] = invite[c]
      BY <2>1, <3>1
    <3>3. invite'[d] = [invite[d] EXCEPT !.status = x]
      BY <2>1, <3>1
    <3>4. QED
      BY <2>1, <2>2, <3>1, <3>2, <3>3
  <2>5. ASSUME NEW r \in Requests, Delete(r)
        PROVE  /\ invite'[c].redeemer = invite[c].redeemer /\ invite'[c].by = invite[c].by
               /\ invite'[c].status \in {invite[c].status, "deleted"}
    BY <2>5, DeletedRows
  <2>6. QED
    BY <2>3, <2>4, <2>5, InviteWriters
<1>4. QED
  BY <1>1, <1>2, <1>3

LEMMA InviteSame ==
    ASSUME Typed, CameInv, InviteBringsOne, [Next]_vars, ~\E r \in Requests : Signup(r)
    PROVE  (CameInv /\ InviteBringsOne)'
<1>1. /\ cameBy' = cameBy /\ invitedBy' = invitedBy
      /\ cameBy \in [Accounts -> Codes \cup {None}] /\ invite \in [Codes -> InviteRow]
      /\ \A c \in Codes : invite[c].redeemer \in Accounts \cup {None}
  BY NobodyComes DEF Typed, Tables, InviteRow
<1>2. \A r \in Requests : InvitesRequired /\ At(r, "signup")' => req'[r].code # None
  BY SignupFrames DEF CameInv, At
<1>3. \A a \in Accounts : cameBy[a] # None =>
         /\ invite'[cameBy[a]].status \in {"redeemed", "deleted"}
         /\ invite'[cameBy[a]].by = invite[cameBy[a]].by
         /\ invite'[cameBy[a]].redeemer = invite[cameBy[a]].redeemer
  BY <1>1, NobodyComes DEF CameInv
<1>4. CameInv'
  BY <1>1, <1>2, <1>3, NobodyComes DEF CameInv
<1>5. \A a \in Accounts : cameBy'[a] # None =>
         invite'[cameBy'[a]].redeemer = a /\ invitedBy'[a] = invite'[cameBy'[a]].by
  BY <1>1, <1>3 DEF InviteBringsOne
<1>6. \A c \in Codes : invite'[c].redeemer # None => cameBy'[invite'[c].redeemer] = c
  BY <1>1, NobodyComes DEF InviteBringsOne
<1>7. \A a, b \in Accounts : cameBy'[a] # None /\ cameBy'[a] = cameBy'[b] => a = b
  BY <1>1 DEF InviteBringsOne
<1>8. InvitesRequired => \A a \in Accounts \ Settled : Present(a)' => cameBy'[a] # None
  BY <1>1, NobodyComes DEF InviteBringsOne
<1>9. InviteBringsOne'
  BY <1>5, <1>6, <1>7, <1>8 DEF InviteBringsOne, Present
<1>10. QED
  BY <1>4, <1>9

LEMMA InviteRedeemed ==
    ASSUME Typed, CameInv, InviteBringsOne, [Next]_vars, NEW r \in Requests, Signup(r)
    PROVE  (CameInv /\ InviteBringsOne)'
<1> DEFINE f == req[r]
           a == f.who
           c == f.code
<1>1. /\ a \in Accounts /\ c \in Codes \cup {None}
      /\ role \in [Accounts -> Roles] /\ invite \in [Codes -> InviteRow]
      /\ cameBy \in [Accounts -> Codes \cup {None}] /\ invitedBy \in [Accounts -> Accounts \cup {None}]
      /\ \A d \in Codes : invite[d].redeemer \in Accounts \cup {None}
  BY DEF Signup, At, Typed, Tables, Frames, Frame, FrameFits, InviteRow
<1>2. \A q \in Requests : InvitesRequired /\ At(q, "signup")' => req'[q].code # None
  BY SignupFrames DEF CameInv, At
<1>3. CASE UNCHANGED <<role, invitedBy, cameBy, invite>>
  BY <1>2, <1>3 DEF CameInv, InviteBringsOne, Present
<1>4. CASE role[a] = "none" /\ (c # None => Redeemable(c)) /\ Enter(f)
  <2>1. /\ cameBy[a] = None
        /\ InvitesRequired => c # None
    BY <1>1, <1>4 DEF Signup, CameInv, At
  <2>2. /\ \A b \in Accounts : b # a => role'[b] = role[b]
        /\ role'[a] \in {"admin", "member"}
    BY <1>1, <1>4 DEF Enter
  <2>3. /\ \A b \in Accounts : b # a => cameBy'[b] = cameBy[b] /\ invitedBy'[b] = invitedBy[b]
        /\ cameBy'[a] = c
        /\ c # None => invitedBy'[a] = invite[c].by
    BY <1>1, <1>4 DEF Enter
  <2>4. CASE c = None
    <3>1. invite' = invite
      BY <1>4, <2>4 DEF Enter
    <3>2. cameBy' = cameBy
      BY <1>1, <1>4, <2>1, <2>4 DEF Enter
    <3>3. CameInv'
      BY <1>2, <2>2, <3>1, <3>2 DEF CameInv
    <3>4. \A b \in Accounts : cameBy[b] # None => invitedBy'[b] = invitedBy[b]
      BY <2>1, <2>3
    <3>5. InvitesRequired => FALSE
      BY <2>1, <2>4
    <3>6. InviteBringsOne'
      BY <3>1, <3>2, <3>4, <3>5 DEF InviteBringsOne
    <3>7. QED
      BY <3>3, <3>6
  <2>5. CASE c # None
    <3>1. c \in Codes /\ invite[c].status = "open"
      BY <1>1, <1>4, <2>5 DEF Redeemable
    <3>2. \A b \in Accounts : cameBy[b] # c
      BY <2>5, <3>1 DEF CameInv
    <3>3. invite[c].redeemer = None
      BY <1>1, <3>1, <3>2 DEF InviteBringsOne
    <3>4. /\ invite'[c].status = "redeemed" /\ invite'[c].redeemer = a /\ invite'[c].by = invite[c].by
          /\ \A d \in Codes : d # c => invite'[d] = invite[d]
      <4>1. invite' = [invite EXCEPT ![c] = [invite[c] EXCEPT !.status = "redeemed", !.redeemer = a]]
        BY <1>1, <1>4, <2>5, <3>1 DEF Enter
      <4>2. \A row \in InviteRow : LET new == [row EXCEPT !.status = "redeemed", !.redeemer = a]
                                  IN  new.status = "redeemed" /\ new.redeemer = a /\ new.by = row.by
        BY DEF InviteRow
      <4>3. QED
        BY <1>1, <3>1, <4>1, <4>2
    <3>5. \A b \in Accounts : cameBy'[b] # None => b = a \/ (cameBy'[b] = cameBy[b] /\ cameBy[b] # c)
      BY <2>3, <3>2
    <3>6. \A b \in Accounts : cameBy'[b] # None => invite'[cameBy'[b]].status \in {"redeemed", "deleted"}
      BY <1>1, <2>3, <3>2, <3>4 DEF CameInv
    <3>7. CameInv'
      BY <1>2, <2>2, <2>3, <3>6 DEF CameInv
    <3>8. \A b \in Accounts : cameBy'[b] # None =>
             invite'[cameBy'[b]].redeemer = b /\ invitedBy'[b] = invite'[cameBy'[b]].by
      BY <1>1, <2>3, <3>1, <3>2, <3>4 DEF InviteBringsOne
    <3>9. \A d \in Codes : invite'[d].redeemer # None => cameBy'[invite'[d].redeemer] = d
      <4>1. ASSUME NEW d \in Codes, d # c, invite'[d].redeemer # None
            PROVE  cameBy'[invite'[d].redeemer] = d
        <5>1. PICK e \in Accounts : e = invite[d].redeemer /\ e = invite'[d].redeemer /\ cameBy[e] = d
          BY <1>1, <3>4, <4>1 DEF InviteBringsOne
        <5>2. e # a
          BY <2>1, <5>1, AccountsAssumption
        <5>3. QED
          BY <2>3, <5>1, <5>2
      <4>2. QED
        BY <2>3, <3>4, <4>1
    <3>10. \A x, y \in Accounts : cameBy'[x] # None /\ cameBy'[x] = cameBy'[y] => x = y
      BY <2>3, <3>2 DEF InviteBringsOne
    <3>11. InvitesRequired => \A b \in Accounts \ Settled : Present(b)' => cameBy'[b] # None
      BY <2>2, <2>3, <2>5 DEF InviteBringsOne, Present
    <3>12. InviteBringsOne'
      BY <3>8, <3>9, <3>10, <3>11 DEF InviteBringsOne, Present
    <3>13. QED
      BY <3>7, <3>12
  <2>6. QED
    BY <2>4, <2>5
<1>5. QED
  BY <1>3, <1>4 DEF Signup

\* An invite brings one account and names it, for any number of links, invites and
\* signups under way at once.
THEOREM InvitesBringOneAccount == Spec => []InviteBringsOne
<1>1. Init => CameInv /\ InviteBringsOne
  BY DEF Init, Idle, At, Present, CameInv, InviteBringsOne
<1>2. Typed /\ CameInv /\ InviteBringsOne /\ [Next]_vars => (CameInv /\ InviteBringsOne)'
  BY InviteSame, InviteRedeemed
<1>3. QED
  BY <1>1, <1>2, TypedInvariant, PTL DEF Spec

----------------------------------------------------------------------------
(* A code of the second factor is accepted once.                            *)

\* One confirmation is in flight at a time.
ConfirmSerial == "confirm" \in Serial

\* What a challenge or a confirmation read, while it is in flight: its secret is nobody
\* else's; the row is confirmed if the secret is still there; a row to be confirmed is not.
FactorRead ==
    \A r \in Requests :
       LET f == req[r] IN
       /\ f.at \in {"spend", "confirm"} =>
             /\ f.secret # 0 /\ f.secret <= drawn
             /\ \A b \in Accounts \ {f.who} : totp[b].secret # f.secret
       /\ f.at = "spend" /\ totp[f.who].secret = f.secret => totp[f.who].confirmed
       /\ f.at = "confirm" => ~totp[f.who].confirmed /\ \A q \in Requests : At(q, "confirm") => q = r

\* Secrets are drawn once, and what is spent of the current one shows in its row.
SpentInv ==
    /\ \A a, b \in Accounts : totp[a].secret # 0 /\ totp[a].secret = totp[b].secret => a = b
    /\ \A s \in 0 .. MaxSecret : \A x \in Factors : <<s, x>> \in spent => s <= drawn
    /\ \A a \in Accounts :
          LET row == totp[a] IN
          /\ row.secret <= drawn
          /\ row.secret = 0 => ~row.confirmed
          /\ row.secret # 0 => \A x \in Factors : <<row.secret, x>> \in spent =>
                /\ row.confirmed
                /\ x \in Steps => x <= row.last
                /\ x \in Recovery => x \notin row.codes

\* Only a challenge and a confirmation that arrive read a secret.
LEMMA FactorFrames ==
    ASSUME Typed, [Next]_vars, NEW q \in Requests, req'[q].at \in {"spend", "confirm"}
    PROVE  \/ req'[q] = req[q]
           \/ \E s \in Sessions, x \in Factors : BeginChallenge(q, s, x)
           \/ \E a \in Accounts, k \in Steps : BeginConfirm(q, a, k)
<1>1. req \in [Requests -> Frame] /\ \A r \in Requests : req[r] \in Frame /\ FrameFits(req[r])
  BY DEF Typed, Frames
<1>2. CASE UNCHANGED req
  BY <1>2
<1>3. CASE Arrive
  <2>1. PICK r \in Requests :
           \/ \E a \in Accounts, c \in Codes \cup {None} : RequestLink(r, a, c)
           \/ \E l \in Links : ConsumeLink(r, l)
           \/ \E y \in Ceremonies, a \in Accounts, k \in Creds : TakeCeremony(r, y, a, k)
           \/ \E g \in Grants, a \in Accounts : BeginCallback(r, g, a)
           \/ \E s \in Sessions, x \in Factors : BeginChallenge(r, s, x)
           \/ \E a \in Accounts :
                 \/ CountInvites(r, a) \/ BeginToken(r, a) \/ BeginEnroll(r, a)
                 \/ BeginDelete(r, a) \/ Suspend(r, a)
                 \/ \E k \in Creds : CountPasskeys(r, a, k)
                 \/ \E k \in Steps : BeginConfirm(r, a, k) \/ BeginDisable(r, a, k)
    BY <1>3 DEF Arrive
  <2>2. ASSUME NEW g, Goto(r, g), g.at \notin {"spend", "confirm"}
        PROVE  req'[q] = req[q]
    BY <1>1, <2>2 DEF Goto
  <2>3. ASSUME NEW g, Goto(r, g)
        PROVE  r = q \/ req'[q] = req[q]
    BY <1>1, <2>3 DEF Goto
  <2>4. ASSUME NEW a \in Accounts, NEW c \in Codes \cup {None}, RequestLink(r, a, c)
        PROVE  req'[q] = req[q]
    BY <2>2, <2>4 DEF RequestLink, Idle
  <2>5. ASSUME NEW l \in Links, ConsumeLink(r, l)
        PROVE  req'[q] = req[q]
    BY <2>2, <2>5 DEF ConsumeLink, Idle
  <2>6. ASSUME NEW y \in Ceremonies, NEW a \in Accounts, NEW k \in Creds, TakeCeremony(r, y, a, k)
        PROVE  req'[q] = req[q]
    BY <2>2, <2>6 DEF TakeCeremony, Idle
  <2>7. ASSUME NEW g \in Grants, NEW a \in Accounts, BeginCallback(r, g, a)
        PROVE  req'[q] = req[q]
    BY <2>2, <2>7 DEF BeginCallback, Idle
  <2>8. ASSUME NEW s \in Sessions, NEW x \in Factors, BeginChallenge(r, s, x)
        PROVE  r = q \/ req'[q] = req[q]
    BY <2>3, <2>8 DEF BeginChallenge
  <2>9. ASSUME NEW a \in Accounts,
               CountInvites(r, a) \/ BeginToken(r, a) \/ BeginEnroll(r, a) \/ BeginDelete(r, a) \/ Suspend(r, a)
        PROVE  req'[q] = req[q]
    BY <2>2, <2>9 DEF CountInvites, BeginToken, BeginEnroll, BeginDelete, Suspend, Idle
  <2>10. ASSUME NEW a \in Accounts, NEW k \in Creds, CountPasskeys(r, a, k)
         PROVE  req'[q] = req[q]
    BY <2>2, <2>10 DEF CountPasskeys, Idle
  <2>11. ASSUME NEW a \in Accounts, NEW k \in Steps, BeginConfirm(r, a, k)
         PROVE  r = q \/ req'[q] = req[q]
    BY <2>3, <2>11 DEF BeginConfirm
  <2>12. ASSUME NEW a \in Accounts, NEW k \in Steps, BeginDisable(r, a, k)
         PROVE  req'[q] = req[q]
    BY <2>2, <2>12 DEF BeginDisable, Idle
  <2>13. QED
    BY <2>1, <2>4, <2>5, <2>6, <2>7, <2>8, <2>9, <2>10, <2>11, <2>12
<1>4. CASE Step
  <2>1. PICK r \in Requests :
           \/ IssueLink(r) \/ Upsert(r) \/ Signup(r) \/ ReadTotp(r) \/ InsertSession(r)
           \/ InsertInvite(r) \/ InsertToken(r) \/ Cancel(r)
           \/ TakeRegistration(r) \/ InsertPasskey(r) \/ FindPasskey(r)
           \/ DropState(r) \/ SwapCode(r) \/ LinkIdentity(r)
           \/ Enroll(r) \/ Confirm(r) \/ Spend(r) \/ Clear(r) \/ Disable(r)
           \/ SweepSessions(r) \/ SweepTokens(r) \/ Delete(r)
    BY <1>4 DEF Step
  <2>2. CASE r # q
    BY <1>1, <2>1, <2>2, StepMoves
  <2>3. CASE r = q
    <3> DEFINE f == req[r]
    <3>1. ASSUME Finish(r)
          PROVE  FALSE
      BY <1>1, <2>3, <3>1 DEF Finish, Idle
    <3>2. /\ \A at : [f EXCEPT !.at = at].at = at
          /\ \A b : [f EXCEPT !.at = "session", !.pending = b].at = "session"
      BY <1>1 DEF Frame
    <3>3. ASSUME NEW g, Goto(r, g)
          PROVE  g.at \in {"spend", "confirm"}
      BY <1>1, <2>3, <3>3 DEF Goto
    <3>4. ASSUME NEW at, Goto(r, [f EXCEPT !.at = at])
          PROVE  at \in {"spend", "confirm"}
      BY <3>2, <3>3, <3>4
    <3>5. ~(IssueLink(r) \/ InsertSession(r) \/ InsertInvite(r) \/ InsertToken(r) \/ Cancel(r)
            \/ InsertPasskey(r) \/ Enroll(r) \/ Confirm(r) \/ Clear(r) \/ Disable(r) \/ SweepTokens(r)
            \/ Delete(r))
      BY <3>1 DEF IssueLink, InsertSession, InsertInvite, InsertToken, Cancel, InsertPasskey, Enroll,
         Confirm, Clear, Disable, SweepTokens, Delete
    <3>6. ~Signup(r)
      BY <3>1, <3>4 DEF Signup, Known
    <3>7. ~ReadTotp(r)
      BY <3>2, <3>3 DEF ReadTotp
    <3>8. ~(TakeRegistration(r) \/ FindPasskey(r) \/ DropState(r) \/ LinkIdentity(r) \/ SweepSessions(r))
      BY <3>1, <3>4 DEF TakeRegistration, FindPasskey, DropState, LinkIdentity, SweepSessions
    <3>9. ~(SwapCode(r) \/ Spend(r))
      BY <3>1, <3>4 DEF SwapCode, Spend
    <3>10. ~Upsert(r)
      <4>1. ASSUME Upsert(r)
            PROVE  f.who \in Accounts /\ role[f.who] \in Roles
        BY <1>1, <4>1 DEF Upsert, At, FrameFits, Typed, Tables
      <4>2. ASSUME Upsert(r)
            PROVE  \/ Finish(r) \/ Goto(r, Known(f))
                   \/ Goto(r, [f EXCEPT !.at = "signup"])
        BY <4>1, <4>2 DEF Upsert, Roles
      <4>3. QED
        BY <3>1, <3>4, <4>2 DEF Known
    <3>11. QED
      BY <2>1, <3>5, <3>6, <3>7, <3>8, <3>9, <3>10
  <2>4. QED
    BY <2>2, <2>3
<1>5. Single => UNCHANGED req
  BY DEF Single, Revoke, RevokeOthers, ExpireLink, ExpireInvite, StartLogin, StartOauth,
     StartRegistration, Readmit, RevokeInvite, RemovePasskey, RevokeToken
<1>6. QED
  BY <1>2, <1>3, <1>4, <1>5 DEF Next, vars

\* What the statements do to the row of an account, to the codes spent and to the secrets.
Enrolls(a) ==
    /\ drawn' = drawn + 1 /\ spent' = spent /\ ~totp[a].confirmed
    /\ totp' = [totp EXCEPT ![a] = [secret |-> drawn + 1, confirmed |-> FALSE, last |-> 0, codes |-> Recovery]]

Disables(a) == UNCHANGED <<drawn, spent>> /\ totp' = [totp EXCEPT ![a] = NoTotp]

Confirms(f) ==
    /\ drawn' = drawn /\ spent' = spent \cup {<<f.secret, f.factor>>}
    /\ f.at = "confirm" /\ f.who \in Accounts /\ f.secret \in 0 .. MaxSecret /\ f.factor \in Steps
    /\ totp' = IF totp[f.who].secret = 0 THEN totp
               ELSE [totp EXCEPT ![f.who].confirmed = TRUE, ![f.who].last = f.factor]

Spends(f) ==
    /\ drawn' = drawn /\ spent' = spent \cup {<<f.secret, f.factor>>}
    /\ f.at = "spend" /\ f.who \in Accounts /\ f.secret \in 0 .. MaxSecret /\ f.factor \in Factors
    /\ Accepted(f, totp[f.who])
    /\ totp' = IF f.factor \in Steps THEN [totp EXCEPT ![f.who].last = f.factor]
               ELSE [totp EXCEPT ![f.who].codes = @ \ {f.factor}]

LEMMA FactorEffects ==
    ASSUME Typed, [Next]_vars
    PROVE  \/ UNCHANGED factorVars
           \/ \E a \in Accounts : Enrolls(a) \/ Disables(a)
           \/ \E r \in Requests : Confirms(req[r]) /\ Finish(r)
           \/ \E r \in Requests : Spends(req[r]) /\ Spend(r)
<1>1. \/ UNCHANGED factorVars
      \/ \E r \in Requests : Enroll(r) \/ Confirm(r) \/ Spend(r) \/ Disable(r) \/ Delete(r)
  <2>1. CASE Step
    BY <2>1 DEF Step, IssueLink, Upsert, Signup, ReadTotp, InsertSession, InsertInvite, InsertToken, Cancel,
       TakeRegistration, InsertPasskey, FindPasskey, DropState, SwapCode, LinkIdentity, Clear,
       SweepSessions, SweepTokens, passVars, factorVars
  <2>2. CASE Single
    BY <2>2 DEF Single, Revoke, RevokeOthers, ExpireLink, ExpireInvite, StartLogin, StartOauth,
       StartRegistration, Readmit, RevokeInvite, RemovePasskey, RevokeToken, passVars, factorVars
  <2>3. QED
    BY <2>1, <2>2, ArriveWrites DEF Next, vars, passVars, factorVars
<1>2. \A r \in Requests : req[r] \in Frame /\ FrameFits(req[r])
  BY DEF Typed, Frames
<1>3. ASSUME NEW r \in Requests, Enroll(r)
      PROVE  UNCHANGED factorVars \/ \E a \in Accounts : Enrolls(a)
  BY <1>2, <1>3 DEF Enroll, At, FrameFits, Enrolls, factorVars
<1>4. ASSUME NEW r \in Requests, Disable(r) \/ Delete(r)
      PROVE  UNCHANGED factorVars \/ \E a \in Accounts : Disables(a)
  BY <1>2, <1>4 DEF Disable, Delete, At, FrameFits, Disables, factorVars
<1>5. ASSUME NEW r \in Requests, Confirm(r)
      PROVE  Confirms(req[r]) /\ Finish(r)
  BY <1>2, <1>5 DEF Confirm, At, Frame, FrameFits, Confirms
<1>6. ASSUME NEW r \in Requests, Spend(r)
      PROVE  UNCHANGED factorVars \/ Spends(req[r])
  BY <1>2, <1>6 DEF Spend, At, Frame, FrameFits, Spends, factorVars
<1>7. QED
  BY <1>1, <1>3, <1>4, <1>5, <1>6

\* The row of an account after a code was accepted.
LEMMA AcceptedRows ==
    ASSUME Typed, NEW f, Confirms(f) \/ Spends(f)
    PROVE  /\ \A b \in Accounts : b # f.who => totp'[b] = totp[b]
           /\ Confirms(f) /\ totp[f.who].secret = 0 => totp'[f.who] = totp[f.who]
           /\ Confirms(f) /\ totp[f.who].secret # 0 =>
                 /\ totp'[f.who].secret = totp[f.who].secret
                 /\ totp'[f.who].confirmed = TRUE /\ totp'[f.who].last = f.factor
           /\ Spends(f) =>
                 /\ totp'[f.who].secret = totp[f.who].secret
                 /\ totp'[f.who].confirmed = totp[f.who].confirmed
                 /\ f.factor \in Steps => /\ totp'[f.who].last = f.factor
                                          /\ totp'[f.who].codes = totp[f.who].codes
                 /\ f.factor \notin Steps => /\ totp'[f.who].last = totp[f.who].last
                                             /\ totp'[f.who].codes = totp[f.who].codes \ {f.factor}
<1>1. totp \in [Accounts -> TotpRow] /\ f.who \in Accounts
  BY DEF Typed, Tables, Confirms, Spends
<1>2. PICK row \in TotpRow : row = totp[f.who]
  BY <1>1
<1>3. \A b \in Accounts : b # f.who => totp'[b] = totp[b]
  BY <1>1 DEF Confirms, Spends
<1>4. CASE Confirms(f)
  <2>1. CASE row.secret = 0
    BY <1>1, <1>2, <1>3, <1>4, <2>1 DEF Confirms, Spends
  <2>2. CASE row.secret # 0
    <3>1. totp'[f.who] = [row EXCEPT !.confirmed = TRUE, !.last = f.factor]
      BY <1>1, <1>2, <1>4, <2>2 DEF Confirms
    <3>2. LET new == [row EXCEPT !.confirmed = TRUE, !.last = f.factor]
          IN  new.secret = row.secret /\ new.confirmed = TRUE /\ new.last = f.factor
      BY DEF TotpRow
    <3>3. QED
      BY <1>2, <1>3, <1>4, <2>2, <3>1, <3>2 DEF Confirms, Spends
  <2>3. QED
    BY <2>1, <2>2
<1>5. CASE Spends(f) /\ f.factor \in Steps
  <2>1. totp'[f.who] = [row EXCEPT !.last = f.factor]
    BY <1>1, <1>2, <1>5 DEF Spends
  <2>2. LET new == [row EXCEPT !.last = f.factor]
        IN  /\ new.secret = row.secret /\ new.confirmed = row.confirmed
            /\ new.last = f.factor /\ new.codes = row.codes
    BY DEF TotpRow
  <2>3. QED
    BY <1>2, <1>3, <1>5, <2>1, <2>2 DEF Confirms, Spends
<1>6. CASE Spends(f) /\ f.factor \notin Steps
  <2>1. totp'[f.who] = [row EXCEPT !.codes = row.codes \ {f.factor}]
    BY <1>1, <1>2, <1>6 DEF Spends
  <2>2. LET new == [row EXCEPT !.codes = row.codes \ {f.factor}]
        IN  /\ new.secret = row.secret /\ new.confirmed = row.confirmed
            /\ new.last = row.last /\ new.codes = row.codes \ {f.factor}
    BY DEF TotpRow
  <2>3. QED
    BY <1>2, <1>3, <1>6, <2>1, <2>2 DEF Confirms, Spends
<1>7. QED
  BY <1>4, <1>5, <1>6

\* A row keeps its secret, loses it or gets a new one, and is confirmed by a confirmation.
LEMMA RowMoves ==
    ASSUME Typed, SpentInv, [Next]_vars, NEW b \in Accounts
    PROVE  /\ drawn' \in {drawn, drawn + 1}
           /\ \/ totp'[b].secret = 0
              \/ totp'[b].secret = drawn + 1 /\ ~totp'[b].confirmed
              \/ totp'[b].secret = totp[b].secret /\ (totp[b].confirmed => totp'[b].confirmed)
           /\ totp'[b].confirmed =>
                 totp[b].confirmed \/ \E r \in Requests : At(r, "confirm") /\ req[r].who = b /\ Finish(r)
<1>1. totp \in [Accounts -> TotpRow] /\ drawn \in Nat
  BY AccountsAssumption DEF Typed, Tables
<1>2. \A row \in TotpRow : \A x, y :
         /\ [row EXCEPT !.last = x].secret = row.secret /\ [row EXCEPT !.last = x].confirmed = row.confirmed
         /\ [row EXCEPT !.codes = y].secret = row.secret /\ [row EXCEPT !.codes = y].confirmed = row.confirmed
         /\ [row EXCEPT !.confirmed = TRUE, !.last = x].secret = row.secret
         /\ [row EXCEPT !.confirmed = TRUE, !.last = x].confirmed = TRUE
  BY DEF TotpRow
<1>3. CASE UNCHANGED factorVars
  BY <1>3 DEF factorVars
<1>4. ASSUME NEW a \in Accounts, Enrolls(a) \/ Disables(a)
      PROVE  /\ drawn' \in {drawn, drawn + 1}
             /\ \/ totp'[b] = totp[b]
                \/ totp'[b].secret = 0 /\ totp'[b].confirmed = FALSE
                \/ totp'[b].secret = drawn + 1 /\ totp'[b].confirmed = FALSE
  BY <1>1, <1>4 DEF Enrolls, Disables, NoTotp
<1>5. ASSUME NEW r \in Requests, Confirms(req[r]), Finish(r)
      PROVE  /\ drawn' = drawn
             /\ totp'[b].secret = totp[b].secret
             /\ req[r].who # b => totp'[b] = totp[b]
             /\ totp[b].confirmed => totp'[b].confirmed
  <2>1. CASE req[r].who # b \/ totp[b].secret = 0
    BY <1>1, <1>5, <2>1 DEF Confirms
  <2>2. CASE req[r].who = b /\ totp[b].secret # 0
    <3>1. totp' = [totp EXCEPT ![b] = [totp[b] EXCEPT !.confirmed = TRUE, !.last = req[r].factor]]
      BY <1>1, <1>5, <2>2 DEF Confirms
    <3>2. totp'[b] = [totp[b] EXCEPT !.confirmed = TRUE, !.last = req[r].factor]
      BY <1>1, <3>1
    <3>3. QED
      BY <1>1, <1>2, <1>5, <2>2, <3>2 DEF Confirms
  <2>3. QED
    BY <2>1, <2>2
<1>6. ASSUME NEW r \in Requests, Spends(req[r])
      PROVE  /\ drawn' = drawn
             /\ totp'[b].secret = totp[b].secret /\ totp'[b].confirmed = totp[b].confirmed
  BY <1>1, <1>2, <1>6 DEF Spends
<1>7. QED
  BY <1>3, <1>4, <1>5, <1>6, FactorEffects DEF Confirms, At, factorVars

LEMMA FactorReadStep ==
    ASSUME "confirm" \in Serial, Typed, FactorRead, SpentInv, [Next]_vars
    PROVE  FactorRead'
<1>1. /\ req \in [Requests -> Frame] /\ totp \in [Accounts -> TotpRow] /\ drawn \in Nat
      /\ \A r \in Requests : FrameFits(req[r]) /\ req[r].secret \in Nat
      /\ \A b \in Accounts : totp[b].secret \in Nat
  BY AccountsAssumption DEF Typed, Tables, Frames, Frame, TotpRow
<1>2. ASSUME NEW r \in Requests, NEW f, f = req'[r], f.at \in {"spend", "confirm"}, f = req[r]
      PROVE  /\ f.secret # 0 /\ f.secret <= drawn'
             /\ \A b \in Accounts \ {f.who} : totp'[b].secret # f.secret
             /\ f.at = "spend" /\ totp'[f.who].secret = f.secret => totp'[f.who].confirmed
             /\ f.at = "confirm" => ~totp'[f.who].confirmed
  <2>1. /\ f.who \in Accounts /\ f.secret # 0 /\ f.secret <= drawn /\ f.secret \in Nat
        /\ \A b \in Accounts \ {f.who} : totp[b].secret # f.secret
        /\ f.at = "spend" /\ totp[f.who].secret = f.secret => totp[f.who].confirmed
        /\ f.at = "confirm" => ~totp[f.who].confirmed
    BY <1>1, <1>2 DEF FactorRead, FrameFits
  <2>2. f.secret <= drawn' /\ \A b \in Accounts \ {f.who} : totp'[b].secret # f.secret
    BY <1>1, <2>1, RowMoves
  <2>3. f.at = "spend" /\ totp'[f.who].secret = f.secret => totp'[f.who].confirmed
    BY <1>1, <2>1, RowMoves
  <2>4. ASSUME f.at = "confirm", totp'[f.who].confirmed
        PROVE  FALSE
    <3>1. PICK q \in Requests : At(q, "confirm") /\ Finish(q)
      BY <2>1, <2>4, RowMoves
    <3>2. q = r
      BY <1>2, <2>4, <3>1 DEF FactorRead, At
    <3>3. req'[r] = Idle
      BY <1>1, <3>1, <3>2 DEF Finish
    <3>4. Idle.at = "idle"
      BY DEF Idle
    <3>5. QED
      BY <1>2, <2>4, <3>3, <3>4
  <2>5. QED
    BY <2>1, <2>2, <2>3, <2>4
<1>3. ASSUME NEW r \in Requests, NEW f, f = req'[r], NEW s \in Sessions, NEW x \in Factors,
             BeginChallenge(r, s, x)
      PROVE  /\ f.at = "spend" /\ f.who \in Accounts
             /\ f.secret = totp[f.who].secret /\ totp[f.who].confirmed /\ UNCHANGED factorVars
  <2>1. session[s].user \in Accounts
    BY <1>3 DEF BeginChallenge, Typed, Keyed
  <2>2. f = [Idle EXCEPT !.at = "spend", !.who = session[s].user, !.session = s, !.factor = x,
                         !.secret = totp[session[s].user].secret, !.last = totp[session[s].user].last]
    BY <1>1, <1>3 DEF BeginChallenge, Goto
  <2>3. f.at = "spend" /\ f.who = session[s].user /\ f.secret = totp[session[s].user].secret
    BY <2>2 DEF Idle
  <2>4. QED
    BY <1>3, <2>1, <2>3 DEF BeginChallenge
<1>4. ASSUME NEW r \in Requests, NEW f, f = req'[r], NEW a \in Accounts, NEW k \in Steps, BeginConfirm(r, a, k)
      PROVE  /\ f.at = "confirm" /\ f.who \in Accounts
             /\ f.secret = totp[f.who].secret /\ ~totp[f.who].confirmed /\ f.secret # 0 /\ UNCHANGED factorVars
             /\ \A q \in Requests \ {r} : req[q].at # "confirm" /\ req'[q] = req[q]
  <2>1. f = [Idle EXCEPT !.at = "confirm", !.who = a, !.secret = totp[a].secret, !.factor = k]
    BY <1>1, <1>4 DEF BeginConfirm, Goto
  <2>2. f.at = "confirm" /\ f.who = a /\ f.secret = totp[a].secret
    BY <2>1 DEF Idle
  <2>3. \A q \in Requests \ {r} : req[q].at # "confirm"
    <3>1. [Idle EXCEPT !.at = "confirm", !.who = a, !.secret = totp[a].secret, !.factor = k].at = "confirm"
      BY DEF Idle
    <3>2. QED
      BY <1>4, <3>1 DEF BeginConfirm, Goto
  <2>4. \A q \in Requests \ {r} : req'[q] = req[q]
    BY <1>1, <1>4 DEF BeginConfirm, Goto
  <2>5. QED
    BY <1>4, <2>2, <2>3, <2>4 DEF BeginConfirm
<1>5. ASSUME NEW r \in Requests, NEW f, f = req'[r], f.at \in {"spend", "confirm"}
      PROVE  /\ f.secret # 0 /\ f.secret <= drawn'
             /\ \A b \in Accounts \ {f.who} : totp'[b].secret # f.secret
             /\ f.at = "spend" /\ totp'[f.who].secret = f.secret => totp'[f.who].confirmed
             /\ f.at = "confirm" => ~totp'[f.who].confirmed
  <2>1. CASE f = req[r]
    BY <1>2, <1>5, <2>1
  <2>2. CASE \E s \in Sessions, x \in Factors : BeginChallenge(r, s, x)
    BY <1>3, <1>5, <2>2 DEF SpentInv, factorVars
  <2>3. CASE \E a \in Accounts, k \in Steps : BeginConfirm(r, a, k)
    BY <1>4, <1>5, <2>3 DEF SpentInv, factorVars
  <2>4. QED
    BY <1>5, <2>1, <2>2, <2>3, FactorFrames
<1>6. ASSUME NEW r \in Requests, NEW q \in Requests, req'[r].at = "confirm", req'[q].at = "confirm"
      PROVE  q = r
  <2>1. ASSUME NEW p \in Requests, req'[p].at = "confirm"
        PROVE  req'[p] = req[p] \/ \E a \in Accounts, k \in Steps : BeginConfirm(p, a, k)
    BY <1>3, <2>1, FactorFrames
  <2>2. CASE req'[r] = req[r] /\ req'[q] = req[q]
    BY <1>6, <2>2 DEF FactorRead, At
  <2>3. CASE \E a \in Accounts, k \in Steps : BeginConfirm(r, a, k)
    BY <1>4, <1>6, <2>3
  <2>4. CASE \E a \in Accounts, k \in Steps : BeginConfirm(q, a, k)
    BY <1>4, <1>6, <2>4
  <2>5. QED
    BY <1>6, <2>1, <2>2, <2>3, <2>4
<1>7. QED
  BY <1>5, <1>6 DEF FactorRead, At

LEMMA SpentStep ==
    ASSUME Typed, FactorRead, SpentInv, [Next]_vars
    PROVE  SpentInv'
<1> DEFINE Shows(row, codes) == row.secret # 0 => \A x \in Factors : <<row.secret, x>> \in codes =>
                                   /\ row.confirmed
                                   /\ x \in Steps => x <= row.last
                                   /\ x \in Recovery => x \notin row.codes
<1>1. /\ totp \in [Accounts -> TotpRow] /\ drawn \in Nat
      /\ \A b \in Accounts : totp[b].secret \in Nat /\ totp[b].last \in Nat
      /\ \A s, x : <<s, x>> \in spent => s \in 0 .. MaxSecret /\ x \in Factors
      /\ \A x \in Steps : x \in Nat /\ x \notin Recovery /\ x <= x
  <2>1. /\ totp \in [Accounts -> TotpRow] /\ drawn \in Nat
        /\ \A b \in Accounts : totp[b].secret \in Nat /\ totp[b].last \in Nat
    BY AccountsAssumption DEF Typed, Tables, TotpRow
  <2>2. \A s, x : <<s, x>> \in spent => s \in 0 .. MaxSecret /\ x \in Factors
    BY DEF Typed, Tables
  <2>3. \A x \in Steps : x \in Nat /\ x \notin Recovery /\ x <= x
    BY AccountsAssumption DEF Steps
  <2>4. QED
    BY <2>1, <2>2, <2>3
<1>2. /\ \A b \in Accounts : /\ totp[b].secret <= drawn /\ Shows(totp[b], spent)
                             /\ totp[b].secret = 0 => ~totp[b].confirmed
      /\ \A a, b \in Accounts : totp[a].secret # 0 /\ totp[a].secret = totp[b].secret => a = b
      /\ \A s, x : <<s, x>> \in spent => s <= drawn
  BY <1>1 DEF SpentInv
<1>3. SUFFICES /\ \A b \in Accounts : /\ totp'[b].secret <= drawn' /\ Shows(totp'[b], spent')
                                      /\ totp'[b].secret = 0 => ~totp'[b].confirmed
               /\ \A a, b \in Accounts : totp'[a].secret # 0 /\ totp'[a].secret = totp'[b].secret => a = b
               /\ \A s \in 0 .. MaxSecret : \A x \in Factors : <<s, x>> \in spent' => s <= drawn'
  BY DEF SpentInv
<1>4. CASE UNCHANGED factorVars
  BY <1>2, <1>4 DEF factorVars
<1>5. ASSUME NEW a \in Accounts, Enrolls(a)
      PROVE  /\ \A b \in Accounts : /\ totp'[b].secret <= drawn' /\ Shows(totp'[b], spent')
                                    /\ totp'[b].secret = 0 => ~totp'[b].confirmed
             /\ \A b, c \in Accounts : totp'[b].secret # 0 /\ totp'[b].secret = totp'[c].secret => b = c
             /\ \A s \in 0 .. MaxSecret : \A x \in Factors : <<s, x>> \in spent' => s <= drawn'
  <2>1. \A b \in Accounts : b # a => totp'[b] = totp[b]
    BY <1>1, <1>5 DEF Enrolls
  <2>2. totp'[a].secret = drawn + 1 /\ ~totp'[a].confirmed /\ drawn' = drawn + 1 /\ spent' = spent
    BY <1>1, <1>5 DEF Enrolls
  <2>3. \A x : <<drawn + 1, x>> \notin spent
    BY <1>1, <1>2
  <2>4. QED
    BY <1>1, <1>2, <2>1, <2>2, <2>3
<1>6. ASSUME NEW a \in Accounts, Disables(a)
      PROVE  /\ \A b \in Accounts : /\ totp'[b].secret <= drawn' /\ Shows(totp'[b], spent')
                                    /\ totp'[b].secret = 0 => ~totp'[b].confirmed
             /\ \A b, c \in Accounts : totp'[b].secret # 0 /\ totp'[b].secret = totp'[c].secret => b = c
             /\ \A s \in 0 .. MaxSecret : \A x \in Factors : <<s, x>> \in spent' => s <= drawn'
  <2>1. \A b \in Accounts : b # a => totp'[b] = totp[b]
    BY <1>1, <1>6 DEF Disables
  <2>2. totp'[a].secret = 0 /\ ~totp'[a].confirmed /\ drawn' = drawn /\ spent' = spent
    BY <1>1, <1>6 DEF Disables, NoTotp
  <2>3. QED
    BY <1>1, <1>2, <2>1, <2>2
<1>7. ASSUME NEW r \in Requests, NEW f, f = req[r], Confirms(f) \/ Spends(f)
      PROVE  /\ \A b \in Accounts : /\ totp'[b].secret <= drawn' /\ Shows(totp'[b], spent')
                                    /\ totp'[b].secret = 0 => ~totp'[b].confirmed
             /\ \A b, c \in Accounts : totp'[b].secret # 0 /\ totp'[b].secret = totp'[c].secret => b = c
             /\ \A s \in 0 .. MaxSecret : \A x \in Factors : <<s, x>> \in spent' => s <= drawn'
  <2>1. /\ f.who \in Accounts /\ drawn' = drawn /\ spent' = spent \cup {<<f.secret, f.factor>>}
        /\ f.secret <= drawn
        /\ \A b \in Accounts : b # f.who => totp[b].secret # f.secret
        /\ f.at = "spend" /\ totp[f.who].secret = f.secret => totp[f.who].confirmed
        /\ f.at = "confirm" => ~totp[f.who].confirmed
    BY <1>7 DEF FactorRead, Confirms, Spends
  <2>2. \A b \in Accounts : totp'[b].secret = totp[b].secret
    BY <1>7, <2>1, AcceptedRows
  <2>3. \A b \in Accounts : b # f.who => totp'[b] = totp[b]
    BY <1>7, AcceptedRows
  <2>4. \A b \in Accounts : b # f.who => Shows(totp'[b], spent')
    BY <1>2, <2>1, <2>3
  <2>5. /\ totp'[f.who].secret = 0 => ~totp'[f.who].confirmed
        /\ Shows(totp'[f.who], spent')
    <3>1. CASE Confirms(f) /\ totp[f.who].secret = 0
      BY <1>2, <1>7, <2>1, <3>1, AcceptedRows
    <3>2. CASE Confirms(f) /\ totp[f.who].secret # 0
      <4>1. /\ totp'[f.who].secret = totp[f.who].secret
            /\ totp'[f.who].confirmed = TRUE /\ totp'[f.who].last = f.factor
        BY <1>7, <3>2, AcceptedRows
      <4>2. f.at = "confirm" /\ f.factor \in Steps
        BY <3>2 DEF Confirms
      <4>3. \A x \in Factors : <<totp[f.who].secret, x>> \in spent' => x = f.factor
        BY <1>2, <2>1, <3>2, <4>2
      <4>4. QED
        BY <1>1, <3>2, <4>1, <4>2, <4>3
    <3>3. CASE Spends(f)
      <4>1. /\ totp'[f.who].secret = totp[f.who].secret
            /\ totp'[f.who].confirmed = totp[f.who].confirmed
            /\ f.factor \in Steps => /\ totp'[f.who].last = f.factor
                                     /\ totp'[f.who].codes = totp[f.who].codes
            /\ f.factor \notin Steps => /\ totp'[f.who].last = totp[f.who].last
                                        /\ totp'[f.who].codes = totp[f.who].codes \ {f.factor}
        BY <1>7, <3>3, AcceptedRows
      <4>2. /\ f.at = "spend" /\ f.factor \in Factors
            /\ f.factor \in Steps => totp[f.who].last < f.factor
        BY <3>3 DEF Spends, Accepted
      <4>3. ASSUME NEW x \in Factors, totp[f.who].secret # 0, <<totp[f.who].secret, x>> \in spent'
            PROVE  /\ totp'[f.who].confirmed
                   /\ x \in Steps => x <= totp'[f.who].last
                   /\ x \in Recovery => x \notin totp'[f.who].codes
        <5>1. CASE <<totp[f.who].secret, x>> \in spent
          <6>1. /\ totp[f.who].confirmed
                /\ x \in Steps => x <= totp[f.who].last
                /\ x \in Recovery => x \notin totp[f.who].codes
            BY <1>2, <2>1, <4>3, <5>1
          <6>2. x \in Steps => x <= totp'[f.who].last
            <7>1. CASE f.factor \notin Steps
              BY <4>1, <6>1, <7>1
            <7>2. CASE f.factor \in Steps
              <8>1. totp[f.who].last \in Nat /\ f.factor \in Nat /\ totp[f.who].last < f.factor
                BY <1>1, <2>1, <4>2, <7>2
              <8>2. QED
                BY <1>1, <4>1, <6>1, <7>2, <8>1
            <7>3. QED
              BY <7>1, <7>2
          <6>3. QED
            BY <4>1, <6>1, <6>2
        <5>2. CASE totp[f.who].secret = f.secret /\ x = f.factor
          BY <1>1, <2>1, <4>1, <4>2, <5>2
        <5>3. QED
          BY <2>1, <4>3, <5>1, <5>2
      <4>4. totp[f.who].secret = 0 => ~totp'[f.who].confirmed
        BY <1>2, <2>1, <4>1
      <4>5. QED
        BY <4>1, <4>3, <4>4
    <3>4. QED
      BY <1>7, <3>1, <3>2, <3>3
  <2>6. \A s \in 0 .. MaxSecret : \A x \in Factors : <<s, x>> \in spent' => s <= drawn'
    BY <1>2, <2>1
  <2>7. \A b \in Accounts : totp'[b].secret <= drawn'
    BY <1>2, <2>1, <2>2
  <2>8. \A b \in Accounts : totp'[b].secret = 0 => ~totp'[b].confirmed
    BY <1>2, <2>3, <2>5
  <2>9. \A b, c \in Accounts : totp'[b].secret # 0 /\ totp'[b].secret = totp'[c].secret => b = c
    BY <1>2, <2>2
  <2>10. QED
    BY <2>4, <2>5, <2>6, <2>7, <2>8, <2>9
<1>8. QED
  BY <1>4, <1>5, <1>6, <1>7, FactorEffects

\* A challenge in flight ends by spending its code or by being cut off.
LEMMA ChallengesSpend ==
    ASSUME Typed, [Next]_vars, NEW r \in Requests, At(r, "spend"), req'[r].at = "clear"
    PROVE  Spends(req[r])
<1>1. req \in [Requests -> Frame] /\ req[r] \in Frame /\ FrameFits(req[r])
  BY DEF Typed, Frames
<1>2. CASE Arrive
  <2>1. PICK q \in Requests : \E f : At(q, "idle") /\ req' = [req EXCEPT ![q] = f]
    BY <1>2, ArriveMoves
  <2>2. QED
    BY <1>1, <2>1 DEF At
<1>3. CASE Step
  <2>1. PICK q \in Requests :
           \/ IssueLink(q) \/ Upsert(q) \/ Signup(q) \/ ReadTotp(q) \/ InsertSession(q)
           \/ InsertInvite(q) \/ InsertToken(q) \/ Cancel(q)
           \/ TakeRegistration(q) \/ InsertPasskey(q) \/ FindPasskey(q)
           \/ DropState(q) \/ SwapCode(q) \/ LinkIdentity(q)
           \/ Enroll(q) \/ Confirm(q) \/ Spend(q) \/ Clear(q) \/ Disable(q)
           \/ SweepSessions(q) \/ SweepTokens(q) \/ Delete(q)
    BY <1>3 DEF Step
  <2>2. CASE q # r
    BY <1>1, <2>1, <2>2, StepMoves DEF At
  <2>3. CASE q = r
    <3>1. Spend(r) \/ Cancel(r)
      BY <2>1, <2>3 DEF IssueLink, Upsert, Signup, ReadTotp, InsertSession, InsertInvite, InsertToken,
         TakeRegistration, InsertPasskey, FindPasskey, DropState, SwapCode, LinkIdentity, Enroll, Confirm,
         Clear, Disable, SweepSessions, SweepTokens, Delete, At
    <3>2. ~Finish(r)
      BY <1>1 DEF Finish, Idle
    <3>3. QED
      BY <1>1, <3>1, <3>2 DEF Spend, Cancel, At, Frame, FrameFits, Spends
  <2>4. QED
    BY <2>2, <2>3
<1>4. Single \/ UNCHANGED vars => UNCHANGED req
  BY DEF Single, Revoke, RevokeOthers, ExpireLink, ExpireInvite, StartLogin, StartOauth,
     StartRegistration, Readmit, RevokeInvite, RemovePasskey, RevokeToken, vars
<1>5. QED
  BY <1>2, <1>3, <1>4 DEF Next, At

\* When one confirmation is in flight at a time, no challenge is passed with a code of the
\* enrollment there is that was accepted before, however many challenges present it.
THEOREM CodesAlwaysSpentOnce == ConfirmSerial => (Spec => CodesSpentOnce)
<1> DEFINE Once == \A r \in Requests :
              At(r, "spend") /\ req'[r].at = "clear" /\ req[r].secret = totp[req[r].who].secret =>
              <<req[r].secret, req[r].factor>> \notin spent
<1>1. Init => FactorRead /\ SpentInv
  BY AccountsAssumption DEF Init, Idle, NoTotp, At, FactorRead, SpentInv
<1>2. ConfirmSerial /\ Typed /\ FactorRead /\ SpentInv /\ [Next]_vars => (FactorRead /\ SpentInv)'
  BY FactorReadStep, SpentStep DEF ConfirmSerial
<1>3. ASSUME Typed, FactorRead, SpentInv, [Next]_vars
      PROVE  Once
  <2>1. SUFFICES ASSUME NEW r \in Requests, At(r, "spend"), req'[r].at = "clear",
                        req[r].secret = totp[req[r].who].secret,
                        <<req[r].secret, req[r].factor>> \in spent
                 PROVE  FALSE
    OBVIOUS
  <2>2. /\ req[r].who \in Accounts /\ req[r].factor \in Factors /\ req[r].secret # 0
        /\ Accepted(req[r], totp[req[r].who])
    BY <1>3, <2>1, ChallengesSpend DEF Spends, FactorRead, At
  <2>3. /\ req[r].factor \in Steps => req[r].factor <= totp[req[r].who].last
        /\ req[r].factor \in Recovery => req[r].factor \notin totp[req[r].who].codes
    BY <1>3, <2>1, <2>2 DEF SpentInv
  <2>4. totp[req[r].who].last \in Nat /\ (req[r].factor \in Steps => req[r].factor \in Nat)
    BY <1>3, <2>2, AccountsAssumption DEF Typed, Tables, TotpRow, Steps
  <2>5. QED
    BY <2>2, <2>3, <2>4 DEF Accepted, Factors
<1>4. Typed /\ FactorRead /\ SpentInv /\ [Next]_vars => [Once]_vars
  BY <1>3
<1>5. ConfirmSerial => []ConfirmSerial
  BY DEF ConfirmSerial
<1>6. Spec /\ ConfirmSerial => [][Once]_vars
  <2> HIDE DEF Once
  <2>1. QED
    BY <1>1, <1>2, <1>4, <1>5, TypedInvariant, PTL DEF Spec
<1>7. QED
  BY <1>6 DEF CodesSpentOnce
=============================================================================
