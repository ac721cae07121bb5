----------------------------- MODULE WebPanels -----------------------------
(***************************************************************************)
(* The settings and the administration pages of the web client: tables the *)
(* server owns, buttons on their rows, and a table asked for again after   *)
(* each change that went through.  Changes are not queued: several may be  *)
(* on their way, and the tables with them.  A tab of the settings that is  *)
(* left is unmounted, and what comes back for it is dropped.               *)
(***************************************************************************)
EXTENDS Integers, Sequences, FiniteSets, TLC, WebResource

CONSTANTS
    Panels,         \* the tabs that are opened
    MaxPresses      \* bound: buttons pressed and requests that fail, together

VARIABLES
    panel,          \* the page
    owned,          \* the server's tables and profile, and what came of them
    orders,         \* requests in flight, other than those of the tables
    presses

panelVars == <<panel, owned, orders, presses>>

SettingsTabs == {"profile", "security", "invites", "dev"}

ASSUME PanelsAssumption == Panels \subseteq SettingsTabs \cup {"admin"} /\ MaxPresses \in Nat

(* The tables a tab fetches when it is mounted. *)
TablesOf(tab) ==
    CASE tab = "profile" -> {}
      [] tab = "security" -> {"totp", "passkeys", "sessions"}
      [] tab = "invites" -> {"invites"}
      [] tab = "dev" -> {"tokens", "hooks"}
      [] tab = "admin" -> {"reports", "pending", "instances", "relays", "remote"}
      [] tab = "left" -> {}
Tables == UNION {TablesOf(tab) : tab \in SettingsTabs \cup {"admin"}}

(* A table has an old row, and room for a new one.  A row is on (live, active, blocked,
   hidden, confirmed, this device), off, or absent. *)
RowIds == {"old", "new"}
Row(old, new) == "old" :> old @@ "new" :> new
Press == presses < MaxPresses /\ presses' = presses + 1

(* An order changes one row; those of the profile carry what the form holds.  Its flag is
   the signal of the page that is up while the order is under way, if there is one. *)
NoFlag == "none"
Order(op, table, row) ==
    [op |-> op, table |-> table, row |-> row, flag |-> NoFlag, state |-> "sent", alive |-> TRUE]

-----------------------------------------------------------------------------
(* What is on screen. *)

Present(table) ==
    LET t == panel.tables[table] IN
    IF Shown(t) THEN {row \in RowIds : t.value[1][row] # "absent"} ELSE {}
Is(table, row, flag) == panel.tables[table].value[1][row] = flag
Idle(what) == what \notin panel.busy

TabButtons == IF panel.tab \in SettingsTabs THEN SettingsTabs \ {panel.tab} ELSE {}

(* Tokens with a form above, then the form of the webhooks and their list. *)
TokenControls ==
    {<<"revoke", row>> : row \in {r \in Present("tokens") : Is("tokens", r, "on")}}
    \cup (IF panel.form = "token" THEN {<<"create", "token">>} ELSE {})

HookForm == IF panel.form = "hook" THEN {<<"create", "hook">>} ELSE {}
HookControls(row) == {"log", "toggle", "remove"} \cup (IF Idle("test") THEN {"test"} ELSE {})

ProfileControls ==
    (IF Idle("save") THEN {"save"} ELSE {}) \cup (IF Idle("upload") THEN {"avatar"} ELSE {})

(* Deleting the account asks for the name first. *)
DangerControls ==
    IF ~panel.open THEN {"open"}
    ELSE {"confirm"} \cup (IF Idle("wipe") THEN {"cancel"} ELSE {})
                     \cup (IF Idle("wipe") /\ panel.confirmed THEN {"wipe"} ELSE {})

(* The second factor: what there is to do depends on the row, and on a secret being shown. *)
SecurityControls ==
    CASE panel.secret -> IF Idle("totp") THEN {"confirm"} ELSE {}
      [] ~panel.secret /\ Shown(panel.tables["totp"]) /\ Idle("totp") ->
           IF Is("totp", "old", "on") THEN {"disable"} ELSE {"enroll"}
      [] OTHER -> {}

SessionControls ==
    {<<"revoke", row>> : row \in Present("sessions") \cap {"new"}}
    \cup (IF Idle("sessions") THEN {<<"revoke", "others">>} ELSE {})

PasskeyControls ==
    {<<"remove", row>> : row \in Present("passkeys")}
    \cup (IF Idle("passkeys") THEN {<<"add", "new">>} ELSE {})

InviteControls ==
    {<<"revoke", row>> : row \in {r \in Present("invites") : Is("invites", r, "on")}}
    \cup (IF Idle("invites") THEN {<<"create", "new">>} ELSE {})

(* The administration: the queues of reports and of quarantined posts; nothing disables their buttons. *)
ReportControls ==
    IF panel.tab # "admin" THEN {}
    ELSE ({"reports"} \X Present("reports")) \cup ({"pending"} \X Present("pending"))

(* Instances, relays and remote posts share one flag. *)
AdminControls ==
    IF panel.tab # "admin" \/ ~Idle("federation") THEN {}
    ELSE ({"instances", "relays"} \X {"form"})
         \cup ({"instances"} \X Present("instances"))
         \cup ({"relays"} \X Present("relays")) \cup ({"remote"} \X Present("remote"))

-----------------------------------------------------------------------------
(* Opening a tab; leaving the one before. *)

Mounted(tab, me) ==
    [tab |-> tab, me |-> me, busy |-> {}, form |-> "empty",
     open |-> FALSE, confirmed |-> FALSE, secret |-> FALSE, awaits |-> "none",
     tables |-> [table \in Tables |->
                   IF table \in TablesOf(tab) THEN Fetch(Unresolved, table) ELSE Unresolved]]

SwitchTab(tab) ==
    /\ Press /\ tab \in TabButtons
    /\ panel' = Mounted(tab, panel.me)
    /\ orders' = {[o EXCEPT !.alive = FALSE] : o \in orders}
                   \cup (IF tab = "profile" THEN {Order("load", "profile", "none")} ELSE {})
    /\ UNCHANGED owned

-----------------------------------------------------------------------------
(* What a button does: the page's part, and the order it gives. *)

Do(flag, o) ==
    /\ Press
    /\ panel' = IF flag = NoFlag THEN panel ELSE [panel EXCEPT !.busy = @ \cup {flag}]
    /\ orders' = orders \cup {[o EXCEPT !.flag = flag]}
    /\ UNCHANGED owned

FillForm(form) ==
    /\ panel.tab = "dev" /\ panel.form # form
    /\ panel' = [panel EXCEPT !.form = form]
    /\ UNCHANGED <<owned, orders, presses>>

CreateToken == <<"create", "token">> \in TokenControls /\ Do(NoFlag, Order("add", "tokens", "new"))

RevokeToken(row) ==
    <<"revoke", row>> \in TokenControls /\ Do(NoFlag, Order("off", "tokens", row))

CreateHook == <<"create", "hook">> \in HookForm /\ Do(NoFlag, Order("add", "hooks", "new"))

(* What to set is told from the row as shown. *)
ToggleHookActive(row) ==
    /\ row \in Present("hooks") /\ "toggle" \in HookControls(row)
    /\ Do(NoFlag, Order(IF Is("hooks", row, "on") THEN "off" ELSE "on", "hooks", row))

RemoveHook(row) ==
    /\ row \in Present("hooks") /\ "remove" \in HookControls(row)
    /\ Do(NoFlag, Order("drop", "hooks", row))

TestHook(row) ==
    /\ row \in Present("hooks") /\ "test" \in HookControls(row)
    /\ Do("test", Order("test", "hooks", row))

TypeProfile ==
    /\ panel.tab = "profile" /\ panel.form # "new"
    /\ panel' = [panel EXCEPT !.form = "new"]
    /\ UNCHANGED <<owned, orders, presses>>

UploadBlob ==
    /\ panel.tab = "profile" /\ "avatar" \in ProfileControls
    /\ Do("upload", Order("upload", "profile", "new"))

(* The button, or Enter in any field of the form, the one of the deletion included; before
   the profile is loaded as well. *)
SaveProfile ==
    /\ panel.tab = "profile" /\ "save" \in ProfileControls
    /\ Do("save", Order("save", "profile", panel.form))

TypeConfirm ==
    /\ panel.tab = "profile"
    /\ \/ "open" \in DangerControls /\ panel' = [panel EXCEPT !.open = TRUE]
       \/ "confirm" \in DangerControls /\ panel' = [panel EXCEPT !.confirmed = ~@]
       \/ "cancel" \in DangerControls /\ panel' = [panel EXCEPT !.open = FALSE, !.confirmed = FALSE]
    /\ UNCHANGED <<owned, orders, presses>>

Wipe ==
    /\ panel.tab = "profile" /\ "wipe" \in DangerControls
    /\ Do("wipe", Order("wipe", "profile", "none"))

StartEnroll ==
    /\ panel.tab = "security" /\ "enroll" \in SecurityControls
    /\ Do("totp", Order("enroll", "totp", "old"))

ConfirmEnroll ==
    /\ panel.tab = "security" /\ "confirm" \in SecurityControls
    /\ Do("totp", Order("on", "totp", "old"))

DisableTotp ==
    /\ panel.tab = "security" /\ "disable" \in SecurityControls
    /\ Do("totp", Order("drop", "totp", "old"))

RevokeSession(row) ==
    <<"revoke", row>> \in SessionControls /\ row \in RowIds
    /\ Do(NoFlag, Order("drop", "sessions", row))

RevokeOthers ==
    /\ panel.tab = "security" /\ <<"revoke", "others">> \in SessionControls
    /\ Do("sessions", Order("drop", "sessions", "new"))

AddPasskey ==
    /\ panel.tab = "security" /\ <<"add", "new">> \in PasskeyControls
    /\ Do("passkeys", Order("add", "passkeys", "new"))

RemovePasskey(row) ==
    /\ panel.tab = "security" /\ <<"remove", row>> \in PasskeyControls
    /\ Do(NoFlag, Order("drop", "passkeys", row))

CreateInvite ==
    /\ panel.tab = "invites" /\ <<"create", "new">> \in InviteControls
    /\ Do("invites", Order("add", "invites", "new"))

RevokeInvite(row) ==
    <<"revoke", row>> \in InviteControls /\ Do(NoFlag, Order("drop", "invites", row))

(* The administration. *)

Resolve(row) == <<"reports", row>> \in ReportControls /\ Do(NoFlag, Order("drop", "reports", row))
Moderate(row) == <<"pending", row>> \in ReportControls /\ Do(NoFlag, Order("drop", "pending", row))

BlockInstance(row) ==
    /\ <<"instances", IF row = "new" THEN "form" ELSE row>> \in AdminControls
    /\ row = "old" => Is("instances", row, "off")
    /\ Do("federation", Order("on", "instances", row))

UnblockInstance(row) ==
    /\ <<"instances", row>> \in AdminControls /\ Is("instances", row, "on")
    /\ Do("federation", Order("off", "instances", row))

SubscribeRelay ==
    /\ <<"relays", "form">> \in AdminControls
    /\ Do("federation", Order("add", "relays", "new"))

UnsubscribeRelay(row) ==
    /\ <<"relays", row>> \in AdminControls
    /\ Do("federation", Order("drop", "relays", row))

ToggleRemoteHidden(row) ==
    /\ <<"remote", row>> \in AdminControls
    /\ Do("federation", Order(IF Is("remote", row, "on") THEN "off" ELSE "on", "remote", row))

-----------------------------------------------------------------------------
(* Answers. *)

(* mutant: a table on its way is not asked for again *)
ReloadedOnce(p, table) ==
    IF Loading(p.tables[table]) THEN p ELSE [p EXCEPT !.tables[table] = Fetch(@, table)]

Reloaded(p, table) == [p EXCEPT !.tables[table] = Fetch(@, table)]

Freed(p, o) == [p EXCEPT !.busy = @ \ {o.flag}]
Changes == {"add", "off", "on", "drop"}

(* Settings: the flag goes down with the answer, the table is asked for again. *)
Executed(o) ==
    /\ o.op \in Changes /\ o.alive /\ o.state # "sent" /\ o.flag # "federation"
    /\ panel' = IF o.state = "failed" THEN Freed(panel, o)
                ELSE [Reloaded(Freed(panel, o), o.table) EXCEPT
                        !.form = IF o.op = "add" THEN "empty" ELSE @,
                        !.secret = @ /\ o.table # "totp"]
    /\ orders' = orders \ {o}
    /\ UNCHANGED <<owned, presses>>

(* Administration: the flag stays until the table has come. *)
FederationExecuted(o) ==
    /\ o.flag = "federation" /\ o.state # "sent"
    /\ panel' = IF o.state = "failed" THEN Freed(panel, o)
                ELSE [Reloaded(panel, o.table) EXCEPT !.awaits = o.table]
    /\ orders' = orders \ {o}
    /\ UNCHANGED <<owned, presses>>

(* The secret and its recovery codes are shown, whatever the table says. *)
Enrolled(o) ==
    /\ o.op = "enroll" /\ o.alive /\ o.state # "sent"
    /\ panel' = [Freed(panel, o) EXCEPT !.secret = @ \/ o.state = "ok"]
    /\ orders' = orders \ {o}
    /\ UNCHANGED <<owned, presses>>

(* A webhook was called: its deliveries open.  An avatar was uploaded: its address is in
   the form. *)
Tested(o) ==
    /\ o.op = "test" /\ o.alive /\ o.state # "sent"
    /\ panel' = [Freed(panel, o) EXCEPT !.open = @ \/ o.state = "ok"]
    /\ orders' = orders \ {o}
    /\ UNCHANGED <<owned, presses>>

AvatarUploaded(o) ==
    /\ o.op = "upload" /\ o.alive /\ o.state # "sent"
    /\ panel' = [Freed(panel, o) EXCEPT !.form = IF o.state = "ok" THEN "new" ELSE @]
    /\ orders' = orders \ {o}
    /\ UNCHANGED <<owned, presses>>

(* What was loaded goes over what was typed meanwhile; a failure leaves the form empty. *)
ProfileLoaded(o) ==
    /\ o.op = "load" /\ o.alive /\ o.state # "sent"
    /\ panel' = IF o.state = "ok" THEN [panel EXCEPT !.form = o.row] ELSE panel
    /\ orders' = orders \ {o}
    /\ UNCHANGED <<owned, presses>>

(* The name in the bars changes with the answer, even when the tab is gone. *)
ProfileSaved(o) ==
    /\ o.op = "save" /\ o.state # "sent"
    /\ panel' = [(IF o.alive THEN Freed(panel, o) ELSE panel) EXCEPT
                    !.me = IF o.state = "ok" THEN o.row ELSE @]
    /\ orders' = orders \ {o}
    /\ UNCHANGED <<owned, presses>>

(* The browser forgets everything and loads the front page, from any tab. *)
Wiped(o) ==
    /\ o.op = "wipe" /\ o.state # "sent"
    /\ panel' = CASE o.state = "ok" -> Mounted("left", "none")
                  [] o.state = "failed" /\ o.alive -> Freed(panel, o)
                  [] o.state = "failed" /\ ~o.alive -> panel
    /\ orders' = IF o.state = "ok" THEN {} ELSE orders \ {o}
    /\ UNCHANGED <<owned, presses>>

(* An answer for a tab that was left: nothing is loaded again. *)
Ignored(o) ==
    /\ ~o.alive /\ o.state # "sent" /\ o.op \notin {"save", "wipe"}
    /\ orders' = orders \ {o}
    /\ owned' = [owned EXCEPT !.lost = TRUE]
    /\ UNCHANGED <<panel, presses>>

TableLands(table) ==
    /\ Answered(panel.tables[table])
    /\ panel' = LET p == [panel EXCEPT !.tables[table] = Land(@)] IN
                IF panel.awaits = table
                THEN [p EXCEPT !.busy = @ \ {"federation"}, !.awaits = "none"] ELSE p
    /\ UNCHANGED <<owned, orders, presses>>

-----------------------------------------------------------------------------
(* The server. *)

(* The relays and the remote posts that cannot be read are shown as none. *)
ServeTable(table) ==
    /\ Pending(panel.tables[table])
    /\ \/ /\ panel' = [panel EXCEPT !.tables[table] = Answer(@, owned.tables[table])]
          /\ owned' = [owned EXCEPT !.aside = @ \ ({table} \X RowIds)]
          /\ UNCHANGED presses
       \/ /\ Press /\ owned' = [owned EXCEPT !.lost = TRUE]
          /\ panel' = [panel EXCEPT !.tables[table] =
                         IF table \in {"relays", "remote"} THEN Answer(@, Row("absent", "absent"))
                         ELSE Refuse(@)]
    /\ UNCHANGED orders

(* The rows that a delete or an update must find; the other tables are not asked whether it did. *)
Seeks(o) == \/ o.table \in {"tokens", "hooks", "invites", "reports", "totp"}
            \/ o.table = "sessions" /\ o.flag = NoFlag

(* An empty name, a row that is gone or as asked for already, a factor already confirmed. *)
Rejected(o) ==
    LET now == owned.tables[o.table][o.row] IN
    \/ o.op = "save" /\ o.row = "empty"
    \/ o.op \in {"on", "off", "drop", "test"} /\ Seeks(o) /\ now = "absent"
    \/ o.op = "off" /\ o.table = "tokens" /\ now = "off"
    \/ o.op \in {"enroll", "on"} /\ o.table = "totp" /\ now = "on"

(* A host that nobody is known of is listed only while it is blocked. *)
AfterOrder(o) ==
    CASE o.op \in {"add", "on"} -> [owned EXCEPT !.tables[o.table][o.row] = "on"]
      [] o.op \in {"off", "enroll"} ->
           [owned EXCEPT !.tables[o.table][o.row] =
              IF o.table = "instances" /\ o.row = "new" THEN "absent" ELSE "off"]
      [] o.op = "drop" -> [owned EXCEPT !.tables[o.table][o.row] = "absent"]
      [] o.op = "save" -> [owned EXCEPT !.profile = o.row]
      [] OTHER -> owned

(* A decision on a post closes the open reports about it, which may fail unnoticed. *)
Settled(after) ==
    LET open == {row \in after.about : after.tables["reports"][row] = "on"} IN
    [after EXCEPT !.tables["reports"] =
                     [row \in RowIds |-> IF row \in open THEN "absent" ELSE @[row]],
                  !.aside = @ \cup ({"reports"} \X open)]

Outcomes(o) ==
    {AfterOrder(o)}
    \cup (IF o.op = "drop" /\ o.table = "pending" THEN {Settled(AfterOrder(o))} ELSE {})

(* An order may fail before it is carried out or after. *)
ServeOrder(o) ==
    /\ o.state = "sent"
    /\ \/ /\ ~Rejected(o) /\ owned' \in Outcomes(o)
          /\ LET row == IF o.op = "load" THEN owned.profile ELSE o.row IN
             orders' = (orders \ {o}) \cup {[o EXCEPT !.state = "ok", !.row = row]}
          /\ UNCHANGED presses
       \/ /\ IF Rejected(o) THEN UNCHANGED <<owned, presses>>
             ELSE /\ Press
                  /\ \E after \in {owned} \cup Outcomes(o) : owned' = [after EXCEPT !.lost = TRUE]
          /\ orders' = (orders \ {o}) \cup {[o EXCEPT !.state = "failed"]}
    /\ UNCHANGED panel

(* The last of many deliveries that fail, of a test or of an event, turns the webhook off. *)
HookDisabled(row) ==
    /\ Press /\ owned.tables["hooks"][row] = "on"
    /\ owned' = [owned EXCEPT !.tables["hooks"][row] = "off", !.aside = @ \cup {<<"hooks", row>>}]
    /\ UNCHANGED <<panel, orders>>

(* `factor`: whether the second factor was set up before.  `about`: the open reports about the
   post in quarantine. *)
OwnedAtFirst(table, factor) ==
    CASE table = "totp" -> Row(factor, "absent")
      [] table \in {"sessions", "reports"} -> Row("on", "on")
      [] table \in {"instances", "remote"} -> Row("off", "absent")
      [] OTHER -> Row("on", "absent")

PanelOpened(tab, factor, about) ==
    /\ panel = Mounted(tab, "old")
    /\ owned = [tables |-> [table \in Tables |-> OwnedAtFirst(table, factor)], profile |-> "old",
                about |-> about, aside |-> {}, lost |-> FALSE]
    /\ orders = IF tab = "profile" THEN {Order("load", "profile", "none")} ELSE {}
    /\ presses = 0

PanelsInit ==
    \E tab \in Panels, factor \in {"absent", "on"}, about \in {{}, {"old"}} :
       /\ factor = "on" => tab = "security"
       /\ about # {} => tab = "admin"
       /\ PanelOpened(tab, factor, about)

PanelsNext ==
    \/ \E tab \in SettingsTabs : SwitchTab(tab)
    \/ \E form \in {"token", "hook"} : FillForm(form)
    \/ \E row \in RowIds :
          \/ RevokeToken(row) \/ ToggleHookActive(row) \/ RemoveHook(row) \/ TestHook(row)
          \/ RevokeSession(row) \/ RemovePasskey(row) \/ RevokeInvite(row)
          \/ Resolve(row) \/ Moderate(row) \/ BlockInstance(row) \/ UnblockInstance(row)
          \/ UnsubscribeRelay(row) \/ ToggleRemoteHidden(row) \/ HookDisabled(row)
    \/ CreateToken \/ CreateHook \/ AddPasskey \/ CreateInvite \/ SubscribeRelay \/ RevokeOthers
    \/ TypeProfile \/ UploadBlob \/ SaveProfile \/ TypeConfirm \/ Wipe
    \/ StartEnroll \/ ConfirmEnroll \/ DisableTotp
    \/ \E table \in Tables : TableLands(table) \/ ServeTable(table)
    \/ \E o \in orders :
          \/ Executed(o) \/ FederationExecuted(o) \/ Enrolled(o) \/ Tested(o) \/ AvatarUploaded(o)
          \/ ProfileLoaded(o)
          \/ ProfileSaved(o) \/ Wiped(o) \/ Ignored(o) \/ ServeOrder(o)

PanelsSpec == PanelsInit /\ [][PanelsNext]_panelVars

-----------------------------------------------------------------------------
(* Rows the server changed besides what an order was for, since the table was last read: the
   reports that a decision on their post settles, the webhook that its deliveries turn off. *)
Aside(table, row) == <<table, row>> \in owned.aside

(* Once all is through, each row on screen is the server's: of the changes made from the
   page none is left unshown, however their requests, their answers and the tables crossed,
   unless one was refused or came back after its tab was left.  A change that comes aside
   shows with the next load of its table, which nothing asks for.
   [Settings.tsx and Admin.tsx: the refetch after each change; admin.rs 470-492,
   webhooks.rs 381-398] *)
PanelsAreCurrent ==
    orders = {} /\ ~owned.lost =>
       \A table \in TablesOf(panel.tab) :
          LET t == panel.tables[table] IN
          ~Loading(t) /\ ~panel.secret =>
             Shown(t) /\ \A row \in RowIds :
                            t.value[1][row] = owned.tables[table][row] \/ Aside(table, row)
=============================================================================
