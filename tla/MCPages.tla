------------------------------ MODULE MCPages ------------------------------
(***************************************************************************)
(* The pages of the clients for TLC: the router shows one page at a time   *)
(* and pages share no state but the server's, so a behaviour opens one of  *)
(* them and the others stand still.                                        *)
(***************************************************************************)
EXTENDS WebChat, WebInbox, WebPages, WebLists, WebPost, WebPanels, MobileChat

VARIABLE open       \* the page of this behaviour

OpenPages == {"chat", "inbox", "page", "list", "post", "panel", "phone"}
allPagesVars ==
    <<open, chatVars, inboxVars, pagesVars, listVars, postVars, panelVars, threadVars>>

MCPagesInit ==
    /\ open \in OpenPages
    /\ IF open = "chat" THEN ChatInit ELSE OpenedChat(CHOOSE p \in Peers : TRUE, {})
    /\ IF open = "page" THEN PagesInit ELSE PagesOpened("search", Nothing, {})
    /\ IF open = "list" THEN ListsInit ELSE ListOpened("home", 0)
    /\ IF open = "post" THEN PostInit ELSE PostOpened("reader")
    /\ IF open = "panel" THEN PanelsInit ELSE PanelOpened("left", "absent", {})
    /\ InboxInit
    /\ ThreadInit

MCPagesNext ==
    \/ /\ open = "chat" /\ ChatNext
       /\ UNCHANGED <<open, inboxVars, pagesVars, listVars, postVars, panelVars, threadVars>>
    \/ /\ open = "inbox" /\ InboxNext
       /\ UNCHANGED <<open, chatVars, pagesVars, listVars, postVars, panelVars, threadVars>>
    \/ /\ open = "page" /\ PagesNext
       /\ UNCHANGED <<open, chatVars, inboxVars, listVars, postVars, panelVars, threadVars>>
    \/ /\ open = "list" /\ ListsNext
       /\ UNCHANGED <<open, chatVars, inboxVars, pagesVars, postVars, panelVars, threadVars>>
    \/ /\ open = "post" /\ PostNext
       /\ UNCHANGED <<open, chatVars, inboxVars, pagesVars, listVars, panelVars, threadVars>>
    \/ /\ open = "panel" /\ PanelsNext
       /\ UNCHANGED <<open, chatVars, inboxVars, pagesVars, listVars, postVars, threadVars>>
    \/ /\ open = "phone" /\ ThreadNext
       /\ UNCHANGED <<open, chatVars, inboxVars, pagesVars, listVars, postVars, panelVars>>

MCPagesSpec == MCPagesInit /\ [][MCPagesNext]_allPagesVars
=============================================================================
