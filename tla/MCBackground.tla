---------------------------- MODULE MCBackground ----------------------------
(***************************************************************************)
(* What goes on behind the pages, for TLC: the sessions of the two clients *)
(* with their streams and polls, the video pipeline, the dispatcher of     *)
(* webhooks and the notification hub.  They share no state, so a behaviour *)
(* runs one of them while the others are not started.                      *)
(***************************************************************************)
EXTENDS WebSession, MobileSession, Media, Webhooks, NotificationHub

VARIABLE part       \* the one that runs

backgroundVars == <<part, sessionVars, mobileVars, mediaVars, hookVars, hubVars>>

MCBackgroundInit ==
    /\ part \in {"web", "mobile", "media", "hooks", "hub"}
    /\ IF part = "web" THEN SessionInit ELSE FirstLoad("app", NoOne, NoCookie)
    /\ IF part = "mobile" THEN MobileInit ELSE PhoneOff("tabs", NoOne, NoCookie, {})
    /\ MediaInit /\ HooksInit /\ HubInit

MCBackgroundNext ==
    /\ \/ part = "web" /\ SessionNext /\ UNCHANGED <<mobileVars, mediaVars, hookVars, hubVars>>
       \/ part = "mobile" /\ MobileNext /\ UNCHANGED <<sessionVars, mediaVars, hookVars, hubVars>>
       \/ part = "media" /\ MediaNext /\ UNCHANGED <<sessionVars, mobileVars, hookVars, hubVars>>
       \/ part = "hooks" /\ HooksNext /\ UNCHANGED <<sessionVars, mobileVars, mediaVars, hubVars>>
       \/ part = "hub" /\ HubNext /\ UNCHANGED <<sessionVars, mobileVars, mediaVars, hookVars>>
    /\ UNCHANGED part

MCBackgroundSpec ==
    /\ MCBackgroundInit /\ [][MCBackgroundNext]_backgroundVars
    /\ StreamFairness /\ PollFairness /\ MediaFairness
=============================================================================
