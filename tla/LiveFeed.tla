------------------------------ MODULE LiveFeed ------------------------------
(***************************************************************************)
(* What the layout promises of its live stream: a feed for whoever is      *)
(* signed in, off for nobody, up only while the server takes the session,  *)
(* and back up after whatever took it down.                                *)
(***************************************************************************)
CONSTANTS Subscribers, Nobody

VARIABLES
    user,           \* who the page believes is signed in
    feed,           \* "off", "down" or "up"
    service         \* whether the server admits the browser's session

feedVars == <<user, feed, service>>

Off(u) == IF u = Nobody THEN "off" ELSE "down"

FeedInit ==
    /\ user \in Subscribers \cup {Nobody}
    /\ service \in BOOLEAN
    /\ feed = Off(user)

(* A page load, a sign-in or a sign-out; a page load may come with a new session. *)
Restarts ==
    /\ user' \in Subscribers \cup {Nobody}
    /\ feed' = Off(user')
    /\ service' \in BOOLEAN

(* Another account, or the same one again, takes over the feed as it is. *)
TakesOver ==
    /\ user # Nobody /\ user' \in Subscribers
    /\ UNCHANGED <<feed, service>>

Up ==
    /\ feed = "down" /\ service
    /\ feed' = "up"
    /\ UNCHANGED <<user, service>>

Down ==
    /\ feed = "up"
    /\ feed' = "down"
    /\ UNCHANGED <<user, service>>

ServiceChanges ==
    /\ service' = ~service
    /\ UNCHANGED <<user, feed>>

FeedNext == Restarts \/ TakesOver \/ Up \/ Down \/ ServiceChanges

(* It never stays down on someone whom the server admits. *)
FeedReturns ==
    (user # Nobody /\ service /\ feed = "down")
        ~> (feed = "up" \/ user = Nobody \/ ~service)

FeedSafety == FeedInit /\ [][FeedNext]_feedVars
FeedSpec == FeedSafety /\ FeedReturns
=============================================================================
