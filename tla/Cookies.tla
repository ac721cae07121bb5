------------------------------ MODULE Cookies ------------------------------
(***************************************************************************)
(* The session cookie as the clients meet it: out of the script's reach,   *)
(* sent along with every request, set and cleared by answers.              *)
(***************************************************************************)
CONSTANTS
    Users,          \* accounts that sign in on this device
    NoOne           \* nobody signed in

ASSUME CookiesAssumption == NoOne \notin Users

People == Users \cup {NoOne}

(* Whose session it is, whether it waits for the second factor, and whether the server
   still knows it. *)
NoCookie == [who |-> NoOne, pending |-> FALSE, valid |-> FALSE]
Session(u, pending) == [who |-> u, pending |-> pending, valid |-> TRUE]
CookieSet == {NoCookie} \cup [who : Users, pending : BOOLEAN, valid : BOOLEAN]

(* What is in the browser, or in the app's jar, after earlier visits. *)
Jars == {NoCookie} \cup {Session(u, FALSE) : u \in Users}

(* The extractor of every endpoint a signed-in user calls refuses a session that waits. *)
Admitted(c) == c.valid /\ ~c.pending

(* A request came with cookie c, and the jar now holds `now`.  What becomes of a session that
   another one replaced in the jar is left open. *)
MayAdmit(c, now)  == c.valid /\ (c = now => ~c.pending)
MustAdmit(c, now) == c = now /\ Admitted(c)

(* A request in flight and its answer; each carries the cookie of the moment it is sent. *)
AskAs(what, jar) == [what |-> what, as |-> jar, state |-> "sent", answer |-> NoOne]
AnswerTo(q, state, who) == [q EXCEPT !.state = state, !.answer = who]
=============================================================================
