------------------------------ MODULE WebPages -----------------------------
(***************************************************************************)
(* The pages of the web client that show one thing at an address: a tag, a *)
(* search, a list of followers, what trends, an activity chart, bookmarks, *)
(* the trash, a profile, a conversation.  A page's instance is kept while  *)
(* only the name in the address changes, so requests for the old name, and *)
(* what was clicked on it, meet the new one.                               *)
(***************************************************************************)
EXTENDS Integers, Sequences, FiniteSets, WebResource

CONSTANTS
    Names,          \* tags, users, posts, windows or queries, as the page has it
    Pinners,        \* users with a pinned post
    MaxTurns        \* bound: clicks, navigations and failures together


VARIABLES
    view,           \* the open page: its address, resources and signals
    site,           \* the server: follows, mutes, blocks, pins, the trash, replies
    sending,        \* requests in flight, other than the resources'
    turns

pagesVars == <<view, site, sending, turns>>

PageKinds == {"hashtag", "search", "followers", "trending", "activity", "bookmarks", "trash",
              "profile", "post"}

Turn == turns < MaxTurns /\ turns' = turns + 1
On(page) == view.page = page
Nothing == "nothing"            \* an empty query, no override, no reply box

ASSUME PagesAssumption == MaxTurns \in Nat /\ Pinners \subseteq Names /\ Nothing \notin Names

Posts == {1, 2}                 \* the posts of the trash, the replies of a conversation

Value(r) == r.value[1]
Of(name, data) == [of |-> name, data |-> data]

-----------------------------------------------------------------------------
(* What is on screen. *)

(* mutant: a second click while the first is under way *)
NotBusyAlways == TRUE
NotBusy == ~view.busy

(* Lists are a skeleton until the first answer, then rows or a note that there are none. *)
ListView(r) ==
    CASE ~Shown(r) -> "skeleton"
      [] Shown(r) /\ Value(r).data = {} -> "empty"
      [] Shown(r) /\ Value(r).data # {} -> "rows"

HashtagView == [list |-> ListView(view.main), follow |-> NotBusy]

Results == Shown(view.main) /\ Value(view.main).of = view.name

SearchView ==
    CASE view.name # Nothing /\ Loading(view.main) /\ ~Results -> "skeleton"
      [] Results /\ view.name # Nothing -> "results"
      [] view.name = Nothing -> "hint"
      [] OTHER -> "blank"

FollowListView == ListView(view.main)
TrendingView == <<ListView(view.main), ListView(view.side)>>
ActivityView == Shown(view.main)
BookmarksView == ListView(view.main)
TrashView == ListView(view.main)

(* The header needs the profile; its buttons are for somebody else's. *)
ProfileView ==
    IF Shown(view.main)
    THEN {"header", "mute", "block"} \cup (IF NotBusy THEN {"follow"} ELSE {})
         \cup (IF Shown(view.pinned) /\ Value(view.pinned) # Nothing THEN {"pinned"} ELSE {})
    ELSE {}

PostView ==
    CASE ~Shown(view.main) -> "loading"
      [] Shown(view.main) /\ Value(view.main).data = {0} -> "error"
      [] OTHER -> "thread"

-----------------------------------------------------------------------------
(* Going to another name, tab or window on the same page. *)

(* What the effects do: the two resources that take the name as their source, and on the
   profile the reset of the override. *)
HashtagGo(v, n) == [v EXCEPT !.name = n, !.main = Fetch(@, n), !.side = Fetch(@, n)]

(* mutant: the other list of the same user is taken for the same source *)
FollowListGoUser(v, n) == [v EXCEPT !.name = n]

FollowListGo(v, n) == [v EXCEPT !.name = n, !.main = Fetch(@, n)]
TrendingGo(v, n) == [v EXCEPT !.name = n, !.main = Fetch(@, n), !.side = Fetch(@, n)]
ActivityGo(v, n) == [v EXCEPT !.name = n, !.main = Fetch(@, n)]
PostGo(v, n) == [v EXCEPT !.name = n, !.main = Fetch(@, n)]
ProfileGo(v, n) ==
    [v EXCEPT !.name = n, !.main = Fetch(@, n), !.side = Fetch(@, n), !.override = Nothing]

Go(v, n) ==
    CASE v.page = "hashtag" -> HashtagGo(v, n)
      [] v.page = "followers" -> FollowListGo(v, n)
      [] v.page = "trending" -> TrendingGo(v, n)
      [] v.page = "activity" -> ActivityGo(v, n)
      [] v.page = "post" -> PostGo(v, n)
      [] v.page = "profile" -> ProfileGo(v, n)

(* `carried` remembers that something clicked under one name may show under another, or was
   clicked before the page knew what the button should say. *)
Navigate ==
    /\ Turn /\ view.page \notin {"search", "bookmarks", "trash"}
    /\ \E n \in Names \ {view.name} :
          view' = [Go(view, n) EXCEPT
                     !.carried = @ \/ view.busy \/ (On("hashtag") /\ view.override # Nothing)]
    /\ UNCHANGED <<site, sending>>

(* Search: the box is set to the address whenever either changes, and 300 ms after the last
   key the address to the box; no query ends what is in flight. *)
OnInput ==
    /\ On("search") /\ Turn
    /\ \E q \in Names \cup {Nothing} : view' = [view EXCEPT !.debounce = <<q>>]
    /\ UNCHANGED <<site, sending>>

SearchGo(v, q) ==
    [v EXCEPT !.name = q, !.debounce = <<>>,
              !.main = IF q = v.name THEN @ ELSE IF q = Nothing THEN SourceGone(@) ELSE Fetch(@, q)]

Debounced ==
    /\ On("search") /\ view.debounce # <<>>
    /\ view' = SearchGo(view, view.debounce[1])
    /\ UNCHANGED <<site, sending, turns>>

(* The address changes while the page is open: back, forward, the search of the top bar. *)
SearchRoute ==
    /\ On("search") /\ Turn
    /\ \E q \in Names : view' = [SearchGo(view, q) EXCEPT !.debounce = view.debounce]
    /\ UNCHANGED <<site, sending>>

-----------------------------------------------------------------------------
(* Answers. *)

(* The profile's answer names the pinned post, or none, which keeps the one on screen. *)
PinSource(v) ==
    LET pin == IF Value(v.main).data.pin THEN Value(v.main).of ELSE Nothing IN
    CASE pin = v.pin -> v
      [] pin # v.pin /\ pin = Nothing -> [v EXCEPT !.pin = pin, !.pinned = SourceGone(@)]
      [] pin # v.pin /\ pin # Nothing -> [v EXCEPT !.pin = pin, !.pinned = Fetch(@, pin)]

MainLands ==
    /\ Answered(view.main)
    /\ LET v == [view EXCEPT !.main = Land(@)] IN
       view' = IF On("profile") /\ Shown(v.main) THEN PinSource(v) ELSE v
    /\ UNCHANGED <<site, sending, turns>>

SideLands ==
    /\ Answered(view.side)
    /\ view' = [view EXCEPT !.side = Land(@)]
    /\ UNCHANGED <<site, sending, turns>>

PinnedLands ==
    /\ Answered(view.pinned)
    /\ view' = [view EXCEPT !.pinned = Land(@)]
    /\ UNCHANGED <<site, sending, turns>>

-----------------------------------------------------------------------------
(* Clicks. *)

Sending(op, arg) == [op |-> op, name |-> view.name, arg |-> arg, state |-> "sent"]
Refetched(v) == [v EXCEPT !.main = Fetch(@, v.name)]

(* What the follow button says: the click, or else what was loaded. *)
Following ==
    IF view.override # Nothing THEN view.override = "yes"
    ELSE IF On("hashtag") THEN Shown(view.side) /\ Value(view.side).data
    ELSE Shown(view.main) /\ Value(view.main).data.follow

YesNo(b) == IF b THEN "yes" ELSE "no"

TagKnown == Shown(view.side) /\ ~Loading(view.side)

(* A tag's button changes at once and changes back if the request fails. *)
ToggleFollow ==
    /\ On("hashtag") /\ HashtagView.follow /\ Turn
    /\ view' = [view EXCEPT !.busy = TRUE, !.override = YesNo(~Following),
                            !.carried = @ \/ (view.override = Nothing /\ ~TagKnown)]
    /\ sending' = sending \cup {Sending("follow_tag", YesNo(~Following))}
    /\ UNCHANGED site

FollowedTag(c) ==
    /\ c.op = "follow_tag" /\ c.state # "sent"
    /\ view' = [view EXCEPT !.busy = FALSE,
                            !.override = IF c.state = "ok" THEN @ ELSE YesNo(c.arg = "no")]
    /\ sending' = sending \ {c}
    /\ UNCHANGED <<site, turns>>

(* A profile's button waits for the answer, and a failure is not even told. *)
Follow ==
    /\ On("profile") /\ "follow" \in ProfileView /\ Turn
    /\ view' = [view EXCEPT !.busy = TRUE]
    /\ sending' = sending \cup {Sending("follow", YesNo(~Following))}
    /\ UNCHANGED site

ProfileFollowed(c) ==
    /\ c.op = "follow" /\ c.state # "sent"
    /\ view' = IF c.state = "ok"
               THEN Refetched([view EXCEPT !.busy = FALSE, !.override = c.arg])
               ELSE [view EXCEPT !.busy = FALSE]
    /\ sending' = sending \ {c}
    /\ UNCHANGED <<site, turns>>

(* Muting and blocking ask first; lifting does not.  Nothing stops a second click. *)
ToggleMute ==
    /\ On("profile") /\ "mute" \in ProfileView /\ Turn
    /\ sending' = sending \cup {Sending("mute", YesNo(~Value(view.main).data.mute))}
    /\ UNCHANGED <<view, site>>

ToggleBlock ==
    /\ On("profile") /\ "block" \in ProfileView /\ Turn
    /\ sending' = sending \cup {Sending("block", YesNo(~Value(view.main).data.block))}
    /\ UNCHANGED <<view, site>>

MutedOrBlocked(c) ==
    /\ c.op \in {"mute", "block"} /\ c.state # "sent"
    /\ view' = IF c.state = "ok" THEN Refetched(view) ELSE view
    /\ sending' = sending \ {c}
    /\ UNCHANGED <<site, turns>>

(* Unpinning loads the profile and, under its old pin, the post again. *)
Unpin ==
    /\ On("profile") /\ "pinned" \in ProfileView /\ Value(view.main).data.pin /\ Turn
    /\ sending' = sending \cup {Sending("unpin", "no")}
    /\ UNCHANGED <<view, site>>

Unpinned(c) ==
    /\ c.op = "unpin" /\ c.state # "sent"
    /\ view' = IF c.state = "ok"
               THEN [Refetched(view) EXCEPT
                       !.pinned = IF view.pin = Nothing THEN @ ELSE Fetch(@, view.pin)]
               ELSE view
    /\ sending' = sending \ {c}
    /\ UNCHANGED <<site, turns>>

(* A trashed post is restored, and the list loaded again. *)
Restore ==
    /\ On("trash") /\ TrashView = "rows" /\ Turn
    /\ \E p \in Value(view.main).data : sending' = sending \cup {Sending("restore", p)}
    /\ UNCHANGED <<view, site>>

Restored(c) ==
    /\ c.op = "restore" /\ c.state # "sent"
    /\ view' = IF c.state = "ok" THEN Refetched(view) ELSE view
    /\ sending' = sending \ {c}
    /\ UNCHANGED <<site, turns>>

(* A card that says it changed has the bookmarks, or the conversation, loaded again. *)
CardChanged ==
    /\ Turn
    /\ \/ On("bookmarks") /\ BookmarksView = "rows"
       \/ On("post") /\ PostView = "thread"
    /\ view' = Refetched(view)
    /\ UNCHANGED <<site, sending>>

(* The reply box of one node at a time, under the post that `replyingTo` names. *)
ThreadNode(p) == [replying |-> view.replyingTo = p, shown |-> p \in Value(view.main).data]

Reply ==
    /\ On("post") /\ PostView = "thread" /\ Turn
    /\ \E p \in {1} \cup Value(view.main).data :
          view' = [view EXCEPT !.replyingTo = IF ThreadNode(p).replying THEN 0 ELSE p]
    /\ UNCHANGED <<site, sending>>

SendReply ==
    /\ On("post") /\ PostView = "thread" /\ view.replyingTo # 0 /\ Turn
    /\ sending' = sending \cup {Sending("reply", "yes")}
    /\ UNCHANGED <<view, site>>

WithReply(conversation) == [conversation EXCEPT !.data = @ \cup {2}]

(* The reply is appended to whichever conversation is shown by then. *)
AppendDescendant(c) ==
    /\ c.op = "reply" /\ c.state # "sent"
    /\ view' = IF c.state = "ok" /\ PostView = "thread"
               THEN [view EXCEPT !.main = Mutate(@, WithReply(Value(@))),
                                 !.replyingTo = 0]
               ELSE view
    /\ sending' = sending \ {c}
    /\ UNCHANGED <<site, turns>>

-----------------------------------------------------------------------------
(* The server. *)

(* What an address has.  Errors that the page turns into a value are {0} and {}. *)
MainData(page, n) ==
    CASE page = "profile" -> [follow |-> n \in site.follows, mute |-> n \in site.mutes,
                              block |-> n \in site.blocks, pin |-> n \in site.pins]
      [] page = "trash" -> site.trash
      [] page = "post" -> site.replies[n] \cup {1}
      [] OTHER -> {1}

(* A profile whose owner the reader has blocked is not found. *)
Barred(n) == On("profile") /\ n \in site.blocks

(* The queries behind a profile that may fail without it: of the block, and of the flags. *)
FlagsLost(n) == [MainData("profile", n) EXCEPT !.follow = FALSE, !.mute = FALSE, !.block = FALSE]

SideData(page, n) == IF page = "hashtag" THEN n \in site.follows ELSE {1}

ServeMain ==
    /\ Pending(view.main)
    /\ LET n == KeyOf(view.main) IN
       \/ /\ view' = [view EXCEPT !.main = IF Barred(n) THEN Refuse(@)
                                           ELSE Answer(@, Of(n, MainData(view.page, n)))]
          /\ UNCHANGED turns
       \/ /\ Turn /\ On("profile")
          /\ \E data \in {MainData("profile", n), FlagsLost(n)} :
                view' = [view EXCEPT !.main = Answer(@, Of(n, data)), !.astray = TRUE]
       \/ /\ Turn
          /\ view' = [view EXCEPT !.main =
                        CASE On("post") -> Answer(@, Of(n, {0}))
                          [] On("followers") -> Answer(@, Of(n, {}))
                          [] OTHER -> Refuse(@)]
    /\ UNCHANGED <<site, sending>>

ServeSide ==
    /\ Pending(view.side)
    /\ \/ /\ view' = [view EXCEPT !.side =
                        Answer(@, Of(KeyOf(@), SideData(view.page, KeyOf(@))))]
          /\ UNCHANGED turns
       \/ Turn /\ view' = [view EXCEPT !.side = Refuse(@)]
    /\ UNCHANGED <<site, sending>>

ServePinned ==
    /\ Pending(view.pinned)
    /\ \/ view' = [view EXCEPT !.pinned = Answer(@, KeyOf(@))] /\ UNCHANGED turns
       \/ Turn /\ view' = [view EXCEPT !.pinned = Answer(@, Nothing)]
    /\ UNCHANGED <<site, sending>>

Marked(set, c) == IF c.arg = "yes" THEN set \cup {c.name} ELSE set \ {c.name}

(* Whoever is blocked is not followed any more, and cannot be. *)
Stored(c) ==
    CASE c.op \in {"follow", "follow_tag"} -> [site EXCEPT !.follows = Marked(@, c)]
      [] c.op = "mute" -> [site EXCEPT !.mutes = Marked(@, c)]
      [] c.op = "block" -> [site EXCEPT !.blocks = Marked(@, c),
                                        !.follows = IF c.arg = "yes" THEN @ \ {c.name} ELSE @]
      [] c.op = "unpin" -> [site EXCEPT !.pins = @ \ {c.name}]
      [] c.op = "reply" -> [site EXCEPT !.replies[c.name] = @ \cup {2}]
      [] c.op = "restore" -> [site EXCEPT !.trash = @ \ {c.arg}]

(* The check before the INSERT refuses; the one in it inserts nothing, and that is no error. *)
Forbidden(c) == c.op = "follow" /\ c.arg = "yes" /\ c.name \in site.blocks

AnsweredWith(c, state) == (sending \ {c}) \cup {[c EXCEPT !.state = state]}

ServeSending(c) ==
    /\ c.state = "sent"
    /\ \/ /\ ~Forbidden(c)
          /\ site' = Stored(c)
          /\ sending' = AnsweredWith(c, "ok")
       \/ /\ Forbidden(c)
          /\ \E answer \in {"failed", "ok"} : sending' = AnsweredWith(c, answer)
          /\ UNCHANGED site
    /\ UNCHANGED <<view, turns>>

(* A request fails before or after it took effect.  `astray` remembers that a follow or a block
   that took effect was told to have failed, or that a profile came without what it should say. *)
FailSending(c) ==
    /\ c.state # "failed" /\ Turn
    /\ sending' = AnsweredWith(c, "failed")
    /\ view' = [view EXCEPT !.astray =
                   @ \/ (c.state = "ok" /\ c.op \in {"follow", "follow_tag", "block"})]
    /\ UNCHANGED site

-----------------------------------------------------------------------------

PageOpened(page, n) ==
    [page |-> page, name |-> n,
     main |-> IF n = Nothing THEN Unresolved ELSE Fetch(Unresolved, n),
     side |-> IF page \in {"hashtag", "trending", "profile"} THEN Fetch(Unresolved, n)
              ELSE Unresolved,
     pinned |-> Unresolved, pin |-> Nothing, override |-> Nothing, busy |-> FALSE,
     carried |-> FALSE, astray |-> FALSE, debounce |-> <<>>, replyingTo |-> 0]

PagesOpened(page, name, follows) ==
    /\ view = PageOpened(page, name)
    /\ site = [follows |-> follows, mutes |-> {}, blocks |-> {}, pins |-> Pinners, trash |-> Posts,
               replies |-> [n \in Names |-> {}]]
    /\ sending = {} /\ turns = 0

PagesInit ==
    \/ \E page \in PageKinds, n \in Names, follows \in SUBSET Names : PagesOpened(page, n, follows)
    \/ PagesOpened("search", Nothing, {})

PagesNext ==
    \/ Navigate \/ OnInput \/ Debounced \/ SearchRoute
    \/ MainLands \/ SideLands \/ PinnedLands \/ ServeMain \/ ServeSide \/ ServePinned
    \/ ToggleFollow \/ Follow \/ ToggleMute \/ ToggleBlock \/ Unpin \/ Restore
    \/ CardChanged \/ Reply \/ SendReply
    \/ \E c \in sending :
          \/ FollowedTag(c) \/ ProfileFollowed(c) \/ MutedOrBlocked(c) \/ Unpinned(c) \/ Restored(c)
          \/ AppendDescendant(c)
          \/ ServeSending(c) \/ FailSending(c)

PagesSpec == PagesInit /\ [][PagesNext]_pagesVars

-----------------------------------------------------------------------------
(* What the page shows of its first resource. *)
MainView ==
    CASE On("hashtag") -> HashtagView.list
      [] On("search") -> SearchView
      [] On("followers") -> FollowListView
      [] On("trending") -> TrendingView[1]
      [] On("activity") -> IF ActivityView THEN "chart" ELSE "skeleton"
      [] On("bookmarks") -> BookmarksView
      [] On("trash") -> TrashView
      [] On("profile") -> IF "header" \in ProfileView THEN "profile" ELSE "skeleton"
      [] On("post") -> PostView

(* Once the answers are in, a page shows what its address names and no earlier name's data:
   the tag, the query, the list, the window, the profile and its posts, the conversation.
   [the sources of createResource in the pages; Search.tsx 11-16, 37-39] *)
PageShowsItsAddress ==
    /\ ~Loading(view.main) /\ MainView \notin {"skeleton", "loading", "hint", "blank"} =>
         Value(view.main).of = view.name
    /\ Shown(view.side) /\ ~Loading(view.side) => Value(view.side).of = view.name
    /\ On("search") /\ view.name # Nothing /\ ~Loading(view.main) /\ ~Throws(view.main)
         => SearchView = "results"

(* Once the answers are in, a follow button says what the server has, after any number of
   clicks, blocks, failures and refetches under one name; unless a follow or a block took effect
   and was told to have failed, or the queries behind the profile's flags failed.
   [Profile 68-97, Hashtag 23-40; users.rs 524-537, 825-875, relations.rs 36-62] *)
FollowKnown ==
    IF On("hashtag") THEN TagKnown
    ELSE On("profile") /\ Shown(view.main) /\ ~Loading(view.main)

FollowButtonTruth ==
    FollowKnown /\ sending = {} /\ ~view.carried /\ ~view.astray => (Following <=> view.name \in site.follows)
=============================================================================
