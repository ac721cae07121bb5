------------------------------ MODULE WebLists ------------------------------
(***************************************************************************)
(* The paged lists of the web client: the public and the personal timeline,*)
(* the federated one, the videos and the notifications.  One list is open  *)
(* at a time.  Its signals are the fields of `list`; its one request in    *)
(* flight is `list.wait`.  Rows are numbered in the order the server got   *)
(* them, so that a page is a run of numbers downwards.  Live events (a new *)
(* post, a notification, a post of one's own) come between any two steps.  *)
(***************************************************************************)
EXTENDS Integers, Sequences, ArrayFilter

CONSTANTS
    Lists,      \* the pages an instance opens
    MaxRows,    \* bound: rows the server ever has
    PageSize,   \* rows the server returns at most
    Tied,       \* rows with the same timestamp as the row below
    RowClips       \* rows with a clip, for the video tab

ASSUME ListsAssumption ==
    /\ Lists \subseteq {"home", "feed", "federated", "videos", "notifications"}
    /\ MaxRows \in Nat
    /\ PageSize \in Nat \ {0}
    /\ Tied \subseteq Nat \ {0, 1}

VARIABLES
    newest,     \* the server's last row
    list        \* the open list

listVars == <<newest, list>>

Start == 0              \* no cursor: the request asks for the first page
Nowhere == <<"idle">>   \* no request in flight
PillCap == 2            \* bound: the pill of new posts counts to 99

(* A request in flight: what it asked for, and the rows once served. *)
Asked(before) == <<"asked", before>>
Served(rows)  == <<"served", rows>>
Failed        == <<"failed">>

(* These two page by the time alone, the others by time and id. *)
ByTime == {"federated", "notifications"}

OneTime(low, high) == (low + 1)..high \subseteq Tied

(* The row a page begins with, or 0 for none: rows of the cursor's time are not below it.  Rows
   of one time come in any order, here in that of their numbers. *)
PageStarts(page, top, before) ==
    IF before = Start THEN {top}
    ELSE {row \in 0..(before - 1) :
            IF page \in ByTime
            THEN OneTime(row + 1, before) /\ row + 1 \notin Tied
            ELSE row + 1 = before}

PageRows(first) ==
    LET size == IF first < PageSize THEN first ELSE PageSize
    IN  [i \in 1..size |-> first - i + 1]

(* next_before is the last row of the page, and null for an empty one. *)
Next_before(rows) == IF rows = <<>> THEN Start ELSE rows[Len(rows)]

Fresh(page) ==
    [page |-> page, rows |-> <<>>, cursor |-> Start, loading |-> FALSE, done |-> FALSE,
     ready |-> FALSE, wait |-> Nowhere, pill |-> 0, own |-> 0, early |-> {}, seen |-> {},
     tab |-> "all", watched |-> FALSE]

-----------------------------------------------------------------------------
(* What all the pages do with a request: `loading` goes up before it and down after. *)

Asking(l) == [l EXCEPT !.loading = TRUE, !.wait = Asked(l.cursor)]

Over(l) == [l EXCEPT !.loading = FALSE, !.ready = TRUE, !.wait = Nowhere]

(* mutant: the cursor stays at the end of the first page *)
ExtendFromStart(l, rows) ==
    IF rows = <<>>
    THEN [l EXCEPT !.done = TRUE]
    ELSE [l EXCEPT !.rows = @ \o rows, !.cursor = IF @ = Start THEN Next_before(rows) ELSE @]

(* The page goes below the rows on screen, and its last row becomes the cursor. *)
Extend(l, rows) ==
    IF rows = <<>>
    THEN [l EXCEPT !.done = TRUE]
    ELSE [l EXCEPT !.rows = @ \o rows, !.cursor = Next_before(rows)]

(* What a reload clears; a request in flight stays in flight. *)
Reset(l) == [l EXCEPT !.rows = <<>>, !.cursor = Start, !.done = FALSE, !.own = 0,
                      !.early = {}]

(* `loadMore` with its early return. *)
LoadMore(l) == IF l.loading \/ l.done THEN l ELSE Asking(l)

(* Nothing has come in yet and a page still to be read by the server begins at the top. *)
FirstPageToCome(l) == l.cursor = Start /\ l.wait[1] # "served" /\ ~l.done

(* `early` remembers the rows that this page will have once more. *)
Prepend(l, row) ==
    [l EXCEPT !.rows = <<row>> \o @, !.own = @ + 1,
              !.early = IF FirstPageToCome(l) THEN @ \cup {row} ELSE @]

OnPage(page) == list.page = page

-----------------------------------------------------------------------------
(* Home: the public timeline. *)

HomeView ==
    CASE list.rows # <<>> -> "posts"
      [] list.rows = <<>> /\ list.ready -> "empty"
      [] OTHER -> "skeleton"

HomeLoad ==
    /\ OnPage("home")
    /\ list.wait = Nowhere
    /\ list' = LoadMore(list)
    /\ UNCHANGED newest

HomeAnswer ==
    /\ OnPage("home") /\ list.wait[1] \in {"served", "failed"}
    /\ list' = IF list.wait = Failed THEN Over(list) ELSE Over(Extend(list, list.wait[2]))
    /\ UNCHANGED newest

(* An edit or a deletion of a post on screen, or the pill: clear, then load unless a load
   is under way, whose page then lands in the cleared list. *)
HomeReload ==
    /\ OnPage("home") /\ HomeView = "posts"
    /\ list' = LoadMore([Reset(list) EXCEPT !.ready = FALSE])
    /\ UNCHANGED newest

ShowNew ==
    /\ OnPage("home") /\ list.pill > 0
    /\ list' = LoadMore([Reset(list) EXCEPT !.ready = FALSE, !.pill = 0])
    /\ UNCHANGED newest

OnNewPost ==
    /\ OnPage("home") /\ newest < MaxRows
    /\ newest' = newest + 1
    /\ list' = [list EXCEPT !.pill = IF @ < PillCap THEN @ + 1 ELSE @]

(* A public post of one's own, from the box above the list or the floating button. *)
HomePosted ==
    /\ OnPage("home") /\ newest < MaxRows
    /\ newest' = newest + 1
    /\ list' = Prepend(list, newest + 1)

-----------------------------------------------------------------------------
(* Feed: the personal timeline, loaded by an effect on `initialized` and `loading`. *)

FeedView ==
    CASE list.rows # <<>> -> "posts"
      [] list.rows = <<>> /\ list.ready -> "empty"
      [] OTHER -> "skeleton"

FeedLoad ==
    /\ OnPage("feed")
    /\ list.wait = Nowhere
    /\ list' = LoadMore(list)
    /\ UNCHANGED newest

FeedAnswer ==
    /\ OnPage("feed") /\ list.wait[1] \in {"served", "failed"}
    /\ list' = IF list.wait = Failed THEN Over(list) ELSE Over(Extend(list, list.wait[2]))
    /\ UNCHANGED newest

FeedReload ==
    /\ OnPage("feed") /\ FeedView = "posts"
    /\ list' = LoadMore([Reset(list) EXCEPT !.ready = FALSE])
    /\ UNCHANGED newest

(* Posts that are not private are shown at once. *)
FeedPosted ==
    /\ OnPage("feed") /\ newest < MaxRows
    /\ newest' = newest + 1
    /\ list' = Prepend(list, newest + 1)

-----------------------------------------------------------------------------
(* Federated: a button asks for the next page; a failure counts as the end. *)

FederatedView ==
    CASE ~list.ready -> "skeleton"
      [] list.ready /\ list.rows = <<>> -> "empty"
      [] list.ready /\ list.rows # <<>> /\ ~list.done -> "more"
      [] OTHER -> "posts"

FederatedLoad ==
    /\ OnPage("federated") /\ ~list.loading
    /\ FederatedView = "skeleton" \/ FederatedView = "more"
    /\ list' = Asking(list)
    /\ UNCHANGED newest

FederatedAnswer ==
    /\ OnPage("federated") /\ list.wait[1] \in {"served", "failed"}
    /\ list' = IF list.wait = Failed
               THEN Over([list EXCEPT !.done = TRUE])
               ELSE LET rows == list.wait[2] IN
                    Over([list EXCEPT
                           !.rows = IF list.cursor = Start THEN rows ELSE @ \o rows,
                           !.cursor = Next_before(rows),
                           !.done = @ \/ rows = <<>>])
    /\ UNCHANGED newest

-----------------------------------------------------------------------------
(* Videos: the first load comes at mount; the later ones from an observer that is attached
   at mount to the sentinel, if the sentinel is on the page by then. *)

VideosView ==
    CASE ~list.ready -> "loading"
      [] list.ready /\ list.rows = <<>> -> "empty"
      [] OTHER -> "grid"

(* The sentinel is part of the grid. *)
SentinelAtMount == VideosView = "grid"

VideosLoad ==
    /\ OnPage("videos") /\ list.wait = Nowhere
    /\ ~list.ready \/ list.watched
    /\ list' = [LoadMore(list) EXCEPT !.watched = @ \/ (~list.ready /\ SentinelAtMount)]
    /\ UNCHANGED newest

(* Rows without a clip are dropped, but the cursor is the page's; a failure is the end. *)
VideosAnswer ==
    /\ OnPage("videos") /\ list.wait[1] \in {"served", "failed"}
    /\ list' = IF list.wait = Failed
               THEN Over([list EXCEPT !.done = TRUE])
               ELSE LET rows == list.wait[2] IN
                    Over([list EXCEPT
                            !.rows = @ \o Filter(rows, RowClips),
                            !.cursor = IF rows = <<>> THEN @ ELSE Next_before(rows),
                            !.done = @ \/ rows = <<>>])
    /\ UNCHANGED newest

-----------------------------------------------------------------------------
(* Notifications: a live one reloads the list from the top; rows are read one by one, on
   a click, or all at once.  The tab of unread rows loads no further page. *)

Unread == {i \in 1..Len(list.rows) : list.rows[i] \notin list.seen}

NotificationsView ==
    CASE list.loading /\ list.rows = <<>> -> "skeleton"
      [] ~list.loading /\ list.rows = <<>> -> "empty"
      [] list.rows # <<>> /\ list.tab = "unread" /\ Unread = {} -> "empty"
      [] OTHER -> "rows"

NotificationsLoad ==
    /\ OnPage("notifications") /\ list.wait = Nowhere
    /\ list.tab = "all"
    /\ list' = LoadMore(list)
    /\ UNCHANGED newest

NotificationsAnswer ==
    /\ OnPage("notifications") /\ list.wait[1] \in {"served", "failed"}
    /\ list' = IF list.wait = Failed THEN Over(list) ELSE Over(Extend(list, list.wait[2]))
    /\ UNCHANGED newest

OnNotification ==
    /\ OnPage("notifications") /\ newest < MaxRows
    /\ newest' = newest + 1
    /\ list' = LoadMore(Reset(list))

MarkRead ==
    /\ OnPage("notifications") /\ NotificationsView = "rows"
    /\ \E i \in Unread : list' = [list EXCEPT !.seen = @ \cup {list.rows[i]}]
    /\ UNCHANGED newest

MarkAll ==
    /\ OnPage("notifications") /\ Unread # {}
    /\ list' = [list EXCEPT !.seen = @ \cup {list.rows[i] : i \in Unread}]
    /\ UNCHANGED newest

ToggleTab ==
    /\ OnPage("notifications")
    /\ list' = [list EXCEPT !.tab = IF @ = "all" THEN "unread" ELSE "all"]
    /\ UNCHANGED newest

-----------------------------------------------------------------------------
(* The server: it serves a request some time after it was sent, or refuses it. *)

ServeRows ==
    /\ list.wait[1] = "asked"
    /\ \/ \E first \in PageStarts(list.page, newest, list.wait[2]) :
             list' = [list EXCEPT !.wait = Served(PageRows(first))]
       \/ list' = [list EXCEPT !.wait = Failed]
    /\ UNCHANGED newest

ListOpened(page, rows) == list = Fresh(page) /\ newest = rows

ListsInit == \E page \in Lists, rows \in 0..(MaxRows - 1) : ListOpened(page, rows)

ListsNext ==
    \/ HomeLoad \/ HomeAnswer \/ HomeReload \/ ShowNew \/ OnNewPost \/ HomePosted
    \/ FeedLoad \/ FeedAnswer \/ FeedReload \/ FeedPosted
    \/ FederatedLoad \/ FederatedAnswer
    \/ VideosLoad \/ VideosAnswer
    \/ NotificationsLoad \/ NotificationsAnswer \/ OnNotification
    \/ MarkRead \/ MarkAll \/ ToggleTab
    \/ ServeRows

ListsSpec == ListsInit /\ [][ListsNext]_listVars

-----------------------------------------------------------------------------
(* The rows that came in pages, below those put on top as they were written. *)
PagedRows == SubSeq(list.rows, list.own + 1, Len(list.rows))

Shows(row) == list.page # "videos" \/ row \in RowClips

(* The two lists that page by time alone leave out rows of the time of the row above. *)
Skipped(row, above) == list.page \in ByTime /\ OneTime(row, above)

(* However reloads, live posts and answers interleave, the pages on screen join up: rows
   go down, none comes twice, and none between two of them is left out but those of the upper
   one's time where the cursor is a time; one's own posts stay above, but those written before
   the first page was read; and the end that is announced after an answer is where the server's
   rows end.  [InfiniteList and the loadMore of Home, Feed, Notifications; load of Federated,
   Videos; feed.rs 175-192, notifications.rs 191-209] *)
PagesJoinUp ==
    /\ \A i \in 1..(Len(PagedRows) - 1) :
          /\ PagedRows[i] > PagedRows[i + 1]
          /\ \A row \in 1..newest : PagedRows[i] > row /\ row > PagedRows[i + 1] /\ Shows(row)
               => Skipped(row, PagedRows[i])
    /\ \A i \in 1..list.own, j \in 1..Len(PagedRows) :
          list.rows[i] > PagedRows[j] \/ list.rows[i] \in list.early
    /\ list.done /\ PagedRows # <<>> /\ list.page \in {"home", "feed", "notifications"} =>
          LET last == PagedRows[Len(PagedRows)] IN
          \A row \in 1..(last - 1) : Skipped(row, last)
=============================================================================
