------------------------------ MODULE WebPost ------------------------------
(***************************************************************************)
(* A post on screen and the composers of the web client.  The post is the  *)
(* root of the conversation page, which hands it down as a prop each time  *)
(* its resource changes; the card keeps signals of its own.  The composer  *)
(* of the timelines saves its draft in the browser; the one under a post   *)
(* does not.  Answers come in any order, and other readers react too.      *)
(***************************************************************************)
EXTENDS Integers, Sequences, FiniteSets, WebResource

CONSTANTS
    LongTexts,      \* typed texts, by number, that are longer than a post may be
    MaxTexts,       \* bound: texts typed in the main composer; in the other, one
    MaxEdits        \* bound: clicks, other readers' reactions, reloads and failures together

VARIABLES
    post,           \* the server's row of the post
    card,           \* the page of the post and its card
    boxes,          \* the two composers
    draft,          \* the saved draft
    typed,          \* texts typed so far in each composer, numbered in their order
    posted,         \* texts of each the server has
    sends,          \* requests in flight, other than the page's resource
    edits

postVars == <<post, card, boxes, draft, typed, posted, sends, edits>>

Kinds == {"main", "reply"}
NoText == 0
TextBound(kind) == IF kind = "main" THEN MaxTexts ELSE 1

Edit == edits < MaxEdits /\ edits' = edits + 1

(* A request of the card or of a composer; `alive` while its component is mounted. *)
Request(op, kind, arg) == [op |-> op, kind |-> kind, arg |-> arg, state |-> "sent", alive |-> TRUE]

(* What the server says of a post. *)
ServedPost == [reacted |-> post.reacted, count |-> post.others + (IF post.reacted THEN 1 ELSE 0),
             marked |-> post.marked, replies |-> post.replies]

-----------------------------------------------------------------------------
(* The composer. *)

Blank == [open |-> FALSE, text |-> NoText, extra |-> FALSE, warning |-> FALSE, media |-> 0,
          busy |-> FALSE, uploading |-> FALSE, err |-> FALSE, mentions |-> "none",
          lookup |-> "idle"]

NoDraft == [text |-> NoText, extra |-> FALSE, warning |-> FALSE, media |-> 0]

DraftOf(box) ==
    [text |-> box.text, extra |-> box.extra, warning |-> box.warning, media |-> box.media]

(* mutant: the draft is not read before the first save *)
ReadDraftLate(kind) == [Blank EXCEPT !.open = TRUE]

(* Only the main composer restores a draft. *)
ReadDraft(kind) ==
    IF kind = "main"
    THEN [Blank EXCEPT !.open = TRUE, !.text = draft.text, !.extra = draft.extra,
                       !.warning = draft.warning, !.media = draft.media]
    ELSE [Blank EXCEPT !.open = TRUE]

(* The effect that follows the text, the warning and the media of the main composer. *)
SaveDraft(box) ==
    IF box.text # NoText \/ box.extra \/ box.warning \/ box.media > 0 THEN DraftOf(box) ELSE NoDraft

(* Every change of a composer is saved with it; one that is not mounted saves nothing. *)
Put(kind, box) ==
    /\ boxes' = [boxes EXCEPT ![kind] = box]
    /\ draft' = IF kind = "main" /\ box.open THEN SaveDraft(box) ELSE draft

Box(kind) == boxes[kind]

(* The textarea, the fields and the buttons that react; the tools of the bar do always. *)
ComposeView(box) ==
    {"tools"}
    \cup (IF box.busy THEN {} ELSE {"textarea"})
    \cup (IF box.busy \/ box.uploading THEN {} ELSE {"pick"})
    \cup (IF box.busy \/ box.text \in LongTexts
             \/ (box.text = NoText /\ ~box.extra /\ box.media = 0)
          THEN {} ELSE {"send"})
    \cup (IF box.media > 0 THEN {"remove"} ELSE {})
    \cup (IF box.mentions # "none" THEN {"typeahead"} ELSE {})

(* A keystroke: another text; the typeahead follows the name under the cursor. *)
OnKeystroke(kind) ==
    /\ Box(kind).open /\ "textarea" \in ComposeView(Box(kind)) /\ typed[kind] < TextBound(kind)
    /\ typed' = [typed EXCEPT ![kind] = @ + 1]
    /\ \E name \in BOOLEAN :
          Put(kind, [Box(kind) EXCEPT !.text = typed[kind] + 1,
                                      !.mentions = IF name THEN @ ELSE "none",
                                      !.lookup = IF name THEN "timer"
                                                 ELSE IF @ = "timer" THEN "idle" ELSE @])
    /\ UNCHANGED <<post, card, posted, sends, edits>>

MentionTimer(kind) ==
    /\ Box(kind).open /\ Box(kind).lookup = "timer"
    /\ Put(kind, [Box(kind) EXCEPT !.lookup = "asked"])
    /\ UNCHANGED <<post, card, typed, posted, sends, edits>>

MentionLands(kind) ==
    /\ Box(kind).open /\ Box(kind).lookup = "asked"
    /\ \E found \in {"none", "some"} :
          Put(kind, [Box(kind) EXCEPT !.lookup = "idle", !.mentions = found])
    /\ UNCHANGED <<post, card, typed, posted, sends, edits>>

(* A name is put in the text, even while the post is on its way. *)
InsertMention(kind) ==
    /\ Edit /\ Box(kind).open /\ "typeahead" \in ComposeView(Box(kind))
    /\ Put(kind, [Box(kind) EXCEPT !.extra = TRUE, !.mentions = "none"])
    /\ UNCHANGED <<post, card, typed, posted, sends>>

(* The emoji picker and the code block. *)
InsertAtCursor(kind) ==
    /\ Edit /\ Box(kind).open /\ "tools" \in ComposeView(Box(kind))
    /\ Put(kind, [Box(kind) EXCEPT !.extra = TRUE])
    /\ UNCHANGED <<post, card, typed, posted, sends>>

(* Bold, italic and link: around the selection. *)
WrapSelection(kind) ==
    /\ Edit /\ Box(kind).open /\ "tools" \in ComposeView(Box(kind)) /\ Box(kind).text # NoText
    /\ Put(kind, [Box(kind) EXCEPT !.extra = TRUE])
    /\ UNCHANGED <<post, card, typed, posted, sends>>

SetWarning ==
    /\ Edit /\ Box("main").open
    /\ Put("main", [Box("main") EXCEPT !.warning = ~@])
    /\ UNCHANGED <<post, card, typed, posted, sends>>

RemoveMedia(kind) ==
    /\ Edit /\ Box(kind).open /\ "remove" \in ComposeView(Box(kind))
    /\ Put(kind, [Box(kind) EXCEPT !.media = @ - 1])
    /\ UNCHANGED <<post, card, typed, posted, sends>>

Submitting(box) == [box EXCEPT !.busy = TRUE, !.err = FALSE]

(* A press of the button.  The text of this moment is what is sent. *)
Submit(kind) ==
    /\ Edit /\ Box(kind).open /\ "send" \in ComposeView(Box(kind))
    /\ Put(kind, Submitting(Box(kind)))
    /\ sends' = sends \cup {Request("post", kind, Box(kind).text)}
    /\ UNCHANGED <<post, card, typed, posted>>

(* Ctrl+Enter in the textarea: no matter how long the text is. *)
OnKeyDown(kind) ==
    /\ Edit /\ Box(kind).open /\ "textarea" \in ComposeView(Box(kind))
    /\ Box(kind).mentions = "none"
    /\ Box(kind).text # NoText \/ Box(kind).extra \/ Box(kind).media > 0
    /\ Put(kind, Submitting(Box(kind)))
    /\ sends' = sends \cup {Request("post", kind, Box(kind).text)}
    /\ UNCHANGED <<post, card, typed, posted>>

(* Posted: the box is emptied, whatever it holds by then.  A reply shows below the post. *)
Emptied(box) == [box EXCEPT !.text = NoText, !.extra = FALSE, !.warning = FALSE, !.media = 0,
                            !.mentions = "none", !.busy = FALSE]

(* A picture or a clip that is small and short enough is sent off. *)
PickMedia(kind) ==
    /\ Edit /\ Box(kind).open /\ "pick" \in ComposeView(Box(kind))
    /\ \E fits \in BOOLEAN :
          IF fits
          THEN /\ Put(kind, [Box(kind) EXCEPT !.uploading = TRUE, !.err = FALSE])
               /\ sends' = sends \cup {Request("upload", kind, NoText)}
          ELSE /\ Put(kind, [Box(kind) EXCEPT !.err = TRUE])
               /\ UNCHANGED sends
    /\ UNCHANGED <<post, card, typed, posted>>

UploadLands(q) ==
    /\ q.op = "upload" /\ q.alive /\ q.state # "sent"
    /\ LET box == Box(q.kind) IN
       Put(q.kind, IF q.state = "ok" THEN [box EXCEPT !.uploading = FALSE, !.media = @ + 1]
                   ELSE [box EXCEPT !.uploading = FALSE, !.err = TRUE])
    /\ sends' = sends \ {q}
    /\ UNCHANGED <<post, card, typed, posted, edits>>

-----------------------------------------------------------------------------
(* The card. *)

(* Signals of a card, before it is mounted. *)
Closed(me, role) ==
    [open |-> FALSE, page |-> "thread", thread |-> Unresolved, me |-> me,
     role |-> role, menu |-> FALSE, reacted |-> FALSE, count |-> 0, marked |-> FALSE, replies |-> 0,
     busy |-> FALSE, editing |-> FALSE, edited |-> FALSE, past |-> FALSE,
     versions |-> FALSE, pastErr |-> FALSE]

(* The effect on the props: the card takes over what the prop says. *)
PropsChanged(c, root) ==
    [c EXCEPT !.reacted = root.reacted, !.marked = root.marked,
              !.count = root.count, !.replies = root.replies]

CardHead == {"menu"} \cup (IF card.edited THEN {"history"} ELSE {})

(* Beside sharing: for who is signed in, for the author, for the others, and for an
   administrator as well. *)
MenuItems ==
    IF ~card.menu THEN {}
    ELSE {"share"} \cup
         (IF ~card.me THEN {}
          ELSE {"bookmark"}
               \cup (IF card.role = "author" THEN {"pin", "edit"} ELSE {"report"})
               \cup (IF card.role \in {"author", "admin"} THEN {"delete"} ELSE {}))

EditorView ==
    IF ~card.editing THEN {}
    ELSE {"cancel"} \cup (IF card.busy THEN {} ELSE {"save"})

FooterView ==
    (IF card.me THEN {"reply"} ELSE {})
    \cup (IF ~card.me \/ card.busy THEN {} ELSE {"react"})

OnCard == card.open /\ Shown(card.thread)

OpenMenu ==
    /\ OnCard /\ "menu" \in CardHead
    /\ card' = [card EXCEPT !.menu = ~@]
    /\ UNCHANGED <<post, boxes, draft, typed, posted, sends, edits>>

(* Turtle on, turtle off: shown once the server has it. *)
TogglePostReact ==
    /\ Edit /\ OnCard /\ "react" \in FooterView
    /\ card' = [card EXCEPT !.busy = TRUE]
    /\ sends' = sends \cup {Request(IF card.reacted THEN "unreact" ELSE "react", "card", NoText)}
    /\ UNCHANGED <<post, boxes, draft, typed, posted>>

Reacted(q) ==
    /\ q.op \in {"react", "unreact"} /\ q.alive /\ q.state # "sent"
    /\ card' = CASE q.state = "failed" -> [card EXCEPT !.busy = FALSE]
                 [] q.state = "ok" /\ q.op = "react" ->
                      [card EXCEPT !.busy = FALSE, !.reacted = TRUE, !.count = @ + 1]
                 [] q.state = "ok" /\ q.op = "unreact" ->
                      [card EXCEPT !.busy = FALSE, !.reacted = FALSE,
                                   !.count = IF @ > 0 THEN @ - 1 ELSE 0]
    /\ sends' = sends \ {q}
    /\ UNCHANGED <<post, boxes, draft, typed, posted, edits>>

ToggleBookmark ==
    /\ Edit /\ OnCard /\ "bookmark" \in MenuItems /\ ~card.busy
    /\ card' = [card EXCEPT !.menu = FALSE, !.busy = TRUE]
    /\ sends' = sends \cup {Request(IF card.marked THEN "unmark" ELSE "mark", "card", NoText)}
    /\ UNCHANGED <<post, boxes, draft, typed, posted>>

Bookmarked(q) ==
    /\ q.op \in {"mark", "unmark"} /\ q.alive /\ q.state # "sent"
    /\ card' = [card EXCEPT !.busy = FALSE, !.marked = IF q.state = "ok" THEN q.op = "mark" ELSE @]
    /\ sends' = sends \ {q}
    /\ UNCHANGED <<post, boxes, draft, typed, posted, edits>>

StartEdit ==
    /\ OnCard /\ "edit" \in MenuItems
    /\ card' = [card EXCEPT !.menu = FALSE, !.editing = TRUE]
    /\ UNCHANGED <<post, boxes, draft, typed, posted, sends, edits>>

CancelEdit ==
    /\ OnCard /\ "cancel" \in EditorView
    /\ card' = [card EXCEPT !.editing = FALSE]
    /\ UNCHANGED <<post, boxes, draft, typed, posted, sends, edits>>

SaveEdit ==
    /\ Edit /\ OnCard /\ "save" \in EditorView
    /\ card' = [card EXCEPT !.busy = TRUE]
    /\ sends' = sends \cup {Request("edit", "card", NoText)}
    /\ UNCHANGED <<post, boxes, draft, typed, posted>>

Edited(q) ==
    /\ q.op = "edit" /\ q.alive /\ q.state # "sent"
    /\ card' = IF q.state = "ok"
               THEN [card EXCEPT !.busy = FALSE, !.edited = TRUE, !.editing = FALSE]
               ELSE [card EXCEPT !.busy = FALSE]
    /\ sends' = sends \ {q}
    /\ UNCHANGED <<post, boxes, draft, typed, posted, edits>>

(* The versions are fetched when first opened; a failure is remembered for good. *)
ToggleHistory ==
    /\ Edit /\ OnCard /\ "history" \in CardHead
    /\ card' = [card EXCEPT !.past = ~@]
    /\ sends' = IF ~card.past /\ ~card.versions
                THEN sends \cup {Request("history", "card", NoText)} ELSE sends
    /\ UNCHANGED <<post, boxes, draft, typed, posted>>

HistoryLands(q) ==
    /\ q.op = "history" /\ q.alive /\ q.state # "sent"
    /\ card' = [card EXCEPT !.versions = @ \/ q.state = "ok",
                            !.pastErr = @ \/ q.state = "failed"]
    /\ sends' = sends \ {q}
    /\ UNCHANGED <<post, boxes, draft, typed, posted, edits>>

DeleteIt ==
    /\ Edit /\ OnCard /\ "delete" \in MenuItems
    /\ card' = [card EXCEPT !.menu = FALSE]
    /\ sends' = sends \cup {Request("delete", "card", NoText)}
    /\ UNCHANGED <<post, boxes, draft, typed, posted>>

(* The page loads again, with the same card; a timeline loads again without it. *)
Deleted(q) ==
    /\ q.op = "delete" /\ q.alive /\ q.state # "sent"
    /\ card' = CASE q.state = "failed" -> card
                 [] q.state = "ok" /\ card.page = "thread" ->
                      [card EXCEPT !.thread = Fetch(@, "post")]
                 [] q.state = "ok" /\ card.page = "timeline" -> Closed(card.me, card.role)
    /\ sends' = sends \ {q}
    /\ UNCHANGED <<post, boxes, draft, typed, posted, edits>>

(* The link goes to the clipboard. *)
Share ==
    /\ OnCard /\ "share" \in MenuItems
    /\ card' = [card EXCEPT !.menu = FALSE]
    /\ UNCHANGED <<post, boxes, draft, typed, posted, sends, edits>>

(* A report: a reason of the list, a note. *)
Report ==
    /\ Edit /\ OnCard /\ "report" \in MenuItems
    /\ card' = [card EXCEPT !.menu = FALSE]
    /\ sends' = sends \cup {Request("report", "card", NoText)}
    /\ UNCHANGED <<post, boxes, draft, typed, posted>>

TogglePin ==
    /\ Edit /\ OnCard /\ "pin" \in MenuItems /\ ~card.busy
    /\ card' = [card EXCEPT !.menu = FALSE, !.busy = TRUE]
    /\ sends' = sends \cup {Request("pin", "card", NoText)}
    /\ UNCHANGED <<post, boxes, draft, typed, posted>>

Noted(q) ==
    /\ q.op \in {"pin", "report"} /\ q.alive /\ q.state # "sent"
    /\ card' = [card EXCEPT !.busy = @ /\ q.op # "pin"]
    /\ sends' = sends \ {q}
    /\ UNCHANGED <<post, boxes, draft, typed, posted, edits>>

(* The reply box under the post opens empty and is discarded when it is closed. *)
OnReplyClick ==
    /\ OnCard /\ "reply" \in FooterView
    /\ boxes' = [boxes EXCEPT !["reply"] = IF @.open THEN Blank ELSE ReadDraft("reply")]
    /\ sends' = {IF q.kind = "reply" THEN [q EXCEPT !.alive = FALSE] ELSE q : q \in sends}
    /\ UNCHANGED <<post, card, draft, typed, posted, edits>>

(* A reply that is live is put in the page's data, whose root is the one fetched last; on a
   timeline it is counted. *)
Replied(c) ==
    CASE c.page = "thread" /\ Shown(c.thread) -> PropsChanged(c, c.thread.value[1])
      [] c.page = "thread" /\ ~Shown(c.thread) -> c
      [] c.page = "timeline" -> [c EXCEPT !.replies = @ + 1]

Posted(q) ==
    /\ q.op = "post" /\ q.alive /\ q.state # "sent"
    /\ IF q.state = "failed"
       THEN Put(q.kind, [Box(q.kind) EXCEPT !.busy = FALSE, !.err = TRUE]) /\ UNCHANGED card
       ELSE \E live \in BOOLEAN :
              IF q.kind = "reply" /\ live
              THEN /\ boxes' = [boxes EXCEPT !["reply"] = Blank]
                   /\ card' = Replied(card)
                   /\ UNCHANGED draft
              ELSE Put(q.kind, Emptied(Box(q.kind))) /\ UNCHANGED card
    /\ sends' = {IF live.kind = "reply" /\ q.kind = "reply" /\ q.state = "ok"
                 THEN [live EXCEPT !.alive = FALSE] ELSE live : live \in sends \ {q}}
    /\ UNCHANGED <<post, typed, posted, edits>>

RootLands ==
    /\ card.open /\ Answered(card.thread)
    /\ card' = LET c == [card EXCEPT !.thread = Land(@)] IN
               IF Shown(c.thread) THEN PropsChanged(c, c.thread.value[1]) ELSE c
    /\ UNCHANGED <<post, boxes, draft, typed, posted, sends, edits>>

-----------------------------------------------------------------------------
(* From page to page, reloads, signing out. *)

(* The card of a row of a timeline. *)
Listed(role, row) ==
    PropsChanged([Closed(TRUE, role) EXCEPT !.open = TRUE, !.page = "timeline",
                                      !.thread = Mutate(Unresolved, row)], row)

Unmounted == {[q EXCEPT !.alive = FALSE] : q \in sends}

OpenPost ==
    /\ Edit /\ card.me /\ card.page = "timeline"
    /\ card' = [Closed(card.me, card.role) EXCEPT !.open = TRUE, !.thread = Fetch(@, "post")]
    /\ boxes' = [kind \in Kinds |-> Blank]
    /\ sends' = Unmounted
    /\ UNCHANGED <<post, draft, typed, posted>>

(* To a timeline, or a reload there: the main composer is mounted anew, and the card of the
   post as the list has it. *)
OpenTimeline ==
    /\ Edit /\ card.me
    /\ card' = IF post.gone THEN Closed(card.me, card.role) ELSE Listed(card.role, ServedPost)
    /\ boxes' = [kind \in Kinds |-> IF kind = "main" THEN ReadDraft("main") ELSE Blank]
    /\ draft' = SaveDraft(boxes'["main"])
    /\ sends' = Unmounted
    /\ UNCHANGED <<post, typed, posted>>

(* The composers go with the session, then the draft: nobody awaits the text any more. *)
SignOut ==
    /\ Edit /\ card.me
    /\ card' = [card EXCEPT !.me = FALSE]
    /\ boxes' = [kind \in Kinds |-> Blank]
    /\ draft' = NoDraft
    /\ sends' = {IF q.kind \in Kinds THEN [q EXCEPT !.alive = FALSE] ELSE q : q \in sends}
    /\ UNCHANGED <<post, typed, posted>>

-----------------------------------------------------------------------------
(* The server, and the other readers. *)

OthersReact ==
    /\ Edit /\ post.others = 0
    /\ post' = [post EXCEPT !.others = 1]
    /\ UNCHANGED <<card, boxes, draft, typed, posted, sends>>

ServeRoot ==
    /\ Pending(card.thread)
    /\ \/ card' = [card EXCEPT !.thread = Answer(@, ServedPost)] /\ ~post.gone /\ UNCHANGED edits
       \/ /\ card' = [card EXCEPT !.thread = Refuse(@)]
          /\ IF post.gone THEN UNCHANGED edits ELSE Edit
    /\ UNCHANGED <<post, boxes, draft, typed, posted, sends>>

AfterSend(q) ==
    CASE q.op \in {"react", "unreact"} -> [post EXCEPT !.reacted = q.op = "react"]
      [] q.op \in {"mark", "unmark"} -> [post EXCEPT !.marked = q.op = "mark"]
      [] q.op = "delete" -> [post EXCEPT !.gone = TRUE]
      [] q.op = "post" -> [post EXCEPT !.replies = IF q.kind = "reply" THEN 1 ELSE @]
      [] OTHER -> post

(* A post that is too long is refused; any request may fail before it is stored. *)
ServeSend(q) ==
    /\ q.state = "sent"
    /\ \/ /\ ~(q.op = "post" /\ q.arg \in LongTexts)
          /\ post' = AfterSend(q)
          /\ posted' = IF q.op = "post" THEN [posted EXCEPT ![q.kind] = @ \cup {q.arg}] ELSE posted
          /\ sends' = (sends \ {q}) \cup {[q EXCEPT !.state = "ok"]}
          /\ UNCHANGED edits
       \/ /\ IF q.op = "post" /\ q.arg \in LongTexts THEN UNCHANGED edits ELSE Edit
          /\ sends' = (sends \ {q}) \cup {[q EXCEPT !.state = "failed"]}
          /\ UNCHANGED <<post, posted>>
    /\ UNCHANGED <<card, boxes, draft, typed>>

(* An answer nobody listens to. *)
Dropped(q) ==
    /\ ~q.alive /\ q.state # "sent"
    /\ sends' = sends \ {q}
    /\ UNCHANGED <<post, card, boxes, draft, typed, posted, edits>>

-----------------------------------------------------------------------------

PostOpened(role) ==
    /\ post = [reacted |-> FALSE, others |-> 0, marked |-> FALSE, replies |-> 0,
               gone |-> FALSE]
    /\ card = Listed(role, ServedPost)
    /\ boxes = [kind \in Kinds |-> IF kind = "main" THEN [Blank EXCEPT !.open = TRUE] ELSE Blank]
    /\ draft = NoDraft /\ typed = [kind \in Kinds |-> 0]
    /\ posted = [kind \in Kinds |-> {}] /\ sends = {} /\ edits = 0

(* The reader: the author, an administrator who is not, another. *)
Roles == {"author", "admin", "reader"}

PostInit == \E role \in Roles : PostOpened(role)

PostNext ==
    \/ \E kind \in Kinds :
          \/ OnKeystroke(kind) \/ MentionTimer(kind) \/ MentionLands(kind) \/ InsertMention(kind)
          \/ InsertAtCursor(kind) \/ WrapSelection(kind) \/ RemoveMedia(kind)
          \/ Submit(kind) \/ OnKeyDown(kind) \/ PickMedia(kind)
    \/ SetWarning
    \/ OpenMenu \/ TogglePostReact \/ ToggleBookmark \/ StartEdit \/ CancelEdit \/ SaveEdit
    \/ ToggleHistory \/ DeleteIt \/ Share \/ Report \/ TogglePin \/ OnReplyClick
    \/ RootLands \/ ServeRoot \/ OthersReact
    \/ OpenPost \/ OpenTimeline \/ SignOut
    \/ \E q \in sends :
          \/ Reacted(q) \/ Bookmarked(q) \/ Edited(q) \/ HistoryLands(q) \/ Deleted(q)
          \/ Noted(q) \/ Posted(q) \/ UploadLands(q) \/ ServeSend(q) \/ Dropped(q)

PostSpec == PostInit /\ [][PostNext]_postVars

-----------------------------------------------------------------------------
(* However posting, failing, leaving and reloading interleave, the text typed last in the
   main composer is in the composer, in the saved draft, or on the server.
   [Compose.tsx 81-83: "a refresh / accidental navigation never eats a half-written signal"] *)
TextNeverEaten ==
    LET last == typed["main"] IN
    card.me /\ last # NoText
       => last \in posted["main"] \/ boxes["main"].text = last \/ draft.text = last
=============================================================================
