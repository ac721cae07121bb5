# A verification project for burncpu

burncpu is a social network: a Rust server (Axum, Postgres, Redis, Meilisearch) with
a SolidJS web client and an Expo mobile client.  This directory holds TLA+ modules
translated from the source of all three, TLC configurations that check them on small
instances, and theorems about them that TLAPS proves for every instance.

Paths below are relative to the repository (`src/...` is the Rust crate, `migrations/`
the SQL schema, `web/src` and `mobile/src` the clients).

## 1. Inventory

How the parts interact: every handler is an async function that runs SQL statements
and Redis or HTTP calls with an `.await` between them.  Transactions are rare (signup,
a few others), so handlers of different requests interleave statement by statement,
and a request may be dropped at any `.await` (the 30 s deadline of
`middleware/timeout.rs`, a client that hangs up, a restart).  Work that must not delay
the response is handed to a detached task (`tokio::spawn`), to a bounded queue with a
worker, or to a Postgres trigger.

The clients talk to the server in two ways only: requests, answered in any order and
possibly never, and one event stream per tab (`EventSource`) or per open thread of the
app (`XMLHttpRequest`), whose events say that something changed and make the page ask
again.  A page keeps what it was told in `createResource` (web) or in `useState`
(mobile), changes it ahead of the server where that looks better, and undoes the change
or asks again on failure.  The session is a cookie no script can read; what a client
believes about it (`me`, `current`) is the answer of the last probe, cached over reloads
and launches.

| Part | Source | State | Operations | What is hard | What makes it correct |
|---|---|---|---|---|---|
| Posts table, counters, retention | `migrations/0001, 0030, 0033`, `cleanup.rs` | posts rows, `users.posts_count`, `posts.replies_count` | insert, trash, restore, state change, bulk sweep, hourly purge, account deletion | counters kept by deltas; `ON DELETE SET NULL` on threads; two sides of the 30-day limit | counters are exact; threads survive the purge; trash is kept |
| Posting | `routes/posts.rs` | posts, Redis fingerprints | create, edit, delete, restore, repost | checks several statements before the insert | no reply broader than its parent, no repost chains |
| Reports | `routes/reports.rs` | reports | file, count and quarantine, resolve | concurrent counts; approval racing a count | no report is lost, no verdict undone |
| Heat, shadow ban, suspension | `moderation.rs` | heat, `shadow_banned`, role | offense, escalate, ban, unban | flag and sweep in two statements; thresholds crossed together | escalation enforced, admins untouchable, flag and posts agree |
| Admin decisions | `routes/admin.rs` | all of the above | patch post, patch user, shadow toggle | a decision settles reports one statement later | verdicts are not laundered |
| Appeals | `routes/appeals.rs` | appeals | file, grant, deny | read, then insert; grant after a newer sanction | at most one open appeal, a grant settles the reports |
| Search index | `search/mod.rs`, `routes/search.rs`, `routes/admin.rs` | documents in Meilisearch | put, delete, reindex | detached tasks out of order, lost calls, stale reads | only public posts, complete and sound once settled |
| Accounts and login | `routes/auth.rs`, `oauth.rs`, `passkeys.rs`, `twofa.rs`, `invites.rs`, `tokens.rs`, `middleware/session.rs` | users, sessions, magic links, invites, TOTP secrets, tokens | request and verify a link, enrol, challenge, redeem, revoke | one-time secrets, sessions outliving a suspension, caps by count-then-insert | a link, code and invite is used once; a suspended account has no access |
| Profiles and relations | `routes/users.rs`, `relations.rs`, `migrations/0027` | follows, blocks, counters, pins | follow, block, pin, delete account | trigger counters, block against follow | counters exact, no follow across a block |
| Delivery | `routes/notifications.rs`, `webhooks.rs`, `push.rs`, `state.rs` | bounded queues, failure streaks, the SSE hub | notify, deliver, disable, subscribe | full queues shed, late results mix with newer ones, entries die with their streams, subscribers lag | a hook is disabled for failures in a row only; an open stream hears or is told |
| Media | `routes/media.rs`, `transcode.rs`, `cover_cache.rs`, `cleanup.rs` | media rows, files, a queue | upload, claim, transcode, requeue, delete, sweep | lost and duplicate wake-ups, crashes, files that rows share | every video ends ready or failed; a row has its files; a video in a post stays |
| Direct messages | `routes/dm.rs` | threads, messages, previews | send, delete, clear, read, type | preview written apart from the message | the preview is of the newest message |
| Federation | `federation/`, `routes/federation.rs` | remote posts, followers, relays, keys | inbox, fan-out, follow, undo | duplicated and reordered activities | an activity takes effect once; only public live posts leave |
| Cache, rate limits | `cache.rs`, `ratelimit.rs` | Redis keys | read through, hit | lock expiry, fail-open | single flight, bounded staleness |
| Web session, live stream | `web/src/{auth.ts,Layout.tsx}`, `pages/{Login,Invite,Confirm,TwoFA}.tsx` | `me`, the EventSource, the reconnection timer, the badge | probe, sign in (four ways), sign out, reload, reconnect | late probes, drops and restarts against logouts | the stream follows `me` and comes back |
| Conversations, inbox | `pages/{DMThread,DMs}.tsx` | messages, selections, read receipts | open, send, react, delete, select, clear, look up | events against loads; one instance for all names | what the peer wrote is shown, read and counted |
| Pages of an address | `pages/{Profile,Hashtag,Search,FollowList,Trending,Activity,Bookmarks,Trash,PostDetail}.tsx` | resources, override of the follow button | go, follow, mute, block, pin, restore, reply | instance kept over addresses, answers of an earlier name | the page is that of its address |
| Paged lists | `pages/{Home,Feed,Federated,Videos,Notifications}.tsx` | rows, cursor, flags | load, reload, prepend, mark read | reloads and live rows against a load in flight | pages join up |
| Post card, composer | `components/{Post,Compose}.tsx` | optimistic signals, draft | react, edit, delete, pin, type, post | posting, failing, leaving and reloading | no text is lost |
| Settings, administration | `pages/{Settings,Admin}.tsx` | tables, forms, busy flags | every button of every table | changes and reloads not queued | tables on screen are current |
| Mobile session | `mobile/src/{auth,unread,push,passkey}.ts`, `app/{_layout,login,2fa,settings}.tsx` | `current`, the stored user, badges | launch, probe, sign in and out, poll | trailing storage writes, kills, late polls | storage follows `current`, badges settle |
| Mobile thread | `mobile/src/sse.ts`, `app/dm/[username].tsx` | messages, streams | open, send, react, delete, leave | a failure reported twice, timers after closing | one stream at a time |
| Rendering, feeds, texts | `content/`, `routes/{rss,sitemap,embed,feed,trending,bookmarks,link_preview,openapi}.rs`, `i18n.ts`, `Docs.tsx` | none of their own | formatting, queries | - | not modelled |

`PROJECT.json` lists every hazard with its line, and for each the properties that
would catch it or why none does yet.  Its list is limited to what the models speak of;
the hazards of the parts still to come (Social, Federation, cache) are in the plan at
the end.

## 2. Modules

```
PostStore            the posts table: one action per SQL statement
  ^                              PostStoreProofs  theorems
Moderation           EXTENDS PostStore: the handlers, statement by statement
  ^  MCModeration    instance;   ModerationProofs theorems
SearchSync           EXTENDS Moderation: the index and the tasks that keep it
  ^  MCSearchSync    instance;   SearchProofs     theorems

Accounts             signup, login, sessions, second factor, suspension, deletion
  ^  MCAccounts      instance;   AccountsProofs   theorems

Cookies              the session cookie, requests that carry it
WebResource          createResource of solid-js, as the pages use it
LiveFeed             what the layout promises of its stream (abstract)
WebSession           EXTENDS Cookies, WebResource; implements LiveFeed
MobileSession        EXTENDS Cookies
  ^  both, and MobileChat        ClientProofs     theorems

Media                uploaded videos: rows, files, the worker, the cleanup
  ^                              MediaProofs      theorems
Webhooks             the webhooks of an account and their dispatcher
NotificationHub      channels of open event streams
  ^  both                        DeliveryProofs   theorems

MCBackground         WebSession, MobileSession, Media, Webhooks or NotificationHub,
                     chosen in Init

ArrayFilter          filter of an array, as WebChat and WebLists use it
WebChat, WebInbox, WebPages, WebLists, WebPost, WebPanels    pages of the web client
  ^  the six                     PagesProofs      theorems
MobileChat           the thread of the app and its event stream
MCPages              one of the seven, chosen in Init
```

**PostStore.** `alive` and `rows` are the primary keys of users and posts, `post` the
columns.  `deleted` keeps of `deleted_at` only what the code compares: NULL, under or
over 30 days.  A hard-deleted row leaves a tombstone that no action reads (author and
visibility stay, for properties that speak of the past).  Each of `InsertPost`,
`SoftDelete`, `Undelete`, `SetState`, `SweepState`, `RemoveRows` is one statement with
the trigger `CountTrigger` of migration 0033 inside it, written as the trigger is: the
rows that start and stop to count, added and subtracted, clamped at zero.  Postgres
runs a statement as if at once; effects of one statement's snapshot on another in
`READ COMMITTED` are not modelled.

**Moderation.** A request in flight is a `Frame`: the label of its next statement and
the values it has read.  `Arrive` holds the handlers up to their first `.await` after
the checks, `Step` the later statements, `Single` the handlers with one statement, and
`Cancel` drops a request where it stands.  Abstracted: bodies and the spam score (any
top-level public post may be quarantined), rate limits and the content fingerprint
(they refuse), who follows whom (only private posts are certainly hidden from others),
notifications and the moderation log, the reputation of link domains.  The role `mod`
that one guard names is never given by the code.

**SearchSync.** Each handler of Moderation conjoined with the task it spawns; a task is
the SELECT it begins with, one `sync_post_search` per post, and one HTTP call per step.
Meilisearch is external and modelled as the set of ids it holds.  Documents carry no
state of their own: the code writes the constants `"public"` and `"live"` into them, so
the filter of `search_public` finds every document.

**Accounts.** The same shape, for the part of the system that decides who is served:
`role` is the users row (`"none"` before signup, `"gone"` after deletion), `link`,
`invite`, `session`, `token`, `passkey`, `identity`, `totp` the other tables, `enrolling`,
`ceremony` and `grant` the one-time records in Redis.  Every login (`ConsumeLink`,
`TakeCeremony`, `BeginCallback`) ends in the common tail of `upsert_user`, `has_totp`
and the INSERT of the session, each a step.  `BySession` and `Served` are the extractors
`SessionUser` and `CurrentUser`.  A session keeps the credential it began with (`via`)
and the number of suspensions its account had seen (`era`); these, `cameBy` and `spent`
are history that no guard reads.  Time passes in `ExpireLink` and `ExpireInvite`.
The foreign keys that may refuse `delete_me` are in `Referenced`; `RemoveAccount` of
PostStore is the DELETE that succeeds.  Abstracted: rate limits, the audit of attempts,
usernames, token scopes, cryptography, the mobile exchange code of OAuth, the drift of
IP and user agent.  The provider of a social login is external and takes an
authorization code once.

**The clients.**  What the modules of the clients have in common: the server is reduced
to what the page at hand reads and writes (tables, not SQL statements), every request is
a record in flight that is served in one step and lands in another, requests overtake
each other, and any of them may fail.  Two requests alike in flight at once count as
one.  An operator named `...View`, `...Screen` or `...Controls` is the JSX: the buttons
and fields there are in a state, which guard the actions.  What only formats or displays
is left out.

`WebResource` is external: the library's contract as the pages rely on it.  A newer
request supersedes an older one, a refetch keeps the value on screen, a source that
became null ends the request and keeps the value, reading a failed resource throws.
`Cookies` leaves one question open, whether a request sent with a session that was
replaced since is still admitted (`MayAdmit`, `MustAdmit`).  `ArrayFilter` is the
`filter` of JavaScript's arrays, a recursive function so that it can be proved about.

**WebSession** has the tab (`tab`: page, `me`, stream, timer, badge, form flags), the
browser's cookie and the requests in flight.  `StreamDrops` is what the browser retries
by itself, `StreamCloses` what it does not; `StreamError` is `onerror` (Layout 178-191).
`PageLoad` is a reload: the script starts over, the cookie and the cached user stay.
**LiveFeed** is the abstract feed: off, down or up, for a user and a service that may or
may not take the session.  `WebSession` INSTANCEs it with `user <- tab.me`,
`feed <- FeedOf(tab)`, `service <- Admitted(cookie)`.

**MobileSession** has the process, the storage with its trailing `writes`, the cookie jar
and the refreshes of the badges (`polls`), whose two counts are read apart and land
together.  `Kill` ends the process between any two steps; storage and jar survive.

**WebChat** keeps the page's instance from one name to the next, as the router does: only
the resource and the read receipt follow the name.  The server sends no event for the
message of a sender the reader has muted (`chat.muted`; `is_muted` in `dm.rs`), nor for one
whose request is cut off after its INSERT; `chat.silent` is history: the messages that came
so, until the next event of their conversation.  **WebInbox** is the list of conversations
with its selection, its clearing and the lookup of names.  A bulk clearing is two UPDATEs
without a transaction, one per side of the pair (`FirstSide`, `Effect`), and may end after
either; `untold` is history: the conversations that changed without the page being told.
**WebPages** has one record for nine pages that have the same shape: a main resource,
sometimes a second one and a pinned post, and what a click believes ahead of the server
(`override`).  A block deletes the follow and bars the profile (`Stored`, `Forbidden`,
`Barred`), the queries behind a profile may fail without it (`FlagsLost`), and a request
may fail after it was stored (`FailSending`).  **WebLists** numbers rows in the order in
which they are listed.  Three of the five lists have a cursor that tells every row apart;
the federated feed and the notifications page by a timestamp with `<` (`ByTime`), so a page
begins below all rows of the time of the last one (`PageStarts`, `Tied`).  **WebPost** is
the card of a post as its author, an admin or another reader has it, in a list and on its
own page, with the two composers; texts are numbered in the order they were typed.
**WebPanels** gives every table of the settings and the administration two rows, an old one
and room for a new one.  What the server changes besides what an order asked for, the
reports about a post that was decided on (`Settled`) and a webhook whose deliveries fail
(`HookDisabled`), is kept in `owned.aside`, history, until its table is read again.
**MobileChat** has one closure of `openEventStream` per visit of the thread, each with its
requests, those that have yet to report an error, and its timers.

**Media** has the rows of `media` (a deleted one is told from an unused one), the files of
each clip (uploaded, transcoded, poster) with their age, and four kinds of tasks that
move one statement or file at a time: the requests (`handlers`), the `worker`, the
cleanup (`sweep`) and `main` (`boot`), which has the worker running before it resets the
rows a crash left `processing`.  `queue` is the channel with the job that the receiver
holds while it waits for the permit.  `Crash` may come between any two steps; rows and
files survive.  `refs` is the name by which a post refers to a clip: the uploaded file's,
or the transcoded one's after its author edited what readers are given (`Upgraded`).
`crossed` is history: a file that somebody wrote while another was about to remove it, or
that was found without a row while its writer had yet to insert one (`Writes`, `FindsFree`),
until it is written again.

**Webhooks** reduces a hook to `active` and `streak`; a delivery is the task from its
permit to the UPDATE that records it.  `failedCalls` and `stale` are history: what failed
in a row among the calls begun since the owner switched the hook on.

**NotificationHub** has one weak entry per account, and the channel it leads to lives as
long as `Strong` says.  A channel is written as what each stream has yet to receive;
`Hear` and `Resync` differ in whether that is more than it keeps.  `due` is history.

Definitions whose comment says *mutant* are variants of the definition after them that
a plausible mistake in the code would give; no specification uses them.  For every
property of a passing run `PROJECT.json` names the one that TLC must refute it with.

## 3. Runs

| Run | Instance | Checks |
|---|---|---|
| `mod_serial` | an admin and a member, 2 posts, 1 appeal, public and followers-only, 1 request at a time that may be cut off but for the sweeps, escalation off | `StoreTypeOK`, `CountersExact`, `ThreadsSurvivePurge`, `TrashIsKept`, `ReplyNotBroader`, `ShadowMatchesFlag`, `VerdictNotLaundered` over posting, deletion, restore, bans, decisions, appeals, account deletion and the purge |
| `mod_escalate` | an admin and 2 members, 1 post, 2 concurrent requests, thresholds 2 / 3 / 5 | `ModTypeOK`, `AdminsUntouchable`, `NoMissedQuarantine`, `EscalationEnforced`, and under fairness `ReportedPostComesDown` |
| `shadow_race` | 1 post, 2 concurrent requests, ban and unban only | violates `ShadowMatchesFlag` |
| `search_settled` | 2 posts, no overlap, no lost call, under fairness | `IndexComplete`, `IndexSound`, `SuspendedLeaveSearch` |
| `search_overlap` | 1 post, 2 tasks, overlap, lost calls, cancelled requests | `SearchTypeOK`, `OnlyPublicIndexed` |
| `search_shadow` | as `search_settled` | violates `ShadowNotSearchable` |
| `accounts` | a settled member and 2 newcomers, 2 links, 2 sessions, 1 of everything else, 2 concurrent requests, 4 groups of operations | `AccountsTypeOK`, `OneSessionPerCredential`, `InviteBringsOne`, `SuspensionRevokes`, `GoneLeavesNothing`, `CodesSpentOnce` |
| `account_leaving` | as `accounts`, joining and leaving only | violates `DeletionSucceeds` |
| `pages` | one page of a client per behaviour: 2 peers or names (one that may be muted, one on either side of its pair), 2 messages, 5 rows in pages of 2 with two of one time, 2 typed texts (one too long), 2 rows per table, 2 visits of a thread, 2 to 4 clicks or failures | `IncomingAlwaysShown`, `ReadAndCounted`, `InboxIsCurrent`, `PageShowsItsAddress`, `FollowButtonTruth`, `PagesJoinUp`, `TextNeverEaten`, `PanelsAreCurrent`, `OneStream` |
| `background` | one part per behaviour: a client with 1 account, 2 user actions or faults, 2 refreshes in flight; 2 owners of 1 clip, 2 rows, a channel of 1, 3 uploads, deletions, posts, edits or cleanups, 1 crash or passing of time; 2 hooks, limit 3, 2 permits, 6 events; 2 accounts, 2 streams, 1 sender, channels that keep 1, 3 events; under fairness | `StreamFollowsMe`, `CacheFollowsMe`, `StreamIsLiveFeed` (refinement), `BadgeSettles`, `RowsHaveFiles`, `VideosSettle`, `DisabledForCause`, `HeardOrTold` |
| `second_factor` | the web client of `background` | violates `SecondFactorOffered` |
| `media_edit` | 1 video in 1 post, 4 operations, a month passes | violates `PostedVideoStays` |

*Why these bounds.* A thread, a counter, or an index that loses one of several documents
needs 2 posts; the properties of the posts table are proved for more
(`CountersNeverDrift`, ...).  A repost chain needs 3: `NoRepostChains` is proved, not
run.  The races between counts, updates and escalations concern one post and one author,
so `mod_escalate` spends its size on two requests and three reporters instead.
Thresholds are scaled (2 reports, heat 3 and 5) so that the weights 2, 3 and 5 of the
code cross one tier, the other, or both.  `HeatCap` bounds heat: above the higher
threshold scores are not told apart.  `IdLeft` begins a post only while an id is left; a
handler waits for a free task (`Spawn`); an appeal finds no row when `Appeals` are used
up (`FileAppeal`).  Deadlock is not checked: the service has nothing to do when nobody
asks and ids, appeals and accounts are used up.

In `accounts` a credential is raced by two requests, an invite by two newcomers with a
link each, a code by two challenges; more of each adds only more losers.  `Traffic` lists
the groups of operations an instance may get requests for (joining, second factor,
suspension, alternate logins), chosen once in `Init`, so that the groups' state spaces
add up instead of multiplying; each property has its races inside one group.
`MaxSecret`, `MaxStep` and `MaxEra` bound enrollments, TOTP steps and suspensions: two
enrollments and suspensions, an old and a new one, and three steps, for one to confirm,
one to challenge and one to disable.  An address that left does not come back and
no day passes for `InviteLimit`.

In `pages` and the clients of `background` the bounds count what comes from outside: clicks, messages of
others, failures, kills; what follows from them (answers, events, timers) is not
bounded, but for the refreshes of the app's badges in flight (`MaxPolls`).  Every
property there is about answers and events that cross one or two clicks, and each mutant
is found within these bounds.  Two names, peers or rows tell this one from another one;
5 rows in pages of 2 give a first, a middle and a short last page; 2 visits of a thread
give a stream of an earlier visit.  The pages share nothing but the server, so a
behaviour opens one.  `MaxCalls` lets a screen of the app send a request while another is
in flight.  Two accounts on one device multiply the states of `background` beyond a run;
that one account takes over from another is in the proofs, which hold for any accounts.

The other parts of `background` are independent of each other and of the clients; the
run holds them together so that one table of results covers them.  In Media two owners
of one clip make the files shared, a channel of 1 is full with the second upload, and
one outage is a crash or a passing of time; a row that is deleted while the worker has
it, a job that comes twice and an upload that wakes nobody are all among the behaviours.
In Webhooks a streak of 3 with 2 permits lets calls from before a reactivation be some,
but not all, of a streak.  In the hub two accounts reach the size from which the map is
tidied, and three events overrun a channel that keeps one.

*Properties of restricted instances.* `ShadowMatchesFlag` holds one request at a time
that is not cut off before a sweep (`Cancels`), and fails with two (`shadow_race`).
`NoMissedQuarantine` and `EscalationEnforced` speak of instances without restore,
appeal, unban and unsuspend, and hold when nothing is in flight and no request was cut
off: a dropped request does lose its escalation. `IndexComplete` and `IndexSound` need
tasks that end before the next request begins and calls that succeed: otherwise the code
accepts a stale index until the next reindex. `IndexSound` excludes the two kinds of
documents that the code leaves in: posts under a shadow ban (see the finding) and posts
of deleted accounts.

`CodesSpentOnce` needs `Serial`: with two confirmations of one enrollment in flight the
later one rewinds `last_used_step` and a spent code is accepted again.
It speaks of the enrollment there is: the UPDATE compares a step with `last_used_step` of
the row that is there, so a challenge that verified its step against an enrollment
disabled and replaced since can pass with a step spent before (three TOTP steps are
needed for it, hence `MaxStep = 3`).
`SuspensionRevokes` speaks of sessions from before a suspension whose sweeps have run;
a session inserted after the sweep by a login that was already past its role check
belongs to the new era and is listed as a hazard.

The properties of pages speak of a page whose answers are in, and exclude what the code
gives up; each exclusion is a history that the actions keep, and without it TLC finds the
page that is wrong:

* `IncomingAlwaysShown`, `ReadAndCounted`: messages that came without an event
  (`dm.rs:465`): an open thread does not show them, and the badge does not count them,
  before something else asks again.  The second also excludes a request that failed.
* `InboxIsCurrent`: the same messages, and a clearing cut off after one of its statements,
  after which the page loads nothing (`untold`).
* `FollowButtonTruth`: a click made under another name (`carried`: the override of a tag's
  page does show under the next tag) or, on a tag's page, before its state was known; a
  follow or a block that was stored and answered with a failure, or a profile served
  without its flags (`astray`), after which the button does lie.
* `PagesJoinUp`: the rows that a reload during a load leaves above the first page; rows of
  the time of the row above in the two lists that page by time alone (`Skipped`: such rows
  are on no page); one's own post that was put on top before the first page was read, which
  then has it once more (`early`).
* `TextNeverEaten`: the reply box, which keeps no draft, and a second tab.
* `PanelsAreCurrent`: a change that failed or whose tab was left (`lost`); rows that the
  server changed aside, which stay as they were on screen: after a decision the
  administration asks for the queue of posts again and not for the reports that it closed.

`RowsHaveFiles` lets every writer and remover overlap, and speaks of all files but those
that a removal and a writing met at (`crossed`).  Such a file is lost.  Without the
exclusion TLC finds: a clip is uploaded and its row is an orphan for a month; the same clip
is uploaded again, and before that request writes the file the cleanup deletes the row,
takes up the old file and finds that no row names it; the upload writes the file and inserts
its row; the cleanup removes the file.  The comment at `cleanup.rs:181-182` has the floor of
24 h keep the sweep "from ever racing a fresh upload", but the age is read before the file is
written anew, and there is no lock.  `delete_mine` has the same window.

`VideosSettle` takes the UPDATE of `mark_failed` to succeed; when it fails the row is
`processing` until the next start. `DisabledForCause` allows one failure per permit from
before the owner's reactivation: the code cannot tell them apart.

*Fairness.* `MediaFairness` assumes that the runtime runs the tasks of the pipeline, that
the processes it starts end (they have a deadline), that the interval of the poll fires and
that a server that went down is started again.  Crashes and failures are bounded or
choices of a step that is taken.  `StreamFairness` assumes that the browser connects when the server admits
the session, delivers `onerror` for a closed stream and fires the timer that was set:
three things the code leaves to the browser.  `PollFairness` assumes that the interval
of 20 s fires and that each refresh is answered, or fails, and lands.  The bound on
faults makes them finitely many, so that "comes back" and "settles" mean: after the last
of them. `BadgeSettles` is about a process whose tab bar stays mounted
(`<>[]phone.tabs`). No request of a page is assumed to be answered.  `FairSpec` and
`FairSearchSpec` assume that a request or task in flight that can run its next statement
eventually does: the runtime polls every future, and statements and calls end or fail.
Nothing is assumed about requests arriving, admins deciding or time passing, and the
fair runs have no cancellation, which would cut the steps off.

## 4. Findings

* `shadow_race`: a ban and its lifting in flight together end with the flag cleared and
  the posts hidden; the guards that make both fire once then refuse a retry.
* `search_shadow`: a shadow-banned author's own post, edit or restore is indexed as live
  and found by everyone, against migration 0030's "zero leak surface".
* `account_leaving`: `users.invited_by` and `invites.redeemed_by` have no ON DELETE
  clause, so `delete_me` fails for an inviter and for an invited account alike, against
  the comment above it and `docs/API.md:103`.
* `second_factor`: `CurrentUser` refuses a session that waits for its second factor, so
  the probe through `/users/me` clears `me`, and `/2fa` shows its form for `me()` only.
  An account with a second factor cannot finish a login in the web client, against
  `auth.rs:306-308` and `twofa.rs:7`.  The app goes to its page without a probe.
* `media_edit`: readers, and so the editor, are given a post's text with the transcoded
  file's name in it.  Saving an edit stores that name, the cleanup looks for the uploaded
  file's, and after 30 days it removes the video of a post that still shows it, against
  the comment at `cleanup.rs:95-97`.

## 5. Proofs

`PostStoreProofs` proves `StoreTypeCorrect`, `CountersNeverDrift`,
`ThreadsAlwaysSurvivePurge` and `TrashAlwaysKept`.  `CountersExact` alone is not
inductive: the trigger adds and subtracts cardinalities, so the invariant `StoreInv`
adds that the table is finite and typed and that authors and parents of rows exist
(`Shape`), and counts also for ids without a row (`Counts`).  `TriggerExact` shows the
trigger exact for every statement that moves no row to another author and no reply to
another parent (`KeepsColumns`), and each statement is of that kind.

`ModerationProofs` first shows that every step of the handlers is a statement of
PostStore (`ModerationImplementsStore`), with the types and labels of frames as the
inductive invariant (`Typed`); the store's theorems carry over
(`HandlersKeepCounters`).  `RepliesNeverBroader` and `RepostsNeverChain` are about
rows inserted several statements after they were checked.  Their invariant
`Linked` says of each frame that what it read still holds (`FrameCurrent`), which rests
on `KeepsIssued`: an issued post never changes its visibility, and a reference is kept
or nulled.  `AdminsStayUntouched` and `VerdictsNeverLaundered` go through the actions
one by one.  They hold for any number of requests, any thresholds, with cancellation.

Three more speak of a state in which no request is under way, so their invariants say
which request still has the work to do.  `EscalationAlwaysEnforced`: whoever's heat has
reached a threshold is suspended (shadow-banned), or a frame stands at the statement that
does it with that account in hand (`Escalating`).  `QuarantineNeverMissed`: a live post
with open reports at the threshold (`Overdue`) has a frame that will count it, will
quarantine it, or will settle its reports (`Due`); the count is read after the report is
inserted, so of two reports in flight the later one sees both.  `ShadowAlwaysMatchesFlag`:
a hidden post's author is flagged, or the frame that lifted the flag still stands before
the UPDATE that shows the posts again.  Their hypotheses are those of the runs
`mod_escalate` and `mod_serial`, and each is a way the code does fail otherwise: a
request dropped before the statement that remains leaves the work undone (the handlers
hold no transaction), an admin's own change of role or an appeal lifts what heat imposed,
an unshadow that overlaps a decision shows a post again, and two overlapping requests
leave hidden posts of an account no longer flagged, which the run `shadow_race` finds.

`SearchProofs` shows that tasks leave the handlers unchanged
(`SearchImplementsModeration`), so every theorem above holds with the index, and
`SearchNeverLeaks`: every document in the index, or built and not yet sent, is of a
public post.  `SettledIndexComplete` and `SettledIndexSound` assume `OneAtATime`: a
request begins when the tasks of the one before it are done, none is cut off, no call is
lost, as in the run `search_settled`, and nothing is reposted; heat and appeals, which
the run leaves out, are in.  Reposts are excluded because the code never indexes them,
while the purge of an original nulls `repost_of` and makes a repost look like one that it
should have.  The invariant `SerialInv` says that wherever index and table disagree a
task, or the statement a request has yet to run, is about to mend it (`Followed`); that one request is in flight (`Alone`), which meets no task before it has
spawned its own, and with its later statements (offense, suspension, revocation, flag
and sweep) only tasks that take out posts a verdict took down (`Paced`); and that a task
past its SELECT holds nothing to put in or to take out that should not be (`JobOK`).
TLC was asked for it on the run's instance before it was proved.

`AccountsProofs` rests on `Typed`: types of tables and frames, an account behind every
link sent and session opened, and what a frame holds at the statements that use it; and
on one lemma per table saying which actions write to it (`SessionWriters`, ...), so that
an argument about a table looks at those few.  `DeletedAccountsLeaveNothing` needs no
strengthening: every INSERT looks at the users row in the same statement (the foreign
keys).  `CredentialsOpenOneSession` sorts the steps into those that leave logins and
sessions alone, the ones that consume a credential and begin a login with it (`Opens`),
and the one that turns a login into a session (`Concludes`); the invariant adds
`ConsumedFirst`, that behind every login and session is a credential already consumed,
which stays so (`ConsumedStays`).  `InvitesBringOneAccount` adds `CameInv`: the invite
somebody came with is closed, an address that has not signed up came with none, and a
signup carries a code where they are required.  `SuspensionAlwaysRevokes` adds
`SweepInv`: whatever is alive from before a suspension has its sweep still to come.  It
assumes `SweepsFinish`, that the two sweeps are not cut off, as the runs do: a
suspension whose request is dropped after the role is written leaves the sessions, which
`SessionUser` then refuses only until the account is readmitted.
`CodesAlwaysSpentOnce` adds `FactorRead`, what a challenge or confirmation read while it
is in flight (its secret is nobody else's, a row to be confirmed is still unconfirmed),
and `SpentInv`: a step spent with the current secret is at most `last_used_step`, a spent
recovery code is gone from the row, an unconfirmed secret is unspent.  It assumes
`ConfirmSerial`, one confirmation in flight at a time; without it the second half of
`FactorRead` fails, as section 3 says.

`ClientProofs` proves, of the browser's session, `StreamAlwaysFollowsMe` and `SessionImplementsFeed`.  The
invariant adds the types of the tab's four fields that the stream depends on and of the
answers in flight: an answer may bring any account or nobody, and `SetCachedMe` connects
or disconnects with it.  The refinement sorts the steps of the tab by what they do to
`me`, to the stream and to the session's admission (`FeedMay`): a page load, a sign-in
or a sign-out starts the feed over, another answer for someone signed in takes it over,
everything else stands still or is a drop, an opening or a change of the service.
`FeedReturns`, the liveness half of the abstract feed, is model-checked.

Of the app's session it proves `CacheAlwaysFollowsMe`: the last write on its way, or the
storage when there is none, is `current`.  It adds that a process that has not read the
storage yet has neither a write nor a request on its way, since an answer of a killed
process would write over the stored user before it is read.

Of the app's thread it proves `AlwaysOneStream`.  The invariant (`ClosureOK`, `StreamsInv`)
says of each closure that only its own request is alive, that a pending timer is its one
retry and nothing is alive meanwhile, that an error still to be reported finds the retry
spent, that a closed one has nothing alive, and that every closure but the last is closed.

`DeliveryProofs` proves `HooksOffForCause` and `NothingUnheard`.  For the first the
invariant relates the code's count to the history: a row's streak is at most the failures
of calls begun since the last reactivation, plus the permits, less the stale calls still
under way, each of which may add one.  So the step that reaches the limit has its cause.
For the second, an open stream's account has an entry that leads to the stream's channel
(an entry is replaced or tidied away only when nobody holds its channel, and the stream
does), so an event looked up for the account is in the hands of a sender with that
channel, or in what the stream has yet to receive.  `HubAlwaysTyped` is the typing both
parts of that argument use.

`MediaProofs` proves `RowsAlwaysHaveFiles`, with uploads, deletions, the worker and the sweep
overlapping in any way.  The invariant `MediaInv` looks at one file at a time (`FileHolds`):
if it is not crossed, and a row names it or somebody has written it and is about to name it
(`Wanted`), then it is on disk and nobody is about to remove it.  `WorkHolds` says that the
row the worker has claimed is still of its clip, if it is there, which makes the names it
writes in the end those of the files it made.

`PagesProofs` is about the six modules of the web client's pages.  Each argument says
what the page holds or has still to come; the library's contract is a dozen lemmas about
`Fetch`, `Answer`, `Land` and `Mutate` that all of them share.

* `InboxAlwaysCurrent`: for each conversation that is not `untold`, the list, or the answer
  on its way, is the server's, or a reload is due (`InboxInv`): every other change of the
  server leaves a ping, or a clearing whose answer asks again.
* `PagesAlwaysJoinUp`: the rows below those a live post left on top join up down to the
  cursor, each next one the highest that is not of the upper one's time, and the page on its
  way continues them (`Joins`, `ListInv`); one's own posts stay above (`TopInv`).  Of the
  videos, no clip is missing between the first row and the cursor (`VideosInv`); what
  `filter` keeps is proved there by taking the least counterexample, since induction over
  the sequence is not available.
* `PagesShowTheirAddress`: every value and answer names whose it is, and the request that
  counts follows the name (`ViewSound`), so that an answer for an earlier name cannot land.
* `FollowButtonsTrue`: at most one follow is under way, it is of the name shown, and once
  served it carries the state the server is in (`FlyingTrue`); when none is, the override,
  or the data where there is no override, is what the server has (`ButtonTrue`).
* `TextsNeverEaten`: the text of an open composer is the saved draft (`DraftKept`), and
  the one text on its way to the server is still in the composer, which waits for it
  (`OnItsWay`), so that a failure, a reload or a move finds it somewhere.
* `PanelsAlwaysCurrent`: each row that was not changed aside is the server's, or its table
  is asked for, or an order is out whose answer will reload it (`PanelInv`, `TableCurrent`);
  one lemma says what an order may change (`OutcomeIs`).
* `ConversationsShowWhatCame`: messages of a box are numbered once and each is of one
  end (`BoxesOK`); the conversation on screen, or the answer on its way, is the one of the
  address and holds every message of the other end's but the silent ones and those that an
  event is still to announce (`Due`), or has been asked for since (`DataOK`).  The page's own
  writing (reactions, deletions, messages sent) takes only the reader's messages away.
* `AlwaysReadAndCounted`: what is unread in the open conversation is silent, or has an event
  or a receipt to come, and a badge that does not count what is unread but silent messages
  has a recount to come, or an answer that was counted after the last change (`ReadInv`).

Assumptions: `None` is no id, `NoOne` no account, posts are created with visibilities of
the schema, `Admins` are accounts, the thresholds are naturals; TLC evaluates them in
every run.

*Only model-checked:* the liveness properties (`ReportedPostComesDown`,
`SuspendedLeaveSearch`, `BadgeSettles`, `VideosSettle`, and `FeedReturns` in
`StreamIsLiveFeed`): liveness under fairness is out of the prover's reach.  Every
invariant and action property of a passing run has a theorem.  The five findings are
counterexamples of TLC.

## 6. Plan

Done: PostStore, Moderation, SearchSync, Accounts, the sessions and pages of the clients,
Media, Webhooks and NotificationHub, their runs and proofs.  Next, in this order:

1. **Social** and **Federation**: follow counters and blocks, message previews written
   apart from the message (`dm.rs:451`); inbox deduplication, follow and undo out of order.
2. In Moderation: the report counted before an approval (`admin.rs:472-473`), the double
   repost, the fingerprint that outlives a failed post (`posts.rs:452`), an appeal granted
   against a newer suspension.
3. The single-flight lock of `cache.rs:62`, deleted by a winner that no longer holds it.
4. The hub composed with WebSession, whose `resync` event no page listens for (Layout
   167-173); the sending of push notifications.
5. Proofs of what each new module's runs check, and, of the modules there are, of the
   types that no run states by a property of its own.

## 7. Not modelled

* Rendering, formatting and read-only queries of the server; translations, documentation
  pages and presentational components of the clients: they keep no state.
* Federation, caching, follows and blocks, the sending of push notifications, images and
  the cache of link covers (the plan above).
* A reply in the trash whose parent is purged and which is then restored becomes a root
  post.  PostStore has these steps; no property excludes them, since the comment at
  `cleanup.rs:132-135` protects live replies only.
* In the clients: toasts, sounds, desktop and push notifications of the web client
  (Settings 566-680), the doubling of the reconnection delay, the data export, scrolling;
  two tabs at once, which share the cached user, the cookie and the draft; the feeds,
  search and administration of the app, which repeat the web client's in another
  framework; lookups of a name or a mute that fail in `dm.rs` (`unwrap_or_default`), blocks by
  the other side, and rows that arrive with an older time than the cursor's.
