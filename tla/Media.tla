------------------------------- MODULE Media --------------------------------
(***************************************************************************)
(* Uploaded videos: the rows of `media`, the files beside them and the     *)
(* worker that transcodes them (media.rs, transcode.rs, cleanup.rs).  The  *)
(* table is the truth, the queue only wakes the worker, and a restart      *)
(* rebuilds it.  Files are named after their content, so owners who upload *)
(* the same clip share them, and each is removed when no row names it any  *)
(* more.  Rows and files change in different steps of different tasks.     *)
(*                                                                         *)
(* Abstracted away: sizes, quotas and formats, which only refuse; the .tmp *)
(* names that a file has until it is renamed; images, which have no worker.*)
(* mark_failed's own UPDATE is taken to succeed: when it does not, the row *)
(* stays `processing` until the next start.                                *)
(***************************************************************************)
EXTENDS Integers, Sequences, FiniteSets, SequencesExt

CONSTANTS
    Owners,         \* accounts that upload
    Clips,          \* contents of the files uploaded
    Callers,        \* requests in flight at once
    MaxRows,        \* bound: rows ever inserted
    MaxUses,        \* bound: uploads, deletions, posts, edits and cleanups, together
    MaxOutages,     \* bound: restarts and passings of time, together
    MediaQueueCap,  \* QUEUE_CAP of transcode.rs, and one for the job that waits
    MediaSurface    \* the operations the instance exercises

ASSUME MediaAssumption ==
    /\ MaxRows \in Nat /\ MaxUses \in Nat /\ MaxOutages \in Nat
    /\ MediaQueueCap \in Nat \ {0}
    /\ MediaSurface \subseteq {"delete", "post", "edit", "detach", "cleanup"}

VARIABLES
    media,          \* the rows
    files,          \* the age of each file of media_dir
    queue,          \* the channel of wake-ups and the job that waits for the permit
    worker,         \* the one task the permit allows
    boot,           \* how far main is
    handlers,       \* uploads and deletions in flight
    sweep,          \* the cleanup pass
    refs,           \* the name under which a post refers to a clip
    crossed,        \* history: files that a removal and a writing met at, until written anew
    uses, outages

mediaVars == <<media, files, queue, worker, boot, handlers, sweep, refs, crossed, uses, outages>>

Ids   == 1..MaxRows
Parts == {"raw", "out", "poster"}
Files == Clips \X Parts

Use    == uses < MaxUses /\ uses' = uses + 1
Outage == outages < MaxOutages /\ outages' = outages + 1

There(id)     == media[id].state \notin {"unused", "deleted"}
Unsettled(id) == media[id].state \in {"pending", "processing"}
OnDisk(c, part) == files[<<c, part>>] # "none"

Unused == [owner |-> CHOOSE o \in Owners : TRUE, clip |-> CHOOSE c \in Clips : TRUE,
           state |-> "unused", out |-> FALSE, poster |-> FALSE, old |-> FALSE]
Gone     == [Unused EXCEPT !.state = "deleted"]
NoCall   == [at |-> "idle", id |-> 0, owner |-> Unused.owner, clip |-> Unused.clip,
             left |-> <<>>]
NoWork   == [at |-> "idle", id |-> 0, clip |-> Unused.clip, poster |-> FALSE]
NoSweep  == [at |-> "idle", file |-> <<Unused.clip, "raw">>, todo |-> {}]

MediaInit ==
    /\ media = [id \in Ids |-> Unused]
    /\ files = [f \in Files |-> "none"]
    /\ queue = <<>> /\ worker = NoWork /\ boot = "up"
    /\ handlers = [k \in Callers |-> NoCall] /\ sweep = NoSweep
    /\ refs = [c \in Clips |-> "none"] /\ crossed = {} /\ uses = 0 /\ outages = 0

(* The row that names the file, if there is one. *)
Named(row, f) ==
    /\ row.clip = f[1]
    /\ f[2] = "raw" \/ (f[2] = "out" /\ row.out) \/ (f[2] = "poster" /\ row.poster)

(* mutant: only the column of the original is looked at *)
StillReferencedRaw(f) == \E id \in Ids : There(id) /\ media[id].clip = f[1] /\ f[2] = "raw"

StillReferenced(f) == \E id \in Ids : There(id) /\ Named(media[id], f)

(* What somebody has written and is about to name in a row, and what is about to be removed. *)
Held(f) ==
    \/ \E k \in Callers : handlers[k].at = "insert" /\ f = <<handlers[k].clip, "raw">>
    \/ worker.at \in {"poster", "finish"} /\ f = <<worker.clip, "out">>
    \/ worker.at = "finish" /\ worker.poster /\ f = <<worker.clip, "poster">>

Unlinking(f) ==
    \/ \E k \in Callers : handlers[k].at = "unlink"
                          /\ f = <<handlers[k].clip, Head(handlers[k].left)>>
    \/ sweep.at = "unlink" /\ f = sweep.file

(* History: a file is written that others are about to remove, or found without a row while
   its writer has yet to insert it.  No step depends on it. *)
Writes(f)    == crossed' = IF Unlinking(f) THEN crossed \cup {f} ELSE crossed \ {f}
FindsFree(f) == crossed' = IF Held(f) THEN crossed \cup {f} ELSE crossed

-----------------------------------------------------------------------------
(* media.rs: uploading. *)

BeginUpload(k, o, c) ==
    /\ Use /\ boot = "up" /\ handlers[k].at = "idle"
    /\ handlers' = [handlers EXCEPT ![k] = [NoCall EXCEPT !.at = "write", !.owner = o, !.clip = c]]
    /\ UNCHANGED <<media, files, queue, worker, boot, sweep, refs, outages, crossed>>

WriteFile(k) ==
    /\ handlers[k].at = "write"
    /\ files' = [files EXCEPT ![<<handlers[k].clip, "raw">>] = "fresh"]
    /\ Writes(<<handlers[k].clip, "raw">>)
    /\ handlers' = [handlers EXCEPT ![k].at = "insert"]
    /\ UNCHANGED <<media, queue, worker, boot, sweep, refs, uses, outages>>

(* try_send: a full channel refuses, and the row is left to a later poll. *)
TrySend(q, id) == IF Len(q) < MediaQueueCap THEN Append(q, id) ELSE q

(* INSERT ... ON CONFLICT (owner_id, sha256) keeps the row there is, its age included.
   A request dropped at this await has inserted its row and wakes nobody. *)
InsertRow(k) ==
    LET f    == handlers[k]
        mine == {id \in Ids : There(id) /\ media[id].owner = f.owner /\ media[id].clip = f.clip}
        new  == {id \in Ids : media[id].state = "unused"
                              /\ \A j \in Ids : media[j].state = "unused" => id <= j}
    IN
    /\ f.at = "insert"
    /\ \E id \in IF mine # {} THEN mine ELSE new : \E dropped \in BOOLEAN :
          /\ media' = IF mine # {} THEN media
                      ELSE [media EXCEPT ![id] = [Unused EXCEPT !.owner = f.owner, !.clip = f.clip,
                                                                !.state = "pending"]]
          /\ queue' = IF media'[id].state = "pending" /\ ~dropped THEN TrySend(queue, id)
                      ELSE queue
    /\ handlers' = [handlers EXCEPT ![k] = NoCall]
    /\ UNCHANGED <<files, worker, boot, sweep, refs, uses, outages, crossed>>

(* A client that hangs up, or a statement that fails; the deadline of other requests spares
   these (timeout.rs). *)
CutOff(k) ==
    /\ handlers[k].at # "idle"
    /\ handlers' = [handlers EXCEPT ![k] = NoCall]
    /\ UNCHANGED <<media, files, queue, worker, boot, sweep, refs, uses, outages, crossed>>

-----------------------------------------------------------------------------
(* media.rs: delete_mine, which reads the names, deletes the row and then looks at each. *)

BeginDelete(k, id) ==
    LET row == media[id] IN
    /\ "delete" \in MediaSurface /\ Use /\ boot = "up" /\ handlers[k].at = "idle"
    /\ There(id)
    /\ handlers' = [handlers EXCEPT ![k] =
                   [at |-> "delete", id |-> id, owner |-> row.owner, clip |-> row.clip,
                    left |-> <<"raw">> \o (IF row.out THEN <<"out">> ELSE <<>>)
                                       \o (IF row.poster THEN <<"poster">> ELSE <<>>)]]
    /\ UNCHANGED <<media, files, queue, worker, boot, sweep, refs, outages, crossed>>

DeleteRow(k) ==
    /\ handlers[k].at = "delete"
    /\ media' = [media EXCEPT ![handlers[k].id] = Gone]
    /\ handlers' = [handlers EXCEPT ![k].at = "check"]
    /\ UNCHANGED <<files, queue, worker, boot, sweep, refs, uses, outages, crossed>>

NextName(f) == IF Len(f.left) = 1 THEN NoCall ELSE [f EXCEPT !.at = "check", !.left = Tail(@)]

(* The file is kept if a row names it, and if the query fails. *)
CheckName(k) ==
    LET f == handlers[k] IN
    /\ f.at = "check"
    /\ \/ handlers' = [handlers EXCEPT ![k] = NextName(f)] /\ UNCHANGED crossed
       \/ /\ ~StillReferenced(<<f.clip, Head(f.left)>>)
          /\ FindsFree(<<f.clip, Head(f.left)>>)
          /\ handlers' = [handlers EXCEPT ![k].at = "unlink"]
    /\ UNCHANGED <<media, files, queue, worker, boot, sweep, refs, uses, outages>>

Unlink(k) ==
    LET f == handlers[k] IN
    /\ f.at = "unlink"
    /\ files' = [files EXCEPT ![<<f.clip, Head(f.left)>>] = "none"]
    /\ handlers' = [handlers EXCEPT ![k] = NextName(f)]
    /\ UNCHANGED <<media, queue, worker, boot, sweep, refs, uses, outages, crossed>>

-----------------------------------------------------------------------------
(* transcode.rs: the queue and the worker. *)

PendingIds == SetToSortSeq({id \in Ids : media[id].state = "pending"}, <)

(* mutant: a row that found the channel full is not looked for again *)
EnqueuePendingNever(q, ids) == q

(* As many as the channel takes, oldest first.  The rows are selected before they are sent;
   one that is claimed in between is a job that finds nothing to claim, like a repeated one. *)
EnqueuePending(q, ids) ==
    q \o SubSeq(ids, 1, IF Len(ids) < MediaQueueCap - Len(q) THEN Len(ids)
                        ELSE MediaQueueCap - Len(q))

PollPending ==
    /\ boot # "down"
    /\ queue' = EnqueuePending(queue, PendingIds)
    /\ UNCHANGED <<media, files, worker, boot, handlers, sweep, refs, uses, outages, crossed>>

SpawnJob ==
    /\ queue # <<>> /\ worker.at = "idle"
    /\ worker' = [NoWork EXCEPT !.at = "claim", !.id = Head(queue)]
    /\ queue' = Tail(queue)
    /\ UNCHANGED <<media, files, boot, handlers, sweep, refs, uses, outages, crossed>>

Claimable(id) == media[id].state = "pending"

(* The conditional UPDATE; on an error the job is marked failed although it claimed nothing. *)
Claim ==
    /\ worker.at = "claim"
    /\ \/ /\ Claimable(worker.id)
          /\ media' = [media EXCEPT ![worker.id].state = "processing"]
          /\ worker' = [worker EXCEPT !.at = "source", !.clip = media[worker.id].clip]
       \/ ~Claimable(worker.id) /\ worker' = NoWork /\ UNCHANGED media
       \/ worker' = [worker EXCEPT !.at = "fail"] /\ UNCHANGED media
    /\ UNCHANGED <<files, queue, boot, handlers, sweep, refs, uses, outages, crossed>>

FindSource ==
    /\ worker.at = "source"
    /\ worker' = [worker EXCEPT !.at = IF OnDisk(worker.clip, "raw") THEN "transcode" ELSE "fail"]
    /\ UNCHANGED <<media, files, queue, boot, handlers, sweep, refs, uses, outages, crossed>>

(* Probe and transcode, either of which may fail or time out; the output is renamed. *)
Transcode ==
    /\ worker.at = "transcode"
    /\ \/ /\ files' = [files EXCEPT ![<<worker.clip, "out">>] = "fresh"]
          /\ Writes(<<worker.clip, "out">>)
          /\ worker' = [worker EXCEPT !.at = "poster"]
       \/ worker' = [worker EXCEPT !.at = "fail"] /\ UNCHANGED <<files, crossed>>
    /\ UNCHANGED <<media, queue, boot, handlers, sweep, refs, uses, outages>>

(* The poster is made from the output, best effort. *)
Poster ==
    /\ worker.at = "poster"
    /\ \/ /\ OnDisk(worker.clip, "out")
          /\ files' = [files EXCEPT ![<<worker.clip, "poster">>] = "fresh"]
          /\ Writes(<<worker.clip, "poster">>)
          /\ worker' = [worker EXCEPT !.at = "finish", !.poster = TRUE]
       \/ worker' = [worker EXCEPT !.at = "finish"] /\ UNCHANGED <<files, crossed>>
    /\ UNCHANGED <<media, queue, boot, handlers, sweep, refs, uses, outages>>

(* UPDATE ... WHERE id, whatever the state; a deleted row is not there to be updated. *)
Finish ==
    /\ worker.at = "finish"
    /\ \/ /\ media' = IF There(worker.id)
                      THEN [media EXCEPT ![worker.id] = [@ EXCEPT !.state = "ready", !.out = TRUE,
                                                                  !.poster = worker.poster]]
                      ELSE media
          /\ worker' = NoWork
       \/ worker' = [worker EXCEPT !.at = "fail"] /\ UNCHANGED media
    /\ UNCHANGED <<files, queue, boot, handlers, sweep, refs, uses, outages, crossed>>

MarkFailed ==
    /\ worker.at = "fail"
    /\ media' = IF There(worker.id) THEN [media EXCEPT ![worker.id].state = "failed"] ELSE media
    /\ worker' = NoWork
    /\ UNCHANGED <<files, queue, boot, handlers, sweep, refs, uses, outages, crossed>>

WorkerStep == Claim \/ FindSource \/ Transcode \/ Poster \/ Finish \/ MarkFailed

-----------------------------------------------------------------------------
(* main.rs: the server stops and starts.  The worker and the poll run before the rows that
   a crash left `processing` are reset, and requests are served after. *)

Crash ==
    /\ Outage /\ boot # "down"
    /\ boot' = "down" /\ queue' = <<>> /\ worker' = NoWork
    /\ handlers' = [k \in Callers |-> NoCall] /\ sweep' = NoSweep
    /\ UNCHANGED <<media, files, refs, uses, crossed>>

Start ==
    /\ boot = "down" /\ boot' = "reset"
    /\ UNCHANGED <<media, files, queue, worker, handlers, sweep, refs, uses, outages, crossed>>

ResetProcessing ==
    /\ boot = "reset" /\ boot' = "enqueue"
    /\ media' = [id \in Ids |-> IF media[id].state = "processing"
                                THEN [media[id] EXCEPT !.state = "pending"] ELSE media[id]]
    /\ UNCHANGED <<files, queue, worker, handlers, sweep, refs, uses, outages, crossed>>

RequeuePending ==
    /\ boot = "enqueue" /\ boot' = "up"
    /\ queue' = EnqueuePending(queue, PendingIds)
    /\ UNCHANGED <<media, files, worker, handlers, sweep, refs, uses, outages, crossed>>

-----------------------------------------------------------------------------
(* cleanup.rs: rows that nothing refers to, then files that no row names. *)

BeginCleanup ==
    /\ "cleanup" \in MediaSurface /\ Use /\ boot # "down" /\ sweep.at = "idle"
    /\ sweep' = [NoSweep EXCEPT !.at = "rows"]
    /\ UNCHANGED <<media, files, queue, worker, boot, handlers, refs, outages, crossed>>

(* The bodies of posts are searched for the name of the original. *)
OrphanRow(row) == row.old /\ refs[row.clip] # "raw"

DeleteOrphanRows ==
    /\ sweep.at = "rows"
    /\ media' = [id \in Ids |-> IF There(id) /\ OrphanRow(media[id]) THEN Gone ELSE media[id]]
    /\ sweep' = [sweep EXCEPT !.at = "files", !.todo = Files]
    /\ UNCHANGED <<files, queue, worker, boot, handlers, refs, uses, outages, crossed>>

(* The directory is walked in any order; files younger than a day are passed over. *)
PickFile(f) ==
    /\ sweep.at = "files" /\ f \in sweep.todo /\ files[f] = "old"
    /\ sweep' = [at |-> "check", file |-> f, todo |-> sweep.todo \ {f}]
    /\ UNCHANGED <<media, files, queue, worker, boot, handlers, refs, uses, outages, crossed>>

CheckFile ==
    /\ sweep.at = "check"
    /\ \/ sweep' = [sweep EXCEPT !.at = "files"] /\ UNCHANGED crossed
       \/ /\ ~StillReferenced(sweep.file) /\ FindsFree(sweep.file)
          /\ sweep' = [sweep EXCEPT !.at = "unlink"]
    /\ UNCHANGED <<media, files, queue, worker, boot, handlers, refs, uses, outages>>

RemoveFile ==
    /\ sweep.at = "unlink"
    /\ files' = [files EXCEPT ![sweep.file] = "none"]
    /\ sweep' = [sweep EXCEPT !.at = "files"]
    /\ UNCHANGED <<media, queue, worker, boot, handlers, refs, uses, outages, crossed>>

EndCleanup ==
    /\ sweep.at = "files" /\ \A f \in sweep.todo : files[f] # "old"
    /\ sweep' = NoSweep
    /\ UNCHANGED <<media, files, queue, worker, boot, handlers, refs, uses, outages, crossed>>

(* A day, or a month; nothing that is under way lasts that long. *)
TimePasses ==
    /\ Outage /\ worker.at = "idle" /\ sweep.at = "idle"
    /\ \A k \in Callers : handlers[k].at = "idle"
    /\ files' = [f \in Files |-> IF files[f] = "none" THEN "none" ELSE "old"]
    /\ \E month \in BOOLEAN :
          media' = [id \in Ids |-> [media[id] EXCEPT !.old = @ \/ (month /\ There(id))]]
    /\ UNCHANGED <<queue, worker, boot, handlers, sweep, refs, uses, crossed>>

-----------------------------------------------------------------------------
(* posts.rs: a post refers to the clip by a name in its text. *)

PostClip(id) ==
    /\ "post" \in MediaSurface /\ Use /\ boot = "up"
    /\ There(id) /\ refs[media[id].clip] = "none"
    /\ refs' = [refs EXCEPT ![media[id].clip] = "raw"]
    /\ UNCHANGED <<media, files, queue, worker, boot, handlers, sweep, outages, crossed>>

(* What a reader is given: the name of the transcoded file once there is one. *)
Upgraded(c, name) ==
    IF name = "raw" /\ \E id \in Ids : media[id].clip = c /\ media[id].state = "ready"
                                       /\ media[id].out
    THEN "out" ELSE name

(* The author edits the text as it was given, and saves it. *)
EditPost(c) ==
    /\ "edit" \in MediaSurface /\ Use /\ boot = "up" /\ refs[c] # "none"
    /\ refs' = [refs EXCEPT ![c] = Upgraded(c, @)]
    /\ UNCHANGED <<media, files, queue, worker, boot, handlers, sweep, outages, crossed>>

(* The post is purged, or edited to do without the clip. *)
Detach(c) ==
    /\ "detach" \in MediaSurface /\ Use /\ boot = "up" /\ refs[c] # "none"
    /\ refs' = [refs EXCEPT ![c] = "none"]
    /\ UNCHANGED <<media, files, queue, worker, boot, handlers, sweep, outages, crossed>>

-----------------------------------------------------------------------------

CallStep(k) == \/ WriteFile(k) \/ InsertRow(k)
               \/ DeleteRow(k) \/ CheckName(k) \/ Unlink(k)
SweepStep   == DeleteOrphanRows \/ CheckFile \/ RemoveFile
BootStep    == Start \/ ResetProcessing \/ RequeuePending

MediaNext ==
    \/ \E k \in Callers : \/ \E o \in Owners, c \in Clips : BeginUpload(k, o, c)
                          \/ \E id \in Ids : BeginDelete(k, id)
                          \/ CallStep(k) \/ CutOff(k)
    \/ PollPending \/ SpawnJob \/ WorkerStep
    \/ Crash \/ BootStep \/ TimePasses
    \/ BeginCleanup \/ SweepStep \/ EndCleanup \/ \E f \in Files : PickFile(f)
    \/ \E id \in Ids : PostClip(id)
    \/ \E c \in Clips : EditPost(c) \/ Detach(c)

(* The runtime runs every task; the processes it starts have a deadline; a server that went
   down is started again. *)
MediaFairness ==
    /\ \A k \in Callers : WF_mediaVars(CallStep(k))
    /\ WF_mediaVars(PollPending) /\ WF_mediaVars(SpawnJob)
    /\ WF_mediaVars(WorkerStep) /\ WF_mediaVars(SweepStep) /\ WF_mediaVars(BootStep)

MediaSpec == MediaInit /\ [][MediaNext]_mediaVars /\ MediaFairness

-----------------------------------------------------------------------------
(* Properties. *)

MediaTypeOK ==
    /\ \A id \in Ids : media[id].state \in
          {"unused", "deleted", "pending", "processing", "ready", "failed"}
    /\ files \in [Files -> {"none", "fresh", "old"}]
    /\ queue \in Seq(Ids) /\ Len(queue) <= MediaQueueCap

(* Files shared by owners, deleted by one of them, swept and transcoded anew while others upload
   them: a file that a row names is gone only when somebody found it without a row, and is
   about to remove it or has done so, while it was written and yet to be named (media.rs:
   434-450; cleanup.rs:181 says that the sweep never races an upload, and here it does). *)
RowsHaveFiles ==
    \A id \in Ids, f \in Files :
        There(id) /\ Named(media[id], f) /\ f \notin crossed => files[f] # "none"

(* transcode.rs:82: a full channel, a dropped upload, a crash of the server in the middle of a
   run and a job that comes twice leave no video in between for ever. *)
VideosSettle == \A id \in Ids : Unsettled(id) ~> ~Unsettled(id)

(* cleanup.rs:95: the sweep spares a row "whose file no surviving post body, avatar, or DM
   still references" not; so where nobody deletes a video, a post's video stays. *)
PostedVideoStays ==
    \A c \in Clips : refs[c] # "none" => OnDisk(c, Upgraded(c, refs[c]))
=============================================================================
