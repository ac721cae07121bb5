---------------------------- MODULE MediaProofs -----------------------------
(***************************************************************************)
(* Files shared by the rows of `media` are there for every row that names  *)
(* them, for any owners, clips, requests in flight and bounds, but for     *)
(* those that a writing and a removal met at.                              *)
(*                                                                         *)
(* The invariant speaks of one file at a time: a file that a row names, or *)
(* that somebody has written and is about to name, is on disk and nobody   *)
(* is about to remove it, unless it is crossed.  The worker's claim of its *)
(* row is what makes the name it writes in the end the one it holds; a     *)
(* sweep may delete that row meanwhile.                                    *)
(***************************************************************************)
EXTENDS Media, TLAPS

(* The values the variables hold; ids in the queue and files to sweep are of no matter. *)
MediaRow == [owner : Owners \cup {Unused.owner}, clip : Clips \cup {Unused.clip},
             state : {"unused", "deleted", "pending", "processing", "ready", "failed"},
             out : BOOLEAN, poster : BOOLEAN, old : BOOLEAN]

IsCall(h)  == h \in [at : {"idle", "write", "insert", "delete", "check", "unlink"},
                     id : Ids \cup {0}, owner : Owners \cup {Unused.owner},
                     clip : Clips \cup {Unused.clip}, left : {h.left}]
IsWork(w)  == /\ w \in [at : {"idle", "claim", "source", "transcode", "poster", "finish", "fail"},
                        id : {w.id}, clip : {w.clip}, poster : BOOLEAN]
              /\ w.poster => w.at \in {"finish", "fail"}
IsSweep(s) == s \in [at : {"idle", "rows", "files", "check", "unlink"}, file : {s.file},
                     todo : {s.todo}]

MediaShape ==
    /\ media \in [Ids -> MediaRow]
    /\ files \in [Files -> {"none", "fresh", "old"}]
    /\ handlers = [k \in Callers |-> handlers[k]]
    /\ \A k \in Callers : IsCall(handlers[k])
    /\ IsWork(worker) /\ IsSweep(sweep)

(* A file is wanted from the moment it is written for a row. *)
Wanted(f) == Held(f) \/ StillReferenced(f)

FileHolds(f) == f \notin crossed /\ Wanted(f) => files[f] # "none" /\ ~Unlinking(f)

WorkHolds ==
    worker.at \in {"source", "transcode", "poster", "finish"} /\ worker.id \in Ids =>
        /\ media[worker.id].state # "unused"
        /\ There(worker.id) => media[worker.id].clip = worker.clip

MediaInv == MediaShape /\ WorkHolds /\ \A f \in Files : FileHolds(f)

-----------------------------------------------------------------------------
(* Types.                                                                   *)

LEMMA NothingUnderWay == IsCall(NoCall) /\ IsWork(NoWork) /\ IsSweep(NoSweep) /\ Unused \in MediaRow
                         /\ Gone \in MediaRow
<1>1. Unused \in MediaRow
  BY DEF MediaRow, Unused
<1>2. IsCall(NoCall) /\ IsWork(NoWork) /\ IsSweep(NoSweep)
  BY DEF IsCall, IsWork, IsSweep, NoCall, NoWork, NoSweep
<1>3. Gone \in MediaRow
  BY <1>1 DEF Gone, MediaRow
<1>4. QED
  BY <1>1, <1>2, <1>3

LEMMA CallShape ==
    ASSUME MediaShape, NEW k \in Callers, NEW h, IsCall(h), handlers' = [handlers EXCEPT ![k] = h]
    PROVE  handlers' = [j \in Callers |-> handlers'[j]] /\ \A j \in Callers : IsCall(handlers'[j])
BY DEF MediaShape

LEMMA MediaShapeStep ==
    ASSUME MediaShape, [MediaNext]_mediaVars
    PROVE  MediaShape'
<1> USE DEF MediaShape
<1>1. ASSUME NEW k \in Callers, NEW o \in Owners, NEW c \in Clips, BeginUpload(k, o, c)
      PROVE  MediaShape'
  <2>1. IsCall([NoCall EXCEPT !.at = "write", !.owner = o, !.clip = c])
    BY DEF IsCall, NoCall
  <2>2. QED
    BY <1>1, <2>1, CallShape DEF BeginUpload
<1>2. ASSUME NEW k \in Callers, NEW id \in Ids, BeginDelete(k, id)
      PROVE  MediaShape'
  <2>1. media[id] \in MediaRow
    OBVIOUS
  <2>2. \A l : IsCall([at |-> "delete", id |-> id, owner |-> media[id].owner,
                       clip |-> media[id].clip, left |-> l])
    BY <2>1 DEF IsCall, MediaRow
  <2>3. QED
    BY <1>2, <2>2, CallShape DEF BeginDelete
<1>3. ASSUME NEW k \in Callers, CallStep(k) \/ CutOff(k)
      PROVE  MediaShape'
  <2>0. IsCall(handlers[k])
    OBVIOUS
  <2>1. \A x \in {"insert", "check", "unlink"} : IsCall([handlers[k] EXCEPT !.at = x])
    BY <2>0 DEF IsCall
  <2>2. IsCall(NextName(handlers[k]))
    <3>1. IsCall([handlers[k] EXCEPT !.at = "check", !.left = Tail(@)])
      BY <2>0 DEF IsCall
    <3>2. QED
      BY <3>1, NothingUnderWay DEF NextName
  <2>3. CASE WriteFile(k)
    BY <2>1, <2>3, CallShape DEF WriteFile
  <2>4. CASE InsertRow(k)
    <3>1. PICK id \in Ids : \/ media' = media
                            \/ media' = [media EXCEPT ![id] =
                                          [Unused EXCEPT !.owner = handlers[k].owner,
                                              !.clip = handlers[k].clip, !.state = "pending"]]
      BY <2>4 DEF InsertRow
    <3>2. [Unused EXCEPT !.owner = handlers[k].owner, !.clip = handlers[k].clip,
                         !.state = "pending"] \in MediaRow
      BY <2>0, NothingUnderWay DEF IsCall, MediaRow
    <3>3. media' \in [Ids -> MediaRow]
      BY <3>1, <3>2
    <3>4. QED
      BY <2>4, <3>3, CallShape, NothingUnderWay DEF InsertRow
  <2>5. CASE DeleteRow(k)
    BY <2>1, <2>5, CallShape, NothingUnderWay DEF DeleteRow
  <2>6. CASE CheckName(k)
    BY <2>1, <2>2, <2>6, CallShape DEF CheckName
  <2>7. CASE Unlink(k)
    BY <2>2, <2>7, CallShape DEF Unlink
  <2>8. CASE CutOff(k)
    BY <2>8, CallShape, NothingUnderWay DEF CutOff
  <2>9. QED
    BY <1>3, <2>3, <2>4, <2>5, <2>6, <2>7, <2>8 DEF CallStep
<1>4. CASE PollPending \/ SpawnJob
  BY <1>4 DEF PollPending, SpawnJob, IsWork, NoWork
<1>5. CASE WorkerStep
  <2>1. CASE Claim
    <3>1. media' \in [Ids -> MediaRow]
      BY <2>1 DEF Claim, MediaRow
    <3>2. IsWork(worker')
      BY <2>1, NothingUnderWay DEF Claim, IsWork
    <3>3. QED
      BY <2>1, <3>1, <3>2 DEF Claim
  <2>2. CASE FindSource \/ Transcode \/ Poster
    <3>1. IsWork(worker')
      BY <2>2 DEF FindSource, Transcode, Poster, IsWork
    <3>2. files' \in [Files -> {"none", "fresh", "old"}]
      BY <2>2 DEF FindSource, Transcode, Poster
    <3>3. QED
      BY <2>2, <3>1, <3>2 DEF FindSource, Transcode, Poster
  <2>3. CASE Finish \/ MarkFailed
    <3>1. IsWork(worker')
      BY <2>3, NothingUnderWay DEF Finish, MarkFailed, IsWork
    <3>2. worker.poster \in BOOLEAN
      BY DEF IsWork
    <3>3. \A row \in MediaRow :
             /\ [row EXCEPT !.state = "ready", !.out = TRUE, !.poster = worker.poster] \in MediaRow
             /\ [row EXCEPT !.state = "failed"] \in MediaRow
      BY <3>2 DEF MediaRow
    <3>4. media' \in [Ids -> MediaRow]
      <4>1. CASE worker.id \in Ids
        <5>1. media[worker.id] \in MediaRow
          BY <4>1
        <5>2. \/ media' = media
              \/ \E row \in MediaRow : media' = [media EXCEPT ![worker.id] = row]
          BY <2>3, <3>3, <5>1 DEF Finish, MarkFailed
        <5>3. QED
          BY <5>2
      <4>2. CASE worker.id \notin Ids
        BY <2>3, <4>2 DEF Finish, MarkFailed
      <4>3. QED
        BY <4>1, <4>2
    <3>5. QED
      BY <2>3, <3>1, <3>4 DEF Finish, MarkFailed
  <2>4. QED
    BY <1>5, <2>1, <2>2, <2>3 DEF WorkerStep
<1>6. CASE Crash \/ BootStep
  BY <1>6, NothingUnderWay
  DEF Crash, BootStep, Start, ResetProcessing, RequeuePending, MediaRow
<1>7. CASE TimePasses
  <2>1. media' \in [Ids -> MediaRow]
    <3>1. PICK month \in BOOLEAN :
             media' = [id \in Ids |-> [media[id] EXCEPT !.old = @ \/ (month /\ There(id))]]
      BY <1>7 DEF TimePasses
    <3>2. \A row \in MediaRow, b \in BOOLEAN : [row EXCEPT !.old = b] \in MediaRow
      BY DEF MediaRow
    <3>3. ASSUME NEW id \in Ids
          PROVE  (media[id].old \/ (month /\ There(id))) \in BOOLEAN
      BY Zenon
    <3>4. QED
      BY <3>1, <3>2, <3>3
  <2>2. files' \in [Files -> {"none", "fresh", "old"}]
    BY <1>7 DEF TimePasses
  <2>3. QED
    BY <1>7, <2>1, <2>2 DEF TimePasses
<1>8. CASE BeginCleanup \/ SweepStep \/ EndCleanup \/ \E f \in Files : PickFile(f)
  <2>1. IsSweep(sweep')
    <3>1. \A f, t : IsSweep([at |-> "check", file |-> f, todo |-> t])
      BY DEF IsSweep
    <3>2. CASE BeginCleanup \/ EndCleanup
      BY <3>2 DEF BeginCleanup, EndCleanup, IsSweep, NoSweep
    <3>3. CASE DeleteOrphanRows
      BY <3>3 DEF DeleteOrphanRows, IsSweep
    <3>4. CASE CheckFile \/ RemoveFile
      BY <3>4 DEF CheckFile, RemoveFile, IsSweep
    <3>5. QED
      BY <1>8, <3>1, <3>2, <3>3, <3>4 DEF SweepStep, PickFile
  <2>2. /\ media' \in [Ids -> MediaRow] /\ files' \in [Files -> {"none", "fresh", "old"}]
        /\ UNCHANGED <<worker, handlers>>
    BY <1>8, NothingUnderWay
    DEF BeginCleanup, SweepStep, DeleteOrphanRows, CheckFile, RemoveFile, EndCleanup, PickFile
  <2>3. QED
    BY <2>1, <2>2
<1>9. CASE \/ \E id \in Ids : PostClip(id)
           \/ \E c \in Clips : EditPost(c) \/ Detach(c)
  BY <1>9 DEF PostClip, EditPost, Detach
<1>10. CASE UNCHANGED mediaVars
  BY <1>10 DEF mediaVars
<1>11. QED
  BY <1>1, <1>2, <1>3, <1>4, <1>5, <1>6, <1>7, <1>8, <1>9, <1>10 DEF MediaNext

-----------------------------------------------------------------------------
(* One file in one step.                                                   *)

(* What most steps do to rows: none names more than it did. *)
RowsKept ==
    \A id \in Ids :
        /\ media[id].state # "unused" => media'[id].state # "unused"
        /\ There(id)' => /\ There(id)
                         /\ media'[id].clip = media[id].clip
                         /\ media'[id].out = media[id].out
                         /\ media'[id].poster = media[id].poster

LEMMA NothingNamed ==
    ASSUME RowsKept
    PROVE  \A f : StillReferenced(f)' => StillReferenced(f)
BY DEF RowsKept, StillReferenced, Named

(* A file that nobody writes, names, removes or is about to remove. *)
LEMMA FileKept ==
    ASSUME NEW f, FileHolds(f), f \in crossed => f \in crossed', Wanted(f)' => Wanted(f),
           files'[f] = "none" => files[f] = "none", Unlinking(f)' => Unlinking(f)
    PROVE  FileHolds(f)'
BY DEF FileHolds

(* A file that is written becomes crossed when somebody is about to remove it. *)
LEMMA FileWritten ==
    ASSUME NEW f, NEW g, FileHolds(f), Writes(g), files'[f] = IF f = g THEN "fresh" ELSE files[f],
           f # g /\ Wanted(f)' => Wanted(f), Unlinking(f)' => Unlinking(f)
    PROVE  FileHolds(f)'
<1>1. CASE f = g
  BY <1>1 DEF FileHolds, Writes
<1>2. CASE f # g
  BY <1>2, FileKept DEF Writes
<1>3. QED
  BY <1>1, <1>2

(* What one request changes of what is held and about to be removed. *)
LEMMA CallChanges ==
    ASSUME MediaShape, NEW k \in Callers, NEW h, handlers' = [handlers EXCEPT ![k] = h],
           UNCHANGED <<worker, sweep>>, NEW f
    PROVE  /\ Held(f)' => Held(f) \/ (h.at = "insert" /\ f = <<h.clip, "raw">>)
           /\ Unlinking(f)' => Unlinking(f) \/ (h.at = "unlink" /\ f = <<h.clip, Head(h.left)>>)
<1>1. handlers'[k] = h /\ \A j \in Callers \ {k} : handlers'[j] = handlers[j]
  BY DEF MediaShape
<1>2. QED
  BY <1>1 DEF Held, Unlinking

LEMMA WorkKept ==
    ASSUME WorkHolds, RowsKept, worker' = worker
    PROVE  WorkHolds'
BY DEF WorkHolds, RowsKept

-----------------------------------------------------------------------------
(* Requests.                                                               *)

LEMMA MediaCallStep ==
    ASSUME MediaInv, MediaShape', NEW k \in Callers,
           \/ \E o \in Owners, c \in Clips : BeginUpload(k, o, c)
           \/ \E id \in Ids : BeginDelete(k, id)
           \/ CallStep(k) \/ CutOff(k)
    PROVE  MediaInv'
<1> DEFINE h == handlers[k]
<1>0. /\ MediaShape /\ WorkHolds /\ IsCall(h)
      /\ media \in [Ids -> MediaRow] /\ files \in [Files -> {"none", "fresh", "old"}]
  BY DEF MediaInv, MediaShape
<1>1. ASSUME NEW g, handlers' = [handlers EXCEPT ![k] = g], UNCHANGED <<worker, sweep>>,
             RowsKept, g.at # "insert", g.at = "unlink" => FALSE, crossed' = crossed,
             \A f \in Files : files'[f] = "none" /\ files[f] # "none"
                              => h.at = "unlink" /\ f = <<h.clip, Head(h.left)>>
      PROVE  MediaInv'
  <2>1. ASSUME NEW f \in Files
        PROVE  FileHolds(f)'
    <3>1. FileHolds(f) /\ (Wanted(f)' => Wanted(f)) /\ (Unlinking(f)' => Unlinking(f))
      BY <1>0, <1>1, CallChanges, NothingNamed DEF MediaInv, Wanted
    <3>2. files'[f] = "none" /\ files[f] # "none" => Unlinking(f)
      BY <1>1 DEF Unlinking
    <3>3. QED
      BY <1>1, <3>1, <3>2 DEF FileHolds
  <2>2. WorkHolds'
    BY <1>0, <1>1, WorkKept
  <2>3. QED
    BY <2>1, <2>2 DEF MediaInv
<1>2. ASSUME NEW o \in Owners, NEW c \in Clips, BeginUpload(k, o, c)
      PROVE  MediaInv'
  <2>1. [NoCall EXCEPT !.at = "write", !.owner = o, !.clip = c].at = "write"
    BY DEF NoCall
  <2>2. QED
    BY <1>1, <1>2, <2>1 DEF BeginUpload, RowsKept, There
<1>3. ASSUME NEW id \in Ids, BeginDelete(k, id)
      PROVE  MediaInv'
  <2>0. \A l : [at |-> "delete", id |-> id, owner |-> media[id].owner,
                clip |-> media[id].clip, left |-> l].at = "delete"
    OBVIOUS
  <2>1. \E g : handlers' = [handlers EXCEPT ![k] = g] /\ g.at = "delete"
    BY <1>3, <2>0, Zenon DEF BeginDelete
  <2>2. RowsKept /\ UNCHANGED <<files, worker, sweep, crossed>>
    BY <1>3 DEF BeginDelete, RowsKept, There
  <2>3. QED
    <3>1. PICK g : handlers' = [handlers EXCEPT ![k] = g] /\ g.at = "delete"
      BY <2>1
    <3>2. QED
      BY <1>1, <2>2, <3>1
<1>4. CASE WriteFile(k)
  <2>1. [handlers[k] EXCEPT !.at = "insert"].at = "insert"
        /\ [handlers[k] EXCEPT !.at = "insert"].clip = h.clip
    BY <1>0 DEF IsCall
  <2>2. ASSUME NEW f \in Files
        PROVE  FileHolds(f)'
    <3>1. /\ Held(f)' => Held(f) \/ f = <<h.clip, "raw">>
          /\ Unlinking(f)' => Unlinking(f)
      BY <1>0, <1>4, <2>1, CallChanges DEF WriteFile
    <3>2. StillReferenced(f)' => StillReferenced(f)
      BY <1>4 DEF WriteFile, StillReferenced, There
    <3>3. files'[f] = IF f = <<h.clip, "raw">> THEN "fresh" ELSE files[f]
      BY <1>0, <1>4 DEF WriteFile
    <3>4. FileHolds(f) /\ Writes(<<h.clip, "raw">>)
      BY <1>4 DEF MediaInv, WriteFile
    <3>5. QED
      BY <3>1, <3>2, <3>3, <3>4, FileWritten DEF Wanted
  <2>3. WorkHolds'
    BY <1>0, <1>4 DEF WriteFile, WorkHolds, There
  <2>4. QED
    BY <2>2, <2>3 DEF MediaInv
<1>5. CASE InsertRow(k)
  <2>0. NoCall.at = "idle"
    BY DEF NoCall
  <2>1. PICK id \in Ids :
           \/ media' = media
           \/ /\ media[id].state = "unused"
              /\ media' = [media EXCEPT ![id] = [Unused EXCEPT !.owner = h.owner, !.clip = h.clip,
                                                                !.state = "pending"]]
    BY <1>5 DEF InsertRow
  <2>2. ASSUME NEW j \in Ids
        PROVE  \/ media'[j] = media[j]
               \/ /\ j = id /\ media[j].state = "unused" /\ media'[j].state = "pending"
                  /\ media'[j].clip = h.clip /\ ~media'[j].out /\ ~media'[j].poster
    BY <1>0, <2>1 DEF Unused
  <2>3. ASSUME NEW f \in Files
        PROVE  FileHolds(f)'
    <3>0. handlers' = [handlers EXCEPT ![k] = NoCall] /\ UNCHANGED <<worker, sweep>>
      BY <1>5 DEF InsertRow
    <3>1. (Held(f)' => Held(f)) /\ (Unlinking(f)' => Unlinking(f))
      BY <1>0, <2>0, <3>0, CallChanges
    <3>2. StillReferenced(f)' => StillReferenced(f) \/ f = <<h.clip, "raw">>
      BY <2>2 DEF StillReferenced, There, Named, Files
    <3>3. Held(<<h.clip, "raw">>)
      BY <1>5 DEF InsertRow, Held
    <3>4. QED
      BY <1>5, <3>1, <3>2, <3>3, FileKept DEF MediaInv, InsertRow, Wanted
  <2>4. WorkHolds'
    BY <1>0, <1>5, <2>2 DEF InsertRow, WorkHolds, There
  <2>5. QED
    BY <2>3, <2>4 DEF MediaInv
<1>6. CASE DeleteRow(k)
  <2>1. RowsKept
    BY <1>0, <1>6 DEF DeleteRow, RowsKept, There, Gone, Unused
  <2>2. [handlers[k] EXCEPT !.at = "check"].at = "check"
    BY <1>0 DEF IsCall
  <2>3. QED
    BY <1>1, <1>6, <2>1, <2>2 DEF DeleteRow
<1>7. NextName(h).at \notin {"insert", "unlink"}
  BY <1>0 DEF NextName, NoCall, IsCall
<1>8. CASE CheckName(k)
  <2> DEFINE g == <<h.clip, Head(h.left)>>
  <2>1. CASE handlers' = [handlers EXCEPT ![k] = NextName(h)] /\ UNCHANGED crossed
    BY <1>1, <1>7, <1>8, <2>1 DEF CheckName, RowsKept, There
  <2>2. CASE /\ ~StillReferenced(g) /\ FindsFree(g)
             /\ handlers' = [handlers EXCEPT ![k].at = "unlink"]
    <3>1. /\ [h EXCEPT !.at = "unlink"].at = "unlink" /\ [h EXCEPT !.at = "unlink"].clip = h.clip
          /\ [h EXCEPT !.at = "unlink"].left = h.left
      BY <1>0 DEF IsCall
    <3>2. UNCHANGED <<media, files, worker, sweep>>
      BY <1>8 DEF CheckName
    <3>3. ASSUME NEW f \in Files
          PROVE  FileHolds(f)'
      <4>1. (Held(f)' => Held(f)) /\ (Unlinking(f)' => Unlinking(f) \/ f = g)
        BY <1>0, <2>2, <3>1, <3>2, CallChanges
      <4>2. StillReferenced(f)' => StillReferenced(f)
        BY <3>2 DEF StillReferenced, There
      <4>3. CASE f = g
        BY <2>2, <4>1, <4>2, <4>3 DEF FileHolds, FindsFree, Wanted
      <4>4. CASE f # g
        BY <2>2, <3>2, <4>1, <4>2, <4>4 DEF MediaInv, FileHolds, FindsFree, Wanted
      <4>5. QED
        BY <4>3, <4>4
    <3>4. WorkHolds'
      BY <1>0, <3>2 DEF WorkHolds, There
    <3>5. QED
      BY <3>3, <3>4 DEF MediaInv
  <2>3. QED
    BY <1>8, <2>1, <2>2 DEF CheckName
<1>9. CASE Unlink(k)
  <2>1. \A f \in Files : files'[f] = "none" /\ files[f] # "none" => f = <<h.clip, Head(h.left)>>
    BY <1>0, <1>9 DEF Unlink
  <2>2. /\ handlers' = [handlers EXCEPT ![k] = NextName(h)] /\ h.at = "unlink"
        /\ UNCHANGED <<media, worker, sweep, crossed>>
    BY <1>9 DEF Unlink
  <2>3. RowsKept
    BY <2>2 DEF RowsKept, There
  <2>4. QED
    BY <1>1, <1>7, <2>1, <2>2, <2>3
<1>10. CASE CutOff(k)
  <2>1. NoCall.at = "idle"
    BY DEF NoCall
  <2>2. QED
    BY <1>1, <1>10, <2>1 DEF CutOff, RowsKept, There
<1>11. QED
  BY <1>2, <1>3, <1>4, <1>5, <1>6, <1>8, <1>9, <1>10 DEF CallStep

-----------------------------------------------------------------------------
(* The worker, the sweep and the server.                                    *)

LEMMA MediaWorkerStep ==
    ASSUME MediaInv, SpawnJob \/ WorkerStep, MediaShape'
    PROVE  MediaInv'
<1>0. /\ IsWork(worker) /\ IsWork(worker)' /\ WorkHolds
      /\ media \in [Ids -> MediaRow] /\ files \in [Files -> {"none", "fresh", "old"}]
  BY DEF MediaInv, MediaShape
<1>1. UNCHANGED <<handlers, sweep>>
  BY DEF SpawnJob, WorkerStep, Claim, FindSource, Transcode, Poster, Finish, MarkFailed
<1>2. \A f : /\ Unlinking(f)' => Unlinking(f)
             /\ Held(f)' => \/ Held(f)
                            \/ worker'.at \in {"poster", "finish"} /\ f = <<worker'.clip, "out">>
                            \/ /\ worker'.at = "finish" /\ worker'.poster
                               /\ f = <<worker'.clip, "poster">>
  BY <1>1 DEF Unlinking, Held
<1>3. ASSUME RowsKept, files' = files, crossed' = crossed, WorkHolds',
             \/ worker'.at \notin {"poster", "finish"}
             \/ /\ worker.at = "poster" /\ worker'.at = "finish" /\ ~worker'.poster
                /\ worker'.clip = worker.clip
      PROVE  MediaInv'
  <2>1. ASSUME NEW f \in Files
        PROVE  FileHolds(f)'
    <3>1. Held(f)' => Held(f)
      BY <1>2, <1>3 DEF Held
    <3>2. QED
      BY <1>2, <1>3, <3>1, FileKept, NothingNamed DEF MediaInv, Wanted
  <2>2. QED
    BY <1>3, <2>1 DEF MediaInv
<1>4. ASSUME worker'.at \notin {"source", "transcode", "poster", "finish"}
      PROVE  WorkHolds'
  BY <1>4 DEF WorkHolds
<1>5. CASE SpawnJob
  <2>1. RowsKept /\ worker'.at = "claim"
    BY <1>5 DEF SpawnJob, RowsKept, There, NoWork
  <2>2. QED
    BY <1>3, <1>4, <1>5, <2>1 DEF SpawnJob
<1>6. CASE Claim
  <2>1. CASE /\ Claimable(worker.id)
             /\ media' = [media EXCEPT ![worker.id].state = "processing"]
             /\ worker' = [worker EXCEPT !.at = "source", !.clip = media[worker.id].clip]
    <3>1. RowsKept
      BY <1>0, <2>1 DEF Claimable, RowsKept, There, MediaRow
    <3>2. worker'.at = "source" /\ worker'.id = worker.id /\ worker'.clip = media[worker.id].clip
      BY <1>0, <2>1 DEF IsWork
    <3>3. worker.id \in Ids => /\ media'[worker.id].state = "processing"
                               /\ media'[worker.id].clip = media[worker.id].clip
      BY <1>0, <2>1 DEF MediaRow
    <3>4. WorkHolds'
      BY <3>2, <3>3 DEF WorkHolds
    <3>5. QED
      BY <1>3, <1>6, <3>1, <3>2, <3>4 DEF Claim
  <2>2. CASE UNCHANGED media /\ (worker' = NoWork \/ worker' = [worker EXCEPT !.at = "fail"])
    <3>1. worker'.at \in {"idle", "fail"}
      BY <1>0, <2>2 DEF NoWork, IsWork
    <3>2. QED
      BY <1>3, <1>4, <1>6, <2>2, <3>1 DEF Claim, RowsKept, There
  <2>3. QED
    BY <1>6, <2>1, <2>2 DEF Claim
<1>7. CASE FindSource
  <2>1. /\ worker'.at \in {"transcode", "fail"} /\ worker.at = "source"
        /\ worker'.id = worker.id /\ worker'.clip = worker.clip
    BY <1>0, <1>7 DEF FindSource, IsWork
  <2>2. RowsKept
    BY <1>7 DEF FindSource, RowsKept, There
  <2>3. WorkHolds'
    BY <1>0, <1>7, <2>1 DEF FindSource, WorkHolds, There
  <2>4. QED
    BY <1>3, <1>7, <2>1, <2>2, <2>3 DEF FindSource
<1>8. ASSUME media' = media, NEW g, Writes(g), files' = [files EXCEPT ![g] = "fresh"],
             worker.at \in {"transcode", "poster"}, worker'.id = worker.id,
             worker'.clip = worker.clip, \A f : f # g /\ Held(f)' => Held(f)
      PROVE  MediaInv'
  <2>1. ASSUME NEW f \in Files
        PROVE  FileHolds(f)'
    <3>1. StillReferenced(f)' => StillReferenced(f)
      BY <1>8 DEF StillReferenced, There
    <3>2. files'[f] = IF f = g THEN "fresh" ELSE files[f]
      BY <1>0, <1>8
    <3>3. QED
      BY <1>2, <1>8, <3>1, <3>2, FileWritten DEF MediaInv, Wanted
  <2>2. WorkHolds'
    BY <1>0, <1>8 DEF WorkHolds, There
  <2>3. QED
    BY <2>1, <2>2 DEF MediaInv
<1>9. CASE Transcode
  <2>1. CASE /\ files' = [files EXCEPT ![<<worker.clip, "out">>] = "fresh"]
             /\ Writes(<<worker.clip, "out">>)
             /\ worker' = [worker EXCEPT !.at = "poster"]
    <3>1. worker'.at = "poster" /\ worker'.id = worker.id /\ worker'.clip = worker.clip
      BY <1>0, <2>1 DEF IsWork
    <3>2. \A f : f # <<worker.clip, "out">> /\ Held(f)' => Held(f)
      BY <1>2, <3>1
    <3>3. QED
      BY <1>8, <1>9, <2>1, <3>1, <3>2 DEF Transcode
  <2>2. CASE worker' = [worker EXCEPT !.at = "fail"] /\ UNCHANGED <<files, crossed>>
    <3>1. worker'.at = "fail"
      BY <1>0, <2>2 DEF IsWork
    <3>2. QED
      BY <1>3, <1>4, <1>9, <2>2, <3>1 DEF Transcode, RowsKept, There
  <2>3. QED
    BY <1>9, <2>1, <2>2 DEF Transcode
<1>10. CASE Poster
  <2>1. CASE /\ files' = [files EXCEPT ![<<worker.clip, "poster">>] = "fresh"]
             /\ Writes(<<worker.clip, "poster">>)
             /\ worker' = [worker EXCEPT !.at = "finish", !.poster = TRUE]
    <3>1. /\ worker'.at = "finish" /\ worker'.id = worker.id /\ worker'.clip = worker.clip
          /\ worker.at = "poster"
      BY <1>0, <1>10, <2>1 DEF IsWork, Poster
    <3>2. \A f : f # <<worker.clip, "poster">> /\ Held(f)' => Held(f)
      BY <1>2, <3>1 DEF Held
    <3>3. QED
      BY <1>8, <1>10, <2>1, <3>1, <3>2 DEF Poster
  <2>2. CASE worker' = [worker EXCEPT !.at = "finish"] /\ UNCHANGED <<files, crossed>>
    <3>1. /\ worker'.at = "finish" /\ worker'.id = worker.id /\ worker'.clip = worker.clip
          /\ worker.at = "poster" /\ ~worker'.poster
      BY <1>0, <1>10, <2>2 DEF IsWork, Poster
    <3>2. WorkHolds' /\ RowsKept
      BY <1>0, <1>10, <3>1 DEF Poster, WorkHolds, RowsKept, There
    <3>3. QED
      BY <1>3, <2>2, <3>1, <3>2
  <2>3. QED
    BY <1>10, <2>1, <2>2 DEF Poster
<1>11. CASE Finish
  <2>1. CASE /\ There(worker.id)
             /\ media' = [media EXCEPT ![worker.id] = [@ EXCEPT !.state = "ready", !.out = TRUE,
                                                                !.poster = worker.poster]]
             /\ worker' = NoWork
    <3>1. worker.at = "finish" /\ files' = files /\ crossed' = crossed
      BY <1>11 DEF Finish
    <3>2. ASSUME NEW id \in Ids
          PROVE  \/ media'[id] = media[id]
                 \/ /\ id = worker.id /\ There(id) /\ media'[id].clip = media[id].clip
                    /\ media'[id].poster = worker.poster
      BY <1>0, <2>1 DEF MediaRow
    <3>3. ASSUME NEW f \in Files, StillReferenced(f)'
          PROVE  Wanted(f)
      <4>1. PICK id \in Ids : There(id)' /\ Named(media'[id], f)
        BY <3>3 DEF StillReferenced
      <4>2. CASE media'[id] = media[id]
        BY <4>1, <4>2 DEF Wanted, StillReferenced, There
      <4>3. CASE /\ id = worker.id /\ There(id) /\ media'[id].clip = media[id].clip
                 /\ media'[id].poster = worker.poster
        <5>1. media[id].clip = worker.clip
          BY <1>0, <3>1, <4>3 DEF WorkHolds
        <5>2. f = <<f[1], f[2]>> /\ f[1] = worker.clip
          BY <4>1, <4>3, <5>1 DEF Named, Files
        <5>3. CASE f[2] = "raw"
          BY <4>3, <5>1, <5>2, <5>3 DEF Wanted, StillReferenced, Named
        <5>4. CASE f[2] = "out" \/ (f[2] = "poster" /\ worker.poster)
          BY <3>1, <5>2, <5>4 DEF Wanted, Held
        <5>5. QED
          BY <4>1, <4>3, <5>3, <5>4 DEF Named
      <4>4. QED
        BY <3>2, <4>2, <4>3
    <3>4. worker'.at = "idle"
      BY <2>1 DEF NoWork
    <3>5. ASSUME NEW f \in Files
          PROVE  FileHolds(f)'
      <4>1. Wanted(f)' => Wanted(f)
        BY <1>2, <3>3, <3>4 DEF Wanted
      <4>2. QED
        BY <1>2, <3>1, <4>1, FileKept DEF MediaInv
    <3>6. QED
      BY <1>4, <3>4, <3>5 DEF MediaInv
  <2>2. CASE UNCHANGED media /\ (worker' = NoWork \/ worker' = [worker EXCEPT !.at = "fail"])
    <3>1. worker'.at \in {"idle", "fail"}
      BY <1>0, <2>2 DEF NoWork, IsWork
    <3>2. QED
      BY <1>3, <1>4, <1>11, <2>2, <3>1 DEF Finish, RowsKept, There
  <2>3. QED
    BY <1>11, <2>1, <2>2 DEF Finish
<1>12. CASE MarkFailed
  <2>1. RowsKept
    BY <1>0, <1>12 DEF MarkFailed, RowsKept, There, MediaRow
  <2>2. worker'.at = "idle"
    BY <1>12 DEF MarkFailed, NoWork
  <2>3. QED
    BY <1>3, <1>4, <1>12, <2>1, <2>2 DEF MarkFailed
<1>13. QED
  BY <1>5, <1>6, <1>7, <1>9, <1>10, <1>11, <1>12 DEF WorkerStep

LEMMA MediaInvStep ==
    ASSUME MediaInv, [MediaNext]_mediaVars
    PROVE  MediaInv'
<1>0. MediaShape'
  BY MediaShapeStep DEF MediaInv
<1>1. /\ media \in [Ids -> MediaRow] /\ files \in [Files -> {"none", "fresh", "old"}]
      /\ IsSweep(sweep) /\ WorkHolds
  BY DEF MediaInv, MediaShape
<1>2. ASSUME RowsKept, handlers' = handlers, worker' = worker, crossed' = crossed,
             \A f \in Files : files'[f] = "none" => files[f] = "none",
             sweep' = sweep \/ sweep'.at # "unlink"
      PROVE  MediaInv'
  <2>1. ASSUME NEW f \in Files
        PROVE  FileHolds(f)'
    BY <1>2, FileKept, NothingNamed DEF MediaInv, Wanted, Held, Unlinking
  <2>2. QED
    BY <1>0, <1>1, <1>2, <2>1, WorkKept DEF MediaInv
<1>3. CASE Crash
  <2>1. ASSUME NEW f \in Files
        PROVE  FileHolds(f)'
    <3>1. ~Held(f)' /\ ~Unlinking(f)'
      BY <1>3 DEF Crash, Held, Unlinking, NoCall, NoWork, NoSweep
    <3>2. QED
      BY <1>3, <3>1, FileKept DEF Crash, MediaInv, Wanted, StillReferenced, There
  <2>2. WorkHolds'
    BY <1>3 DEF Crash, WorkHolds, NoWork
  <2>3. QED
    BY <1>0, <2>1, <2>2 DEF MediaInv
<1>4. CASE PollPending \/ BootStep
  <2>1. RowsKept
    <3>1. CASE media' = media
      BY <3>1 DEF RowsKept, There
    <3>2. CASE ResetProcessing
      BY <1>1, <3>2 DEF ResetProcessing, RowsKept, There, MediaRow
    <3>3. QED
      BY <1>4, <3>1, <3>2 DEF PollPending, BootStep, Start, RequeuePending
  <2>2. QED
    BY <1>2, <1>4, <2>1
    DEF PollPending, BootStep, Start, ResetProcessing, RequeuePending
<1>5. CASE TimePasses
  <2>1. RowsKept
    <3>1. PICK month \in BOOLEAN :
             media' = [id \in Ids |-> [media[id] EXCEPT !.old = @ \/ (month /\ There(id))]]
      BY <1>5 DEF TimePasses
    <3>2. \A id \in Ids : /\ media'[id].state = media[id].state
                          /\ media'[id].clip = media[id].clip
                          /\ media'[id].out = media[id].out
                          /\ media'[id].poster = media[id].poster
      BY <1>1, <3>1 DEF MediaRow
    <3>3. QED
      BY <3>2 DEF RowsKept, There
  <2>2. QED
    BY <1>2, <1>5, <2>1 DEF TimePasses
<1>6. CASE BeginCleanup \/ EndCleanup \/ \E f \in Files : PickFile(f)
  <2>1. sweep'.at # "unlink"
    BY <1>6 DEF BeginCleanup, EndCleanup, PickFile, NoSweep
  <2>2. QED
    BY <1>2, <1>6, <2>1 DEF BeginCleanup, EndCleanup, PickFile, RowsKept, There
<1>7. CASE SweepStep
  <2>1. CASE DeleteOrphanRows
    <3>1. RowsKept
      BY <1>1, <2>1 DEF DeleteOrphanRows, RowsKept, There, Gone, Unused
    <3>2. sweep'.at = "files"
      BY <1>1, <2>1 DEF DeleteOrphanRows, IsSweep
    <3>3. QED
      BY <1>2, <2>1, <3>1, <3>2 DEF DeleteOrphanRows
  <2>2. CASE CheckFile
    <3>1. UNCHANGED <<media, files, handlers, worker>>
      BY <2>2 DEF CheckFile
    <3>2. CASE sweep' = [sweep EXCEPT !.at = "files"] /\ UNCHANGED crossed
      <4>1. sweep'.at = "files"
        BY <1>1, <3>2 DEF IsSweep
      <4>2. QED
        BY <1>2, <3>1, <3>2, <4>1 DEF RowsKept, There
    <3>3. CASE /\ ~StillReferenced(sweep.file) /\ FindsFree(sweep.file)
               /\ sweep' = [sweep EXCEPT !.at = "unlink"]
      <4>1. sweep'.file = sweep.file
        BY <1>1, <3>3 DEF IsSweep
      <4>2. ASSUME NEW f \in Files
            PROVE  FileHolds(f)'
        <5>1. /\ Held(f)' => Held(f)
              /\ StillReferenced(f)' => StillReferenced(f)
              /\ Unlinking(f)' => Unlinking(f) \/ f = sweep.file
          BY <3>1, <4>1 DEF Held, StillReferenced, There, Unlinking
        <5>2. CASE f = sweep.file
          BY <3>3, <5>1, <5>2 DEF FileHolds, FindsFree, Wanted
        <5>3. CASE f # sweep.file
          BY <3>1, <3>3, <5>1, <5>3 DEF MediaInv, FileHolds, FindsFree, Wanted
        <5>4. QED
          BY <5>2, <5>3
      <4>3. QED
        BY <1>0, <1>1, <3>1, <4>2 DEF MediaInv, WorkHolds, There
    <3>4. QED
      BY <2>2, <3>2, <3>3 DEF CheckFile
  <2>3. CASE RemoveFile
    <3>1. sweep'.at = "files"
      BY <1>1, <2>3 DEF RemoveFile, IsSweep
    <3>2. ASSUME NEW f \in Files
          PROVE  FileHolds(f)'
      <4>1. /\ Wanted(f)' => Wanted(f)
            /\ Unlinking(f)' => Unlinking(f)
            /\ crossed' = crossed
        BY <2>3, <3>1
        DEF RemoveFile, Wanted, Held, StillReferenced, There, Unlinking
      <4>2. files'[f] = "none" => files[f] = "none" \/ Unlinking(f)
        BY <1>1, <2>3 DEF RemoveFile, Unlinking
      <4>3. QED
        BY <4>1, <4>2 DEF MediaInv, FileHolds
    <3>3. QED
      BY <1>0, <1>1, <2>3, <3>2 DEF RemoveFile, MediaInv, WorkHolds, There
  <2>4. QED
    BY <1>7, <2>1, <2>2, <2>3 DEF SweepStep
<1>8. CASE \/ \E id \in Ids : PostClip(id)
           \/ \E c \in Clips : EditPost(c) \/ Detach(c)
           \/ UNCHANGED mediaVars
  BY <1>2, <1>8 DEF PostClip, EditPost, Detach, mediaVars, RowsKept, There
<1>9. QED
  BY <1>0, <1>3, <1>4, <1>5, <1>6, <1>7, <1>8, MediaCallStep, MediaWorkerStep DEF MediaNext

(* Whatever a row of `media` names is on files unless a writing and a removal met at the file:
   however uploads, deletions, jobs, sweeps and crashes interleave otherwise. *)
THEOREM RowsAlwaysHaveFiles == MediaSpec => []RowsHaveFiles
<1>1. MediaInit => MediaInv
  <2>1. ASSUME MediaInit
        PROVE  MediaInv
    <3>1. MediaShape
      BY <2>1, NothingUnderWay DEF MediaInit, MediaShape
    <3>2. \A id \in Ids : ~There(id)
      BY <2>1 DEF MediaInit, There, Unused
    <3>3. \A k \in Callers : handlers[k].at = "idle"
      BY <2>1 DEF MediaInit, NoCall
    <3>4. worker.at = "idle"
      BY <2>1 DEF MediaInit, NoWork
    <3>5. QED
      BY <3>1, <3>2, <3>3, <3>4 DEF MediaInv, WorkHolds, FileHolds, Wanted, Held, StillReferenced
  <2>2. QED
    BY <2>1
<1>2. MediaInv /\ [MediaNext]_mediaVars => MediaInv'
  BY MediaInvStep
<1>3. MediaInv => RowsHaveFiles
  BY DEF MediaInv, FileHolds, Wanted, StillReferenced, RowsHaveFiles
<1>4. QED
  BY <1>1, <1>2, <1>3, PTL DEF MediaSpec
=============================================================================
