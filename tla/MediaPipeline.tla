---------------------------- MODULE MediaPipeline ----------------------------
(***************************************************************************)
(* A video's media: uploads to object storage, the row of table content    *)
(* that names the objects, and the pg-boss jobs that probe, transcode and  *)
(* make a thumbnail (services/upload-completion.ts, jobs/handlers,         *)
(* services/processing-jobs.ts, routes/content.routes.ts and               *)
(* routes/content-media.routes.ts).                                        *)
(*                                                                         *)
(* The model is of one content item; no statement reads another's row or   *)
(* objects.  An object is named by the file it comes from: the upload      *)
(* itself, "-transcoded.mp4" and "-thumb.jpg".  Of its bytes the model     *)
(* keeps which upload they come from.                                      *)
(***************************************************************************)
EXTENDS ApiCalls, Naturals, FiniteSets

CONSTANTS
    MediaTasks,  \* slots for calls and jobs in flight
    Files,       \* sanitized file names a creator uploads under
    MaxUploads,  \* bound: files ever put into storage
    MediaFaults

ASSUME MediaAssumption ==
    /\ IsFiniteSet(MediaTasks) /\ MediaTasks # {}
    /\ MaxUploads \in Nat
    /\ None \notin Files \cup {"media", "thumb"}
    /\ "custom" \notin Files
    /\ MediaFaults \subseteq {"crash", "ffmpeg", "retry"}

VARIABLES
    object,   \* storage: the upload an object holds or comes from, 0 for none
    uploads,  \* files put so far
    needs,    \* the uploads whose codec requiresTranscode
    big,      \* the uploads over MAX_FILE_SIZES
    landed,   \* files put, whose POST /uploads/complete is yet to come
    item,     \* the content row
    queue,    \* pg-boss: jobs waiting in each queue
    task,     \* the call or job in each slot
    mishap    \* history: what has gone on that a property excuses

mediaVars == <<object, uploads, needs, big, landed, item, queue, task, mishap>>

Objects == {"media", "transcoded", "thumb"} \X Files
Queues  == {"probe", "transcode", "thumbnail"}
Jobs    == {"probeRead", "probeChain", "probeThumb", "transcodeRead", "transcodeSave",
            "transcodeRow", "thumbRead", "thumbSave", "thumbRow"}
Calls   == {"tooBig", "findOld", "dropOld", "record", "mark", "send",
            "sweep", "clearRow", "replace", "replaceRow"}

\* mediaKey, transcodedMediaKey and thumbnailKey by file; "custom" is a library asset.
Items == [media: Files \cup {None}, transcoded: Files \cup {None},
          thumb: Files \cup {None, "custom"},
          status: {"none", "processing", "ready", "failed"}, deleted: BOOLEAN]

NoTask == [step |-> "idle", file |-> None, old |-> None, sweep |-> {}, from |-> 0]

\* What a task that starts at step s runs into: another one, and, for a call
\* of the API, another call.
Met(h, s) ==
    LET others == {task[g].step : g \in MediaTasks \ {h}} \ {"idle"}
    IN  (IF others # {} THEN {"overlap"} ELSE {}) \cup
        (IF s \in Calls /\ others \cap Calls # {} THEN {"clash"} ELSE {})

BeginTask(h, t) ==
    /\ task[h] = NoTask
    /\ task' = [task EXCEPT ![h] = t]
    /\ mishap' = mishap \cup Met(h, t.step)

TaskAt(h, s) == task[h].step = s
TaskTo(h, s) == task' = [task EXCEPT ![h].step = s] /\ UNCHANGED mishap
TaskEnds(h)  == task' = [task EXCEPT ![h] = NoTask] /\ UNCHANGED mishap

\* boss.send.
Send(q) == queue' = [queue EXCEPT ![q] = @ + 1]

\* UPDATE content SET ... WHERE id: the row stays after a soft delete.
SetStatus(s) == item' = [item EXCEPT !.status = s]

-----------------------------------------------------------------------------
(* Direct uploads: the browser puts the file, then posts its completion *)

\* The browser's PUT, or the copy that tusd's post-finish hook makes under the
\* canonical key: nothing has been checked yet, and an object of that name is gone.
Put(f) ==
    /\ uploads < MaxUploads
    /\ f \notin landed
    /\ ~item.deleted
    /\ uploads' = uploads + 1
    /\ object' = [object EXCEPT ![<<"media", f>>] = uploads + 1]
    /\ needs' \in {needs, needs \cup {uploads + 1}}
    /\ big' \in {big, big \cup {uploads + 1}}
    /\ landed' = landed \cup {f}
    /\ UNCHANGED <<item, queue, task, mishap>>

\* completeUploadFlow is refused for a caller without the permission, or for a file
\* deleted meanwhile; HEAD tells the size.  The browser, or tusd, may repeat a
\* completion whose answer it has not seen.
Complete(h, f) ==
    /\ f \in landed
    /\ task[h] = NoTask
    /\ LET v == object[<<"media", f>>]
           s == IF v \in big THEN "tooBig" ELSE "findOld"
       IN  \/ /\ landed' = landed \ {f}
              /\ UNCHANGED <<task, mishap>>
           \/ /\ v # 0
              /\ \/ landed' = landed \ {f}
                 \/ "retry" \in MediaFaults \ mishap /\ UNCHANGED landed
              /\ task' = [task EXCEPT ![h] = [NoTask EXCEPT !.step = s, !.file = f]]
              /\ mishap' = mishap \cup Met(h, s)
                                \cup (IF landed' = landed THEN {"retry"} ELSE {})
    /\ UNCHANGED <<object, uploads, needs, big, item, queue>>

\* The object over the limit is deleted, which may be the one the row names.
DropTooBig(h) ==
    /\ TaskAt(h, "tooBig")
    /\ object' = [object EXCEPT ![<<"media", task[h].file>>] = 0]
    /\ task' = [task EXCEPT ![h] = NoTask]
    /\ mishap' = mishap \cup (IF item.media = task[h].file THEN {"refused"} ELSE {})
    /\ UNCHANGED <<uploads, needs, big, landed, item, queue>>

FindOld(h) ==
    /\ TaskAt(h, "findOld")
    /\ task' = [task EXCEPT ![h].step = "dropOld", ![h].old = item.media]
    /\ UNCHANGED <<object, uploads, needs, big, landed, item, queue, mishap>>

\* Mutated DropOld: the old key is deleted even if the file has the same name.
DropOldAlways(h) ==
    /\ TaskAt(h, "dropOld")
    /\ object' = IF task[h].old = None THEN object
                 ELSE [object EXCEPT ![<<"media", task[h].old>>] = 0]
    /\ TaskTo(h, "record")
    /\ UNCHANGED <<uploads, needs, big, landed, item, queue>>

\* storage.delete(oldKey), unless the new file has taken its name.
DropOld(h) ==
    /\ TaskAt(h, "dropOld")
    /\ object' = IF task[h].old \in {None, task[h].file} THEN object
                 ELSE [object EXCEPT ![<<"media", task[h].old>>] = 0]
    /\ TaskTo(h, "record")
    /\ UNCHANGED <<uploads, needs, big, landed, item, queue>>

\* recordUpload.
Record(h) ==
    /\ TaskAt(h, "record")
    /\ item' = [item EXCEPT !.media = task[h].file]
    /\ TaskTo(h, "mark")
    /\ UNCHANGED <<object, uploads, needs, big, landed, queue>>

Mark(h) ==
    /\ TaskAt(h, "mark")
    /\ SetStatus("processing")
    /\ TaskTo(h, "send")
    /\ UNCHANGED <<object, uploads, needs, big, landed, queue>>

SendProbe(h) ==
    /\ TaskAt(h, "send")
    /\ Send("probe")
    /\ TaskEnds(h)
    /\ UNCHANGED <<object, uploads, needs, big, landed, item>>

-----------------------------------------------------------------------------
(* Jobs: each loads the row, and works on the file it named then *)

Take(h, q, s) ==
    /\ queue[q] > 0
    /\ queue' = [queue EXCEPT ![q] = @ - 1]
    /\ IF item.media = None \/ (q = "thumbnail" /\ item.thumb # None)
       THEN task[h] = NoTask /\ UNCHANGED <<task, mishap>>
       ELSE BeginTask(h, [NoTask EXCEPT !.step = s, !.file = item.media,
                                        !.old = item.thumb])
    /\ UNCHANGED <<object, uploads, needs, big, landed, item>>

TakeJob(h) ==
    \/ Take(h, "probe", "probeRead")
    \/ Take(h, "transcode", "transcodeRead")
    \/ Take(h, "thumbnail", "thumbRead")

\* The job gives up: the content is marked failed, but for a thumbnail.
Fails(h) ==
    /\ TaskEnds(h)
    /\ IF TaskAt(h, "thumbRead") \/ TaskAt(h, "thumbSave")
       THEN UNCHANGED item ELSE SetStatus("failed")
    /\ UNCHANGED <<object, queue>>

\* Mutated ReadMedia: a failed download ends the job and says nothing.
ReadMediaSilent(h) ==
    /\ task[h].step \in {"probeRead", "transcodeRead", "thumbRead"}
    /\ LET v == object[<<"media", task[h].file>>]
       IN  \/ /\ v = 0 \/ "ffmpeg" \in MediaFaults
              /\ TaskEnds(h)
              /\ UNCHANGED <<object, item, queue>>
           \/ /\ v # 0
              /\ task' = [task EXCEPT ![h].from = v, ![h].step =
                            CASE @ = "probeRead"     -> "probeChain"
                              [] @ = "transcodeRead" -> "transcodeSave"
                              [] @ = "thumbRead"     -> "thumbSave"]
              /\ UNCHANGED <<object, item, queue, mishap>>
    /\ UNCHANGED <<uploads, needs, big, landed>>

\* downloadToTemp, and ffprobe or ffmpeg on the copy.
ReadMedia(h) ==
    /\ task[h].step \in {"probeRead", "transcodeRead", "thumbRead"}
    /\ LET v == object[<<"media", task[h].file>>]
       IN  \/ (v = 0 \/ "ffmpeg" \in MediaFaults) /\ Fails(h)
           \/ /\ v # 0
              /\ task' = [task EXCEPT ![h].from = v, ![h].step =
                            CASE @ = "probeRead"     -> "probeChain"
                              [] @ = "transcodeRead" -> "transcodeSave"
                              [] @ = "thumbRead"     -> "thumbSave"]
              /\ UNCHANGED <<object, item, queue, mishap>>
    /\ UNCHANGED <<uploads, needs, big, landed>>

\* A codec that browsers do not play goes on to transcode, else this is it.
ProbeChain(h) ==
    /\ TaskAt(h, "probeChain")
    /\ IF task[h].from \in needs
       THEN Send("transcode") /\ UNCHANGED item
       ELSE SetStatus("ready") /\ UNCHANGED queue
    /\ TaskTo(h, "probeThumb")
    /\ UNCHANGED <<object, uploads, needs, big, landed>>

ProbeThumb(h) ==
    /\ TaskAt(h, "probeThumb")
    /\ IF task[h].old = None THEN Send("thumbnail") ELSE UNCHANGED queue
    /\ TaskEnds(h)
    /\ UNCHANGED <<object, uploads, needs, big, landed, item>>

\* uploadFromTemp, under a key derived from the media key of the row loaded.
SaveDerived(h, step, kind, next) ==
    /\ TaskAt(h, step)
    /\ object' = [object EXCEPT ![<<kind, task[h].file>>] = task[h].from]
    /\ TaskTo(h, next)
    /\ UNCHANGED <<uploads, needs, big, landed, item, queue>>

TranscodeSave(h) == SaveDerived(h, "transcodeSave", "transcoded", "transcodeRow")
ThumbSave(h)     == SaveDerived(h, "thumbSave", "thumb", "thumbRow")

TranscodeRow(h) ==
    /\ TaskAt(h, "transcodeRow")
    /\ item' = [item EXCEPT !.transcoded = task[h].file, !.status = "ready"]
    /\ TaskEnds(h)
    /\ UNCHANGED <<object, uploads, needs, big, landed, queue>>

ThumbRow(h) ==
    /\ TaskAt(h, "thumbRow")
    /\ item' = [item EXCEPT !.thumb = task[h].file]
    /\ TaskEnds(h)
    /\ UNCHANGED <<object, uploads, needs, big, landed, queue>>

-----------------------------------------------------------------------------
(* Calls of the content routes; requireContentOwnership loads the row *)

LoadItem(h, s) ==
    /\ ~item.deleted
    /\ BeginTask(h, s)

ThumbObject(r) ==
    IF r.thumb \in Files THEN {<<"thumb", r.thumb>>} ELSE {}
MediaObject(r) ==
    IF r.media = None THEN {} ELSE {<<"media", r.media>>}
TranscodedObject(r) ==
    IF r.transcoded = None THEN {} ELSE {<<"transcoded", r.transcoded>>}

\* PATCH with clearMedia: the storage deletes, then one UPDATE.
ClearMedia(h) ==
    /\ LoadItem(h, [NoTask EXCEPT !.step = "sweep", !.old = "media",
           !.sweep = MediaObject(item) \cup ThumbObject(item) \cup TranscodedObject(item)])
    /\ UNCHANGED <<object, uploads, needs, big, landed, item, queue>>

\* PATCH with clearThumbnail.
ClearThumbnail(h) ==
    /\ LoadItem(h, [NoTask EXCEPT !.step = "sweep", !.old = "thumb",
                                  !.sweep = ThumbObject(item)])
    /\ UNCHANGED <<object, uploads, needs, big, landed, item, queue>>

\* DELETE: the soft delete comes first.
Delete(h) ==
    /\ LoadItem(h, [NoTask EXCEPT !.step = "sweep", !.old = None,
                                  !.sweep = MediaObject(item) \cup ThumbObject(item)])
    /\ item' = [item EXCEPT !.deleted = TRUE]
    /\ UNCHANGED <<object, uploads, needs, big, landed, queue>>

\* The deletes one by one, in any order; a failure would leave an object behind.
Sweep(h) ==
    /\ TaskAt(h, "sweep")
    /\ \/ \E o \in task[h].sweep :
            /\ object' = [object EXCEPT ![o] = 0]
            /\ task' = [task EXCEPT ![h].sweep = @ \ {o}]
       \/ /\ task[h].sweep = {}
          /\ task' = [task EXCEPT ![h] = IF @.old = None THEN NoTask
                                         ELSE [@ EXCEPT !.step = "clearRow"]]
          /\ UNCHANGED object
    /\ UNCHANGED <<uploads, needs, big, landed, item, queue, mishap>>

ClearRow(h) ==
    /\ TaskAt(h, "clearRow")
    /\ item' = IF task[h].old = "thumb" THEN [item EXCEPT !.thumb = None]
               ELSE [item EXCEPT !.media = None, !.thumb = None,
                                 !.transcoded = None, !.status = "none"]
    /\ TaskEnds(h)
    /\ UNCHANGED <<object, uploads, needs, big, landed, queue>>

\* A thumbnail upload: its bytes go to the creator's library, whose objects stay.
CustomThumbnail ==
    /\ ~item.deleted
    /\ item' = [item EXCEPT !.thumb = "custom"]
    /\ object' = IF item.thumb \in Files
                 THEN [object EXCEPT ![<<"thumb", item.thumb>>] = 0] ELSE object
    /\ UNCHANGED <<uploads, needs, big, landed, queue, task, mishap>>

\* POST /:id/upload: the old object goes before the new one comes, and stays gone
\* when that fails ("unsaved"); no job looks at the file.
Replace(h, f) ==
    /\ uploads < MaxUploads
    /\ LoadItem(h, [NoTask EXCEPT !.step = "replace", !.file = f, !.old = item.media])
    /\ object' = IF item.media = None THEN object
                 ELSE [object EXCEPT ![<<"media", item.media>>] = 0]
    /\ UNCHANGED <<uploads, needs, big, landed, item, queue>>

ReplaceFile(h) ==
    /\ TaskAt(h, "replace")
    /\ \/ /\ uploads < MaxUploads
          /\ uploads' = uploads + 1
          /\ object' = [object EXCEPT ![<<"media", task[h].file>>] = uploads + 1]
          /\ TaskTo(h, "replaceRow")
       \/ /\ task' = [task EXCEPT ![h] = NoTask]
          /\ mishap' = mishap \cup {"unsaved"}
          /\ UNCHANGED <<object, uploads>>
    /\ UNCHANGED <<needs, big, landed, item, queue>>

ReplaceRow(h) ==
    /\ TaskAt(h, "replaceRow")
    /\ item' = [item EXCEPT !.media = task[h].file]
    /\ TaskEnds(h)
    /\ UNCHANGED <<object, uploads, needs, big, landed, queue>>

\* The process dies.  pg-boss hands out again, when they expire, the jobs that ran;
\* "lost": a completion died between its UPDATE and its send.
MediaCrash ==
    /\ "crash" \in MediaFaults \ mishap
    /\ \E h \in MediaTasks : task[h] # NoTask
    /\ LET ran(q, steps) == Cardinality({h \in MediaTasks : task[h].step \in steps})
       IN  queue' = [q \in Queues |-> queue[q] +
              CASE q = "probe"     -> ran(q, {"probeRead", "probeChain", "probeThumb"})
                [] q = "transcode" -> ran(q, {"transcodeRead", "transcodeSave", "transcodeRow"})
                [] q = "thumbnail" -> ran(q, {"thumbRead", "thumbSave", "thumbRow"})]
    /\ task' = [h \in MediaTasks |-> NoTask]
    /\ mishap' = mishap \cup {"crash"} \cup
                 (IF \E h \in MediaTasks : task[h].step \in {"mark", "send"}
                  THEN {"lost"} ELSE {})
    /\ UNCHANGED <<object, uploads, needs, big, landed, item>>

-----------------------------------------------------------------------------
MediaInit ==
    /\ object = [o \in Objects |-> 0]
    /\ uploads = 0
    /\ needs = {}
    /\ big = {}
    /\ landed = {}
    /\ item = [media |-> None, transcoded |-> None, thumb |-> None,
               status |-> "none", deleted |-> FALSE]
    /\ queue = [q \in Queues |-> 0]
    /\ task = [h \in MediaTasks |-> NoTask]
    /\ mishap = {}

CompleteStep(h) ==
    DropTooBig(h) \/ FindOld(h) \/ DropOld(h) \/ Record(h) \/ Mark(h) \/ SendProbe(h)
JobStep(h) ==
    \/ ReadMedia(h) \/ ProbeChain(h) \/ ProbeThumb(h)
    \/ TranscodeSave(h) \/ TranscodeRow(h) \/ ThumbSave(h) \/ ThumbRow(h)
RouteStep(h) ==
    Sweep(h) \/ ClearRow(h) \/ ReplaceFile(h) \/ ReplaceRow(h)

MediaStep(h) == CompleteStep(h) \/ JobStep(h) \/ RouteStep(h)

MediaRequest(h) ==
    \/ \E f \in Files : Complete(h, f) \/ Replace(h, f)
    \/ ClearMedia(h) \/ ClearThumbnail(h) \/ Delete(h)

MediaNext ==
    \/ \E f \in Files : Put(f)
    \/ \E h \in MediaTasks : MediaRequest(h) \/ TakeJob(h) \/ MediaStep(h)
    \/ CustomThumbnail \/ MediaCrash

MediaSpec == MediaInit /\ [][MediaNext]_mediaVars

\* Calls and jobs run on, and pg-boss hands out what waits in its queues.
MediaFairness ==
    /\ \A h \in MediaTasks : WF_mediaVars(MediaStep(h))
    /\ SF_mediaVars(\E h \in MediaTasks : TakeJob(h))

-----------------------------------------------------------------------------
(* Properties *)

MediaAtRest == \A h \in MediaTasks : task[h] = NoTask

\* What GET /:id/media streams: the transcoded file once the item is ready.
Served ==
    IF item.status = "ready" /\ item.transcoded # None
    THEN <<"transcoded", item.transcoded>> ELSE <<"media", item.media>>

\* The range of every variable.
MediaTypeOK ==
    /\ object \in [Objects -> 0..MaxUploads]
    /\ uploads \in 0..MaxUploads
    /\ needs \cup big \subseteq 1..uploads
    /\ landed \subseteq Files
    /\ item \in Items
    /\ queue \in [Queues -> Nat]
    /\ task \in [MediaTasks -> [step: Jobs \cup Calls \cup {"idle"}, file: Files \cup {None},
                              old: Files \cup {None, "custom", "media", "thumb"},
                              sweep: SUBSET Objects, from: 0..MaxUploads]]
    /\ mishap \subseteq {"overlap", "clash", "retry", "crash", "lost", "unsaved", "refused"}

\* With calls and jobs one after another, in whatever order, the keys in the row
\* lead to files: what a viewer is served exists.  Not so once a file over the limit
\* has been put under the name of the item's own ("refused"), or one not saved.
ServedFileExists ==
    MediaAtRest /\ mishap \subseteq {"retry"} /\ ~item.deleted =>
        /\ item.media # None => object[Served] # 0
        /\ item.thumb \in Files => object[<<"thumb", item.thumb>>] # 0

\* A video does not stay "processing": however jobs overlap with one another and
\* with uploads, deletes and their crashes, one ends with "ready" or "failed".
ProcessingSettles ==
    item.status = "processing" /\ item.media # None
        ~> \/ item.status # "processing"
           \/ item.media = None
           \/ mishap \cap {"lost", "clash"} # {}
=============================================================================
