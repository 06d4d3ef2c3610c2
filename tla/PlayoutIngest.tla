---------------------------- MODULE PlayoutIngest ----------------------------
(***************************************************************************)
(* The playout library: uploads of films through tusd, the pg-boss job     *)
(* that strips and probes them, and the playlist positions of the items    *)
(* (routes/tusd-hooks.routes.ts, services/upload-completion.ts,            *)
(* jobs/handlers/playout-ingest.ts and services/playout.ts).               *)
(*                                                                         *)
(* Rows of playout_items are numbered as they are inserted.  Of a film's   *)
(* bytes the model keeps which upload they come from, and whether they     *)
(* were remuxed: streams other than sound and picture hang the engine.     *)
(***************************************************************************)
EXTENDS ApiCalls, Naturals, FiniteSets

CONSTANTS
    IngestCalls,  \* slots for calls of the API and of tusd
    Films,        \* sanitized file names
    MaxFilms,     \* bound: rows ever inserted
    MaxCopies,    \* bound: uploads ever copied to their place
    MaxWaiting,   \* bound: jobs of a film that wait when a retry begins
    IngestFaults

ASSUME IngestAssumption ==
    /\ None \notin Films
    /\ MaxFilms \in Nat /\ MaxCopies \in Nat /\ MaxWaiting \in Nat
    /\ IngestFaults \subseteq {"media", "crash"}

VARIABLES
    film,     \* playout_items, None for a row not inserted yet or deleted
    filmed,   \* rows inserted so far
    reel,     \* storage: the object under each key
    copied,   \* uploads copied to their place so far
    newest,   \* history: the last upload copied to each key
    ingests,  \* pg-boss: ingest jobs that wait, by row
    worker,   \* the job that runs: localConcurrency is 1
    desk,     \* the call in each slot
    amiss     \* history: what has gone on that a property excuses

ingestVars == <<film, filmed, reel, copied, newest, ingests, worker, desk, amiss>>

Rows == 1..MaxFilms
Live == {r \in Rows : film[r] # None}

NoWork == [step |-> "idle", row |-> 0, file |-> None, blank |-> FALSE, from |-> 0]
NoDesk == [step |-> "idle", row |-> 0, file |-> None, position |-> 0, seen |-> 0, list |-> <<>>]

DeskAt(h, s) == desk[h].step = s
DeskEnds(h)  == desk' = [desk EXCEPT ![h] = NoDesk]
WorkerTo(s)  == worker' = [worker EXCEPT !.step = s]

\* UPDATE playout_items ... WHERE id: no row, no effect.
SetFilm(r, f) == film' = IF film[r] = None THEN film ELSE [film EXCEPT ![r] = f]

-----------------------------------------------------------------------------
(* tusd's post-finish hook *)

\* The object moves from its tus key to the key that the file's name gives: a
\* second upload of that name takes the place of the first, before anything is checked.
CopyUpload(h, r, f) ==
    /\ desk[h] = NoDesk
    /\ r \in Live
    /\ copied < MaxCopies
    /\ copied' = copied + 1
    /\ reel' = [reel EXCEPT ![<<r, f>>] = [from |-> copied + 1, clean |-> FALSE]]
    /\ newest' = [newest EXCEPT ![<<r, f>>] = copied + 1]
    /\ desk' = [desk EXCEPT ![h] = [NoDesk EXCEPT !.step = "check", !.row = r, !.file = f]]
    /\ amiss' = IF worker.row = r /\ worker.file = f /\ worker.from > 0
                THEN amiss \cup {"overwritten"} ELSE amiss
    /\ UNCHANGED <<film, filmed, ingests, worker>>

\* completeUploadFlow: the admin role, then HEAD and the size of what the key holds.
CheckUpload(h) ==
    /\ DeskAt(h, "check")
    /\ reel[<<desk[h].row, desk[h].file>>].from > 0
    /\ desk' = [desk EXCEPT ![h].step = "record"]
    /\ UNCHANGED <<film, filmed, reel, copied, newest, ingests, worker, amiss>>

\* The role or HEAD refuses and the copy stays, or it is too large and is deleted: HEAD
\* and DELETE are one step, since any size is possible.  "refused": a row names the key.
RefuseUpload(h) ==
    /\ DeskAt(h, "check")
    /\ LET k == <<desk[h].row, desk[h].file>>
       IN  \/ UNCHANGED reel
           \/ reel' = [reel EXCEPT ![k] = [from |-> 0, clean |-> FALSE]]
    /\ amiss' = IF desk[h].row \in Live /\ film[desk[h].row].source = desk[h].file
                THEN amiss \cup {"refused"} ELSE amiss
    /\ DeskEnds(h)
    /\ UNCHANGED <<film, filmed, copied, newest, ingests, worker>>

\* recordUpload.
RecordSource(h) ==
    /\ DeskAt(h, "record")
    /\ SetFilm(desk[h].row, [film[desk[h].row] EXCEPT !.source = desk[h].file])
    /\ desk' = [desk EXCEPT ![h].step = "mark"]
    /\ UNCHANGED <<filmed, reel, copied, newest, ingests, worker, amiss>>

MarkUploading(h) ==
    /\ DeskAt(h, "mark")
    /\ SetFilm(desk[h].row, [film[desk[h].row] EXCEPT !.status = "uploading"])
    /\ desk' = [desk EXCEPT ![h].step = "send"]
    /\ UNCHANGED <<filmed, reel, copied, newest, ingests, worker, amiss>>

SendIngest(h) ==
    /\ DeskAt(h, "send")
    /\ ingests' = [ingests EXCEPT ![desk[h].row] = @ + 1]
    /\ DeskEnds(h)
    /\ UNCHANGED <<film, filmed, reel, copied, newest, worker, amiss>>

-----------------------------------------------------------------------------
(* handlePlayoutIngest *)

\* The row as it is now: its key and what is blank in it are used to the end.
TakeIngest(r) ==
    /\ worker = NoWork
    /\ ingests[r] > 0
    /\ ingests' = [ingests EXCEPT ![r] = @ - 1]
    /\ worker' = IF r \notin Live \/ film[r].source = None THEN worker
                 ELSE [NoWork EXCEPT !.step = "start", !.row = r, !.file = film[r].source,
                                     !.blank = (film[r].title = None)]
    /\ UNCHANGED <<film, filmed, reel, copied, newest, desk, amiss>>

StartIngest ==
    /\ worker.step = "start"
    /\ SetFilm(worker.row, [film[worker.row] EXCEPT !.status = "processing"])
    /\ WorkerTo("download")
    /\ UNCHANGED <<filmed, reel, copied, newest, ingests, desk, amiss>>

\* downloadToTemp and the remux of the copy.
Remux ==
    /\ worker.step = "download"
    /\ reel[<<worker.row, worker.file>>].from > 0
    /\ worker' = [worker EXCEPT !.step = "save", !.from = reel[<<worker.row, worker.file>>].from]
    /\ UNCHANGED <<film, filmed, reel, copied, newest, ingests, desk, amiss>>

\* Mutated SaveClean: the remuxed file stays on the worker's disk.
SaveNothing ==
    /\ worker.step = "save"
    /\ WorkerTo("probe")
    /\ UNCHANGED <<film, filmed, reel, copied, newest, ingests, desk, amiss>>

\* uploadFromTemp, back under the key that it came from.
SaveClean ==
    /\ worker.step = "save"
    /\ reel' = [reel EXCEPT ![<<worker.row, worker.file>>] = [from |-> worker.from, clean |-> TRUE]]
    /\ WorkerTo("probe")
    /\ UNCHANGED <<film, filmed, copied, newest, ingests, desk, amiss>>

\* Sizes, duration, and a title, if the file has one and the row had none.
FillMetadata ==
    /\ worker.step = "probe"
    /\ \/ /\ worker.blank
          /\ SetFilm(worker.row, [film[worker.row] EXCEPT !.title = "tag"])
       \/ UNCHANGED film
    /\ WorkerTo("ready")
    /\ UNCHANGED <<filmed, reel, copied, newest, ingests, desk, amiss>>

MarkReady ==
    /\ worker.step = "ready"
    /\ SetFilm(worker.row, [film[worker.row] EXCEPT !.status = "ready"])
    /\ worker' = NoWork
    /\ UNCHANGED <<filmed, reel, copied, newest, ingests, desk, amiss>>

\* A download, a remux, an upload or a probe fails: a download, of what is not there.
MarkFailed ==
    /\ worker.step \in {"download", "save", "probe"}
    /\ \/ "media" \in IngestFaults
       \/ worker.step = "download" /\ reel[<<worker.row, worker.file>>].from = 0
    /\ SetFilm(worker.row, [film[worker.row] EXCEPT !.status = "failed"])
    /\ worker' = NoWork
    /\ UNCHANGED <<filmed, reel, copied, newest, ingests, desk, amiss>>

\* The process dies, once.  The job's heartbeat stops and pg-boss hands it out again
\* (retryLimit 1); "lost": a hook died between its statements, and is not repeated.
IngestCrash ==
    /\ "crash" \in IngestFaults \ amiss
    /\ worker # NoWork \/ \E h \in IngestCalls : desk[h] # NoDesk
    /\ ingests' = IF worker = NoWork THEN ingests ELSE [ingests EXCEPT ![worker.row] = @ + 1]
    /\ worker' = NoWork
    /\ desk' = [h \in IngestCalls |-> NoDesk]
    /\ amiss' = amiss \cup {"crash"} \cup
           (IF \E h \in IngestCalls : desk[h].step \in {"check", "record", "mark", "send", "resend"}
            THEN {"lost"} ELSE {})
    /\ UNCHANGED <<film, filmed, reel, copied, newest>>

-----------------------------------------------------------------------------
(* services/playout.ts *)

\* SELECT COALESCE(MAX(position), -1): positions count from 1 here, not from 0.
LastPosition ==
    IF Live = {} THEN 0
    ELSE CHOOSE p \in {film[r].position : r \in Live} :
            \A r \in Live : film[r].position <= p

\* Mutated CreateMax: the new position is the number of rows.
CreateCount(h) ==
    /\ desk[h] = NoDesk
    /\ filmed < MaxFilms
    /\ desk' = [desk EXCEPT ![h] = [NoDesk EXCEPT !.step = "insert", !.seen = filmed,
                                                  !.position = Cardinality(Live) + 1]]
    /\ UNCHANGED <<film, filmed, reel, copied, newest, ingests, worker, amiss>>

CreateMax(h) ==
    /\ desk[h] = NoDesk
    /\ filmed < MaxFilms
    /\ desk' = [desk EXCEPT ![h] = [NoDesk EXCEPT !.step = "insert", !.seen = filmed,
                                                  !.position = LastPosition + 1]]
    /\ UNCHANGED <<film, filmed, reel, copied, newest, ingests, worker, amiss>>

\* "crossed": another item came in since the maximum was read.
InsertFilm(h) ==
    /\ DeskAt(h, "insert")
    /\ filmed < MaxFilms
    /\ filmed' = filmed + 1
    /\ \E t \in {None, "admin"} :
          film' = [film EXCEPT ![filmed + 1] = [status |-> "pending", source |-> None, title |-> t,
                                                position |-> desk[h].position]]
    /\ DeskEnds(h)
    /\ amiss' = IF desk[h].seen # filmed THEN amiss \cup {"crossed"} ELSE amiss
    /\ UNCHANGED <<reel, copied, newest, ingests, worker>>

\* PATCH /items/:id with a title.
Retitle(r) ==
    /\ r \in Live
    /\ film[r].title # "admin"
    /\ film' = [film EXCEPT ![r].title = "admin"]
    /\ UNCHANGED <<filmed, reel, copied, newest, ingests, worker, desk, amiss>>

\* The row goes; its objects stay.
DeleteFilm(h, r) ==
    /\ desk[h] = NoDesk
    /\ r \in Live
    /\ film' = [film EXCEPT ![r] = None]
    /\ desk' = [desk EXCEPT ![h] = [NoDesk EXCEPT !.step = "list"]]
    /\ UNCHANGED <<filmed, reel, copied, newest, ingests, worker, amiss>>

\* SELECT id ORDER BY position: list[r] is the place of r in the answer.
ListRemaining(h) ==
    /\ DeskAt(h, "list")
    /\ IF Live = {} THEN DeskEnds(h)
       ELSE \E list \in [Live -> 1..Cardinality(Live)] :
              /\ \A r, s \in Live : r # s => list[r] # list[s]
              /\ \A r, s \in Live : film[r].position < film[s].position => list[r] < list[s]
              /\ desk' = [desk EXCEPT ![h] = [NoDesk EXCEPT !.step = "reindex", !.list = list]]
    /\ UNCHANGED <<film, filmed, reel, copied, newest, ingests, worker, amiss>>

\* One UPDATE from a list of values, which have no types and which PostgreSQL may refuse.
\* "shuffled": a listed row was deleted since.
Reindex(h) ==
    /\ DeskAt(h, "reindex")
    /\ LET list == desk[h].list
       IN  \/ /\ film' = [r \in Rows |-> IF r \in DOMAIN list \cap Live
                                         THEN [film[r] EXCEPT !.position = list[r]] ELSE film[r]]
              /\ amiss' = IF DOMAIN list \subseteq Live THEN amiss ELSE amiss \cup {"shuffled"}
           \/ UNCHANGED <<film, amiss>>
    /\ DeskEnds(h)
    /\ UNCHANGED <<filmed, reel, copied, newest, ingests, worker>>

\* retryPlayoutIngest: 404, 409 unless failed, 422 without a source.
RetryLoad(h, r) ==
    /\ desk[h] = NoDesk
    /\ r \in Live
    /\ film[r].status = "failed" /\ film[r].source # None
    /\ ingests[r] <= MaxWaiting
    /\ desk' = [desk EXCEPT ![h] = [NoDesk EXCEPT !.step = "reset", !.row = r]]
    /\ UNCHANGED <<film, filmed, reel, copied, newest, ingests, worker, amiss>>

RetryReset(h) ==
    /\ DeskAt(h, "reset")
    /\ SetFilm(desk[h].row, [film[desk[h].row] EXCEPT !.status = "pending"])
    /\ desk' = [desk EXCEPT ![h].step = "resend"]
    /\ UNCHANGED <<filmed, reel, copied, newest, ingests, worker, amiss>>

RetrySend(h) ==
    /\ DeskAt(h, "resend")
    /\ ingests' = [ingests EXCEPT ![desk[h].row] = @ + 1]
    /\ DeskEnds(h)
    /\ UNCHANGED <<film, filmed, reel, copied, newest, worker, amiss>>

-----------------------------------------------------------------------------
IngestInit ==
    /\ film = [r \in Rows |-> None]
    /\ filmed = 0
    /\ reel = [k \in Rows \X Films |-> [from |-> 0, clean |-> FALSE]]
    /\ copied = 0
    /\ newest = [k \in Rows \X Films |-> 0]
    /\ ingests = [r \in Rows |-> 0]
    /\ worker = NoWork
    /\ desk = [h \in IngestCalls |-> NoDesk]
    /\ amiss = {}

WorkerStep == StartIngest \/ Remux \/ SaveClean \/ FillMetadata \/ MarkReady \/ MarkFailed
DeskStep(h) ==
    \/ CheckUpload(h) \/ RefuseUpload(h)
    \/ RecordSource(h) \/ MarkUploading(h) \/ SendIngest(h)
    \/ InsertFilm(h) \/ ListRemaining(h) \/ Reindex(h)
    \/ RetryReset(h) \/ RetrySend(h)

IngestNext ==
    \/ \E h \in IngestCalls :
          \/ CreateMax(h) \/ DeskStep(h)
          \/ \E r \in Rows : DeleteFilm(h, r) \/ RetryLoad(h, r)
                             \/ \E f \in Films : CopyUpload(h, r, f)
    \/ \E r \in Rows : TakeIngest(r) \/ Retitle(r)
    \/ WorkerStep \/ IngestCrash

IngestSpec == IngestInit /\ [][IngestNext]_ingestVars

-----------------------------------------------------------------------------
(* Properties *)

\* The range of every variable.
IngestTypeOK ==
    /\ \A r \in Live : film[r] \in
          [status: {"pending", "uploading", "processing", "ready", "failed"},
           source: Films \cup {None}, title: {None, "admin", "tag"}, position: Nat]
    /\ filmed \in 0..MaxFilms
    /\ reel \in [Rows \X Films -> [from: 0..MaxCopies, clean: BOOLEAN]]
    /\ copied \in 0..MaxCopies
    /\ newest \in [Rows \X Films -> 0..MaxCopies]
    /\ ingests \in [Rows -> Nat]
    /\ amiss \subseteq {"overwritten", "crossed", "shuffled", "crash", "lost", "refused"}

IngestAtRest(r) ==
    /\ worker.row # r
    /\ ingests[r] = 0
    /\ \A h \in IngestCalls : desk[h].row # r

Unharmed == amiss \cap {"overwritten", "lost", "refused"} = {}

\* A ready film plays its last upload, remuxed, however uploads, retries, failures
\* and a crash of the job followed one another, unless a film was uploaded under the
\* same name while its job was at work, an upload under the name of a row's own file was
\* refused when it had already taken its place, or a hook died halfway.
ReadyIsNewest ==
    \A r \in Live :
        IngestAtRest(r) /\ film[r].status = "ready" /\ Unharmed =>
            LET k == <<r, film[r].source>>
            IN  reel[k] = [from |-> newest[k], clean |-> TRUE]

\* The playlist keeps the order in which its items were created, and no two share a
\* place, unless two creates, or a delete and another's reindex, crossed.
PlaylistInOrder ==
    amiss \cap {"crossed", "shuffled"} = {} =>
        \A r, s \in Live : r < s => film[r].position < film[s].position

\* The title an admin has given is not replaced by the file's tag.
AdminTitleKept ==
    [][\A r \in Rows : film[r] # None /\ film'[r] # None /\ film[r].title = "admin"
                          => film'[r].title = "admin"]_ingestVars
=============================================================================
