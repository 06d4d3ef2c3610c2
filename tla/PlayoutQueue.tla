---------------------------- MODULE PlayoutQueue ----------------------------
(***************************************************************************)
(* The durable queue of one playout channel and the Liquidsoap engine that *)
(* plays it: services/playout/* and services/playout-queue-transitions.ts. *)
(*                                                                         *)
(* Each API call is a handler that runs one database statement or engine   *)
(* call per step; between two of its steps (two awaits) any other handler, *)
(* the engine or a fault may act.  The code takes no lock and opens no     *)
(* transaction, so how many handlers overlap is the constant Handlers.     *)
(***************************************************************************)
EXTENDS Naturals, Sequences, FiniteSets, Functions

CONSTANTS
    Handlers,           \* slots for API calls in flight at the same time
    Items,              \* playout items and content an entry can refer to
    Pool,               \* the items assigned to channel_content at first, ready to play
    MaxEntries,         \* bound: rows ever inserted into playout_queue
    MaxPosition,        \* bound: a position that the shift may still raise
    MaxBuffer,          \* bound: tracks waiting in the engine
    MaxEvents,          \* bound: webhooks not yet handled
    AutoFillThreshold,  \* AUTO_FILL_THRESHOLD (5 in the code)
    AutoFillBatch,      \* AUTO_FILL_BATCH (10 in the code)
    PrefetchDepth,      \* PREFETCH_DEPTH (3 in the code)
    HistoryCap,         \* HISTORY_CAP_PER_CHANNEL (100 in the code)
    InsertPositions,    \* bound: the positions an operator asks for
    Requests,           \* the operator requests of this instance
    Faults,             \* the faults of this instance
    None                \* no entry, no item

ASSUME PlayoutAssumption ==
    /\ Handlers # {}
    /\ IsFiniteSet(Items)
    /\ Pool \subseteq Items
    /\ MaxEntries \in Nat
    /\ AutoFillThreshold \in Nat
    /\ AutoFillBatch \in Nat
    /\ AutoFillThreshold <= AutoFillBatch
    /\ PrefetchDepth \in Nat
    /\ HistoryCap \in Nat
    /\ InsertPositions \subseteq Nat \ {0}
    /\ Requests \subseteq {"append", "insertAt", "remove", "skip",
                    "assign", "unassign", "delete"}
    /\ Faults \subseteq {"harbor", "event", "engine", "api"}
    /\ MaxPosition \in Nat
    /\ MaxBuffer \in Nat
    /\ MaxEvents \in Nat
    /\ None \notin 1..MaxEntries
    /\ None \notin Items

\* A row's id is a random UUID in the code; here rows are numbered by birth.
Entries == 1..MaxEntries

Statuses == {"absent", "queued", "playing", "played"}

VARIABLES
    \* table playout_queue, one function per column
    status, position, source, pushed,
    born,      \* the number of rows inserted so far
    \* channel_content, lastPlayedAt as a rank (0: no row, or never), and the items
    pool, recency,
    library,   \* items that exist: a row of a deleted item is deleted with it
    \* the Liquidsoap engine
    buffer,    \* tracks waiting in its request.queue
    airing,    \* the queue track it plays, None while the pool or silence airs
    events,    \* track-event webhooks posted and not yet handled
    accepted,  \* history: entries the engine has ever taken into its queue
    \* the local state of each handler
    pc, row, slot, picks, todo,
    startup    \* the call that is initialize, until it comes to its prefetch

table     == <<status, position, source, pushed, born>>
catalogue == <<pool, recency, library>>
engine    == <<buffer, airing, events, accepted>>
handlers  == <<pc, row, slot, picks, todo, startup>>
vars      == <<table, catalogue, engine, handlers>>

PCs == {"idle", "reset", "eventMark", "eventStats", "skipMark", "skipEngine",
        "promotePick", "promoteSet", "fillDepth", "fillPick", "fillMax",
        "fillRows", "insertRow", "removeDelete",
        "pushSelect", "pushSend", "pushFlag"}

-----------------------------------------------------------------------------
(* What the queries return *)

WithStatus(S) == {e \in Entries : status[e] \in S}
Queued        == WithStatus({"queued"})
Playing       == WithStatus({"playing"})
Live          == WithStatus({"queued", "playing"})

\* ORDER BY key ASC LIMIT n over S: every list that ties allow.
FirstBy(key, S, n) ==
    LET k == IF Cardinality(S) < n THEN Cardinality(S) ELSE n
    IN  {s \in [1..k -> S] :
            /\ \A i, j \in 1..k : i < j => /\ s[i] # s[j]
                                           /\ key[s[i]] <= key[s[j]]
            /\ \A x \in S : (\A i \in 1..k : s[i] # x)
                               => \A i \in 1..k : key[s[i]] <= key[x]}

\* The greatest of a set of numbers, as the singleton that holds it.
Greatest(S) == {m \in S : \A n \in S : n <= m}

\* SELECT MAX(position) over the live rows, 0 when there is none.
MaxLivePosition == Greatest({0} \cup {position[e] : e \in Live})

\* Mutated Candidates: the subquery forgets the playing row.
CandidatesPlayingToo == {i \in pool : \A e \in Queued : source[e] # i}

\* Items of the pool that no live row refers to: what auto-fill may pick.
Candidates == {i \in pool : \A e \in Live : source[e] # i}

-----------------------------------------------------------------------------
(* Writes shared by several operations *)

\* Control of handler h moves on to step p.
Goto(h, p) == pc' = [pc EXCEPT ![h] = p]

\* UPDATE ... SET status WHERE id: no row is touched when it has been deleted.
SetStatus(e, s) ==
    status' = IF status[e] = "absent" THEN status ELSE [status EXCEPT ![e] = s]

\* DELETE of the rows of S; their source outlives them in rows already loaded.
DeleteRows(S) ==
    /\ status' = [e \in Entries |-> IF e \in S THEN "absent" ELSE status[e]]
    /\ position' = [e \in Entries |-> IF e \in S THEN 0 ELSE position[e]]
    /\ pushed' = [e \in Entries |-> pushed[e] /\ e \notin S]
    /\ UNCHANGED <<source, born>>

\* INSERT of one row per item, queued at consecutive positions from p.
InsertRows(items, p) ==
    LET new == born + 1 .. born + Len(items)
    IN  /\ born + Len(items) <= MaxEntries
        /\ born' = born + Len(items)
        /\ status' = [e \in Entries |-> IF e \in new THEN "queued" ELSE status[e]]
        /\ position' = [e \in Entries |->
                          IF e \in new THEN p + (e - born - 1) ELSE position[e]]
        /\ source' = [e \in Entries |->
                          IF e \in new THEN items[e - born] ELSE source[e]]
        /\ pushed' = [e \in Entries |-> IF e \in new THEN FALSE ELSE pushed[e]]

\* The engine ends what airs and takes the next track of its queue, if any:
\* the start of a queue track posts a track-event, a pool track posts none.
EngineNext ==
    IF buffer = <<>>
    THEN airing' = None /\ UNCHANGED <<buffer, events>>
    ELSE /\ events < MaxEvents
         /\ airing' = Head(buffer)
         /\ buffer' = Tail(buffer)
         /\ events' = events + 1

-----------------------------------------------------------------------------
(* onTrackStarted: the webhook that Liquidsoap posts when a track starts *)

\* Mutated TrackStarted: the select forgets the status.
TrackStartedAnyLive(h) ==
    /\ pc[h] = "idle"
    /\ events > 0
    /\ events' = events - 1
    /\ \E e \in Live : row' = [row EXCEPT ![h] = e]
    /\ Goto(h, "eventMark")
    /\ UNCHANGED <<table, catalogue, buffer, airing, accepted, slot, picks, todo, startup>>

\* Mutated TrackStarted: an early return when nothing is on.
TrackStartedNeedsPlaying(h) ==
    /\ pc[h] = "idle"
    /\ events > 0
    /\ events' = events - 1
    /\ \/ Playing = {} /\ UNCHANGED <<row, pc>>
       \/ \E e \in Playing : /\ row' = [row EXCEPT ![h] = e]
                             /\ Goto(h, "eventMark")
    /\ UNCHANGED <<table, catalogue, buffer, airing, accepted, slot, picks, todo, startup>>

\* Select the playing row (no order: any of them); the uri is not looked at.
TrackStarted(h) ==
    /\ pc[h] = "idle"
    /\ events > 0
    /\ events' = events - 1
    /\ \/ /\ Playing = {}
          /\ Goto(h, "promotePick")
          /\ UNCHANGED row
       \/ \E e \in Playing : /\ row' = [row EXCEPT ![h] = e]
                             /\ Goto(h, "eventMark")
    /\ UNCHANGED <<table, catalogue, buffer, airing, accepted, slot, picks, todo, startup>>

\* Mutated EventMark: play statistics only, markPlayed is dropped.
EventMarkNothing(h) ==
    /\ pc[h] = "eventMark"
    /\ Goto(h, "eventStats")
    /\ UNCHANGED <<table, catalogue, engine, row, slot, picks, todo, startup>>

\* markPlayed.
EventMark(h) ==
    /\ pc[h] = "eventMark"
    /\ SetStatus(row[h], "played")
    /\ Goto(h, "eventStats")
    /\ UNCHANGED <<position, source, pushed, born, catalogue, engine,
                   row, slot, picks, todo, startup>>

\* lastPlayedAt := now for the item of the row in hand, if it is in the pool.
EventStats(h) ==
    /\ pc[h] = "eventStats"
    /\ IF source[row[h]] \in pool
       THEN \E m \in Greatest({0} \cup {recency[i] : i \in pool}) :
                recency' = [recency EXCEPT ![source[row[h]]] = m + 1]
       ELSE UNCHANGED recency
    /\ row' = [row EXCEPT ![h] = None]
    /\ Goto(h, "promotePick")
    /\ UNCHANGED <<table, pool, library, engine, slot, picks, todo, startup>>

-----------------------------------------------------------------------------
(* promoteNext, auto-fill and prefetch: the tail that track-event and skip share *)

\* Mutated PromotePick: no ORDER BY.
PromotePickUnordered(h) ==
    /\ pc[h] = "promotePick"
    /\ \E e \in Queued : row' = [row EXCEPT ![h] = e]
    /\ Goto(h, "promoteSet")
    /\ UNCHANGED <<table, catalogue, engine, slot, picks, todo, startup>>

\* Select the queued row of the lowest position; of rows that tie, any.
PromotePick(h) ==
    /\ pc[h] = "promotePick"
    /\ \/ /\ Queued = {}
          /\ Goto(h, "fillDepth")
          /\ UNCHANGED row
       \/ /\ \E e \in Queued :
                /\ \A f \in Queued : position[e] <= position[f]
                /\ row' = [row EXCEPT ![h] = e]
          /\ Goto(h, "promoteSet")
    /\ UNCHANGED <<table, catalogue, engine, slot, picks, todo, startup>>

\* The status of the row in hand is not looked at again.
PromoteSet(h) ==
    /\ pc[h] = "promoteSet"
    /\ SetStatus(row[h], "playing")
    /\ row' = [row EXCEPT ![h] = None]
    /\ Goto(h, "fillDepth")
    /\ UNCHANGED <<position, source, pushed, born, catalogue, engine,
                   slot, picks, todo, startup>>

\* The depth check of the caller and the one autoFill repeats: the outcome of
\* the pair is the outcome of one of the two moments.
FillDepth(h) ==
    /\ pc[h] = "fillDepth"
    /\ IF Cardinality(Live) < AutoFillThreshold
       THEN /\ slot' = [slot EXCEPT ![h] = AutoFillBatch - Cardinality(Live)]
            /\ Goto(h, "fillPick")
       ELSE Goto(h, "pushSelect") /\ UNCHANGED slot
    /\ UNCHANGED <<table, catalogue, engine, row, picks, todo, startup>>

\* The candidate query: least recently played first, never played before all.
\* MaxEntries also bounds what it returns.
FillPick(h) ==
    /\ pc[h] = "fillPick"
    /\ LET free == MaxEntries - born
           n    == IF slot[h] < free THEN slot[h] ELSE free
       IN  \E s \in FirstBy(recency, Candidates, n) :
             /\ picks' = [picks EXCEPT ![h] = s]
             /\ Goto(h, IF s = <<>> THEN "pushSelect" ELSE "fillMax")
    /\ slot' = [slot EXCEPT ![h] = 0]
    /\ UNCHANGED <<table, catalogue, engine, row, todo, startup>>

\* enqueueBatch: MAX(position), then one INSERT of all rows.
FillMax(h) ==
    /\ pc[h] = "fillMax"
    /\ \E m \in MaxLivePosition : slot' = [slot EXCEPT ![h] = m + 1]
    /\ Goto(h, "fillRows")
    /\ UNCHANGED <<table, catalogue, engine, row, picks, todo, startup>>

\* If an item picked is gone the INSERT fails as a whole: initialize catches
\* that and goes on, any other call ends with it.
FillRows(h) ==
    /\ pc[h] = "fillRows"
    /\ \/ /\ Range(picks[h]) \subseteq library
          /\ InsertRows(picks[h], slot[h])
          /\ Goto(h, "pushSelect")
       \/ /\ ~(Range(picks[h]) \subseteq library)
          /\ Goto(h, IF startup = h THEN "pushSelect" ELSE "idle")
          /\ UNCHANGED table
    /\ slot' = [slot EXCEPT ![h] = 0]
    /\ picks' = [picks EXCEPT ![h] = <<>>]
    /\ UNCHANGED <<catalogue, engine, row, todo, startup>>

\* Mutated PushSelect: no ORDER BY.
PushSelectUnordered(h) ==
    /\ pc[h] = "pushSelect"
    /\ \E s \in FirstBy([e \in Entries |-> 0], {e \in Live : ~pushed[e]},
                      PrefetchDepth) :
         /\ todo' = [todo EXCEPT ![h] = s]
         /\ Goto(h, IF s = <<>> THEN "idle" ELSE "pushSend")
    /\ startup' = IF startup = h THEN None ELSE startup
    /\ UNCHANGED <<table, catalogue, engine, row, slot, picks>>

\* pushPrefetchBuffer: the first PrefetchDepth live rows not yet pushed.
PushSelect(h) ==
    /\ pc[h] = "pushSelect"
    /\ \E s \in FirstBy(position, {e \in Live : ~pushed[e]}, PrefetchDepth) :
         /\ todo' = [todo EXCEPT ![h] = s]
         /\ Goto(h, IF s = <<>> THEN "idle" ELSE "pushSend")
    /\ startup' = IF startup = h THEN None ELSE startup
    /\ UNCHANGED <<table, catalogue, engine, row, slot, picks>>

\* The loop goes on with the rest of its list.
PushRest(h) ==
    /\ todo' = [todo EXCEPT ![h] = Tail(todo[h])]
    /\ Goto(h, IF Len(todo[h]) = 1 THEN "idle" ELSE "pushSend")

EngineTakes(e) ==
    /\ Len(buffer) < MaxBuffer
    /\ buffer' = Append(buffer, e)
    /\ accepted' = accepted \cup {e}
    /\ UNCHANGED <<airing, events>>

\* Mutated PushSend: the result is not looked at.
PushSendUnchecked(h) ==
    /\ pc[h] = "pushSend"
    /\ \/ EngineTakes(Head(todo[h]))
       \/ "harbor" \in Faults /\ UNCHANGED engine
    /\ Goto(h, "pushFlag")
    /\ UNCHANGED <<table, catalogue, row, slot, picks, todo, startup>>

\* resolveContentUri and pushTrack: taken and acknowledged; or not taken (no
\* engine, or the item gone before its uri was read); or taken and the answer
\* lost to the 3 s timeout, which the loop sees as failed.
PushSend(h) ==
    /\ pc[h] = "pushSend"
    /\ \/ /\ EngineTakes(Head(todo[h]))
          /\ Goto(h, "pushFlag")
          /\ UNCHANGED todo
       \/ /\ "harbor" \in Faults \/ source[Head(todo[h])] \notin library
          /\ PushRest(h)
          /\ UNCHANGED engine
       \/ /\ "harbor" \in Faults
          /\ EngineTakes(Head(todo[h]))
          /\ PushRest(h)
    /\ UNCHANGED <<table, catalogue, row, slot, picks, startup>>

PushFlag(h) ==
    /\ pc[h] = "pushFlag"
    /\ pushed' = [pushed EXCEPT ![Head(todo[h])] =
                               status[Head(todo[h])] # "absent"]
    /\ PushRest(h)
    /\ UNCHANGED <<status, position, source, born, catalogue, engine,
                   row, slot, picks, startup>>

-----------------------------------------------------------------------------
(* The operator's requests *)

\* skip: select the playing row, mark it played, skip in the engine, promote.
Skip(h) ==
    /\ pc[h] = "idle"
    /\ "skip" \in Requests
    /\ \/ /\ Playing = {}
          /\ Goto(h, "skipEngine")
          /\ UNCHANGED row
       \/ \E e \in Playing : /\ row' = [row EXCEPT ![h] = e]
                             /\ Goto(h, "skipMark")
    /\ UNCHANGED <<table, catalogue, engine, slot, picks, todo, startup>>

SkipMark(h) ==
    /\ pc[h] = "skipMark"
    /\ SetStatus(row[h], "played")
    /\ row' = [row EXCEPT ![h] = None]
    /\ Goto(h, "skipEngine")
    /\ UNCHANGED <<position, source, pushed, born, catalogue, engine,
                   slot, picks, todo, startup>>

\* A failed skipTrack is logged and the queue advances all the same.
SkipEngine(h) ==
    /\ pc[h] = "skipEngine"
    /\ \/ EngineNext /\ UNCHANGED accepted
       \/ "harbor" \in Faults /\ UNCHANGED engine
    /\ Goto(h, "promotePick")
    /\ UNCHANGED <<table, catalogue, row, slot, picks, todo, startup>>

\* insertIntoQueue without a position: MAX(position), then the INSERT.
AppendItem(h, i) ==
    /\ pc[h] = "idle"
    /\ "append" \in Requests
    /\ i \in library
    /\ born < MaxEntries
    /\ \E m \in MaxLivePosition : slot' = [slot EXCEPT ![h] = m + 1]
    /\ picks' = [picks EXCEPT ![h] = <<i>>]
    /\ Goto(h, "insertRow")
    /\ UNCHANGED <<table, catalogue, engine, row, todo, startup>>

\* insertIntoQueue at p: queued rows from p on move up by one, then the INSERT.
InsertItemAt(h, i, p) ==
    /\ pc[h] = "idle"
    /\ "insertAt" \in Requests
    /\ i \in library
    /\ born < MaxEntries
    /\ \A e \in Queued : position[e] < MaxPosition
    /\ position' = [e \in Entries |-> IF e \in Queued /\ position[e] >= p
                                      THEN position[e] + 1 ELSE position[e]]
    /\ slot' = [slot EXCEPT ![h] = p]
    /\ picks' = [picks EXCEPT ![h] = <<i>>]
    /\ Goto(h, "insertRow")
    /\ UNCHANGED <<status, source, pushed, born, catalogue, engine, row, todo, startup>>

\* If the item is gone the INSERT fails, and a shift made for it stays.
InsertRow(h) ==
    /\ pc[h] = "insertRow"
    /\ \/ /\ Range(picks[h]) \subseteq library
          /\ InsertRows(picks[h], slot[h])
          /\ Goto(h, "pushSelect")
       \/ /\ ~(Range(picks[h]) \subseteq library)
          /\ Goto(h, "idle")
          /\ UNCHANGED table
    /\ slot' = [slot EXCEPT ![h] = 0]
    /\ picks' = [picks EXCEPT ![h] = <<>>]
    /\ UNCHANGED <<catalogue, engine, row, todo, startup>>

\* removeFromQueue: load the row; no row is 404, a playing row is 409.
RemoveLoad(h, e) ==
    /\ pc[h] = "idle"
    /\ "remove" \in Requests
    /\ status[e] \notin {"absent", "playing"}
    /\ row' = [row EXCEPT ![h] = e]
    /\ Goto(h, "removeDelete")
    /\ UNCHANGED <<table, catalogue, engine, slot, picks, todo, startup>>

RemoveRefused(h, e) ==
    /\ pc[h] = "idle"
    /\ "remove" \in Requests
    /\ status[e] \in {"absent", "playing"}
    /\ UNCHANGED vars

\* removeQueued trusts the row in hand: DELETE WHERE id, no second look.
RemoveDelete(h) ==
    /\ pc[h] = "removeDelete"
    /\ DeleteRows({row[h]})
    /\ row' = [row EXCEPT ![h] = None]
    /\ Goto(h, "idle")
    /\ UNCHANGED <<catalogue, engine, slot, picks, todo, startup>>

-----------------------------------------------------------------------------
(* The catalogue: each operation is one statement that matters here *)

\* assignContent; assigning again what is in the pool changes nothing.
AssignItem(i) ==
    /\ "assign" \in Requests
    /\ i \in library \ pool
    /\ pool' = pool \cup {i}
    /\ UNCHANGED <<table, recency, library, engine, handlers>>

\* removeContent, and archiveCreator: the queue is left alone.
RemoveItem(i) ==
    /\ "unassign" \in Requests
    /\ i \in pool
    /\ pool' = pool \ {i}
    /\ recency' = [recency EXCEPT ![i] = 0]
    /\ UNCHANGED <<table, library, engine, handlers>>

\* deletePlayoutItem: the delete cascades to the pool and to every row of the
\* queue, the playing one too.
DeleteItem(i) ==
    /\ "delete" \in Requests
    /\ i \in library
    /\ library' = library \ {i}
    /\ pool' = pool \ {i}
    /\ recency' = [recency EXCEPT ![i] = 0]
    /\ DeleteRows({e \in Entries : source[e] = i})
    /\ UNCHANGED <<engine, handlers>>

-----------------------------------------------------------------------------
(* Startup, the hourly cleanup, the engine and the faults *)

\* initialize: live rows are to be pushed again, then auto-fill and prefetch.
StartupReset(h) ==
    /\ pc[h] = "reset"
    /\ pushed' = [e \in Entries |-> pushed[e] /\ e \notin Live]
    /\ Goto(h, "fillDepth")
    /\ UNCHANGED <<status, position, source, born, catalogue, engine,
                   row, slot, picks, todo, startup>>

\* handlePlayoutQueueCleanup: all but the last HistoryCap played rows go.
CleanupPlayed ==
    LET history == WithStatus({"played"})
    IN  \E old \in SUBSET history :
          /\ old # {}
          /\ Cardinality(history \ old) = HistoryCap
          /\ \A e \in old, f \in history \ old : position[e] <= position[f]
          /\ DeleteRows(old)
          /\ UNCHANGED <<catalogue, engine, handlers>>

\* A track ends, or a pool track ends while the queue has something ready.
EngineAdvance ==
    /\ airing # None \/ buffer # <<>>
    /\ EngineNext
    /\ UNCHANGED <<table, catalogue, accepted, handlers>>

\* regenerateAndRestart, or a crash: the request.queue does not survive.
EngineRestart ==
    /\ "engine" \in Faults
    /\ airing # None \/ buffer # <<>>
    /\ airing' = None
    /\ buffer' = <<>>
    /\ UNCHANGED <<table, catalogue, events, accepted, handlers>>

\* http.post is tried once: the API is down or restarting, or it times out.
LoseEvent ==
    /\ "event" \in Faults
    /\ events > 0
    /\ events' = events - 1
    /\ UNCHANGED <<table, catalogue, buffer, airing, accepted, handlers>>

\* The API process dies with every call in flight and starts up again.
ApiRestart ==
    /\ "api" \in Faults
    /\ startup' \in Handlers
    /\ pc' = [h \in Handlers |-> IF h = startup' THEN "reset" ELSE "idle"]
    /\ row' = [h \in Handlers |-> None]
    /\ slot' = [h \in Handlers |-> 0]
    /\ picks' = [h \in Handlers |-> <<>>]
    /\ todo' = [h \in Handlers |-> <<>>]
    /\ UNCHANGED <<table, catalogue, engine>>

-----------------------------------------------------------------------------
\* First boot on an empty queue: startup is running in one slot.
Init ==
    /\ status = [e \in Entries |-> "absent"]
    /\ position = [e \in Entries |-> 0]
    /\ source = [e \in Entries |-> None]
    /\ pushed = [e \in Entries |-> FALSE]
    /\ born = 0
    /\ pool = Pool
    /\ recency = [i \in Items |-> 0]
    /\ library = Items
    /\ buffer = <<>>
    /\ airing = None
    /\ events = 0
    /\ accepted = {}
    /\ startup \in Handlers
    /\ pc = [h \in Handlers |-> IF h = startup THEN "reset" ELSE "idle"]
    /\ row = [h \in Handlers |-> None]
    /\ slot = [h \in Handlers |-> 0]
    /\ picks = [h \in Handlers |-> <<>>]
    /\ todo = [h \in Handlers |-> <<>>]

\* The next step of a call in flight.
Step(h) ==
    \/ EventMark(h) \/ EventStats(h)
    \/ SkipMark(h) \/ SkipEngine(h)
    \/ PromotePick(h) \/ PromoteSet(h)
    \/ FillDepth(h) \/ FillPick(h) \/ FillMax(h) \/ FillRows(h)
    \/ PushSelect(h) \/ PushSend(h) \/ PushFlag(h)
    \/ InsertRow(h) \/ RemoveDelete(h) \/ StartupReset(h)

Request(h) ==
    \/ Skip(h)
    \/ \E i \in Items : AppendItem(h, i)
    \/ \E i \in Items, p \in InsertPositions : InsertItemAt(h, i, p)
    \/ \E e \in Entries : RemoveLoad(h, e) \/ RemoveRefused(h, e)

Next ==
    \/ \E h \in Handlers : TrackStarted(h) \/ Step(h) \/ Request(h)
    \/ \E i \in Items : AssignItem(i) \/ RemoveItem(i) \/ DeleteItem(i)
    \/ CleanupPlayed
    \/ EngineAdvance \/ EngineRestart \/ LoseEvent \/ ApiRestart

Spec == Init /\ [][Next]_vars

\* A call runs on to its end, the API answers the webhooks it gets, and a
\* track that airs comes to its end: none of the three waits for an operator.
FairSpec ==
    /\ Spec
    /\ \A h \in Handlers : WF_vars(Step(h)) /\ WF_vars(TrackStarted(h))
    /\ WF_vars(EngineAdvance)

-----------------------------------------------------------------------------
(* Properties *)

\* The range of every variable.
TypeOK ==
    /\ status \in [Entries -> Statuses]
    /\ position \in [Entries -> Nat]
    /\ source \in [Entries -> Items \cup {None}]
    /\ pushed \in [Entries -> BOOLEAN]
    /\ born \in 0..MaxEntries
    /\ pool \subseteq library
    /\ recency \in [Items -> Nat]
    /\ library \subseteq Items
    /\ buffer \in Seq(Entries)
    /\ airing \in Entries \cup {None}
    /\ events \in Nat
    /\ accepted \subseteq Entries
    /\ pc \in [Handlers -> PCs]
    /\ row \in [Handlers -> Entries \cup {None}]
    /\ slot \in [Handlers -> Nat]
    /\ picks \in [Handlers -> Seq(Items)]
    /\ todo \in [Handlers -> Seq(Entries)]
    /\ startup \in Handlers \cup {None}

\* A channel has one now-playing entry: getChannelQueueStatus reports the first
\* playing row it finds, and markPlayed only ever retires one of them.  Holds
\* while calls do not overlap, through crashes between markPlayed and promoteNext.
AtMostOnePlaying == \A e, f \in Playing : e = f

\* No two waiting entries share a position, so promoteNext and the prefetch
\* agree on the order: enqueue and enqueueBatch compute positions from an
\* earlier read, and a crash may separate the shift from the INSERT.
QueuedPositionsDistinct ==
    \A e, f \in Queued : position[e] = position[f] => e = f

\* autoFill adds no item that is live already, and never fills beyond
\* AutoFillBatch, though it counts, picks and inserts in separate statements.
AutoFillTopsUp ==
    [][\A h \in Handlers : pc[h] = "fillRows" /\ pc'[h] = "pushSelect" =>
          /\ Cardinality(Live') <= AutoFillBatch
          /\ \A e \in (Live' \ Live), f \in Live' :
                source'[e] = source'[f] => e = f]_vars

\* pushPrefetchBuffer sets pushed_to_liquidsoap only on entries the engine took:
\* an entry whose push failed stays eligible for the next prefetch, whatever
\* else happens to the row while the push is under way.
PushedWasAccepted == \A e \in Entries : pushed[e] => e \in accepted

\* However calls overlap, a queued row is never marked played in one step, a
\* playing or played row never waits again, and a deleted row never comes back,
\* although markPlayed and promoteNext write by id unconditionally. (A played row
\* may play again: a promote that selected it before writes it over the mark.)
NeverRequeued ==
    [][\A e \in Entries :
          /\ status[e] = "queued" => status'[e] # "played"
          /\ status[e] \in {"playing", "played"} => status'[e] # "queued"
          /\ status[e] = "absent" /\ e <= born => status'[e] = "absent"]_vars

\* removeQueued: "Guard: refuses to delete the currently playing entry".  TLC refutes
\* it for two overlapping calls: the guard reads a row loaded before a promotion.
NeverDeletesPlaying ==
    [][\A e \in Playing : status'[e] # "absent"]_vars

\* With every call and webhook handled, the track that airs is the entry that
\* the API reports as now playing.
NowPlayingTracksAir ==
    events = 0 /\ (\A h \in Handlers : pc[h] = "idle") /\ airing # None
        => status[airing] = "playing"

\* An entry that waits leaves the queue in the end: the chain track-event,
\* promotion, auto-fill, prefetch keeps itself going without an operator.
QueueDrains ==
    \A e \in Entries : status[e] = "queued" ~> status[e] # "queued"

\* The queue as its operators see it.
Upcoming   == Queued
Precedes   == {p \in Queued \X Queued : position[p[1]] < position[p[2]]}
NowPlaying == IF Playing = {} THEN None ELSE CHOOSE e \in Playing : TRUE

Lineup == INSTANCE ChannelLineup
            WITH Entry <- Entries, Nobody <- None,
                 upcoming <- Upcoming, precedes <- Precedes,
                 nowPlaying <- NowPlaying, known <- 1..born

\* While calls do not overlap, the table implements the lineup: shifting rows,
\* inserting in batches, playing, skipping, the cleanup of history, and a crash
\* between any two statements of these keep the order and what is on.
ImplementsLineup == Lineup!LineupSpec
=============================================================================
