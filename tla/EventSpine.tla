----------------------------- MODULE EventSpine ------------------------------
(***************************************************************************)
(* The event spine: the bus with its pull subscriptions that coalesce, the *)
(* route that streams them, and the tab that keeps a list fresh by reading *)
(* it again on every event and every time its connection opens.            *)
(* (services/event-bus.ts, routes/sse.routes.ts; in the web app,           *)
(* spine-store.ts, spine-context.tsx, use-polling.ts and live.tsx.)        *)
(* What an event says is not modelled but for its coalescing key: every    *)
(* consumer answers it by fetching.                                        *)
(***************************************************************************)
EXTENDS ApiCalls, Naturals, Sequences, SequencesExt, FiniteSets

CONSTANTS
    Streams,         \* slots for streams on the server
    Pages,           \* tabs
    Keys,            \* coalescing keys: type and channel, or content item
    maxConnections,  \* streams at once
    Backstop,        \* COALESCE_BACKSTOP
    MaxVersion, MaxFetches, MaxLosses,  \* bounds: changes, fetches at once, failures
    SpineFaults

ASSUME SpineAssumption ==
    /\ {maxConnections, Backstop, MaxVersion, MaxFetches, MaxLosses} \subseteq Nat
    /\ SpineFaults \subseteq {"loss", "shutdown"}
    /\ IsFiniteSet(Streams)

VARIABLES
    version,   \* what the API would answer to a fetch, by number
    unpublished,  \* keys of changes that are committed, their events not published yet
    closed,    \* closeAll was called
    stream,    \* the streams, each with its subscription
    page,      \* the tabs: what each shows and fetches; history: whether its fetches
               \* crossed, and whether the last to end failed
    losses,    \* failures so far
    rushed     \* history: streams were admitted together

spineVars == <<version, unpublished, closed, stream, page, losses, rushed>>

NoStream == [step |-> "none", page |-> None, open |-> FALSE, map |-> {}, batch |-> {},
             wire |-> <<>>, cut |-> FALSE]

Subscribed == {s \in Streams : stream[s].open}
connectionCount == Cardinality(Subscribed)

-----------------------------------------------------------------------------
(* The bus *)

\* drain(): the whole map, once.
Drained(r) == [r EXCEPT !.batch = r.map, !.map = {}, !.step = "turn"]
\* close(): a pending next() resolves with [].
Closed(r)  == [r EXCEPT !.open = FALSE, !.step = IF @ = "wait" THEN "turn" ELSE @]

Enqueued(r, k) ==
    LET map == r.map \cup {k}
    IN  IF ~r.open THEN r
        ELSE IF Cardinality(map) > Backstop THEN Closed([r EXCEPT !.map = map])
        ELSE IF r.step = "wait" THEN Drained([r EXCEPT !.map = map])
        ELSE [r EXCEPT !.map = map]

\* A change is committed ...
Change(k) ==
    /\ version < MaxVersion
    /\ version' = version + 1
    /\ unpublished' = unpublished \cup {k}
    /\ UNCHANGED <<closed, stream, page, losses, rushed>>

\* ... and its event published, unless the bus is closed.
Publish(k) ==
    /\ k \in unpublished
    /\ unpublished' = unpublished \ {k}
    /\ stream' = IF closed THEN stream ELSE [s \in Streams |-> Enqueued(stream[s], k)]
    /\ UNCHANGED <<version, closed, page, losses, rushed>>

CloseAll ==
    /\ "shutdown" \in SpineFaults
    /\ ~closed
    /\ closed' = TRUE
    /\ stream' = [s \in Streams |-> Closed(stream[s])]
    /\ UNCHANGED <<version, unpublished, page, losses, rushed>>

-----------------------------------------------------------------------------
(* The route *)

Turn(s, r) ==
    /\ stream' = [stream EXCEPT ![s] = r]
    /\ UNCHANGED <<version, unpublished, closed, page, losses, rushed>>

\* Mutated Subscribe: the handshake is written when the stream is there, and the
\* subscription is made after it.
SubscribeLater(s) ==
    /\ stream[s].step \in {"admitted", "greeted"}
    /\ Turn(s, IF stream[s].step = "admitted"
               THEN [stream[s] EXCEPT !.step = "greeted", !.wire = <<"connected">>]
               ELSE [stream[s] EXCEPT !.step = "next", !.open = TRUE])

\* After the memberships are read: bus.subscribe, then the handshake.
Subscribe(s) ==
    /\ stream[s].step = "admitted"
    /\ Turn(s, [stream[s] EXCEPT !.step = "next", !.open = TRUE,
                                 !.wire = Append(@, "connected")])

\* sub.next(): what has come meanwhile, or the wait for it.
TakeNext(s) ==
    /\ stream[s].step = "next"
    /\ Turn(s, IF ~stream[s].open THEN [stream[s] EXCEPT !.step = "turn"]
               ELSE IF stream[s].map # {} THEN Drained(stream[s])
               ELSE [stream[s] EXCEPT !.step = "wait"])

\* The wait times out: a heartbeat.
Heartbeat(s) ==
    /\ stream[s].step = "wait"
    /\ Turn(s, [stream[s] EXCEPT !.step = "turn"])

\* sub.close() in the finally; the connection ends.
Ended(r) == [r EXCEPT !.open = FALSE, !.step = "over", !.map = {}, !.batch = {},
                      !.wire = Append(@, "end")]

\* Mutated AfterNext: an empty turn is a heartbeat, whatever became of the subscription.
AfterNextBeats(s) ==
    /\ stream[s].step = "turn"
    /\ Turn(s, [stream[s] EXCEPT !.step = IF stream[s].batch = {} THEN "next" ELSE "write"])

\* The loop looks whether it is closed, then writes.
AfterNext(s) ==
    /\ stream[s].step = "turn"
    /\ Turn(s, IF ~stream[s].open THEN Ended(stream[s])
               ELSE [stream[s] EXCEPT !.step = IF stream[s].batch = {} THEN "next"
                                               ELSE "write"])

Write(s) ==
    /\ stream[s].step = "write"
    /\ \E k \in stream[s].batch :
        Turn(s, [stream[s] EXCEPT !.batch = @ \ {k}, !.wire = Append(@, "event"),
                                  !.step = IF stream[s].batch = {k} THEN "next" ELSE @])

\* The lifetime, or the session, is over.
Deadline(s) ==
    /\ stream[s].step = "next"
    /\ Turn(s, Ended(stream[s]))

\* stream.onAbort: the server learns that the tab is gone, and the writes after it
\* go nowhere.
Abort(s) ==
    /\ stream[s].cut /\ stream[s].open
    /\ Turn(s, Closed(stream[s]))

Release(s) ==
    /\ stream[s].step = "over" /\ (stream[s].cut \/ stream[s].wire = <<>>)
    /\ Turn(s, NoStream)

-----------------------------------------------------------------------------
(* The tab *)

StreamsOf(p) == {s \in Streams : stream[s].page = p /\ ~stream[s].cut}

\* The browser connects: over the cap it is refused, and a refusal is final.
Connect(p, s) ==
    /\ page[p].status = "connecting" /\ StreamsOf(p) = {} /\ ~closed
    /\ stream[s] = NoStream
    /\ IF connectionCount >= maxConnections
       THEN /\ page' = [page EXCEPT ![p].status = "closed"]
            /\ UNCHANGED <<stream, rushed>>
       ELSE /\ stream' = [stream EXCEPT ![s] = [NoStream EXCEPT !.step = "admitted", !.page = p]]
            /\ rushed' = (rushed \/ \E r \in Streams : stream[r].step = "admitted")
            /\ UNCHANGED page
    /\ UNCHANGED <<version, unpublished, closed, losses>>

\* A fetch that has not been read by the server yet is None.
Fetched(p) == [page[p] EXCEPT !.fetches = Append(@, None),
                              !.crossed = page[p].fetches # <<>>]
MayFetch(p) == Len(page[p].fetches) < MaxFetches

\* The tab reads the stream: the handshake opens it, which fetches, an event fetches,
\* the end makes the browser connect again.
Arrive(s) ==
    /\ stream[s].wire # <<>> /\ ~stream[s].cut
    /\ LET p == stream[s].page
           what == Head(stream[s].wire)
       IN  /\ what = "end" \/ MayFetch(p)
           /\ page' = [page EXCEPT ![p] =
                IF what = "end" THEN [@ EXCEPT !.status = "connecting"]
                ELSE [Fetched(p) EXCEPT !.status = "open"]]
           /\ stream' = [stream EXCEPT ![s].wire = Tail(@), ![s].cut = @ \/ what = "end"]
    /\ UNCHANGED <<version, unpublished, closed, losses, rushed>>

\* The connection breaks: what was on the way is lost.
Lose(s) ==
    /\ "loss" \in SpineFaults
    /\ losses < MaxLosses
    /\ stream[s].step # "none" /\ ~stream[s].cut
    /\ losses' = losses + 1
    /\ stream' = [stream EXCEPT ![s].cut = TRUE, ![s].wire = <<>>]
    /\ page' = [page EXCEPT ![stream[s].page].status = "connecting"]
    /\ UNCHANGED <<version, unpublished, closed, rushed>>

\* The interval of usePolling.
Poll(p) ==
    /\ page[p].view # version /\ MayFetch(p)
    /\ page' = [page EXCEPT ![p] = Fetched(p)]
    /\ UNCHANGED <<version, unpublished, closed, stream, losses, rushed>>

ReadFetch(p, i) ==
    /\ i \in DOMAIN page[p].fetches /\ page[p].fetches[i] = None
    /\ page' = [page EXCEPT ![p].fetches[i] = version]
    /\ UNCHANGED <<version, unpublished, closed, stream, losses, rushed>>

\* An answer arrives; answers may overtake one another, and the last to come stays.
FetchArrives(p, i) ==
    /\ i \in DOMAIN page[p].fetches /\ page[p].fetches[i] # None
    /\ page' = [page EXCEPT ![p].view = page[p].fetches[i], ![p].failed = FALSE,
                            ![p].fetches = RemoveAt(@, i)]
    /\ UNCHANGED <<version, unpublished, closed, stream, losses, rushed>>

\* A fetch fails on its way or back: what the tab showed stays.
FetchFails(p, i) ==
    /\ "loss" \in SpineFaults
    /\ losses < MaxLosses
    /\ i \in DOMAIN page[p].fetches
    /\ losses' = losses + 1
    /\ page' = [page EXCEPT ![p].failed = TRUE, ![p].fetches = RemoveAt(@, i)]
    /\ UNCHANGED <<version, unpublished, closed, stream, rushed>>

SpineInit ==
    /\ version = 0
    /\ unpublished = {}
    /\ closed = FALSE
    /\ stream = [s \in Streams |-> NoStream]
    /\ page = [p \in Pages |-> [status |-> "connecting", view |-> 0, fetches |-> <<>>,
                                crossed |-> FALSE, failed |-> FALSE]]
    /\ losses = 0
    /\ rushed = FALSE

StreamStep(s) == Subscribe(s) \/ TakeNext(s) \/ AfterNext(s) \/ Write(s) \/ Abort(s)

SpineNext ==
    \/ \E k \in Keys : Change(k) \/ Publish(k)
    \/ CloseAll
    \/ \E s \in Streams :
        StreamStep(s) \/ Heartbeat(s) \/ Deadline(s) \/ Release(s) \/ Arrive(s) \/ Lose(s)
    \/ \E p \in Pages :
        \/ Poll(p)
        \/ \E s \in Streams : Connect(p, s)
        \/ \E i \in 1..MaxFetches : ReadFetch(p, i) \/ FetchArrives(p, i) \/ FetchFails(p, i)

SpineSpec == SpineInit /\ [][SpineNext]_spineVars

\* The loops run on, and a broken connection is noticed.
SpineFairness == \A s \in Streams : WF_spineVars(StreamStep(s))

-----------------------------------------------------------------------------
(* Properties *)

\* The range of every variable.
SpineTypeOK ==
    /\ version \in 0..MaxVersion
    /\ unpublished \subseteq Keys
    /\ stream \in [Streams ->
         [step: {"none", "admitted", "next", "wait", "turn", "write", "over"},
          page: Pages \cup {None}, open: BOOLEAN, map: SUBSET Keys, batch: SUBSET Keys,
          wire: Seq({"connected", "event", "end"}), cut: BOOLEAN]]
    /\ \A p \in Pages :
        /\ page[p].status \in {"connecting", "open", "closed"}
        /\ page[p].view \in 0..version
        /\ page[p].fetches \in Seq(0..version \cup {None})
        /\ Len(page[p].fetches) <= MaxFetches
        /\ {page[p].crossed, page[p].failed} \subseteq BOOLEAN
    /\ losses \in 0..MaxLosses

\* A tab whose stream is open and rests shows what the API would answer: no event is
\* lost to the coalescing, to a loop that was busy writing, or to the time between
\* the handshake and the subscription.  Two things excuse it, each until the tab
\* fetches again: answers that overtook one another, and a last fetch that failed.
FreshWhenOpen ==
    \A s \in Streams :
        LET p == stream[s].page
        IN  /\ stream[s].step = "wait" /\ stream[s].wire = <<>> /\ ~stream[s].cut
            /\ page[p].status = "open" /\ page[p].fetches = <<>>
            /\ ~page[p].crossed /\ ~page[p].failed
            /\ unpublished = {} /\ ~closed
            => page[p].view = version

\* No stream waits for what has already come to its subscription.
NoLostWakeup ==
    \A s \in Streams : stream[s].step = "wait" => stream[s].map = {} /\ stream[s].open

\* There are never more streams than the cap, but for those admitted together: the
\* count is looked at before the memberships are read, and not again.
CapHolds == connectionCount <= maxConnections \/ rushed

\* A stream whose subscription was closed ends.
ClosedStreamsEnd ==
    \A s \in Streams : stream[s].step \in {"next", "wait", "turn", "write"} /\ ~stream[s].open
                           ~> stream[s].step \in {"over", "none"}
=============================================================================
