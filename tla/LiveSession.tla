---------------------------- MODULE LiveSession ----------------------------
(***************************************************************************)
(* A creator goes live: the callbacks of SRS, the sessions they open and   *)
(* close, and the creator's channel that they switch on and off            *)
(* (streaming-callbacks, stream-sessions, stream-lifecycle, channels and   *)
(* stream-keys under services/).                                           *)
(*                                                                         *)
(* The model is of one creator: no statement reads or writes the rows of   *)
(* another, and a stream name that one of them holds fails an activation   *)
(* just as a name does that another row of this creator holds.  As in      *)
(* PlayoutQueue, a call takes one database statement per step and calls    *)
(* interleave freely.                                                      *)
(***************************************************************************)
EXTENDS Naturals, FiniteSets

CONSTANTS
    Handlers,     \* slots for API calls in flight at the same time
    Clients,      \* RTMP connections to SRS: a reconnect is another client
    Keys,         \* stream keys of the creator
    KeyOf,        \* the key that a client presents
    StreamOf,     \* the stream name that a client publishes
    Placeholder,  \* the name a channel has before its first publish
    MaxSessions,  \* bound: sessions ever opened
    MaxRows,      \* bound: channel rows ever inserted
    Faults,       \* the faults of this instance
    None          \* no client, key, session, row or name

Sessions == 1..MaxSessions
Rows     == 1..MaxRows
Streams  == {StreamOf[u] : u \in Clients}
Names    == Streams \cup {Placeholder}

ASSUME LiveAssumption ==
    /\ Handlers # {}
    /\ MaxSessions \in Nat
    /\ MaxRows \in Nat
    /\ IsFiniteSet(Clients)
    /\ Clients \cap Keys = {}
    /\ KeyOf \in [Clients -> Keys]
    /\ Placeholder \notin Streams
    /\ None \notin Clients \cup Keys \cup Sessions \cup Rows \cup Names
    /\ Faults \subseteq {"retry", "api"}

VARIABLES
    \* SRS: what each client does, and the callbacks posted but not taken up
    srs, posts,
    keys,      \* stream_keys: "none", "active" or "revoked"
    \* stream_sessions: srsClientId, and endedAt as a rank (0: still open)
    publisher, ended,
    \* channels: srsStreamName (None: no such row), isActive, streamSessionId
    name, onAir, current,
    made,      \* channel rows inserted so far: rows are numbered by age
    rooms,     \* open chat rooms of each channel
    announced, \* the last channel.live-state-changed event of each channel
    job,       \* the call that each handler runs: its step and its locals
    trouble    \* history: "overlap" once two calls were in flight, and the faults so far

sessions == <<publisher, ended>>
channels == <<name, onAir, current, made>>
world    == <<srs, posts>>
vars     == <<world, keys, sessions, channels, rooms, announced, job, trouble>>

Steps == {"idle",
          "openSession", "findChannel", "activate", "announce", "findRoom",
          "makeRoom", "answer",
          "closeSession", "lastSession", "findOnAir", "deactivate", "announceOff",
          "findRows", "provision", "dedupe"}

\* A call that does not run.
Idle == [step |-> "idle", who |-> None, session |-> None, row |-> None,
         dupes |-> {}]

Open         == {s \in Sessions : publisher[s] # None /\ ended[s] = 0}
SessionsOf(u) == {s \in Sessions : publisher[s] = u}
ChannelRows  == {r \in Rows : name[r] # None}

\* The unique index on srsStreamName: no other row holds n.
Free(n, r) == \A q \in Rows \ {r} : name[q] # n

\* Handler h takes up a call.
Begin(h, call) ==
    /\ job[h] = Idle
    /\ job' = [job EXCEPT ![h] = call]
    /\ trouble' = IF \E g \in Handlers \ {h} : job[g] # Idle
                  THEN trouble \cup {"overlap"} ELSE trouble

\* Handler h, at step s, goes on to step t.
At(h, s)   == job[h].step = s
Goto(h, t) == job' = [job EXCEPT ![h].step = t] /\ UNCHANGED trouble
Done(h)    == job' = [job EXCEPT ![h] = Idle] /\ UNCHANGED trouble

-----------------------------------------------------------------------------
(* on_publish *)

\* SRS takes the answer of an on_publish that it still waits for.
Reply(u, state) ==
    srs' = IF srs[u] = "asking" THEN [srs EXCEPT ![u] = state] ELSE srs

\* lookupCreatorByKeyHash: a key that is unknown or revoked gets a 403.
OnPublish(h, u) ==
    /\ <<"on_publish", u>> \in posts
    /\ posts' = posts \ {<<"on_publish", u>>}
    /\ \/ /\ keys[KeyOf[u]] = "active"
          /\ Begin(h, [Idle EXCEPT !.step = "openSession", !.who = u])
          /\ UNCHANGED srs
       \/ /\ keys[KeyOf[u]] # "active"
          /\ job[h] = Idle
          /\ Reply(u, "refused")
          /\ UNCHANGED <<job, trouble>>
    /\ UNCHANGED <<keys, sessions, channels, rooms, announced>>

\* openSession; the event row it adds is an audit trail nothing reads.
OpenSession(h) ==
    /\ At(h, "openSession")
    /\ Cardinality({s \in Sessions : publisher[s] # None}) < MaxSessions
    /\ LET s == Cardinality({x \in Sessions : publisher[x] # None}) + 1
       IN  /\ publisher' = [publisher EXCEPT ![s] = job[h].who]
           /\ job' = [job EXCEPT ![h].step = "findChannel", ![h].session = s]
    /\ UNCHANGED <<world, keys, ended, channels, rooms, announced, trouble>>

\* activateLiveChannel: select the creator's channel, any if there are more.
FindChannel(h) ==
    /\ At(h, "findChannel")
    /\ \E r \in (IF ChannelRows = {} THEN {None} ELSE ChannelRows) :
         job' = [job EXCEPT ![h].step = "activate", ![h].row = r]
    /\ UNCHANGED <<world, keys, sessions, channels, rooms, announced, trouble>>

\* UPDATE of the row found, or INSERT when there was none.  A name that another
\* row holds makes the statement fail, which is logged and answered with 200.
Activate(h) ==
    /\ At(h, "activate")
    /\ LET found == job[h].row
           r == IF found = None THEN made + 1 ELSE found
           n == StreamOf[job[h].who]
       IN  /\ r \in Rows
           /\ \/ /\ found = None \/ r \in ChannelRows
                 /\ Free(n, r)
                 /\ name' = [name EXCEPT ![r] = n]
                 /\ onAir' = [onAir EXCEPT ![r] = TRUE]
                 /\ current' = [current EXCEPT ![r] = job[h].session]
                 /\ made' = IF found = None THEN r ELSE made
                 /\ job' = [job EXCEPT ![h].step = "announce", ![h].row = r]
              \/ /\ found = None \/ r \in ChannelRows
                 /\ ~Free(n, r)
                 /\ job' = [job EXCEPT ![h].step = "answer"]
                 /\ UNCHANGED channels
              \/ /\ found # None /\ r \notin ChannelRows
                 /\ job' = [job EXCEPT ![h].step = "announce"]
                 /\ UNCHANGED channels
    /\ UNCHANGED <<world, keys, sessions, rooms, announced, trouble>>

\* The event goes out after the statement has returned.
Announce(h) ==
    /\ At(h, "announce")
    /\ announced' = [announced EXCEPT ![job[h].row] = job[h].row \in ChannelRows]
    /\ Goto(h, "findRoom")
    /\ UNCHANGED <<world, keys, sessions, channels, rooms>>

\* ensureChannelRoom.
FindRoom(h) ==
    /\ At(h, "findRoom")
    /\ Goto(h, IF rooms[job[h].row] = 0 THEN "makeRoom" ELSE "answer")
    /\ UNCHANGED <<world, keys, sessions, channels, rooms, announced>>

\* createChannelRoom: the reference to a deleted channel fails, and is logged.
MakeRoom(h) ==
    /\ At(h, "makeRoom")
    /\ rooms' = [rooms EXCEPT ![job[h].row] =
                    IF job[h].row \in ChannelRows THEN @ + 1 ELSE @]
    /\ Goto(h, "answer")
    /\ UNCHANGED <<world, keys, sessions, channels, announced>>

\* 200: SRS lets the client publish.
Answer(h) ==
    /\ At(h, "answer")
    /\ Reply(job[h].who, "publishing")
    /\ Done(h)
    /\ UNCHANGED <<posts, keys, sessions, channels, rooms, announced>>

-----------------------------------------------------------------------------
(* on_unpublish *)

\* Mutated OnUnpublish: the select forgets the client.
OnUnpublishAny(h, u) ==
    /\ <<"on_unpublish", u>> \in posts
    /\ posts' = posts \ {<<"on_unpublish", u>>}
    /\ \E s \in Open :
         Begin(h, [Idle EXCEPT !.step = "closeSession", !.who = u, !.session = s])
    /\ UNCHANGED <<srs, keys, sessions, channels, rooms, announced>>

\* closeSession: select an open session of the client; teardown comes either way.
OnUnpublish(h, u) ==
    /\ <<"on_unpublish", u>> \in posts
    /\ posts' = posts \ {<<"on_unpublish", u>>}
    /\ \/ \E s \in Open \cap SessionsOf(u) :
            Begin(h, [Idle EXCEPT !.step = "closeSession", !.who = u, !.session = s])
       \/ /\ Open \cap SessionsOf(u) = {}
          /\ Begin(h, [Idle EXCEPT !.step = "lastSession", !.who = u])
    /\ UNCHANGED <<srs, keys, sessions, channels, rooms, announced>>

\* Mutated CloseSession: the call ends here, without the teardown.
CloseSessionOnly(h) ==
    /\ At(h, "closeSession")
    /\ ended' = [ended EXCEPT ![job[h].session] =
                    1 + Cardinality({s \in Sessions : ended[s] > 0})]
    /\ Done(h)
    /\ UNCHANGED <<world, keys, publisher, channels, rooms, announced>>

CloseSession(h) ==
    /\ At(h, "closeSession")
    /\ ended' = [ended EXCEPT ![job[h].session] =
                    1 + Cardinality({s \in Sessions : ended[s] > 0})]
    /\ job' = [job EXCEPT ![h].step = "lastSession", ![h].session = None]
    /\ UNCHANGED <<world, keys, publisher, channels, rooms, announced, trouble>>

\* teardownLiveChannel: ORDER BY ended_at DESC puts open sessions first.
LastSession(h) ==
    /\ At(h, "lastSession")
    /\ LET all  == SessionsOf(job[h].who)
           open == all \cap Open
       IN  \/ all = {} /\ Done(h)
           \/ \E s \in all :
                /\ IF open # {} THEN s \in open
                                ELSE \A x \in all : ended[x] <= ended[s]
                /\ job' = [job EXCEPT ![h].step = "findOnAir", ![h].session = s]
                /\ UNCHANGED trouble
    /\ UNCHANGED <<world, keys, sessions, channels, rooms, announced>>

\* Mutated FindOnAir: the select forgets the session.
FindOnAirAny(h) ==
    /\ At(h, "findOnAir")
    /\ \/ /\ \A r \in ChannelRows : ~onAir[r]
          /\ Done(h)
       \/ \E r \in ChannelRows :
            /\ onAir[r]
            /\ job' = [job EXCEPT ![h].step = "deactivate", ![h].row = r]
            /\ UNCHANGED trouble
    /\ UNCHANGED <<world, keys, sessions, channels, rooms, announced>>

\* deactivateLiveChannel: select the channel that the session is on.
FindOnAir(h) ==
    /\ At(h, "findOnAir")
    /\ LET mine == {r \in ChannelRows : onAir[r] /\ current[r] = job[h].session}
       IN  \/ mine = {} /\ Done(h)
           \/ \E r \in mine :
                /\ job' = [job EXCEPT ![h].step = "deactivate", ![h].row = r]
                /\ UNCHANGED trouble
    /\ UNCHANGED <<world, keys, sessions, channels, rooms, announced>>

\* The update is by id: the session is not looked at again, and stays in the row.
Deactivate(h) ==
    /\ At(h, "deactivate")
    /\ onAir' = [onAir EXCEPT ![job[h].row] = FALSE]
    /\ Goto(h, "announceOff")
    /\ UNCHANGED <<world, keys, sessions, name, current, made, rooms, announced>>

\* The live-state event and the cue to the viewers; the chat room stays open.
AnnounceOff(h) ==
    /\ At(h, "announceOff")
    /\ announced' = [announced EXCEPT ![job[h].row] = FALSE]
    /\ Done(h)
    /\ UNCHANGED <<world, keys, sessions, channels, rooms>>

-----------------------------------------------------------------------------
(* Stream keys *)

\* createStreamKey, up to the insert of the key.
CreateStreamKey(h, k) ==
    /\ keys[k] = "none"
    /\ keys' = [keys EXCEPT ![k] = "active"]
    /\ Begin(h, [Idle EXCEPT !.step = "findRows", !.who = k])
    /\ UNCHANGED <<world, sessions, channels, rooms, announced>>

\* Mutated FindRows: the rows are not sorted, any of them is kept.
FindRowsUnsorted(h) ==
    /\ At(h, "findRows")
    /\ \/ ChannelRows = {} /\ Goto(h, "provision")
       \/ \E keep \in ChannelRows :
            /\ job' = [job EXCEPT ![h].step = "dedupe",
                                  ![h].dupes = ChannelRows \ {keep}]
            /\ UNCHANGED trouble
    /\ UNCHANGED <<world, keys, sessions, channels, rooms, announced>>

\* ensureCreatorChannel: the oldest row stays, the others are to be deleted.
FindRows(h) ==
    /\ At(h, "findRows")
    /\ \/ ChannelRows = {} /\ Goto(h, "provision")
       \/ \E keep \in ChannelRows :
            /\ \A r \in ChannelRows : keep <= r
            /\ job' = [job EXCEPT ![h].step = "dedupe",
                                  ![h].dupes = ChannelRows \ {keep}]
            /\ UNCHANGED trouble
    /\ UNCHANGED <<world, keys, sessions, channels, rooms, announced>>

\* The insert fails, and is logged, when the placeholder is in use.
Provision(h) ==
    /\ At(h, "provision")
    /\ made < MaxRows
    /\ IF Free(Placeholder, None)
       THEN /\ made' = made + 1
            /\ name' = [name EXCEPT ![made + 1] = Placeholder]
       ELSE UNCHANGED <<made, name>>
    /\ Done(h)
    /\ UNCHANGED <<world, keys, sessions, onAir, current, rooms, announced>>

\* One DELETE at a time, by id; the chat room of a deleted channel is let go.
Dedupe(h) ==
    /\ At(h, "dedupe")
    /\ \/ job[h].dupes = {} /\ Done(h) /\ UNCHANGED <<channels, rooms, announced>>
       \/ \E r \in job[h].dupes :
            /\ \A q \in job[h].dupes : r <= q
            /\ name' = [name EXCEPT ![r] = None]
            /\ onAir' = [onAir EXCEPT ![r] = FALSE]
            /\ current' = [current EXCEPT ![r] = None]
            /\ rooms' = [rooms EXCEPT ![r] = 0]
            /\ announced' = [announced EXCEPT ![r] = FALSE]
            /\ job' = [job EXCEPT ![h].dupes = @ \ {r}]
            /\ UNCHANGED <<made, trouble>>
    /\ UNCHANGED <<world, keys, sessions>>

\* revokeStreamKey: sessions opened with the key go on.
RevokeStreamKey(k) ==
    /\ keys[k] = "active"
    /\ keys' = [keys EXCEPT ![k] = "revoked"]
    /\ UNCHANGED <<world, sessions, channels, rooms, announced, job, trouble>>

-----------------------------------------------------------------------------
(* SRS and its clients *)

\* The raw key is known once createStreamKey has returned it.
Connect(u) ==
    /\ srs[u] = "new"
    /\ keys[KeyOf[u]] # "none"
    /\ \A h \in Handlers : job[h].who # KeyOf[u]
    /\ srs' = [srs EXCEPT ![u] = "asking"]
    /\ posts' = posts \cup {<<"on_publish", u>>}
    /\ UNCHANGED <<keys, sessions, channels, rooms, announced, job, trouble>>

\* The stream ends, or its connection is found dead.
Disconnect(u) ==
    /\ srs[u] = "publishing"
    /\ srs' = [srs EXCEPT ![u] = "stopped"]
    /\ posts' = posts \cup {<<"on_unpublish", u>>}
    /\ UNCHANGED <<keys, sessions, channels, rooms, announced, job, trouble>>

\* No answer yet: the callback is posted again.  One retry is the bound.
RetryPublish(u) ==
    /\ "retry" \in Faults \ trouble
    /\ srs[u] = "asking"
    /\ <<"on_publish", u>> \notin posts
    /\ posts' = posts \cup {<<"on_publish", u>>}
    /\ trouble' = trouble \cup {"retry"}
    /\ UNCHANGED <<srs, keys, sessions, channels, rooms, announced, job>>

\* The API dies with its calls.  To SRS a failed on_publish refuses the client and
\* a failed on_unpublish is nothing; neither comes again.  One crash is the bound.
ApiRestart ==
    /\ "api" \in Faults \ trouble
    /\ job' = [h \in Handlers |-> Idle]
    /\ srs' = [u \in Clients |-> IF srs[u] = "asking" THEN "refused" ELSE srs[u]]
    /\ posts' = {}
    /\ trouble' = trouble \cup {"api"}
    /\ UNCHANGED <<keys, sessions, channels, rooms, announced>>

-----------------------------------------------------------------------------
\* Keys and channels from before: no channel yet, a persistent one, or several
\* left over from the time when each session made its own.
Init ==
    /\ srs = [u \in Clients |-> "new"]
    /\ posts = {}
    /\ keys \in [Keys -> {"none", "active"}]
    /\ publisher = [s \in Sessions |-> None]
    /\ ended = [s \in Sessions |-> 0]
    /\ made \in 0..MaxRows - 1
    /\ name \in [Rows -> Names \cup {None}]
    /\ \A r \in Rows : name[r] # None <=> r <= made
    /\ \A r \in Rows : name[r] # None => Free(name[r], r)
    /\ onAir = [r \in Rows |-> FALSE]
    /\ current = [r \in Rows |-> None]
    /\ rooms = [r \in Rows |-> 0]
    /\ announced = [r \in Rows |-> FALSE]
    /\ job = [h \in Handlers |-> Idle]
    /\ trouble = {}

\* The next step of a call in flight.
Step(h) ==
    \/ OpenSession(h) \/ FindChannel(h) \/ Activate(h) \/ Announce(h)
    \/ FindRoom(h) \/ MakeRoom(h) \/ Answer(h)
    \/ CloseSession(h) \/ LastSession(h) \/ FindOnAir(h)
    \/ Deactivate(h) \/ AnnounceOff(h)
    \/ FindRows(h) \/ Provision(h) \/ Dedupe(h)

Callback(h) == \E u \in Clients : OnPublish(h, u) \/ OnUnpublish(h, u)

Next ==
    \/ \E h \in Handlers : \/ Step(h)
                           \/ Callback(h)
                           \/ \E k \in Keys : CreateStreamKey(h, k)
    \/ \E k \in Keys : RevokeStreamKey(k)
    \/ \E u \in Clients : Connect(u) \/ Disconnect(u) \/ RetryPublish(u)
    \/ ApiRestart

Spec == Init /\ [][Next]_vars

\* A call runs on to its end and every callback of SRS is taken up; creators
\* connect, stop and change their keys as they please.
FairSpec ==
    /\ Spec
    /\ \A h \in Handlers : WF_vars(Step(h))
    /\ WF_vars(\E h \in Handlers : Callback(h))

-----------------------------------------------------------------------------
(* Properties *)

\* The range of every variable; a row that does not exist is blank.
TypeOK ==
    /\ srs \in [Clients -> {"new", "asking", "refused", "publishing", "stopped"}]
    /\ posts \subseteq {"on_publish", "on_unpublish"} \X Clients
    /\ keys \in [Keys -> {"none", "active", "revoked"}]
    /\ publisher \in [Sessions -> Clients \cup {None}]
    /\ ended \in [Sessions -> Nat]
    /\ name \in [Rows -> Names \cup {None}]
    /\ onAir \in [Rows -> BOOLEAN]
    /\ current \in [Rows -> Sessions \cup {None}]
    /\ made \in 0..MaxRows
    /\ rooms \in [Rows -> Nat]
    /\ announced \in [Rows -> BOOLEAN]
    /\ job \in [Handlers -> [step : Steps, who : Clients \cup Keys \cup {None},
                             session : Sessions \cup {None},
                             row : Rows \cup {None}, dupes : SUBSET Rows]]
    /\ trouble \subseteq Faults \cup {"overlap"}
    /\ \A r \in Rows : name[r] = None =>
          ~onAir[r] /\ current[r] = None /\ rooms[r] = 0 /\ ~announced[r]

\* No callback waits and no call is in flight.
AtRest == posts = {} /\ \A h \in Handlers : job[h] = Idle

\* handleSrsOnForward tells a creator's stream from the engine's by its open
\* session, so one that publishes has one; and a session that is open belongs to
\* a client that publishes, or about which a callback is still under way, if none
\* was repeated and the API did not die.
SessionsFollowPublishers ==
    /\ \A u \in Clients :
         srs[u] = "publishing" => Open \cap SessionsOf(u) # {}
    /\ trouble \subseteq {"overlap"} => \A s \in Open :
         \/ srs[publisher[s]] = "publishing"
         \/ <<"on_unpublish", publisher[s]>> \in posts
         \/ \E h \in Handlers : job[h].who = publisher[s]

\* While calls do not overlap: a channel is on exactly while the session it was
\* last switched on for is open, and the last event says so.  A late on_unpublish
\* of a connection that was replaced leaves the channel alone.
ChannelFollowsStream ==
    trouble = {} /\ AtRest =>
        \A r \in ChannelRows :
            /\ onAir[r] <=> current[r] \in Open
            /\ announced[r] <=> onAir[r]

\* ensureChannelRoom "reuses the room across sessions rather than creating a new
\* one each time": true while calls do not overlap.
RoomReused == "overlap" \notin trouble => \A r \in Rows : rooms[r] <= 1

\* A creator who has a channel keeps one, whatever calls that provision and
\* dedupe overlap: they agree on the row that stays.
NeverWithoutChannel == [][ChannelRows # {} => ChannelRows' # {}]_vars

\* However calls overlap, a stream that has stopped does not stay on a channel,
\* if no callback was repeated and the API did not die.
StoppedStreamGoesOff ==
    \A u \in Clients :
        srs[u] = "stopped" ~>
            \/ \A r \in Rows : ~(onAir[r] /\ current[r] \in SessionsOf(u))
            \/ trouble \cap Faults # {}

\* "Deactivate a live channel when a creator stops streaming": a channel is not
\* switched off while the session that is on it is open.  TLC refutes it for two
\* overlapping calls: a publish between the select and the update is undone.
NeverSilencesPublisher ==
    [][\A r \in ChannelRows :
          onAir[r] /\ ~onAir'[r] /\ name'[r] # None => current[r] \notin Open]_vars

\* on_unpublish "closes the session and deactivates the live channel": with
\* every callback handled and nobody publishing, no channel is on.
OffWhenNobodyPublishes ==
    AtRest /\ (\A u \in Clients : srs[u] \notin {"asking", "publishing"})
        => \A r \in ChannelRows : ~onAir[r]
=============================================================================
