------------------------------ MODULE ChatRooms ------------------------------
(***************************************************************************)
(* Chat rooms: the server's in-memory membership and its broadcasts, the   *)
(* web socket of each browser tab, and what the tab shows                  *)
(* (services/chat-rooms.ts, routes/chat.routes.ts, services/chat.ts and    *)
(* the web application's contexts/chat-context.tsx).                       *)
(*                                                                         *)
(* A socket delivers to its tab in order, and loses what is under way when *)
(* the connection drops.  What a tab sends is handled at once: a delay on  *)
(* the way up looks the same as one on the way down.  user_joined and      *)
(* user_left are left out: the presence event that follows each in the     *)
(* same tick carries the whole list and overwrites what they did.          *)
(***************************************************************************)
EXTENDS ApiCalls, Naturals, Sequences, SequencesExt, FiniteSets

CONSTANTS
    Tabs,         \* browser tabs
    Watched,      \* the tabs whose events and view the model follows: what a
                  \* tab shows goes nowhere, so another one need only be there
    Viewers,      \* signed-in users
    ViewerOf,     \* who is signed in on a tab, None for a guest
    Sockets,      \* bound: the connections ever opened,
    TabOf,        \* and the tab that opens each
    Rooms,
    MaxMoves,     \* bound: changes of room and connections dropped
    MaxMessages   \* bound: messages ever posted, all of which a history holds

\* DEFAULT_HISTORY_LIMIT: what the last messages of a room are.
HistoryLimit == 50

ASSUME ChatAssumption ==
    /\ ViewerOf \in [Tabs -> Viewers \cup {None}]
    /\ Watched \subseteq Tabs
    /\ TabOf \in [Sockets -> Tabs]
    /\ None \notin Rooms \cup Sockets \cup Tabs \cup Viewers
    /\ IsFiniteSet(Sockets)
    /\ MaxMoves \in Nat
    /\ MaxMessages \in 0..HistoryLimit

VARIABLES
    socket,   \* "unused"; "open"; "ghost", the tab is gone and TCP does not
              \* know; "closing", readyState says so; "closed", after onClose
    members,  \* rooms: the sockets in each
    tab,      \* what a tab holds: its socket, activeRoomId and what it shows
    wire,     \* events on their way to the tab, by socket
    posted,   \* chat_messages: the room of each message
    unsent,   \* messages inserted and not broadcast yet
    reading,  \* history reads in flight
    culled,   \* history: rooms whose last cull no presence event followed
    moves,    \* changes of room and dropped connections so far
    readBeside     \* history: tabs whose last join ran beside a post or another read

chatVars == <<socket, members, tab, wire, posted, unsent, reading,
              culled, moves, readBeside>>

Messages == 1..MaxMessages
In(r)    == {i \in DOMAIN posted : posted[i] = r}
Blank    == [shown |-> <<>>, count |-> 0, users |-> {}]

\* Sockets whose readyState is 1.
OpenSockets(sock) == {s \in Sockets : sock[s] \in {"open", "ghost"}}

\* pruneStaleClients, then one event to every client that is left.
BroadcastToRoom(w, ms, e) ==
    [s \in Sockets |-> IF s \in ms /\ socket[s] # "ghost" /\ TabOf[s] \in Watched
                       THEN Append(w[s], e) ELSE w[s]]

\* getRoomPresence of a room with these members.
Presence(r, ms) ==
    [type |-> "presence", room |-> r, count |-> Cardinality(ms),
     users |-> {ViewerOf[TabOf[s]] : s \in ms} \ {None}]

-----------------------------------------------------------------------------
(* services/chat-rooms.ts, on the membership and the wires of a step so far *)

\* Mutated Left: members are told only when somebody signed-in has left.
LeftQuietly(st, r, s) ==
    LET ms == (st.members[r] \cap OpenSockets(socket)) \ {s}
    IN  [members |-> [st.members EXCEPT ![r] = ms],
         wire    |-> IF ViewerOf[TabOf[s]] = None THEN st.wire
                     ELSE BroadcastToRoom(st.wire, ms, Presence(r, ms)),
         culled  |-> st.culled \ {r}]

\* leaveRoom: nothing happens if the room is not there; an empty one goes.
Left(st, r, s) ==
    LET ms == (st.members[r] \cap OpenSockets(socket)) \ {s}
    IN  [members |-> [st.members EXCEPT ![r] = ms],
         wire    |-> BroadcastToRoom(st.wire, ms, Presence(r, ms)),
         culled  |-> st.culled \ {r}]

\* joinRoom.
Joined(st, r, s) ==
    LET ms == (st.members[r] \cap OpenSockets(socket)) \cup {s}
    IN  [members |-> [st.members EXCEPT ![r] = ms],
         wire    |-> BroadcastToRoom(st.wire, ms, Presence(r, ms)),
         culled  |-> st.culled \ {r}]

Rooming == [members |-> members, wire |-> wire, culled |-> culled]
RoomingIs(st) == members' = st.members /\ wire' = st.wire /\ culled' = st.culled

\* The history query of a join has been sent off.
Read(s, r) == [socket |-> s, room |-> r, state |-> "query", found |-> {}]

Reads(s) == {q \in reading : q.socket = s}
HistoryOn(s) == Reads(s) # {} \/ \E i \in DOMAIN wire[s] : wire[s][i].type = "history"

\* Whether a join of r on s runs beside a post or another read of the tab.
Races(t, r, s) ==
    readBeside' = IF HistoryOn(s) \/ \E i \in unsent : posted[i] = r
             THEN readBeside \cup {t} ELSE readBeside \ {t}

-----------------------------------------------------------------------------
(* The tab *)

\* The join on socket s of room r, after the leave that goes before it, if any.
Enter(t, r, s, st) ==
    /\ RoomingIs(Joined(st, r, s))
    /\ reading' = reading \cup (IF t \in Watched THEN {Read(s, r)} ELSE {})
    /\ Races(t, r, s)

\* ws.onopen: onOpen on the server, then a join of the active room.
ConnectTab(t) ==
    LET fresh == {s \in Sockets : TabOf[s] = t /\ socket[s] = "unused"}
        s == CHOOSE k \in fresh : TRUE
    IN  /\ tab[t].socket = None /\ fresh # {}
        /\ socket' = [socket EXCEPT ![s] = "open"]
        /\ tab' = [tab EXCEPT ![t].socket = s]
        /\ Enter(t, tab[t].room, s, Rooming)
        /\ UNCHANGED <<posted, unsent, moves>>

\* setActiveRoom: leave and join go out if the socket is open.
SetActiveRoom(t, r) ==
    LET s   == tab[t].socket
        old == tab[t].room
    IN  /\ r # old
        /\ moves < MaxMoves
        /\ moves' = moves + 1
        /\ tab' = [tab EXCEPT ![t].room = r, ![t].view = Blank]
        /\ IF s = None THEN UNCHANGED <<members, wire, culled, reading, readBeside>>
           ELSE Enter(t, r, s, IF members[old] = {} THEN Rooming
                               ELSE Left(Rooming, old, s))
        /\ UNCHANGED <<socket, posted, unsent>>

\* The connection drops, or the tab is closed and another opened in its place:
\* the server may or may not learn of it at once.
DisconnectTab(t) ==
    /\ tab[t].socket # None
    /\ moves < MaxMoves
    /\ moves' = moves + 1
    /\ tab' = [tab EXCEPT ![t].socket = None]
    /\ \E how \in {"ghost", "closing"} :
            socket' = [socket EXCEPT ![tab[t].socket] = how]
    /\ wire' = [wire EXCEPT ![tab[t].socket] = <<>>]
    /\ UNCHANGED <<members, posted, unsent, reading, culled, readBeside>>

\* Mutated Reduced: a history is added to what the tab shows.
ReducedAdds(v, room, e) ==
    CASE e.type = "presence" /\ e.room = room -> [v EXCEPT !.count = e.count, !.users = e.users]
      [] e.type = "history"                   -> [v EXCEPT !.shown = @ \o e.messages]
      [] e.type = "message" /\ posted[e.id] = room -> [v EXCEPT !.shown = Append(@, e.id)]
      [] OTHER -> v

\* chatReducer: SET_PRESENCE and ADD_MESSAGE look at the room, SET_HISTORY does not.
Reduced(v, room, e) ==
    CASE e.type = "presence" /\ e.room = room -> [v EXCEPT !.count = e.count, !.users = e.users]
      [] e.type = "history"                   -> [v EXCEPT !.shown = e.messages]
      [] e.type = "message" /\ posted[e.id] = room -> [v EXCEPT !.shown = Append(@, e.id)]
      [] OTHER -> v

\* ws.onmessage.
Deliver(t) ==
    LET s == tab[t].socket
    IN  /\ s # None
        /\ wire[s] # <<>>
        /\ tab' = [tab EXCEPT ![t].view = Reduced(@, tab[t].room, Head(wire[s]))]
        /\ wire' = [wire EXCEPT ![s] = Tail(@)]
        /\ UNCHANGED <<socket, members, posted, unsent, reading, culled, readBeside, moves>>

-----------------------------------------------------------------------------
(* The server *)

\* createMessage has its row inserted: of any signed-in client, who may have left
\* the room or the site by now.
Post(r) ==
    /\ Len(posted) < MaxMessages
    /\ \E s \in Sockets : socket[s] # "unused" /\ ViewerOf[TabOf[s]] # None
    /\ posted' = Append(posted, r)
    /\ unsent' = unsent \cup {Len(posted) + 1}
    /\ readBeside' = readBeside \cup {TabOf[q.socket] : q \in {q \in reading : q.room = r}}
    /\ UNCHANGED <<socket, members, tab, wire, reading, culled, moves>>

\* broadcastToRoom culls, and tells nobody of it.
Cull(r, ms) ==
    /\ members' = [members EXCEPT ![r] = ms]
    /\ culled' = IF ms # members[r] THEN culled \cup {r} ELSE culled

\* Then the broadcast of the message.
SendOut(i) ==
    /\ i \in unsent
    /\ LET r  == posted[i]
           ms == members[r] \cap OpenSockets(socket)
       IN  /\ Cull(r, ms)
           /\ wire' = BroadcastToRoom(wire, ms, [type |-> "message", id |-> i])
    /\ unsent' = unsent \ {i}
    /\ UNCHANGED <<socket, tab, posted, reading, readBeside, moves>>

\* The other broadcasts, of a reaction, a timeout, a ban, an unban or slow mode: they change
\* no viewers and no messages of a tab, and what is left of them is the cull.
Announce(r) ==
    LET ms == members[r] \cap OpenSockets(socket)
    IN  /\ ms # members[r]
        /\ \E s \in Sockets : socket[s] # "unused" /\ ViewerOf[TabOf[s]] # None
        /\ Cull(r, ms)
        /\ UNCHANGED <<socket, tab, wire, posted, unsent, reading, readBeside, moves>>

\* Rows by the time they were inserted, the first first.
ByTime(found) ==
    CHOOSE ms \in [1..Cardinality(found) -> found] : \A i, j \in DOMAIN ms : i < j => ms[i] < ms[j]

\* getMessageHistory: the query, and its answer sent to the socket of the join.
Query(q) ==
    /\ q \in reading /\ q.state = "query"
    /\ reading' = (reading \ {q}) \cup {[q EXCEPT !.state = "answer", !.found = In(q.room)]}
    /\ UNCHANGED <<socket, members, tab, wire, posted, unsent, culled, readBeside, moves>>

Answer(q) ==
    /\ q \in reading /\ q.state = "answer"
    /\ reading' = reading \ {q}
    /\ wire' = BroadcastToRoom(wire, {q.socket},
                  [type |-> "history", messages |-> ByTime(q.found)])
    /\ UNCHANGED <<socket, members, tab, posted, unsent, culled, readBeside, moves>>

\* TCP gives the ghost up.
Detect(s) ==
    /\ socket[s] = "ghost"
    /\ socket' = [socket EXCEPT ![s] = "closing"]
    /\ UNCHANGED <<members, tab, wire, posted, unsent, reading, culled, readBeside, moves>>

\* onClose: leaveAllRooms looks only in rooms that still hold the client, and a
\* client is in one room at a time.
OnClose(s) ==
    /\ socket[s] = "closing"
    /\ socket' = [socket EXCEPT ![s] = "closed"]
    /\ LET rs == {r \in Rooms : s \in members[r]}
       IN  IF rs = {} THEN UNCHANGED <<members, wire, culled>>
           ELSE \E r \in rs : RoomingIs(Left(Rooming, r, s))
    /\ UNCHANGED <<tab, posted, unsent, reading, readBeside, moves>>

-----------------------------------------------------------------------------
ChatInit ==
    /\ socket = [s \in Sockets |-> "unused"]
    /\ members = [r \in Rooms |-> {}]
    /\ \E where \in [Tabs -> Rooms] :   \* the page sets the active room at once
          tab = [t \in Tabs |-> [socket |-> None, room |-> where[t], view |-> Blank]]
    /\ wire = [s \in Sockets |-> <<>>]
    /\ posted = <<>>
    /\ unsent = {}
    /\ reading = {}
    /\ culled = {}
    /\ moves = 0
    /\ readBeside = {}

ChatServerStep ==
    \/ \E i \in Messages : SendOut(i)
    \/ \E q \in reading : Query(q) \/ Answer(q)
    \/ \E r \in Rooms : Announce(r)
    \/ \E s \in Sockets : Detect(s) \/ OnClose(s)

ChatNext ==
    \/ \E t \in Tabs :
          \/ ConnectTab(t)
          \/ \E r \in Rooms : SetActiveRoom(t, r)
          \/ DisconnectTab(t) \/ Deliver(t)
    \/ \E r \in Rooms : Post(r)
    \/ ChatServerStep

ChatSpec == ChatInit /\ [][ChatNext]_chatVars

-----------------------------------------------------------------------------
(* Properties *)

\* The tab is connected, has joined its room and has nothing left to receive.
Settled(t) ==
    LET s == tab[t].socket
        r == tab[t].room
    IN  /\ s # None
        /\ s \in members[r]
        /\ wire[s] = <<>>

\* The range of every variable.
ChatTypeOK ==
    /\ socket \in [Sockets -> {"unused", "open", "ghost", "closing", "closed"}]
    /\ members \in [Rooms -> SUBSET Sockets]
    /\ \A t \in Tabs :
          /\ tab[t].socket \in Sockets \cup {None}
          /\ tab[t].room \in Rooms
          /\ tab[t].view.shown \in Seq(Messages)
          /\ tab[t].view.count \in 0..Cardinality(Sockets)
          /\ tab[t].view.users \subseteq Viewers
    /\ posted \in Seq(Rooms)
    /\ unsent \subseteq DOMAIN posted
    /\ \A q \in reading : q.socket \in Sockets /\ q.room \in Rooms /\ q.found \subseteq In(q.room)
    /\ culled \subseteq Rooms
    /\ moves \in 0..MaxMoves
    /\ readBeside \subseteq Tabs

\* A tab that has received all there is shows the room's viewers as the server
\* counts them, across reconnects, ghosts and changes of room, unless a broadcast of
\* something else was what culled a connection, and no presence event has come since.
PresenceSettles ==
    \A t \in Watched : Settled(t) =>
        LET r == tab[t].room
        IN  \/ r \in culled
            \/ /\ tab[t].view.count = Cardinality(members[r])
               /\ tab[t].view.users = {ViewerOf[TabOf[s]] : s \in members[r]} \ {None}

\* It shows every message of the room once, whatever it missed while it was
\* away, unless its join ran beside a post or another read of its own.
MessagesSettle ==
    \A t \in Watched \ readBeside :
        LET s == tab[t].socket
            r == tab[t].room
        IN  Settled(t) /\ Reads(s) = {} /\ (\A i \in unsent : posted[i] # r)
              => /\ ToSet(tab[t].view.shown) = In(r)
                 /\ IsInjective(tab[t].view.shown)
=============================================================================
