------------------------------- MODULE Simulcast -------------------------------
(***************************************************************************)
(* Where SRS forwards each publish: the destinations of the platform and   *)
(* of the creators, the on_forward hook that reads them, and the kick that *)
(* makes the playout connect again when the platform's have changed        *)
(* (services/simulcast.ts, and handleSrsOnForward of                       *)
(* services/streaming-callbacks.ts).                                       *)
(*                                                                         *)
(* One playout channel, and one channel for each creator that streams.  A  *)
(* connection has a number, SRS's client id.  on_publish and on_unpublish  *)
(* are a step each: LiveSession has what goes on inside them.              *)
(***************************************************************************)
EXTENDS ApiCalls, Naturals, FiniteSets

CONSTANTS
    ForwardCalls,   \* slots for calls of the API
    Playout,        \* the playout channel, and who owns its destinations: the platform
    Hosts,          \* creators that stream
    Liquidsoap,     \* LIQUIDSOAP_RTMP_URL
    HostCap,        \* MAX_CREATOR_SIMULCAST_DESTINATIONS
    MaxDests,       \* bound: destinations ever inserted
    MaxConnections, \* bound: connections to SRS
    ForwardFaults

ASSUME ForwardAssumption ==
    /\ Playout \notin Hosts
    /\ Liquidsoap \notin 1..MaxDests
    /\ IsFiniteSet(ForwardCalls)
    /\ HostCap \in Nat \ {0} /\ MaxDests \in Nat /\ MaxConnections \in Nat
    /\ ForwardFaults \subseteq {"srs"}

Feeds == {Playout} \cup Hosts
Dests == 1..MaxDests

VARIABLES
    dest,      \* simulcast_destinations
    dests,     \* rows inserted so far
    feed,      \* SRS: the publisher of each stream
    opened,    \* connections so far
    sessions,  \* stream_sessions that are open: <<creator, connection>>
    onAir,     \* the session that a creator's channel is active for, or 0
    hangUps,   \* on_unpublish callbacks on their way
    change     \* the call in each slot

srsVars     == <<feed, opened, sessions, onAir, hangUps>>
forwardVars == <<dest, dests, change, srsVars>>

OffAir   == [step |-> "off", cid |-> 0, as |-> None, to |-> {}, owed |-> FALSE]
NoChange == [step |-> "idle", owner |-> None, names |-> {}, kicks |-> {}]

ChangeAt(h, s) == change[h].step = s

DestsOf(o)  == {d \in Dests : dest[d] # None /\ dest[d].owner = o}
ActiveOf(o) == {d \in DestsOf(o) : dest[d].active}

-----------------------------------------------------------------------------
(* SRS and its hooks *)

\* on_publish has answered.  A creator's has opened a session and put the channel on air.
Connect(s) ==
    /\ feed[s] = OffAir
    /\ opened < MaxConnections
    /\ opened' = opened + 1
    /\ feed' = [feed EXCEPT ![s] = [OffAir EXCEPT !.step = "classify", !.cid = opened + 1]]
    /\ IF s = Playout THEN UNCHANGED <<sessions, onAir>>
       ELSE /\ sessions' = sessions \cup {<<s, opened + 1>>}
            /\ onAir' = [onAir EXCEPT ![s] = opened + 1]
    /\ UNCHANGED <<dest, dests, hangUps, change>>

\* The names of the active channels: the playout's always, a creator's while on air.
ActiveNames == {Playout} \cup {s \in Hosts : onAir[s] # 0}

\* Mutated ClassifyPublish: by the name of the stream first, then by the session.
ClassifyByName(s) ==
    /\ feed[s].step = "classify"
    /\ feed' = [feed EXCEPT ![s].step = "urls",
                            ![s].as = IF s \in ActiveNames THEN Playout
                                      ELSE IF <<s, feed[s].cid>> \in sessions THEN s
                                      ELSE None]
    /\ UNCHANGED <<dest, dests, opened, sessions, onAir, hangUps, change>>

\* An open session of this client makes it a creator's publish.  Without one, an
\* active channel of that name makes it the playout's.
ClassifyPublish(s) ==
    /\ feed[s].step = "classify"
    /\ feed' = [feed EXCEPT ![s].step = "urls",
                            ![s].as = IF <<s, feed[s].cid>> \in sessions THEN s
                                      ELSE IF s \in ActiveNames THEN Playout
                                      ELSE None]
    /\ UNCHANGED <<dest, dests, opened, sessions, onAir, hangUps, change>>

\* getActiveSimulcastUrls.  The playout never goes to Liquidsoap, which it comes from.
ReadUrls(s) ==
    /\ feed[s].step = "urls"
    /\ feed' = [feed EXCEPT ![s].step = "answer",
                            ![s].to = ActiveOf(feed[s].as) \cup
                                (IF feed[s].as \in Hosts THEN {Liquidsoap} ELSE {})]
    /\ UNCHANGED <<dest, dests, opened, sessions, onAir, hangUps, change>>

GoLive(s) ==
    /\ feed[s].step = "answer"
    /\ feed' = [feed EXCEPT ![s].step = "live"]
    /\ UNCHANGED <<dest, dests, opened, sessions, onAir, hangUps, change>>

\* A publisher is gone: SRS posts an on_unpublish, and a creator may be back before it.
Lost(s) ==
    /\ feed' = [feed EXCEPT ![s] = OffAir]
    /\ hangUps' = IF s = Playout THEN hangUps ELSE hangUps \cup {<<s, feed[s].cid>>}

\* The encoder stops, or the engine restarts.
Disconnect(s) ==
    /\ feed[s].step = "live"
    /\ Lost(s)
    /\ UNCHANGED <<dest, dests, opened, sessions, onAir, change>>

\* on_unpublish: the session of that client, and the channel if it is on air for it.
HangUp(s, c) ==
    /\ <<s, c>> \in hangUps
    /\ hangUps' = hangUps \ {<<s, c>>}
    /\ sessions' = sessions \ {<<s, c>>}
    /\ onAir' = IF onAir[s] = c THEN [onAir EXCEPT ![s] = 0] ELSE onAir
    /\ UNCHANGED <<dest, dests, feed, opened, change>>

-----------------------------------------------------------------------------
(* Platform destinations: write, then restartPlayoutForward *)

\* The restart is the same after each of the three writes.
Restart(h) == change' = [change EXCEPT ![h] = [NoChange EXCEPT !.step = "names"]]

\* A destination is inactive until it is switched on.
AddPlatform(h) ==
    /\ change[h] = NoChange
    /\ dests < MaxDests
    /\ dests' = dests + 1
    /\ dest' = [dest EXCEPT ![dests + 1] = [owner |-> Playout, active |-> FALSE]]
    /\ Restart(h)
    /\ UNCHANGED srsVars

\* These two go by the id alone, and so reach creators' destinations as well.
TogglePlatform(h, d) ==
    /\ change[h] = NoChange
    /\ dest[d] # None
    /\ dest' = [dest EXCEPT ![d].active = ~@]
    /\ Restart(h)
    /\ UNCHANGED <<dests, srsVars>>

\* Mutated RemovePlatform: nothing is restarted.
RemoveOnly(h, d) ==
    /\ change[h] = NoChange
    /\ dest[d] # None
    /\ dest' = [dest EXCEPT ![d] = None]
    /\ UNCHANGED <<dests, change, srsVars>>

RemovePlatform(h, d) ==
    /\ change[h] = NoChange
    /\ dest[d] # None
    /\ dest' = [dest EXCEPT ![d] = None]
    /\ Restart(h)
    /\ UNCHANGED <<dests, srsVars>>

\* All active channels, whatever their role.
SelectNames(h) ==
    /\ ChangeAt(h, "names")
    /\ change' = [change EXCEPT ![h].step = "list", ![h].names = ActiveNames]
    /\ UNCHANGED <<dest, dests, srsVars>>

\* SRS's streams: those that publish under a name of these are to be kicked.  One whose
\* hook is not answered yet is not among them, and may have read the URLs already.
ListPublishers(h) ==
    /\ ChangeAt(h, "list")
    /\ LET live == {s \in change[h].names : feed[s].step = "live"}
       IN  change' = [change EXCEPT ![h].step = "kick",
                                    ![h].kicks = {<<s, feed[s].cid>> : s \in live}]
    /\ feed' = IF feed[Playout].step = "answer" THEN [feed EXCEPT ![Playout].owed = TRUE] ELSE feed
    /\ UNCHANGED <<dest, dests, opened, sessions, onAir, hangUps>>

\* DELETE /api/v1/clients/:cid, one after the other: gone if it is still that client.
Kick(h) ==
    /\ ChangeAt(h, "kick")
    /\ \E k \in change[h].kicks :
          /\ change' = [change EXCEPT ![h].kicks = @ \ {k}]
          /\ IF feed[k[1]].cid = k[2] THEN Lost(k[1]) ELSE UNCHANGED <<feed, hangUps>>
    /\ UNCHANGED <<dest, dests, opened, sessions, onAir>>

\* A refusal: the status is not looked at, and the next one's turn comes.
KickRefused(h) ==
    /\ "srs" \in ForwardFaults
    /\ ChangeAt(h, "kick")
    /\ \E k \in change[h].kicks :
          /\ change' = [change EXCEPT ![h].kicks = @ \ {k}]
          /\ feed' = IF k = <<Playout, feed[Playout].cid>>
                     THEN [feed EXCEPT ![Playout].owed = TRUE] ELSE feed
    /\ UNCHANGED <<dest, dests, opened, sessions, onAir, hangUps>>

Kicked(h) ==
    /\ ChangeAt(h, "kick")
    /\ change[h].kicks = {}
    /\ change' = [change EXCEPT ![h] = NoChange]
    /\ UNCHANGED <<dest, dests, srsVars>>

\* The playout's publisher is still one that call h has to kick.
ToRestart(h) ==
    \/ change[h].step \in {"names", "list"}
    \/ <<Playout, feed[Playout].cid>> \in change[h].kicks

\* SRS does not answer: a warning, and what is left of the restart is not done.
RestartFails(h) ==
    /\ "srs" \in ForwardFaults
    /\ ChangeAt(h, "list") \/ (ChangeAt(h, "kick") /\ change[h].kicks # {})
    /\ change' = [change EXCEPT ![h] = NoChange]
    /\ feed' = IF feed[Playout].step \in {"answer", "live"} /\ ToRestart(h)
               THEN [feed EXCEPT ![Playout].owed = TRUE] ELSE feed
    /\ UNCHANGED <<dest, dests, opened, sessions, onAir, hangUps>>

-----------------------------------------------------------------------------
(* A creator's destinations: nothing is restarted *)

CountDests(h, o) ==
    /\ change[h] = NoChange
    /\ Cardinality(DestsOf(o)) < HostCap
    /\ change' = [change EXCEPT ![h] = [NoChange EXCEPT !.step = "insert", !.owner = o]]
    /\ UNCHANGED <<dest, dests, srsVars>>

InsertDest(h) ==
    /\ ChangeAt(h, "insert")
    /\ dests < MaxDests
    /\ dests' = dests + 1
    /\ dest' = [dest EXCEPT ![dests + 1] = [owner |-> change[h].owner, active |-> FALSE]]
    /\ change' = [change EXCEPT ![h] = NoChange]
    /\ UNCHANGED srsVars

ToggleDest(o, d) ==
    /\ d \in DestsOf(o)
    /\ dest' = [dest EXCEPT ![d].active = ~@]
    /\ UNCHANGED <<dests, change, srsVars>>

RemoveDest(o, d) ==
    /\ d \in DestsOf(o)
    /\ dest' = [dest EXCEPT ![d] = None]
    /\ UNCHANGED <<dests, change, srsVars>>

-----------------------------------------------------------------------------
ForwardInit ==
    /\ dest = [d \in Dests |-> None]
    /\ dests = 0
    /\ feed = [s \in Feeds |-> OffAir]
    /\ opened = 0
    /\ sessions = {}
    /\ onAir = [s \in Hosts |-> 0]
    /\ hangUps = {}
    /\ change = [h \in ForwardCalls |-> NoChange]

ForwardNext ==
    \/ \E s \in Feeds : Connect(s) \/ ClassifyPublish(s) \/ ReadUrls(s) \/ GoLive(s) \/ Disconnect(s)
    \/ \E s \in Hosts, c \in 1..MaxConnections : HangUp(s, c)
    \/ \E h \in ForwardCalls :
          \/ AddPlatform(h) \/ SelectNames(h) \/ ListPublishers(h) \/ Kick(h) \/ Kicked(h)
          \/ KickRefused(h) \/ RestartFails(h) \/ InsertDest(h)
          \/ \E d \in Dests : TogglePlatform(h, d) \/ RemovePlatform(h, d)
          \/ \E o \in Hosts : CountDests(h, o)
    \/ \E o \in Hosts, d \in Dests : ToggleDest(o, d) \/ RemoveDest(o, d)

ForwardSpec == ForwardInit /\ [][ForwardNext]_forwardVars

-----------------------------------------------------------------------------
(* Properties *)

\* The range of every variable.
ForwardTypeOK ==
    /\ dest \in [Dests -> {None} \cup [owner: Feeds, active: BOOLEAN]]
    /\ dests \in 0..MaxDests
    /\ \A s \in Feeds :
          /\ feed[s].step \in {"off", "classify", "urls", "answer", "live"}
          /\ feed[s].as \in Feeds \cup {None}
          /\ feed[s].to \subseteq Dests \cup {Liquidsoap}
    /\ opened \in 0..MaxConnections
    /\ sessions \cup hangUps \subseteq Hosts \X (1..MaxConnections)
    /\ onAir \in [Hosts -> 0..MaxConnections]

\* Once the restarts of the calls that wrote are over, the playout goes to the platform's
\* active destinations and nowhere else, however the writes, kicks and reconnects of two
\* calls crossed.  Not owed: a restart that failed or was refused, or that met the publisher
\* in the midst of connecting, is made up for only by the next connection.
ForwardsFollow ==
    LET f == feed[Playout]
    IN  f.step = "live" /\ ~f.owed /\ (\A h \in ForwardCalls : ~ToRestart(h))
            => f.to = ActiveOf(Playout)

\* A creator's stream goes to Liquidsoap and to destinations of that creator, and to no
\* others, also when the session and the channel of an earlier connection are still open.
TenantForwards ==
    \A s \in Hosts : feed[s].step = "live" =>
        /\ Liquidsoap \in feed[s].to
        /\ \A d \in feed[s].to \cap Dests : dest[d] # None => dest[d].owner = s

\* A creator has at most HostCap destinations, and one more for each call that counted
\* at the same time.
DestCap ==
    \A o \in Hosts : Cardinality(DestsOf(o)) < HostCap + Cardinality(ForwardCalls)

\* A change of the platform's destinations does not cut a creator's stream off.
SparesCreators == [][change' # change => \A s \in Hosts : feed'[s] = feed[s]]_forwardVars
=============================================================================
