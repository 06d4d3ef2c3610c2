----------------------------- MODULE MCRealtime -----------------------------
(***************************************************************************)
(* Instances of seven components that share no state: chat rooms,          *)
(* moderation, the rotation of the content pool, the editorial tiers, the  *)
(* ingest of films, the destinations streams are forwarded to, and the     *)
(* press page.  In each behaviour one of them moves, as in MCServices.     *)
(***************************************************************************)
EXTENDS ChatRooms, ChatModeration, PoolRotation, EditorialControl,
        PlayoutIngest, Simulcast, PressDraft, TLC

CONSTANTS
    Parts,   \* those that are looked at
    ann, mod, t1, t2, k1, k2, k3, v1, v2, p, q

VARIABLE part

AnnAndGuest == [t \in Tabs |-> IF t = t1 THEN ann ELSE None]
TwoOfThree  == [s \in Sockets |-> IF s = k3 THEN t2 ELSE t1]

\* The two stand for slots of calls, and for rooms: each pair is interchangeable.
Symmetric == Permutations({v1, v2})

everything == <<part, chatVars, moderationVars, poolVars, editVars,
                ingestVars, forwardVars, pressVars>>

\* Where a component has several initial states, one for when it does not move.
Init ==
    /\ part \in Parts
    /\ ChatInit /\ ModerationInit /\ PoolInit /\ EditInit
    /\ IngestInit /\ ForwardInit /\ PressInit
    /\ part # "rooms" => \E r \in Rooms : \A t \in Tabs : tab[t].room = r /\ r = tab[t1].room
    /\ part # "graph" <=> settings[Broadcast] = None
    /\ everything = everything  \* has TLC evaluate the functions that the view leaves out

\* Two parts of moderation: the messages of a member, and reactions.
Speech ==
    /\ ModerationNext
    /\ ~room'.closed
    /\ \A h \in ChatCalls : modCall'[h].step \notin ReactionSteps /\ modCall'[h].user # mod
React ==
    /\ ModerationNext
    /\ room.slow = 0 /\ Len(sanctions') <= 1
    /\ \A h \in ChatCalls : modCall'[h].step \notin MessageSteps

\* Two parts of the tiers: tiers that come and change one after another while every
\* channel has its settings, and two calls of any kind on one playout channel.
Tiering(h) == editCall'[h].step \in {"graph", "insert", "change"}
Graph ==
    /\ EditNext
    /\ \A h \in EditCalls : Tiering(h) \/ editCall'[h] = IdleEdit
    /\ Cardinality({h \in EditCalls : Tiering(h)}) <= 1
    /\ \A t \in TierIds : tier'[t] = None => tier[t] = None
    /\ \A t \in TierIds : tier'[t] # None => tier'[t].type # "queue" /\ tier'[t].enabled
Control ==
    /\ IF verbs < 2 THEN EditNext ELSE EditGoesOn
    /\ q \in active' /\ settings'[q] = None /\ (q \in engine'.armed <=> engine'.up)
    /\ \A t \in TierIds : tier'[t] # None => tier'[t].channel # q
    /\ \A h \in EditCalls : Tiering(h) => editCall'[h].channel # q

\* The playlist takes all its rows and no uploads; an ingest goes with one row.
Ingest   == IngestNext /\ filmed' <= 1
Playlist == IngestNext /\ copied' = 0

\* Forwarding goes with one destination of the platform's and one more.
Forward == ForwardNext /\ Cardinality(DestsOf(Playout)') <= 1

Next ==
    /\ UNCHANGED part
    /\ IF part = "rooms" THEN ChatNext ELSE UNCHANGED chatVars
    /\ IF part = "speech" THEN Speech
       ELSE IF part = "react" THEN React ELSE UNCHANGED moderationVars
    /\ IF part = "pool" THEN PoolNext ELSE UNCHANGED poolVars
    /\ IF part = "graph" THEN Graph
       ELSE IF part = "control" THEN Control ELSE UNCHANGED editVars
    /\ IF part = "ingest" THEN Ingest
       ELSE IF part = "playlist" THEN Playlist ELSE UNCHANGED ingestVars
    /\ IF part = "forward" THEN Forward ELSE UNCHANGED forwardVars
    /\ IF part = "press" THEN PressNext ELSE UNCHANGED pressVars

\* What moves stands for the state: the rest is what it was.
Moving ==
    CASE part = "rooms" -> <<part, chatVars>>
      [] part \in {"speech", "react"} -> <<part, moderationVars>>
      [] part = "pool" -> <<part, poolVars>>
      [] part \in {"graph", "control"} -> <<part, editVars>>
      [] part \in {"ingest", "playlist"} -> <<part, ingestVars>>
      [] part = "forward" -> <<part, forwardVars>>
      [] part = "press" -> <<part, pressVars>>

Spec == Init /\ [][Next]_everything
=============================================================================
