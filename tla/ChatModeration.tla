---------------------------- MODULE ChatModeration ----------------------------
(***************************************************************************)
(* What may be said in a chat room: createMessage with its checks, bans,   *)
(* timeouts, slow mode, and the reactions to a message                     *)
(* (services/chat.ts, services/chat-moderation.ts,                         *)
(* services/chat-moderation-auth.ts, services/chat-reactions.ts).          *)
(*                                                                         *)
(* One room and, for reactions, one message and one emoji: rooms, messages *)
(* and emojis share nothing.  createdAt orders rows as they were inserted. *)
(***************************************************************************)
EXTENDS ApiCalls, Naturals, Sequences

CONSTANTS
    ChatCalls,    \* slots for calls in flight
    Members,      \* users
    Moderators,   \* admins, and owners of the channel's creator
    Durations,    \* of timeouts, in seconds
    Intervals,    \* of slow mode
    MaxSeconds, MaxSaid, MaxSanctions  \* bounds: time, messages, moderation actions

ASSUME ModerationAssumption ==
    /\ Moderators \subseteq Members
    /\ None \notin Members \cup ChatCalls
    /\ Durations \subseteq Nat
    /\ Intervals \subseteq Nat
    /\ MaxSeconds \in Nat /\ MaxSaid \in Nat /\ MaxSanctions \in Nat

VARIABLES
    now,        \* the clock, in seconds
    room,       \* chat_rooms: closedAt is set, slowModeSeconds
    sanctions,  \* chat_moderation_actions, by createdAt
    said,       \* chat_messages, by createdAt
    reactions,  \* chat_message_reactions: the users who reacted
    found,      \* the userIds that each call is to broadcast
    latest,     \* history: the call with the latest of these, None if that is told
    shown,      \* the userIds of the last reaction_updated broadcast
    inTurn,     \* history: no newer ones had been told before
    modCall     \* the call in each slot

moderationVars == <<now, room, sanctions, said, reactions, found, latest, shown, inTurn, modCall>>

NoModCall == [step |-> "idle", user |-> None, slow |-> 0, barred |-> FALSE, alone |-> TRUE]
MessageSteps  == {"banned", "timedOut", "slow", "insert"}
ReactionSteps == {"reactBanned", "react", "unreact", "count", "tell"}

StepOf(h, s) == modCall[h].step = s
Goes(h, s)   == modCall' = [modCall EXCEPT ![h].step = s]
Returns(h)   == modCall' = [modCall EXCEPT ![h] = NoModCall]
Others(h, steps, u) ==
    {g \in ChatCalls \ {h} : modCall[g].step \in steps /\ modCall[g].user = u}

-----------------------------------------------------------------------------
(* services/chat-moderation-auth.ts, on the rows as one query sees them *)

\* The rows a query finds, by index, and the one that ORDER BY createdAt DESC has first.
Of(u, kinds) == {i \in DOMAIN sanctions : sanctions[i].of = u /\ sanctions[i].kind \in kinds}
Newest(rows) == {i \in rows : \A j \in rows : j <= i}

\* Mutated IsUserBanned: the latest action of any kind decides.
IsUserBannedLatest(u) ==
    \E i \in Newest(Of(u, {"ban", "unban", "timeout"})) : sanctions[i].kind = "ban"

\* isUserBanned: the most recent ban or unban is a ban.
IsUserBanned(u) ==
    \E i \in Newest(Of(u, {"ban", "unban"})) : sanctions[i].kind = "ban"

\* isUserTimedOut looks at the latest timeout alone.
IsUserTimedOut(u) ==
    \E i \in Newest(Of(u, {"timeout"})) : sanctions[i].until > now

\* The bans of getActiveSanctions: each user's last ban, and no unban after it.
ActiveBans ==
    {u \in Members :
        \E i \in DOMAIN sanctions :
            /\ sanctions[i].of = u /\ sanctions[i].kind = "ban"
            /\ \A j \in DOMAIN sanctions :
                  j > i /\ sanctions[j].of = u => sanctions[j].kind \notin {"ban", "unban"}}

-----------------------------------------------------------------------------
(* createMessage *)

\* The room's row is read first; slow mode is judged by what it said.
Say(h, u) ==
    /\ modCall[h] = NoModCall
    /\ ~room.closed
    /\ LET others == Others(h, MessageSteps, u)
       IN  modCall' = [g \in ChatCalls |->
              IF g = h THEN [step |-> "banned", user |-> u, slow |-> room.slow,
                             barred |-> u \in ActiveBans, alone |-> others = {}]
              ELSE [modCall[g] EXCEPT !.alone = @ /\ g \notin others]]
    /\ UNCHANGED <<now, room, sanctions, said, reactions, found, latest, shown, inTurn>>

CheckBanned(h) ==
    /\ StepOf(h, "banned")
    /\ IF IsUserBanned(modCall[h].user) THEN Returns(h) ELSE Goes(h, "timedOut")
    /\ UNCHANGED <<now, room, sanctions, said, reactions, found, latest, shown, inTurn>>

CheckTimedOut(h) ==
    /\ StepOf(h, "timedOut")
    /\ IF IsUserTimedOut(modCall[h].user) THEN Returns(h)
       ELSE IF modCall[h].user \in Moderators \/ modCall[h].slow = 0
       THEN Goes(h, "insert") ELSE Goes(h, "slow")
    /\ UNCHANGED <<now, room, sanctions, said, reactions, found, latest, shown, inTurn>>

MessagesOf(u) == {i \in DOMAIN said : said[i].by = u}

\* Mutated CheckSlowMode: the seconds waited are rounded up.
CheckSlowModeRounded(h) ==
    /\ StepOf(h, "slow")
    /\ IF \E i \in Newest(MessagesOf(modCall[h].user)) : now - said[i].at + 1 < modCall[h].slow
       THEN Returns(h) ELSE Goes(h, "insert")
    /\ UNCHANGED <<now, room, sanctions, said, reactions, found, latest, shown, inTurn>>

CheckSlowMode(h) ==
    /\ StepOf(h, "slow")
    /\ IF \E i \in Newest(MessagesOf(modCall[h].user)) : now - said[i].at < modCall[h].slow
       THEN Returns(h) ELSE Goes(h, "insert")
    /\ UNCHANGED <<now, room, sanctions, said, reactions, found, latest, shown, inTurn>>

\* isMessageFiltered may stop the message of a user who does not moderate; else
\* the badges, and the INSERT.
InsertMessage(h) ==
    /\ StepOf(h, "insert")
    /\ \/ modCall[h].user \notin Moderators /\ UNCHANGED said
       \/ /\ Len(said) < MaxSaid
          /\ LET c == modCall[h]
             IN  said' = Append(said, [by |-> c.user, at |-> now, slow |-> c.slow,
                                      barred |-> c.barred, alone |-> c.alone])
    /\ Returns(h)
    /\ UNCHANGED <<now, room, sanctions, reactions, found, latest, shown, inTurn>>

-----------------------------------------------------------------------------
(* services/chat-moderation.ts: what a moderator does to another user *)

\* Calls that go on when canModerateRoom has said yes.
Moderate(h, u, kind) ==
    /\ modCall[h] = NoModCall
    /\ \E m \in Moderators : m # u \/ kind = "unban"
    /\ modCall' = [modCall EXCEPT ![h] = [NoModCall EXCEPT !.step = kind, !.user = u]]
    /\ UNCHANGED <<now, room, sanctions, said, reactions, found, latest, shown, inTurn>>

\* banUser returns the ban there is, unbanUser wants one.
CheckBan(h) ==
    /\ \/ StepOf(h, "ban")   /\ IF IsUserBanned(modCall[h].user) THEN Returns(h) ELSE Goes(h, "banRow")
       \/ StepOf(h, "unban") /\ IF IsUserBanned(modCall[h].user) THEN Goes(h, "unbanRow") ELSE Returns(h)
    /\ UNCHANGED <<now, room, sanctions, said, reactions, found, latest, shown, inTurn>>

\* The row.  An unban lifts what barred the calls in flight.
InsertSanction(h) ==
    /\ modCall[h].step \in {"banRow", "unbanRow", "timeout"}
    /\ Len(sanctions) < MaxSanctions
    /\ LET u == modCall[h].user
           Row(k, t) == sanctions' = Append(sanctions, [kind |-> k, of |-> u, until |-> t])
       IN  \/ StepOf(h, "banRow")   /\ Row("ban", 0)
           \/ StepOf(h, "unbanRow") /\ Row("unban", 0)
           \/ StepOf(h, "timeout")  /\ \E d \in Durations : Row("timeout", now + d)
    /\ modCall' = [g \in ChatCalls |->
          IF g = h THEN NoModCall
          ELSE IF StepOf(h, "unbanRow") /\ modCall[g].user = modCall[h].user
          THEN [modCall[g] EXCEPT !.barred = FALSE] ELSE modCall[g]]
    /\ UNCHANGED <<now, room, said, reactions, found, latest, shown, inTurn>>

SetSlowMode(n) ==
    /\ Moderators # {}
    /\ room.slow # n
    /\ room' = [room EXCEPT !.slow = n]
    /\ UNCHANGED <<now, sanctions, said, reactions, found, latest, shown, inTurn, modCall>>

\* closeChannelRoom: the stream has ended.
CloseChannelRoom ==
    /\ ~room.closed
    /\ room' = [room EXCEPT !.closed = TRUE]
    /\ UNCHANGED <<now, sanctions, said, reactions, found, latest, shown, inTurn, modCall>>

-----------------------------------------------------------------------------
(* services/chat-reactions.ts *)

\* A closed room takes no new reaction, but a reaction may be taken back.
Reacting(h, u, s) ==
    /\ modCall[h] = NoModCall
    /\ modCall' = [modCall EXCEPT ![h] = [NoModCall EXCEPT !.step = s, !.user = u]]
    /\ UNCHANGED <<now, room, sanctions, said, reactions, found, latest, shown, inTurn>>

AddReaction(h, u)    == ~room.closed /\ Reacting(h, u, "reactBanned")
RemoveReaction(h, u) == Reacting(h, u, "unreact")

CheckReactor(h) ==
    /\ StepOf(h, "reactBanned")
    /\ IF IsUserBanned(modCall[h].user) THEN Returns(h) ELSE Goes(h, "react")
    /\ UNCHANGED <<now, room, sanctions, said, reactions, found, latest, shown, inTurn>>

\* INSERT ... ON CONFLICT DO NOTHING, or DELETE.
ChangeReaction(h) ==
    /\ LET u == modCall[h].user
       IN  \/ StepOf(h, "react")   /\ reactions' = reactions \cup {u}
           \/ StepOf(h, "unreact") /\ reactions' = reactions \ {u}
    /\ Goes(h, "count")
    /\ UNCHANGED <<now, room, sanctions, said, found, latest, shown, inTurn>>

\* The SELECT of who has reacted.
CountReactions(h) ==
    /\ StepOf(h, "count")
    /\ found' = [found EXCEPT ![h] = reactions]
    /\ latest' = h
    /\ Goes(h, "tell")
    /\ UNCHANGED <<now, room, sanctions, said, reactions, shown, inTurn>>

\* reaction_updated to the room, when the call has come back to the handler.
TellReactions(h) ==
    /\ StepOf(h, "tell")
    /\ shown' = found[h]
    /\ found' = [found EXCEPT ![h] = {}]
    /\ inTurn' = (latest = h)
    /\ latest' = IF latest = h THEN None ELSE latest
    /\ Returns(h)
    /\ UNCHANGED <<now, room, sanctions, said, reactions>>

-----------------------------------------------------------------------------
SecondPasses ==
    /\ now < MaxSeconds
    /\ now' = now + 1
    /\ UNCHANGED <<room, sanctions, said, reactions, found, latest, shown, inTurn, modCall>>

ModerationInit ==
    /\ now = 0
    /\ room = [closed |-> FALSE, slow |-> 0]
    /\ sanctions = <<>>
    /\ said = <<>>
    /\ reactions = {}
    /\ found = [h \in ChatCalls |-> {}]
    /\ latest = None
    /\ shown = {}
    /\ inTurn = TRUE
    /\ modCall = [h \in ChatCalls |-> NoModCall]

ModCallStep(h) ==
    \/ CheckBanned(h) \/ CheckTimedOut(h) \/ CheckSlowMode(h)
    \/ InsertMessage(h) \/ CheckBan(h) \/ InsertSanction(h)
    \/ CheckReactor(h) \/ ChangeReaction(h) \/ CountReactions(h) \/ TellReactions(h)

ModerationNext ==
    \/ \E h \in ChatCalls :
          \/ \E u \in Members :
                \/ Say(h, u) \/ AddReaction(h, u) \/ RemoveReaction(h, u)
                \/ \E k \in {"ban", "unban", "timeout"} : Moderate(h, u, k)
          \/ ModCallStep(h)
    \/ \E n \in Intervals : SetSlowMode(n)
    \/ CloseChannelRoom \/ SecondPasses

ModerationSpec == ModerationInit /\ [][ModerationNext]_moderationVars

-----------------------------------------------------------------------------
(* Properties *)

\* The range of every variable.
ModerationTypeOK ==
    /\ now \in 0..MaxSeconds
    /\ room \in [closed: BOOLEAN, slow: Intervals \cup {0}]
    /\ sanctions \in Seq([kind: {"ban", "unban", "timeout"}, of: Members, until: Nat])
    /\ said \in Seq([by: Members, at: 0..MaxSeconds, slow: Intervals \cup {0},
                     barred: BOOLEAN, alone: BOOLEAN])
    /\ reactions \subseteq Members /\ shown \subseteq Members
    /\ found \in [ChatCalls -> SUBSET Members]
    /\ latest \in ChatCalls \cup {None} /\ inTurn \in BOOLEAN
    /\ modCall \in [ChatCalls ->
          [step: {"idle", "ban", "unban", "timeout", "banRow", "unbanRow"}
                     \cup MessageSteps \cup ReactionSteps,
           user: Members \cup {None}, slow: Intervals \cup {0},
           barred: BOOLEAN, alone: BOOLEAN]]

\* A ban holds: no message gets in whose sender was banned when the call began
\* and was not unbanned meanwhile, whatever timeouts and bans come beside it.
BanHolds == \A i \in DOMAIN said : ~said[i].barred

\* A message keeps its distance from the sender's one before, unless the two
\* calls overlapped.
SlowModeHolds ==
    \A i, j \in DOMAIN said :
        i < j /\ said[i].by = said[j].by /\ said[j].by \notin Moderators /\ said[j].alone
            => said[j].at - said[i].at >= said[j].slow

\* The last reaction_updated tells the reactions there are, however the calls
\* overlapped, once each that changed them has told, unless it was overtaken on its way
\* by another whose SELECT came later.
ReactionsShown ==
    inTurn /\ (\A h \in ChatCalls : modCall[h].step \notin {"count", "tell"})
        => shown = reactions
=============================================================================
