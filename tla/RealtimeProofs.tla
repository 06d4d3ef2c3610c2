---------------------------- MODULE RealtimeProofs ----------------------------
(***************************************************************************)
(* Proofs about chat: what may be said in a room (ChatModeration), and what*)
(* the tabs in it show (ChatRooms).                                        *)
(***************************************************************************)
EXTENDS ChatRooms, ChatModeration, FiniteSetTheorems, SequenceTheorems, WellFoundedInduction,
        TLAPS

-----------------------------------------------------------------------------
(* Natural numbers *)

\* Of natural numbers there is a least one ...
LEMMA Least ==
  ASSUME NEW T \in SUBSET Nat, T # {}
  PROVE  \E m \in T : \A k \in T : m <= k
<1> DEFINE R == OpToRel(<, Nat)
<1>1. \A x, y \in Nat : x < y => <<x, y>> \in R
  BY DEF OpToRel
<1>2. IsWellFoundedOn(R, Nat)
  BY NatLessThanWellFounded
<1> HIDE DEF R
<1>3. PICK m \in T : \A k \in T : ~(<<k, m>> \in R)
  BY <1>2, WFMin
<1>4. \A k \in T : ~(k < m)
  BY <1>1, <1>3
<1>5. \A k \in T : m <= k
  BY <1>4
<1> QED
  BY <1>5

\* ... of those up to n a greatest, too ...
LEMMA Greatest ==
  ASSUME NEW n \in Nat, NEW T \in SUBSET (0..n), T # {}
  PROVE  \E m \in T : \A k \in T : k <= m
<1> DEFINE U == {j \in 0..n : n - j \in T}
<1>1. U \in SUBSET Nat /\ U # {}
  <2>1. PICK k : k \in T /\ k \in 0..n
    OBVIOUS
  <2>2. n - k \in 0..n /\ n - (n - k) = k
    BY <2>1
  <2>3. n - k \in U
    BY <2>1, <2>2
  <2> QED
    BY <2>3
<1>2. PICK u \in U : \A v \in U : u <= v
  BY <1>1, Least
<1>3. \A k \in T : n - k \in 0..n /\ n - (n - k) = k
  OBVIOUS
<1>4. \A k \in T : u <= n - k
  BY <1>2, <1>3
<1>5. u \in 0..n /\ n - u \in T
  BY <1>2
<1>6. ASSUME NEW k \in T PROVE k <= n - u
  <2>1. k \in Int /\ u \in Int /\ u <= n - k
    BY <1>4, <1>5
  <2> QED
    BY <2>1
<1> QED
  BY <1>5, <1>6

\* ... and a set that has 0 and the next of each has them all.
LEMMA Induct ==
  ASSUME NEW X, 0 \in X, \A k \in Nat : k \in X => k + 1 \in X
  PROVE  Nat \subseteq X
<1> SUFFICES ASSUME Nat \ X # {} PROVE FALSE
  OBVIOUS
<1>1. PICK m \in Nat \ X : \A k \in Nat \ X : m <= k
  BY Least
<1>2. m # 0 /\ m - 1 \in Nat /\ ~(m <= m - 1)
  BY <1>1
<1>3. m - 1 \in X
  BY <1>1, <1>2
<1>4. (m - 1) + 1 \in X
  BY <1>2, <1>3
<1> QED
  BY <1>1, <1>4

-----------------------------------------------------------------------------
(* ChatModeration *)

SaidRows == [by: Members, at: 0..MaxSeconds, slow: Intervals \cup {0},
             barred: BOOLEAN, alone: BOOLEAN]
Sanctions == [kind: {"ban", "unban", "timeout"}, of: Members, until: Nat]
ModSteps == {"idle", "ban", "unban", "timeout", "banRow", "unbanRow"}
                \cup MessageSteps \cup ReactionSteps
ModCalls == [step: ModSteps, user: Members \cup {None}, slow: Intervals \cup {0},
             barred: BOOLEAN, alone: BOOLEAN]

\* The part of the ranges that the proofs need.
SpeechTypes ==
    /\ now \in 0..MaxSeconds
    /\ room.slow \in Intervals \cup {0}
    /\ sanctions \in Seq(Sanctions)
    /\ said \in Seq(SaidRows)
    /\ modCall \in [ChatCalls -> ModCalls]
    /\ \A h \in ChatCalls : modCall[h].step # "idle" => modCall[h].user \in Members

\* Who was banned when the call began, and not unbanned since, is still to be asked
\* for a ban, and banned.
BanInv ==
    /\ \A h \in ChatCalls :
          modCall[h].barred => StepOf(h, "banned") /\ IsUserBanned(modCall[h].user)
    /\ \A i \in DOMAIN said : ~said[i].barred

Speaks(h) == modCall[h].step \in MessageSteps

\* Messages are in the order of their times; a call is alone while no other is of the
\* same user; and one that may insert has waited since each of the user's messages.
SlowInv ==
    /\ \A i \in DOMAIN said : said[i].at <= now
    /\ \A i, j \in DOMAIN said : i <= j => said[i].at <= said[j].at
    /\ \A g, h \in ChatCalls :
          Speaks(g) /\ Speaks(h) /\ modCall[g].user = modCall[h].user /\ modCall[h].alone
              => g = h
    /\ \A h \in ChatCalls :
          StepOf(h, "insert") /\ modCall[h].alone /\ modCall[h].user \notin Moderators =>
              \A i \in MessagesOf(modCall[h].user) : now - said[i].at >= modCall[h].slow
    /\ SlowModeHolds

Reacts(h) == modCall[h].step \in ReactionSteps

\* Once every call that changed the reactions has counted them, the newest count that is
\* to be told is what they are, or the last that was told, if it was told in turn.
ReactInv ==
    /\ found = [h \in ChatCalls |-> found[h]]
    /\ latest # None => latest \in ChatCalls /\ StepOf(latest, "tell")
    /\ (\A h \in ChatCalls : ~StepOf(h, "count")) =>
          /\ latest # None => found[latest] = reactions
          /\ latest = None /\ inTurn => shown = reactions

ModAll == SpeechTypes /\ BanInv /\ SlowInv /\ ReactInv
ModGoes == SpeechTypes' /\ BanInv' /\ SlowInv' /\ ReactInv'

LEMMA NoModCallIs ==
  /\ NoModCall \in ModCalls /\ NoModCall.step = "idle" /\ NoModCall.user = None
  /\ NoModCall.barred = FALSE /\ NoModCall.alone = TRUE /\ NoModCall.slow = 0
  /\ \A k \in ModSteps, u \in Members : [NoModCall EXCEPT !.step = k, !.user = u] \in ModCalls
BY DEF NoModCall, ModCalls, ModSteps

LEMMA ModCallOf ==
  ASSUME NEW s \in ModSteps, NEW u \in Members \cup {None}, NEW n \in Intervals \cup {0},
         NEW b \in BOOLEAN, NEW a \in BOOLEAN
  PROVE  [step |-> s, user |-> u, slow |-> n, barred |-> b, alone |-> a] \in ModCalls
BY DEF ModCalls

LEMMA SaidRowOf ==
  ASSUME NEW u \in Members, NEW t \in 0..MaxSeconds, NEW n \in Intervals \cup {0},
         NEW b \in BOOLEAN, NEW a \in BOOLEAN
  PROVE  [by |-> u, at |-> t, slow |-> n, barred |-> b, alone |-> a] \in SaidRows
BY DEF SaidRows

\* The rows of said, and their times.
LEMMA SaidIs ==
  SpeechTypes => /\ now \in Nat /\ Len(said) \in Nat /\ DOMAIN said = 1..Len(said)
                 /\ \A i \in DOMAIN said : i \in Nat /\ said[i] \in SaidRows /\ said[i].at \in Nat
<1> SUFFICES ASSUME SpeechTypes
             PROVE  /\ now \in Nat /\ Len(said) \in Nat /\ DOMAIN said = 1..Len(said)
                    /\ \A i \in DOMAIN said : i \in Nat /\ said[i] \in SaidRows /\ said[i].at \in Nat
  OBVIOUS
<1>1. MaxSeconds \in Nat
  BY ModerationAssumption DEF ModerationAssumption
<1>2. said \in Seq(SaidRows) /\ now \in Nat
  BY <1>1 DEF SpeechTypes
<1>3. Len(said) \in Nat /\ DOMAIN said = 1..Len(said) /\ \A i \in DOMAIN said : said[i] \in SaidRows
  BY <1>2
<1> QED
  BY <1>1, <1>2, <1>3 DEF SaidRows

LEMMA BannedStays == UNCHANGED sanctions => \A u : IsUserBanned(u)' = IsUserBanned(u)
BY DEF IsUserBanned, Newest, Of

\* getActiveSanctions and isUserBanned agree.
LEMMA BansAgree == SpeechTypes => \A u \in Members : u \in ActiveBans => IsUserBanned(u)
<1> SUFFICES ASSUME sanctions \in Seq(Sanctions), NEW u \in Members, u \in ActiveBans
             PROVE  IsUserBanned(u)
  BY DEF SpeechTypes
<1>1. PICK i \in DOMAIN sanctions :
         /\ sanctions[i].of = u /\ sanctions[i].kind = "ban"
         /\ \A j \in DOMAIN sanctions :
               j > i /\ sanctions[j].of = u => sanctions[j].kind \notin {"ban", "unban"}
  BY DEF ActiveBans
<1>2. i \in Of(u, {"ban", "unban"})
  BY <1>1 DEF Of
<1>3. \A j \in Of(u, {"ban", "unban"}) : j <= i
  <2> SUFFICES ASSUME NEW j \in DOMAIN sanctions, sanctions[j].of = u,
                      sanctions[j].kind \in {"ban", "unban"}
               PROVE  ~(j > i)
    BY DEF Of
  <2> QED
    BY <1>1
<1> QED
  BY <1>1, <1>2, <1>3 DEF IsUserBanned, Newest

\* Who does not react does not count, nor tell.
LEMMA ReactKeeps ==
  ASSUME ReactInv, UNCHANGED <<reactions, found, latest, shown, inTurn>>,
         \A g \in ChatCalls, k \in {"count", "tell"} : modCall[g].step = k => modCall'[g].step = k
  PROVE  ReactInv'
BY DEF ReactInv, StepOf

\* A call goes on to c, or ends, and nothing else of what may be said changes.
LEMMA CallMoves ==
  ASSUME SpeechTypes, BanInv, SlowInv, NEW h \in ChatCalls, NEW c \in ModCalls,
         modCall' = [modCall EXCEPT ![h] = c], UNCHANGED <<now, room, sanctions, said>>,
         c.step # "idle" => c.user \in Members,
         c.barred => c.step = "banned" /\ IsUserBanned(c.user),
         c.step \in MessageSteps =>
            Speaks(h) /\ c.user = modCall[h].user /\ c.alone = modCall[h].alone,
         c.step = "insert" /\ c.alone /\ c.user \notin Moderators =>
            \A i \in MessagesOf(c.user) : now - said[i].at >= c.slow
  PROVE  SpeechTypes' /\ BanInv' /\ SlowInv'
<1>1. modCall'[h] = c /\ \A g \in ChatCalls : g # h => modCall'[g] = modCall[g]
  BY DEF SpeechTypes
<1>2. SpeechTypes'
  BY <1>1 DEF SpeechTypes
<1>3. BanInv'
  BY <1>1, BannedStays DEF BanInv, StepOf
<1>4. SlowInv'
  BY <1>1 DEF SlowInv, Speaks, StepOf, MessagesOf, SlowModeHolds
<1> QED
  BY <1>2, <1>3, <1>4

\* createMessage begins: who else is at it with the user's name is alone no more.
LEMMA SayStep ==
  ASSUME ModerationAssumption, ModAll, NEW h \in ChatCalls, NEW u \in Members, Say(h, u)
  PROVE  ModGoes
<1> DEFINE others == Others(h, MessageSteps, u)
           c == [step |-> "banned", user |-> u, slow |-> room.slow,
                 barred |-> u \in ActiveBans, alone |-> others = {}]
           N == [g \in ChatCalls |-> IF g = h THEN c ELSE [modCall[g] EXCEPT !.alone = @ /\ g \notin others]]
<1>0. ModAll /\ SpeechTypes /\ modCall \in [ChatCalls -> ModCalls]
  BY DEF ModAll, SpeechTypes
<1>1. modCall[h] = NoModCall /\ modCall' = N /\ UNCHANGED <<now, room, sanctions, said, reactions, found, latest, shown, inTurn>>
  BY DEF Say
<1>2. c \in ModCalls /\ c.step = "banned" /\ c.user = u /\ (c.barred => IsUserBanned(u))
      /\ (c.alone => others = {})
  <2>1. room.slow \in Intervals \cup {0} /\ "banned" \in ModSteps
    BY <1>0 DEF SpeechTypes, ModSteps, MessageSteps
  <2>2. (u \in ActiveBans) \in BOOLEAN /\ (others = {}) \in BOOLEAN
    OBVIOUS
  <2>3. c \in ModCalls
    BY <2>1, <2>2, ModCallOf
  <2>4. u \in ActiveBans => IsUserBanned(u)
    BY <1>0, BansAgree
  <2> QED
    BY <2>3, <2>4
<1>3. ASSUME NEW g \in ChatCalls, g # h
      PROVE  /\ N[g] \in ModCalls /\ N[g].step = modCall[g].step /\ N[g].user = modCall[g].user
             /\ N[g].slow = modCall[g].slow /\ N[g].barred = modCall[g].barred
             /\ N[g].alone => modCall[g].alone /\ g \notin others
  <2>1. N[g] = [modCall[g] EXCEPT !.alone = modCall[g].alone /\ g \notin others]
    BY <1>3
  <2>2. modCall[g] \in ModCalls /\ (modCall[g].alone /\ g \notin others) \in BOOLEAN
    BY <1>0
  <2> HIDE DEF N, others
  <2> QED
    BY <2>1, <2>2 DEF ModCalls
<1>4. others = {g \in ChatCalls \ {h} : modCall[g].step \in MessageSteps /\ modCall[g].user = u}
  BY DEF Others
<1>5. N[h] = c /\ N \in [ChatCalls -> ModCalls]
  BY <1>2, <1>3
<1> HIDE DEF c, N, others
<1>6. SpeechTypes'
  BY <1>0, <1>1, <1>2, <1>3, <1>5 DEF SpeechTypes
<1>7. BanInv'
  BY <1>0, <1>1, <1>2, <1>3, <1>5, BannedStays DEF ModAll, BanInv, StepOf
<1>8. SlowInv'
  <2>1. ASSUME NEW f \in ChatCalls, NEW g \in ChatCalls,
               modCall'[f].step \in MessageSteps, modCall'[g].step \in MessageSteps,
               modCall'[f].user = modCall'[g].user, modCall'[g].alone
        PROVE  f = g
    BY <1>0, <1>1, <1>2, <1>3, <1>4, <1>5, <2>1 DEF ModAll, SlowInv, Speaks
  <2>2. ASSUME NEW g \in ChatCalls, modCall'[g].step = "insert", modCall'[g].alone,
               modCall'[g].user \notin Moderators
        PROVE  \A i \in MessagesOf(modCall'[g].user) : now - said[i].at >= modCall'[g].slow
    <3>1. g # h  BY <1>1, <1>2, <1>5, <2>2
    <3> QED
      BY <1>0, <1>1, <1>3, <2>2, <3>1 DEF ModAll, SlowInv, StepOf
  <2> QED
    BY <1>0, <1>1, <2>1, <2>2 DEF ModAll, SlowInv, Speaks, StepOf, MessagesOf, SlowModeHolds
<1>9. ReactInv'
  <2>1. \A g \in ChatCalls : modCall'[g].step \in ReactionSteps => modCall[g].step \in ReactionSteps
    BY <1>1, <1>2, <1>3, <1>5 DEF ReactionSteps
  <2>2. \A g \in ChatCalls, k \in {"count", "tell"} : modCall'[g].step = k <=> modCall[g].step = k
    BY <1>1, <1>2, <1>3, <1>5, NoModCallIs
  <2> QED
    BY <1>0, <1>1, <2>1, <2>2, ReactKeeps DEF ModAll, Reacts, StepOf
<1> QED
  BY <1>6, <1>7, <1>8, <1>9 DEF ModGoes

\* A call that ends, or goes on to step s with what it had.
LEMMA Onwards ==
  ASSUME SpeechTypes, NEW h \in ChatCalls, NEW s \in ModSteps
  PROVE  LET c == [modCall[h] EXCEPT !.step = s]
         IN  /\ c \in ModCalls /\ c.step = s /\ c.user = modCall[h].user /\ c.slow = modCall[h].slow
             /\ c.barred = modCall[h].barred /\ c.alone = modCall[h].alone
             /\ Goes(h, s) => modCall' = [modCall EXCEPT ![h] = c]
<1>1. modCall[h] \in ModCalls
  BY DEF SpeechTypes
<1> QED
  BY <1>1 DEF ModCalls, Goes

\* Who waited since the newest of the messages waited since all of them.
LEMMA NewestIsLast ==
  ASSUME SpeechTypes, SlowInv, NEW u, NEW n \in Nat,
         \A i \in Newest(MessagesOf(u)) : ~(now - said[i].at < n)
  PROVE  \A i \in MessagesOf(u) : now - said[i].at >= n
<1> SUFFICES ASSUME MessagesOf(u) # {}
             PROVE  \A i \in MessagesOf(u) : now - said[i].at >= n
  OBVIOUS
<1>1. MessagesOf(u) \in SUBSET (0..Len(said)) /\ Len(said) \in Nat
      /\ MessagesOf(u) \subseteq DOMAIN said
  BY DEF MessagesOf, SpeechTypes
<1>2. PICK m \in MessagesOf(u) : \A k \in MessagesOf(u) : k <= m
  BY <1>1, Greatest
<1>3. ~(now - said[m].at < n)
  BY <1>2 DEF Newest
<1>4. now \in Nat /\ \A i \in DOMAIN said : said[i].at \in Nat
  BY SaidIs
<1>5. \A i \in MessagesOf(u) : said[i].at <= said[m].at
  BY <1>1, <1>2 DEF SlowInv
<1> QED
  BY <1>1, <1>2, <1>3, <1>4, <1>5

LEMMA ChecksStep ==
  ASSUME ModerationAssumption, ModAll, NEW h \in ChatCalls,
         CheckBanned(h) \/ CheckTimedOut(h) \/ CheckSlowMode(h)
  PROVE  ModGoes
<1>0. SpeechTypes /\ BanInv /\ SlowInv /\ ReactInv
  BY DEF ModAll
<1>1. UNCHANGED <<now, room, sanctions, said>> /\ UNCHANGED <<reactions, found, latest, shown, inTurn>>
      /\ modCall[h].step \in {"banned", "timedOut", "slow"} /\ modCall[h].user \in Members
      /\ modCall[h].slow \in Intervals \cup {0}
  BY <1>0 DEF CheckBanned, CheckTimedOut, CheckSlowMode, StepOf, SpeechTypes, ModCalls
<1>2. CASE Returns(h)
  <2>1. SpeechTypes' /\ BanInv' /\ SlowInv'
    BY <1>0, <1>1, <1>2, CallMoves, NoModCallIs DEF Returns, MessageSteps
  <2>2. ReactInv'
    BY <1>0, <1>1, <1>2, ReactKeeps, NoModCallIs
       DEF Returns, Reacts, StepOf, ReactionSteps, SpeechTypes
  <2> QED
    BY <2>1, <2>2 DEF ModGoes
<1>3. ASSUME NEW s \in {"timedOut", "slow", "insert"}, Goes(h, s), ~modCall[h].barred,
             s = "insert" => \/ modCall[h].user \in Moderators
                             \/ \A i \in MessagesOf(modCall[h].user) :
                                   now - said[i].at >= modCall[h].slow
      PROVE  ModGoes
  <2> DEFINE c == [modCall[h] EXCEPT !.step = s]
  <2>1. /\ c \in ModCalls /\ c.step = s /\ c.user = modCall[h].user /\ c.slow = modCall[h].slow
        /\ c.barred = modCall[h].barred /\ c.alone = modCall[h].alone
        /\ modCall' = [modCall EXCEPT ![h] = c]
    BY <1>0, <1>3, Onwards DEF ModSteps, MessageSteps
  <2> HIDE DEF c
  <2>2. Speaks(h)  BY <1>1 DEF Speaks, MessageSteps
  <2>3. SpeechTypes' /\ BanInv' /\ SlowInv'
    BY <1>0, <1>1, <1>3, <2>1, <2>2, CallMoves
  <2>4. ReactInv'
    BY <1>0, <1>1, <1>3, <2>1, ReactKeeps DEF Reacts, StepOf, ReactionSteps, SpeechTypes
  <2> QED
    BY <2>3, <2>4 DEF ModGoes
<1>4. CASE CheckBanned(h)
  <2>1. Returns(h) \/ (Goes(h, "timedOut") /\ ~IsUserBanned(modCall[h].user))
    BY <1>4 DEF CheckBanned
  <2>2. IsUserBanned(modCall[h].user) \/ ~modCall[h].barred
    BY <1>0 DEF BanInv
  <2> QED
    BY <1>2, <1>3, <2>1, <2>2
<1>5. CASE CheckTimedOut(h) \/ CheckSlowMode(h)
  <2>1. ~modCall[h].barred
    BY <1>0, <1>5 DEF BanInv, StepOf, CheckTimedOut, CheckSlowMode
  <2>2. \A i \in DOMAIN said : i \in Nat /\ said[i].at \in Nat /\ said[i].at <= now
    BY <1>0, SaidIs DEF SlowInv
  <2>3. now \in Nat
    BY <1>0, SaidIs
  <2>4. CASE CheckTimedOut(h)
    <3>1. \/ Returns(h) \/ Goes(h, "slow")
          \/ Goes(h, "insert") /\ (modCall[h].user \in Moderators \/ modCall[h].slow = 0)
      BY <2>4 DEF CheckTimedOut
    <3>2. modCall[h].slow = 0 => \A i \in MessagesOf(modCall[h].user) : now - said[i].at >= modCall[h].slow
      BY <2>2, <2>3 DEF MessagesOf
    <3> QED
      BY <1>2, <1>3, <2>1, <3>1, <3>2
  <2>5. CASE CheckSlowMode(h)
    <3>1. CASE Returns(h)  BY <1>2, <3>1
    <3>2. CASE ~Returns(h)
      <4>1. Goes(h, "insert")
            /\ \A i \in Newest(MessagesOf(modCall[h].user)) : ~(now - said[i].at < modCall[h].slow)
        BY <2>5, <3>2 DEF CheckSlowMode
      <4>2. \A i \in MessagesOf(modCall[h].user) : now - said[i].at >= modCall[h].slow
        BY <1>0, <1>1, <2>2, <2>3, <4>1, NewestIsLast
      <4> QED
        BY <1>3, <2>1, <4>1, <4>2
    <3> QED
      BY <3>1, <3>2
  <2> QED
    BY <1>5, <2>4, <2>5
<1> QED
  BY <1>4, <1>5

LEMMA InsertStep ==
  ASSUME ModerationAssumption, ModAll, NEW h \in ChatCalls, InsertMessage(h)
  PROVE  ModGoes
<1> DEFINE c == modCall[h]
           m == [by |-> c.user, at |-> now, slow |-> c.slow, barred |-> c.barred, alone |-> c.alone]
<1>0. SpeechTypes /\ BanInv /\ SlowInv /\ ReactInv
  BY DEF ModAll
<1>1. /\ c.step = "insert" /\ modCall' = [modCall EXCEPT ![h] = NoModCall]
      /\ UNCHANGED <<now, room, sanctions, reactions, found, latest, shown, inTurn>>
      /\ said' = said \/ said' = Append(said, m)
  BY DEF InsertMessage, StepOf, Returns
<1>2. c \in ModCalls /\ c.user \in Members /\ ~c.barred
  BY <1>0, <1>1 DEF SpeechTypes, BanInv, StepOf
<1>3. ReactInv'
  BY <1>0, <1>1, ReactKeeps, NoModCallIs DEF Reacts, StepOf, ReactionSteps, SpeechTypes
<1>4. modCall' \in [ChatCalls -> ModCalls] /\ modCall'[h] = NoModCall
      /\ \A g \in ChatCalls : g # h => modCall'[g] = modCall[g]
  BY <1>0, <1>1, NoModCallIs DEF SpeechTypes
<1>5. CASE said' = said
  BY <1>0, <1>1, <1>3, <1>5, CallMoves, NoModCallIs DEF ModGoes, MessageSteps
<1>6. CASE said' = Append(said, m)
  <2> DEFINE n == Len(said)
  <2>1. now \in 0..MaxSeconds /\ c.slow \in Intervals \cup {0} /\ c.alone \in BOOLEAN
    BY <1>0, <1>2 DEF SpeechTypes, ModCalls
  <2>2. /\ m \in SaidRows /\ m.by = c.user /\ m.at = now /\ m.slow = c.slow
        /\ m.alone = c.alone /\ ~m.barred
    <3>1. c.barred \in BOOLEAN
      BY <1>2 DEF ModCalls
    <3> HIDE DEF c
    <3> QED
      BY <1>2, <2>1, <3>1, SaidRowOf
  <2>3. /\ n \in Nat /\ DOMAIN said = 1..n /\ said \in Seq(SaidRows) /\ now \in Nat
        /\ \A i \in 1..n : said[i].at \in Nat
    BY <1>0, SaidIs DEF SpeechTypes
  <2> HIDE DEF m, n, c
  <2>4. /\ said' \in Seq(SaidRows) /\ DOMAIN said' = 1..(n + 1) /\ said'[n + 1] = m
        /\ \A i \in 1..n : said'[i] = said[i]
    BY <1>6, <2>2, <2>3 DEF n
  <2>5. SpeechTypes'
    BY <1>0, <1>1, <1>4, <2>4, NoModCallIs DEF SpeechTypes
  <2>6. BanInv'
    <3>1. \A i \in DOMAIN said' : ~said'[i].barred
      BY <1>0, <2>2, <2>3, <2>4 DEF BanInv
    <3> QED
      BY <1>0, <1>1, <1>4, <3>1, BannedStays, NoModCallIs DEF BanInv, StepOf
  <2>7. SlowInv'
    <3>1. \A i \in DOMAIN said' : said'[i].at <= now
      BY <1>0, <2>2, <2>3, <2>4 DEF SlowInv
    <3>2. ASSUME NEW i \in DOMAIN said', NEW j \in DOMAIN said', i <= j
          PROVE  said'[i].at <= said'[j].at
      <4>1. CASE j = n + 1  BY <1>1, <2>2, <2>4, <3>1, <4>1
      <4>2. CASE j # n + 1
        <5>1. i \in 1..n /\ j \in 1..n  BY <2>3, <2>4, <3>2, <4>2
        <5> QED  BY <1>0, <2>3, <2>4, <3>2, <5>1 DEF SlowInv
      <4> QED  BY <4>1, <4>2
    <3>3. \A f, g \in ChatCalls : Speaks(f)' /\ Speaks(g)' /\ modCall'[f].user = modCall'[g].user
                                     /\ modCall'[g].alone => f = g
      BY <1>0, <1>4, NoModCallIs DEF SlowInv, Speaks, MessageSteps
    <3>4. ASSUME NEW g \in ChatCalls, modCall'[g].step = "insert", modCall'[g].alone,
                 modCall'[g].user \notin Moderators,
                 NEW i \in DOMAIN said', said'[i].by = modCall'[g].user
          PROVE  now - said'[i].at >= modCall'[g].slow
      <4>1. g # h /\ modCall'[g] = modCall[g]
        BY <1>4, <3>4, NoModCallIs
      <4>2. modCall[g].user # c.user
        BY <1>0, <1>1, <3>4, <4>1 DEF SlowInv, Speaks, MessageSteps, c
      <4>3. i \in 1..n
        BY <2>2, <2>3, <2>4, <3>4, <4>1, <4>2
      <4> QED
        BY <1>0, <2>3, <2>4, <3>4, <4>1, <4>3 DEF SlowInv, StepOf, MessagesOf
    <3>5. ASSUME NEW i \in DOMAIN said', NEW j \in DOMAIN said', i < j, said'[i].by = said'[j].by,
                 said'[j].by \notin Moderators, said'[j].alone
          PROVE  said'[j].at - said'[i].at >= said'[j].slow
      <4>1. i \in 1..n  BY <2>3, <2>4, <3>5
      <4>2. CASE j \in 1..n
        BY <1>0, <2>3, <2>4, <3>5, <4>1, <4>2 DEF SlowInv, SlowModeHolds
      <4>3. CASE j = n + 1
        <5>1. i \in MessagesOf(c.user) /\ c.user \notin Moderators /\ c.alone
          BY <2>2, <2>3, <2>4, <3>5, <4>1, <4>3 DEF MessagesOf
        <5>2. now - said[i].at >= c.slow
          BY <1>0, <1>1, <5>1 DEF SlowInv, StepOf, c
        <5> QED
          BY <2>2, <2>3, <2>4, <4>1, <4>3, <5>2
      <4> QED
        BY <2>3, <2>4, <4>2, <4>3
    <3> QED
      BY <1>1, <3>1, <3>2, <3>3, <3>4, <3>5 DEF SlowInv, SlowModeHolds, MessagesOf, StepOf
  <2> QED
    BY <1>3, <2>5, <2>6, <2>7 DEF ModGoes
<1> QED
  BY <1>1, <1>5, <1>6

\* A call outside of createMessage goes on, or ends.
LEMMA BesideSpeech ==
  ASSUME ModerationAssumption, ModAll, NEW h \in ChatCalls, NEW c \in ModCalls,
         c.step \notin MessageSteps, c.step # "idle" => c.user \in Members, ~c.barred,
         modCall' = [modCall EXCEPT ![h] = c], UNCHANGED <<now, room, sanctions, said>>
  PROVE  SpeechTypes' /\ BanInv' /\ SlowInv'
BY CallMoves DEF ModAll, MessageSteps

\* No call outside of createMessage bears a ban.
LEMMA NotBarred ==
  ASSUME ModAll, NEW h \in ChatCalls, modCall[h].step # "banned"
  PROVE  ~modCall[h].barred
BY DEF ModAll, BanInv, StepOf

LEMMA ModeratesStep ==
  ASSUME ModerationAssumption, ModAll, NEW h \in ChatCalls,
         \/ \E u \in Members, k \in {"ban", "unban", "timeout"} : Moderate(h, u, k)
         \/ CheckBan(h)
  PROVE  ModGoes
<1>0. SpeechTypes /\ BanInv /\ SlowInv /\ ReactInv
  BY DEF ModAll
<1>1. ASSUME NEW c \in ModCalls, c.step \notin MessageSteps \cup ReactionSteps,
             c.step # "idle" => c.user \in Members, ~c.barred, ~Reacts(h),
             modCall' = [modCall EXCEPT ![h] = c],
             UNCHANGED <<now, room, sanctions, said, reactions, found, latest, shown, inTurn>>
      PROVE  ModGoes
  <2>1. SpeechTypes' /\ BanInv' /\ SlowInv'
    BY <1>1, BesideSpeech
  <2>2. ReactInv'
    BY <1>0, <1>1, ReactKeeps DEF Reacts, StepOf, ReactionSteps, SpeechTypes
  <2> QED
    BY <2>1, <2>2 DEF ModGoes
<1>2. ASSUME NEW u \in Members, NEW k \in {"ban", "unban", "timeout"}, Moderate(h, u, k)
      PROVE  ModGoes
  <2> DEFINE c == [NoModCall EXCEPT !.step = k, !.user = u]
  <2>1. c.step = k /\ c.user = u /\ ~c.barred /\ k \in ModSteps
        /\ k \notin MessageSteps \cup ReactionSteps
    BY DEF NoModCall, ModSteps, MessageSteps, ReactionSteps
  <2>2. c \in ModCalls
    BY <2>1, NoModCallIs
  <2>3. ~Reacts(h)
    BY <1>2, NoModCallIs DEF Moderate, Reacts, ReactionSteps
  <2>4. /\ modCall' = [modCall EXCEPT ![h] = c]
        /\ UNCHANGED <<now, room, sanctions, said, reactions, found, latest, shown, inTurn>>
    BY <1>2 DEF Moderate
  <2> HIDE DEF c
  <2> QED
    BY <1>1, <2>1, <2>2, <2>3, <2>4
<1>3. CASE CheckBan(h)
  <2>1. /\ modCall[h].step \in {"ban", "unban"}
        /\ UNCHANGED <<now, room, sanctions, said, reactions, found, latest, shown, inTurn>>
        /\ Returns(h) \/ \E s \in {"banRow", "unbanRow"} : Goes(h, s)
    BY <1>3 DEF CheckBan, StepOf
  <2>2. ~modCall[h].barred /\ modCall[h].user \in Members /\ ~Reacts(h)
    BY <1>0, <2>1, NotBarred DEF SpeechTypes, Reacts, ReactionSteps
  <2>3. CASE Returns(h)
    BY <1>1, <2>1, <2>2, <2>3, NoModCallIs DEF Returns, MessageSteps, ReactionSteps
  <2>4. ASSUME NEW s \in {"banRow", "unbanRow"}, Goes(h, s) PROVE ModGoes
    <3>1. s \in ModSteps /\ s \notin MessageSteps \cup ReactionSteps
      BY DEF ModSteps, MessageSteps, ReactionSteps
    <3> DEFINE c == [modCall[h] EXCEPT !.step = s]
    <3>2. /\ c \in ModCalls /\ c.step = s /\ c.user = modCall[h].user /\ c.barred = modCall[h].barred
          /\ modCall' = [modCall EXCEPT ![h] = c]
      BY <1>0, <2>4, <3>1, Onwards
    <3> HIDE DEF c
    <3> QED
      BY <1>1, <2>1, <2>2, <3>1, <3>2
  <2> QED
    BY <2>1, <2>3, <2>4
<1> QED
  BY <1>2, <1>3

\* A new row lifts no ban but that of the user it unbans.
LEMMA BanLasts ==
  ASSUME SpeechTypes, NEW r \in Sanctions, sanctions' = Append(sanctions, r),
         NEW u, IsUserBanned(u), ~(r.kind = "unban" /\ r.of = u)
  PROVE  IsUserBanned(u)'
<1> DEFINE n == Len(sanctions)
           O == Of(u, {"ban", "unban"})
<1>1. n \in Nat /\ DOMAIN sanctions = 1..n /\ DOMAIN sanctions' = 1..(n + 1)
      /\ sanctions'[n + 1] = r /\ \A i \in 1..n : sanctions'[i] = sanctions[i]
  BY DEF SpeechTypes
<1>2. PICK i \in O : sanctions[i].kind = "ban" /\ \A j \in O : j <= i
  BY DEF IsUserBanned, Newest
<1> HIDE DEF n
<1>3. i \in 1..n
  BY <1>1, <1>2 DEF Of
<1>4. CASE r.kind = "ban" /\ r.of = u
  <2>1. n + 1 \in O' /\ \A j \in O' : j <= n + 1
    BY <1>1, <1>4 DEF Of
  <2> QED
    BY <1>1, <1>4, <2>1 DEF IsUserBanned, Newest
<1>5. CASE ~(r.kind = "ban" /\ r.of = u)
  <2>1. O' = O
    <3>1. n + 1 \notin O'
      BY <1>1, <1>5 DEF Of
    <3>2. n + 1 \notin O /\ O' \subseteq 1..(n + 1) /\ O \subseteq 1..n
      BY <1>1 DEF Of
    <3>3. \A j \in 1..n : j \in O' <=> j \in O
      BY <1>1 DEF Of
    <3>4. \A j \in 1..(n + 1) : j = n + 1 \/ j \in 1..n
      BY <1>1
    <3> QED
      BY <3>1, <3>2, <3>3, <3>4
  <2>2. sanctions'[i].kind = "ban"
    BY <1>1, <1>2, <1>3
  <2> HIDE DEF O
  <2>3. i \in O' /\ \A j \in O' : j <= i
    BY <1>2, <2>1
  <2> QED
    BY <2>2, <2>3 DEF IsUserBanned, Newest, O
<1> QED
  BY <1>4, <1>5

LEMMA SanctionStep ==
  ASSUME ModerationAssumption, ModAll, NEW h \in ChatCalls, InsertSanction(h)
  PROVE  ModGoes
<1> DEFINE c == modCall[h]
           Lifts(g) == StepOf(h, "unbanRow") /\ modCall[g].user = c.user
           N == [g \in ChatCalls |-> IF g = h THEN NoModCall
                                     ELSE IF Lifts(g) THEN [modCall[g] EXCEPT !.barred = FALSE]
                                     ELSE modCall[g]]
<1>0. SpeechTypes /\ BanInv /\ SlowInv /\ ReactInv
  BY DEF ModAll
<1>1. /\ c.step \in {"banRow", "unbanRow", "timeout"} /\ modCall' = N
      /\ UNCHANGED <<now, room, said, reactions, found, latest, shown, inTurn>>
  BY DEF InsertSanction
<1>2. PICK r \in Sanctions : /\ sanctions' = Append(sanctions, r) /\ r.of = c.user
                             /\ r.kind = "unban" => StepOf(h, "unbanRow")
  <2>1. c.user \in Members
    BY <1>0, <1>1 DEF SpeechTypes
  <2>2. now \in Nat /\ \A d \in Durations : now + d \in Nat
    BY <1>0, SaidIs DEF ModerationAssumption
  <2> DEFINE R(k, t) == [kind |-> k, of |-> c.user, until |-> t]
  <2>3. \A k \in {"ban", "unban", "timeout"}, t \in Nat :
           R(k, t) \in Sanctions /\ R(k, t).of = c.user /\ R(k, t).kind = k
    BY <2>1 DEF Sanctions
  <2>4. \/ sanctions' = Append(sanctions, R("ban", 0))
        \/ StepOf(h, "unbanRow") /\ sanctions' = Append(sanctions, R("unban", 0))
        \/ \E d \in Durations : sanctions' = Append(sanctions, R("timeout", now + d))
    BY DEF InsertSanction
  <2> HIDE DEF c, R
  <2>5. CASE sanctions' = Append(sanctions, R("ban", 0))
    BY <2>3, <2>5
  <2>6. CASE StepOf(h, "unbanRow") /\ sanctions' = Append(sanctions, R("unban", 0))
    BY <2>3, <2>6
  <2>7. CASE \E d \in Durations : sanctions' = Append(sanctions, R("timeout", now + d))
    BY <2>2, <2>3, <2>7
  <2> QED
    BY <2>4, <2>5, <2>6, <2>7
<1>3. ASSUME NEW g \in ChatCalls, g # h
      PROVE  /\ N[g] \in ModCalls /\ N[g].step = modCall[g].step /\ N[g].user = modCall[g].user
             /\ N[g].slow = modCall[g].slow /\ N[g].alone = modCall[g].alone
             /\ N[g].barred => modCall[g].barred /\ ~Lifts(g)
  <2>1. modCall[g] \in ModCalls
    BY <1>0 DEF SpeechTypes
  <2>2. N[g] = IF Lifts(g) THEN [modCall[g] EXCEPT !.barred = FALSE] ELSE modCall[g]
    BY <1>3
  <2> HIDE DEF N, Lifts
  <2> QED
    BY <2>1, <2>2 DEF ModCalls
<1>4. N[h] = NoModCall /\ N \in [ChatCalls -> ModCalls]
  BY <1>3, NoModCallIs
<1> HIDE DEF N
<1>5. SpeechTypes'
  <2>1. sanctions' \in Seq(Sanctions)
    BY <1>0, <1>2 DEF SpeechTypes
  <2> QED
    BY <1>0, <1>1, <1>3, <1>4, <2>1, NoModCallIs DEF SpeechTypes
<1>6. BanInv'
  <2>1. ASSUME NEW g \in ChatCalls, modCall'[g].barred
        PROVE  modCall'[g].step = "banned" /\ IsUserBanned(modCall[g].user)'
    <3>1. g # h /\ modCall[g].barred /\ ~Lifts(g) /\ modCall'[g].step = modCall[g].step
      BY <1>1, <1>3, <1>4, <2>1, NoModCallIs
    <3>2. modCall[g].step = "banned" /\ IsUserBanned(modCall[g].user)
      BY <1>0, <3>1 DEF BanInv, StepOf
    <3>3. PICK u : u = modCall[g].user
      OBVIOUS
    <3>4. ~(r.kind = "unban" /\ r.of = u)
      BY <1>2, <3>1, <3>3
    <3>5. IsUserBanned(u)'
      BY <1>0, <1>2, <3>2, <3>3, <3>4, BanLasts
    <3>6. modCall'[g].user = u
      BY <1>1, <1>3, <3>1, <3>3
    <3> QED
      BY <3>1, <3>2, <3>5, <3>6
  <2> QED
    BY <1>0, <1>1, <2>1 DEF BanInv, StepOf
<1>7. SlowInv'
  <2>1. \A g \in ChatCalls :
           modCall'[g].step \in MessageSteps => /\ modCall[g].step = modCall'[g].step
                                                /\ modCall[g].user = modCall'[g].user
                                                /\ modCall[g].slow = modCall'[g].slow
                                                /\ modCall[g].alone = modCall'[g].alone
    BY <1>1, <1>3, <1>4, NoModCallIs DEF MessageSteps
  <2>2. "insert" \in MessageSteps
    BY DEF MessageSteps
  <2> QED
    BY <1>0, <1>1, <2>1, <2>2 DEF SlowInv, Speaks, StepOf, MessagesOf, SlowModeHolds
<1>8. ReactInv'
  <2>1. \A g \in ChatCalls : modCall'[g].step \in ReactionSteps => modCall[g].step \in ReactionSteps
    BY <1>1, <1>3, <1>4, NoModCallIs DEF ReactionSteps
  <2>2. \A g \in ChatCalls, k \in {"count", "tell"} : modCall'[g].step = k <=> modCall[g].step = k
    BY <1>1, <1>3, <1>4, NoModCallIs
  <2> QED
    BY <1>0, <1>1, <2>1, <2>2, ReactKeeps DEF Reacts, StepOf
<1> QED
  BY <1>5, <1>6, <1>7, <1>8 DEF ModGoes

\* A moderator sets slow mode, the stream ends, or a second passes.
LEMMA BesideCalls ==
  ASSUME ModerationAssumption, ModAll,
         (\E n \in Intervals : SetSlowMode(n)) \/ CloseChannelRoom \/ SecondPasses
  PROVE  ModGoes
<1>0. SpeechTypes /\ BanInv /\ SlowInv /\ ReactInv
  BY DEF ModAll
<1>1. /\ UNCHANGED <<sanctions, said, reactions, found, latest, shown, inTurn, modCall>>
      /\ room'.slow \in Intervals \cup {0} /\ now' \in 0..MaxSeconds /\ now <= now'
  <2>1. CASE \E n \in Intervals : SetSlowMode(n)
    <3>1. PICK n \in Intervals : room' = [room EXCEPT !.slow = n] /\ now' = now
      BY <2>1 DEF SetSlowMode
    <3>2. room'.slow \in Intervals \cup {0}
      BY <1>0, <3>1 DEF SpeechTypes
    <3> QED
      BY <1>0, <2>1, <3>1, <3>2, SaidIs DEF SetSlowMode, SpeechTypes
  <2>2. CASE CloseChannelRoom
    <3>1. room'.slow = room.slow
      BY <2>2 DEF CloseChannelRoom
    <3> QED
      BY <1>0, <2>2, <3>1, SaidIs DEF CloseChannelRoom, SpeechTypes
  <2>3. CASE SecondPasses
    BY <1>0, <2>3, SaidIs DEF SecondPasses, SpeechTypes, ModerationAssumption
  <2> QED
    BY <2>1, <2>2, <2>3
<1>2. SpeechTypes'
  BY <1>0, <1>1 DEF SpeechTypes
<1>3. BanInv'
  BY <1>0, <1>1, BannedStays DEF BanInv, StepOf
<1>4. SlowInv'
  <2>1. now \in Nat /\ now' \in Nat /\ Intervals \subseteq Nat
        /\ \A i \in DOMAIN said : said[i].at \in Nat /\ said[i].at <= now'
    BY <1>0, <1>1, SaidIs DEF SlowInv, ModerationAssumption
  <2>2. ASSUME NEW h \in ChatCalls, StepOf(h, "insert"), modCall[h].alone,
               modCall[h].user \notin Moderators, NEW i \in MessagesOf(modCall[h].user)
        PROVE  now' - said[i].at >= modCall[h].slow
    <3>1. modCall[h] \in ModCalls /\ Intervals \cup {0} \subseteq Nat
      BY <1>0, <2>1 DEF SpeechTypes
    <3>0. modCall[h].slow \in Nat
      BY <3>1 DEF ModCalls
    <3>2. i \in DOMAIN said /\ now - said[i].at >= modCall[h].slow
      BY <1>0, <2>2 DEF SlowInv, MessagesOf
    <3> QED
      BY <1>1, <2>1, <3>0, <3>2
  <2> QED
    BY <1>0, <1>1, <2>1, <2>2 DEF SlowInv, Speaks, StepOf, MessagesOf, SlowModeHolds
<1>5. ReactInv'
  BY <1>0, <1>1, ReactKeeps
<1> QED
  BY <1>2, <1>3, <1>4, <1>5 DEF ModGoes

\* A reaction call begins, or is refused.
LEMMA ReactsStep ==
  ASSUME ModerationAssumption, ModAll, NEW h \in ChatCalls,
         \/ \E u \in Members : AddReaction(h, u) \/ RemoveReaction(h, u)
         \/ CheckReactor(h) \/ ChangeReaction(h) \/ CountReactions(h) \/ TellReactions(h)
  PROVE  ModGoes
<1>0. SpeechTypes /\ BanInv /\ SlowInv /\ ReactInv
  BY DEF ModAll
<1>1. ASSUME NEW c \in ModCalls, c.step \notin MessageSteps, c.step # "idle" => c.user \in Members,
             ~c.barred, modCall' = [modCall EXCEPT ![h] = c], UNCHANGED <<now, room, sanctions, said>>,
             ReactInv'
      PROVE  ModGoes
  <2>1. SpeechTypes' /\ BanInv' /\ SlowInv'
    BY <1>1, BesideSpeech
  <2> QED
    BY <1>1, <2>1 DEF ModGoes
<1>2. ASSUME NEW u \in Members, NEW s \in {"reactBanned", "unreact"}, Reacting(h, u, s)
      PROVE  ModGoes
  <2> DEFINE c == [NoModCall EXCEPT !.step = s, !.user = u]
  <2>1. c.step = s /\ c.user = u /\ ~c.barred /\ s \in ModSteps /\ s \notin MessageSteps
    BY DEF NoModCall, ModSteps, MessageSteps, ReactionSteps
  <2>2. c \in ModCalls
    BY <2>1, NoModCallIs
  <2>3. /\ modCall[h].step = "idle" /\ modCall' = [modCall EXCEPT ![h] = c]
        /\ UNCHANGED <<now, room, sanctions, said, reactions, found, latest, shown, inTurn>>
    BY <1>2, NoModCallIs DEF Reacting
  <2> HIDE DEF c
  <2>4. ReactInv'
    BY <1>0, <2>3, ReactKeeps DEF SpeechTypes
  <2> QED
    BY <1>1, <2>1, <2>2, <2>3, <2>4
<1>3. ASSUME NEW s \in {"react", "count", "tell"}, Goes(h, s), modCall[h].step \in ReactionSteps,
             UNCHANGED <<now, room, sanctions, said>>, ReactInv'
      PROVE  ModGoes
  <2> DEFINE c == [modCall[h] EXCEPT !.step = s]
  <2>1. s \in ModSteps /\ s \notin MessageSteps
    BY DEF ModSteps, MessageSteps, ReactionSteps
  <2>2. /\ c \in ModCalls /\ c.step = s /\ c.user = modCall[h].user /\ c.barred = modCall[h].barred
        /\ modCall' = [modCall EXCEPT ![h] = c]
    BY <1>0, <1>3, <2>1, Onwards
  <2>3. ~modCall[h].barred /\ modCall[h].user \in Members
    BY <1>0, <1>3, NotBarred DEF SpeechTypes, ReactionSteps
  <2> HIDE DEF c
  <2> QED
    BY <1>1, <1>3, <2>1, <2>2, <2>3
<1>4. ASSUME Returns(h), UNCHANGED <<now, room, sanctions, said, reactions>>, ReactInv'
      PROVE  ModGoes
  BY <1>1, <1>4, NoModCallIs DEF Returns, MessageSteps
\* Where the calls are after a step of this one.
<1>5. /\ \A s : Goes(h, s) => /\ modCall'[h].step = s
                             /\ \A g \in ChatCalls : g # h => modCall'[g] = modCall[g]
      /\ Returns(h) => /\ modCall'[h].step = "idle"
                       /\ \A g \in ChatCalls : g # h => modCall'[g] = modCall[g]
  <2>1. modCall \in [ChatCalls -> ModCalls] /\ modCall[h] \in ModCalls
    BY <1>0 DEF SpeechTypes
  <2>2. ASSUME NEW s, Goes(h, s)
        PROVE  modCall'[h].step = s /\ \A g \in ChatCalls : g # h => modCall'[g] = modCall[g]
    BY <2>1, <2>2 DEF Goes, ModCalls
  <2> QED
    BY <2>1, <2>2, NoModCallIs DEF Returns
<1>6. CASE CheckReactor(h)
  <2>1. Returns(h) \/ Goes(h, "react")
    BY <1>6 DEF CheckReactor
  <2>2. /\ modCall[h].step = "reactBanned" /\ modCall[h].step \in ReactionSteps
        /\ UNCHANGED <<now, room, sanctions, said, reactions, found, latest, shown, inTurn>>
    BY <1>6 DEF CheckReactor, StepOf, ReactionSteps
  <2>3. \A g \in ChatCalls, k \in {"count", "tell"} : modCall[g].step = k => modCall'[g].step = k
    BY <1>5, <2>1, <2>2
  <2>4. ReactInv'
    BY <1>0, <2>2, <2>3, ReactKeeps
  <2> QED
    BY <1>3, <1>4, <2>1, <2>2, <2>4
<1>7. CASE ChangeReaction(h)
  <2>1. /\ Goes(h, "count") /\ modCall[h].step \in {"react", "unreact"}
        /\ UNCHANGED <<now, room, sanctions, said, found, latest, shown, inTurn>>
    BY <1>7 DEF ChangeReaction, StepOf
  <2>2. ReactInv'
    BY <1>0, <1>5, <2>1 DEF ReactInv, StepOf
  <2> QED
    BY <1>3, <2>1, <2>2 DEF ReactionSteps
<1>8. CASE CountReactions(h)
  <2>1. /\ Goes(h, "tell") /\ modCall[h].step = "count" /\ latest' = h
        /\ found' = [found EXCEPT ![h] = reactions]
        /\ UNCHANGED <<now, room, sanctions, said, reactions, shown, inTurn>>
    BY <1>8 DEF CountReactions, StepOf
  <2>2. h # None /\ found = [g \in ChatCalls |-> found[g]]
    BY <1>0 DEF ReactInv, ModerationAssumption
  <2>3. found'[h] = reactions /\ found' = [g \in ChatCalls |-> found'[g]]
    BY <2>1, <2>2
  <2>4. ReactInv'
    BY <1>5, <2>1, <2>2, <2>3 DEF ReactInv, StepOf
  <2> QED
    BY <1>3, <2>1, <2>4 DEF ReactionSteps
<1>9. CASE TellReactions(h)
  <2>1. /\ Returns(h) /\ modCall[h].step = "tell" /\ shown' = found[h]
        /\ found' = [found EXCEPT ![h] = {}] /\ inTurn' = (latest = h)
        /\ latest' = IF latest = h THEN None ELSE latest
        /\ UNCHANGED <<now, room, sanctions, said, reactions>>
    BY <1>9 DEF TellReactions, StepOf
  <2>2. found = [g \in ChatCalls |-> found[g]]
    BY <1>0 DEF ReactInv
  <2>3. found' = [g \in ChatCalls |-> found'[g]]
        /\ \A g \in ChatCalls : g # h => found'[g] = found[g]
    BY <2>1, <2>2
  <2>4. (\A g \in ChatCalls : ~StepOf(g, "count"))' => \A g \in ChatCalls : ~StepOf(g, "count")
    <3>1. \A g \in ChatCalls : g # h => modCall'[g] = modCall[g]
      BY <1>5, <2>1
    <3> QED
      BY <2>1, <3>1 DEF StepOf
  <2>5. h # None
    BY DEF ModerationAssumption
  <2>6. latest # None => latest \in ChatCalls /\ StepOf(latest, "tell")
    BY <1>0 DEF ReactInv
  <2>7. (\A g \in ChatCalls : ~StepOf(g, "count")) =>
            (latest # None => found[latest] = reactions)
    BY <1>0 DEF ReactInv
  <2>8. ASSUME latest = h PROVE ReactInv'
    <3>1. latest' = None /\ shown' = found[h]
      BY <2>1, <2>8
    <3>2. (\A g \in ChatCalls : ~StepOf(g, "count"))' => shown' = reactions'
      BY <2>1, <2>4, <2>5, <2>8, <2>7, <3>1
    <3> QED
      BY <2>3, <3>1, <3>2 DEF ReactInv
  <2>9. ASSUME latest # h PROVE ReactInv'
    <3>1. latest' = latest /\ ~inTurn'
      BY <2>1, <2>9
    <3>2. latest # None => found'[latest] = found[latest]
      BY <2>3, <2>9, <2>6
    <3>3. latest # None => StepOf(latest, "tell")'
      BY <1>5, <2>1, <2>9, <2>6 DEF StepOf
    <3>4. (\A g \in ChatCalls : ~StepOf(g, "count"))' =>
             (latest' # None => found'[latest'] = reactions')
      BY <2>1, <2>4, <2>7, <3>1, <3>2
    <3> QED
      BY <2>3, <2>6, <3>1, <3>3, <3>4 DEF ReactInv
  <2>10. ReactInv'
    BY <2>8, <2>9
  <2> QED
    BY <1>4, <2>1, <2>10
<1> QED
  BY <1>2, <1>6, <1>7, <1>8, <1>9 DEF AddReaction, RemoveReaction

LEMMA ModStart == ModerationAssumption /\ ModerationInit => ModAll
<1> SUFFICES ASSUME ModerationAssumption, ModerationInit PROVE ModAll
  OBVIOUS
<1>1. said = <<>> /\ sanctions = <<>> /\ DOMAIN said = {}
  BY DEF ModerationInit
<1>2. \A h \in ChatCalls : modCall[h] = NoModCall
  BY DEF ModerationInit
<1>3. SpeechTypes
  <2>1. now \in 0..MaxSeconds /\ room.slow \in Intervals \cup {0}
    BY DEF ModerationInit, ModerationAssumption
  <2>2. modCall \in [ChatCalls -> ModCalls]
    BY NoModCallIs DEF ModerationInit
  <2>3. sanctions \in Seq(Sanctions) /\ said \in Seq(SaidRows)
    BY <1>1
  <2>4. \A h \in ChatCalls : modCall[h].step = "idle"
    BY <1>2, NoModCallIs
  <2> QED
    BY <2>1, <2>2, <2>3, <2>4 DEF SpeechTypes
<1>4. BanInv
  BY <1>1, <1>2, NoModCallIs DEF BanInv
<1>5. SlowInv
  BY <1>1, <1>2, NoModCallIs DEF SlowInv, Speaks, StepOf, MessageSteps, SlowModeHolds
<1> QED
  BY <1>3, <1>4, <1>5 DEF ModAll, ReactInv, ModerationInit

LEMMA ModStep == ModerationAssumption /\ ModAll /\ [ModerationNext]_moderationVars => ModAll'
<1> SUFFICES ASSUME ModerationAssumption, ModAll, [ModerationNext]_moderationVars PROVE ModAll'
  OBVIOUS
<1>1. ModGoes => ModAll'
  BY DEF ModGoes, ModAll
<1>2. CASE UNCHANGED moderationVars
  <2>1. UNCHANGED <<now, room, sanctions, said, reactions, found, latest, shown, inTurn, modCall>>
    BY <1>2 DEF moderationVars
  <2>2. \A u : IsUserBanned(u)' = IsUserBanned(u)
    BY <2>1, BannedStays
  <2> QED
    BY <2>1, <2>2 DEF ModAll, SpeechTypes, BanInv, SlowInv, ReactInv, StepOf, Speaks,
                      MessagesOf, SlowModeHolds
<1>3. ASSUME NEW h \in ChatCalls,
             \/ \E u \in Members : \/ Say(h, u) \/ AddReaction(h, u) \/ RemoveReaction(h, u)
                                   \/ \E k \in {"ban", "unban", "timeout"} : Moderate(h, u, k)
             \/ ModCallStep(h)
      PROVE  ModGoes
  BY <1>3, SayStep, ReactsStep, ModeratesStep, ChecksStep, InsertStep, SanctionStep DEF ModCallStep
<1>4. CASE (\E n \in Intervals : SetSlowMode(n)) \/ CloseChannelRoom \/ SecondPasses
  BY <1>1, <1>4, BesideCalls
<1> QED
  BY <1>1, <1>2, <1>3, <1>4 DEF ModerationNext

LEMMA ModAlways == ModerationSpec => []ModAll
<1>1. ModerationInit => ModAll
  BY ModerationAssumption, ModStart
<1>2. ModAll /\ [ModerationNext]_moderationVars => ModAll'
  BY ModerationAssumption, ModStep
<1> QED
  BY <1>1, <1>2, PTL DEF ModerationSpec

\* No message gets into a room whose sender was banned when the call began and not
\* unbanned meanwhile: createMessage asks the table for a ban after it has begun, and
\* the newest ban or unban of a user answers both queries alike.
THEOREM BansHold == ModerationSpec => []BanHolds
<1>1. ModAll => BanHolds
  BY DEF ModAll, BanInv, BanHolds
<1> QED
  BY <1>1, ModAlways, PTL

\* Two messages of one sender are as far apart as slow mode asked of the later one,
\* whose call no other of the sender's overlapped: CheckSlowMode looks at the newest of
\* them, and none gets in between it and the insert.
THEOREM SlowModeKept == ModerationSpec => []SlowModeHolds
<1>1. ModAll => SlowModeHolds
  BY DEF ModAll, SlowInv
<1> QED
  BY <1>1, ModAlways, PTL

\* Whatever calls overlap, the reactions broadcast last are the ones there are, once
\* every call that changed them has counted and told, if no count that was read later
\* had been told before.
THEOREM ReactionsTold == ModerationSpec => []ReactionsShown
<1>1. ModAll => ReactionsShown
  BY DEF ModAll, ReactInv, ReactionsShown, StepOf
<1> QED
  BY <1>1, ModAlways, PTL

-----------------------------------------------------------------------------
(* ChatRooms: shapes *)

\* The membership, the wires and the tabs, of whatever S the events and views are made.
Shape(S) ==
    /\ members \in [Rooms -> SUBSET Sockets]
    /\ wire \in [Sockets -> Seq(S)]
    /\ tab \in [Tabs -> [socket: Sockets \cup {None}, room: Rooms,
                         view: [shown: S, count: S, users: S]]]

\* A tab's socket is its own, and open.
SocketsInv ==
    /\ socket \in [Sockets -> {"unused", "open", "ghost", "closing", "closed"}]
    /\ \A t \in Tabs : tab[t].socket # None =>
        socket[tab[t].socket] = "open" /\ TabOf[tab[t].socket] = t

ChatShape == (\E S : Shape(S)) /\ SocketsInv

\* A step of services/chat-rooms.ts on the membership and the wires so far.
Shaped(st, S) ==
    /\ st.members \in [Rooms -> SUBSET Sockets]
    /\ st.wire \in [Sockets -> Seq(S)]

Retold(st, r, ms) ==
    [members |-> [st.members EXCEPT ![r] = ms],
     wire    |-> BroadcastToRoom(st.wire, ms, Presence(r, ms)),
     culled  |-> st.culled \ {r}]

LEMMA SeqGrows ==
  ASSUME NEW S, NEW T, S \subseteq T, NEW w \in Seq(S), NEW e \in T
  PROVE  w \in Seq(T) /\ Append(w, e) \in Seq(T)
OBVIOUS

LEMMA BroadcastIs ==
  ASSUME NEW S, NEW T, S \subseteq T, NEW w \in [Sockets -> Seq(S)], NEW ms, NEW e \in T
  PROVE  /\ BroadcastToRoom(w, ms, e) \in [Sockets -> Seq(T)]
         /\ \A s \in Sockets :
               BroadcastToRoom(w, ms, e)[s] = IF s \in ms /\ socket[s] # "ghost" /\ TabOf[s] \in Watched
                                              THEN Append(w[s], e) ELSE w[s]
<1>1. \A s \in Sockets : w[s] \in Seq(T) /\ Append(w[s], e) \in Seq(T)
  BY SeqGrows
<1> QED
  BY <1>1 DEF BroadcastToRoom

LEMMA RetoldShaped ==
  ASSUME NEW st, NEW S, Shaped(st, S), NEW r \in Rooms, NEW ms \in SUBSET Sockets, NEW T,
         S \cup {Presence(r, ms)} \subseteq T
  PROVE  Shaped(Retold(st, r, ms), T)
<1>1. BroadcastToRoom(st.wire, ms, Presence(r, ms)) \in [Sockets -> Seq(T)]
  BY BroadcastIs DEF Shaped
<1> QED
  BY <1>1 DEF Shaped, Retold

-----------------------------------------------------------------------------
(* ChatRooms: what a tab shows of the presence in its room *)

About(e, r) == e.type = "presence" /\ e.room = r

\* The last presence event of room r on wire w says that ms are in it, or view v does.
Told(w, v, r, ms) ==
    \/ \E i \in DOMAIN w : w[i] = Presence(r, ms) /\ \A j \in DOMAIN w : j > i => ~About(w[j], r)
    \/ /\ \A j \in DOMAIN w : ~About(w[j], r)
       /\ v.count = Presence(r, ms).count /\ v.users = Presence(r, ms).users

LEMMA ToldLast ==
  ASSUME NEW S, NEW w \in Seq(S), NEW v, NEW r, NEW ms
  PROVE  Told(Append(w, Presence(r, ms)), v, r, ms)
<1>1. PICK e : e = Presence(r, ms)
  OBVIOUS
<1>2. PICK x : x = Append(w, e)
  OBVIOUS
<1>3. Len(w) \in Nat /\ DOMAIN x = 1..(Len(w) + 1) /\ x[Len(w) + 1] = e
  BY <1>2
<1>4. Len(w) + 1 \in DOMAIN x /\ \A j \in DOMAIN x : ~(j > Len(w) + 1)
  BY <1>3
<1> QED
  BY <1>1, <1>2, <1>3, <1>4 DEF Told

LEMMA ToldAppend ==
  ASSUME NEW S, NEW w \in Seq(S), NEW v, NEW r, NEW ms, NEW e, ~About(e, r), Told(w, v, r, ms)
  PROVE  Told(Append(w, e), v, r, ms)
<1>1. PICK x : x = Append(w, e)
  OBVIOUS
<1>2. /\ DOMAIN x = 1..(Len(w) + 1) /\ x[Len(w) + 1] = e /\ Len(w) \in Nat
      /\ DOMAIN w = 1..Len(w) /\ \A j \in DOMAIN w : x[j] = w[j]
  BY <1>1
<1>3. \A j \in DOMAIN x : j \in DOMAIN w \/ x[j] = e
  BY <1>2
<1>4. \A j \in DOMAIN w : j \in DOMAIN x
  BY <1>2
<1> QED
  BY <1>1, <1>2, <1>3, <1>4 DEF Told

\* The tab takes the first event in.
LEMMA ToldTail ==
  ASSUME NEW S, NEW w \in Seq(S), w # <<>>, NEW A, NEW B, NEW C,
         NEW v \in [shown: A, count: B, users: C], NEW r, NEW ms, Told(w, v, r, ms)
  PROVE  Told(Tail(w), Reduced(v, r, Head(w)), r, ms)
<1>1. PICK x : x = Tail(w)
  OBVIOUS
<1>2. /\ DOMAIN w = 1..Len(w) /\ Len(w) \in Nat /\ Len(w) >= 1 /\ DOMAIN x = 1..(Len(w) - 1)
      /\ \A j \in DOMAIN x : x[j] = w[j + 1] /\ j + 1 \in DOMAIN w
      /\ Head(w) = w[1]
  BY <1>1
<1>3. \A i \in DOMAIN w : i = 1 \/ (i - 1 \in DOMAIN x /\ x[i - 1] = w[i])
  <2>1. \A i \in DOMAIN w : i = 1 \/ i - 1 \in DOMAIN x
    BY <1>2
  <2>2. \A i \in DOMAIN w : (i - 1) + 1 = i
    BY <1>2
  <2> QED
    BY <1>2, <2>1, <2>2
<1>4. PICK e : e = Head(w)
  OBVIOUS
<1>5. PICK u : u = Reduced(v, r, e)
  OBVIOUS
<1>6. CASE \E i \in DOMAIN w : w[i] = Presence(r, ms) /\ \A j \in DOMAIN w : j > i => ~About(w[j], r)
  <2>1. PICK i \in DOMAIN w : w[i] = Presence(r, ms) /\ \A j \in DOMAIN w : j > i => ~About(w[j], r)
    BY <1>6
  <2>2. CASE i = 1
    <3>1. e = Presence(r, ms)
      BY <1>2, <1>4, <2>1, <2>2
    <3>2. e.type = "presence" /\ e.room = r
      BY <3>1 DEF Presence
    <3>3. u = [v EXCEPT !.count = e.count, !.users = e.users]
      BY <1>5, <3>2 DEF Reduced
    <3>4. u.count = e.count /\ u.users = e.users
      BY <3>3
    <3>5. \A j \in DOMAIN x : ~About(x[j], r)
      <4>1. \A j \in DOMAIN x : j + 1 > 1
        BY <1>2
      <4> QED
        BY <1>2, <2>1, <2>2, <4>1
    <3> QED
      BY <1>1, <1>4, <1>5, <3>1, <3>4, <3>5 DEF Told
  <2>3. CASE i # 1
    <3>1. i - 1 \in DOMAIN x /\ x[i - 1] = Presence(r, ms)
      BY <1>3, <2>1, <2>3
    <3>2. \A j \in DOMAIN x : j > i - 1 => j + 1 > i
      BY <1>2, <2>1
    <3>3. \A j \in DOMAIN x : j > i - 1 => ~About(x[j], r)
      BY <1>2, <2>1, <3>2
    <3> QED
      BY <1>1, <3>1, <3>3 DEF Told
  <2> QED
    BY <2>2, <2>3
<1>7. CASE /\ \A j \in DOMAIN w : ~About(w[j], r)
           /\ v.count = Presence(r, ms).count /\ v.users = Presence(r, ms).users
  <2>1. ~About(e, r) /\ \A j \in DOMAIN x : ~About(x[j], r)
    <3>1. 1 \in DOMAIN w
      BY <1>2
    <3> QED
      BY <1>2, <1>4, <1>7, <3>1
  <2>2. u.count = v.count /\ u.users = v.users
    <3>1. \A q : [v EXCEPT !.shown = q].count = v.count /\ [v EXCEPT !.shown = q].users = v.users
      OBVIOUS
    <3> QED
      BY <1>5, <2>1, <3>1 DEF Reduced, About
  <2> QED
    BY <1>1, <1>4, <1>5, <1>7, <2>1, <2>2 DEF Told
<1> QED
  BY <1>6, <1>7 DEF Told

\* Tab t of T is told who is in its room.
ToldOne(st, t) ==
    LET s == tab[t].socket
        r == tab[t].room
    IN  s # None /\ s \in st.members[r] /\ r \notin st.culled
            => Told(st.wire[s], tab[t].view, r, st.members[r])

LEMMA RetoldTells ==
  ASSUME NEW S, Shape(S), SocketsInv, NEW st, Shaped(st, S), NEW t \in Watched, Watched \subseteq Tabs,
         NEW r \in Rooms, NEW ms \in SUBSET Sockets,
         ToldOne(st, t) \/ tab[t].room = r
  PROVE  ToldOne(Retold(st, r, ms), t)
<1>1. PICK s : s = tab[t].socket
  OBVIOUS
<1>2. PICK q : q = tab[t].room
  OBVIOUS
<1>3. PICK e : e = Presence(r, ms)
  OBVIOUS
<1>4. SUFFICES ASSUME s # None, s \in [st.members EXCEPT ![r] = ms][q], q \notin st.culled \ {r}
               PROVE  Told(BroadcastToRoom(st.wire, ms, e)[s], tab[t].view, q,
                           [st.members EXCEPT ![r] = ms][q])
  BY <1>1, <1>2, <1>3 DEF ToldOne, Retold
<1>5. s \in Sockets /\ q \in Rooms /\ socket[s] = "open" /\ TabOf[s] = t
  BY <1>1, <1>2, <1>4 DEF Shape, SocketsInv
<1>6. st.wire[s] \in Seq(S)
  BY <1>5 DEF Shaped
<1>7. BroadcastToRoom(st.wire, ms, e)[s] = IF s \in ms THEN Append(st.wire[s], e) ELSE st.wire[s]
  BY <1>5 DEF BroadcastToRoom
<1>8. CASE q = r
  <2>1. [st.members EXCEPT ![r] = ms][q] = ms
    BY <1>8 DEF Shaped
  <2> QED
    BY <1>3, <1>4, <1>6, <1>7, <1>8, <2>1, ToldLast
<1>9. CASE q # r
  <2>1. [st.members EXCEPT ![r] = ms][q] = st.members[q]
    BY <1>5, <1>9 DEF Shaped
  <2>2. Told(st.wire[s], tab[t].view, q, st.members[q])
    BY <1>1, <1>2, <1>4, <1>9, <2>1 DEF ToldOne
  <2>3. ~About(e, q)
    BY <1>3, <1>9 DEF About, Presence
  <2> QED
    BY <1>6, <1>7, <2>1, <2>2, <2>3, ToldAppend
<1> QED
  BY <1>8, <1>9

PresenceInv == ChatShape /\ \A t \in Watched : ToldOne(Rooming, t)

\* The membership and the wires are st's now, and tab t is as it was.
LEMMA ToldStays ==
  ASSUME NEW st, RoomingIs(st), NEW t, ToldOne(st, t), tab'[t] = tab[t]
  PROVE  ToldOne(Rooming, t)'
BY DEF RoomingIs, ToldOne, Rooming

LEMMA RoomingShaped ==
  ASSUME NEW S, Shape(S)
  PROVE  Shaped(Rooming, S)
BY DEF Shape, Shaped, Rooming

\* A tab t whose socket s joins room r last is told of it; others are as they were.
LEMMA JoinTells ==
  ASSUME ChatAssumption, NEW S, Shape(S), SocketsInv, NEW st, Shaped(st, S),
         NEW t \in Tabs, NEW r \in Rooms, NEW s \in Sockets, TabOf[s] = t, socket[s] # "ghost",
         RoomingIs(Joined(st, r, s)),
         tab'[t].socket = s, tab'[t].room = r, \A u \in Tabs \ {t} : tab'[u] = tab[u],
         \A u \in Watched \ {t} : ToldOne(st, u)
  PROVE  /\ \E T : Shaped(Rooming, T)'
         /\ \A u \in Watched : ToldOne(Rooming, u)'
<1>1. PICK ms \in SUBSET Sockets : Joined(st, r, s) = Retold(st, r, ms) /\ s \in ms
  <2>1. PICK m : m = (st.members[r] \cap OpenSockets(socket)) \cup {s}
    OBVIOUS
  <2>2. Joined(st, r, s) = Retold(st, r, m)
    BY <2>1 DEF Joined, Retold
  <2>3. m \in SUBSET Sockets /\ s \in m
    BY <2>1 DEF Shaped
  <2> QED
    BY <2>2, <2>3
<1>2. Watched \subseteq Tabs
  BY DEF ChatAssumption
<1>3. ASSUME NEW u \in Watched, u # t PROVE ToldOne(Rooming, u)'
  <2>1. ToldOne(Retold(st, r, ms), u)
    BY <1>2, <1>3, RetoldTells
  <2> QED
    BY <1>1, <1>2, <1>3, <2>1, ToldStays
<1>4. ASSUME t \in Watched PROVE ToldOne(Rooming, t)'
  <2>1. wire'[s] = Append(st.wire[s], Presence(r, ms)) /\ members'[r] = ms
    BY <1>1, <1>4 DEF RoomingIs, Retold, BroadcastToRoom, Shaped
  <2>2. \A v : Told(wire'[s], v, r, ms)
    BY <2>1, ToldLast DEF Shaped
  <2>3. Told(wire'[s], tab'[t].view, r, ms)
    BY <2>2
  <2> QED
    BY <2>1, <2>3 DEF ToldOne, Rooming
<1>5. PICK T : T = S \cup {Presence(r, ms)}
  OBVIOUS
<1>6. Shaped(Retold(st, r, ms), T)
  BY <1>5, RetoldShaped
<1>7. Shaped(Rooming, T)'
  BY <1>1, <1>6 DEF Shaped, Rooming, RoomingIs
<1> QED
  BY <1>3, <1>4, <1>7

\* With tabs of some S and membership and wires of some T, all is of their union.
LEMMA ShapeOf ==
  ASSUME NEW S, NEW T, Shaped(Rooming, T)',
         tab' \in [Tabs -> [socket: Sockets \cup {None}, room: Rooms,
                            view: [shown: S, count: S, users: S]]]
  PROVE  (\E U : Shape(U))'
<1>1. PICK U : U = S \cup T
  OBVIOUS
<1>2. Seq(T) \subseteq Seq(U)
  BY <1>1, SeqGrows
<1>3. wire' \in [Sockets -> Seq(U)] /\ members' \in [Rooms -> SUBSET Sockets]
  BY <1>2 DEF Shaped, Rooming
<1>4. [shown: S, count: S, users: S] \subseteq [shown: U, count: U, users: U]
  BY <1>1
<1>5. tab' \in [Tabs -> [socket: Sockets \cup {None}, room: Rooms,
                         view: [shown: U, count: U, users: U]]]
  BY <1>4
<1>6. Shape(U)'
  BY <1>3, <1>5 DEF Shape
<1> QED
  BY <1>6

LEMMA PresenceConnect ==
  ASSUME ChatAssumption, PresenceInv, NEW t \in Tabs, ConnectTab(t)
  PROVE  PresenceInv'
<1>0. PICK S : Shape(S)
  BY DEF PresenceInv, ChatShape
<1>1. PICK s \in Sockets :
        /\ TabOf[s] = t /\ socket[s] = "unused" /\ tab[t].socket = None
        /\ socket' = [socket EXCEPT ![s] = "open"]
        /\ tab' = [tab EXCEPT ![t].socket = s]
        /\ RoomingIs(Joined(Rooming, tab[t].room, s))
  <2>1. PICK fresh : fresh = {k \in Sockets : TabOf[k] = t /\ socket[k] = "unused"}
    OBVIOUS
  <2>2. fresh # {}
    BY <2>1 DEF ConnectTab
  <2>3. PICK k \in fresh : k = CHOOSE j \in fresh : TRUE
    BY <2>2
  <2>4. k \in Sockets /\ TabOf[k] = t /\ socket[k] = "unused"
    BY <2>1
  <2>5. /\ tab[t].socket = None
        /\ socket' = [socket EXCEPT ![k] = "open"]
        /\ tab' = [tab EXCEPT ![t].socket = k]
        /\ RoomingIs(Joined(Rooming, tab[t].room, k))
    BY <2>1, <2>3 DEF ConnectTab, Enter
  <2> QED
    BY <2>4, <2>5
<1>2. /\ tab[t].room \in Rooms /\ tab'[t].socket = s /\ tab'[t].room = tab[t].room
      /\ \A u \in Tabs \ {t} : tab'[u] = tab[u]
      /\ tab' \in [Tabs -> [socket: Sockets \cup {None}, room: Rooms,
                            view: [shown: S, count: S, users: S]]]
  <2>1. PICK x : x = [tab[t] EXCEPT !.socket = s]
    OBVIOUS
  <2>2. /\ x \in [socket: Sockets \cup {None}, room: Rooms, view: [shown: S, count: S, users: S]]
        /\ x.socket = s /\ x.room = tab[t].room /\ tab[t].room \in Rooms
    <3>1. tab[t] \in [socket: Sockets \cup {None}, room: Rooms, view: [shown: S, count: S, users: S]]
      BY <1>0 DEF Shape
    <3> QED
      BY <2>1, <3>1
  <2>3. tab' = [tab EXCEPT ![t] = x]
    BY <1>1, <2>1
  <2> QED
    BY <1>0, <2>2, <2>3 DEF Shape
<1>3. SocketsInv
  BY DEF PresenceInv, ChatShape
<1>4. (\E T : Shaped(Rooming, T)') /\ \A u \in Watched : ToldOne(Rooming, u)'
  BY <1>0, <1>1, <1>2, <1>3, RoomingShaped, JoinTells DEF PresenceInv
<1>5. SocketsInv'
  BY <1>1, <1>2, <1>3 DEF SocketsInv
<1> QED
  BY <1>2, <1>4, <1>5, ShapeOf DEF PresenceInv, ChatShape

LEMMA PresenceActiveRoom ==
  ASSUME ChatAssumption, PresenceInv, NEW t \in Tabs, NEW r \in Rooms, SetActiveRoom(t, r)
  PROVE  PresenceInv'
<1>0. PICK S : Shape(S)
  BY DEF PresenceInv, ChatShape
<1>1. PICK s, old : s = tab[t].socket /\ old = tab[t].room
  OBVIOUS
<1>2. PICK S2 : S2 = S \cup {<<>>, 0, {}}
  OBVIOUS
<1>3. /\ tab' = [tab EXCEPT ![t].room = r, ![t].view = Blank] /\ r # old /\ socket' = socket
      /\ old \in Rooms /\ s \in Sockets \cup {None}
  BY <1>0, <1>1 DEF SetActiveRoom, Shape
<1>4. Blank \in [shown: S2, count: S2, users: S2]
  BY <1>2 DEF Blank
<1>5. /\ tab'[t].socket = s /\ tab'[t].room = r /\ \A u \in Tabs \ {t} : tab'[u] = tab[u]
      /\ tab' \in [Tabs -> [socket: Sockets \cup {None}, room: Rooms,
                            view: [shown: S2, count: S2, users: S2]]]
  <2>1. [shown: S, count: S, users: S] \subseteq [shown: S2, count: S2, users: S2]
    BY <1>2
  <2>2. tab \in [Tabs -> [socket: Sockets \cup {None}, room: Rooms,
                          view: [shown: S2, count: S2, users: S2]]]
    BY <1>0, <2>1 DEF Shape
  <2>3. PICK x : x = [tab[t] EXCEPT !.room = r, !.view = Blank]
    OBVIOUS
  <2>4. /\ x \in [socket: Sockets \cup {None}, room: Rooms, view: [shown: S2, count: S2, users: S2]]
        /\ x.socket = s /\ x.room = r
    BY <1>1, <1>4, <2>2, <2>3
  <2>5. tab' = [tab EXCEPT ![t] = x]
    BY <1>3, <2>3
  <2> QED
    BY <2>2, <2>4, <2>5
<1>6. SocketsInv /\ Watched \subseteq Tabs
  BY DEF PresenceInv, ChatShape, ChatAssumption
<1>7. SocketsInv'
  BY <1>1, <1>3, <1>5, <1>6 DEF SocketsInv
<1>8. CASE s = None
  <2>1. UNCHANGED <<members, wire, culled>>
    BY <1>1, <1>8 DEF SetActiveRoom
  <2>2. \A u \in Watched : ToldOne(Rooming, u)'
    BY <1>5, <1>6, <1>8, <2>1 DEF ToldOne, Rooming, PresenceInv
  <2>3. Shaped(Rooming, S)'
    BY <1>0, <2>1 DEF Shape, Shaped, Rooming
  <2> QED
    BY <1>5, <1>7, <2>2, <2>3, ShapeOf DEF PresenceInv, ChatShape
<1>9. CASE s # None
  <2>1. PICK st : st = IF members[old] = {} THEN Rooming ELSE Left(Rooming, old, s)
    OBVIOUS
  <2>2. RoomingIs(Joined(st, r, s))
    BY <1>1, <1>9, <2>1 DEF SetActiveRoom, Enter
  <2>3. s \in Sockets /\ TabOf[s] = t /\ socket[s] = "open"
    BY <1>1, <1>3, <1>6, <1>9 DEF SocketsInv
  <2>4. PICK ms \in SUBSET Sockets : Left(Rooming, old, s) = Retold(Rooming, old, ms)
    <3>1. PICK m : m = (Rooming.members[old] \cap OpenSockets(socket)) \ {s}
      OBVIOUS
    <3>2. Left(Rooming, old, s) = Retold(Rooming, old, m)
      BY <3>1 DEF Left, Retold
    <3>3. m \in SUBSET Sockets
      BY <1>0, <1>3, <3>1 DEF Shape, Rooming
    <3> QED
      BY <3>2, <3>3
  <2>5. PICK T : T = S2 \cup {Presence(old, ms)}
    OBVIOUS
  <2>6. Shaped(Rooming, S) /\ S \cup {Presence(old, ms)} \subseteq T
    BY <1>0, <1>2, <2>5, RoomingShaped
  <2>7. Shaped(Retold(Rooming, old, ms), T)
    BY <1>3, <2>6, RetoldShaped
  <2>8. Shaped(Rooming, T)
    BY <2>6, SeqGrows DEF Shaped
  <2>9. Shaped(st, T)
    BY <2>1, <2>4, <2>7, <2>8
  <2>10. Shape(T)
    <3>1. wire \in [Sockets -> Seq(T)] /\ members \in [Rooms -> SUBSET Sockets]
      BY <2>8 DEF Shaped, Rooming
    <3>2. [shown: S, count: S, users: S] \subseteq [shown: T, count: T, users: T]
      BY <2>6
    <3> QED
      BY <1>0, <3>1, <3>2 DEF Shape
  <2>11. \A u \in Watched : ToldOne(Rooming, u)
    BY DEF PresenceInv
  <2>12. \A u \in Watched : ToldOne(Retold(Rooming, old, ms), u)
    BY <1>0, <1>3, <1>6, <2>6, <2>11, RetoldTells
  <2>13. \A u \in Watched : ToldOne(st, u)
    BY <2>1, <2>4, <2>11, <2>12
  <2>14. (\E U : Shaped(Rooming, U)') /\ \A u \in Watched : ToldOne(Rooming, u)'
    BY <1>5, <1>6, <2>2, <2>3, <2>9, <2>10, <2>13, JoinTells
  <2> QED
    BY <1>5, <1>7, <2>14, ShapeOf DEF PresenceInv, ChatShape
<1> QED
  BY <1>8, <1>9

LEMMA PresenceDisconnect ==
  ASSUME ChatAssumption, PresenceInv, NEW t \in Tabs, DisconnectTab(t)
  PROVE  PresenceInv'
<1>0. PICK S : Shape(S)
  BY DEF PresenceInv, ChatShape
<1>1. PICK s \in Sockets :
        /\ s = tab[t].socket /\ s # None
        /\ tab' = [tab EXCEPT ![t].socket = None]
        /\ \E how \in {"ghost", "closing"} : socket' = [socket EXCEPT ![s] = how]
        /\ wire' = [wire EXCEPT ![s] = <<>>]
        /\ UNCHANGED <<members, culled>>
  BY <1>0 DEF DisconnectTab, Shape
<1>2. PICK x : x = [tab[t] EXCEPT !.socket = None]
  OBVIOUS
<1>3. x \in [socket: Sockets \cup {None}, room: Rooms, view: [shown: S, count: S, users: S]] /\ x.socket = None
  <2>1. tab[t] \in [socket: Sockets \cup {None}, room: Rooms, view: [shown: S, count: S, users: S]]
    BY <1>0 DEF Shape
  <2> QED
    BY <1>2, <2>1
<1>4. /\ tab' = [tab EXCEPT ![t] = x] /\ tab'[t] = x /\ \A u \in Tabs \ {t} : tab'[u] = tab[u]
      /\ tab' \in [Tabs -> [socket: Sockets \cup {None}, room: Rooms,
                            view: [shown: S, count: S, users: S]]]
  BY <1>0, <1>1, <1>2, <1>3 DEF Shape
<1>5. SocketsInv /\ Watched \subseteq Tabs /\ \A u \in Watched : ToldOne(Rooming, u)
  BY DEF PresenceInv, ChatShape, ChatAssumption
<1>6. \A u \in Tabs \ {t} : tab[u].socket # s
  BY <1>1, <1>5 DEF SocketsInv
<1>7. SocketsInv'
  BY <1>1, <1>3, <1>4, <1>5, <1>6 DEF SocketsInv
<1>8. \A u \in Watched : ToldOne(Rooming, u)'
  <2>1. ToldOne(Rooming, t)'
    BY <1>3, <1>4 DEF ToldOne
  <2>2. ASSUME NEW u \in Watched, u # t PROVE ToldOne(Rooming, u)'
    <3>1. tab'[u] = tab[u] /\ tab[u].socket # s /\ u \in Tabs
      BY <1>4, <1>5, <1>6, <2>2
    <3>2. tab[u].socket = None \/ wire'[tab[u].socket] = wire[tab[u].socket]
      BY <1>0, <1>1, <3>1 DEF Shape
    <3> QED
      BY <1>1, <1>5, <3>1, <3>2 DEF ToldOne, Rooming
  <2> QED
    BY <2>1, <2>2
<1>9. Shape(S)'
  <2>1. <<>> \in Seq(S)
    OBVIOUS
  <2> QED
    BY <1>0, <1>1, <1>4, <2>1 DEF Shape
<1> QED
  BY <1>7, <1>8, <1>9 DEF PresenceInv, ChatShape

LEMMA PresenceDeliver ==
  ASSUME ChatAssumption, PresenceInv, NEW t \in Tabs, Deliver(t)
  PROVE  PresenceInv'
<1>0. PICK S : Shape(S)
  BY DEF PresenceInv, ChatShape
<1>1. PICK s, r, v : s = tab[t].socket /\ r = tab[t].room /\ v = tab[t].view
  OBVIOUS
<1>2. s \in Sockets /\ r \in Rooms /\ v \in [shown: S, count: S, users: S] /\ wire[s] \in Seq(S)
  BY <1>0, <1>1 DEF Shape, Deliver
<1>3. PICK e : e = Head(wire[s])
  OBVIOUS
<1>4. PICK u : u = Reduced(v, r, e)
  OBVIOUS
<1>5. /\ wire[s] # <<>> /\ wire' = [wire EXCEPT ![s] = Tail(wire[s])]
      /\ UNCHANGED <<socket, members, culled>>
  BY <1>1 DEF Deliver
<1>6. PICK T : T = S \cup {e.count, e.users, e.messages, Append(v.shown, e.id)}
  OBVIOUS
<1>7. u \in [shown: T, count: T, users: T]
  <2>1. v \in [shown: T, count: T, users: T]
    BY <1>2, <1>6
  <2>2. \A p, q \in T : [v EXCEPT !.count = p, !.users = q] \in [shown: T, count: T, users: T]
    BY <2>1
  <2>3. \A p \in T : [v EXCEPT !.shown = p] \in [shown: T, count: T, users: T]
    BY <2>1
  <2>4. \/ u = [v EXCEPT !.count = e.count, !.users = e.users]
        \/ u = [v EXCEPT !.shown = e.messages]
        \/ u = [v EXCEPT !.shown = Append(v.shown, e.id)]
        \/ u = v
    BY <1>4 DEF Reduced
  <2>5. e.count \in T /\ e.users \in T /\ e.messages \in T /\ Append(v.shown, e.id) \in T
    BY <1>6
  <2> QED
    BY <2>1, <2>2, <2>3, <2>4, <2>5
<1>8. PICK x : x = [tab[t] EXCEPT !.view = u]
  OBVIOUS
<1>9. /\ x \in [socket: Sockets \cup {None}, room: Rooms, view: [shown: T, count: T, users: T]]
      /\ x.socket = s /\ x.room = r /\ x.view = u
  <2>1. tab[t].socket \in Sockets \cup {None} /\ tab[t].room \in Rooms
    BY <1>0 DEF Shape
  <2>2. tab[t] \in [socket: Sockets \cup {None}, room: Rooms, view: [shown: S, count: S, users: S]]
    BY <1>0 DEF Shape
  <2> QED
    BY <1>1, <1>7, <1>8, <2>1, <2>2
<1>10. tab' = [tab EXCEPT ![t] = x]
  BY <1>1, <1>3, <1>4, <1>8 DEF Deliver
<1>11. /\ tab'[t] = x /\ \A k \in Tabs \ {t} : tab'[k] = tab[k]
       /\ tab' \in [Tabs -> [socket: Sockets \cup {None}, room: Rooms,
                             view: [shown: T, count: T, users: T]]]
  <2>1. [shown: S, count: S, users: S] \subseteq [shown: T, count: T, users: T]
    BY <1>6
  <2>2. tab \in [Tabs -> [socket: Sockets \cup {None}, room: Rooms,
                          view: [shown: T, count: T, users: T]]]
    BY <1>0, <2>1 DEF Shape
  <2> QED
    BY <1>9, <1>10, <2>2
<1>12. SocketsInv /\ Watched \subseteq Tabs /\ \A k \in Watched : ToldOne(Rooming, k)
  BY DEF PresenceInv, ChatShape, ChatAssumption
<1>13. SocketsInv'
  BY <1>1, <1>5, <1>9, <1>11, <1>12 DEF SocketsInv
<1>14. \A k \in Tabs \ {t} : tab[k].socket # s
  BY <1>1, <1>2, <1>12, <1>11, <1>13, <1>9 DEF SocketsInv, Deliver
<1>15. \A k \in Watched : ToldOne(Rooming, k)'
  <2>1. ASSUME NEW k \in Watched, k # t PROVE ToldOne(Rooming, k)'
    <3>1. tab'[k] = tab[k] /\ tab[k].socket # s /\ k \in Tabs
      BY <1>11, <1>12, <1>14, <2>1
    <3>2. tab[k].socket = None \/ wire'[tab[k].socket] = wire[tab[k].socket]
      BY <1>0, <1>5, <3>1 DEF Shape
    <3> QED
      BY <1>5, <1>12, <3>1, <3>2 DEF ToldOne, Rooming
  <2>2. ASSUME t \in Watched PROVE ToldOne(Rooming, t)'
    <3>1. SUFFICES ASSUME s \in members[r], r \notin culled PROVE Told(wire'[s], u, r, members[r])
      BY <1>5, <1>9, <1>11 DEF ToldOne, Rooming
    <3>2. Told(wire[s], v, r, members[r])
      BY <1>1, <1>2, <1>12, <2>2, <3>1 DEF ToldOne, Rooming, Deliver
    <3>3. Told(Tail(wire[s]), Reduced(v, r, Head(wire[s])), r, members[r])
      BY <1>2, <1>5, <3>2, ToldTail
    <3>4. wire'[s] = Tail(wire[s])
      BY <1>0, <1>2, <1>5 DEF Shape
    <3> QED
      BY <1>3, <1>4, <3>3, <3>4
  <2> QED
    BY <2>1, <2>2
<1>16. Shape(T)'
  <2>1. \A k \in Sockets : wire[k] \in Seq(T)
    BY <1>0, <1>6, SeqGrows DEF Shape
  <2>2. Tail(wire[s]) \in Seq(T)
    BY <1>2, <1>5, <2>1
  <2>3. wire' \in [Sockets -> Seq(T)]
    BY <1>0, <1>5, <2>1, <2>2 DEF Shape
  <2> QED
    BY <1>0, <1>5, <1>11, <2>3 DEF Shape
<1> QED
  BY <1>13, <1>15, <1>16 DEF PresenceInv, ChatShape

\* An event of another kind goes to some of the sockets, and rooms may be culled.
LEMMA OtherEvent ==
  ASSUME ChatAssumption, PresenceInv, UNCHANGED <<socket, tab>>,
         NEW e, e.type # "presence", NEW ks, wire' = BroadcastToRoom(wire, ks, e),
         members' \in [Rooms -> SUBSET Sockets],
         \A r \in Rooms : r \in culled' \/ (r \notin culled /\ members'[r] = members[r])
  PROVE  PresenceInv'
<1>0. PICK S : Shape(S)
  BY DEF PresenceInv, ChatShape
<1>1. PICK T : T = S \cup {e}
  OBVIOUS
<1>2. wire \in [Sockets -> Seq(S)] /\ S \subseteq T /\ e \in T
  BY <1>0, <1>1 DEF Shape
<1>3. /\ wire' \in [Sockets -> Seq(T)]
      /\ \A s \in Sockets : wire'[s] = Append(wire[s], e) \/ wire'[s] = wire[s]
  <2>1. PICK w : w = wire
    OBVIOUS
  <2>2. PICK b : b = BroadcastToRoom(w, ks, e)
    OBVIOUS
  <2>3. b \in [Sockets -> Seq(T)]
    BY <1>2, <2>1, <2>2, BroadcastIs
  <2>4. \A s \in Sockets : b[s] = Append(w[s], e) \/ b[s] = w[s]
    BY <2>2 DEF BroadcastToRoom
  <2>5. wire' = b
    BY <2>1, <2>2
  <2> QED
    BY <2>1, <2>3, <2>4, <2>5
<1>4. Shape(T)'
  <2>1. [shown: S, count: S, users: S] \subseteq [shown: T, count: T, users: T]
    BY <1>1
  <2> QED
    BY <1>0, <1>3, <2>1 DEF Shape
<1>5. SocketsInv /\ Watched \subseteq Tabs /\ \A k \in Watched : ToldOne(Rooming, k)
  BY DEF PresenceInv, ChatShape, ChatAssumption
<1>6. SocketsInv'
  BY <1>5 DEF SocketsInv
<1>7. ASSUME NEW k \in Watched PROVE ToldOne(Rooming, k)'
  <2>1. PICK s, r, v : s = tab[k].socket /\ r = tab[k].room /\ v = tab[k].view
    OBVIOUS
  <2>2. SUFFICES ASSUME s # None, s \in members'[r], r \notin culled'
                 PROVE  Told(wire'[s], v, r, members'[r])
    BY <2>1 DEF ToldOne, Rooming
  <2>3. s \in Sockets /\ r \in Rooms
    BY <1>0, <1>5, <2>1, <2>2 DEF Shape
  <2>4. members'[r] = members[r] /\ r \notin culled
    BY <2>2, <2>3
  <2>5. Told(wire[s], v, r, members[r])
    BY <1>5, <2>1, <2>2, <2>4 DEF ToldOne, Rooming
  <2>6. Told(Append(wire[s], e), v, r, members[r])
    <3>1. ~About(e, r)
      BY DEF About
    <3> QED
      BY <1>2, <2>3, <2>5, <3>1, ToldAppend
  <2> QED
    BY <1>3, <2>3, <2>4, <2>5, <2>6
<1> QED
  BY <1>4, <1>6, <1>7 DEF PresenceInv, ChatShape

\* Nothing of what PresenceInv looks at moves.
LEMMA PresenceStays ==
  ASSUME PresenceInv, UNCHANGED <<socket, members, wire, tab, culled>>
  PROVE  PresenceInv'
<1>1. PICK S : Shape(S)
  BY DEF PresenceInv, ChatShape
<1>2. Shape(S)'
  BY <1>1 DEF Shape
<1>3. SocketsInv'
  BY DEF PresenceInv, ChatShape, SocketsInv
<1>4. \A u \in Watched : ToldOne(Rooming, u)'
  BY DEF PresenceInv, ToldOne, Rooming
<1> QED
  BY <1>2, <1>3, <1>4 DEF PresenceInv, ChatShape

LEMMA PresenceSendOut ==
  ASSUME ChatAssumption, PresenceInv, NEW i, SendOut(i)
  PROVE  PresenceInv'
<1>0. PICK S : Shape(S)
  BY DEF PresenceInv, ChatShape
<1>1. PICK e, r0, ms :
        /\ e = [type |-> "message", id |-> i] /\ r0 = posted[i] /\ ms = members[r0] \cap OpenSockets(socket)
  OBVIOUS
<1>2. /\ members' = [members EXCEPT ![r0] = ms] /\ wire' = BroadcastToRoom(wire, ms, e)
      /\ culled' = IF ms # members[r0] THEN culled \cup {r0} ELSE culled
      /\ UNCHANGED <<socket, tab>>
  BY <1>1 DEF SendOut, Cull
<1>3. ms \subseteq Sockets
  BY <1>1 DEF OpenSockets
<1>4. members' \in [Rooms -> SUBSET Sockets]
  BY <1>0, <1>2, <1>3 DEF Shape
<1>5. \A r \in Rooms : r \in culled' \/ (r \notin culled /\ members'[r] = members[r])
  BY <1>0, <1>2 DEF Shape
<1>6. e.type # "presence"
  BY <1>1
<1> QED
  BY <1>2, <1>4, <1>5, <1>6, OtherEvent

LEMMA PresenceAnnounce ==
  ASSUME ChatAssumption, PresenceInv, NEW r0 \in Rooms, Announce(r0)
  PROVE  PresenceInv'
<1>0. PICK S : Shape(S)
  BY DEF PresenceInv, ChatShape
<1>1. PICK ms : ms = members[r0] \cap OpenSockets(socket)
  OBVIOUS
<1>2. /\ members' = [members EXCEPT ![r0] = ms]
      /\ culled' = IF ms # members[r0] THEN culled \cup {r0} ELSE culled
      /\ UNCHANGED <<socket, tab, wire>>
  BY <1>1 DEF Announce, Cull
<1>3. ms \subseteq Sockets
  BY <1>1 DEF OpenSockets
<1>4. Shape(S)'
  BY <1>0, <1>2, <1>3 DEF Shape
<1>5. SocketsInv'
  BY <1>2 DEF PresenceInv, ChatShape, SocketsInv
<1>6. \A r \in Rooms : r \in culled' \/ (r \notin culled /\ members'[r] = members[r])
  BY <1>0, <1>2 DEF Shape
<1>7. ASSUME NEW k \in Watched PROVE ToldOne(Rooming, k)'
  <2>1. tab[k].room \in Rooms
    BY <1>0 DEF Shape, ChatAssumption
  <2> QED
    BY <1>2, <1>6, <2>1 DEF PresenceInv, ToldOne, Rooming
<1> QED
  BY <1>4, <1>5, <1>7 DEF PresenceInv, ChatShape

LEMMA PresenceAnswer ==
  ASSUME ChatAssumption, PresenceInv, NEW q, Answer(q)
  PROVE  PresenceInv'
<1>0. PICK S : Shape(S)
  BY DEF PresenceInv, ChatShape
<1>1. PICK e, ks : e = [type |-> "history", messages |-> ByTime(q.found)] /\ ks = {q.socket}
  OBVIOUS
<1>2. wire' = BroadcastToRoom(wire, ks, e) /\ UNCHANGED <<socket, tab, members, culled>>
  BY <1>1 DEF Answer
<1>3. e.type # "presence"
  BY <1>1
<1>4. members' \in [Rooms -> SUBSET Sockets]
  BY <1>0, <1>2 DEF Shape
<1>5. \A r \in Rooms : r \in culled' \/ (r \notin culled /\ members'[r] = members[r])
  BY <1>2
<1> QED
  BY <1>2, <1>3, <1>4, <1>5, OtherEvent

LEMMA PresenceClosing ==
  ASSUME ChatAssumption, PresenceInv, NEW s \in Sockets, Detect(s) \/ OnClose(s)
  PROVE  PresenceInv'
<1>0. PICK S : Shape(S)
  BY DEF PresenceInv, ChatShape
<1>1. PICK to : socket' = [socket EXCEPT ![s] = to] /\ to \in {"closing", "closed"}
  BY DEF Detect, OnClose
<1>2. tab' = tab /\ socket[s] # "open"
  BY DEF Detect, OnClose
<1>3. SocketsInv /\ Watched \subseteq Tabs /\ \A k \in Watched : ToldOne(Rooming, k)
  BY DEF PresenceInv, ChatShape, ChatAssumption
<1>4. SocketsInv'
  BY <1>1, <1>2, <1>3 DEF SocketsInv
<1>5. CASE UNCHANGED <<members, wire, culled>>
  <2>1. Shape(S)'
    BY <1>0, <1>2, <1>5 DEF Shape
  <2>2. \A k \in Watched : ToldOne(Rooming, k)'
    BY <1>2, <1>3, <1>5 DEF ToldOne, Rooming
  <2> QED
    BY <1>4, <2>1, <2>2 DEF PresenceInv, ChatShape
<1>6. CASE \E r \in Rooms : RoomingIs(Left(Rooming, r, s))
  <2>1. PICK r \in Rooms : RoomingIs(Left(Rooming, r, s))
    BY <1>6
  <2>2. PICK st : st = Rooming
    OBVIOUS
  <2>3. PICK m : m = (st.members[r] \cap OpenSockets(socket)) \ {s}
    OBVIOUS
  <2>4. Left(st, r, s) = Retold(st, r, m)
    BY <2>3 DEF Left, Retold
  <2>5. m \in SUBSET Sockets
    BY <2>3 DEF OpenSockets
  <2>6. PICK after : after = Retold(st, r, m)
    OBVIOUS
  <2>7. RoomingIs(after)
    BY <2>1, <2>2, <2>4, <2>6
  <2>8. PICK T : T = S \cup {Presence(r, m)}
    OBVIOUS
  <2>9. Shaped(st, S)
    BY <1>0, <2>2, RoomingShaped
  <2>10. Shaped(after, T)
    BY <2>5, <2>6, <2>8, <2>9, RetoldShaped
  <2>11. Shaped(Rooming, T)'
    BY <2>7, <2>10 DEF Shaped, Rooming, RoomingIs
  <2>12. tab' \in [Tabs -> [socket: Sockets \cup {None}, room: Rooms,
                            view: [shown: S, count: S, users: S]]]
    BY <1>0, <1>2 DEF Shape
  <2>13. ASSUME NEW k \in Watched PROVE ToldOne(Rooming, k)'
    <3>1. ToldOne(after, k)
      BY <1>0, <1>3, <2>2, <2>5, <2>6, <2>9, RetoldTells
    <3> QED
      BY <1>2, <2>7, <3>1, ToldStays
  <2> QED
    BY <1>4, <2>11, <2>12, <2>13, ShapeOf DEF PresenceInv, ChatShape
<1> QED
  BY <1>5, <1>6 DEF Detect, OnClose

LEMMA PresenceInductive ==
  ASSUME ChatAssumption
  PROVE  PresenceInv /\ [ChatNext]_chatVars => PresenceInv'
<1> SUFFICES ASSUME PresenceInv, [ChatNext]_chatVars
             PROVE  PresenceInv'
  OBVIOUS
<1>1. ASSUME NEW t \in Tabs, ConnectTab(t) PROVE PresenceInv'
  BY <1>1, PresenceConnect
<1>2. ASSUME NEW t \in Tabs, NEW r \in Rooms, SetActiveRoom(t, r) PROVE PresenceInv'
  BY <1>2, PresenceActiveRoom
<1>3. ASSUME NEW t \in Tabs, DisconnectTab(t) PROVE PresenceInv'
  BY <1>3, PresenceDisconnect
<1>4. ASSUME NEW t \in Tabs, Deliver(t) PROVE PresenceInv'
  BY <1>4, PresenceDeliver
<1>5. ASSUME NEW r \in Rooms, Post(r) PROVE PresenceInv'
  BY <1>5, PresenceStays DEF Post
<1>6. ASSUME NEW i, SendOut(i) PROVE PresenceInv'
  BY <1>6, PresenceSendOut
<1>7. ASSUME NEW q, Query(q) PROVE PresenceInv'
  BY <1>7, PresenceStays DEF Query
<1>8. ASSUME NEW q, Answer(q) PROVE PresenceInv'
  BY <1>8, PresenceAnswer
<1>9. ASSUME NEW s \in Sockets, Detect(s) \/ OnClose(s) PROVE PresenceInv'
  BY <1>9, PresenceClosing
<1>10. ASSUME NEW r \in Rooms, Announce(r) PROVE PresenceInv'
  BY <1>10, PresenceAnnounce
<1>11. CASE UNCHANGED chatVars
  BY <1>11, PresenceStays DEF chatVars
<1>12. CASE ChatServerStep
  BY <1>6, <1>7, <1>8, <1>9, <1>12, <1>10 DEF ChatServerStep
<1>13. CASE ChatNext
  BY <1>1, <1>2, <1>3, <1>4, <1>5, <1>12, <1>13 DEF ChatNext
<1> QED
  BY <1>11, <1>13

LEMMA PresenceBegins ==
  ASSUME ChatAssumption
  PROVE  ChatInit => PresenceInv
<1> SUFFICES ASSUME ChatInit
             PROVE  PresenceInv
  OBVIOUS
<1>1. PICK where \in [Tabs -> Rooms] :
        tab = [t \in Tabs |-> [socket |-> None, room |-> where[t], view |-> Blank]]
  BY DEF ChatInit
<1>2. PICK S : S = {<<>>, 0, {}}
  OBVIOUS
<1>3. Blank \in [shown: S, count: S, users: S]
  BY <1>2 DEF Blank
<1>4. \A t \in Tabs : tab[t].socket = None
  BY <1>1
<1>5. \A t \in Tabs : tab[t] \in [socket: Sockets \cup {None}, room: Rooms,
                                  view: [shown: S, count: S, users: S]]
  BY <1>1, <1>3
<1>6. tab \in [Tabs -> [socket: Sockets \cup {None}, room: Rooms,
                        view: [shown: S, count: S, users: S]]]
  BY <1>1, <1>5
<1>7. <<>> \in Seq(S)
  OBVIOUS
<1>8. Shape(S)
  BY <1>6, <1>7 DEF ChatInit, Shape
<1>9. SocketsInv
  BY <1>4 DEF ChatInit, SocketsInv
<1>10. \A u \in Watched : ToldOne(Rooming, u)
  BY <1>4 DEF ToldOne, ChatAssumption
<1> QED
  BY <1>8, <1>9, <1>10 DEF PresenceInv, ChatShape

LEMMA PresenceShows ==
  ASSUME ChatAssumption
  PROVE  PresenceInv => PresenceSettles
<1> SUFFICES ASSUME PresenceInv, NEW t \in Watched, Settled(t), tab[t].room \notin culled
             PROVE  /\ tab[t].view.count = Cardinality(members[tab[t].room])
                    /\ tab[t].view.users = {ViewerOf[TabOf[s]] : s \in members[tab[t].room]} \ {None}
  BY DEF PresenceSettles
<1>1. PICK s, r, v, ms : s = tab[t].socket /\ r = tab[t].room /\ v = tab[t].view /\ ms = members[r]
  OBVIOUS
<1>2. s # None /\ s \in ms /\ wire[s] = <<>> /\ r \notin culled
  BY <1>1 DEF Settled
<1>3. Told(<<>>, v, r, ms)
  BY <1>1, <1>2 DEF PresenceInv, ToldOne, Rooming
<1>4. \A i : i \notin DOMAIN <<>>
  OBVIOUS
<1>5. v.count = Presence(r, ms).count /\ v.users = Presence(r, ms).users
  BY <1>3, <1>4 DEF Told
<1> QED
  BY <1>1, <1>5 DEF Presence

\* For any tabs, viewers, rooms and connections: a tab that has received all there
\* is for its room shows its viewers as the server counts them, across reconnects,
\* ghosts and changes of room, unless the room's last cull was made by a broadcast of
\* something else and no presence event has come since (services/chat-rooms.ts joinRoom,
\* leaveRoom and broadcastToRoom, with SET_PRESENCE in contexts/chat-context.tsx).
THEOREM PresenceTold ==
  ASSUME ChatAssumption
  PROVE  ChatSpec => []PresenceSettles
<1>1. ChatInit => PresenceInv
  BY PresenceBegins
<1>2. PresenceInv /\ [ChatNext]_chatVars => PresenceInv'
  BY PresenceInductive
<1>3. PresenceInv => PresenceSettles
  BY PresenceShows
<1> QED
  BY <1>1, <1>2, <1>3, PTL DEF ChatSpec

LEMMA NumbersFinite ==
  ASSUME NEW b \in Nat, NEW S \in SUBSET (0..b)
  PROVE  IsFiniteSet(S) /\ Cardinality(S) \in Nat
<1>1. \A k \in S : k \in Nat /\ k <= b
  OBVIOUS
<1>2. S \in SUBSET Nat
  BY <1>1
<1> QED
  BY <1>1, <1>2, FS_BoundedSetOfNaturals, FS_CardinalityType

\* Any numbers have an order.
LEMMA SomeOrder ==
  ASSUME NEW b \in Nat
  PROVE  \A n \in Nat : \A S \in SUBSET (0..b) : Cardinality(S) = n =>
            \E f \in [1..n -> S] : \A i, j \in 1..n : i < j => f[i] < f[j]
<1> DEFINE Ordered(n) == \A S \in SUBSET (0..b) : Cardinality(S) = n =>
                \E f \in [1..n -> S] : \A i, j \in 1..n : i < j => f[i] < f[j]
<1> DEFINE X == {n \in Nat : Ordered(n)}
<1>1. \A S \in SUBSET (0..b) : IsFiniteSet(S) /\ Cardinality(S) \in Nat
  BY NumbersFinite
<1>2. 0 \in X
  <2>1. ASSUME NEW S \in SUBSET (0..b)
        PROVE  \E f \in [1..0 -> S] : \A i, j \in 1..0 : i < j => f[i] < f[j]
    <3>1. PICK f : f = [i \in 1..0 |-> 0]
      OBVIOUS
    <3>2. \A i : i \notin 1..0
      OBVIOUS
    <3>3. f \in [1..0 -> S]
      BY <3>1, <3>2
    <3> QED
      BY <3>2, <3>3
  <2> QED
    BY <2>1
<1>3. ASSUME NEW n \in Nat, n \in X PROVE n + 1 \in X
  <2>1. ASSUME NEW S \in SUBSET (0..b), Cardinality(S) = n + 1
        PROVE  \E f \in [1..(n + 1) -> S] : \A i, j \in 1..(n + 1) : i < j => f[i] < f[j]
    <3>1. S # {}
      BY <2>1, FS_EmptySet
    <3>2. PICK m \in S : \A k \in S : k <= m
      BY <3>1, Greatest
    <3>3. Cardinality(S \ {m}) = n /\ S \ {m} \in SUBSET (0..b)
      BY <1>1, <2>1, <3>2, FS_RemoveElement
    <3>4. PICK f \in [1..n -> S \ {m}] : \A i, j \in 1..n : i < j => f[i] < f[j]
      BY <1>3, <3>3
    <3>5. PICK g : g = [i \in 1..(n + 1) |-> IF i = n + 1 THEN m ELSE f[i]]
      OBVIOUS
    <3>6. \A i \in 1..(n + 1) : i = n + 1 \/ i \in 1..n
      OBVIOUS
    <3>7. \A i \in 1..n : i \in 1..(n + 1) /\ i # n + 1
      OBVIOUS
    <3>8. \A i \in 1..n : f[i] \in S /\ f[i] < m
      <4>1. \A k \in S : k \in Nat
        OBVIOUS
      <4>2. ASSUME NEW i \in 1..n PROVE f[i] \in S /\ f[i] < m
        <5>1. f[i] \in S /\ f[i] # m
          BY <3>4
        <5>2. f[i] <= m /\ f[i] \in Nat /\ m \in Nat
          BY <3>2, <4>1, <5>1
        <5> QED
          BY <5>1, <5>2
      <4> QED
        BY <4>2
    <3>9. g \in [1..(n + 1) -> S]
      BY <3>5, <3>6, <3>8
    <3>10. ASSUME NEW i \in 1..(n + 1), NEW j \in 1..(n + 1), i < j PROVE g[i] < g[j]
      <4>1. i \in 1..n
        BY <3>10
      <4> QED
        BY <3>4, <3>5, <3>6, <3>7, <3>8, <3>10, <4>1
    <3> QED
      BY <3>9, <3>10
  <2>2. Ordered(n + 1)
    BY <2>1
  <2>3. n + 1 \in Nat
    OBVIOUS
  <2> QED
    BY <2>2, <2>3
<1> HIDE DEF X
<1>4. Nat \subseteq X
  BY <1>2, <1>3, Induct
<1> USE DEF X
<1> QED
  BY <1>4

\* A history has each message of the query once.
LEMMA ByTimeIs ==
  ASSUME NEW b \in Nat, NEW S \in SUBSET (0..b)
  PROVE  /\ ByTime(S) \in Seq(S) /\ IsInjective(ByTime(S))
         /\ \A m \in S : \E x \in DOMAIN ByTime(S) : ByTime(S)[x] = m
<1>1. IsFiniteSet(S) /\ Cardinality(S) \in Nat
  BY NumbersFinite
<1>2. PICK n \in Nat : n = Cardinality(S)
  BY <1>1
<1>3. PICK f : f = ByTime(S)
  OBVIOUS
<1>4. f \in [1..n -> S] /\ \A i, j \in 1..n : i < j => f[i] < f[j]
  <2>0. \A T \in SUBSET (0..b) : Cardinality(T) = n =>
            \E g \in [1..n -> T] : \A i, j \in 1..n : i < j => g[i] < g[j]
    BY SomeOrder
  <2>1. \E g \in [1..n -> S] : \A i, j \in 1..n : i < j => g[i] < g[j]
    BY <1>2, <2>0
  <2>2. \E g \in [1..n -> S] : \A i, j \in DOMAIN g : i < j => g[i] < g[j]
    BY <2>1
  <2>3. f = CHOOSE g \in [1..n -> S] : \A i, j \in DOMAIN g : i < j => g[i] < g[j]
    BY <1>2, <1>3 DEF ByTime
  <2>4. f \in [1..n -> S] /\ \A i, j \in DOMAIN f : i < j => f[i] < f[j]
    BY <2>2, <2>3
  <2> QED
    BY <2>4
<1>5. IsInjective(f)
  <2>1. \A i, j \in 1..n : i < j \/ j < i \/ i = j
    OBVIOUS
  <2>0. \A k \in S : k \in Nat
    OBVIOUS
  <2>2. \A i \in 1..n : f[i] \in Nat
    BY <1>4, <2>0
  <2>3. \A i, j \in 1..n : f[i] = f[j] => i = j
    BY <1>4, <2>1, <2>2
  <2> QED
    BY <1>4, <2>3 DEF IsInjective
<1>6. f \in Surjection(1..n, S)
  <2>1. f \in Injection(1..n, S)
    BY <1>4, <1>5 DEF Injection
  <2>2. Cardinality(1..n) = n
    BY FS_Interval
  <2> QED
    BY <1>1, <1>2, <2>1, <2>2, FS_Injection
<1>7. f \in Seq(S)
  BY <1>4
<1> QED
  BY <1>3, <1>4, <1>5, <1>6, <1>7 DEF Surjection

-----------------------------------------------------------------------------
(* ChatRooms: what a tab shows of the messages of its room *)

Posts(e, out) == e.type = "message" /\ e.id \in out

\* Of the messages out, base has each once, or else one event of wire w after the
\* first k brings it.
Bring(base, w, k, out) ==
    /\ base \in Seq(out) /\ IsInjective(base)
    /\ \A j \in DOMAIN w : j > k /\ Posts(w[j], out) => \A x \in DOMAIN base : base[x] # w[j].id
    /\ \A j, l \in DOMAIN w :
          j > k /\ Posts(w[j], out) /\ l > k /\ Posts(w[l], out) /\ w[j].id = w[l].id => j = l
    /\ \A m \in out : \/ \E x \in DOMAIN base : base[x] = m
                      \/ \E j \in DOMAIN w : j > k /\ Posts(w[j], {m})

LEMMA AppendIs ==
  ASSUME NEW S, NEW w \in Seq(S), NEW e
  PROVE  /\ Len(w) \in Nat /\ DOMAIN w = 1..Len(w)
         /\ DOMAIN Append(w, e) = 1..(Len(w) + 1) /\ Append(w, e)[Len(w) + 1] = e
         /\ \A j \in DOMAIN w : j \in DOMAIN Append(w, e) /\ Append(w, e)[j] = w[j] /\ j < Len(w) + 1
         /\ \A j \in DOMAIN Append(w, e) : j \in DOMAIN w \/ j = Len(w) + 1
OBVIOUS

LEMMA BringLater ==
  ASSUME NEW S, NEW w \in Seq(S), NEW base, NEW k, NEW out, Bring(base, w, k, out),
         NEW e, ~Posts(e, out)
  PROVE  Bring(base, Append(w, e), k, out)
<1>1. PICK y : y = Append(w, e)
  OBVIOUS
<1>2. /\ \A j \in DOMAIN w : j \in DOMAIN y /\ y[j] = w[j]
      /\ \A j \in DOMAIN y : j \in DOMAIN w \/ y[j] = e
  BY <1>1, AppendIs
<1> QED
  BY <1>1, <1>2 DEF Bring

LEMMA BringPosted ==
  ASSUME NEW S, NEW w \in Seq(S), NEW base, NEW k \in Nat, k <= Len(w), NEW out,
         Bring(base, w, k, out), NEW i, i \notin out,
         \A j \in DOMAIN w : w[j].type = "message" => w[j].id # i,
         NEW e, e.type = "message", e.id = i
  PROVE  Bring(base, Append(w, e), k, out \cup {i})
<1>1. PICK y : y = Append(w, e)
  OBVIOUS
<1>2. PICK n \in Nat : n = Len(w) + 1 /\ n > k
  <2>1. Len(w) \in Nat
    OBVIOUS
  <2> QED
    BY <2>1
<1>3. /\ \A j \in DOMAIN w : j \in DOMAIN y /\ y[j] = w[j] /\ j < n
      /\ \A j \in DOMAIN y : j \in DOMAIN w \/ j = n
      /\ n \in DOMAIN y /\ y[n] = e
  BY <1>1, <1>2, AppendIs
<1>4. \A j \in DOMAIN w : Posts(w[j], out \cup {i}) <=> Posts(w[j], out)
  BY DEF Posts
<1>5. base \in Seq(out \cup {i}) /\ IsInjective(base) /\ \A x \in DOMAIN base : base[x] \in out
  BY DEF Bring
<1>6. ASSUME NEW j \in DOMAIN y, j > k, Posts(y[j], out \cup {i}), NEW x \in DOMAIN base
      PROVE  base[x] # y[j].id
  <2>1. CASE j \in DOMAIN w
    BY <1>3, <1>4, <1>6, <2>1 DEF Bring
  <2>2. CASE j = n
    BY <1>3, <1>5, <2>2
  <2> QED
    BY <1>3, <2>1, <2>2
<1>7. ASSUME NEW j \in DOMAIN y, NEW l \in DOMAIN y, j > k, l > k,
             Posts(y[j], out \cup {i}), Posts(y[l], out \cup {i}), y[j].id = y[l].id
      PROVE  j = l
  <2>1. CASE j \in DOMAIN w /\ l \in DOMAIN w
    BY <1>3, <1>4, <1>7, <2>1 DEF Bring
  <2>2. CASE j = n /\ l \in DOMAIN w
    BY <1>3, <1>7, <2>2 DEF Posts
  <2>3. CASE j \in DOMAIN w /\ l = n
    BY <1>3, <1>7, <2>3 DEF Posts
  <2> QED
    BY <1>3, <2>1, <2>2, <2>3
<1>8. ASSUME NEW m \in out \cup {i}
      PROVE  \/ \E x \in DOMAIN base : base[x] = m
             \/ \E j \in DOMAIN y : j > k /\ Posts(y[j], {m})
  <2>1. CASE m = i
    BY <1>2, <1>3, <2>1 DEF Posts
  <2>2. CASE m \in out
    BY <1>3, <2>2 DEF Bring
  <2> QED
    BY <2>1, <2>2
<1> QED
  BY <1>1, <1>5, <1>6, <1>7, <1>8 DEF Bring

LEMMA TailIs ==
  ASSUME NEW S, NEW w \in Seq(S), w # <<>>
  PROVE  /\ DOMAIN w = 1..Len(w) /\ Len(w) \in Nat /\ DOMAIN Tail(w) = 1..(Len(w) - 1)
         /\ \A j \in DOMAIN Tail(w) : Tail(w)[j] = w[j + 1] /\ j + 1 \in DOMAIN w /\ j \in Nat /\ j > 0
         /\ \A j \in DOMAIN w : j = 1 \/ (j - 1 \in DOMAIN Tail(w) /\ Tail(w)[j - 1] = w[j])
         /\ Head(w) = w[1] /\ 1 \in DOMAIN w
<1>1. PICK x : x = Tail(w)
  OBVIOUS
<1>2. /\ DOMAIN w = 1..Len(w) /\ Len(w) \in Nat /\ Len(w) >= 1 /\ DOMAIN x = 1..(Len(w) - 1)
      /\ \A j \in DOMAIN x : x[j] = w[j + 1] /\ j + 1 \in DOMAIN w
      /\ Head(w) = w[1]
  BY <1>1
<1>3. \A i \in DOMAIN w : i = 1 \/ (i - 1 \in DOMAIN x /\ x[i - 1] = w[i])
  <2>1. \A i \in DOMAIN w : i = 1 \/ i - 1 \in DOMAIN x
    BY <1>2
  <2>2. \A i \in DOMAIN w : (i - 1) + 1 = i
    BY <1>2
  <2> QED
    BY <1>2, <2>1, <2>2
<1>4. 1 \in DOMAIN w /\ \A j \in DOMAIN x : j \in Nat /\ j > 0
  BY <1>2
<1> QED
  BY <1>1, <1>2, <1>3, <1>4

LEMMA BringTail ==
  ASSUME NEW S, NEW w \in Seq(S), w # <<>>, NEW base, NEW k \in Nat, NEW out,
         Bring(base, w, k, out), k > 0 \/ ~Posts(Head(w), out)
  PROVE  Bring(base, Tail(w), IF k > 0 THEN k - 1 ELSE 0, out)
<1>1. PICK y, d : y = Tail(w) /\ d = IF k > 0 THEN k - 1 ELSE 0
  OBVIOUS
<1>2. /\ \A j \in DOMAIN y : y[j] = w[j + 1] /\ j + 1 \in DOMAIN w /\ j \in Nat /\ j > 0
      /\ \A j \in DOMAIN w : j \in Nat /\ (j = 1 \/ (j - 1 \in DOMAIN y /\ y[j - 1] = w[j]))
      /\ Head(w) = w[1]
  BY <1>1, TailIs
<1>3. \A j \in DOMAIN y : j > d => j + 1 > k
  BY <1>1, <1>2
<1>4. \A j \in DOMAIN w : j > k => j = 1 \/ j - 1 > d
  BY <1>1, <1>2
<1>5. \A j \in DOMAIN w : j = 1 /\ j > k => ~Posts(w[j], out)
  BY <1>2
<1>6. ASSUME NEW j \in DOMAIN y, NEW l \in DOMAIN y, j > d, l > d,
             Posts(y[j], out), Posts(y[l], out), y[j].id = y[l].id
      PROVE  j = l
  <2>1. j + 1 = l + 1
    BY <1>2, <1>3, <1>6 DEF Bring
  <2> QED
    BY <1>2, <2>1
<1>7. ASSUME NEW m \in out
      PROVE  \/ \E x \in DOMAIN base : base[x] = m
             \/ \E j \in DOMAIN y : j > d /\ Posts(y[j], {m})
  <2>1. ASSUME NEW j \in DOMAIN w, j > k, Posts(w[j], {m}) PROVE j - 1 \in DOMAIN y /\ j - 1 > d /\ Posts(y[j - 1], {m})
    <3>1. Posts(w[j], out)
      BY <2>1 DEF Posts
    <3> QED
      BY <1>2, <1>4, <1>5, <2>1, <3>1
  <2> QED
    BY <2>1 DEF Bring
<1>8. ASSUME NEW j \in DOMAIN y, j > d, Posts(y[j], out), NEW x \in DOMAIN base PROVE base[x] # y[j].id
  BY <1>2, <1>3, <1>8 DEF Bring
<1>9. base \in Seq(out) /\ IsInjective(base)
  BY DEF Bring
<1> QED
  BY <1>1, <1>6, <1>7, <1>8, <1>9 DEF Bring

\* A tab shows the message the first event brings.
LEMMA BringShown ==
  ASSUME NEW S, NEW w \in Seq(S), w # <<>>, NEW base, NEW out, Bring(base, w, 0, out),
         Posts(Head(w), out)
  PROVE  Bring(Append(base, Head(w).id), Tail(w), 0, out)
<1>1. PICK y, e : y = Tail(w) /\ e = Head(w)
  OBVIOUS
<1>2. /\ \A j \in DOMAIN y : y[j] = w[j + 1] /\ j + 1 \in DOMAIN w /\ j \in Nat /\ j > 0
      /\ \A j \in DOMAIN w : j \in Nat /\ j > 0 /\ (j = 1 \/ (j - 1 \in DOMAIN y /\ y[j - 1] = w[j]))
      /\ e = w[1] /\ 1 \in DOMAIN w
  BY <1>1, TailIs
<1>3. base \in Seq(out) /\ IsInjective(base) /\ e.id \in out /\ Posts(w[1], out)
  BY <1>1, <1>2 DEF Bring, Posts
<1>4. PICK c : c = Append(base, e.id)
  OBVIOUS
<1>5. PICK n : /\ \A x \in DOMAIN base : x \in DOMAIN c /\ c[x] = base[x]
               /\ \A x \in DOMAIN c : x \in DOMAIN base \/ x = n
               /\ n \in DOMAIN c /\ c[n] = e.id
  BY <1>3, <1>4, AppendIs
<1>6. c \in Seq(out)
  BY <1>3, <1>4
<1>7. \A x \in DOMAIN base : base[x] # e.id
  BY <1>2, <1>3 DEF Bring
<1>8. IsInjective(c)
  BY <1>3, <1>5, <1>7 DEF IsInjective
<1>9. \A j \in DOMAIN y : j + 1 > 0 /\ j + 1 # 1
  BY <1>2
<1>10. ASSUME NEW j \in DOMAIN y, Posts(y[j], out), NEW x \in DOMAIN c PROVE c[x] # y[j].id
  <2>1. j + 1 \in DOMAIN w /\ Posts(w[j + 1], out) /\ y[j] = w[j + 1] /\ j + 1 > 0 /\ j + 1 # 1
    BY <1>2, <1>9, <1>10
  <2>2. w[j + 1].id # w[1].id
    BY <1>2, <1>3, <2>1 DEF Bring
  <2>3. \A z \in DOMAIN base : base[z] # w[j + 1].id
    BY <2>1 DEF Bring
  <2> QED
    BY <1>2, <1>5, <2>1, <2>2, <2>3
<1>11. ASSUME NEW j \in DOMAIN y, NEW l \in DOMAIN y, Posts(y[j], out), Posts(y[l], out), y[j].id = y[l].id
       PROVE  j = l
  <2>1. j + 1 = l + 1
    BY <1>2, <1>9, <1>11 DEF Bring
  <2> QED
    BY <1>2, <2>1
<1>12. ASSUME NEW m \in out
       PROVE  \/ \E x \in DOMAIN c : c[x] = m
              \/ \E j \in DOMAIN y : j > 0 /\ Posts(y[j], {m})
  <2>1. CASE \E x \in DOMAIN base : base[x] = m
    BY <1>5, <2>1
  <2>2. ASSUME NEW j \in DOMAIN w, Posts(w[j], {m})
        PROVE  \/ \E x \in DOMAIN c : c[x] = m
               \/ \E l \in DOMAIN y : l > 0 /\ Posts(y[l], {m})
    <3>1. CASE j = 1
      BY <1>2, <1>5, <2>2, <3>1 DEF Posts
    <3>2. CASE j # 1
      BY <1>2, <2>2, <3>2
    <3> QED
      BY <3>1, <3>2
  <2> QED
    BY <2>1, <2>2 DEF Bring
<1> QED
  BY <1>1, <1>4, <1>6, <1>8, <1>10, <1>11, <1>12 DEF Bring

\* What a tab with view v, wire w and reads rs has of the messages in of its room r, of
\* which un are not broadcast yet.
Shown(v, w, rs, r, in, un) ==
    \/ \* its read is under way: all that was posted by then is in the answer
       /\ un = {}
       /\ \E q \in rs : rs = {q} /\ q.room = r /\ (q.state = "answer" => q.found = in)
       /\ \A j \in DOMAIN w : w[j].type # "history"
    \/ \* the history is on its way
       /\ rs = {}
       /\ \E k \in DOMAIN w : /\ w[k].type = "history"
                              /\ Bring(w[k].messages, w, k, in \ un)
                              /\ \A j \in DOMAIN w : w[j].type = "history" => j = k
    \/ \* the tab shows it
       /\ rs = {}
       /\ \A j \in DOMAIN w : w[j].type # "history"
       /\ Bring(v.shown, w, 0, in \ un)

\* An event that is no history and no message of the room.
LEMMA ShownLater ==
  ASSUME NEW S, NEW w \in Seq(S), NEW v, NEW rs, NEW r, NEW in, NEW un,
         Shown(v, w, rs, r, in, un), NEW e, e.type # "history", ~Posts(e, in \ un)
  PROVE  Shown(v, Append(w, e), rs, r, in, un)
<1>1. PICK y : y = Append(w, e)
  OBVIOUS
<1>2. /\ \A j \in DOMAIN w : j \in DOMAIN y /\ y[j] = w[j]
      /\ \A j \in DOMAIN y : j \in DOMAIN w \/ y[j] = e
  BY <1>1, AppendIs
<1>3. \A base, k : Bring(base, w, k, in \ un) => Bring(base, y, k, in \ un)
  BY <1>1, BringLater
<1>4. CASE /\ un = {}
           /\ \E q \in rs : rs = {q} /\ q.room = r /\ (q.state = "answer" => q.found = in)
           /\ \A j \in DOMAIN w : w[j].type # "history"
  BY <1>1, <1>2, <1>4 DEF Shown
<1>5. CASE /\ rs = {}
           /\ \E k \in DOMAIN w : /\ w[k].type = "history"
                                  /\ Bring(w[k].messages, w, k, in \ un)
                                  /\ \A j \in DOMAIN w : w[j].type = "history" => j = k
  <2>1. PICK k \in DOMAIN w : /\ w[k].type = "history"
                              /\ Bring(w[k].messages, w, k, in \ un)
                              /\ \A j \in DOMAIN w : w[j].type = "history" => j = k
    BY <1>5
  <2>2. /\ k \in DOMAIN y /\ y[k].type = "history" /\ Bring(y[k].messages, y, k, in \ un)
        /\ \A j \in DOMAIN y : y[j].type = "history" => j = k
    BY <1>2, <1>3, <2>1
  <2> QED
    BY <1>1, <1>5, <2>2 DEF Shown
<1>6. CASE /\ rs = {}
           /\ \A j \in DOMAIN w : w[j].type # "history"
           /\ Bring(v.shown, w, 0, in \ un)
  BY <1>1, <1>2, <1>3, <1>6 DEF Shown
<1> QED
  BY <1>4, <1>5, <1>6 DEF Shown

\* A message of the room goes out.
LEMMA ShownPosted ==
  ASSUME NEW S, NEW w \in Seq(S), NEW v, NEW rs, NEW r, NEW in, NEW un,
         Shown(v, w, rs, r, in, un), NEW i \in in, i \in un,
         \A j \in DOMAIN w : w[j].type = "message" => w[j].id # i,
         NEW e, e.type = "message", e.id = i
  PROVE  Shown(v, Append(w, e), rs, r, in, un \ {i})
<1>1. PICK y : y = Append(w, e)
  OBVIOUS
<1>2. /\ \A j \in DOMAIN w : j \in DOMAIN y /\ y[j] = w[j]
      /\ \A j \in DOMAIN y : j \in DOMAIN w \/ y[j] = e
  BY <1>1, AppendIs
<1>3. PICK out, more : out = in \ un /\ more = in \ (un \ {i})
  OBVIOUS
<1>4. more = out \cup {i} /\ i \notin out
  BY <1>3
<1>5. ASSUME NEW base, NEW k \in Nat, k <= Len(w), Bring(base, w, k, out)
      PROVE  Bring(base, y, k, more)
  <2>1. Bring(base, Append(w, e), k, out \cup {i})
    BY <1>4, <1>5, BringPosted
  <2> QED
    BY <1>1, <1>4, <2>1
<1>6. 0 \in Nat /\ 0 <= Len(w) /\ \A k \in DOMAIN w : k \in Nat /\ k <= Len(w)
  OBVIOUS
<1>7. ASSUME rs = {}, NEW k \in DOMAIN w, w[k].type = "history", Bring(w[k].messages, w, k, out),
             \A j \in DOMAIN w : w[j].type = "history" => j = k
      PROVE  Shown(v, y, rs, r, in, un \ {i})
  <2>1. Bring(y[k].messages, y, k, more)
    BY <1>2, <1>5, <1>6, <1>7
  <2>2. k \in DOMAIN y /\ y[k].type = "history" /\ \A j \in DOMAIN y : y[j].type = "history" => j = k
    BY <1>2, <1>7
  <2> QED
    BY <1>3, <1>7, <2>1, <2>2 DEF Shown
<1>8. ASSUME rs = {}, \A j \in DOMAIN w : w[j].type # "history", Bring(v.shown, w, 0, out)
      PROVE  Shown(v, y, rs, r, in, un \ {i})
  <2>1. Bring(v.shown, y, 0, more)
    BY <1>5, <1>6, <1>8
  <2>2. \A j \in DOMAIN y : y[j].type # "history"
    BY <1>2, <1>8
  <2> QED
    BY <1>3, <1>8, <2>1, <2>2 DEF Shown
<1> QED
  BY <1>1, <1>3, <1>7, <1>8 DEF Shown

\* The answer of the read is sent.
LEMMA ShownAnswered ==
  ASSUME NEW S, NEW w \in Seq(S), NEW v, NEW q, NEW r, NEW b \in Nat, NEW in \in SUBSET (0..b), NEW un,
         Shown(v, w, {q}, r, in, un), q.state = "answer",
         NEW e, e.type = "history", e.messages = ByTime(q.found)
  PROVE  Shown(v, Append(w, e), {}, r, in, un)
<1>1. PICK y, n : y = Append(w, e) /\ n = Len(w) + 1
  OBVIOUS
<1>2. /\ \A j \in DOMAIN w : j \in DOMAIN y /\ y[j] = w[j] /\ j < n
      /\ \A j \in DOMAIN y : j \in DOMAIN w \/ j = n
      /\ n \in DOMAIN y /\ y[n] = e
  BY <1>1, AppendIs
<1>3. un = {} /\ q.found = in /\ \A j \in DOMAIN w : w[j].type # "history"
  BY DEF Shown
<1>4. /\ e.messages \in Seq(in) /\ IsInjective(e.messages)
      /\ \A m \in in : \E x \in DOMAIN e.messages : e.messages[x] = m
  <2>1. e.messages = ByTime(in)
    BY <1>3
  <2>2. /\ ByTime(in) \in Seq(in) /\ IsInjective(ByTime(in))
        /\ \A m \in in : \E x \in DOMAIN ByTime(in) : ByTime(in)[x] = m
    BY ByTimeIs
  <2> QED
    BY <2>1, <2>2
<1>5. \A j \in DOMAIN y : ~(j > n)
  <2>1. n \in Nat /\ \A j \in DOMAIN w : j \in Nat
    BY <1>1
  <2> QED
    BY <1>2, <2>1
<1>6. Bring(e.messages, y, n, in)
  BY <1>4, <1>5 DEF Bring
<1>7. in \ un = in
  BY <1>3
<1>8. \A j \in DOMAIN y : y[j].type = "history" => j = n
  BY <1>2, <1>3
<1> QED
  BY <1>1, <1>2, <1>6, <1>7, <1>8 DEF Shown

\* The tab takes the first event in.
LEMMA ShownTail ==
  ASSUME NEW S, NEW w \in Seq(S), w # <<>>, NEW A, NEW B, NEW C,
         NEW v \in [shown: A, count: B, users: C], NEW rs, NEW r, NEW in, NEW un,
         Shown(v, w, rs, r, in, un),
         Head(w).type = "message" => (posted[Head(w).id] = r <=> Head(w).id \in in \ un)
  PROVE  Shown(Reduced(v, r, Head(w)), Tail(w), rs, r, in, un)
<1>1. PICK y, e : y = Tail(w) /\ e = Head(w)
  OBVIOUS
<1>2. PICK u : u = Reduced(v, r, e)
  OBVIOUS
<1>3. /\ \A j \in DOMAIN y : y[j] = w[j + 1] /\ j + 1 \in DOMAIN w /\ j \in Nat /\ j > 0
      /\ \A j \in DOMAIN w : j = 1 \/ (j - 1 \in DOMAIN y /\ y[j - 1] = w[j])
      /\ e = w[1] /\ 1 \in DOMAIN w /\ \A j \in DOMAIN w : j \in Nat /\ j > 0
  BY <1>1, TailIs
<1>4. (\A j \in DOMAIN w : w[j].type # "history") => \A j \in DOMAIN y : y[j].type # "history"
  BY <1>3
<1>5. CASE /\ un = {}
           /\ \E q \in rs : rs = {q} /\ q.room = r /\ (q.state = "answer" => q.found = in)
           /\ \A j \in DOMAIN w : w[j].type # "history"
  BY <1>1, <1>4, <1>5 DEF Shown
<1>6. ASSUME rs = {}, NEW k \in DOMAIN w, w[k].type = "history", Bring(w[k].messages, w, k, in \ un),
             \A j \in DOMAIN w : w[j].type = "history" => j = k
      PROVE  Shown(u, y, rs, r, in, un)
  <2>1. k \in Nat /\ k > 0
    BY <1>3
  <2>2. Bring(w[k].messages, y, k - 1, in \ un)
    BY <1>1, <1>6, <2>1, BringTail
  <2>3. CASE k = 1
    <3>1. e.type = "history" /\ e.messages = w[k].messages
      BY <1>3, <1>6, <2>3
    <3>2. u = [v EXCEPT !.shown = e.messages]
      BY <1>2, <3>1 DEF Reduced
    <3>3. u.shown = w[k].messages
      BY <3>1, <3>2
    <3>4. \A j \in DOMAIN y : j + 1 # 1
      BY <1>3
    <3>5. \A j \in DOMAIN y : y[j].type # "history"
      BY <1>3, <1>6, <2>3, <3>4
    <3> QED
      BY <1>6, <2>2, <2>3, <3>3, <3>5 DEF Shown
  <2>4. CASE k # 1
    <3>1. k - 1 \in DOMAIN y /\ y[k - 1] = w[k]
      BY <1>3, <2>4
    <3>2. ASSUME NEW j \in DOMAIN y, y[j].type = "history" PROVE j = k - 1
      <4>1. j + 1 = k
        BY <1>3, <1>6, <3>2
      <4> QED
        BY <1>3, <2>1, <4>1
    <3> QED
      BY <1>6, <2>2, <3>1, <3>2 DEF Shown
  <2> QED
    BY <2>3, <2>4
<1>7. ASSUME rs = {}, \A j \in DOMAIN w : w[j].type # "history", Bring(v.shown, w, 0, in \ un)
      PROVE  Shown(u, y, rs, r, in, un)
  <2>1. e.type # "history" /\ \A j \in DOMAIN y : y[j].type # "history"
    BY <1>3, <1>4, <1>7
  <2>2. CASE Posts(e, in \ un)
    <3>1. e.type = "message" /\ posted[e.id] = r
      BY <1>1, <2>2 DEF Posts
    <3>2. u = [v EXCEPT !.shown = Append(v.shown, e.id)]
      BY <1>2, <3>1 DEF Reduced
    <3>3. u.shown = Append(v.shown, e.id)
      BY <3>2
    <3>4. Bring(Append(v.shown, e.id), y, 0, in \ un)
      BY <1>1, <1>7, <2>2, BringShown
    <3> QED
      BY <1>7, <2>1, <3>3, <3>4 DEF Shown
  <2>3. CASE ~Posts(e, in \ un)
    <3>1. ~(e.type = "message" /\ posted[e.id] = r)
      BY <1>1, <2>3 DEF Posts
    <3>2. u = v \/ u = [v EXCEPT !.count = e.count, !.users = e.users]
      BY <1>2, <2>1, <3>1 DEF Reduced
    <3>3. u.shown = v.shown
      BY <3>2
    <3>4. Bring(v.shown, y, 0, in \ un)
      BY <1>1, <1>7, <2>3, BringTail
    <3> QED
      BY <1>7, <2>1, <3>3, <3>4 DEF Shown
  <2> QED
    BY <2>2, <2>3
<1> QED
  BY <1>1, <1>2, <1>5, <1>6, <1>7 DEF Shown

-----------------------------------------------------------------------------
(* ChatRooms: the messages of each tab's room *)

\* What goes over a wire as a message has been broadcast.
Sent(w, sent) == \A s \in Sockets : \A j \in DOMAIN w[s] : w[s][j].type = "message" => w[s][j].id \in sent

\* A tab's socket is in the tab's room, and no other socket shows the tab anything.
Inside(st, t) == tab[t].socket # None => tab[t].socket \in st.members[tab[t].room]

ChatRows ==
    /\ posted \in Seq(Rooms) /\ unsent \subseteq DOMAIN posted
    /\ \A q \in reading : q \in [socket: Sockets, room: Rooms, state: {"query", "answer"}, found: SUBSET Nat]
    /\ readBeside \subseteq Tabs

ShownOne(st, t) ==
    LET s == tab[t].socket
        r == tab[t].room
    IN  s # None /\ t \notin readBeside
            => Shown(tab[t].view, st.wire[s], Reads(s), r, In(r), In(r) \cap unsent)

MessagesInv ==
    /\ ChatRows
    /\ Sent(wire, DOMAIN posted \ unsent)
    /\ \A t \in Tabs : Inside(Rooming, t)
    /\ \A t \in Watched : ShownOne(Rooming, t)

\* All that a broadcast of who is in a room leaves alone.
LEMMA RetoldKeeps ==
  ASSUME NEW S, Shape(S), SocketsInv, Watched \subseteq Tabs, NEW st, Shaped(st, S),
         NEW r \in Rooms, NEW ms \in SUBSET Sockets
  PROVE  /\ \A sent : Sent(st.wire, sent) => Sent(Retold(st, r, ms).wire, sent)
         /\ \A t \in Watched : ShownOne(st, t) => ShownOne(Retold(st, r, ms), t)
         /\ \A s \in Sockets : (\A j \in DOMAIN st.wire[s] : st.wire[s][j].type # "history")
                => \A j \in DOMAIN Retold(st, r, ms).wire[s] : Retold(st, r, ms).wire[s][j].type # "history"
<1>1. PICK e : e = Presence(r, ms)
  OBVIOUS
<1>2. PICK w : w = Retold(st, r, ms).wire
  OBVIOUS
<1>3. e.type = "presence"
  BY <1>1 DEF Presence
<1>4. \A s \in Sockets : w[s] = st.wire[s] \/ w[s] = Append(st.wire[s], e)
  BY <1>1, <1>2 DEF Retold, BroadcastToRoom
<1>5. \A s \in Sockets : st.wire[s] \in Seq(S)
  BY DEF Shaped
<1>6. ASSUME NEW s \in Sockets, NEW j \in DOMAIN w[s]
      PROVE  (j \in DOMAIN st.wire[s] /\ w[s][j] = st.wire[s][j]) \/ w[s][j] = e
  <2>1. CASE w[s] = st.wire[s]
    BY <1>6, <2>1
  <2>2. CASE w[s] = Append(st.wire[s], e)
    BY <1>5, <1>6, <2>2, AppendIs
  <2> QED
    BY <1>4, <2>1, <2>2
<1>7. ASSUME NEW sent, Sent(st.wire, sent) PROVE Sent(w, sent)
  BY <1>3, <1>6, <1>7 DEF Sent
<1>8. ASSUME NEW t \in Watched, ShownOne(st, t) PROVE ShownOne(Retold(st, r, ms), t)
  <2>1. PICK s, q, v, rs, in, un :
          /\ s = tab[t].socket /\ q = tab[t].room /\ v = tab[t].view
          /\ rs = Reads(s) /\ in = In(q) /\ un = In(q) \cap unsent
    OBVIOUS
  <2>2. SUFFICES ASSUME s # None, t \notin readBeside PROVE Shown(v, w[s], rs, q, in, un)
    BY <1>2, <2>1 DEF ShownOne
  <2>3. s \in Sockets
    BY <2>1, <2>2 DEF SocketsInv, Shape
  <2>4. Shown(v, st.wire[s], rs, q, in, un)
    BY <1>8, <2>1, <2>2 DEF ShownOne
  <2>5. Shown(v, Append(st.wire[s], e), rs, q, in, un)
    <3>1. ~Posts(e, in \ un) /\ e.type # "history"
      BY <1>3 DEF Posts
    <3> QED
      BY <1>5, <2>3, <2>4, <3>1, ShownLater
  <2> QED
    BY <1>4, <2>3, <2>4, <2>5
<1>9. \A s \in Sockets : (\A j \in DOMAIN st.wire[s] : st.wire[s][j].type # "history")
                            => \A j \in DOMAIN w[s] : w[s][j].type # "history"
  BY <1>3, <1>6
<1> QED
  BY <1>2, <1>7, <1>8, <1>9

\* The same after an action that changes nothing else of tab t.
LEMMA ShownStays ==
  ASSUME NEW st, RoomingIs(st), NEW t, ShownOne(st, t), tab'[t] = tab[t],
         t \notin readBeside' => t \notin readBeside,
         tab[t].socket # None => Reads(tab[t].socket)' = Reads(tab[t].socket),
         UNCHANGED <<posted, unsent>>
  PROVE  ShownOne(Rooming, t)'
BY DEF RoomingIs, ShownOne, Rooming, Reads, In

LEMMA ShownKeeps ==
  ASSUME NEW t, ShownOne(Rooming, t), tab'[t] = tab[t],
         tab[t].socket # None => wire'[tab[t].socket] = wire[tab[t].socket],
         UNCHANGED <<posted, unsent, reading, readBeside>>
  PROVE  ShownOne(Rooming, t)'
<1>1. PICK s, r : s = tab[t].socket /\ r = tab[t].room
  OBVIOUS
<1>2. In(r)' = In(r) /\ Reads(s)' = Reads(s)
  BY DEF In, Reads
<1> QED
  BY <1>1, <1>2 DEF ShownOne, Rooming

LEMMA InsideStays ==
  ASSUME NEW st, RoomingIs(st), NEW t, Inside(st, t), tab'[t] = tab[t]
  PROVE  Inside(Rooming, t)'
BY DEF RoomingIs, Inside, Rooming

\* Tab t's socket s joins room r, from st on.
LEMMA JoinShows ==
  ASSUME ChatAssumption, NEW S, Shape(S), SocketsInv, NEW st, Shaped(st, S), ChatRows,
         NEW t \in Tabs, NEW r \in Rooms, NEW s \in Sockets, TabOf[s] = t, Enter(t, r, s, st),
         tab'[t].socket = s, tab'[t].room = r, \A u \in Tabs \ {t} : tab'[u] = tab[u],
         UNCHANGED <<posted, unsent>>,
         Sent(st.wire, DOMAIN posted \ unsent),
         \A u \in Tabs \ {t} : Inside(st, u),
         \A u \in Watched \ {t} : ShownOne(st, u),
         (\A j \in DOMAIN wire[s] : wire[s][j].type # "history")
             => \A j \in DOMAIN st.wire[s] : st.wire[s][j].type # "history"
  PROVE  MessagesInv'
<1>1. PICK ms \in SUBSET Sockets : /\ Joined(st, r, s) = Retold(st, r, ms) /\ s \in ms
                                   /\ ms = (st.members[r] \cap OpenSockets(socket)) \cup {s}
  <2>1. PICK m : m = (st.members[r] \cap OpenSockets(socket)) \cup {s}
    OBVIOUS
  <2>2. Joined(st, r, s) = Retold(st, r, m)
    BY <2>1 DEF Joined, Retold
  <2>3. m \in SUBSET Sockets /\ s \in m
    BY <2>1 DEF Shaped
  <2> QED
    BY <2>1, <2>2, <2>3
<1>2. PICK after : after = Retold(st, r, ms)
  OBVIOUS
<1>3. RoomingIs(after) /\ Races(t, r, s)
      /\ reading' = reading \cup (IF t \in Watched THEN {Read(s, r)} ELSE {})
  BY <1>1, <1>2 DEF Enter
<1>4. Watched \subseteq Tabs
  BY DEF ChatAssumption
<1>5. /\ \A sent : Sent(st.wire, sent) => Sent(after.wire, sent)
      /\ \A u \in Watched : ShownOne(st, u) => ShownOne(after, u)
      /\ \A k \in Sockets : (\A j \in DOMAIN st.wire[k] : st.wire[k][j].type # "history")
             => \A j \in DOMAIN after.wire[k] : after.wire[k][j].type # "history"
  BY <1>2, <1>4, RetoldKeeps
<1>6. PICK q : q = Read(s, r)
  OBVIOUS
<1>7. /\ q \in [socket: Sockets, room: Rooms, state: {"query", "answer"}, found: SUBSET Nat]
      /\ q.socket = s /\ q.room = r /\ q.state = "query"
  BY <1>6 DEF Read
<1>8. \A k \in Sockets : k # s => Reads(k)' = Reads(k)
  BY <1>3, <1>6, <1>7 DEF Reads
<1>9. ChatRows'
  <2>1. \A k \in reading' : k \in [socket: Sockets, room: Rooms, state: {"query", "answer"}, found: SUBSET Nat]
    BY <1>3, <1>6, <1>7 DEF ChatRows
  <2>2. readBeside' \subseteq Tabs
    BY <1>3 DEF Races, ChatRows
  <2> QED
    BY <2>1, <2>2 DEF ChatRows
<1>10. Sent(wire, DOMAIN posted \ unsent)'
  <2>1. wire' = after.wire /\ Sent(after.wire, DOMAIN posted \ unsent)
    BY <1>3, <1>5 DEF RoomingIs
  <2> QED
    BY <2>1 DEF Sent
<1>11. ASSUME NEW u \in Tabs PROVE Inside(Rooming, u)'
  <2>1. CASE u = t
    <3>1. members' = after.members /\ after.members[r] = ms
      BY <1>2, <1>3 DEF RoomingIs, Retold, Shaped
    <3> QED
      BY <1>1, <2>1, <3>1 DEF Inside, Rooming
  <2>2. CASE u # t
    <3>1. PICK k, p : k = tab[u].socket /\ p = tab[u].room
      OBVIOUS
    <3>2. p \in Rooms /\ (k # None => k \in Sockets /\ k \in st.members[p] /\ socket[k] = "open")
      BY <2>2, <3>1 DEF Inside, SocketsInv, Shape
    <3>3. after.members = [st.members EXCEPT ![r] = ms]
      BY <1>2 DEF Retold
    <3>4. k # None => k \in after.members[p]
      BY <1>1, <3>2, <3>3 DEF OpenSockets, Shaped
    <3>5. Inside(after, u)
      BY <3>1, <3>4 DEF Inside
    <3> QED
      BY <1>3, <2>2, <3>5, InsideStays
  <2> QED
    BY <2>1, <2>2
<1>12. ASSUME NEW u \in Watched PROVE ShownOne(Rooming, u)'
  <2>1. CASE u # t
    <3>1. ShownOne(after, u) /\ tab'[u] = tab[u]
      BY <1>4, <1>5, <2>1
    <3>2. u \notin readBeside' => u \notin readBeside
      BY <1>3, <2>1 DEF Races
    <3>3. tab[u].socket # None => Reads(tab[u].socket)' = Reads(tab[u].socket)
      BY <1>4, <1>8, <2>1 DEF SocketsInv, Shape
    <3> QED
      BY <1>3, <3>1, <3>2, <3>3, ShownStays
  <2>2. ASSUME u = t, t \notin readBeside' PROVE ShownOne(Rooming, t)'
    <3>1. ~HistoryOn(s) /\ \A i \in unsent : posted[i] # r
      BY <1>3, <2>2 DEF Races
    <3>2. Reads(s)' = {q}
      <4>1. Reads(s) = {} /\ t \in Watched
        BY <2>2, <3>1 DEF HistoryOn
      <4>2. reading' = reading \cup {q}
        BY <1>3, <1>6, <4>1
      <4> QED
        BY <1>7, <4>1, <4>2 DEF Reads
    <3>3. \A j \in DOMAIN after.wire[s] : after.wire[s][j].type # "history"
      BY <1>5, <3>1 DEF HistoryOn
    <3>4. In(r)' \cap unsent' = {}
      BY <3>1 DEF In
    <3>5. Shown(tab'[t].view, wire'[s], {q}, r, In(r)', In(r)' \cap unsent')
      <4>1. wire' = after.wire
        BY <1>3 DEF RoomingIs
      <4> QED
        BY <1>7, <3>3, <3>4, <4>1 DEF Shown
    <3> QED
      BY <3>2, <3>5 DEF ShownOne, Rooming
  <2>3. CASE u = t /\ t \in readBeside'
    BY <2>3 DEF ShownOne
  <2> QED
    BY <2>1, <2>2, <2>3
<1> QED
  BY <1>9, <1>10, <1>11, <1>12 DEF MessagesInv

\* What holds of st once socket s has left its room.
Leaves(st, s) ==
    /\ Sent(st.wire, DOMAIN posted \ unsent)
    /\ \A u \in Tabs : tab[u].socket # s => Inside(st, u)
    /\ \A u \in Watched : ShownOne(st, u)
    /\ \A k \in Sockets : (\A j \in DOMAIN wire[k] : wire[k][j].type # "history")
                              => \A j \in DOMAIN st.wire[k] : st.wire[k][j].type # "history"

\* The server forgets socket s in room r: whoever is open stays.
LEMMA LeftKeeps ==
  ASSUME NEW S, Shape(S), SocketsInv, Watched \subseteq Tabs, NEW r \in Rooms, NEW s \in Sockets,
         MessagesInv, NEW after, after = Left(Rooming, r, s)
  PROVE  Leaves(after, s) /\ \E T : S \subseteq T /\ Shaped(after, T)
<1>1. PICK st : st = Rooming
  OBVIOUS
<1>2. PICK m : m = (st.members[r] \cap OpenSockets(socket)) \ {s}
  OBVIOUS
<1>3. m \in SUBSET Sockets
  BY <1>2 DEF OpenSockets
<1>4. Left(st, r, s) = Retold(st, r, m)
  BY <1>2 DEF Left, Retold
<1>5. Shaped(st, S) /\ st.wire = wire
  BY <1>1, RoomingShaped DEF Rooming
<1>6. after = Retold(st, r, m)
  BY <1>1, <1>4
<1>7. Shaped(after, S \cup {Presence(r, m)})
  BY <1>3, <1>5, <1>6, RetoldShaped
<1>8. /\ \A sent : Sent(st.wire, sent) => Sent(after.wire, sent)
      /\ \A u \in Watched : ShownOne(st, u) => ShownOne(after, u)
      /\ \A k \in Sockets : (\A j \in DOMAIN st.wire[k] : st.wire[k][j].type # "history")
             => \A j \in DOMAIN after.wire[k] : after.wire[k][j].type # "history"
  BY <1>3, <1>5, <1>6, RetoldKeeps
<1>9. ASSUME NEW u \in Tabs, tab[u].socket # s PROVE Inside(after, u)
  <2>1. PICK k, p : k = tab[u].socket /\ p = tab[u].room
    OBVIOUS
  <2>2. Inside(st, u)
    BY <1>1 DEF MessagesInv
  <2>3. p \in Rooms /\ (k # None => k \in Sockets /\ k \in st.members[p] /\ socket[k] = "open")
    BY <2>1, <2>2 DEF Inside, SocketsInv, Shape
  <2>4. after.members = [st.members EXCEPT ![r] = m]
    BY <1>6 DEF Retold
  <2>5. k # None => k \in after.members[p]
    BY <1>2, <1>5, <1>9, <2>1, <2>3, <2>4 DEF OpenSockets, Shaped
  <2> QED
    BY <2>1, <2>5 DEF Inside
<1>10. Sent(after.wire, DOMAIN posted \ unsent)
  BY <1>5, <1>8 DEF MessagesInv
<1>11. \A u \in Watched : ShownOne(after, u)
  BY <1>1, <1>8 DEF MessagesInv
<1>12. S \subseteq S \cup {Presence(r, m)}
  OBVIOUS
<1> QED
  BY <1>5, <1>7, <1>8, <1>9, <1>10, <1>11, <1>12 DEF Leaves

LEMMA MessagesConnect ==
  ASSUME ChatAssumption, PresenceInv, MessagesInv, NEW t \in Tabs, ConnectTab(t)
  PROVE  MessagesInv'
<1>0. PICK S : Shape(S)
  BY DEF PresenceInv, ChatShape
<1>1. PICK s \in Sockets :
        /\ TabOf[s] = t /\ tab' = [tab EXCEPT ![t].socket = s]
        /\ Enter(t, tab[t].room, s, Rooming)
  <2>1. PICK fresh : fresh = {k \in Sockets : TabOf[k] = t /\ socket[k] = "unused"}
    OBVIOUS
  <2>2. fresh # {}
    BY <2>1 DEF ConnectTab
  <2>3. PICK k \in fresh : k = CHOOSE j \in fresh : TRUE
    BY <2>2
  <2>4. k \in Sockets /\ TabOf[k] = t
    BY <2>1
  <2>5. tab' = [tab EXCEPT ![t].socket = k] /\ Enter(t, tab[t].room, k, Rooming)
    BY <2>1, <2>3 DEF ConnectTab
  <2> QED
    BY <2>4, <2>5
<1>2. PICK st : st = Rooming
  OBVIOUS
<1>3. PICK r : r = tab[t].room
  OBVIOUS
<1>4. r \in Rooms /\ tab'[t].socket = s /\ tab'[t].room = r /\ \A u \in Tabs \ {t} : tab'[u] = tab[u]
  BY <1>0, <1>1, <1>3 DEF Shape
<1>5. SocketsInv /\ UNCHANGED <<posted, unsent>>
  BY DEF PresenceInv, ChatShape, ConnectTab
<1>6. Shaped(st, S) /\ st.wire = wire
  BY <1>0, <1>2, RoomingShaped DEF Rooming
<1>7. /\ ChatRows /\ Sent(st.wire, DOMAIN posted \ unsent)
      /\ \A u \in Tabs \ {t} : Inside(st, u)
      /\ \A u \in Watched \ {t} : ShownOne(st, u)
  BY <1>2, <1>6 DEF MessagesInv
<1>8. Enter(t, r, s, st)
  BY <1>1, <1>2, <1>3
<1> QED
  BY <1>0, <1>1, <1>4, <1>5, <1>6, <1>7, <1>8, JoinShows

LEMMA MessagesActiveRoom ==
  ASSUME ChatAssumption, PresenceInv, MessagesInv, NEW t \in Tabs, NEW r \in Rooms, SetActiveRoom(t, r)
  PROVE  MessagesInv'
<1>0. PICK S : Shape(S)
  BY DEF PresenceInv, ChatShape
<1>1. PICK s, old : s = tab[t].socket /\ old = tab[t].room
  OBVIOUS
<1>2. /\ tab' = [tab EXCEPT ![t].room = r, ![t].view = Blank] /\ UNCHANGED <<posted, unsent>>
      /\ old \in Rooms /\ s \in Sockets \cup {None}
  BY <1>0, <1>1 DEF SetActiveRoom, Shape
<1>3. tab'[t].socket = s /\ tab'[t].room = r /\ \A u \in Tabs \ {t} : tab'[u] = tab[u]
  <2>1. PICK x : x = [tab[t] EXCEPT !.room = r, !.view = Blank]
    OBVIOUS
  <2>2. tab[t] \in [socket: Sockets \cup {None}, room: Rooms, view: [shown: S, count: S, users: S]]
    BY <1>0 DEF Shape
  <2>3. x.socket = s /\ x.room = r
    BY <1>1, <2>1, <2>2
  <2>4. tab' = [tab EXCEPT ![t] = x]
    BY <1>2, <2>1
  <2> QED
    BY <1>0, <2>3, <2>4 DEF Shape
<1>4. SocketsInv /\ Watched \subseteq Tabs
  BY DEF PresenceInv, ChatShape, ChatAssumption
<1>5. CASE s = None
  <2>1. UNCHANGED <<members, wire, reading, readBeside>>
    BY <1>1, <1>5 DEF SetActiveRoom
  <2>2. ASSUME NEW u \in Tabs PROVE Inside(Rooming, u)'
    BY <1>3, <1>5, <2>1 DEF Inside, MessagesInv, Rooming
  <2>3. ASSUME NEW u \in Watched PROVE ShownOne(Rooming, u)'
    <3>1. CASE u = t
      BY <1>3, <1>5, <3>1 DEF ShownOne
    <3>2. CASE u # t
      BY <1>2, <1>3, <1>4, <2>1, <3>2, ShownKeeps DEF MessagesInv
    <3> QED
      BY <3>1, <3>2
  <2>4. ChatRows' /\ Sent(wire, DOMAIN posted \ unsent)'
    BY <1>2, <2>1 DEF ChatRows, Sent, MessagesInv
  <2> QED
    BY <2>2, <2>3, <2>4 DEF MessagesInv
<1>6. CASE s # None
  <2>1. PICK st : st = IF members[old] = {} THEN Rooming ELSE Left(Rooming, old, s)
    OBVIOUS
  <2>2. Enter(t, r, s, st)
    BY <1>1, <1>6, <2>1 DEF SetActiveRoom
  <2>3. s \in Sockets /\ TabOf[s] = t
    BY <1>1, <1>2, <1>4, <1>6 DEF SocketsInv
  <2>4. \A u \in Tabs \ {t} : tab[u].socket # s
    BY <1>4, <1>6, <2>3 DEF SocketsInv
  <2>5. PICK left : left = Left(Rooming, old, s)
    OBVIOUS
  <2>6. Leaves(left, s) /\ \E T : S \subseteq T /\ Shaped(left, T)
    BY <1>0, <1>2, <1>4, <2>3, <2>5, LeftKeeps
  <2>7. PICK before : before = Rooming
    OBVIOUS
  <2>8. PICK T : S \subseteq T /\ Shaped(left, T)
    BY <2>6
  <2>9. st = before \/ st = left
    BY <2>1, <2>5, <2>7
  <2>10. /\ Sent(left.wire, DOMAIN posted \ unsent)
         /\ \A u \in Tabs \ {t} : Inside(left, u)
         /\ \A u \in Watched \ {t} : ShownOne(left, u)
         /\ (\A j \in DOMAIN wire[s] : wire[s][j].type # "history")
                => \A j \in DOMAIN left.wire[s] : left.wire[s][j].type # "history"
    BY <2>3, <2>4, <2>6 DEF Leaves
  <2>11. Shaped(before, S) /\ before.wire = wire /\ S \subseteq T
    BY <1>0, <2>7, <2>8, RoomingShaped DEF Rooming
  <2>12. Shaped(before, T)
    BY <2>11, SeqGrows DEF Shaped
  <2>13. /\ ChatRows /\ Sent(before.wire, DOMAIN posted \ unsent)
         /\ \A u \in Tabs \ {t} : Inside(before, u)
         /\ \A u \in Watched \ {t} : ShownOne(before, u)
    BY <2>7, <2>11 DEF MessagesInv
  <2>14. /\ Shaped(st, T) /\ Sent(st.wire, DOMAIN posted \ unsent)
         /\ \A u \in Tabs \ {t} : Inside(st, u)
         /\ \A u \in Watched \ {t} : ShownOne(st, u)
         /\ (\A j \in DOMAIN wire[s] : wire[s][j].type # "history")
                => \A j \in DOMAIN st.wire[s] : st.wire[s][j].type # "history"
    <3>1. CASE st = before
      BY <2>11, <2>12, <2>13, <3>1
    <3>2. CASE st = left
      BY <2>8, <2>10, <3>2
    <3> QED
      BY <2>9, <3>1, <3>2
  <2>15. Shape(T)
    <3>1. wire \in [Sockets -> Seq(T)] /\ members \in [Rooms -> SUBSET Sockets]
      BY <2>7, <2>12 DEF Shaped, Rooming
    <3>2. [shown: S, count: S, users: S] \subseteq [shown: T, count: T, users: T]
      BY <2>11
    <3> QED
      BY <1>0, <3>1, <3>2 DEF Shape
  <2> QED
    BY <1>2, <1>3, <1>4, <2>2, <2>3, <2>13, <2>14, <2>15, JoinShows
<1> QED
  BY <1>5, <1>6

LEMMA MessagesDisconnect ==
  ASSUME ChatAssumption, PresenceInv, MessagesInv, NEW t \in Tabs, DisconnectTab(t)
  PROVE  MessagesInv'
<1>0. PICK S : Shape(S)
  BY DEF PresenceInv, ChatShape
<1>1. PICK s \in Sockets :
        /\ s = tab[t].socket /\ s # None
        /\ tab' = [tab EXCEPT ![t].socket = None]
        /\ wire' = [wire EXCEPT ![s] = <<>>]
        /\ UNCHANGED <<members, posted, unsent, reading, readBeside>>
  BY <1>0 DEF DisconnectTab, Shape
<1>2. tab'[t].socket = None /\ \A u \in Tabs \ {t} : tab'[u] = tab[u]
  BY <1>0, <1>1 DEF Shape
<1>3. Watched \subseteq Tabs /\ \A u \in Tabs \ {t} : tab[u].socket # s
  BY <1>1 DEF PresenceInv, ChatShape, SocketsInv, ChatAssumption
<1>4. \A k \in Sockets : wire'[k] = IF k = s THEN <<>> ELSE wire[k]
  BY <1>0, <1>1 DEF Shape
<1>5. Sent(wire, DOMAIN posted \ unsent)'
  <2>1. \A j : j \notin DOMAIN <<>>
    OBVIOUS
  <2> QED
    BY <1>1, <1>4, <2>1 DEF MessagesInv, Sent
<1>6. ASSUME NEW u \in Tabs PROVE Inside(Rooming, u)'
  BY <1>1, <1>2 DEF MessagesInv, Inside, Rooming
<1>7. ASSUME NEW u \in Watched PROVE ShownOne(Rooming, u)'
  <2>1. CASE u = t
    BY <1>2, <2>1 DEF ShownOne
  <2>2. CASE u # t
    <3>1. tab'[u] = tab[u] /\ (tab[u].socket # None => wire'[tab[u].socket] = wire[tab[u].socket])
      BY <1>0, <1>2, <1>3, <1>4, <2>2 DEF Shape
    <3> QED
      BY <1>1, <3>1, ShownKeeps DEF MessagesInv
  <2> QED
    BY <2>1, <2>2
<1>8. ChatRows'
  BY <1>1 DEF MessagesInv, ChatRows
<1> QED
  BY <1>5, <1>6, <1>7, <1>8 DEF MessagesInv

LEMMA MessagesDeliver ==
  ASSUME ChatAssumption, PresenceInv, MessagesInv, NEW t \in Tabs, Deliver(t)
  PROVE  MessagesInv'
<1>0. PICK S : Shape(S)
  BY DEF PresenceInv, ChatShape
<1>1. PICK s, r, v : s = tab[t].socket /\ r = tab[t].room /\ v = tab[t].view
  OBVIOUS
<1>2. s \in Sockets /\ r \in Rooms /\ v \in [shown: S, count: S, users: S] /\ wire[s] \in Seq(S)
  BY <1>0, <1>1 DEF Shape, Deliver
<1>3. PICK w, y, e : w = wire[s] /\ y = Tail(w) /\ e = Head(w)
  OBVIOUS
<1>4. PICK u : u = Reduced(v, r, e)
  OBVIOUS
<1>5. /\ w # <<>> /\ wire' = [wire EXCEPT ![s] = y] /\ s # None
      /\ UNCHANGED <<members, posted, unsent, reading, readBeside>>
  BY <1>1, <1>3 DEF Deliver
<1>6. PICK x : x = [tab[t] EXCEPT !.view = u]
  OBVIOUS
<1>7. x.socket = s /\ x.room = r /\ x.view = u
  <2>1. tab[t] \in [socket: Sockets \cup {None}, room: Rooms, view: [shown: S, count: S, users: S]]
    BY <1>0 DEF Shape
  <2> QED
    BY <1>1, <1>6, <2>1
<1>8. tab' = [tab EXCEPT ![t] = x]
  BY <1>1, <1>3, <1>4, <1>6 DEF Deliver
<1>9. tab'[t] = x /\ \A k \in Tabs \ {t} : tab'[k] = tab[k]
  BY <1>0, <1>8 DEF Shape
<1>10. Watched \subseteq Tabs /\ \A k \in Tabs \ {t} : tab[k].socket # s
  BY <1>1, <1>5 DEF PresenceInv, ChatShape, SocketsInv, ChatAssumption
<1>11. \A k \in Sockets : wire'[k] = IF k = s THEN y ELSE wire[k]
  BY <1>0, <1>5 DEF Shape
<1>12. \A j \in DOMAIN y : y[j] = w[j + 1] /\ j + 1 \in DOMAIN w
  BY <1>2, <1>3, <1>5, TailIs
<1>13. e = w[1] /\ 1 \in DOMAIN w
  BY <1>2, <1>3, <1>5, TailIs
<1>14. Sent(wire, DOMAIN posted \ unsent)'
  <2>1. \A j \in DOMAIN y : y[j].type = "message" => y[j].id \in DOMAIN posted \ unsent
    BY <1>2, <1>3, <1>12 DEF MessagesInv, Sent
  <2>2. \A k \in Sockets : \A j \in DOMAIN wire'[k] : wire'[k][j].type = "message" => wire'[k][j].id \in DOMAIN posted \ unsent
    BY <1>11, <2>1 DEF MessagesInv, Sent
  <2> QED
    BY <1>5, <2>2 DEF Sent
<1>15. ASSUME NEW k \in Tabs PROVE Inside(Rooming, k)'
  BY <1>1, <1>5, <1>7, <1>9 DEF MessagesInv, Inside, Rooming
<1>16. ASSUME NEW k \in Watched PROVE ShownOne(Rooming, k)'
  <2>1. CASE k # t
    <3>1. tab'[k] = tab[k] /\ (tab[k].socket # None => wire'[tab[k].socket] = wire[tab[k].socket])
      BY <1>0, <1>9, <1>10, <1>11, <2>1 DEF Shape
    <3> QED
      BY <1>5, <3>1, ShownKeeps DEF MessagesInv
  <2>2. ASSUME k = t, t \notin readBeside PROVE ShownOne(Rooming, t)'
    <3>1. PICK rs, in, un : rs = Reads(s) /\ in = In(r) /\ un = In(r) \cap unsent
      OBVIOUS
    <3>2. Shown(v, w, rs, r, in, un)
      BY <1>1, <1>3, <1>5, <2>2, <3>1 DEF MessagesInv, ShownOne, Rooming
    <3>3. e.type = "message" => (posted[e.id] = r <=> e.id \in in \ un)
      <4>1. e.type = "message" => e.id \in DOMAIN posted \ unsent
        BY <1>2, <1>3, <1>13 DEF MessagesInv, Sent
      <4> QED
        BY <3>1, <4>1 DEF In
    <3>4. Shown(u, y, rs, r, in, un)
      BY <1>2, <1>3, <1>4, <1>5, <3>2, <3>3, ShownTail
    <3>5. rs = Reads(s)' /\ in = In(r)' /\ un = In(r)' \cap unsent' /\ wire'[s] = y
      BY <1>2, <1>5, <1>11, <3>1 DEF Reads, In
    <3> QED
      BY <1>7, <1>9, <3>4, <3>5 DEF ShownOne, Rooming
  <2>3. CASE k = t /\ t \in readBeside
    BY <1>5, <2>3 DEF ShownOne
  <2> QED
    BY <2>1, <2>2, <2>3
<1>17. ChatRows'
  BY <1>5 DEF MessagesInv, ChatRows
<1> QED
  BY <1>14, <1>15, <1>16, <1>17 DEF MessagesInv

\* A message of the room has its row.
LEMMA ShownGrows ==
  ASSUME NEW v, NEW w, NEW rs, NEW r, NEW in, NEW un, Shown(v, w, rs, r, in, un),
         \A q \in rs : q.room # r, NEW i, i \notin in
  PROVE  Shown(v, w, rs, r, in \cup {i}, un \cup {i})
<1>1. (in \cup {i}) \ (un \cup {i}) = in \ un
  OBVIOUS
<1> QED
  BY <1>1 DEF Shown

LEMMA MessagesPost ==
  ASSUME ChatAssumption, PresenceInv, MessagesInv, NEW p \in Rooms, Post(p)
  PROVE  MessagesInv'
<1>0. PICK S : Shape(S)
  BY DEF PresenceInv, ChatShape
<1>1. PICK i \in Nat : i = Len(posted) + 1
  BY DEF MessagesInv, ChatRows
<1>2. /\ posted' = Append(posted, p) /\ unsent' = unsent \cup {i}
      /\ UNCHANGED <<members, tab, wire, reading>>
  BY <1>1 DEF Post
<1>3. /\ posted' \in Seq(Rooms) /\ DOMAIN posted' = DOMAIN posted \cup {i} /\ i \notin DOMAIN posted
      /\ posted'[i] = p /\ \A j \in DOMAIN posted : posted'[j] = posted[j]
  BY <1>1, <1>2 DEF MessagesInv, ChatRows
<1>4. unsent \subseteq DOMAIN posted
  BY DEF MessagesInv, ChatRows
<1>5. DOMAIN posted' \ unsent' = DOMAIN posted \ unsent
  BY <1>2, <1>3, <1>4
<1>6. Sent(wire, DOMAIN posted \ unsent)'
  BY <1>2, <1>5 DEF MessagesInv, Sent
<1>7. PICK B : B = {TabOf[q.socket] : q \in {k \in reading : k.room = p}}
  OBVIOUS
<1>8. readBeside' = readBeside \cup B
  BY <1>7 DEF Post
<1>9. \A q \in reading : q.room = p => TabOf[q.socket] \in B
  BY <1>7
<1>10. B \subseteq Tabs
  <2>1. \A q \in reading : q.socket \in Sockets
    BY DEF MessagesInv, ChatRows
  <2>2. \A q \in reading : TabOf[q.socket] \in Tabs
    BY <2>1 DEF ChatAssumption
  <2> QED
    BY <1>7, <2>2
<1>11. ChatRows'
  BY <1>2, <1>3, <1>8, <1>10 DEF MessagesInv, ChatRows
<1>12. ASSUME NEW k \in Tabs PROVE Inside(Rooming, k)'
  BY <1>2 DEF MessagesInv, Inside, Rooming
<1>13. ASSUME NEW k \in Watched PROVE ShownOne(Rooming, k)'
  <2>1. PICK s, r, v : s = tab[k].socket /\ r = tab[k].room /\ v = tab[k].view
    OBVIOUS
  <2>2. PICK w, rs, in, un : w = wire[s] /\ rs = Reads(s) /\ in = In(r) /\ un = In(r) \cap unsent
    OBVIOUS
  <2>3. SUFFICES ASSUME s # None, k \notin readBeside' PROVE Shown(v, w, rs, r, In(r)', In(r)' \cap unsent')
    BY <1>2, <2>1, <2>2 DEF ShownOne, Rooming, Reads
  <2>4. k \notin readBeside /\ k \notin B
    BY <1>8, <2>3
  <2>5. Shown(v, w, rs, r, in, un)
    BY <2>1, <2>2, <2>3, <2>4 DEF MessagesInv, ShownOne, Rooming
  <2>6. CASE r # p
    <3>1. In(r)' = in
      BY <1>3, <2>2, <2>6 DEF In
    <3>2. In(r)' \cap unsent' = un
      BY <1>2, <1>3, <2>2, <3>1 DEF In
    <3> QED
      BY <2>5, <3>1, <3>2
  <2>7. CASE r = p
    <3>1. In(r)' = in \cup {i} /\ i \notin in
      BY <1>3, <2>2, <2>7 DEF In
    <3>2. In(r)' \cap unsent' = un \cup {i}
      BY <1>2, <1>3, <2>2, <3>1 DEF In
    <3>3. TabOf[s] = k
      BY <2>1, <2>3 DEF PresenceInv, ChatShape, SocketsInv, ChatAssumption
    <3>4. \A q \in rs : q.room # r
      BY <1>9, <2>2, <2>4, <2>7, <3>3 DEF Reads
    <3> QED
      BY <2>5, <3>1, <3>2, <3>4, ShownGrows
  <2> QED
    BY <2>6, <2>7
<1> QED
  BY <1>6, <1>11, <1>12, <1>13 DEF MessagesInv

LEMMA MessagesSendOut ==
  ASSUME ChatAssumption, PresenceInv, MessagesInv, NEW i, SendOut(i)
  PROVE  MessagesInv'
<1>0. PICK S : Shape(S)
  BY DEF PresenceInv, ChatShape
<1>1. PICK e, p, ms :
        /\ e = [type |-> "message", id |-> i] /\ p = posted[i] /\ ms = members[p] \cap OpenSockets(socket)
  OBVIOUS
<1>2. /\ i \in unsent /\ members' = [members EXCEPT ![p] = ms] /\ wire' = BroadcastToRoom(wire, ms, e)
      /\ unsent' = unsent \ {i}
      /\ UNCHANGED <<socket, tab, posted, reading, readBeside>>
  BY <1>1 DEF SendOut, Cull
<1>3. e.type = "message" /\ e.id = i /\ i \in DOMAIN posted /\ unsent \subseteq DOMAIN posted
  BY <1>1, <1>2 DEF MessagesInv, ChatRows
<1>4. \A s \in Sockets : wire[s] \in Seq(S)
           /\ wire'[s] = IF s \in ms /\ socket[s] # "ghost" /\ TabOf[s] \in Watched THEN Append(wire[s], e) ELSE wire[s]
  BY <1>0, <1>2 DEF BroadcastToRoom, Shape
<1>5. ASSUME NEW s \in Sockets, NEW j \in DOMAIN wire'[s]
      PROVE  (j \in DOMAIN wire[s] /\ wire'[s][j] = wire[s][j]) \/ wire'[s][j] = e
  <2>1. CASE wire'[s] = wire[s]
    BY <1>5, <2>1
  <2>2. CASE wire'[s] = Append(wire[s], e)
    BY <1>4, <1>5, <2>2, AppendIs
  <2> QED
    BY <1>4, <2>1, <2>2
<1>6. Sent(wire, DOMAIN posted \ unsent)'
  <2>1. ASSUME NEW s \in Sockets, NEW j \in DOMAIN wire'[s], wire'[s][j].type = "message"
        PROVE  wire'[s][j].id \in DOMAIN posted \ (unsent \ {i})
    <3>1. CASE wire'[s][j] = e
      BY <1>3, <3>1
    <3>2. CASE j \in DOMAIN wire[s] /\ wire'[s][j] = wire[s][j]
      BY <2>1, <3>2 DEF MessagesInv, Sent
    <3> QED
      BY <1>5, <3>1, <3>2
  <2> QED
    BY <1>2, <2>1 DEF Sent
<1>7. ASSUME NEW k \in Tabs, tab[k].socket # None
      PROVE  /\ tab[k].socket \in Sockets /\ tab[k].room \in Rooms /\ TabOf[tab[k].socket] = k
             /\ socket[tab[k].socket] = "open" /\ tab[k].socket \in members[tab[k].room]
  BY <1>0, <1>7 DEF PresenceInv, ChatShape, SocketsInv, MessagesInv, Inside, Rooming, Shape
<1>8. ASSUME NEW k \in Tabs PROVE Inside(Rooming, k)'
  <2>1. tab[k].socket # None => tab[k].socket \in members'[tab[k].room]
    BY <1>0, <1>1, <1>2, <1>7 DEF OpenSockets, Shape
  <2> QED
    BY <1>2, <2>1 DEF Inside, Rooming
<1>9. ASSUME NEW k \in Watched PROVE ShownOne(Rooming, k)'
  <2>1. PICK s, r, v : s = tab[k].socket /\ r = tab[k].room /\ v = tab[k].view
    OBVIOUS
  <2>2. PICK w, rs, in, un : w = wire[s] /\ rs = Reads(s) /\ in = In(r) /\ un = In(r) \cap unsent
    OBVIOUS
  <2>3. SUFFICES ASSUME s # None, k \notin readBeside PROVE Shown(v, wire'[s], rs, r, in, in \cap unsent')
    <3>1. Reads(s)' = rs /\ In(r)' = in
      BY <1>2, <2>2 DEF Reads, In
    <3> QED
      BY <1>2, <2>1, <2>2, <3>1 DEF ShownOne, Rooming
  <2>4. Shown(v, w, rs, r, in, un)
    BY <2>1, <2>2, <2>3 DEF MessagesInv, ShownOne, Rooming
  <2>5. /\ s \in Sockets /\ r \in Rooms /\ TabOf[s] = k /\ socket[s] = "open" /\ s \in members[r]
        /\ w \in Seq(S)
    BY <1>4, <1>7, <2>1, <2>2, <2>3 DEF ChatAssumption
  <2>6. \A j \in DOMAIN w : w[j].type = "message" => w[j].id # i
    BY <1>2, <2>2, <2>5 DEF MessagesInv, Sent
  <2>7. CASE p = r
    <3>1. i \in in /\ i \in un
      BY <1>1, <1>2, <1>3, <2>2, <2>7 DEF In
    <3>2. in \cap unsent' = un \ {i}
      BY <1>2, <2>2
    <3>3. s \in ms
      BY <1>1, <2>5, <2>7 DEF OpenSockets
    <3>4. wire'[s] = Append(w, e)
      BY <1>4, <2>2, <2>5, <3>3
    <3> QED
      BY <1>3, <2>4, <2>5, <2>6, <3>1, <3>2, <3>4, ShownPosted
  <2>8. CASE p # r
    <3>1. i \notin in
      BY <1>1, <2>2, <2>8 DEF In
    <3>2. in \cap unsent' = un
      BY <1>2, <2>2, <3>1
    <3>3. Shown(v, Append(w, e), rs, r, in, un)
      <4>1. ~Posts(e, in \ un) /\ e.type # "history"
        BY <1>3, <3>1 DEF Posts
      <4> QED
        BY <2>4, <2>5, <4>1, ShownLater
    <3>4. wire'[s] = w \/ wire'[s] = Append(w, e)
      BY <1>4, <2>2, <2>5
    <3> QED
      BY <2>4, <3>2, <3>3, <3>4
  <2> QED
    BY <2>7, <2>8
<1>10. ChatRows'
  BY <1>2 DEF MessagesInv, ChatRows
<1> QED
  BY <1>6, <1>8, <1>9, <1>10 DEF MessagesInv

LEMMA MessagesAnnounce ==
  ASSUME ChatAssumption, PresenceInv, MessagesInv, NEW p \in Rooms, Announce(p)
  PROVE  MessagesInv'
<1>0. PICK S : Shape(S)
  BY DEF PresenceInv, ChatShape
<1>1. /\ members' = [members EXCEPT ![p] = members[p] \cap OpenSockets(socket)]
      /\ UNCHANGED <<socket, tab, wire, posted, unsent, reading, readBeside>>
  BY DEF Announce, Cull
<1>2. ASSUME NEW k \in Tabs, tab[k].socket # None
      PROVE  /\ tab[k].socket \in Sockets /\ tab[k].room \in Rooms
             /\ socket[tab[k].socket] = "open" /\ tab[k].socket \in members[tab[k].room]
  BY <1>0, <1>2 DEF PresenceInv, ChatShape, SocketsInv, MessagesInv, Inside, Rooming, Shape
<1>3. ASSUME NEW k \in Tabs PROVE Inside(Rooming, k)'
  <2>1. tab[k].socket # None => tab[k].socket \in members'[tab[k].room]
    BY <1>0, <1>1, <1>2 DEF OpenSockets, Shape
  <2> QED
    BY <1>1, <2>1 DEF Inside, Rooming
<1>4. \A k \in Watched : ShownOne(Rooming, k)'
  BY <1>1, ShownKeeps DEF MessagesInv
<1>5. ChatRows' /\ Sent(wire, DOMAIN posted \ unsent)'
  BY <1>1 DEF ChatRows, MessagesInv, Sent
<1> QED
  BY <1>3, <1>4, <1>5 DEF MessagesInv

LEMMA MessagesQuery ==
  ASSUME ChatAssumption, PresenceInv, MessagesInv, NEW q, Query(q)
  PROVE  MessagesInv'
<1>0. PICK S : Shape(S)
  BY DEF PresenceInv, ChatShape
<1>1. PICK a : a = [q EXCEPT !.state = "answer", !.found = In(q.room)]
  OBVIOUS
<1>2. /\ q \in reading /\ reading' = (reading \ {q}) \cup {a}
      /\ UNCHANGED <<members, tab, wire, posted, unsent, readBeside>>
  BY <1>1 DEF Query
<1>3. In(q.room) \in SUBSET Nat
  BY DEF In, MessagesInv, ChatRows
<1>4. q \in [socket: Sockets, room: Rooms, state: {"query", "answer"}, found: SUBSET Nat]
  BY <1>2 DEF MessagesInv, ChatRows
<1>5. /\ a \in [socket: Sockets, room: Rooms, state: {"query", "answer"}, found: SUBSET Nat]
      /\ a.socket = q.socket /\ a.room = q.room /\ a.found = In(q.room)
  BY <1>1, <1>3, <1>4
<1>6. ChatRows'
  BY <1>2, <1>5 DEF MessagesInv, ChatRows
<1>7. Sent(wire, DOMAIN posted \ unsent)' /\ \A k \in Tabs : Inside(Rooming, k)'
  BY <1>2 DEF MessagesInv, Sent, Inside, Rooming
<1>8. ASSUME NEW k \in Watched PROVE ShownOne(Rooming, k)'
  <2>1. PICK s, r, v : s = tab[k].socket /\ r = tab[k].room /\ v = tab[k].view
    OBVIOUS
  <2>2. PICK w, rs, in, un : w = wire[s] /\ rs = Reads(s) /\ in = In(r) /\ un = In(r) \cap unsent
    OBVIOUS
  <2>3. SUFFICES ASSUME s # None, k \notin readBeside PROVE Shown(v, w, Reads(s)', r, in, un)
    <3>1. In(r)' = in
      BY <1>2, <2>2 DEF In
    <3> QED
      BY <1>2, <2>1, <2>2, <3>1 DEF ShownOne, Rooming
  <2>4. Shown(v, w, rs, r, in, un)
    BY <2>1, <2>2, <2>3 DEF MessagesInv, ShownOne, Rooming
  <2>5. CASE q.socket # s
    <3>1. Reads(s)' = rs
      BY <1>2, <1>5, <2>2, <2>5 DEF Reads
    <3> QED
      BY <2>4, <3>1
  <2>6. CASE q.socket = s
    <3>1. q \in rs
      BY <1>2, <2>2, <2>6 DEF Reads
    <3>2. rs = {q} /\ q.room = r /\ un = {} /\ \A j \in DOMAIN w : w[j].type # "history"
      BY <2>4, <3>1 DEF Shown
    <3>3. Reads(s)' = {a}
      BY <1>2, <1>5, <2>2, <2>6, <3>2 DEF Reads
    <3>4. a.room = r /\ a.found = in
      BY <1>5, <2>2, <3>2
    <3>5. Shown(v, w, {a}, r, in, un)
      BY <3>2, <3>4 DEF Shown
    <3> QED
      BY <3>3, <3>5
  <2> QED
    BY <2>5, <2>6
<1> QED
  BY <1>6, <1>7, <1>8 DEF MessagesInv

LEMMA MessagesAnswer ==
  ASSUME ChatAssumption, PresenceInv, MessagesInv, NEW q, Answer(q)
  PROVE  MessagesInv'
<1>0. PICK S : Shape(S)
  BY DEF PresenceInv, ChatShape
<1>1. PICK e : e = [type |-> "history", messages |-> ByTime(q.found)]
  OBVIOUS
<1>2. /\ q \in reading /\ q.state = "answer" /\ reading' = reading \ {q}
      /\ wire' = BroadcastToRoom(wire, {q.socket}, e)
      /\ UNCHANGED <<socket, members, tab, posted, unsent, readBeside>>
  BY <1>1 DEF Answer
<1>3. e.type = "history" /\ e.messages = ByTime(q.found)
  BY <1>1
<1>4. \A s \in Sockets : wire[s] \in Seq(S)
           /\ wire'[s] = IF s = q.socket /\ socket[s] # "ghost" /\ TabOf[s] \in Watched THEN Append(wire[s], e) ELSE wire[s]
  BY <1>0, <1>2 DEF BroadcastToRoom, Shape
<1>5. ASSUME NEW s \in Sockets, NEW j \in DOMAIN wire'[s]
      PROVE  (j \in DOMAIN wire[s] /\ wire'[s][j] = wire[s][j]) \/ wire'[s][j] = e
  <2>1. CASE wire'[s] = wire[s]
    BY <1>5, <2>1
  <2>2. CASE wire'[s] = Append(wire[s], e)
    BY <1>4, <1>5, <2>2, AppendIs
  <2> QED
    BY <1>4, <2>1, <2>2
<1>6. Sent(wire, DOMAIN posted \ unsent)'
  BY <1>2, <1>3, <1>5 DEF MessagesInv, Sent
<1>7. \A k \in Tabs : Inside(Rooming, k)'
  BY <1>2 DEF MessagesInv, Inside, Rooming
<1>8. ChatRows'
  BY <1>2 DEF MessagesInv, ChatRows
<1>9. ASSUME NEW k \in Watched PROVE ShownOne(Rooming, k)'
  <2>1. PICK s, r, v : s = tab[k].socket /\ r = tab[k].room /\ v = tab[k].view
    OBVIOUS
  <2>2. PICK w, rs, in, un : w = wire[s] /\ rs = Reads(s) /\ in = In(r) /\ un = In(r) \cap unsent
    OBVIOUS
  <2>3. SUFFICES ASSUME s # None, k \notin readBeside PROVE Shown(v, wire'[s], Reads(s)', r, in, un)
    <3>1. In(r)' = in
      BY <1>2, <2>2 DEF In
    <3> QED
      BY <1>2, <2>1, <2>2, <3>1 DEF ShownOne, Rooming
  <2>4. Shown(v, w, rs, r, in, un)
    BY <2>1, <2>2, <2>3 DEF MessagesInv, ShownOne, Rooming
  <2>5. s \in Sockets /\ TabOf[s] = k /\ socket[s] = "open" /\ w \in Seq(S)
    BY <1>0, <1>4, <2>1, <2>2, <2>3 DEF PresenceInv, ChatShape, SocketsInv, Shape, ChatAssumption
  <2>6. CASE q.socket # s
    <3>1. Reads(s)' = rs /\ wire'[s] = w
      BY <1>2, <1>4, <2>2, <2>5, <2>6 DEF Reads
    <3> QED
      BY <2>4, <3>1
  <2>7. CASE q.socket = s
    <3>1. q \in rs
      BY <1>2, <2>2, <2>7 DEF Reads
    <3>2. rs = {q}
      BY <2>4, <3>1 DEF Shown
    <3>3. Reads(s)' = {}
      BY <1>2, <2>2, <2>7, <3>2 DEF Reads
    <3>4. wire'[s] = Append(w, e)
      BY <1>4, <2>2, <2>5, <2>7
    <3>5. PICK b \in Nat : in \in SUBSET (0..b)
      <4>1. in \in SUBSET (0..Len(posted)) /\ Len(posted) \in Nat
        BY <2>2 DEF MessagesInv, ChatRows, In
      <4> QED
        BY <4>1
    <3>6. Shown(v, w, {q}, r, in, un)
      BY <2>4, <3>2
    <3>7. Shown(v, Append(w, e), {}, r, in, un)
      BY <1>2, <1>3, <2>5, <3>5, <3>6, ShownAnswered
    <3> QED
      BY <3>3, <3>4, <3>7
  <2> QED
    BY <2>6, <2>7
<1> QED
  BY <1>6, <1>7, <1>8, <1>9 DEF MessagesInv

LEMMA MessagesStay ==
  ASSUME MessagesInv, UNCHANGED <<members, tab, wire, posted, unsent, reading, readBeside>>
  PROVE  MessagesInv'
<1>1. \A k \in Watched : ShownOne(Rooming, k)'
  BY ShownKeeps DEF MessagesInv
<1>2. ChatRows' /\ Sent(wire, DOMAIN posted \ unsent)' /\ \A k \in Tabs : Inside(Rooming, k)'
  BY DEF MessagesInv, ChatRows, Sent, Inside, Rooming
<1> QED
  BY <1>1, <1>2 DEF MessagesInv

LEMMA MessagesClosing ==
  ASSUME ChatAssumption, PresenceInv, MessagesInv, NEW s \in Sockets, OnClose(s)
  PROVE  MessagesInv'
<1>0. PICK S : Shape(S)
  BY DEF PresenceInv, ChatShape
<1>1. /\ socket[s] = "closing" /\ UNCHANGED <<tab, posted, unsent, reading, readBeside>>
      /\ \/ UNCHANGED <<members, wire, culled>>
         \/ \E r \in Rooms : RoomingIs(Left(Rooming, r, s))
  BY DEF OnClose
<1>2. CASE UNCHANGED <<members, wire, culled>>
  BY <1>1, <1>2, MessagesStay
<1>3. ASSUME NEW r \in Rooms, RoomingIs(Left(Rooming, r, s)) PROVE MessagesInv'
  <2>1. PICK after : after = Left(Rooming, r, s)
    OBVIOUS
  <2>2. SocketsInv /\ Watched \subseteq Tabs
    BY DEF PresenceInv, ChatShape, ChatAssumption
  <2>3. Leaves(after, s) /\ RoomingIs(after)
    BY <1>0, <1>3, <2>1, <2>2, LeftKeeps
  <2>4. \A u \in Tabs : tab[u].socket # None => tab[u].socket # s
    BY <1>1, <2>2 DEF SocketsInv
  <2>5. ASSUME NEW u \in Tabs PROVE Inside(Rooming, u)'
    BY <1>1, <2>3, <2>4 DEF Leaves, Inside, Rooming, RoomingIs
  <2>6. ASSUME NEW u \in Watched PROVE ShownOne(Rooming, u)'
    <3>1. tab[u].socket # None => Reads(tab[u].socket)' = Reads(tab[u].socket)
      BY <1>1 DEF Reads
    <3> QED
      BY <1>1, <2>3, <3>1, ShownStays DEF Leaves
  <2>7. ChatRows' /\ Sent(wire, DOMAIN posted \ unsent)'
    BY <1>1, <2>3 DEF Leaves, RoomingIs, ChatRows, MessagesInv, Sent
  <2> QED
    BY <2>5, <2>6, <2>7 DEF MessagesInv
<1> QED
  BY <1>1, <1>2, <1>3

LEMMA MessagesInductive ==
  ASSUME ChatAssumption
  PROVE  PresenceInv /\ MessagesInv /\ [ChatNext]_chatVars => MessagesInv'
<1> SUFFICES ASSUME PresenceInv, MessagesInv, [ChatNext]_chatVars
             PROVE  MessagesInv'
  OBVIOUS
<1>1. ASSUME NEW t \in Tabs, ConnectTab(t) PROVE MessagesInv'
  BY <1>1, MessagesConnect
<1>2. ASSUME NEW t \in Tabs, NEW r \in Rooms, SetActiveRoom(t, r) PROVE MessagesInv'
  BY <1>2, MessagesActiveRoom
<1>3. ASSUME NEW t \in Tabs, DisconnectTab(t) PROVE MessagesInv'
  BY <1>3, MessagesDisconnect
<1>4. ASSUME NEW t \in Tabs, Deliver(t) PROVE MessagesInv'
  BY <1>4, MessagesDeliver
<1>5. ASSUME NEW r \in Rooms, Post(r) PROVE MessagesInv'
  BY <1>5, MessagesPost
<1>6. ASSUME NEW i, SendOut(i) PROVE MessagesInv'
  BY <1>6, MessagesSendOut
<1>7. ASSUME NEW q, Query(q) PROVE MessagesInv'
  BY <1>7, MessagesQuery
<1>8. ASSUME NEW q, Answer(q) PROVE MessagesInv'
  BY <1>8, MessagesAnswer
<1>9. ASSUME NEW s \in Sockets, Detect(s) PROVE MessagesInv'
  BY <1>9, MessagesStay DEF Detect
<1>10. ASSUME NEW s \in Sockets, OnClose(s) PROVE MessagesInv'
  BY <1>10, MessagesClosing
<1>11. ASSUME NEW r \in Rooms, Announce(r) PROVE MessagesInv'
  BY <1>11, MessagesAnnounce
<1>12. CASE UNCHANGED chatVars
  BY <1>12, MessagesStay DEF chatVars
<1>13. CASE ChatServerStep
  BY <1>6, <1>7, <1>8, <1>9, <1>10, <1>13, <1>11 DEF ChatServerStep
<1>14. CASE ChatNext
  BY <1>1, <1>2, <1>3, <1>4, <1>5, <1>13, <1>14 DEF ChatNext
<1> QED
  BY <1>12, <1>14

LEMMA MessagesBegin ==
  ASSUME ChatAssumption
  PROVE  ChatInit => MessagesInv
<1> SUFFICES ASSUME ChatInit
             PROVE  MessagesInv
  OBVIOUS
<1>1. \A t \in Tabs : tab[t].socket = None
  BY DEF ChatInit
<1>2. \A t \in Tabs : Inside(Rooming, t) /\ ShownOne(Rooming, t)
  BY <1>1 DEF Inside, ShownOne
<1>3. <<>> \in Seq(Rooms) /\ \A j : j \notin DOMAIN <<>>
  OBVIOUS
<1>4. ChatRows
  BY <1>3 DEF ChatInit, ChatRows
<1>5. Sent(wire, DOMAIN posted \ unsent)
  BY <1>3 DEF ChatInit, Sent
<1> QED
  BY <1>2, <1>4, <1>5 DEF MessagesInv, ChatAssumption

LEMMA MessagesShow ==
  ASSUME ChatAssumption
  PROVE  MessagesInv => MessagesSettle
<1> SUFFICES ASSUME MessagesInv, NEW t \in Watched \ readBeside, Settled(t),
                    Reads(tab[t].socket) = {}, \A i \in unsent : posted[i] # tab[t].room
             PROVE  /\ ToSet(tab[t].view.shown) = In(tab[t].room)
                    /\ IsInjective(tab[t].view.shown)
  BY DEF MessagesSettle
<1>1. PICK s, r, v, in : s = tab[t].socket /\ r = tab[t].room /\ v = tab[t].view /\ in = In(r)
  OBVIOUS
<1>2. s # None /\ wire[s] = <<>> /\ in \cap unsent = {}
  BY <1>1 DEF Settled, In
<1>3. Shown(v, <<>>, {}, r, in, {})
  BY <1>1, <1>2 DEF MessagesInv, ShownOne, Rooming
<1>4. \A j : j \notin DOMAIN <<>>
  OBVIOUS
<1>5. Bring(v.shown, <<>>, 0, in)
  <2>1. in \ {} = in
    OBVIOUS
  <2> QED
    BY <1>3, <1>4, <2>1 DEF Shown
<1>6. v.shown \in Seq(in) /\ IsInjective(v.shown) /\ \A m \in in : \E x \in DOMAIN v.shown : v.shown[x] = m
  BY <1>4, <1>5 DEF Bring
<1>7. \A x \in DOMAIN v.shown : v.shown[x] \in in
  BY <1>6
<1>8. ToSet(v.shown) = in
  BY <1>6, <1>7 DEF ToSet
<1> QED
  BY <1>1, <1>6, <1>8

\* For any tabs, rooms and connections: a tab that has received all there is shows
\* every message of its room once, whatever it missed while it was away, unless its
\* join ran beside a post or another read of its own (routes/chat.routes.ts join and
\* message, with SET_HISTORY and ADD_MESSAGE in contexts/chat-context.tsx).
THEOREM MessagesShown ==
  ASSUME ChatAssumption
  PROVE  ChatSpec => []MessagesSettle
<1>1. ChatInit => PresenceInv /\ MessagesInv
  BY PresenceBegins, MessagesBegin
<1>2. PresenceInv /\ [ChatNext]_chatVars => PresenceInv'
  BY PresenceInductive
<1>3. PresenceInv /\ MessagesInv /\ [ChatNext]_chatVars => MessagesInv'
  BY MessagesInductive
<1>4. MessagesInv => MessagesSettle
  BY MessagesShow
<1> QED
  BY <1>1, <1>2, <1>3, <1>4, PTL DEF ChatSpec
==============================================================================
