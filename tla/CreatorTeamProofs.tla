-------------------------- MODULE CreatorTeamProofs ---------------------------
(***************************************************************************)
(* Theorems about CreatorTeam for any number of people, invites and        *)
(* requests that overlap, with failures of the mail and crashes.           *)
(***************************************************************************)
EXTENDS CreatorTeam, FiniteSetTheorems, TLAPS

Ranks == Roles \cup {None}

AcceptSteps == {"validate", "profile", "owner", "member", "mark"}
OtherSteps  == {"idle", "permission", "existing", "count", "write", "insert", "mail"}

TeamCallRecords ==
    [op: {"none", "add", "patch", "remove", "ownerInvite", "teamInvite", "accept"},
     step: AcceptSteps \cup OtherSteps, by: People \cup {None}, user: People \cup {None},
     role: Ranks, invite: Nat, creator: Nat]

InviteRecords ==
    [type: {"none", "add", "patch", "remove", "ownerInvite", "teamInvite", "accept"},
     email: People \cup {None}, role: Ranks, mailed: BOOLEAN, expired: BOOLEAN,
     accepted: BOOLEAN, effects: Nat, muddled: BOOLEAN]

\* The invariant needs no more of the creators than that they are listed.
Listed(s) == \E T : s \in Seq(T)

TeamShapes ==
    /\ Listed(creators)
    /\ invites \in Seq(InviteRecords)
    /\ teamCall \in [TeamCalls -> TeamCallRecords]

\* Only an acceptance takes the steps of one, and it is one of an invite.
CallOK(r, n) ==
    /\ r.step \in AcceptSteps => r.op = "accept"
    /\ r.op = "accept" => r.invite \in 1..n /\ r.step \in AcceptSteps

\* What an invite that is not muddled has had done for it: nothing before the one call
\* that accepts it writes, one effect at most after, and none goes on once it is marked.
InviteOK(i) ==
    ~invites[i].muddled =>
        /\ invites[i].effects <= 1
        /\ \A k, l \in Accepting(i) : k = l
        /\ \A k \in Accepting(i) : teamCall[k].step \in {"profile", "member"}
                                      => invites[i].effects = 0
        /\ Accepting(i) = {} => invites[i].effects = 0 \/ invites[i].accepted
        /\ invites[i].accepted => Accepting(i) = {}

OnceInv ==
    /\ TeamShapes
    /\ \A k \in TeamCalls : CallOK(teamCall[k], Len(invites))
    /\ \A i \in DOMAIN invites : InviteOK(i)

\* What a step may make of an invite that is there.
Same(new, old) ==
    /\ new.effects = old.effects /\ new.accepted = old.accepted
    /\ old.muddled => new.muddled

\* A step that is not one of an acceptance leaves what was done for the invites alone.
LEMMA OthersKeep ==
    ASSUME OnceInv, TeamShapes', NEW k \in TeamCalls, NEW r \in TeamCallRecords,
           teamCall' = [teamCall EXCEPT ![k] = r],
           teamCall[k].op # "accept" \/ teamCall[k].step = "validate",
           r.op # "accept" \/ (r.step = "validate" /\ r.invite \in DOMAIN invites'),
           r.step \in AcceptSteps => r.op = "accept",
           DOMAIN invites \subseteq DOMAIN invites',
           \A i \in DOMAIN invites : Same(invites'[i], invites[i]),
           \A i \in DOMAIN invites' \ DOMAIN invites : invites'[i].effects = 0 /\ ~invites'[i].accepted
    PROVE  OnceInv'
  <1>1. ASSUME NEW l \in TeamCalls  PROVE CallOK(teamCall'[l], Len(invites'))
    BY DEF OnceInv, CallOK, TeamShapes, AcceptSteps
  <1>2. \A i : Accepting(i)' = Accepting(i)
    BY DEF Accepting, OnceInv, TeamShapes
  <1>3. ASSUME NEW i \in DOMAIN invites  PROVE InviteOK(i)'
    <2>1. \A l \in Accepting(i) : teamCall'[l] = teamCall[l]
      BY DEF Accepting, OnceInv, TeamShapes
    <2>. QED  BY <1>2, <2>1 DEF OnceInv, InviteOK, Same
  <1>4. ASSUME NEW i \in DOMAIN invites' \ DOMAIN invites  PROVE InviteOK(i)'
    <2>1. Accepting(i) = {}
      BY DEF Accepting, OnceInv, TeamShapes, CallOK
    <2>. QED  BY <1>2, <2>1 DEF InviteOK
  <1>. QED  BY <1>1, <1>3, <1>4 DEF OnceInv

-----------------------------------------------------------------------------
(* What the steps make of a request and of an invite *)

LEMMA ProceedIs ==
    ASSUME TeamShapes, NEW k \in TeamCalls, NEW s \in AcceptSteps \cup OtherSteps, Proceed(k, s)
    PROVE  \E r \in TeamCallRecords :
               /\ teamCall' = [teamCall EXCEPT ![k] = r] /\ r.step = s
               /\ r.op = teamCall[k].op /\ r.invite = teamCall[k].invite
               /\ r.by = teamCall[k].by /\ r.user = teamCall[k].user
  <1>. DEFINE c == teamCall[k]
              r == [c EXCEPT !.step = s]
  <1>1. c \in TeamCallRecords  BY DEF TeamShapes
  <1>2. r \in TeamCallRecords /\ r.step = s /\ r.op = c.op /\ r.invite = c.invite
          /\ r.by = c.by /\ r.user = c.user
    BY <1>1 DEF TeamCallRecords
  <1>3. teamCall' = [teamCall EXCEPT ![k] = r]  BY DEF Proceed
  <1>. HIDE DEF r
  <1>. QED  BY <1>2, <1>3

LEMMA NoCallIs ==
    /\ NoTeamCall \in TeamCallRecords /\ NoTeamCall.op = "none" /\ NoTeamCall.step = "idle"
    /\ NoTeamCall.step \notin AcceptSteps
  BY DEF NoTeamCall, TeamCallRecords, OtherSteps, AcceptSteps, Ranks

\* One invite is written.
LEMMA InviteWritten ==
    ASSUME TeamShapes, NEW i \in DOMAIN invites, NEW v \in InviteRecords,
           NEW is, is = [invites EXCEPT ![i] = v]
    PROVE  /\ is \in Seq(InviteRecords) /\ DOMAIN is = DOMAIN invites /\ is[i] = v
           /\ Len(is) = Len(invites)
           /\ \A j \in DOMAIN invites : j # i => is[j] = invites[j]
  BY DEF TeamShapes

LEMMA InviteFields ==
    ASSUME NEW v \in InviteRecords, NEW b \in BOOLEAN, NEW n \in Nat
    PROVE  /\ [v EXCEPT !.mailed = TRUE] \in InviteRecords
           /\ Same([v EXCEPT !.mailed = TRUE], v)
           /\ [v EXCEPT !.expired = TRUE] \in InviteRecords
           /\ Same([v EXCEPT !.expired = TRUE], v)
           /\ [v EXCEPT !.muddled = b] \in InviteRecords
           /\ [v EXCEPT !.muddled = b].muddled = b
           /\ [v EXCEPT !.muddled = b].effects = v.effects
           /\ [v EXCEPT !.muddled = b].accepted = v.accepted
           /\ [v EXCEPT !.effects = n] \in InviteRecords
           /\ [v EXCEPT !.effects = n].effects = n
           /\ [v EXCEPT !.effects = n].muddled = v.muddled
           /\ [v EXCEPT !.effects = n].accepted = v.accepted
           /\ [v EXCEPT !.accepted = TRUE] \in InviteRecords
           /\ [v EXCEPT !.accepted = TRUE].accepted = TRUE
           /\ [v EXCEPT !.accepted = TRUE].effects = v.effects
           /\ [v EXCEPT !.accepted = TRUE].muddled = v.muddled
  BY DEF InviteRecords, Same

-----------------------------------------------------------------------------
(* Requests that are not acceptances, and acceptances that end at once *)

\* The request is over, or at another step, and no invite is written.
LEMMA QuietStep ==
    ASSUME OnceInv, NEW k \in TeamCalls, UNCHANGED invites,
           Listed(creators'),
           \/ /\ End(k)
              /\ teamCall[k].op # "accept" \/ teamCall[k].step = "validate"
           \/ /\ teamCall[k].op # "accept"
              /\ \E s \in OtherSteps : Proceed(k, s)
    PROVE  OnceInv'
  <1>. DEFINE Fits(r) == /\ r \in TeamCallRecords /\ r.op # "accept"
                         /\ r.step \notin AcceptSteps
                         /\ teamCall' = [teamCall EXCEPT ![k] = r]
  <1>1. \E r : Fits(r)
    <2>1. CASE End(k)  BY <2>1, NoCallIs DEF End
    <2>2. CASE teamCall[k].op # "accept" /\ \E s \in OtherSteps : Proceed(k, s)
      <3>1. \A s \in OtherSteps : s \in AcceptSteps \cup OtherSteps /\ s \notin AcceptSteps
        BY DEF OtherSteps, AcceptSteps
      <3>. QED  BY <2>2, <3>1, ProceedIs DEF OnceInv
    <2>. QED  BY <2>1, <2>2
  <1>2. PICK r : Fits(r)  BY <1>1
  <1>3. TeamShapes'  BY <1>2 DEF OnceInv, TeamShapes
  <1>4. \A i \in DOMAIN invites : Same(invites'[i], invites[i])  BY DEF Same
  <1>. QED  BY <1>2, <1>3, <1>4, OthersKeep

LEMMA OnceAsk ==
    ASSUME OnceInv, NEW k \in TeamCalls, NEW r \in TeamCallRecords, teamCall[k] = NoTeamCall,
           teamCall' = [teamCall EXCEPT ![k] = r], UNCHANGED <<creators, invites>>,
           \/ r.op # "accept" /\ r.step \notin AcceptSteps
           \/ r.op = "accept" /\ r.step = "validate" /\ r.invite \in DOMAIN invites
    PROVE  OnceInv'
  <1>1. TeamShapes'  BY DEF OnceInv, TeamShapes
  <1>2. \A i \in DOMAIN invites : Same(invites'[i], invites[i])  BY DEF Same
  <1>3. teamCall[k].op # "accept"  BY NoCallIs
  <1>. QED  BY <1>1, <1>2, <1>3, OthersKeep

LEMMA OnceRequest ==
    ASSUME OnceInv, NEW k \in TeamCalls, TeamRequest(k)  PROVE OnceInv'
  <1>1. ASSUME NEW by \in People, NEW i \in DOMAIN invites, RequestAccept(k, by, i)
        PROVE  OnceInv'
    <2>. DEFINE r == [[NoTeamCall EXCEPT !.op = "accept", !.by = by, !.invite = i]
                        EXCEPT !.step = "validate"]
    <2>1. i \in Nat  BY DEF OnceInv, TeamShapes
    <2>2. /\ r \in TeamCallRecords /\ r.op = "accept" /\ r.step = "validate" /\ r.invite = i
      BY <2>1 DEF NoTeamCall, TeamCallRecords, Ranks, AcceptSteps
    <2>3. /\ teamCall' = [teamCall EXCEPT ![k] = r] /\ teamCall[k] = NoTeamCall
          /\ UNCHANGED <<creators, invites>>
      BY <1>1 DEF RequestAccept, Ask
    <2>. HIDE DEF r
    <2>. QED  BY <1>1, <2>2, <2>3, OnceAsk
  <1>2. ASSUME NEW by \in People, NEW u \in People, NEW role \in Ranks,
               NEW op \in {"add", "patch", "remove", "teamInvite"},
               RequestChange(k, by, op, u, role)
        PROVE  OnceInv'
    <2>. DEFINE r == [[NoTeamCall EXCEPT !.op = op, !.by = by, !.user = u, !.role = role]
                        EXCEPT !.step = "permission"]
    <2>1. r \in TeamCallRecords /\ r.op # "accept" /\ r.step \notin AcceptSteps
      BY DEF NoTeamCall, TeamCallRecords, Ranks, AcceptSteps, OtherSteps
    <2>2. /\ teamCall' = [teamCall EXCEPT ![k] = r] /\ teamCall[k] = NoTeamCall
          /\ UNCHANGED <<creators, invites>>
      BY <1>2 DEF RequestChange, Ask
    <2>. HIDE DEF r
    <2>. QED  BY <2>1, <2>2, OnceAsk
  <1>3. ASSUME NEW by \in People, NEW u \in People, RequestOwnerInvite(k, by, u)
        PROVE  OnceInv'
    <2>. DEFINE r == [[NoTeamCall EXCEPT !.op = "ownerInvite", !.by = by, !.user = u,
                                         !.role = "owner"] EXCEPT !.step = "insert"]
    <2>1. r \in TeamCallRecords /\ r.op # "accept" /\ r.step \notin AcceptSteps
      BY DEF NoTeamCall, TeamCallRecords, Ranks, Roles, AcceptSteps, OtherSteps
    <2>2. /\ teamCall' = [teamCall EXCEPT ![k] = r] /\ teamCall[k] = NoTeamCall
          /\ UNCHANGED <<creators, invites>>
      BY <1>3 DEF RequestOwnerInvite, Ask
    <2>. HIDE DEF r
    <2>. QED  BY <2>1, <2>2, OnceAsk
  <1>4. Roles \subseteq Ranks /\ None \in Ranks  BY DEF Ranks
  <1>. QED  BY <1>1, <1>2, <1>3, <1>4 DEF TeamRequest

\* A call at a step of another request is not an acceptance.
LEMMA NotAccepting ==
    ASSUME OnceInv, NEW k \in TeamCalls, teamCall[k].step \in OtherSteps
    PROVE  teamCall[k].op # "accept"
  BY DEF OnceInv, CallOK, OtherSteps, AcceptSteps

LEMMA OnceLooks ==
    ASSUME OnceInv, NEW k \in TeamCalls, Permission(k) \/ Existing(k) \/ CountOwners(k)
    PROVE  OnceInv'
  <1>1. teamCall[k].op # "accept"
    BY NotAccepting DEF Permission, Existing, CountOwners, OtherSteps
  <1>2. /\ UNCHANGED invites /\ Listed(creators')
        /\ End(k) \/ \E s \in OtherSteps : Proceed(k, s)
    BY DEF Permission, Existing, CountOwners, OtherSteps, OnceInv, TeamShapes
  <1>. QED  BY <1>1, <1>2, QuietStep

\* A list that is written at one place is a list.
LEMMA ListWritten ==
    ASSUME NEW list, Listed(list), NEW c, NEW v
    PROVE  Listed([list EXCEPT ![c] = v]) /\ Listed(Append(list, v))
  <1>1. PICK T : list \in Seq(T)  BY DEF Listed
  <1>2. list \in Seq(T \cup {v})  BY <1>1
  <1>3. [list EXCEPT ![c] = v] \in Seq(T \cup {v})
    <2>1. CASE c \in DOMAIN list  BY <1>2, <2>1
    <2>2. CASE c \notin DOMAIN list
      <3>1. [list EXCEPT ![c] = v] = list  BY <1>2, <2>2
      <3>. QED  BY <1>2, <3>1
    <2>. QED  BY <2>1, <2>2
  <1>4. Append(list, v) \in Seq(T \cup {v})  BY <1>2
  <1>. QED  BY <1>3, <1>4 DEF Listed

LEMMA OnceWriteMember ==
    ASSUME OnceInv, NEW k \in TeamCalls, WriteMember(k)  PROVE OnceInv'
  <1>1. teamCall[k].op # "accept" /\ End(k) /\ UNCHANGED invites
    BY NotAccepting DEF WriteMember, OtherSteps
  <1>2. PICK x : creators' = [creators EXCEPT ![1].members[teamCall[k].user] = x]
    BY DEF WriteMember
  <1>3. creators' = [creators EXCEPT ![1] =
                        [creators[1] EXCEPT !.members[teamCall[k].user] = x]]
    BY <1>2
  <1>4. Listed(creators')  BY <1>3, ListWritten DEF OnceInv, TeamShapes
  <1>. QED  BY <1>1, <1>4, QuietStep

\* A new invite has had no effect and is not accepted.
LEMMA OnceInsertInvite ==
    ASSUME OnceInv, NEW k \in TeamCalls, InsertInvite(k)  PROVE OnceInv'
  <1>. DEFINE c == teamCall[k]
              n == Len(invites) + 1
              v == [type |-> c.op, email |-> c.user, role |-> c.role, mailed |-> FALSE,
                    expired |-> FALSE, accepted |-> FALSE, effects |-> 0, muddled |-> FALSE]
              r == [c EXCEPT !.step = "mail", !.invite = n]
  <1>1. c \in TeamCallRecords /\ invites \in Seq(InviteRecords)  BY DEF OnceInv, TeamShapes
  <1>2. c.op # "accept"  BY NotAccepting DEF InsertInvite, OtherSteps
  <1>3. v \in InviteRecords /\ v.effects = 0 /\ ~v.accepted
    BY <1>1 DEF TeamCallRecords, InviteRecords
  <1>4. invites' = Append(invites, v) /\ UNCHANGED creators  BY DEF InsertInvite
  <1>5. n \in Nat  BY <1>1
  <1>6. r \in TeamCallRecords /\ r.op = c.op /\ r.step = "mail"
    <2>. HIDE DEF c, n
    <2>. QED  BY <1>1, <1>5 DEF TeamCallRecords, OtherSteps
  <1>7. teamCall' = [teamCall EXCEPT ![k] = r]
    BY <1>1 DEF InsertInvite, TeamCallRecords, OnceInv, TeamShapes
  <1>. HIDE DEF v, r
  <1>8. /\ invites' \in Seq(InviteRecords) /\ DOMAIN invites \subseteq DOMAIN invites'
        /\ \A i \in DOMAIN invites : invites'[i] = invites[i]
        /\ \A i \in DOMAIN invites' \ DOMAIN invites : invites'[i] = v
    BY <1>1, <1>3, <1>4
  <1>9. TeamShapes'  BY <1>4, <1>6, <1>7, <1>8 DEF OnceInv, TeamShapes
  <1>10. \A i \in DOMAIN invites : Same(invites'[i], invites[i])  BY <1>8 DEF Same
  <1>11. "mail" \notin AcceptSteps  BY DEF AcceptSteps
  <1>. QED  BY <1>2, <1>3, <1>6, <1>7, <1>8, <1>9, <1>10, <1>11, OthersKeep

LEMMA OnceMailInvite ==
    ASSUME OnceInv, NEW k \in TeamCalls, MailInvite(k)  PROVE OnceInv'
  <1>. DEFINE i == teamCall[k].invite
  <1>1. teamCall[k].op # "accept" /\ End(k) /\ UNCHANGED creators
    BY NotAccepting DEF MailInvite, OtherSteps
  <1>2. CASE UNCHANGED invites  BY <1>1, <1>2, QuietStep DEF OnceInv, TeamShapes
  <1>3. CASE invites' = [invites EXCEPT ![i].mailed = TRUE] /\ i \notin DOMAIN invites
    <2>1. invites' = invites  BY <1>3 DEF OnceInv, TeamShapes
    <2>. QED  BY <1>2, <2>1
  <1>4. CASE invites' = [invites EXCEPT ![i].mailed = TRUE] /\ i \in DOMAIN invites
    <2>. DEFINE v == [invites[i] EXCEPT !.mailed = TRUE]
    <2>1. invites[i] \in InviteRecords  BY <1>4 DEF OnceInv, TeamShapes
    <2>2. v \in InviteRecords /\ Same(v, invites[i])  BY <2>1, InviteFields, 0 \in Nat
    <2>3. invites' = [invites EXCEPT ![i] = v]  BY <1>4
    <2>. HIDE DEF v
    <2>4. /\ invites' \in Seq(InviteRecords) /\ DOMAIN invites' = DOMAIN invites
          /\ \A j \in DOMAIN invites : Same(invites'[j], invites[j])
      BY <1>4, <2>2, <2>3, InviteWritten DEF OnceInv, Same
    <2>5. teamCall' = [teamCall EXCEPT ![k] = NoTeamCall]  BY <1>1 DEF End
    <2>6. TeamShapes'  BY <1>1, <2>4, <2>5, NoCallIs DEF OnceInv, TeamShapes
    <2>. QED  BY <1>1, <2>4, <2>5, <2>6, NoCallIs, OthersKeep
  <1>. QED  BY <1>2, <1>3, <1>4 DEF MailInvite

LEMMA OnceExpire ==
    ASSUME OnceInv, NEW i \in DOMAIN invites, ExpireInvite(i)  PROVE OnceInv'
  <1>. DEFINE v == [invites[i] EXCEPT !.expired = TRUE]
  <1>1. invites[i] \in InviteRecords  BY DEF OnceInv, TeamShapes
  <1>2. v \in InviteRecords /\ Same(v, invites[i])  BY <1>1, InviteFields, 0 \in Nat
  <1>3. invites' = [invites EXCEPT ![i] = v] /\ UNCHANGED <<creators, teamCall>>
    BY DEF ExpireInvite
  <1>. HIDE DEF v
  <1>3a. /\ invites' \in Seq(InviteRecords) /\ DOMAIN invites' = DOMAIN invites
         /\ Len(invites') = Len(invites) /\ invites'[i] = v
         /\ \A j \in DOMAIN invites : j # i => invites'[j] = invites[j]
    BY <1>2, <1>3, InviteWritten DEF OnceInv
  <1>4. /\ invites' \in Seq(InviteRecords) /\ DOMAIN invites' = DOMAIN invites
        /\ \A j \in DOMAIN invites : Same(invites'[j], invites[j])
        /\ Len(invites') = Len(invites)
    BY <1>2, <1>3a DEF Same
  <1>5. TeamShapes'  BY <1>3, <1>4 DEF OnceInv, TeamShapes
  <1>6. \A j : Accepting(j)' = Accepting(j)  BY <1>3 DEF Accepting
  <1>7. \A j \in DOMAIN invites : InviteOK(j)'
    BY <1>3, <1>4, <1>6 DEF OnceInv, InviteOK, Same
  <1>. QED  BY <1>3, <1>4, <1>5, <1>7 DEF OnceInv

-----------------------------------------------------------------------------
(* Acceptances *)

\* A step of an acceptance concerns its invite alone.
LEMMA AcceptanceKeeps ==
    ASSUME OnceInv, NEW k \in TeamCalls, NEW r \in TeamCallRecords,
           teamCall[k].op = "accept", NEW i, i = teamCall[k].invite,
           teamCall' = [teamCall EXCEPT ![k] = r],
           \/ r = NoTeamCall
           \/ r.op = "accept" /\ r.invite = i /\ r.step \in AcceptSteps,
           Listed(creators'), invites' \in Seq(InviteRecords), Len(invites') = Len(invites),
           \A j \in DOMAIN invites : j # i => invites'[j] = invites[j],
           InviteOK(i)'
    PROVE  OnceInv'
  <1>1. TeamShapes'  BY DEF OnceInv, TeamShapes
  <1>2. \A l \in TeamCalls : CallOK(teamCall'[l], Len(invites'))
    BY NoCallIs DEF OnceInv, TeamShapes, CallOK
  <1>3. DOMAIN invites' = DOMAIN invites  BY DEF OnceInv, TeamShapes
  <1>4. ASSUME NEW j \in DOMAIN invites, j # i  PROVE InviteOK(j)'
    <2>1. Accepting(j)' = Accepting(j)
      BY <1>4, NoCallIs DEF Accepting, OnceInv, TeamShapes
    <2>2. \A l \in Accepting(j) : teamCall'[l] = teamCall[l]
      BY <1>4 DEF Accepting, OnceInv, TeamShapes
    <2>. QED  BY <1>4, <2>1, <2>2 DEF OnceInv, InviteOK
  <1>5. \A j \in DOMAIN invites : InviteOK(j)'  BY <1>4
  <1>. QED  BY <1>1, <1>2, <1>3, <1>5 DEF OnceInv

\* What is known of the invite of an acceptance, and which calls accept it after a step.
LEMMA AtAcceptance ==
    ASSUME OnceInv, NEW k \in TeamCalls, teamCall[k].step \in AcceptSteps,
           NEW i, i = teamCall[k].invite
    PROVE  /\ teamCall[k].op = "accept" /\ i \in DOMAIN invites
           /\ teamCall[k] \in TeamCallRecords /\ invites[i] \in InviteRecords
           /\ InviteOK(i)
           /\ teamCall[k].step # "validate" =>
                  k \in Accepting(i) /\ (~invites[i].muddled => Accepting(i) = {k})
  <1>1. teamCall[k].op = "accept" /\ i \in 1..Len(invites) /\ teamCall[k] \in TeamCallRecords
    BY DEF OnceInv, CallOK, TeamShapes
  <1>2. i \in DOMAIN invites /\ invites[i] \in InviteRecords
    BY <1>1 DEF OnceInv, TeamShapes
  <1>3. InviteOK(i)  BY <1>2 DEF OnceInv
  <1>4. teamCall[k].step # "validate" => k \in Accepting(i)  BY <1>1 DEF Accepting
  <1>5. k \in Accepting(i) /\ ~invites[i].muddled => Accepting(i) = {k}
    BY <1>3 DEF InviteOK
  <1>. QED  BY <1>1, <1>2, <1>3, <1>4, <1>5

LEMMA AcceptingNext ==
    ASSUME TeamShapes, NEW k \in TeamCalls, NEW r, teamCall' = [teamCall EXCEPT ![k] = r],
           NEW i
    PROVE  Accepting(i)' = IF r.op = "accept" /\ r.invite = i /\ r.step # "validate"
                           THEN Accepting(i) \cup {k} ELSE Accepting(i) \ {k}
  BY DEF Accepting, TeamShapes

\* Whoever passes validation alone finds an invite that had no effect.
LEMMA OnceValidate ==
    ASSUME OnceInv, NEW k \in TeamCalls, Validate(k)  PROVE OnceInv'
  <1>. PICK i : i = teamCall[k].invite  OBVIOUS
  <1>0. teamCall[k].step = "validate" /\ teamCall[k].step \in AcceptSteps /\ UNCHANGED creators
    BY DEF Validate, AcceptSteps
  <1>1. /\ teamCall[k].op = "accept" /\ i \in DOMAIN invites
        /\ invites[i] \in InviteRecords /\ InviteOK(i)
    BY <1>0, AtAcceptance
  <1>2. CASE End(k) /\ UNCHANGED invites
    BY <1>0, <1>2, QuietStep DEF OnceInv, TeamShapes
  <1>3. ASSUME NEW s \in {"profile", "member"}, Proceed(k, s), ~invites[i].accepted,
               invites' = [invites EXCEPT ![i].muddled = @ \/ Accepting(i) # {}]
        PROVE  OnceInv'
    <2>1. PICK r \in TeamCallRecords :
              /\ teamCall' = [teamCall EXCEPT ![k] = r] /\ r.step = s
              /\ r.op = "accept" /\ r.invite = i
      BY <1>1, <1>3, ProceedIs DEF OnceInv, AcceptSteps
    <2>. DEFINE b == invites[i].muddled \/ Accepting(i) # {}
                v == [invites[i] EXCEPT !.muddled = b]
    <2>2. b \in BOOLEAN /\ 0 \in Nat  BY <1>1 DEF InviteRecords
    <2>3. invites' = [invites EXCEPT ![i] = v]  BY <1>3
    <2>4. /\ v \in InviteRecords /\ v.muddled = b /\ v.effects = invites[i].effects
          /\ v.accepted = invites[i].accepted
      <3>. HIDE DEF b
      <3>. QED  BY <1>1, <2>2 DEF InviteRecords
    <2>. HIDE DEF v
    <2>5. /\ invites' \in Seq(InviteRecords) /\ DOMAIN invites' = DOMAIN invites /\ invites'[i] = v
          /\ Len(invites') = Len(invites)
          /\ \A j \in DOMAIN invites : j # i => invites'[j] = invites[j]
      <3>1. TeamShapes /\ i \in DOMAIN invites /\ v \in InviteRecords  BY <1>1, <2>4 DEF OnceInv
      <3>. QED  BY <3>1, <2>3, InviteWritten
    <2>6. Accepting(i)' = Accepting(i) \cup {k}
      BY <1>3, <2>1, AcceptingNext DEF OnceInv
    <2>7. InviteOK(i)'
      <3>1. SUFFICES ASSUME ~b  PROVE InviteOK(i)'
        BY <2>4, <2>5 DEF InviteOK
      <3>2. Accepting(i) = {} /\ ~invites[i].muddled /\ Accepting(i)' = {k}
        BY <3>1, <2>6
      <3>3. invites[i].effects = 0  BY <1>1, <1>3, <3>2 DEF InviteOK
      <3>4. invites'[i].effects = 0 /\ ~invites'[i].accepted  BY <1>3, <2>4, <2>5, <3>3
      <3>. QED  BY <3>2, <3>4 DEF InviteOK
    <2>8. r.step \in AcceptSteps  BY <1>3, <2>1 DEF AcceptSteps
    <2>. QED  BY <1>0, <1>1, <2>1, <2>5, <2>7, <2>8, AcceptanceKeeps DEF OnceInv, TeamShapes
  <1>. QED  BY <1>2, <1>3 DEF Validate

\* The only call that accepts an invite counts its effect and goes on to mark it.
LEMMA EffectCounted ==
    ASSUME OnceInv, NEW k \in TeamCalls, NEW i, i = teamCall[k].invite,
           teamCall[k].step \in {"profile", "member"},
           NEW r \in TeamCallRecords, teamCall' = [teamCall EXCEPT ![k] = r],
           r.op = "accept", r.invite = i, r.step \in {"owner", "mark"},
           invites' = [invites EXCEPT ![i].effects = @ + 1], Listed(creators')
    PROVE  OnceInv'
  <1>1. /\ teamCall[k].op = "accept" /\ i \in DOMAIN invites
        /\ invites[i] \in InviteRecords /\ InviteOK(i) /\ k \in Accepting(i)
        /\ ~invites[i].muddled => Accepting(i) = {k}
    BY AtAcceptance DEF AcceptSteps
  <1>. DEFINE n == invites[i].effects + 1
              v == [invites[i] EXCEPT !.effects = n]
  <1>2. n \in Nat  BY <1>1 DEF InviteRecords
  <1>3. invites' = [invites EXCEPT ![i] = v]  OBVIOUS
  <1>4. /\ v \in InviteRecords /\ v.muddled = invites[i].muddled /\ v.effects = n
        /\ v.accepted = invites[i].accepted
    <2>. HIDE DEF n
    <2>. QED  BY <1>1, <1>2 DEF InviteRecords
  <1>. HIDE DEF v
  <1>5. /\ invites' \in Seq(InviteRecords) /\ Len(invites') = Len(invites) /\ invites'[i] = v
        /\ \A j \in DOMAIN invites : j # i => invites'[j] = invites[j]
    <2>1. TeamShapes /\ i \in DOMAIN invites /\ v \in InviteRecords  BY <1>1, <1>4 DEF OnceInv
    <2>2. ASSUME NEW is, is = [invites EXCEPT ![i] = v]
          PROVE  /\ is \in Seq(InviteRecords) /\ Len(is) = Len(invites) /\ is[i] = v
                 /\ \A j \in DOMAIN invites : j # i => is[j] = invites[j]
      BY <2>1, <2>2, InviteWritten
    <2>. QED  BY <1>3, <2>2
  <1>6. Accepting(i)' = Accepting(i) \cup {k}  BY AcceptingNext DEF OnceInv
  <1>7. InviteOK(i)'
    <2>1. SUFFICES ASSUME ~invites[i].muddled  PROVE InviteOK(i)'
      BY <1>4, <1>5 DEF InviteOK
    <2>2. Accepting(i)' = {k} /\ n = 1 /\ ~invites[i].accepted
      BY <1>1, <1>6, <2>1 DEF InviteOK
    <2>3. teamCall'[k].step \notin {"profile", "member"}  BY DEF OnceInv, TeamShapes
    <2>4. invites'[i].effects = 1 /\ ~invites'[i].accepted  BY <1>4, <1>5, <2>2
    <2>. QED  BY <2>2, <2>3, <2>4 DEF InviteOK
  <1>8. r.step \in AcceptSteps  BY DEF AcceptSteps
  <1>. QED  BY <1>1, <1>5, <1>7, <1>8, AcceptanceKeeps

LEMMA OnceProfile ==
    ASSUME OnceInv, NEW k \in TeamCalls, InsertProfile(k)  PROVE OnceInv'
  <1>. PICK i : i = teamCall[k].invite  OBVIOUS
  <1>. DEFINE c == teamCall[k]
              m == Len(creators) + 1
              r == [c EXCEPT !.step = "owner", !.creator = m]
  <1>1. c \in TeamCallRecords /\ c.op = "accept" /\ c.step = "profile"
    BY AtAcceptance DEF InsertProfile, AcceptSteps
  <1>2. m \in Nat
    <2>1. PICK T : creators \in Seq(T)  BY DEF OnceInv, TeamShapes, Listed
    <2>. QED  BY <2>1
  <1>3. r \in TeamCallRecords /\ r.op = "accept" /\ r.step = "owner" /\ r.invite = c.invite
    <2>. HIDE DEF c, m
    <2>. QED  BY <1>1, <1>2 DEF TeamCallRecords, AcceptSteps
  <1>4. teamCall' = [teamCall EXCEPT ![k] = r]
    BY <1>1 DEF InsertProfile, TeamCallRecords, OnceInv, TeamShapes
  <1>5. invites' = [invites EXCEPT ![i].effects = @ + 1]  BY DEF InsertProfile
  <1>6. Listed(creators')  BY ListWritten DEF InsertProfile, OnceInv, TeamShapes
  <1>. HIDE DEF r
  <1>. QED  BY <1>1, <1>3, <1>4, <1>5, <1>6, EffectCounted

\* An acceptance goes on to mark its invite and writes none.
LEMMA GoesToMark ==
    ASSUME OnceInv, NEW k \in TeamCalls, teamCall[k].step \in {"owner", "member"},
           Proceed(k, "mark"), UNCHANGED invites, Listed(creators'),
           NEW i, i = teamCall[k].invite
    PROVE  OnceInv'
  <1>1. /\ teamCall[k].op = "accept" /\ i \in DOMAIN invites /\ InviteOK(i)
        /\ k \in Accepting(i)
    BY AtAcceptance DEF AcceptSteps
  <1>2. PICK r \in TeamCallRecords :
            /\ teamCall' = [teamCall EXCEPT ![k] = r] /\ r.step = "mark"
            /\ r.op = "accept" /\ r.invite = i
    BY <1>1, ProceedIs DEF OnceInv, AcceptSteps
  <1>3. Accepting(i)' = Accepting(i)
    <2>1. Accepting(i)' = Accepting(i) \cup {k}  BY <1>2, AcceptingNext DEF OnceInv
    <2>. QED  BY <1>1, <2>1
  <1>4. \A l \in Accepting(i) : teamCall'[l].step \in {"profile", "member"} =>
            teamCall[l].step \in {"profile", "member"}
    BY <1>2 DEF OnceInv, TeamShapes, Accepting
  <1>5. InviteOK(i)'  BY <1>1, <1>3, <1>4 DEF InviteOK
  <1>6. invites' \in Seq(InviteRecords)  BY DEF OnceInv, TeamShapes
  <1>. QED  BY <1>1, <1>2, <1>5, <1>6, AcceptanceKeeps DEF AcceptSteps

LEMMA OnceOwner ==
    ASSUME OnceInv, NEW k \in TeamCalls, InsertOwner(k)  PROVE OnceInv'
  <1>1. creators' = [creators EXCEPT ![teamCall[k].creator] =
             [creators[teamCall[k].creator] EXCEPT !.members[teamCall[k].by] = "owner"]]
    BY DEF InsertOwner
  <1>2. Listed(creators')  BY <1>1, ListWritten DEF OnceInv, TeamShapes
  <1>. QED  BY <1>2, GoesToMark DEF InsertOwner

LEMMA OnceMember ==
    ASSUME OnceInv, NEW k \in TeamCalls, InsertMember(k)  PROVE OnceInv'
  <1>. PICK i : i = teamCall[k].invite  OBVIOUS
  <1>1. teamCall[k].step = "member" /\ Proceed(k, "mark")  BY DEF InsertMember
  <1>2. CASE UNCHANGED <<creators, invites>>
    BY <1>1, <1>2, GoesToMark DEF OnceInv, TeamShapes
  <1>3. ASSUME NEW x, NEW u, creators' = [creators EXCEPT ![1].members[u] = x],
               invites' = [invites EXCEPT ![i].effects = @ + 1]
        PROVE  OnceInv'
    <2>1. creators' = [creators EXCEPT ![1] = [creators[1] EXCEPT !.members[u] = x]]
      BY <1>3
    <2>2. Listed(creators')  BY <2>1, ListWritten DEF OnceInv, TeamShapes
    <2>3. teamCall[k].op = "accept"  BY <1>1, AtAcceptance DEF AcceptSteps
    <2>4. PICK r \in TeamCallRecords :
              /\ teamCall' = [teamCall EXCEPT ![k] = r] /\ r.step = "mark"
              /\ r.op = "accept" /\ r.invite = i
      BY <1>1, <2>3, ProceedIs DEF OnceInv, AcceptSteps
    <2>. QED  BY <1>1, <1>3, <2>2, <2>4, EffectCounted
  <1>. QED  BY <1>2, <1>3 DEF InsertMember

\* The call that marks an invite is the last that accepts it.
LEMMA OnceMark ==
    ASSUME OnceInv, NEW k \in TeamCalls, MarkAccepted(k)  PROVE OnceInv'
  <1>. PICK i : i = teamCall[k].invite  OBVIOUS
  <1>. DEFINE v == [invites[i] EXCEPT !.accepted = TRUE]
  <1>1. /\ teamCall[k].op = "accept" /\ i \in DOMAIN invites
        /\ invites[i] \in InviteRecords /\ InviteOK(i)
        /\ ~invites[i].muddled => Accepting(i) = {k}
    BY AtAcceptance DEF MarkAccepted, AcceptSteps
  <1>2. /\ invites' = [invites EXCEPT ![i] = v] /\ UNCHANGED creators
        /\ teamCall' = [teamCall EXCEPT ![k] = NoTeamCall]
    BY DEF MarkAccepted, End
  <1>3. /\ v \in InviteRecords /\ v.muddled = invites[i].muddled
        /\ v.effects = invites[i].effects /\ v.accepted
    BY <1>1 DEF InviteRecords
  <1>. HIDE DEF v
  <1>4. /\ invites' \in Seq(InviteRecords) /\ Len(invites') = Len(invites) /\ invites'[i] = v
        /\ \A j \in DOMAIN invites : j # i => invites'[j] = invites[j]
    <2>1. TeamShapes /\ i \in DOMAIN invites /\ v \in InviteRecords  BY <1>1, <1>3 DEF OnceInv
    <2>. QED  BY <2>1, <1>2, InviteWritten
  <1>5. Accepting(i)' = Accepting(i) \ {k}  BY <1>2, NoCallIs, AcceptingNext DEF OnceInv
  <1>6. InviteOK(i)'
    <2>1. SUFFICES ASSUME ~invites[i].muddled  PROVE InviteOK(i)'
      BY <1>3, <1>4 DEF InviteOK
    <2>2. Accepting(i)' = {} /\ invites'[i].effects <= 1 /\ invites'[i].accepted
      BY <1>1, <1>3, <1>4, <1>5, <2>1 DEF InviteOK
    <2>. QED  BY <2>2 DEF InviteOK
  <1>. QED  BY <1>1, <1>2, <1>4, <1>6, NoCallIs, AcceptanceKeeps DEF OnceInv, TeamShapes

\* An acceptance that dies past validation muddles its invite.
LEMMA OnceCrash ==
    ASSUME OnceInv, NEW k \in TeamCalls, TeamCrash(k)  PROVE OnceInv'
  <1>. PICK i : i = teamCall[k].invite  OBVIOUS
  <1>0. End(k) /\ UNCHANGED creators  BY DEF TeamCrash
  <1>1. CASE k \notin Accepting(i)
    <2>1. UNCHANGED invites  BY <1>1 DEF TeamCrash
    <2>2. teamCall[k].op # "accept" \/ teamCall[k].step = "validate"  BY <1>1 DEF Accepting
    <2>. QED  BY <1>0, <2>1, <2>2, QuietStep DEF OnceInv, TeamShapes
  <1>2. CASE k \in Accepting(i)
    <2>. DEFINE v == [invites[i] EXCEPT !.muddled = TRUE]
    <2>1. teamCall[k].op = "accept" /\ teamCall[k].step \in AcceptSteps
      BY <1>2 DEF Accepting, OnceInv, CallOK
    <2>2. i \in DOMAIN invites /\ invites[i] \in InviteRecords  BY <2>1, AtAcceptance
    <2>3. invites' = [invites EXCEPT ![i] = v]  BY <1>2 DEF TeamCrash
    <2>4. v \in InviteRecords /\ v.muddled  BY <2>2 DEF InviteRecords
    <2>. HIDE DEF v
    <2>5. /\ invites' \in Seq(InviteRecords) /\ Len(invites') = Len(invites) /\ invites'[i] = v
          /\ \A j \in DOMAIN invites : j # i => invites'[j] = invites[j]
      <3>1. TeamShapes /\ i \in DOMAIN invites /\ v \in InviteRecords  BY <2>2, <2>4 DEF OnceInv
      <3>. QED  BY <3>1, <2>3, InviteWritten
    <2>6. InviteOK(i)'  BY <2>4, <2>5 DEF InviteOK
    <2>7. teamCall' = [teamCall EXCEPT ![k] = NoTeamCall]  BY <1>0 DEF End
    <2>. QED  BY <1>0, <2>1, <2>5, <2>6, <2>7, NoCallIs, AcceptanceKeeps DEF OnceInv, TeamShapes
  <1>. QED  BY <1>1, <1>2

-----------------------------------------------------------------------------
LEMMA OnceInit ==
    ASSUME TeamInit  PROVE OnceInv
  <1>1. Listed(creators)
    <2>. DEFINE v == creators[1]
    <2>1. creators \in Seq({v})  BY DEF TeamInit
    <2>. QED  BY <2>1 DEF Listed
  <1>2. invites = <<>> /\ teamCall = [k \in TeamCalls |-> NoTeamCall]  BY DEF TeamInit
  <1>3. invites \in Seq(InviteRecords) /\ DOMAIN invites = {}  BY <1>2
  <1>4. \A k \in TeamCalls : CallOK(teamCall[k], Len(invites))
    BY <1>2, NoCallIs DEF CallOK
  <1>. QED  BY <1>1, <1>2, <1>3, <1>4, NoCallIs DEF OnceInv, TeamShapes

\* The invariant is inductive: the lemmas above, one or more for each action.
LEMMA OnceNext ==
    ASSUME OnceInv, [TeamNext]_teamVars  PROVE OnceInv'
  <1>1. CASE UNCHANGED teamVars
    <2>1. UNCHANGED <<creators, invites, teamCall>>  BY <1>1 DEF teamVars
    <2>2. \A i : Accepting(i)' = Accepting(i)  BY <2>1 DEF Accepting
    <2>. QED  BY <2>1, <2>2 DEF OnceInv, TeamShapes, InviteOK
  <1>2. ASSUME NEW k \in TeamCalls, TeamStep(k)  PROVE OnceInv'
    BY <1>2, OnceLooks, OnceWriteMember, OnceInsertInvite, OnceMailInvite, OnceValidate,
       OnceProfile, OnceOwner, OnceMember, OnceMark, OnceCrash DEF TeamStep
  <1>. QED  BY <1>1, <1>2, OnceRequest, OnceExpire DEF TeamNext

\* invites.ts:144-220: an invite is good for one creator, or one entry to the team,
\* unless acceptances of it overlap or one dies before it says so.
THEOREM GoodOnce ==
    TeamSpec => []InviteOnce
  <1>1. TeamInit => OnceInv  BY OnceInit
  <1>2. OnceInv /\ [TeamNext]_teamVars => OnceInv'  BY OnceNext
  <1>3. OnceInv => InviteOnce  BY DEF OnceInv, InviteOK, InviteOnce
  <1>. QED  BY <1>1, <1>2, <1>3, PTL DEF TeamSpec
-----------------------------------------------------------------------------
(* Every creator has an owner *)

CreatorRecords == [by: Nat, members: [People -> Ranks]]

\* Whom a call is about, and the creator that an acceptance has just made.
CallFits(r, list) ==
    /\ r.op = "accept" => r.by \in People
    /\ r.step \in {"permission", "existing", "count", "write"} => r.user \in People
    /\ r.step = "permission" => r.op \in {"add", "patch", "remove", "teamInvite"}
    /\ r.step \in {"existing", "count", "write"} => r.op \in {"add", "patch", "remove"}
    /\ r.step = "owner" => r.creator \in 2..Len(list) /\ list[r.creator].by = r.invite

\* The call is about to remove a member.
Deletes(r) == r.op = "remove" /\ r.step = "write"

\* Someone else owns the first creator.
Spared(u) == \E w \in Owners(1) : w # u

\* Unless an owner was demoted or two removals crossed, a call that is about to remove
\* a member leaves another owner.
FirstOwned ==
    ~history.demoted /\ ~history.crossed =>
        /\ Owners(1) # {}
        /\ \A k \in TeamCalls : Deletes(teamCall[k]) => Spared(teamCall[k].user)

OthersOwned ==
    \A c \in 2..Len(creators) :
        \/ Owners(c) # {}
        \/ invites[creators[c].by].muddled
        \/ \E k \in TeamCalls : teamCall[k].step = "owner" /\ teamCall[k].creator = c

OwnedShapes ==
    /\ creators \in Seq(CreatorRecords) /\ Len(creators) >= 1
    /\ \A c \in 2..Len(creators) : creators[c].by \in DOMAIN invites
    /\ history \in [demoted: BOOLEAN, crossed: BOOLEAN]
    /\ \A k \in TeamCalls : CallFits(teamCall[k], creators)

OwnedInv == OnceInv /\ OwnedShapes /\ FirstOwned /\ OthersOwned

\* What no step does to the invites: take one away, or take back that it is muddled.
InvitesStay ==
    /\ DOMAIN invites \subseteq DOMAIN invites'
    /\ \A i \in DOMAIN invites : invites[i].muddled => invites'[i].muddled

\* What no step does to the creators: take one away, or an owner of any but the first.
CreatorsStay ==
    /\ creators' \in Seq(CreatorRecords) /\ Len(creators) <= Len(creators')
    /\ \A c \in 1..Len(creators) : creators'[c].by = creators[c].by
    /\ \A c \in 2..Len(creators) : Owners(c) \subseteq Owners(c)'

LEMMA OthersStayOwned ==
    ASSUME OwnedInv, OnceInv', InvitesStay, CreatorsStay, NEW k \in TeamCalls,
           NEW r \in TeamCallRecords, teamCall' = [teamCall EXCEPT ![k] = r],
           CallFits(r, creators'), history' \in [demoted: BOOLEAN, crossed: BOOLEAN],
           \A c \in (Len(creators) + 1)..Len(creators') :
               r.step = "owner" /\ r.creator = c /\ creators'[c].by \in DOMAIN invites',
           NEW d, d = teamCall[k].creator,
           teamCall[k].step = "owner" => Owners(d)' # {} \/ invites'[teamCall[k].invite].muddled
    PROVE  OwnedShapes' /\ OthersOwned'
  <1>. USE DEF OwnedInv
  <1>0. /\ Len(creators) \in Nat /\ Len(creators') \in Nat /\ Len(creators) >= 1
        /\ Len(creators) <= Len(creators')
        /\ teamCall \in [TeamCalls -> TeamCallRecords]
    BY DEF OwnedShapes, CreatorsStay, OnceInv, TeamShapes
  <1>1. ASSUME NEW l \in TeamCalls  PROVE CallFits(teamCall'[l], creators')
    <2>1. CASE l = k  BY <1>0, <2>1
    <2>2. CASE l # k
      <3>1. teamCall'[l] = teamCall[l] /\ CallFits(teamCall[l], creators)
        BY <1>0, <2>2 DEF OwnedShapes
      <3>2. \A c \in 2..Len(creators) : c \in 2..Len(creators') /\ creators'[c].by = creators[c].by
        BY <1>0 DEF CreatorsStay
      <3>. QED  BY <3>1, <3>2 DEF CallFits
    <2>. QED  BY <2>1, <2>2
  <1>2. ASSUME NEW c \in 2..Len(creators')  PROVE creators'[c].by \in DOMAIN invites'
    <2>1. CASE c \in 2..Len(creators)
      BY <1>0, <2>1 DEF OwnedShapes, CreatorsStay, InvitesStay
    <2>2. CASE c \in (Len(creators) + 1)..Len(creators')  BY <2>2
    <2>. QED  BY <1>0, <2>1, <2>2
  <1>3. OwnedShapes'  BY <1>0, <1>1, <1>2 DEF OwnedShapes, CreatorsStay
  <1>4. ASSUME NEW c \in 2..Len(creators')
        PROVE  \/ Owners(c)' # {}
               \/ invites'[creators'[c].by].muddled
               \/ \E l \in TeamCalls : teamCall'[l].step = "owner" /\ teamCall'[l].creator = c
    <2>1. CASE c \in (Len(creators) + 1)..Len(creators')  BY <1>0, <2>1
    <2>2. CASE c \in 2..Len(creators)
      <3>1. creators'[c].by = creators[c].by /\ creators[c].by \in DOMAIN invites
        BY <1>0, <2>2 DEF OwnedShapes, CreatorsStay
      <3>2. CASE Owners(c) # {}  BY <2>2, <3>2 DEF CreatorsStay
      <3>3. CASE invites[creators[c].by].muddled  BY <3>1, <3>3 DEF InvitesStay
      <3>4. ASSUME NEW l \in TeamCalls, teamCall[l].step = "owner", teamCall[l].creator = c
            PROVE  \/ Owners(c)' # {}
                   \/ invites'[creators'[c].by].muddled
                   \/ \E m \in TeamCalls : teamCall'[m].step = "owner" /\ teamCall'[m].creator = c
        <4>1. CASE l # k  BY <1>0, <3>4, <4>1
        <4>2. CASE l = k
          <5>1. creators[c].by = teamCall[k].invite
            BY <3>4, <4>2 DEF OwnedShapes, CallFits
          <5>. QED  BY <3>1, <3>4, <4>2, <5>1
        <4>. QED  BY <4>1, <4>2
      <3>. QED  BY <2>2, <3>2, <3>3, <3>4 DEF OthersOwned
    <2>. QED  BY <1>0, <2>1, <2>2
  <1>5. OthersOwned'  BY <1>4 DEF OthersOwned
  <1>. QED  BY <1>3, <1>5

\* A step that takes no owner of the first creator away.
LEMMA FirstStaysOwned ==
    ASSUME OwnedInv, UNCHANGED history, Owners(1) \subseteq Owners(1)', NEW k \in TeamCalls,
           NEW r \in TeamCallRecords, teamCall' = [teamCall EXCEPT ![k] = r],
           Deletes(r) /\ FirstOwned => Spared(r.user) \/ history.demoted \/ history.crossed
    PROVE  FirstOwned'
  <1>. USE DEF OwnedInv
  <1>1. SUFFICES ASSUME ~history.demoted, ~history.crossed
                 PROVE  /\ Owners(1)' # {}
                        /\ \A l \in TeamCalls : Deletes(teamCall'[l]) =>
                              \E w \in Owners(1)' : w # teamCall'[l].user
    BY DEF FirstOwned, Deletes, Spared
  <1>2. \A u : Spared(u) => \E w \in Owners(1)' : w # u  BY DEF Spared
  <1>3. \A l \in TeamCalls : teamCall'[l] = IF l = k THEN r ELSE teamCall[l]
    BY DEF OnceInv, TeamShapes
  <1>4. Owners(1) # {} /\ \A l \in TeamCalls : Deletes(teamCall[l]) => Spared(teamCall[l].user)
    BY <1>1 DEF FirstOwned
  <1>5. Deletes(r) => Spared(r.user)  BY <1>1
  <1>. QED  BY <1>2, <1>3, <1>4, <1>5

LEMMA NothingMade ==
    ASSUME OwnedInv, UNCHANGED creators
    PROVE  /\ CreatorsStay /\ Owners(1) \subseteq Owners(1)'
           /\ (Len(creators) + 1)..Len(creators') = {}
  <1>1. creators \in Seq(CreatorRecords) /\ Len(creators) \in Nat
    BY DEF OwnedInv, OwnedShapes
  <1>2. \A c : Owners(c)' = Owners(c)  BY DEF Owners, MembersOf
  <1>. QED  BY <1>1, <1>2 DEF CreatorsStay

\* A step that writes no creator.
LEMMA OwnedQuiet ==
    ASSUME OwnedInv, OnceInv', InvitesStay, UNCHANGED <<creators, history>>,
           NEW k \in TeamCalls, NEW r \in TeamCallRecords,
           teamCall' = [teamCall EXCEPT ![k] = r], CallFits(r, creators),
           teamCall[k].step = "owner" => invites'[teamCall[k].invite].muddled,
           Deletes(r) /\ FirstOwned => Spared(r.user) \/ history.demoted \/ history.crossed
    PROVE  OwnedInv'
  <1>1. /\ CreatorsStay /\ Owners(1) \subseteq Owners(1)'
        /\ (Len(creators) + 1)..Len(creators') = {}
    BY NothingMade
  <1>2. FirstOwned'  BY <1>1, FirstStaysOwned
  <1>3. history' \in [demoted: BOOLEAN, crossed: BOOLEAN]  BY DEF OwnedInv, OwnedShapes
  <1>4. CallFits(r, creators')  OBVIOUS
  <1>5. OwnedShapes' /\ OthersOwned'
    <2>. PICK d : d = teamCall[k].creator  OBVIOUS
    <2>. QED  BY <1>1, <1>3, <1>4, OthersStayOwned
  <1>. QED  BY <1>2, <1>5 DEF OwnedInv

LEMMA OwnedEnds ==
    ASSUME OwnedInv, OnceInv', InvitesStay, UNCHANGED <<creators, history>>,
           NEW k \in TeamCalls, End(k),
           teamCall[k].step = "owner" => invites'[teamCall[k].invite].muddled
    PROVE  OwnedInv'
  <1>1. CallFits(NoTeamCall, creators) /\ ~Deletes(NoTeamCall)
    BY NoCallIs DEF CallFits, Deletes
  <1>. QED  BY <1>1, NoCallIs, OwnedQuiet DEF End

LEMMA OwnedProceeds ==
    ASSUME OwnedInv, OnceInv', InvitesStay, UNCHANGED <<creators, history>>,
           NEW k \in TeamCalls, teamCall[k].step # "owner",
           NEW s \in (AcceptSteps \cup OtherSteps) \ {"permission", "owner"}, Proceed(k, s),
           s \in {"existing", "count", "write"} =>
               teamCall[k].user \in People /\ teamCall[k].op \in {"add", "patch", "remove"},
           s = "write" /\ teamCall[k].op = "remove" /\ FirstOwned =>
               Spared(teamCall[k].user) \/ history.demoted \/ history.crossed
    PROVE  OwnedInv'
  <1>1. PICK r \in TeamCallRecords :
            /\ teamCall' = [teamCall EXCEPT ![k] = r] /\ r.step = s
            /\ r.op = teamCall[k].op /\ r.invite = teamCall[k].invite
            /\ r.by = teamCall[k].by /\ r.user = teamCall[k].user
    BY ProceedIs DEF OwnedInv, OnceInv
  <1>2. CallFits(r, creators)
    <2>1. CallFits(teamCall[k], creators)  BY DEF OwnedInv, OwnedShapes
    <2>. QED  BY <1>1, <2>1 DEF CallFits
  <1>3. Deletes(r) /\ FirstOwned => Spared(r.user) \/ history.demoted \/ history.crossed
    BY <1>1 DEF Deletes
  <1>. QED  BY <1>1, <1>2, <1>3, OwnedQuiet

-----------------------------------------------------------------------------
(* The steps, one by one *)

LEMMA OwnedRequest ==
    ASSUME OwnedInv, OnceInv', InvitesStay, NEW k \in TeamCalls, TeamRequest(k)
    PROVE  OwnedInv'
  <1>0. ASSUME NEW r \in TeamCallRecords, teamCall[k] = NoTeamCall, CallFits(r, creators),
               teamCall' = [teamCall EXCEPT ![k] = r], UNCHANGED <<creators, history>>,
               r.step # "write"
        PROVE  OwnedInv'
    <2>1. teamCall[k].step # "owner" /\ ~Deletes(r)  BY <1>0, NoCallIs DEF Deletes
    <2>. QED  BY <1>0, <2>1, OwnedQuiet
  <1>1. ASSUME NEW by \in People, NEW i \in DOMAIN invites, RequestAccept(k, by, i)
        PROVE  OwnedInv'
    <2>. DEFINE r == [[NoTeamCall EXCEPT !.op = "accept", !.by = by, !.invite = i]
                        EXCEPT !.step = "validate"]
    <2>1. i \in Nat  BY DEF OwnedInv, OnceInv, TeamShapes
    <2>2. /\ r \in TeamCallRecords /\ CallFits(r, creators) /\ r.step # "write"
      BY <2>1 DEF NoTeamCall, TeamCallRecords, Ranks, AcceptSteps, CallFits
    <2>3. /\ teamCall' = [teamCall EXCEPT ![k] = r] /\ teamCall[k] = NoTeamCall
          /\ UNCHANGED <<creators, history>>
      BY <1>1 DEF RequestAccept, Ask
    <2>. HIDE DEF r
    <2>. QED  BY <2>2, <2>3, <1>0
  <1>2. ASSUME NEW by \in People, NEW u \in People, NEW role \in Ranks,
               NEW op \in {"add", "patch", "remove", "teamInvite"},
               RequestChange(k, by, op, u, role)
        PROVE  OwnedInv'
    <2>. DEFINE r == [[NoTeamCall EXCEPT !.op = op, !.by = by, !.user = u, !.role = role]
                        EXCEPT !.step = "permission"]
    <2>1. r \in TeamCallRecords /\ CallFits(r, creators) /\ r.step # "write"
      BY DEF NoTeamCall, TeamCallRecords, Ranks, AcceptSteps, OtherSteps, CallFits
    <2>2. /\ teamCall' = [teamCall EXCEPT ![k] = r] /\ teamCall[k] = NoTeamCall
          /\ UNCHANGED <<creators, history>>
      BY <1>2 DEF RequestChange, Ask
    <2>. HIDE DEF r
    <2>. QED  BY <2>1, <2>2, <1>0
  <1>3. ASSUME NEW by \in People, NEW u \in People, RequestOwnerInvite(k, by, u)
        PROVE  OwnedInv'
    <2>. DEFINE r == [[NoTeamCall EXCEPT !.op = "ownerInvite", !.by = by, !.user = u,
                                         !.role = "owner"] EXCEPT !.step = "insert"]
    <2>1. r \in TeamCallRecords /\ CallFits(r, creators) /\ r.step # "write"
      BY DEF NoTeamCall, TeamCallRecords, Ranks, Roles, AcceptSteps, OtherSteps, CallFits
    <2>2. /\ teamCall' = [teamCall EXCEPT ![k] = r] /\ teamCall[k] = NoTeamCall
          /\ UNCHANGED <<creators, history>>
      BY <1>3 DEF RequestOwnerInvite, Ask
    <2>. HIDE DEF r
    <2>. QED  BY <2>1, <2>2, <1>0
  <1>4. Roles \subseteq Ranks /\ None \in Ranks  BY DEF Ranks
  <1>. QED  BY <1>1, <1>2, <1>3, <1>4 DEF TeamRequest

LEMMA OwnedPermission ==
    ASSUME OwnedInv, OnceInv', InvitesStay, NEW k \in TeamCalls, Permission(k)
    PROVE  OwnedInv'
  <1>1. /\ teamCall[k].step = "permission" /\ UNCHANGED <<creators, history>>
        /\ CallFits(teamCall[k], creators)
    BY DEF Permission, OwnedInv, OwnedShapes
  <1>2. CASE End(k)  BY <1>1, <1>2, OwnedEnds
  <1>3. CASE Proceed(k, "insert")  BY <1>1, <1>3, OwnedProceeds DEF OtherSteps
  <1>4. CASE Proceed(k, "existing") /\ teamCall[k].op # "teamInvite"
    <2>1. teamCall[k].user \in People /\ teamCall[k].op \in {"add", "patch", "remove"}
      BY <1>1, <1>4 DEF CallFits
    <2>. QED  BY <1>1, <1>4, <2>1, OwnedProceeds DEF OtherSteps
  <1>. QED  BY <1>2, <1>3, <1>4 DEF Permission

\* Who is no owner can go: some owner is left.
LEMMA OwnedExisting ==
    ASSUME OwnedInv, OnceInv', InvitesStay, NEW k \in TeamCalls, Existing(k)
    PROVE  OwnedInv'
  <1>1. /\ teamCall[k].step = "existing" /\ UNCHANGED <<creators, history>>
        /\ CallFits(teamCall[k], creators)
    BY DEF Existing, OwnedInv, OwnedShapes
  <1>2. teamCall[k].user \in People /\ teamCall[k].op \in {"add", "patch", "remove"}
    BY <1>1 DEF CallFits
  <1>3. CASE End(k)  BY <1>1, <1>3, OwnedEnds
  <1>4. CASE Proceed(k, "count")  BY <1>1, <1>2, <1>4, OwnedProceeds DEF OtherSteps
  <1>5. CASE Proceed(k, "write") /\ ~(teamCall[k].op = "remove"
                                        /\ MembersOf(1)[teamCall[k].user] = "owner")
    <2>1. teamCall[k].op = "remove" /\ FirstOwned =>
              Spared(teamCall[k].user) \/ history.demoted \/ history.crossed
      BY <1>5 DEF FirstOwned, Spared, Owners
    <2>. QED  BY <1>1, <1>2, <1>5, <2>1, OwnedProceeds DEF OtherSteps
  <1>. QED  BY <1>3, <1>4, <1>5 DEF Existing

LEMMA OneAtMost ==
    ASSUME NEW u, NEW T \in SUBSET {u}  PROVE Cardinality(T) <= 1
  <1>1. IsFiniteSet({u}) /\ Cardinality({u}) = 1  BY FS_Singleton
  <1>2. Cardinality(T) <= Cardinality({u})  BY <1>1, FS_Subset
  <1>. QED  BY <1>1, <1>2

\* Of two owners one is someone else.
LEMMA OwnedCount ==
    ASSUME OwnedInv, OnceInv', InvitesStay, NEW k \in TeamCalls, CountOwners(k)
    PROVE  OwnedInv'
  <1>1. /\ teamCall[k].step = "count" /\ UNCHANGED <<creators, history>>
        /\ CallFits(teamCall[k], creators)
    BY DEF CountOwners, OwnedInv, OwnedShapes
  <1>2. teamCall[k].user \in People /\ teamCall[k].op \in {"add", "patch", "remove"}
    BY <1>1 DEF CallFits
  <1>3. CASE End(k)  BY <1>1, <1>3, OwnedEnds
  <1>4. CASE Proceed(k, "write") /\ ~(Cardinality(Owners(1)) <= 1)
    <2>1. ~(Owners(1) \subseteq {teamCall[k].user})
      <3>1. ASSUME Owners(1) \in SUBSET {teamCall[k].user}  PROVE Cardinality(Owners(1)) <= 1
        BY <3>1, OneAtMost
      <3>. QED  BY <1>4, <3>1
    <2>2. Spared(teamCall[k].user)  BY <2>1 DEF Spared
    <2>. QED  BY <1>1, <1>2, <1>4, <2>2, OwnedProceeds DEF OtherSteps
  <1>. QED  BY <1>3, <1>4 DEF CountOwners

\* The role of a member of one creator is written.
LEMMA RoleWritten ==
    ASSUME creators \in Seq(CreatorRecords), NEW c \in DOMAIN creators,
           NEW u \in People, NEW x \in Ranks,
           creators' = [creators EXCEPT ![c].members[u] = x]
    PROVE  /\ creators' \in Seq(CreatorRecords) /\ Len(creators') = Len(creators)
           /\ \A d \in DOMAIN creators : creators'[d].by = creators[d].by
           /\ \A d \in DOMAIN creators \ {c} : Owners(d)' = Owners(d)
           /\ Owners(c)' = IF x = "owner" THEN Owners(c) \cup {u} ELSE Owners(c) \ {u}
  <1>. DEFINE m == [creators[c].members EXCEPT ![u] = x]
              p == [creators[c] EXCEPT !.members = m]
  <1>1. creators' = [creators EXCEPT ![c] = p]  OBVIOUS
  <1>2. creators[c] \in CreatorRecords  OBVIOUS
  <1>3. creators[c].members \in [People -> Ranks]  BY <1>2 DEF CreatorRecords
  <1>4. m \in [People -> Ranks] /\ \A v \in People : m[v] = IF v = u THEN x ELSE creators[c].members[v]
    BY <1>3
  <1>. HIDE DEF m
  <1>5. p \in CreatorRecords /\ p.members = m /\ p.by = creators[c].by
    BY <1>2, <1>4 DEF CreatorRecords
  <1>. HIDE DEF p
  <1>6. /\ creators' \in Seq(CreatorRecords) /\ Len(creators') = Len(creators)
        /\ creators'[c] = p
        /\ \A d \in DOMAIN creators \ {c} : creators'[d] = creators[d]
    BY <1>1, <1>5
  <1>7. \A d \in DOMAIN creators \ {c} : Owners(d)' = Owners(d)
    BY <1>6 DEF Owners, MembersOf
  <1>8. Owners(c)' = IF x = "owner" THEN Owners(c) \cup {u} ELSE Owners(c) \ {u}
    BY <1>4, <1>5, <1>6 DEF Owners, MembersOf
  <1>. QED  BY <1>5, <1>6, <1>7, <1>8

\* An owner is taken away only by a demotion, by a removal that crosses another, or by
\* one that leaves another owner.
LEMMA OwnedWriteMember ==
    ASSUME OwnedInv, OnceInv', InvitesStay, NEW k \in TeamCalls, WriteMember(k)
    PROVE  OwnedInv'
  <1>. PICK c, u : c \in TeamCallRecords /\ c = teamCall[k] /\ u = c.user
    BY DEF OwnedInv, OnceInv, TeamShapes
  <1>. DEFINE was == MembersOf(1)[u]
              is == CASE c.op = "add"    -> IF was = None THEN c.role ELSE was
                      [] c.op = "patch"  -> IF was = None THEN None ELSE c.role
                      [] c.op = "remove" -> None
              b1 == history.demoted \/ (c.op = "patch" /\ was = "owner" /\ is # "owner")
              b2 == history.crossed \/ (was = "owner" /\ is # "owner" /\ Removing # {k})
  <1>0. /\ c.step = "write" /\ creators \in Seq(CreatorRecords) /\ 1 \in DOMAIN creators
        /\ history \in [demoted: BOOLEAN, crossed: BOOLEAN] /\ CallFits(c, creators)
    BY DEF WriteMember, OwnedInv, OwnedShapes
  <1>1. u \in People /\ c.op \in {"add", "patch", "remove"} /\ was \in Ranks
    <2>1. u \in People /\ c.op \in {"add", "patch", "remove"}  BY <1>0 DEF CallFits
    <2>2. creators[1] \in CreatorRecords  BY <1>0
    <2>3. creators[1].members \in [People -> Ranks]  BY <2>2 DEF CreatorRecords
    <2>. QED  BY <2>1, <2>3 DEF MembersOf
  <1>2. is \in Ranks  BY <1>1 DEF TeamCallRecords, Ranks
  <1>3. /\ creators' = [creators EXCEPT ![1].members[u] = is]
        /\ history' = [history EXCEPT !.demoted = b1, !.crossed = b2]
    BY DEF WriteMember
  <1>4. /\ history' \in [demoted: BOOLEAN, crossed: BOOLEAN]
        /\ history'.demoted = b1 /\ history'.crossed = b2
    <2>1. b1 \in BOOLEAN /\ b2 \in BOOLEAN  BY <1>0
    <2>. HIDE DEF b1, b2
    <2>. QED  BY <1>0, <1>3, <2>1
  <1>5. c.op = "remove" => is # "owner" /\ k \in Removing
    BY <1>0, TeamAssumption DEF Removing, Roles
  <1>6. (was = "owner" /\ is # "owner") => c.op \in {"patch", "remove"}
    BY <1>1, TeamAssumption DEF Roles
  <1>. PICK x : x = is  OBVIOUS
  <1>. HIDE DEF is
  <1>7. /\ creators' \in Seq(CreatorRecords) /\ Len(creators') = Len(creators)
        /\ \A d \in DOMAIN creators : creators'[d].by = creators[d].by
        /\ \A d \in DOMAIN creators \ {1} : Owners(d)' = Owners(d)
        /\ Owners(1)' = IF x = "owner" THEN Owners(1) \cup {u} ELSE Owners(1) \ {u}
    <2>1. x \in Ranks  BY <1>2
    <2>2. creators' = [creators EXCEPT ![1].members[u] = x]  BY <1>3
    <2>3. u \in People  BY <1>1
    <2>4. creators \in Seq(CreatorRecords) /\ 1 \in DOMAIN creators  BY <1>0
    <2>5. creators' \in Seq(CreatorRecords) /\ Len(creators') = Len(creators)
      BY <2>1, <2>2, <2>3, <2>4, RoleWritten
    <2>6. \A d \in DOMAIN creators : creators'[d].by = creators[d].by
      BY <2>1, <2>2, <2>3, <2>4, RoleWritten
    <2>7. \A d \in DOMAIN creators \ {1} : Owners(d)' = Owners(d)
      BY <2>1, <2>2, <2>3, <2>4, RoleWritten
    <2>8. Owners(1)' = IF x = "owner" THEN Owners(1) \cup {u} ELSE Owners(1) \ {u}
      BY <2>1, <2>2, <2>3, <2>4, RoleWritten
    <2>. QED  BY <2>5, <2>6, <2>7, <2>8
  <1>8. /\ CreatorsStay /\ (Len(creators) + 1)..Len(creators') = {}
    <2>1. Len(creators) \in Nat /\ DOMAIN creators = 1..Len(creators)  BY <1>0
    <2>. QED  BY <1>7, <2>1 DEF CreatorsStay
  <1>9. teamCall' = [teamCall EXCEPT ![k] = NoTeamCall]  BY DEF WriteMember, End
  <1>10. CallFits(NoTeamCall, creators') /\ ~Deletes(NoTeamCall)
    BY NoCallIs DEF CallFits, Deletes
  <1>11. OwnedShapes' /\ OthersOwned'
    <2>. PICK d : d = teamCall[k].creator  OBVIOUS
    <2>. QED  BY <1>0, <1>4, <1>8, <1>9, <1>10, NoCallIs, OthersStayOwned
  <1>12. FirstOwned'
    <2>1. SUFFICES ASSUME ~b1, ~b2
                   PROVE  /\ Owners(1)' # {}
                          /\ \A l \in TeamCalls : Deletes(teamCall'[l]) =>
                                 \E w \in Owners(1)' : w # teamCall'[l].user
      BY <1>4 DEF FirstOwned, Deletes, Spared
    <2>2. /\ Owners(1) # {}
          /\ \A l \in TeamCalls : Deletes(teamCall[l]) => Spared(teamCall[l].user)
      BY <2>1 DEF OwnedInv, FirstOwned
    <2>3. \A l \in TeamCalls : teamCall'[l] = IF l = k THEN NoTeamCall ELSE teamCall[l]
      BY <1>9 DEF OwnedInv, OnceInv, TeamShapes
    <2>4. CASE was # "owner" \/ is = "owner"
      <3>1. Owners(1) \subseteq Owners(1)'  BY <1>7, <2>4 DEF Owners
      <3>. QED  BY <1>10, <2>2, <2>3, <3>1 DEF Spared
    <2>5. CASE was = "owner" /\ is # "owner"
      <3>1. c.op = "remove" /\ Removing = {k}  BY <1>6, <2>1, <2>5
      <3>2. Spared(u)  BY <1>0, <2>2, <3>1 DEF Deletes
      <3>3. Owners(1)' # {}  BY <1>7, <3>2 DEF Spared
      <3>4. \A l \in TeamCalls : ~Deletes(teamCall'[l])
        BY <1>10, <2>3, <3>1 DEF Removing, Deletes
      <3>. QED  BY <3>3, <3>4
    <2>. QED  BY <2>4, <2>5
  <1>. QED  BY <1>11, <1>12 DEF OwnedInv

LEMMA OwnedInsertInvite ==
    ASSUME OwnedInv, OnceInv', InvitesStay, NEW k \in TeamCalls, InsertInvite(k)
    PROVE  OwnedInv'
  <1>. DEFINE c == teamCall[k]
              n == Len(invites) + 1
              r == [c EXCEPT !.step = "mail", !.invite = n]
  <1>1. c \in TeamCallRecords /\ c.step = "insert" /\ CallFits(c, creators) /\ n \in Nat
    BY DEF InsertInvite, OwnedInv, OwnedShapes, OnceInv, TeamShapes
  <1>2. r \in TeamCallRecords /\ r.step = "mail" /\ r.op = c.op /\ r.by = c.by
    <2>. HIDE DEF c, n
    <2>. QED  BY <1>1 DEF TeamCallRecords, OtherSteps
  <1>3. teamCall' = [teamCall EXCEPT ![k] = r]
    BY <1>1 DEF InsertInvite, TeamCallRecords, OwnedInv, OnceInv, TeamShapes
  <1>. HIDE DEF r
  <1>4. CallFits(r, creators) /\ ~Deletes(r)  BY <1>1, <1>2 DEF CallFits, Deletes
  <1>. QED  BY <1>1, <1>2, <1>3, <1>4, OwnedQuiet DEF InsertInvite

LEMMA OwnedValidate ==
    ASSUME OwnedInv, OnceInv', InvitesStay, NEW k \in TeamCalls, Validate(k)
    PROVE  OwnedInv'
  <1>1. teamCall[k].step = "validate" /\ UNCHANGED <<creators, history>>
    BY DEF Validate
  <1>2. CASE End(k)  BY <1>1, <1>2, OwnedEnds
  <1>3. ASSUME NEW s \in {"profile", "member"}, Proceed(k, s)  PROVE OwnedInv'
    BY <1>1, <1>3, OwnedProceeds DEF AcceptSteps
  <1>. QED  BY <1>2, <1>3 DEF Validate

\* The creator just made has no owner yet, and the call that made it goes on to give it one.
LEMMA OwnedProfile ==
    ASSUME OwnedInv, OnceInv', InvitesStay, NEW k \in TeamCalls, InsertProfile(k)
    PROVE  OwnedInv'
  <1>. PICK i, d : i = teamCall[k].invite /\ d = teamCall[k].creator  OBVIOUS
  <1>. DEFINE c == teamCall[k]
              m == Len(creators) + 1
              r == [c EXCEPT !.step = "owner", !.creator = m]
              p == [by |-> i, members |-> [u \in People |-> None]]
  <1>1. /\ c.op = "accept" /\ c.step = "profile" /\ c \in TeamCallRecords
        /\ CallFits(c, creators) /\ i \in DOMAIN invites /\ c.invite = i
    BY AtAcceptance DEF InsertProfile, AcceptSteps, OwnedInv, OwnedShapes
  <1>2. m \in Nat /\ m \in 2..m /\ creators \in Seq(CreatorRecords)
    BY DEF OwnedInv, OwnedShapes
  <1>3. r \in TeamCallRecords /\ r.op = "accept" /\ r.step = "owner" /\ r.invite = i
        /\ r.creator = m /\ r.by = c.by
    <2>. HIDE DEF c, m
    <2>. QED  BY <1>1, <1>2 DEF TeamCallRecords, AcceptSteps
  <1>4. teamCall' = [teamCall EXCEPT ![k] = r]
    BY <1>1 DEF InsertProfile, TeamCallRecords, OwnedInv, OnceInv, TeamShapes
  <1>. HIDE DEF r
  <1>5. p \in CreatorRecords /\ p.by = i
    <2>1. i \in Nat  BY <1>1 DEF OwnedInv, OnceInv, TeamShapes
    <2>. QED  BY <2>1 DEF CreatorRecords, Ranks
  <1>6. creators' = Append(creators, p)  BY DEF InsertProfile
  <1>. HIDE DEF p
  <1>7. /\ creators' \in Seq(CreatorRecords) /\ Len(creators') = m /\ creators'[m] = p
        /\ \A e \in 1..Len(creators) : creators'[e] = creators[e]
    BY <1>2, <1>5, <1>6
  <1>8. 1 \in 1..Len(creators) /\ Len(creators) \in Nat  BY DEF OwnedInv, OwnedShapes
  <1>9. \A e \in 1..Len(creators) : Owners(e)' = Owners(e)  BY <1>7 DEF Owners, MembersOf
  <1>10. CreatorsStay  BY <1>7, <1>8, <1>9 DEF CreatorsStay
  <1>11. CallFits(r, creators') /\ ~Deletes(r)
    BY <1>1, <1>2, <1>3, <1>5, <1>7 DEF CallFits, Deletes
  <1>12. UNCHANGED history /\ history' \in [demoted: BOOLEAN, crossed: BOOLEAN]
    BY DEF InsertProfile, OwnedInv, OwnedShapes
  <1>13. FirstOwned'
    <2>1. Owners(1) \subseteq Owners(1)'  BY <1>8, <1>9
    <2>. QED  BY <1>3, <1>4, <1>11, <1>12, <2>1, FirstStaysOwned
  <1>14. \A e \in (Len(creators) + 1)..Len(creators') :
            r.step = "owner" /\ r.creator = e /\ creators'[e].by \in DOMAIN invites'
    <2>1. (Len(creators) + 1)..Len(creators') = {m}  BY <1>7, <1>8
    <2>. QED  BY <1>1, <1>3, <1>5, <1>7, <2>1 DEF InvitesStay
  <1>15. OwnedShapes' /\ OthersOwned'
    BY <1>1, <1>3, <1>4, <1>10, <1>11, <1>12, <1>14, OthersStayOwned
  <1>. QED  BY <1>13, <1>15 DEF OwnedInv

\* A member is added, or made an owner, by an acceptance that goes on to mark its invite.
LEMMA OwnedJoins ==
    ASSUME OwnedInv, OnceInv', InvitesStay, UNCHANGED history, NEW k \in TeamCalls,
           Proceed(k, "mark"), NEW u \in People, NEW x \in Ranks, NEW c \in DOMAIN creators,
           creators' = [creators EXCEPT ![c].members[u] = x],
           x = "owner" \/ u \notin Owners(c),
           NEW d, d = teamCall[k].creator,
           teamCall[k].step = "owner" => x = "owner" /\ c = d
    PROVE  OwnedInv'
  <1>1. PICK r \in TeamCallRecords :
            /\ teamCall' = [teamCall EXCEPT ![k] = r] /\ r.step = "mark"
            /\ r.op = teamCall[k].op /\ r.invite = teamCall[k].invite
            /\ r.by = teamCall[k].by /\ r.user = teamCall[k].user
    BY ProceedIs DEF OwnedInv, OnceInv, AcceptSteps
  <1>2. creators \in Seq(CreatorRecords) /\ CallFits(teamCall[k], creators)
        /\ 1 \in DOMAIN creators
    BY DEF OwnedInv, OwnedShapes
  <1>3. CallFits(r, creators') /\ ~Deletes(r)  BY <1>1, <1>2 DEF CallFits, Deletes
  <1>4. /\ creators' \in Seq(CreatorRecords) /\ Len(creators') = Len(creators)
        /\ \A e \in DOMAIN creators : creators'[e].by = creators[e].by
        /\ \A e \in DOMAIN creators \ {c} : Owners(e)' = Owners(e)
        /\ Owners(c)' = IF x = "owner" THEN Owners(c) \cup {u} ELSE Owners(c) \ {u}
    BY <1>2, RoleWritten
  <1>5. \A e \in DOMAIN creators : Owners(e) \subseteq Owners(e)'  BY <1>4
  <1>6. CreatorsStay /\ (Len(creators) + 1)..Len(creators') = {}
    <2>1. Len(creators) \in Nat /\ DOMAIN creators = 1..Len(creators)  BY <1>2
    <2>. QED  BY <1>4, <1>5, <2>1 DEF CreatorsStay
  <1>7. history' \in [demoted: BOOLEAN, crossed: BOOLEAN]  BY DEF OwnedInv, OwnedShapes
  <1>8. teamCall[k].step = "owner" => Owners(d)' # {}  BY <1>4
  <1>9. OwnedShapes' /\ OthersOwned'
    BY <1>1, <1>3, <1>6, <1>7, <1>8, OthersStayOwned
  <1>10. FirstOwned'  BY <1>1, <1>2, <1>3, <1>5, FirstStaysOwned
  <1>. QED  BY <1>9, <1>10 DEF OwnedInv

LEMMA OwnedOwner ==
    ASSUME OwnedInv, OnceInv', InvitesStay, NEW k \in TeamCalls, InsertOwner(k)
    PROVE  OwnedInv'
  <1>. PICK d, u : d = teamCall[k].creator /\ u = teamCall[k].by  OBVIOUS
  <1>1. teamCall[k].op = "accept" /\ CallFits(teamCall[k], creators)
        /\ teamCall[k].step = "owner"
    BY AtAcceptance DEF InsertOwner, AcceptSteps, OwnedInv, OwnedShapes
  <1>2. u \in People /\ d \in DOMAIN creators  BY <1>1 DEF CallFits, OwnedInv, OwnedShapes
  <1>3. creators' = [creators EXCEPT ![d].members[u] = "owner"]
        /\ Proceed(k, "mark") /\ UNCHANGED history
    BY DEF InsertOwner
  <1>4. "owner" \in Ranks  BY DEF Ranks, Roles
  <1>. QED  BY <1>2, <1>3, <1>4, OwnedJoins

LEMMA OwnedMember ==
    ASSUME OwnedInv, OnceInv', InvitesStay, NEW k \in TeamCalls, InsertMember(k)
    PROVE  OwnedInv'
  <1>. PICK i, u : i = teamCall[k].invite /\ u = teamCall[k].by  OBVIOUS
  <1>1. /\ teamCall[k].op = "accept" /\ CallFits(teamCall[k], creators)
        /\ teamCall[k].step = "member" /\ invites[i] \in InviteRecords
    BY AtAcceptance DEF InsertMember, AcceptSteps, OwnedInv, OwnedShapes
  <1>2. Proceed(k, "mark") /\ UNCHANGED history  BY DEF InsertMember
  <1>3. CASE UNCHANGED creators
    BY <1>1, <1>2, <1>3, OwnedProceeds DEF AcceptSteps
  <1>4. CASE MembersOf(1)[u] = None
             /\ creators' = [creators EXCEPT ![1].members[u] = invites[i].role]
    <2>. PICK x, d : x = invites[i].role /\ d = teamCall[k].creator  OBVIOUS
    <2>1. u \in People /\ 1 \in DOMAIN creators  BY <1>1 DEF CallFits, OwnedInv, OwnedShapes
    <2>2. x \in Ranks  BY <1>1 DEF InviteRecords
    <2>3. u \notin Owners(1)  BY <1>4, TeamAssumption DEF Owners, Roles
    <2>4. creators' = [creators EXCEPT ![1].members[u] = x]  BY <1>4
    <2>. QED  BY <1>1, <1>2, <2>1, <2>2, <2>3, <2>4, OwnedJoins
  <1>. QED  BY <1>3, <1>4 DEF InsertMember

\* An acceptance that dies before its creator has an owner has muddled its invite.
LEMMA OwnedCrash ==
    ASSUME OwnedInv, OnceInv', InvitesStay, NEW k \in TeamCalls, TeamCrash(k)
    PROVE  OwnedInv'
  <1>1. End(k) /\ UNCHANGED <<creators, history>>  BY DEF TeamCrash
  <1>2. ASSUME teamCall[k].step = "owner"
        PROVE  invites'[teamCall[k].invite].muddled
    <2>. PICK i : i = teamCall[k].invite  OBVIOUS
    <2>. DEFINE v == [invites[i] EXCEPT !.muddled = TRUE]
    <2>1. k \in Accepting(i) /\ i \in DOMAIN invites /\ invites[i] \in InviteRecords
      BY <1>2, AtAcceptance DEF AcceptSteps, OwnedInv
    <2>2. invites' = [invites EXCEPT ![i] = v]  BY <2>1 DEF TeamCrash
    <2>3. v.muddled  BY <2>1 DEF InviteRecords
    <2>. HIDE DEF v
    <2>4. invites'[i] = v  BY <2>1, <2>2 DEF OwnedInv, OnceInv, TeamShapes
    <2>. QED  BY <2>3, <2>4
  <1>. QED  BY <1>1, <1>2, OwnedEnds

\* No step but a call's own: an invite runs out.
LEMMA OwnedIdle ==
    ASSUME OwnedInv, OnceInv', InvitesStay, UNCHANGED <<creators, teamCall, history>>
    PROVE  OwnedInv'
  <1>1. \A c : Owners(c)' = Owners(c)  BY DEF Owners, MembersOf
  <1>2. FirstOwned'  BY <1>1 DEF OwnedInv, FirstOwned, Spared
  <1>3. OwnedShapes' /\ OthersOwned'
    BY <1>1 DEF OwnedInv, OwnedShapes, OthersOwned, InvitesStay
  <1>. QED  BY <1>2, <1>3 DEF OwnedInv

-----------------------------------------------------------------------------
\* The step writes one invite, or adds one, and none gets rid of its muddle.
LEMMA OneWritten ==
    ASSUME TeamShapes, TeamShapes', NEW i, NEW v,
           invites' = [invites EXCEPT ![i] = v],
           i \in DOMAIN invites /\ invites[i].muddled => v.muddled
    PROVE  InvitesStay
  <1>1. DOMAIN invites' = DOMAIN invites  BY DEF TeamShapes
  <1>2. \A j \in DOMAIN invites : invites'[j] = IF j = i THEN v ELSE invites[j]
    BY DEF TeamShapes
  <1>. QED  BY <1>1, <1>2 DEF InvitesStay

LEMMA InvitesGrow ==
    ASSUME OnceInv, OnceInv', [TeamNext]_teamVars  PROVE InvitesStay
  <1>0. TeamShapes /\ TeamShapes' /\ \A i \in DOMAIN invites : invites[i] \in InviteRecords
    BY DEF OnceInv, TeamShapes
  <1>1. CASE UNCHANGED invites  BY <1>1 DEF InvitesStay
  <1>2. ASSUME NEW k \in TeamCalls,
               \/ MailInvite(k) \/ InsertProfile(k) \/ InsertMember(k) \/ MarkAccepted(k)
               \/ Validate(k) \/ TeamCrash(k)
        PROVE  InvitesStay
    <2>. PICK i : i = teamCall[k].invite  OBVIOUS
    <2>1. CASE UNCHANGED invites  BY <2>1, <1>1
    <2>2. CASE invites' = [invites EXCEPT ![i].mailed = TRUE]
      <3>1. i \in DOMAIN invites => [invites[i] EXCEPT !.mailed = TRUE].muddled = invites[i].muddled
        BY <1>0 DEF InviteRecords
      <3>. QED  BY <1>0, <2>2, <3>1, OneWritten
    <2>3. CASE invites' = [invites EXCEPT ![i].effects = @ + 1]
      <3>. PICK n : n = invites[i].effects + 1  OBVIOUS
      <3>1. i \in DOMAIN invites => [invites[i] EXCEPT !.effects = n].muddled = invites[i].muddled
        BY <1>0 DEF InviteRecords
      <3>2. invites' = [invites EXCEPT ![i] = [invites[i] EXCEPT !.effects = n]]  BY <2>3
      <3>. QED  BY <1>0, <3>1, <3>2, OneWritten
    <2>4. CASE invites' = [invites EXCEPT ![i].accepted = TRUE]
      <3>1. i \in DOMAIN invites => [invites[i] EXCEPT !.accepted = TRUE].muddled = invites[i].muddled
        BY <1>0 DEF InviteRecords
      <3>. QED  BY <1>0, <2>4, <3>1, OneWritten
    <2>5. CASE invites' = [invites EXCEPT ![i].muddled = @ \/ Accepting(i) # {}]
      <3>. PICK b : b = (invites[i].muddled \/ Accepting(i) # {})  OBVIOUS
      <3>1. i \in DOMAIN invites => [invites[i] EXCEPT !.muddled = b].muddled = b
        BY <1>0 DEF InviteRecords
      <3>2. invites' = [invites EXCEPT ![i] = [invites[i] EXCEPT !.muddled = b]]  BY <2>5
      <3>. QED  BY <1>0, <3>1, <3>2, OneWritten
    <2>6. CASE invites' = [invites EXCEPT ![i].muddled = TRUE]
      <3>1. i \in DOMAIN invites => [invites[i] EXCEPT !.muddled = TRUE].muddled
        BY <1>0 DEF InviteRecords
      <3>. QED  BY <1>0, <2>6, <3>1, OneWritten
    <2>. QED
      BY <1>2, <2>1, <2>2, <2>3, <2>4, <2>5, <2>6
         DEF MailInvite, InsertProfile, InsertMember, MarkAccepted, Validate, TeamCrash
  <1>3. ASSUME NEW k \in TeamCalls, InsertInvite(k)  PROVE InvitesStay
    <2>1. PICK v : invites' = Append(invites, v)  BY <1>3 DEF InsertInvite
    <2>. QED  BY <1>0, <2>1 DEF InvitesStay, TeamShapes
  <1>4. ASSUME NEW i \in DOMAIN invites, ExpireInvite(i)  PROVE InvitesStay
    <2>1. [invites[i] EXCEPT !.expired = TRUE].muddled = invites[i].muddled
      BY <1>0 DEF InviteRecords
    <2>. QED  BY <1>0, <1>4, <2>1, OneWritten DEF ExpireInvite
  <1>5. ASSUME NEW k \in TeamCalls, TeamRequest(k)  PROVE UNCHANGED invites
    BY <1>5 DEF TeamRequest, RequestAccept, RequestOwnerInvite, RequestChange, Ask
  <1>6. ASSUME NEW k \in TeamCalls,
               Permission(k) \/ Existing(k) \/ CountOwners(k) \/ WriteMember(k) \/ InsertOwner(k)
        PROVE  UNCHANGED invites
    BY <1>6 DEF Permission, Existing, CountOwners, WriteMember, InsertOwner
  <1>7. UNCHANGED teamVars => UNCHANGED invites  BY DEF teamVars
  <1>. QED  BY <1>1, <1>2, <1>3, <1>4, <1>5, <1>6, <1>7 DEF TeamNext, TeamStep

LEMMA OwnedInit ==
    ASSUME TeamInit  PROVE OwnedInv
  <1>. DEFINE m == [u \in People |-> IF u \in Founders THEN "owner" ELSE None]
              p == [by |-> 0, members |-> m]
  <1>1. creators = <<p>> /\ teamCall = [k \in TeamCalls |-> NoTeamCall]
        /\ history = [demoted |-> FALSE, crossed |-> FALSE]
    BY DEF TeamInit
  <1>2. m \in [People -> Ranks]  BY DEF Ranks, Roles
  <1>3. p \in CreatorRecords  BY <1>2 DEF CreatorRecords
  <1>4. Owners(1) # {}
    <2>1. creators[1].members = m  BY <1>1
    <2>2. \E u \in People : m[u] = "owner"  BY TeamAssumption
    <2>. QED  BY <2>1, <2>2 DEF Owners, MembersOf
  <1>. HIDE DEF p
  <1>5. creators \in Seq(CreatorRecords) /\ Len(creators) = 1 /\ 2..Len(creators) = {}
    BY <1>1, <1>3
  <1>6. history \in [demoted: BOOLEAN, crossed: BOOLEAN]  BY <1>1
  <1>7. \A k \in TeamCalls : CallFits(teamCall[k], creators) /\ ~Deletes(teamCall[k])
    BY <1>1, NoCallIs DEF CallFits, Deletes
  <1>. QED
    BY <1>4, <1>5, <1>6, <1>7, OnceInit DEF OwnedInv, OwnedShapes, FirstOwned, OthersOwned

LEMMA OwnedNext ==
    ASSUME OwnedInv, [TeamNext]_teamVars  PROVE OwnedInv'
  <1>1. OnceInv'  BY OnceNext DEF OwnedInv
  <1>2. InvitesStay  BY <1>1, InvitesGrow DEF OwnedInv
  <1>3. ASSUME UNCHANGED <<creators, teamCall, history>>  PROVE OwnedInv'
    BY <1>1, <1>2, <1>3, OwnedIdle
  <1>4. ASSUME NEW k \in TeamCalls, MailInvite(k) \/ MarkAccepted(k)  PROVE OwnedInv'
    BY <1>1, <1>2, <1>4, OwnedEnds DEF MailInvite, MarkAccepted
  <1>5. ASSUME NEW k \in TeamCalls, TeamStep(k)  PROVE OwnedInv'
    BY <1>1, <1>2, <1>4, <1>5, OwnedPermission, OwnedExisting, OwnedCount, OwnedWriteMember,
       OwnedInsertInvite, OwnedValidate, OwnedProfile, OwnedOwner, OwnedMember, OwnedCrash
       DEF TeamStep
  <1>. QED
    BY <1>1, <1>2, <1>3, <1>5, OwnedRequest DEF TeamNext, ExpireInvite, teamVars

\* creator-members.routes.ts:245-268, invites.ts:180-205: every creator has an owner, unless
\* one was demoted, a removal crossed another call that may take an owner away, or the
\* acceptance that made the creator overlapped another or died.
THEOREM Owned ==
    TeamSpec => []AlwaysOwned
  <1>1. TeamInit => OwnedInv  BY OwnedInit
  <1>2. OwnedInv /\ [TeamNext]_teamVars => OwnedInv'  BY OwnedNext
  <1>3. OwnedInv => AlwaysOwned
    BY DEF OwnedInv, FirstOwned, OthersOwned, AlwaysOwned
  <1>. QED  BY <1>1, <1>2, <1>3, PTL DEF TeamSpec
=============================================================================
