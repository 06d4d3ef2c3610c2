----------------------------- MODULE CreatorTeam -----------------------------
(***************************************************************************)
(* The team of a creator and the invites that fill it: who may invite, add,*)
(* change and remove members, and what accepting an invite does, as calls  *)
(* that read the database and write it several awaits later.               *)
(* (services/invites.ts, services/creator-team.ts,                         *)
(* routes/invite.routes.ts, routes/creator-members.routes.ts.)             *)
(* The first creator has a team that changes; the others are those that    *)
(* the invites of owners create.                                           *)
(***************************************************************************)
EXTENDS ApiCalls, Naturals, Sequences, SequencesExt, FiniteSets

CONSTANTS
    TeamCalls,   \* slots for requests in flight
    People,      \* users, each with an email of their own
    Admins,      \* users with the platform role admin
    Founders,    \* the owners of the first creator, at first
    MaxInvites, MaxTeamCalls,  \* bounds: invites, and requests in all
    TeamFaults

Roles == {"owner", "editor", "viewer"}

ASSUME TeamAssumption ==
    /\ Admins \subseteq People
    /\ Founders \subseteq People /\ Founders # {}
    /\ MaxInvites \in Nat /\ MaxTeamCalls \in Nat
    /\ None \notin Roles
    /\ TeamFaults \subseteq {"crash", "mail"}

VARIABLES
    creators,  \* creator_profiles, each with its creator_members
    invites,   \* invite_tokens
    teamCall,  \* the requests in flight
    asked,     \* requests so far
    history    \* what makes an ownerless creator explicable

teamVars == <<creators, invites, teamCall, asked, history>>

NoTeamCall == [op |-> "none", step |-> "idle", by |-> None, user |-> None, role |-> None,
               invite |-> 0, creator |-> 0]

MembersOf(c) == creators[c].members
Owners(c)  == {u \in People : MembersOf(c)[u] = "owner"}

Proceed(k, step) == teamCall' = [teamCall EXCEPT ![k].step = step]
End(k)      == teamCall' = [teamCall EXCEPT ![k] = NoTeamCall]

-----------------------------------------------------------------------------
(* requireCreatorPermission(manageMembers): CREATOR_ROLE_PERMISSIONS gives it to *)
(* owners alone, and the platform's admins pass every check.                     *)

MayManage(u) == u \in Admins \/ u \in Owners(1)

Ask(k, call, step) ==
    /\ teamCall[k] = NoTeamCall
    /\ asked < MaxTeamCalls
    /\ asked' = asked + 1
    /\ teamCall' = [teamCall EXCEPT ![k] = [call EXCEPT !.step = step]]
    /\ UNCHANGED <<creators, invites, history>>

RequestChange(k, by, op, u, role) ==
    Ask(k, [NoTeamCall EXCEPT !.op = op, !.by = by, !.user = u, !.role = role], "permission")

\* An invite of an owner is for admins, by the roles the session came with.
RequestOwnerInvite(k, by, u) ==
    /\ by \in Admins
    /\ Len(invites) < MaxInvites
    /\ Ask(k, [NoTeamCall EXCEPT !.op = "ownerInvite", !.by = by, !.user = u,
                                 !.role = "owner"], "insert")

Permission(k) ==
    /\ teamCall[k].step = "permission"
    /\ IF ~MayManage(teamCall[k].by) THEN End(k)
       ELSE Proceed(k, IF teamCall[k].op = "teamInvite" THEN "insert" ELSE "existing")
    /\ UNCHANGED <<creators, invites, asked, history>>

-----------------------------------------------------------------------------
(* The members' routes *)

\* Mutated Existing: one owner is enough to remove an owner.
ExistingAnyOwner(k) ==
    /\ teamCall[k].step = "existing"
    /\ LET role == MembersOf(1)[teamCall[k].user]
       IN  IF (teamCall[k].op = "add") # (role = None) THEN End(k) ELSE Proceed(k, "write")
    /\ UNCHANGED <<creators, invites, asked, history>>

\* Already a member, or not one: the call ends.  Who removes an owner counts them.
Existing(k) ==
    /\ teamCall[k].step = "existing"
    /\ LET role == MembersOf(1)[teamCall[k].user]
       IN  IF (teamCall[k].op = "add") # (role = None) THEN End(k)
           ELSE Proceed(k, IF teamCall[k].op = "remove" /\ role = "owner" THEN "count" ELSE "write")
    /\ UNCHANGED <<creators, invites, asked, history>>

CountOwners(k) ==
    /\ teamCall[k].step = "count"
    /\ IF Cardinality(Owners(1)) <= 1 THEN End(k) ELSE Proceed(k, "write")
    /\ UNCHANGED <<creators, invites, asked, history>>

\* The calls that may take an owner away, past the look that let them.
Removing == {k \in TeamCalls : teamCall[k].op \in {"remove", "patch"}
                               /\ teamCall[k].step \in {"count", "write"}}

\* An insert for who has joined meanwhile fails on the key; an update or a delete of
\* who has left finds no row.
WriteMember(k) ==
    /\ teamCall[k].step = "write"
    /\ LET c == teamCall[k]
           was == MembersOf(1)[c.user]
           is == CASE c.op = "add"    -> IF was = None THEN c.role ELSE was
                   [] c.op = "patch"  -> IF was = None THEN None ELSE c.role
                   [] c.op = "remove" -> None
       IN  /\ creators' = [creators EXCEPT ![1].members[c.user] = is]
           /\ history' = [history EXCEPT
                !.demoted = @ \/ (c.op = "patch" /\ was = "owner" /\ is # "owner"),
                !.crossed = @ \/ (was = "owner" /\ is # "owner" /\ Removing # {k})]
    /\ End(k)
    /\ UNCHANGED <<invites, asked>>

-----------------------------------------------------------------------------
(* createInvite *)

InsertInvite(k) ==
    /\ teamCall[k].step = "insert"
    /\ Len(invites) < MaxInvites
    /\ invites' = Append(invites,
                     [type |-> teamCall[k].op, email |-> teamCall[k].user,
                      role |-> teamCall[k].role, mailed |-> FALSE, expired |-> FALSE,
                      accepted |-> FALSE, effects |-> 0, muddled |-> FALSE])
    /\ teamCall' = [teamCall EXCEPT ![k].step = "mail", ![k].invite = Len(invites) + 1]
    /\ UNCHANGED <<creators, asked, history>>

\* The token is in the mail and nowhere else: if the mail fails, the row is of no use.
MailInvite(k) ==
    /\ teamCall[k].step = "mail"
    /\ \/ invites' = [invites EXCEPT ![teamCall[k].invite].mailed = TRUE]
       \/ "mail" \in TeamFaults /\ UNCHANGED invites
    /\ End(k)
    /\ UNCHANGED <<creators, asked, history>>

ExpireInvite(i) ==
    /\ i \in DOMAIN invites /\ ~invites[i].expired /\ ~invites[i].accepted
    /\ invites' = [invites EXCEPT ![i].expired = TRUE]
    /\ UNCHANGED <<creators, teamCall, asked, history>>

-----------------------------------------------------------------------------
(* acceptInvite *)

RequestAccept(k, by, i) ==
    /\ i \in DOMAIN invites /\ invites[i].mailed
    /\ Ask(k, [NoTeamCall EXCEPT !.op = "accept", !.by = by, !.invite = i], "validate")

Accepting(i) == {k \in TeamCalls : teamCall[k].op = "accept" /\ teamCall[k].invite = i
                                   /\ teamCall[k].step # "validate"}

\* Mutated Validate: what was accepted is not looked at.
ValidateUnexpired(k) ==
    /\ teamCall[k].step = "validate"
    /\ LET i == teamCall[k].invite
       IN  IF invites[i].expired \/ invites[i].email # teamCall[k].by
           THEN End(k)
           ELSE Proceed(k, IF invites[i].type = "ownerInvite" THEN "profile" ELSE "member")
    /\ UNCHANGED <<creators, invites, asked, history>>

Validate(k) ==
    /\ teamCall[k].step = "validate"
    /\ LET i == teamCall[k].invite
       IN  IF invites[i].accepted \/ invites[i].expired \/ invites[i].email # teamCall[k].by
           THEN End(k) /\ UNCHANGED invites
           ELSE /\ Proceed(k, IF invites[i].type = "ownerInvite" THEN "profile" ELSE "member")
                /\ invites' = [invites EXCEPT ![i].muddled = @ \/ Accepting(i) # {}]
    /\ UNCHANGED <<creators, asked, history>>

InsertProfile(k) ==
    /\ teamCall[k].step = "profile"
    /\ creators' = Append(creators, [by |-> teamCall[k].invite,
                                     members |-> [u \in People |-> None]])
    /\ invites' = [invites EXCEPT ![teamCall[k].invite].effects = @ + 1]
    /\ teamCall' = [teamCall EXCEPT ![k].step = "owner", ![k].creator = Len(creators) + 1]
    /\ UNCHANGED <<asked, history>>

InsertOwner(k) ==
    /\ teamCall[k].step = "owner"
    /\ creators' = [creators EXCEPT ![teamCall[k].creator].members[teamCall[k].by] = "owner"]
    /\ Proceed(k, "mark")
    /\ UNCHANGED <<invites, asked, history>>

\* ON CONFLICT DO NOTHING: who is a member already stays what they are.
InsertMember(k) ==
    /\ teamCall[k].step = "member"
    /\ LET i == teamCall[k].invite
           u == teamCall[k].by
       IN  IF MembersOf(1)[u] # None THEN UNCHANGED <<creators, invites>>
           ELSE /\ creators' = [creators EXCEPT ![1].members[u] = invites[i].role]
                /\ invites' = [invites EXCEPT ![i].effects = @ + 1]
    /\ Proceed(k, "mark")
    /\ UNCHANGED <<asked, history>>

MarkAccepted(k) ==
    /\ teamCall[k].step = "mark"
    /\ invites' = [invites EXCEPT ![teamCall[k].invite].accepted = TRUE]
    /\ End(k)
    /\ UNCHANGED <<creators, asked, history>>

-----------------------------------------------------------------------------
\* A request dies between two awaits, with the server or on an error.
TeamCrash(k) ==
    /\ "crash" \in TeamFaults
    /\ teamCall[k] # NoTeamCall
    /\ invites' = IF k \in Accepting(teamCall[k].invite)
                  THEN [invites EXCEPT ![teamCall[k].invite].muddled = TRUE] ELSE invites
    /\ End(k)
    /\ UNCHANGED <<creators, asked, history>>

TeamInit ==
    /\ creators = <<[by |-> 0, members |-> [u \in People |->
                                              IF u \in Founders THEN "owner" ELSE None]]>>
    /\ invites = <<>>
    /\ teamCall = [k \in TeamCalls |-> NoTeamCall]
    /\ asked = 0
    /\ history = [demoted |-> FALSE, crossed |-> FALSE]

TeamStep(k) ==
    \/ Permission(k) \/ Existing(k) \/ CountOwners(k) \/ WriteMember(k)
    \/ InsertInvite(k) \/ MailInvite(k)
    \/ Validate(k) \/ InsertProfile(k) \/ InsertOwner(k) \/ InsertMember(k) \/ MarkAccepted(k)
    \/ TeamCrash(k)

TeamRequest(k) ==
    \E by \in People :
        \/ \E i \in DOMAIN invites : RequestAccept(k, by, i)
        \/ \E u \in People :
            \/ RequestOwnerInvite(k, by, u)
            \/ RequestChange(k, by, "remove", u, None)
            \/ \E role \in Roles, op \in {"add", "patch", "teamInvite"} :
                RequestChange(k, by, op, u, role)

TeamNext ==
    \/ \E k \in TeamCalls : TeamRequest(k) \/ TeamStep(k)
    \/ \E i \in DOMAIN invites : ExpireInvite(i)

TeamSpec == TeamInit /\ [][TeamNext]_teamVars

-----------------------------------------------------------------------------
(* Properties *)

\* The range of the tables.
TeamTypeOK ==
    /\ creators \in Seq([by: 0..MaxInvites, members: [People -> Roles \cup {None}]])
    /\ Len(creators) >= 1
    /\ invites \in Seq([type: {"ownerInvite", "teamInvite"}, email: People, role: Roles,
                        mailed: BOOLEAN, expired: BOOLEAN, accepted: BOOLEAN,
                        effects: Nat, muddled: BOOLEAN])
    /\ Len(invites) <= MaxInvites

\* An invite is good for one creator, or for one entry to the team, however often it
\* is accepted; but for acceptances of it that overlapped, and one that died before
\* it said so (invites.ts:213).
InviteOnce == \A i \in DOMAIN invites : invites[i].muddled \/ invites[i].effects <= 1

\* A creator has an owner, but for a demotion, two calls that crossed, and an
\* acceptance cut short.
AlwaysOwned ==
    /\ Owners(1) # {} \/ history.demoted \/ history.crossed
    /\ \A c \in 2..Len(creators) :
        \/ Owners(c) # {}
        \/ invites[creators[c].by].muddled
        \/ \E k \in TeamCalls : teamCall[k].step = "owner" /\ teamCall[k].creator = c
=============================================================================
