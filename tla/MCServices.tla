----------------------------- MODULE MCServices -----------------------------
(***************************************************************************)
(* Instances of seven components that share no state: subscriptions, the   *)
(* media pipeline, go-live mail, the inbox, creator teams, the library and *)
(* the event spine.  Interleaving them would add nothing, so in each       *)
(* behaviour one of them moves, and which one is chosen at the start.      *)
(***************************************************************************)
EXTENDS Subscriptions, MediaPipeline, GoLiveMail, Inbox, CreatorTeam, Library,
        EventSpine, TLC

CONSTANTS
    Parts,   \* those that are looked at
    ann, ben, c1, c2, s1, s2, v1, v2

VARIABLE part

AnnsAll  == [s \in Subs |-> ann]
OneOrAll == [s \in Subs |-> IF s = s1 THEN {c1} ELSE Creators]

\* The two stand for slots of calls, and for files: each pair is interchangeable.
Symmetric == Permutations({v1, v2})

\* Where a component has several initial states, one for when it does not move.
Init ==
    /\ part \in Parts
    /\ BillingInit /\ MediaInit /\ MailInit /\ InboxInit /\ TeamInit /\ LibraryInit
    /\ SpineInit
    /\ part # "library" => legacy = {}
    /\ part # "bell" => inbox = <<>>
    /\ part # "reminders" => startAt = [e \in Events |-> 1]

\* Two parts of the inbox: the bell with its rows and sockets, and the reminders.
Bell == InboxNext /\ UNCHANGED <<tick, fired, startAt, deleted, toggle>>
Reminders ==
    /\ InboxNext
    /\ bell' = [bell EXCEPT !.ws = bell'.ws]
    /\ spent'["rows"] = 0
    /\ Cardinality({p \in Pushes : push'[p] # NoPush}) <= 1

\* The first of a team's calls is over before the others, which overlap, begin.
Team == TeamNext /\ (asked = 1 /\ asked' = 2 => \A k \in TeamCalls : teamCall[k] = NoTeamCall)

Next ==
    /\ UNCHANGED part
    /\ IF part = "billing" THEN BillingNext ELSE UNCHANGED billingVars
    /\ IF part = "media" THEN MediaNext ELSE UNCHANGED mediaVars
    /\ IF part = "mail" THEN MailNext ELSE UNCHANGED mailVars
    /\ IF part = "bell" THEN Bell
       ELSE IF part = "reminders" THEN Reminders ELSE UNCHANGED inboxVars
    /\ IF part = "team" THEN Team ELSE UNCHANGED teamVars
    /\ IF part = "library" THEN LibraryNext ELSE UNCHANGED libraryVars
    /\ IF part = "spine" THEN SpineNext ELSE UNCHANGED spineVars

\* What moves stands for the state: the rest is what it was.
Moving ==
    CASE part = "billing" -> <<part, billingVars>>
      [] part = "media" -> <<part, mediaVars>>
      [] part = "mail" -> <<part, mailVars>>
      [] part \in {"bell", "reminders"} -> <<part, inboxVars>>
      [] part = "team" -> <<part, teamVars>>
      [] part = "library" -> <<part, libraryVars>>
      [] part = "spine" -> <<part, spineVars>>

everything ==
    <<part, billingVars, mediaVars, mailVars, inboxVars, teamVars, libraryVars, spineVars>>

Spec == Init /\ [][Next]_everything

\* The fairness of the four components with a liveness property, joined: one moves.
RunsOn(v) ==
    /\ UNCHANGED <<part, inboxVars, teamVars, libraryVars>>
    /\ IF part = "billing" THEN BillingStep(v) ELSE UNCHANGED billingVars
    /\ IF part = "media" THEN v \in MediaTasks /\ MediaStep(v) ELSE UNCHANGED mediaVars
    /\ IF part = "mail" THEN v \in Passes /\ PassStep(v) ELSE UNCHANGED mailVars
    /\ IF part = "spine" THEN v \in Streams /\ StreamStep(v) ELSE UNCHANGED spineVars
HandedOut ==
    /\ UNCHANGED <<part, inboxVars, teamVars, libraryVars, spineVars>>
    /\ IF part = "billing" THEN Delivery ELSE UNCHANGED billingVars
    /\ IF part = "media" THEN \E v \in MediaTasks : TakeJob(v) ELSE UNCHANGED mediaVars
    /\ IF part = "mail" THEN \E i \in 1..MaxMails : MailStep(i) ELSE UNCHANGED mailVars

FairSpec ==
    /\ Spec
    /\ \A v \in {v1, v2} : WF_everything(RunsOn(v))
    /\ SF_everything(HandedOut)
=============================================================================
