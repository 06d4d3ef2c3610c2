------------------------------ MODULE GoLiveMail ------------------------------
(***************************************************************************)
(* The mails that say a channel has gone live: who asked for them, the     *)
(* pass over the audience with its cooldown, and the pg-boss job that      *)
(* sends each one with its retries (services/notify-dispatch.ts,           *)
(* services/notify-when-live.ts, jobs/handlers/notification-send.ts).      *)
(* One channel: the cooldown and the subscriptions are kept by channel.    *)
(***************************************************************************)
EXTENDS ApiCalls, Naturals, Sequences, SequencesExt, FiniteSets

CONSTANTS
    Passes,      \* slots for dispatches in flight
    Readers,     \* users
    Cooldown,    \* GO_LIVE_COOLDOWN_MS, in minutes of the model
    RetryLimit,  \* retryLimit of the notification/send queue
    MaxMinutes, MaxEdges, MaxChanges, \* bounds: time, go-lives, changes of mind
    MailFaults

ASSUME MailAssumption ==
    /\ None \notin Nat
    /\ Cooldown \in Nat /\ RetryLimit \in Nat
    /\ MaxMinutes \in Nat /\ MaxEdges \in Nat /\ MaxChanges \in Nat
    /\ MailFaults \subseteq {"boss", "smtp", "update", "restart"}

VARIABLES
    minute,     \* the clock
    edges,      \* go-lives of the channel so far
    audience,   \* channel_notify_subscriptions
    optedOut,   \* users with the channel_go_live preference disabled
    changes,    \* changes of audience and optedOut so far
    lastDispatchedAt,  \* the cooldown, in memory
    pass,       \* the dispatch in each slot
    mails,      \* notification_jobs, with the pg-boss job of each row
    lapsed      \* history: the last pass threw or overlapped, or the cooldown was lost

mailVars == <<minute, edges, audience, optedOut, changes, lastDispatchedAt, pass,
              mails, lapsed>>

\* A dispatch: `at` is nowMs.  History: `alone`, no other dispatch was in flight with it.
NoPass == [step |-> "idle", at |-> 0, todo |-> {}, alone |-> FALSE]

InFlight == {p \in Passes : pass[p] # NoPass}

\* Mutated IsWithinCooldown: the window is taken in another unit.
IsWithinCooldownSeconds == lastDispatchedAt # None /\ minute = lastDispatchedAt
IsWithinCooldown == lastDispatchedAt # None /\ minute - lastDispatchedAt < Cooldown

-----------------------------------------------------------------------------
(* dispatchChannelGoLive *)

\* The channel goes live.
GoLive(p) ==
    /\ edges < MaxEdges
    /\ pass[p] = NoPass
    /\ edges' = edges + 1
    /\ IF IsWithinCooldown THEN UNCHANGED <<pass, lapsed>>
       ELSE /\ pass' = [q \in Passes |->
                          IF q = p THEN [step |-> "audience", at |-> minute, todo |-> {},
                                         alone |-> InFlight = {}]
                          ELSE [pass[q] EXCEPT !.alone = FALSE]]
            /\ lapsed' = (lapsed \/ InFlight # {})
    /\ UNCHANGED <<minute, audience, optedOut, changes, lastDispatchedAt, mails>>

ResolveAudience(p) ==
    /\ pass[p].step = "audience"
    /\ pass' = [pass EXCEPT ![p].step = "member", ![p].todo = audience]
    /\ UNCHANGED <<minute, edges, audience, optedOut, changes, lastDispatchedAt, mails, lapsed>>

\* A row of notification_jobs, `row` its status; history: its dispatch, and how often
\* the mail left.
Mail(p, u, job) == [user |-> u, row |-> "pending", job |-> job, tries |-> 0, left |-> 0,
                    at |-> pass[p].at, clean |-> pass[p].alone /\ ~lapsed]

\* One member: the preference, the row, boss.send.  A send that throws ends the
\* pass, and its row stays pending.
Member(p, u) ==
    /\ pass[p].step = "member" /\ u \in pass[p].todo
    /\ \/ /\ u \in optedOut
          /\ pass' = [pass EXCEPT ![p].todo = @ \ {u}]
          /\ UNCHANGED <<mails, lapsed>>
       \/ /\ u \notin optedOut
          /\ mails' = Append(mails, Mail(p, u, "created"))
          /\ pass' = [pass EXCEPT ![p].todo = @ \ {u}]
          /\ UNCHANGED lapsed
       \/ /\ u \notin optedOut
          /\ "boss" \in MailFaults
          /\ mails' = Append(mails, Mail(p, u, "none"))
          /\ pass' = [pass EXCEPT ![p] = NoPass]
          /\ lapsed' = TRUE
    /\ UNCHANGED <<minute, edges, audience, optedOut, changes, lastDispatchedAt>>

\* The cooldown counts from the go-live, and is armed after the whole pass.
Arm(p) ==
    /\ pass[p].step = "member" /\ pass[p].todo = {}
    /\ lastDispatchedAt' = pass[p].at
    /\ pass' = [pass EXCEPT ![p] = NoPass]
    /\ lapsed' = ~pass[p].alone
    /\ UNCHANGED <<minute, edges, audience, optedOut, changes, mails>>

-----------------------------------------------------------------------------
(* subscribeToChannel, unsubscribeFromChannel and the preferences *)

ChangeOfMind ==
    /\ changes < MaxChanges
    /\ changes' = changes + 1
    /\ UNCHANGED <<minute, edges, lastDispatchedAt, pass, mails, lapsed>>

SubscribeReader(u) ==
    u \notin audience /\ audience' = audience \cup {u} /\ UNCHANGED optedOut /\ ChangeOfMind
UnsubscribeReader(u) ==
    u \in audience /\ audience' = audience \ {u} /\ UNCHANGED optedOut /\ ChangeOfMind
OptOut(u) ==
    u \notin optedOut /\ optedOut' = optedOut \cup {u} /\ UNCHANGED audience /\ ChangeOfMind
OptIn(u) ==
    u \in optedOut /\ optedOut' = optedOut \ {u} /\ UNCHANGED audience /\ ChangeOfMind

-----------------------------------------------------------------------------
(* handleNotificationSend *)

SendStep(i, step) ==
    /\ i \in DOMAIN mails /\ mails[i].job = step
    /\ UNCHANGED <<minute, edges, audience, optedOut, changes, lastDispatchedAt, pass, lapsed>>

TakeMail(i) ==
    /\ SendStep(i, "created")
    /\ mails' = [mails EXCEPT ![i].job = "active"]

\* Mutated Again: the retries are not counted.
AgainForever(m) == [m EXCEPT !.job = "created"]

\* The job threw, or its process died: pg-boss hands it out again, or gives it up.
Again(m) == IF m.tries < RetryLimit
            THEN [m EXCEPT !.job = "created", !.tries = @ + 1]
            ELSE [m EXCEPT !.job = "dead"]

\* The catch: the row says failed, unless that UPDATE fails too; the job throws.
Threw(m) == {Again([m EXCEPT !.row = "failed"])}
            \cup (IF "update" \in MailFaults THEN {Again(m)} ELSE {})

SendMail(i) ==
    /\ SendStep(i, "active")
    /\ \/ mails' = [mails EXCEPT ![i].job = "leaving", ![i].left = @ + 1]
       \/ /\ "smtp" \in MailFaults
          /\ \E m \in Threw(mails[i]) : mails' = [mails EXCEPT ![i] = m]

\* The UPDATE that says so is in the same try: if it fails the mail is sent again.
MarkSent(i) ==
    /\ SendStep(i, "leaving")
    /\ \/ mails' = [mails EXCEPT ![i].row = "sent", ![i].job = "marked"]
       \/ /\ "update" \in MailFaults
          /\ \E m \in Threw(mails[i]) : mails' = [mails EXCEPT ![i] = m]

\* The handler returned: pg-boss completes the job.
JobDone(i) ==
    /\ SendStep(i, "marked")
    /\ mails' = [mails EXCEPT ![i].job = "done"]

-----------------------------------------------------------------------------
\* The server restarts: passes end where they are, the cooldown is forgotten, and
\* pg-boss finds the jobs it had handed out expired.
MailRestart ==
    /\ "restart" \in MailFaults
    /\ lastDispatchedAt # None \/ InFlight # {}
    /\ lastDispatchedAt' = None
    /\ pass' = [p \in Passes |-> NoPass]
    /\ lapsed' = TRUE
    /\ mails' = [i \in DOMAIN mails |->
                    IF mails[i].job \in {"active", "leaving", "marked"}
                    THEN Again(mails[i]) ELSE mails[i]]
    /\ UNCHANGED <<minute, edges, audience, optedOut, changes>>

MinutePasses ==
    /\ minute < MaxMinutes
    /\ minute' = minute + 1
    /\ UNCHANGED <<edges, audience, optedOut, changes, lastDispatchedAt, pass, mails, lapsed>>

MailInit ==
    /\ minute = 0
    /\ edges = 0
    /\ audience = Readers
    /\ optedOut = {}
    /\ changes = 0
    /\ lastDispatchedAt = None
    /\ pass = [p \in Passes |-> NoPass]
    /\ mails = <<>>
    /\ lapsed = FALSE

PassStep(p) == ResolveAudience(p) \/ Arm(p) \/ \E u \in Readers : Member(p, u)
MailStep(i) == TakeMail(i) \/ SendMail(i) \/ MarkSent(i) \/ JobDone(i)

MailNext ==
    \/ \E p \in Passes : GoLive(p) \/ PassStep(p)
    \/ \E u \in Readers : SubscribeReader(u) \/ UnsubscribeReader(u) \/ OptOut(u) \/ OptIn(u)
    \/ \E i \in DOMAIN mails : MailStep(i)
    \/ MailRestart \/ MinutePasses

MailSpec == MailInit /\ [][MailNext]_mailVars

MaxMails == MaxEdges * Cardinality(Readers)

\* Calls and jobs run on.
MailFairness ==
    /\ \A p \in Passes : WF_mailVars(PassStep(p))
    /\ SF_mailVars(\E i \in 1..MaxMails : MailStep(i))

-----------------------------------------------------------------------------
(* Properties *)

\* The range of every variable; one mail of a pass to a user at most.
MailTypeOK ==
    /\ minute \in 0..MaxMinutes
    /\ edges \in 0..MaxEdges
    /\ audience \subseteq Readers /\ optedOut \subseteq Readers
    /\ changes \in 0..MaxChanges
    /\ lastDispatchedAt = None \/ lastDispatchedAt \in 0..minute
    /\ pass \in [Passes -> [step: {"idle", "audience", "member"}, at: 0..minute,
                            todo: SUBSET Readers, alone: BOOLEAN]]
    /\ mails \in Seq([user: Readers, row: {"pending", "sent", "failed"},
                      job: {"none", "created", "active", "leaving", "marked", "done", "dead"},
                      tries: 0..RetryLimit, left: 0..RetryLimit + 1,
                      at: 0..minute, clean: BOOLEAN])
    /\ lapsed \in BOOLEAN

\* A channel that flaps does not spam (notify-dispatch.ts:22): no subscriber has
\* mails of two go-lives less than the cooldown apart, unless their passes
\* overlapped, or the pass before threw, or the server restarted.
NoSpam ==
    \A i, j \in DOMAIN mails :
        i < j /\ mails[i].user = mails[j].user /\ mails[j].clean
            => mails[j].at - mails[i].at >= Cooldown

\* What is kept of a mail agrees with what happened to it: a row that says sent has
\* left, and a job completes only with such a row.
SentAsRecorded ==
    \A i \in DOMAIN mails :
        /\ mails[i].row = "sent" => mails[i].left > 0
        /\ mails[i].job = "done" => mails[i].row = "sent"

\* Every job that was queued sends its mail, or is given up after its retries.
MailSettles ==
    \A i \in 1..MaxMails :
        i \in DOMAIN mails /\ mails[i].job = "created"
            ~> i \in DOMAIN mails /\ mails[i].job \in {"done", "dead"}
=============================================================================
