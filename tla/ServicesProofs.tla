--------------------------- MODULE ServicesProofs ---------------------------
(***************************************************************************)
(* Theorems about Subscriptions, GoLiveMail, EventSpine and Inbox, for any *)
(* number of calls in flight, events, users, minutes, tabs, streams and    *)
(* sweeps, for any cap and cooldown, and every fault.                      *)
(***************************************************************************)
EXTENDS Subscriptions, GoLiveMail, EventSpine, Inbox, FiniteSetTheorems, SequenceTheorems, WellFoundedInduction, TLAPS

(* Subscriptions: the webhook *)

\* The id in payment_events decides: an event whose handler ran, or is about to,
\* is recorded, and it is about to run in one call at most.
OnceInv ==
    /\ applied \in Seq(Nat)
    /\ \A h \in BillingCalls : call[h].id \in Nat
    /\ DOMAIN call = BillingCalls
    /\ AppliedOnce
    /\ \A j \in DOMAIN applied : applied[j] \in recorded
    /\ \A h \in BillingCalls : call[h].step = "apply" =>
        /\ call[h].id \in recorded
        /\ \A j \in DOMAIN applied : applied[j] # call[h].id
        /\ \A g \in BillingCalls \ {h} : call[g].step = "apply" => call[g].id # call[h].id

\* Steps that touch neither table nor history and put no call before its handler.
Apart ==
    /\ UNCHANGED <<applied, recorded>>
    /\ DOMAIN call' = BillingCalls
    /\ \A h \in BillingCalls :
        /\ call'[h].id \in Nat
        /\ call'[h].step = "apply" => call'[h] = call[h]

LEMMA ApartKeeps ==
  ASSUME OnceInv, Apart
  PROVE  OnceInv'
  BY DEF OnceInv, Apart, AppliedOnce, IsInjective

\* A call that ends, or goes on with a cancellation.
LEMMA OneCall ==
  ASSUME OnceInv, NEW h \in BillingCalls, NEW r, r.id \in Nat, r.step # "apply",
         call' = [call EXCEPT ![h] = r], UNCHANGED <<applied, recorded>>
  PROVE  Apart
  BY DEF OnceInv, Apart

LEMMA OnceStep == OnceInv /\ [BillingNext]_billingVars => OnceInv'
<1> SUFFICES ASSUME OnceInv, [BillingNext]_billingVars PROVE OnceInv'
  OBVIOUS
<1>n. NoCall.id \in Nat /\ NoCall.step # "apply"
  BY DEF NoCall
<1>1. ASSUME StripeNext PROVE OnceInv'
  <2>1. UNCHANGED <<applied, recorded, call>>
    BY <1>1 DEF StripeNext, Checkout, Renew, PaymentFails, Ends, PeriodPasses,
       Redeliver, Becomes
  <2> QED
    BY <2>1, ApartKeeps DEF Apart, OnceInv
<1>2. ASSUME NEW h \in BillingCalls, NEW i \in Ids, Receive(h, i) PROVE OnceInv'
  <2> DEFINE r == [step |-> "apply", id |-> i, sub |-> None]
  <2>1. /\ i \notin recorded /\ recorded' = recorded \cup {i}
        /\ call' = [call EXCEPT ![h] = r]
        /\ UNCHANGED applied
    BY <1>2 DEF Receive
  <2>2. r.id = i /\ r.step = "apply" /\ i \in Nat
    BY DEF Ids
  <2>3. /\ \A j \in DOMAIN applied : applied[j] # i
        /\ \A g \in BillingCalls : call[g].step = "apply" => call[g].id # i
    BY <2>1 DEF OnceInv
  <2> HIDE DEF r
  <2>4. /\ call'[h] = r
        /\ \A g \in BillingCalls : g # h => call'[g] = call[g]
        /\ DOMAIN call' = BillingCalls
    BY <2>1 DEF OnceInv
  <2> QED
    BY <2>1, <2>2, <2>3, <2>4 DEF OnceInv, AppliedOnce, IsInjective
<1>3. ASSUME NEW h \in BillingCalls, Apply(h) PROVE OnceInv'
  <2> DEFINE i == call[h].id
  <2>1. /\ call[h].step = "apply"
        /\ applied' = Append(applied, i)
        /\ call' = [call EXCEPT ![h] = NoCall]
        /\ UNCHANGED recorded
    BY <1>3 DEF Apply
  <2>2. /\ i \in recorded /\ i \in Nat
        /\ \A j \in DOMAIN applied : applied[j] # i
        /\ \A g \in BillingCalls \ {h} : call[g].step = "apply" => call[g].id # i
    BY <2>1 DEF OnceInv
  <2> HIDE DEF i
  <2>3. PICK n \in Nat : DOMAIN applied = 1..n
    BY DEF OnceInv
  <2>4. /\ applied' \in Seq(Nat) /\ DOMAIN applied' = 1..(n + 1)
        /\ \A j \in 1..n : applied'[j] = applied[j]
        /\ applied'[n + 1] = i
    BY <2>1, <2>2, <2>3 DEF OnceInv
  <2>5. AppliedOnce'
    BY <2>2, <2>3, <2>4, SMTT(30) DEF OnceInv, AppliedOnce, IsInjective
  <2>6. /\ call'[h] = NoCall
        /\ \A g \in BillingCalls : g # h => call'[g] = call[g]
        /\ DOMAIN call' = BillingCalls
    BY <2>1 DEF OnceInv
  <2> QED
    BY <1>n, <2>1, <2>2, <2>3, <2>4, <2>5, <2>6 DEF OnceInv
<1>4. ASSUME NEW h \in BillingCalls, Cancel(h) PROVE OnceInv'
  <2>1. \E r : /\ r.id \in Nat /\ r.step # "apply"
               /\ call' = [call EXCEPT ![h] = r]
    <3>1. ASSUME NEW s \in Subs, CancelLoad(h, s)
          PROVE  \E r : /\ r.id \in Nat /\ r.step # "apply"
                        /\ call' = [call EXCEPT ![h] = r]
      <4> DEFINE r == [NoCall EXCEPT !.step = "cancelStripe", !.sub = s]
      <4>1. r.id \in Nat /\ r.step # "apply"
        BY DEF NoCall
      <4> QED
        BY <3>1, <4>1 DEF CancelLoad
    <3>2. CASE CancelStripe(h)
      <4>1. CASE call' = [call EXCEPT ![h] = NoCall]
        BY <4>1, <1>n
      <4>2. CASE call' = [call EXCEPT ![h].step = "cancelRow"]
        <5> DEFINE r == [call[h] EXCEPT !.step = "cancelRow"]
        <5>1. call' = [call EXCEPT ![h] = r]
          BY <4>2
        <5>2. r.id = call[h].id /\ r.step # "apply"
          BY <3>2 DEF CancelStripe
        <5> HIDE DEF r
        <5> QED
          BY <5>1, <5>2 DEF OnceInv
      <4> QED
        BY <3>2, <4>1, <4>2 DEF CancelStripe
    <3>3. CASE CancelRow(h)
      BY <3>3, <1>n DEF CancelRow
    <3> QED
      BY <1>4, <3>1, <3>2, <3>3 DEF Cancel
  <2>2. UNCHANGED <<applied, recorded>>
    BY <1>4 DEF Cancel, CancelLoad, CancelStripe, CancelRow
  <2> QED
    BY <2>1, <2>2, OneCall, ApartKeeps
<1>5. ASSUME NEW h \in BillingCalls, CallDies(h) PROVE OnceInv'
  <2>1. Apart
    BY <1>5, <1>n, OneCall DEF CallDies
  <2> QED
    BY <2>1, ApartKeeps
<1>6. CASE UNCHANGED billingVars
  BY <1>6, ApartKeeps DEF billingVars, Apart, OnceInv
<1> QED
  BY <1>1, <1>2, <1>3, <1>4, <1>5, <1>6 DEF BillingNext, Webhook

\* webhook.routes.ts: however often and however concurrently an event is delivered,
\* and wherever a call dies, its handler runs at most once.
THEOREM HandledOnce == BillingSpec => []AppliedOnce
<1>1. BillingInit => OnceInv
  BY DEF BillingInit, OnceInv, AppliedOnce, IsInjective, NoCall
<1>2. OnceInv /\ [BillingNext]_billingVars => OnceInv'
  BY OnceStep
<1>3. OnceInv => AppliedOnce
  BY DEF OnceInv
<1> QED
  BY <1>1, <1>2, <1>3, PTL DEF BillingSpec

-----------------------------------------------------------------------------
(* GoLiveMail: rows, mails and passes *)

MailRows == [user: Readers, row: {"pending", "sent", "failed"},
             job: {"none", "created", "active", "leaving", "marked", "done", "dead"},
             tries: Nat, left: Nat, at: Nat, clean: BOOLEAN]

PassTypes == [step: {"idle", "audience", "member"}, at: Nat, todo: SUBSET Readers,
              alone: BOOLEAN]

\* The ranges that the arguments need.
MailTypes ==
    /\ minute \in Nat
    /\ audience \subseteq Readers
    /\ lastDispatchedAt \in Nat \cup {None}
    /\ pass \in [Passes -> [step: {"idle", "audience", "member"}, at: Nat,
                            todo: SUBSET Readers, alone: BOOLEAN]]
    /\ \A p \in Passes : pass[p].step = "idle" => pass[p] = NoPass
    /\ mails \in Seq(MailRows)
    /\ lapsed \in BOOLEAN

-----------------------------------------------------------------------------
(* Rows and what happened to the mails *)

\* A job past the sending has sent, and one past the UPDATE has a row that says so.
RecordInv ==
    \A i \in DOMAIN mails :
        /\ mails[i].row = "sent" \/ mails[i].job = "leaving" => mails[i].left > 0
        /\ mails[i].job \in {"marked", "done"} => mails[i].row = "sent"

\* What a retry makes of a row leaves everything but its job and its tries.
LEMMA AgainKeeps ==
  ASSUME MailAssumption, NEW m \in MailRows
  PROVE  /\ Again(m) \in MailRows
         /\ Again(m).job \in {"created", "dead"}
         /\ Again(m).row = m.row /\ Again(m).left = m.left
         /\ Again(m).user = m.user /\ Again(m).at = m.at /\ Again(m).clean = m.clean
<1>a. m.tries + 1 \in Nat
  BY DEF MailRows
<1>1. CASE m.tries < RetryLimit
  <2> DEFINE n == m.tries + 1
  <2>1. Again(m) = [[m EXCEPT !.job = "created"] EXCEPT !.tries = n]
    BY <1>1 DEF Again
  <2> HIDE DEF n
  <2> QED
    BY <2>1, <1>a DEF MailRows, n
<1>2. CASE ~(m.tries < RetryLimit)
  BY <1>2 DEF Again, MailRows, MailAssumption
<1> QED
  BY <1>1, <1>2

\* What the catch makes of a row: its row may say failed.
LEMMA ThrewKeeps ==
  ASSUME MailAssumption, NEW m \in MailRows, NEW n \in Threw(m)
  PROVE  /\ n \in MailRows
         /\ n.job \in {"created", "dead"}
         /\ n.row \in {"failed", m.row} /\ n.left = m.left
         /\ n.user = m.user /\ n.at = m.at /\ n.clean = m.clean
<1>1. [m EXCEPT !.row = "failed"] \in MailRows
  BY DEF MailRows
<1>2. CASE n = Again([m EXCEPT !.row = "failed"])
  BY <1>1, <1>2, AgainKeeps DEF MailRows
<1>3. CASE n = Again(m)
  BY <1>3, AgainKeeps
<1> QED
  BY <1>2, <1>3 DEF Threw

\* Steps of the jobs, and of a restart, write rows in their place: who gets a mail,
\* of which go-live, is settled when it is made.
Rewritten ==
    /\ DOMAIN mails' = DOMAIN mails
    /\ mails' \in Seq(MailRows)
    /\ \A i \in DOMAIN mails :
        /\ mails'[i].user = mails[i].user
        /\ mails'[i].at = mails[i].at
        /\ mails'[i].clean = mails[i].clean

\* One row written in its place.
LEMMA OneRewritten ==
  ASSUME mails \in Seq(MailRows), NEW i \in DOMAIN mails, NEW m \in MailRows,
         mails' = [mails EXCEPT ![i] = m],
         m.user = mails[i].user, m.at = mails[i].at, m.clean = mails[i].clean
  PROVE  Rewritten
  BY DEF Rewritten

\* A step of a job rewrites its row, and keeps what is recorded true.
LEMMA JobStep ==
  ASSUME MailAssumption, MailTypes, RecordInv, NEW i \in DOMAIN mails, MailStep(i)
  PROVE  Rewritten /\ RecordInv'
<1> USE DEF MailTypes, SendStep
<1>r. mails[i] \in MailRows
  OBVIOUS
<1>1. CASE TakeMail(i)
  <2> DEFINE m == [mails[i] EXCEPT !.job = "active"]
  <2>1. mails' = [mails EXCEPT ![i] = m] /\ m \in MailRows
    BY <1>1, <1>r DEF TakeMail, MailRows
  <2>2. Rewritten
    BY <2>1, OneRewritten, <1>r DEF MailRows
  <2> QED
    BY <2>1, <2>2, <1>r DEF RecordInv, MailRows
<1>2. CASE SendMail(i)
  <2>1. CASE mails' = [mails EXCEPT ![i].job = "leaving", ![i].left = @ + 1]
    <3> DEFINE m == [mails[i] EXCEPT !.job = "leaving", !.left = @ + 1]
    <3>a. m \in MailRows
      <4> DEFINE n == mails[i].left + 1
      <4>1. n \in Nat
        BY <1>r DEF MailRows
      <4>2. [[mails[i] EXCEPT !.job = "leaving"] EXCEPT !.left = n] \in MailRows
        <5> HIDE DEF n
        <5> QED
          BY <1>r, <4>1 DEF MailRows
      <4> QED
        BY <4>2
    <3>b. mails' = [mails EXCEPT ![i] = m]
      BY <2>1
    <3>1. mails' = [mails EXCEPT ![i] = m] /\ m \in MailRows
      BY <3>a, <3>b
    <3>2. Rewritten
      BY <3>1, OneRewritten, <1>r DEF MailRows
    <3> QED
      BY <3>1, <3>2, <1>r DEF RecordInv, MailRows
  <2>2. CASE \E m \in Threw(mails[i]) : mails' = [mails EXCEPT ![i] = m]
    <3>1. PICK m \in Threw(mails[i]) : mails' = [mails EXCEPT ![i] = m]
      BY <2>2
    <3>2. Rewritten
      BY <3>1, OneRewritten, ThrewKeeps, <1>r, ZenonT(40)
    <3> QED
      BY <3>1, <3>2, ThrewKeeps, <1>r, <1>2 DEF RecordInv, SendMail
  <2> QED
    BY <1>2, <2>1, <2>2 DEF SendMail
<1>3. CASE MarkSent(i)
  <2>1. CASE mails' = [mails EXCEPT ![i].row = "sent", ![i].job = "marked"]
    <3> DEFINE m == [mails[i] EXCEPT !.row = "sent", !.job = "marked"]
    <3>1. mails' = [mails EXCEPT ![i] = m] /\ m \in MailRows
      BY <2>1, <1>r DEF MailRows
    <3>2. Rewritten
      BY <3>1, OneRewritten, <1>r DEF MailRows
    <3> QED
      BY <3>1, <3>2, <1>r, <1>3 DEF RecordInv, MailRows, MarkSent
  <2>2. CASE \E m \in Threw(mails[i]) : mails' = [mails EXCEPT ![i] = m]
    <3>1. PICK m \in Threw(mails[i]) : mails' = [mails EXCEPT ![i] = m]
      BY <2>2
    <3>2. Rewritten
      BY <3>1, OneRewritten, ThrewKeeps, <1>r, ZenonT(40)
    <3>3. (m.left = mails[i].left /\ m.row # "sent") \/ m.row = mails[i].row
      BY <3>1, ThrewKeeps, <1>r
    <3>4. m.left = mails[i].left /\ m.job \in {"created", "dead"}
      BY <3>1, ThrewKeeps, <1>r
    <3>5. \A j \in DOMAIN mails' : mails'[j] = IF j = i THEN m ELSE mails[j]
      BY <3>1
    <3> QED
      BY <3>2, <3>3, <3>4, <3>5 DEF RecordInv, Rewritten
  <2> QED
    BY <1>3, <2>1, <2>2 DEF MarkSent
<1>4. CASE JobDone(i)
  <2> DEFINE m == [mails[i] EXCEPT !.job = "done"]
  <2>1. mails' = [mails EXCEPT ![i] = m] /\ m \in MailRows
    BY <1>4, <1>r DEF JobDone, MailRows
  <2>2. Rewritten
    BY <2>1, OneRewritten, <1>r DEF MailRows
  <2> QED
    BY <2>1, <2>2, <1>r, <1>4, SMTT(30) DEF RecordInv, MailRows, JobDone
<1> QED
  BY <1>1, <1>2, <1>3, <1>4 DEF MailStep

\* So does a restart.
LEMMA RestartRewrites ==
  ASSUME MailAssumption, MailTypes, RecordInv, MailRestart
  PROVE  Rewritten /\ RecordInv'
<1>1. \A i \in DOMAIN mails : mails[i] \in MailRows
  BY DEF MailTypes
<1>2. mails' = [i \in DOMAIN mails |->
                  IF mails[i].job \in {"active", "leaving", "marked"}
                  THEN Again(mails[i]) ELSE mails[i]]
  BY DEF MailRestart
<1>3. \A i \in DOMAIN mails :
        /\ mails'[i] \in MailRows
        /\ mails'[i].user = mails[i].user /\ mails'[i].at = mails[i].at
        /\ mails'[i].clean = mails[i].clean
        /\ mails'[i].row = mails[i].row /\ mails'[i].left = mails[i].left
        /\ mails'[i].job \in {"created", "dead"} \/ mails'[i] = mails[i]
  BY <1>1, <1>2, AgainKeeps
<1>4. mails' \in Seq(MailRows) /\ DOMAIN mails' = DOMAIN mails
  <2>1. PICK n \in Nat : DOMAIN mails = 1..n
    BY DEF MailTypes
  <2> QED
    BY <2>1, <1>2, <1>3
<1> QED
  BY <1>1, <1>3, <1>4 DEF Rewritten, RecordInv

-----------------------------------------------------------------------------
(* Types, and the record of each mail *)

LEMMA NoPassOK == NoPass \in PassTypes /\ [NoPass EXCEPT !.alone = FALSE] = NoPass
<1>1. NoPass \in PassTypes
  BY DEF NoPass, PassTypes
<1>2. [NoPass EXCEPT !.alone = FALSE] = NoPass
  <2>1. \A r \in [step: {"idle"}, at: {0}, todo: {{}}, alone: BOOLEAN] :
          r.alone = FALSE => [r EXCEPT !.alone = FALSE] = r
    OBVIOUS
  <2>2. NoPass \in [step: {"idle"}, at: {0}, todo: {{}}, alone: BOOLEAN]
    BY DEF NoPass
  <2>3. NoPass.alone = FALSE
    BY DEF NoPass
  <2> QED
    BY <2>1, <2>2, <2>3
<1> QED
  BY <1>1, <1>2

LEMMA MailInitOK ==
  ASSUME MailAssumption, MailInit
  PROVE  MailTypes /\ RecordInv
<1>1. pass \in [Passes -> PassTypes] /\ \A p \in Passes : pass[p] = NoPass
  BY NoPassOK DEF MailInit
<1>2. mails \in Seq(MailRows) /\ DOMAIN mails = {}
  BY DEF MailInit
<1> QED
  BY <1>1, <1>2 DEF MailInit, MailTypes, PassTypes, RecordInv

LEMMA MailStepOK ==
  ASSUME MailAssumption
  PROVE  MailTypes /\ RecordInv /\ [MailNext]_mailVars => (MailTypes /\ RecordInv)'
<1> SUFFICES ASSUME MailTypes, RecordInv, [MailNext]_mailVars
             PROVE  (MailTypes /\ RecordInv)'
  OBVIOUS
<1>1. ASSUME NEW p \in Passes, GoLive(p) PROVE (MailTypes /\ RecordInv)'
  <2>1. CASE IsWithinCooldown
    BY <1>1, <2>1 DEF GoLive, MailTypes, RecordInv
  <2>2. CASE ~IsWithinCooldown
    <3>1. pass' = [q \in Passes |->
             IF q = p THEN [step |-> "audience", at |-> minute, todo |-> {},
                            alone |-> InFlight = {}]
             ELSE [pass[q] EXCEPT !.alone = FALSE]]
      BY <1>1, <2>2 DEF GoLive
    <3>2. ASSUME NEW q \in Passes
          PROVE  /\ pass'[q] \in [step: {"idle", "audience", "member"}, at: Nat,
                                  todo: SUBSET Readers, alone: BOOLEAN]
                 /\ pass'[q].step = "idle" => pass'[q] = NoPass
      <4>1. CASE q = p
        BY <3>1, <4>1 DEF MailTypes
      <4>2. CASE q # p
        <5>1. pass'[q] = [pass[q] EXCEPT !.alone = FALSE]
          BY <3>1, <4>2
        <5>2. pass'[q].step = "idle" => pass'[q] = NoPass
          BY <5>1, NoPassOK DEF MailTypes
        <5>3. pass[q] \in PassTypes
          BY DEF MailTypes, PassTypes
        <5>4. pass'[q] \in PassTypes
          BY <5>1, <5>3 DEF PassTypes
        <5> QED
          BY <5>2, <5>4 DEF PassTypes
      <4> QED
        BY <4>1, <4>2
    <3>3. pass' \in [Passes -> [step: {"idle", "audience", "member"}, at: Nat,
                               todo: SUBSET Readers, alone: BOOLEAN]]
      BY <3>1, <3>2
    <3>4. lapsed' \in BOOLEAN
      BY <1>1, <2>2 DEF GoLive, MailTypes
    <3>5. UNCHANGED <<minute, audience, lastDispatchedAt, mails>>
      BY <1>1 DEF GoLive
    <3> QED
      BY <3>2, <3>3, <3>4, <3>5 DEF MailTypes, RecordInv
  <2> QED
    BY <2>1, <2>2
<1>2. ASSUME NEW p \in Passes, ResolveAudience(p) PROVE (MailTypes /\ RecordInv)'
  BY <1>2, ZenonT(40) DEF ResolveAudience, MailTypes, RecordInv, NoPass
<1>3. ASSUME NEW p \in Passes, Arm(p) PROVE (MailTypes /\ RecordInv)'
  BY <1>3 DEF Arm, MailTypes, RecordInv, NoPass
<1>4. ASSUME NEW p \in Passes, NEW u \in Readers, Member(p, u)
      PROVE  (MailTypes /\ RecordInv)'
  <2>1. \A job \in {"created", "none"} : Mail(p, u, job) \in MailRows
    BY DEF Mail, MailRows, MailTypes
  <2>2. \A job \in {"created", "none"} : mails' = Append(mails, Mail(p, u, job)) =>
          mails' \in Seq(MailRows) /\ RecordInv'
    BY <2>1 DEF MailTypes, RecordInv, Mail
  <2>3. mails' \in Seq(MailRows) /\ RecordInv'
    BY <1>4, <2>2 DEF Member, MailTypes, RecordInv
  <2>4. pass' = [pass EXCEPT ![p].todo = @ \ {u}] \/ pass' = [pass EXCEPT ![p] = NoPass]
    BY <1>4 DEF Member
  <2>5. pass[p].step = "member" /\ lapsed' \in BOOLEAN
    BY <1>4 DEF Member, MailTypes
  <2>6. UNCHANGED <<minute, audience, lastDispatchedAt>>
    BY <1>4 DEF Member
  <2>7. /\ pass' \in [Passes -> [step: {"idle", "audience", "member"}, at: Nat,
                                  todo: SUBSET Readers, alone: BOOLEAN]]
        /\ \A q \in Passes : pass'[q].step = "idle" => pass'[q] = NoPass
    <3>1. CASE pass' = [pass EXCEPT ![p].todo = @ \ {u}]
      <4>1. \A q \in Passes : q # p => pass'[q] = pass[q]
        BY <3>1 DEF MailTypes
      <4>2. pass'[p] = [pass[p] EXCEPT !.todo = @ \ {u}]
        BY <3>1 DEF MailTypes
      <4>3. pass'[p].step = "member" /\ pass'[p] \in PassTypes
        BY <4>2, <2>5 DEF MailTypes, PassTypes
      <4> QED
        BY <3>1, <4>1, <4>3 DEF MailTypes, PassTypes
    <3>2. CASE pass' = [pass EXCEPT ![p] = NoPass]
      BY <3>2, NoPassOK DEF MailTypes, PassTypes
    <3> QED
      BY <2>4, <3>1, <3>2
  <2> QED
    BY <2>3, <2>5, <2>6, <2>7 DEF MailTypes
<1>5. ASSUME NEW u \in Readers,
             SubscribeReader(u) \/ UnsubscribeReader(u) \/ OptOut(u) \/ OptIn(u)
      PROVE  (MailTypes /\ RecordInv)'
  BY <1>5 DEF SubscribeReader, UnsubscribeReader, OptOut, OptIn, ChangeOfMind,
     MailTypes, RecordInv
<1>6. ASSUME NEW i \in DOMAIN mails, MailStep(i) PROVE (MailTypes /\ RecordInv)'
  <2>1. Rewritten /\ RecordInv'
    BY <1>6, JobStep
  <2>2. UNCHANGED <<minute, audience, lastDispatchedAt, pass, lapsed>>
    BY <1>6 DEF MailStep, TakeMail, SendMail, MarkSent, JobDone, SendStep
  <2> QED
    BY <2>1, <2>2 DEF Rewritten, MailTypes
<1>7. CASE MailRestart
  <2>1. Rewritten /\ RecordInv'
    BY <1>7, RestartRewrites
  <2> QED
    BY <2>1, <1>7 DEF MailRestart, Rewritten, MailTypes, NoPass
<1>8. CASE MinutePasses
  BY <1>8 DEF MinutePasses, MailTypes, RecordInv
<1>9. CASE UNCHANGED mailVars
  BY <1>9 DEF mailVars, MailTypes, RecordInv
<1> QED
  BY <1>1, <1>2, <1>3, <1>4, <1>5, <1>6, <1>7, <1>8, <1>9 DEF MailNext, PassStep

\* notification-send.ts: whatever fails, dies or is retried, a row that says sent is of
\* a mail that has left, and a job completes only with such a row.
THEOREM RecordsTrue == ASSUME MailAssumption PROVE MailSpec => []SentAsRecorded
<1>1. MailInit => MailTypes /\ RecordInv
  BY MailInitOK
<1>2. MailTypes /\ RecordInv /\ [MailNext]_mailVars => (MailTypes /\ RecordInv)'
  BY MailStepOK
<1>3. RecordInv => SentAsRecorded
  BY DEF RecordInv, SentAsRecorded
<1> QED
  BY <1>1, <1>2, <1>3, PTL DEF MailSpec

-----------------------------------------------------------------------------
(* The cooldown *)

\* The mails of the passes before are a cooldown older than a pass that is alone, and
\* no older than the cooldown that was armed, unless something lapsed.
SpacedInv ==
    /\ NoSpam
    /\ \A i \in DOMAIN mails : mails[i].at <= minute
    /\ \A p \in Passes : pass[p].at <= minute
    /\ \A p \in Passes : pass[p].alone =>
        /\ \A q \in Passes \ {p} : pass[q] = NoPass
        /\ \A i \in DOMAIN mails :
            /\ mails[i].at <= pass[p].at
            /\ \/ lapsed
               \/ mails[i].at + Cooldown <= pass[p].at
               \/ /\ pass[p].step = "member"
                  /\ mails[i].user \notin pass[p].todo
    /\ InFlight = {} /\ ~lapsed =>
        \A i \in DOMAIN mails : lastDispatchedAt # None /\ mails[i].at <= lastDispatchedAt

\* A step that leaves the passes alone and only rewrites rows keeps it.
LEMMA RewriteSpaces ==
  ASSUME MailAssumption, MailTypes, SpacedInv, Rewritten,
         UNCHANGED <<pass, lapsed, lastDispatchedAt, minute>>
  PROVE  SpacedInv'
  BY DEF SpacedInv, NoSpam, Rewritten, MailTypes, InFlight

LEMMA SpacedStep ==
  ASSUME MailAssumption
  PROVE  MailTypes /\ RecordInv /\ SpacedInv /\ [MailNext]_mailVars => SpacedInv'
<1> SUFFICES ASSUME MailTypes, RecordInv, SpacedInv, [MailNext]_mailVars
             PROVE  SpacedInv'
  OBVIOUS
<1>m. \A i \in DOMAIN mails : mails[i] \in MailRows /\ mails[i].at \in Nat
  <2>1. \A i \in DOMAIN mails : mails[i] \in MailRows
    BY DEF MailTypes
  <2> QED
    BY <2>1 DEF MailRows
<1>b. \A p \in Passes : pass[p].at <= minute
  BY DEF SpacedInv
<1>c. \A p \in Passes : pass[p].alone =>
        \A i \in DOMAIN mails :
           \/ lapsed
           \/ mails[i].at + Cooldown <= pass[p].at
           \/ pass[p].step = "member" /\ mails[i].user \notin pass[p].todo
  BY DEF SpacedInv
<1>1. ASSUME NEW p \in Passes, GoLive(p) PROVE SpacedInv'
  <2>1. CASE IsWithinCooldown
    BY <1>1, <2>1 DEF GoLive, SpacedInv, NoSpam, InFlight
  <2>2. CASE ~IsWithinCooldown
    <3>1. /\ pass[p] = NoPass
          /\ pass' = [q \in Passes |->
                IF q = p THEN [step |-> "audience", at |-> minute, todo |-> {},
                               alone |-> InFlight = {}]
                ELSE [pass[q] EXCEPT !.alone = FALSE]]
          /\ lapsed' = (lapsed \/ InFlight # {})
          /\ UNCHANGED <<minute, lastDispatchedAt, mails>>
      BY <1>1, <2>2 DEF GoLive
    <3>2. NoSpam' /\ \A i \in DOMAIN mails' : mails'[i].at <= minute'
      BY <3>1 DEF SpacedInv, NoSpam
    <3>3. \A q \in Passes : pass'[q].at <= minute'
      BY <3>1 DEF SpacedInv, MailTypes
    <3>4. ASSUME NEW q \in Passes, pass'[q].alone
          PROVE  q = p /\ InFlight = {}
      BY <3>1, <3>4 DEF MailTypes
    <3>5. \A q \in Passes \ {p} : InFlight = {} => pass'[q] = NoPass
      <4> SUFFICES ASSUME NEW q \in Passes \ {p}, InFlight = {} PROVE pass'[q] = NoPass
        OBVIOUS
      <4>1. pass[q] = NoPass
        BY DEF InFlight
      <4> QED
        BY <3>1, <4>1, NoPassOK
    <3>6. ASSUME InFlight = {}, ~lapsed, NEW i \in DOMAIN mails
          PROVE  mails[i].at + Cooldown <= minute
      <4>1. lastDispatchedAt \in Nat /\ mails[i].at <= lastDispatchedAt
        BY <3>6 DEF SpacedInv, MailTypes
      <4>2. minute - lastDispatchedAt >= Cooldown
        BY <2>2, <4>1, <3>6 DEF IsWithinCooldown, MailTypes, MailAssumption, SpacedInv
      <4> QED
        BY <4>1, <4>2, <1>m DEF MailAssumption, MailTypes
    <3>7. p \in InFlight'
      BY <3>1 DEF InFlight, NoPass
    <3> QED
      BY <3>1, <3>2, <3>3, <3>4, <3>5, <3>6, <3>7 DEF SpacedInv
  <2> QED
    BY <2>1, <2>2
<1>2. ASSUME NEW p \in Passes, ResolveAudience(p) PROVE SpacedInv'
  <2>1. /\ pass[p].step = "audience"
        /\ pass' = [pass EXCEPT ![p].step = "member", ![p].todo = audience]
        /\ UNCHANGED <<minute, lastDispatchedAt, mails, lapsed>>
    BY <1>2 DEF ResolveAudience
  <2>2. /\ \A q \in Passes : q # p => pass'[q] = pass[q]
        /\ pass'[p].at = pass[p].at /\ pass'[p].alone = pass[p].alone
    BY <2>1 DEF MailTypes
  <2>3. pass'[p].step = "member"
    BY <2>1 DEF MailTypes
  <2>4. p \in InFlight'
    BY <2>3 DEF InFlight, NoPass
  <2>5. NoSpam'
    BY <2>1 DEF SpacedInv, NoSpam
  <2>6. \A q \in Passes : pass[q].alone =>
          \A i \in DOMAIN mails :
            \/ lapsed
            \/ mails[i].at + Cooldown <= pass[q].at
            \/ q # p /\ pass[q].step = "member" /\ mails[i].user \notin pass[q].todo
    <3>1. pass[p].step # "member"
      BY <2>1
    <3> QED
      BY <3>1, <1>c
  <2>7. ASSUME NEW q \in Passes, pass'[q].alone
        PROVE  /\ \A r \in Passes \ {q} : pass'[r] = NoPass
               /\ \A i \in DOMAIN mails' :
                   /\ mails'[i].at <= pass'[q].at
                   /\ \/ lapsed'
                      \/ mails'[i].at + Cooldown <= pass'[q].at
                      \/ /\ pass'[q].step = "member"
                         /\ mails'[i].user \notin pass'[q].todo
    <3>1. pass[q].alone /\ pass'[q].at = pass[q].at
      BY <2>2, <2>7
    <3>2. \A r \in Passes \ {q} : pass[r] = NoPass
      BY <3>1 DEF SpacedInv
    <3>3. pass[p] # NoPass
      BY <2>1 DEF NoPass
    <3>4. q = p
      BY <3>2, <3>3
    <3>5. \A i \in DOMAIN mails : mails[i].at <= pass[q].at
      BY <3>1 DEF SpacedInv
    <3> QED
      BY <2>1, <2>2, <2>6, <3>1, <3>2, <3>4, <3>5
  <2>8. \A q \in Passes : pass'[q].at <= minute'
    BY <2>1, <2>2, <1>b
  <2>9. \A i \in DOMAIN mails' : mails'[i].at <= minute'
    BY <2>1 DEF SpacedInv
  <2> QED
    BY <2>4, <2>5, <2>7, <2>8, <2>9 DEF SpacedInv
<1>3. ASSUME NEW p \in Passes, Arm(p) PROVE SpacedInv'
  <2>1. /\ lastDispatchedAt' = pass[p].at
        /\ pass' = [pass EXCEPT ![p] = NoPass]
        /\ lapsed' = ~pass[p].alone
        /\ UNCHANGED <<minute, mails>>
    BY <1>3 DEF Arm
  <2>2. pass[p].at # None
    BY DEF MailTypes, MailAssumption
  <2>3. /\ \A q \in Passes : q # p => pass'[q] = pass[q]
        /\ pass'[p].alone = FALSE /\ pass'[p].at = 0
    BY <2>1 DEF MailTypes, NoPass
  <2>4. NoSpam'
    BY <2>1 DEF SpacedInv, NoSpam
  <2>5. \A q \in Passes : pass'[q].at <= minute'
    BY <2>1, <2>3 DEF SpacedInv, MailTypes
  <2>6. \A q \in Passes : pass'[q].alone => pass[p] = NoPass /\ q # p
    BY <2>3 DEF SpacedInv
  <2>7. pass[p] # NoPass
    BY <1>3 DEF Arm, NoPass
  <2>8. ~lapsed' => \A i \in DOMAIN mails : mails[i].at <= pass[p].at
    BY <2>1 DEF SpacedInv
  <2> QED
    BY <2>1, <2>2, <2>4, <2>5, <2>6, <2>7, <2>8 DEF SpacedInv
<1>4. ASSUME NEW p \in Passes, NEW u \in Readers, Member(p, u) PROVE SpacedInv'
  <2>a. p \in InFlight /\ pass[p].step = "member" /\ u \in pass[p].todo
    BY <1>4 DEF Member, InFlight, NoPass
  <2>1. CASE pass' = [pass EXCEPT ![p].todo = @ \ {u}] /\ UNCHANGED <<mails, lapsed>>
    <3>1. InFlight' = InFlight
      BY <2>1, <2>a DEF InFlight, NoPass, MailTypes
    <3> QED
      <4>1. UNCHANGED <<minute, lastDispatchedAt>>
        BY <1>4 DEF Member
      <4>2. /\ \A q \in Passes : q # p => pass'[q] = pass[q]
            /\ pass'[p].at = pass[p].at /\ pass'[p].alone = pass[p].alone
            /\ pass'[p].step = "member" /\ pass'[p].todo = pass[p].todo \ {u}
        BY <2>1, <2>a DEF MailTypes
      <4>3. NoSpam'
        BY <2>1 DEF SpacedInv, NoSpam
      <4>4. \A q \in Passes : pass[q].alone => q = p
        BY <2>a DEF SpacedInv, InFlight
      <4> QED
        BY <2>1, <3>1, <4>1, <4>2, <4>3, <4>4 DEF SpacedInv
  <2>2. ASSUME NEW job \in {"created", "none"}, mails' = Append(mails, Mail(p, u, job))
        PROVE  /\ NoSpam'
               /\ \A i \in DOMAIN mails' :
                    \/ i \in DOMAIN mails /\ mails'[i] = mails[i]
                    \/ mails'[i].at = pass[p].at /\ mails'[i].user = u
    <3>1. PICK n \in Nat : DOMAIN mails = 1..n
      BY DEF MailTypes
    <3>2. /\ DOMAIN mails' = 1..(n + 1)
          /\ \A i \in 1..n : mails'[i] = mails[i]
          /\ mails'[n + 1] = Mail(p, u, job)
      BY <2>2, <3>1 DEF MailTypes
    <3>3. ASSUME NEW i \in 1..n, mails[i].user = u, pass[p].alone, ~lapsed
          PROVE  pass[p].at - mails[i].at >= Cooldown
      <4>1. mails[i].at + Cooldown <= pass[p].at
        BY <2>a, <3>1, <3>3 DEF SpacedInv
      <4>2. mails[i].at \in Nat /\ pass[p].at \in Nat
        BY <1>m, <3>1 DEF MailTypes
      <4> QED
        BY <4>1, <4>2 DEF MailAssumption
    <3>4. NoSpam'
      <4>1. SUFFICES ASSUME NEW i \in 1..(n + 1), NEW j \in 1..(n + 1), i < j,
                            mails'[i].user = mails'[j].user, mails'[j].clean
                     PROVE  mails'[j].at - mails'[i].at >= Cooldown
        BY <3>2 DEF NoSpam
      <4>2. i \in 1..n /\ mails'[i] = mails[i]
        BY <3>2, <4>1
      <4>3. CASE j \in 1..n
        BY <3>1, <3>2, <4>1, <4>2, <4>3 DEF SpacedInv, NoSpam
      <4>4. CASE j = n + 1
        <5>1. /\ mails'[j].at = pass[p].at /\ mails'[j].user = u
              /\ mails'[j].clean = (pass[p].alone /\ ~lapsed)
          BY <3>2, <4>4 DEF Mail
        <5> QED
          BY <3>3, <4>1, <4>2, <5>1
      <4> QED
        BY <4>3, <4>4
    <3> QED
      BY <3>1, <3>2, <3>4 DEF Mail
  <2>3. CASE /\ mails' = Append(mails, Mail(p, u, "created"))
             /\ pass' = [pass EXCEPT ![p].todo = @ \ {u}] /\ UNCHANGED lapsed
    <3>1. InFlight' = InFlight
      BY <2>3, <2>a DEF InFlight, NoPass, MailTypes
    <3>2. UNCHANGED <<minute, lastDispatchedAt>>
      BY <1>4 DEF Member
    <3>3. NoSpam' /\ \A i \in DOMAIN mails' :
             \/ i \in DOMAIN mails /\ mails'[i] = mails[i]
             \/ mails'[i].at = pass[p].at /\ mails'[i].user = u
      BY <2>2, <2>3
    <3>4. \A q \in Passes : q # p => pass'[q] = pass[q]
      BY <2>3 DEF MailTypes
    <3>5. /\ pass'[p].at = pass[p].at /\ pass'[p].alone = pass[p].alone
          /\ pass'[p].step = "member" /\ pass'[p].todo = pass[p].todo \ {u}
      BY <2>3, <2>a DEF MailTypes
    <3>6. \A q \in Passes : pass[q].alone => q = p
      BY <2>a DEF SpacedInv, InFlight
    <3> QED
      <4>1. \A i \in DOMAIN mails' : mails'[i].at <= minute'
        BY <3>2, <3>3 DEF SpacedInv
      <4>2. \A q \in Passes : pass'[q].at <= minute'
        BY <3>2, <3>4, <3>5 DEF SpacedInv
      <4>3. pass[p].alone =>
              \A i \in DOMAIN mails' :
                /\ mails'[i].at <= pass[p].at
                /\ lapsed' \/ mails'[i].at + Cooldown <= pass[p].at
                           \/ mails'[i].user \notin pass'[p].todo
        <5>1. pass[p].at \in Nat /\ pass[p].at <= pass[p].at
          BY DEF MailTypes
        <5> QED
          BY <2>3, <2>a, <3>3, <3>5, <5>1 DEF SpacedInv
      <4>4. InFlight' # {}
        BY <3>1, <2>a
      <4>5. \A q \in Passes : pass'[q].alone => q = p /\ pass[p].alone
        BY <3>4, <3>5, <3>6
      <4>6. pass[p].alone => \A q \in Passes \ {p} : pass'[q] = NoPass
        BY <3>4 DEF SpacedInv
      <4> QED
        BY <3>3, <3>5, <4>1, <4>2, <4>3, <4>4, <4>5, <4>6 DEF SpacedInv
  <2>4. CASE /\ mails' = Append(mails, Mail(p, u, "none"))
             /\ pass' = [pass EXCEPT ![p] = NoPass] /\ lapsed' = TRUE
    <3>2. UNCHANGED <<minute, lastDispatchedAt>>
      BY <1>4 DEF Member
    <3>3. NoSpam' /\ \A i \in DOMAIN mails' :
             \/ i \in DOMAIN mails /\ mails'[i] = mails[i]
             \/ mails'[i].at = pass[p].at /\ mails'[i].user = u
      BY <2>2, <2>4
    <3>6. \A q \in Passes : pass[q].alone => q = p
      BY <2>a DEF SpacedInv, InFlight
    <3> QED
      BY <3>2, <3>3, <3>6, <2>4 DEF SpacedInv, MailTypes, NoPass
  <2> QED
    BY <1>4, <2>1, <2>3, <2>4 DEF Member
<1>5. ASSUME NEW u \in Readers,
             SubscribeReader(u) \/ UnsubscribeReader(u) \/ OptOut(u) \/ OptIn(u)
      PROVE  SpacedInv'
  <2>1. UNCHANGED <<minute, lastDispatchedAt, pass, mails, lapsed>>
    BY <1>5 DEF SubscribeReader, UnsubscribeReader, OptOut, OptIn, ChangeOfMind
  <2> QED
    BY <2>1 DEF SpacedInv, NoSpam, InFlight
<1>6. ASSUME NEW i \in DOMAIN mails, MailStep(i) PROVE SpacedInv'
  <2>1. UNCHANGED <<minute, lastDispatchedAt, pass, lapsed>>
    BY <1>6 DEF MailStep, TakeMail, SendMail, MarkSent, JobDone, SendStep
  <2> QED
    BY <1>6, <2>1, JobStep, RewriteSpaces
<1>7. CASE MailRestart
  <2>1. Rewritten
    BY <1>7, RestartRewrites
  <2>2. lapsed' = TRUE /\ pass' = [p \in Passes |-> NoPass] /\ UNCHANGED minute
    BY <1>7 DEF MailRestart
  <2>3. NoSpam'
    BY <2>1 DEF Rewritten, SpacedInv, NoSpam
  <2>4. \A i \in DOMAIN mails' : mails'[i].at <= minute'
    BY <2>1, <2>2 DEF Rewritten, SpacedInv
  <2>5. \A p \in Passes : pass'[p].at = 0 /\ ~pass'[p].alone
    BY <2>2 DEF NoPass
  <2>6. 0 <= minute'
    BY <2>2 DEF MailTypes
  <2> QED
    BY <2>2, <2>3, <2>4, <2>5, <2>6 DEF SpacedInv
<1>8. CASE MinutePasses
  <2>1. minute' = minute + 1 /\ UNCHANGED <<lastDispatchedAt, pass, mails, lapsed>>
    BY <1>8 DEF MinutePasses
  <2> QED
    BY <2>1, <1>m DEF SpacedInv, NoSpam, InFlight, MailTypes
<1>9. CASE UNCHANGED mailVars
  BY <1>9 DEF mailVars, SpacedInv, NoSpam, InFlight
<1> QED
  BY <1>1, <1>2, <1>3, <1>4, <1>5, <1>6, <1>7, <1>8, <1>9 DEF MailNext, PassStep

\* notify-dispatch.ts: a channel that flaps does not spam, for any cooldown, however
\* many passes overlap and whatever fails.
THEOREM Spaced == ASSUME MailAssumption PROVE MailSpec => []NoSpam
<1>1. MailInit => MailTypes /\ RecordInv /\ SpacedInv
  <2> SUFFICES ASSUME MailInit PROVE SpacedInv
    BY MailInitOK
  <2> QED
    BY DEF MailInit, SpacedInv, NoSpam, NoPass
<1>2. MailTypes /\ RecordInv /\ SpacedInv /\ [MailNext]_mailVars
        => (MailTypes /\ RecordInv /\ SpacedInv)'
  BY MailStepOK, SpacedStep
<1>3. SpacedInv => NoSpam
  BY DEF SpacedInv
<1> QED
  BY <1>1, <1>2, <1>3, PTL DEF MailSpec

-----------------------------------------------------------------------------
(* EventSpine: streams and their cap *)

StreamRecords ==
    [step: {"none", "admitted", "next", "wait", "turn", "write", "over"},
     page: Pages \cup {None}, open: BOOLEAN, map: SUBSET Keys, batch: SUBSET Keys,
     wire: Seq({"connected", "event", "end"}), cut: BOOLEAN]

\* A stream that waits has an open subscription with nothing in it.
WaitOK(r) == r.step = "wait" => r.map = {} /\ r.open

\* A stream counts, or will once it has subscribed.
Holds(r) == r.open \/ r.step = "admitted"
Held     == {s \in Streams : Holds(stream[s])}

SpineInv ==
    /\ stream \in [Streams -> StreamRecords]
    /\ \A s \in Streams : WaitOK(stream[s])
    /\ rushed \/ Cardinality(Held) <= maxConnections

\* What a step makes of one stream: it is well formed, waits rightly and does not hold a
\* place that it did not hold.
Good(new, old) == new \in StreamRecords /\ WaitOK(new) /\ (Holds(new) => Holds(old))

\* As long as no stream takes a place, the cap is kept.
LEMMA NoNewPlace ==
    ASSUME SpineAssumption, SpineInv, stream' \in [Streams -> StreamRecords],
           \A s \in Streams : WaitOK(stream'[s]) /\ (Holds(stream'[s]) => Holds(stream[s])),
           rushed' = rushed
    PROVE  SpineInv'
  <1>1. Held' \subseteq Held  BY DEF Held
  <1>2. IsFiniteSet(Held)  BY FS_Subset DEF SpineAssumption, Held
  <1>3. Cardinality(Held') <= Cardinality(Held) /\ IsFiniteSet(Held')
    BY <1>1, <1>2, FS_Subset
  <1>4. Cardinality(Held') \in Nat /\ Cardinality(Held) \in Nat /\ maxConnections \in Nat
    BY <1>2, <1>3, FS_CardinalityType DEF SpineAssumption
  <1>. QED  BY <1>3, <1>4 DEF SpineInv

\* One stream moves.
LEMMA OneMoves ==
    ASSUME SpineAssumption, SpineInv, NEW s \in Streams, NEW r, Good(r, stream[s]),
           stream' = [stream EXCEPT ![s] = r], rushed' = rushed
    PROVE  SpineInv'
  <1>1. stream' \in [Streams -> StreamRecords]  BY DEF SpineInv, Good
  <1>2. \A t \in Streams : WaitOK(stream'[t]) /\ (Holds(stream'[t]) => Holds(stream[t]))
    BY DEF SpineInv, Good
  <1>. QED  BY <1>1, <1>2, NoNewPlace

\* drain() and close() of a subscription, and its end.
LEMMA DrainedGood ==
    ASSUME NEW r \in StreamRecords, r.open  PROVE Good(Drained(r), r)
  BY DEF StreamRecords, Drained, Good, WaitOK, Holds

LEMMA ClosedGood ==
    ASSUME NEW r \in StreamRecords  PROVE Good(Closed(r), r)
  BY DEF StreamRecords, Closed, Good, WaitOK, Holds

LEMMA EndedGood ==
    ASSUME NEW r \in StreamRecords  PROVE Good(Ended(r), r)
  <1>. DEFINE w == Append(r.wire, "end")
  <1>1. w \in Seq({"connected", "event", "end"})
    <2>1. r.wire \in Seq({"connected", "event", "end"})  BY DEF StreamRecords
    <2>. QED  BY <2>1
  <1>2. Ended(r) = [r EXCEPT !.open = FALSE, !.step = "over", !.map = {}, !.batch = {}, !.wire = w]
    BY DEF Ended
  <1>. HIDE DEF w
  <1>. QED  BY <1>1, <1>2 DEF StreamRecords, Good, WaitOK, Holds

\* An event comes to a subscription.
LEMMA EnqueuedGood ==
    ASSUME NEW r \in StreamRecords, WaitOK(r), NEW k \in Keys  PROVE Good(Enqueued(r, k), r)
  <1>. DEFINE q == [r EXCEPT !.map = r.map \cup {k}]
  <1>1. /\ q \in StreamRecords /\ q.open = r.open /\ q.step = r.step
        /\ q.map = r.map \cup {k}
    BY DEF StreamRecords
  <1>2. Good(r, r)  BY DEF Good
  <1>3. Good(Closed(q), q) /\ (q.open => Good(Drained(q), q))
    BY <1>1, ClosedGood, DrainedGood
  <1>4. Good(q, q) \/ r.step = "wait"  BY <1>1 DEF Good, WaitOK
  <1>5. Enqueued(r, k) =
            IF ~r.open THEN r
            ELSE IF Cardinality(q.map) > Backstop THEN Closed(q)
            ELSE IF r.step = "wait" THEN Drained(q)
            ELSE q
    BY <1>1 DEF Enqueued
  <1>6. \A p : Good(p, q) => Good(p, r)  BY <1>1 DEF Good, Holds
  <1>. HIDE DEF q
  <1>. QED  BY <1>1, <1>2, <1>3, <1>4, <1>5, <1>6

-----------------------------------------------------------------------------
(* The bus *)

\* An event is put into every subscription.
LEMMA CapPublish ==
    ASSUME SpineAssumption, SpineInv, NEW k \in Keys, Publish(k)  PROVE SpineInv'
  <1>1. ASSUME NEW s \in Streams  PROVE Good(stream[s], stream[s]) /\ Good(Enqueued(stream[s], k), stream[s])
    BY EnqueuedGood DEF SpineInv, Good
  <1>2. rushed' = rushed /\ (stream' = stream \/ stream' = [s \in Streams |-> Enqueued(stream[s], k)])
    BY DEF Publish
  <1>3. stream' \in [Streams -> StreamRecords]  BY <1>1, <1>2 DEF Good, SpineInv
  <1>4. \A s \in Streams : WaitOK(stream'[s]) /\ (Holds(stream'[s]) => Holds(stream[s]))
    BY <1>1, <1>2 DEF Good
  <1>. QED  BY <1>2, <1>3, <1>4, NoNewPlace

\* Every subscription is closed.
LEMMA CapCloseAll ==
    ASSUME SpineAssumption, SpineInv, CloseAll  PROVE SpineInv'
  <1>1. ASSUME NEW s \in Streams  PROVE Good(Closed(stream[s]), stream[s])
    BY ClosedGood DEF SpineInv
  <1>2. rushed' = rushed /\ stream' = [s \in Streams |-> Closed(stream[s])]
    BY DEF CloseAll
  <1>3. stream' \in [Streams -> StreamRecords]  BY <1>1, <1>2 DEF Good
  <1>4. \A s \in Streams : WaitOK(stream'[s]) /\ (Holds(stream'[s]) => Holds(stream[s]))
    BY <1>1, <1>2 DEF Good
  <1>. QED  BY <1>2, <1>3, <1>4, NoNewPlace

-----------------------------------------------------------------------------
(* The route *)

\* Subscribing keeps the place that the stream was admitted to.
LEMMA CapSubscribe ==
    ASSUME SpineAssumption, SpineInv, NEW s \in Streams, Subscribe(s)  PROVE SpineInv'
  <1>. DEFINE r == stream[s]
              w == Append(r.wire, "connected")
              q == [r EXCEPT !.step = "next", !.open = TRUE, !.wire = w]
  <1>1. /\ r \in StreamRecords /\ r.step = "admitted"
        /\ stream' = [stream EXCEPT ![s] = q] /\ rushed' = rushed
    BY DEF SpineInv, Subscribe, Turn
  <1>2. w \in Seq({"connected", "event", "end"})
    <2>1. r.wire \in Seq({"connected", "event", "end"})  BY <1>1 DEF StreamRecords
    <2>. QED  BY <2>1
  <1>3. Good(q, r)
    <2>. HIDE DEF w, r
    <2>. QED  BY <1>1, <1>2 DEF StreamRecords, Good, WaitOK, Holds
  <1>. HIDE DEF q
  <1>. QED  BY <1>1, <1>3, OneMoves

\* The wait begins only when there is nothing to drain and the subscription is open.
LEMMA CapTakeNext ==
    ASSUME SpineAssumption, SpineInv, NEW s \in Streams, TakeNext(s)  PROVE SpineInv'
  <1>. DEFINE r == stream[s]
              to(t) == [r EXCEPT !.step = t]
  <1>1. r \in StreamRecords /\ r.step = "next" /\ rushed' = rushed
    BY DEF SpineInv, TakeNext, Turn
  <1>2. Good(to("turn"), r) /\ (r.map = {} /\ r.open => Good(to("wait"), r))
    <2>. HIDE DEF r
    <2>. QED  BY <1>1 DEF StreamRecords, Good, WaitOK, Holds
  <1>3. r.open => Good(Drained(r), r)  BY <1>1, DrainedGood
  <1>4. \/ stream' = [stream EXCEPT ![s] = to("turn")]
        \/ r.open /\ stream' = [stream EXCEPT ![s] = Drained(r)]
        \/ r.open /\ r.map = {} /\ stream' = [stream EXCEPT ![s] = to("wait")]
    BY DEF TakeNext, Turn
  <1>. HIDE DEF r, to
  <1>. QED  BY <1>1, <1>2, <1>3, <1>4, OneMoves DEF r

LEMMA CapTurns ==
    ASSUME SpineAssumption, SpineInv, NEW s \in Streams,
           Heartbeat(s) \/ AfterNext(s) \/ Deadline(s) \/ Abort(s) \/ Release(s)
    PROVE  SpineInv'
  <1>. DEFINE r == stream[s]
              to(t) == [r EXCEPT !.step = t]
  <1>1. r \in StreamRecords /\ rushed' = rushed
    BY DEF SpineInv, Heartbeat, AfterNext, Deadline, Abort, Release, Turn
  <1>2. r.step # "admitted" => \A t \in {"turn", "next", "write"} : Good(to(t), r)
    <2>. HIDE DEF r
    <2>. QED  BY <1>1 DEF StreamRecords, Good, WaitOK, Holds
  <1>3. Good(Ended(r), r) /\ Good(Closed(r), r)  BY <1>1, EndedGood, ClosedGood
  <1>4. Good(NoStream, r)
    BY EmptySeq DEF NoStream, StreamRecords, Good, WaitOK, Holds
  <1>5. \/ \E t \in {"turn", "next", "write"} :
               r.step # "admitted" /\ stream' = [stream EXCEPT ![s] = to(t)]
        \/ \E q \in {Ended(r), Closed(r), NoStream} : stream' = [stream EXCEPT ![s] = q]
    BY DEF Heartbeat, AfterNext, Deadline, Abort, Release, Turn
  <1>. HIDE DEF r, to
  <1>. QED  BY <1>1, <1>2, <1>3, <1>4, <1>5, OneMoves DEF r

LEMMA CapWrite ==
    ASSUME SpineAssumption, SpineInv, NEW s \in Streams, Write(s)  PROVE SpineInv'
  <1>. DEFINE r == stream[s]
              w == Append(r.wire, "event")
  <1>1. r \in StreamRecords /\ r.step = "write"  BY DEF SpineInv, Write
  <1>2. PICK k \in r.batch :
            Turn(s, [r EXCEPT !.batch = @ \ {k}, !.wire = Append(@, "event"),
                              !.step = IF r.batch = {k} THEN "next" ELSE @])
    BY DEF Write
  <1>3. PICK t \in {"next", "write"} :
            Turn(s, [r EXCEPT !.batch = r.batch \ {k}, !.wire = w, !.step = t])
    BY <1>1, <1>2
  <1>4. w \in Seq({"connected", "event", "end"})
    <2>1. r.wire \in Seq({"connected", "event", "end"})  BY <1>1 DEF StreamRecords
    <2>. QED  BY <2>1
  <1>. DEFINE q == [r EXCEPT !.batch = r.batch \ {k}, !.wire = w, !.step = t]
  <1>5. Good(q, r)
    <2>. HIDE DEF w, r
    <2>. QED  BY <1>1, <1>4 DEF StreamRecords, Good, WaitOK, Holds
  <1>6. stream' = [stream EXCEPT ![s] = q] /\ rushed' = rushed  BY <1>3 DEF Turn
  <1>. HIDE DEF q
  <1>. QED  BY <1>5, <1>6, OneMoves

-----------------------------------------------------------------------------
(* The tab *)

\* A stream that is admitted takes a place.  When no other was admitted and has not
\* subscribed yet, connectionCount counts all the places taken.
LEMMA CapConnect ==
    ASSUME SpineAssumption, SpineInv, NEW p \in Pages, NEW s \in Streams, Connect(p, s)
    PROVE  SpineInv'
  <1>1. CASE UNCHANGED <<stream, rushed>>
    BY <1>1 DEF SpineInv, Held, WaitOK, Holds
  <1>2. CASE /\ connectionCount < maxConnections
             /\ stream' = [stream EXCEPT ![s] = [NoStream EXCEPT !.step = "admitted", !.page = p]]
             /\ rushed' = (rushed \/ \E r \in Streams : stream[r].step = "admitted")
    <2>. DEFINE q == [NoStream EXCEPT !.step = "admitted", !.page = p]
    <2>1. q \in StreamRecords /\ q.step = "admitted"
      BY EmptySeq DEF NoStream, StreamRecords
    <2>. HIDE DEF q
    <2>2. /\ stream' \in [Streams -> StreamRecords]
          /\ \A t \in Streams : WaitOK(stream'[t])
      BY <1>2, <2>1 DEF SpineInv, WaitOK, q
    <2>3. rushed' \/ Cardinality(Held') <= maxConnections
      <3>1. SUFFICES ASSUME ~rushed'  PROVE Cardinality(Held') <= maxConnections
        OBVIOUS
      <3>2. Held = Subscribed  BY <1>2, <3>1 DEF Held, Holds, Subscribed
      <3>3. Held' \subseteq Held \cup {s}  BY <1>2 DEF Held, Holds, SpineInv
      <3>4. IsFiniteSet(Held) /\ IsFiniteSet(Held \cup {s})
        BY FS_Subset DEF SpineAssumption, Held
      <3>5. Cardinality(Held \cup {s}) <= Cardinality(Held) + 1 /\ Cardinality(Held) \in Nat
        <4>1. /\ Cardinality(Held) \in Nat
              /\ \/ Cardinality(Held \cup {s}) = Cardinality(Held)
                 \/ Cardinality(Held \cup {s}) = Cardinality(Held) + 1
          BY <3>4, FS_AddElement, FS_CardinalityType
        <4>. QED  BY <4>1
      <3>6. Cardinality(Held') <= Cardinality(Held \cup {s}) /\ Cardinality(Held') \in Nat
            /\ Cardinality(Held \cup {s}) \in Nat
        BY <3>3, <3>4, FS_Subset, FS_CardinalityType
      <3>7. Cardinality(Held) < maxConnections /\ maxConnections \in Nat
        BY <1>2, <3>2 DEF connectionCount, SpineAssumption
      <3>. QED  BY <3>5, <3>6, <3>7
    <2>. QED  BY <2>2, <2>3 DEF SpineInv
  <1>3. connectionCount >= maxConnections \/ connectionCount < maxConnections
    <2>1. IsFiniteSet(Subscribed)  BY FS_Subset DEF SpineAssumption, Subscribed
    <2>2. connectionCount \in Nat /\ maxConnections \in Nat
      BY <2>1, FS_CardinalityType DEF connectionCount, SpineAssumption
    <2>. QED  BY <2>2
  <1>. QED  BY <1>1, <1>2, <1>3 DEF Connect

\* What is on the way is read or lost; the subscription does not notice.
LEMMA CapWire ==
    ASSUME SpineAssumption, SpineInv, NEW s \in Streams, Arrive(s) \/ Lose(s)
    PROVE  SpineInv'
  <1>. DEFINE r == stream[s]
  <1>1. r \in StreamRecords /\ rushed' = rushed  BY DEF SpineInv, Arrive, Lose
  <1>2. PICK w \in Seq({"connected", "event", "end"}), b \in BOOLEAN :
            stream' = [stream EXCEPT ![s].wire = w, ![s].cut = b]
    <2>1. CASE Arrive(s)
      <3>1. Tail(r.wire) \in Seq({"connected", "event", "end"})
        <4>1. r.wire \in Seq({"connected", "event", "end"}) /\ r.wire # <<>>
          BY <1>1, <2>1 DEF StreamRecords, Arrive
        <4>. QED  BY <4>1
      <3>2. (r.cut \/ Head(r.wire) = "end") \in BOOLEAN  OBVIOUS
      <3>3. stream' = [stream EXCEPT ![s].wire = Tail(@), ![s].cut = @ \/ Head(r.wire) = "end"]
        BY <2>1 DEF Arrive
      <3>. QED  BY <3>1, <3>2, <3>3
    <2>2. CASE Lose(s)
      <3>1. <<>> \in Seq({"connected", "event", "end"}) /\ TRUE \in BOOLEAN  BY EmptySeq
      <3>2. stream' = [stream EXCEPT ![s].wire = <<>>, ![s].cut = TRUE]
        BY <1>1, <2>2 DEF Lose, StreamRecords
      <3>. QED  BY <3>1, <3>2
    <2>. QED  BY <2>1, <2>2
  <1>. DEFINE q == [r EXCEPT !.wire = w, !.cut = b]
  <1>3. Good(q, r)
    <2>1. WaitOK(r)  BY DEF SpineInv
    <2>. HIDE DEF r
    <2>. QED  BY <1>1, <2>1 DEF StreamRecords, Good, WaitOK, Holds
  <1>4. stream' = [stream EXCEPT ![s] = q]  BY <1>1, <1>2 DEF SpineInv, StreamRecords
  <1>. HIDE DEF q
  <1>. QED  BY <1>1, <1>3, <1>4, OneMoves

-----------------------------------------------------------------------------
LEMMA CapInit ==
    ASSUME SpineAssumption, SpineInit  PROVE SpineInv
  <1>1. NoStream \in StreamRecords /\ WaitOK(NoStream) /\ ~Holds(NoStream)
    BY EmptySeq DEF NoStream, StreamRecords, WaitOK, Holds
  <1>2. stream = [s \in Streams |-> NoStream]  BY DEF SpineInit
  <1>3. Held = {}  BY <1>1, <1>2 DEF Held
  <1>4. Cardinality(Held) = 0 /\ maxConnections \in Nat
    BY <1>3, FS_EmptySet DEF SpineAssumption
  <1>5. Cardinality(Held) <= maxConnections  BY <1>4
  <1>. QED  BY <1>1, <1>2, <1>5 DEF SpineInv

\* The invariant is inductive: the lemmas above, and the steps that leave streams alone.
LEMMA CapNext ==
    ASSUME SpineAssumption, SpineInv, [SpineNext]_spineVars  PROVE SpineInv'
  <1>1. CASE UNCHANGED <<stream, rushed>>  BY <1>1 DEF SpineInv, Held, WaitOK, Holds
  <1>2. CASE UNCHANGED spineVars  BY <1>1, <1>2 DEF spineVars
  <1>3. ASSUME NEW k \in Keys, Change(k) \/ Publish(k)  PROVE SpineInv'
    BY <1>1, <1>3, CapPublish DEF Change
  <1>4. ASSUME NEW s \in Streams,
               StreamStep(s) \/ Heartbeat(s) \/ Deadline(s) \/ Release(s) \/ Arrive(s) \/ Lose(s)
        PROVE  SpineInv'
    BY <1>4, CapSubscribe, CapTakeNext, CapTurns, CapWrite, CapWire DEF StreamStep
  <1>5. ASSUME NEW p \in Pages,
               \/ Poll(p)
               \/ \E s \in Streams : Connect(p, s)
               \/ \E i \in 1..MaxFetches : ReadFetch(p, i) \/ FetchArrives(p, i) \/ FetchFails(p, i)
        PROVE  SpineInv'
    <2>1. CASE \E s \in Streams : Connect(p, s)  BY <2>1, CapConnect
    <2>2. CASE \/ Poll(p)
               \/ \E i \in 1..MaxFetches : ReadFetch(p, i) \/ FetchArrives(p, i) \/ FetchFails(p, i)
      BY <1>1, <2>2 DEF Poll, ReadFetch, FetchArrives, FetchFails
    <2>. QED  BY <1>5, <2>1, <2>2
  <1>. QED  BY <1>2, <1>3, <1>4, <1>5, CapCloseAll DEF SpineNext

\* sse.routes.ts:136: there are never more subscriptions than the cap, but for streams
\* that are admitted while another is between the look at the count and its subscription.
THEOREM Capped ==
    ASSUME SpineAssumption  PROVE SpineSpec => []CapHolds
  <1>1. SpineInit => SpineInv  BY CapInit
  <1>2. SpineInv /\ [SpineNext]_spineVars => SpineInv'  BY CapNext
  <1>3. SpineInv => CapHolds
    <2>1. SUFFICES ASSUME SpineInv, ~rushed  PROVE connectionCount <= maxConnections
      BY DEF CapHolds
    <2>2. Subscribed \subseteq Held /\ IsFiniteSet(Held)
      BY FS_Subset DEF SpineAssumption, Subscribed, Held, Holds
    <2>3. Cardinality(Subscribed) <= Cardinality(Held) /\ IsFiniteSet(Subscribed)
      BY <2>2, FS_Subset
    <2>4. /\ Cardinality(Subscribed) \in Nat /\ Cardinality(Held) \in Nat
          /\ maxConnections \in Nat /\ Cardinality(Held) <= maxConnections
      BY <2>1, <2>2, <2>3, FS_CardinalityType DEF SpineAssumption, SpineInv
    <2>. QED  BY <2>3, <2>4 DEF connectionCount
  <1>. QED  BY <1>1, <1>2, <1>3, PTL DEF SpineSpec

\* event-bus.ts: next() waits only on an open subscription with nothing to drain, so no
\* stream sleeps on an event that came while it was writing or was closed meanwhile.
THEOREM NeverSleepsOnEvent ==
    ASSUME SpineAssumption  PROVE SpineSpec => []NoLostWakeup
  <1>1. SpineInit => SpineInv  BY CapInit
  <1>2. SpineInv /\ [SpineNext]_spineVars => SpineInv'  BY CapNext
  <1>3. SpineInv => NoLostWakeup  BY DEF SpineInv, WaitOK, NoLostWakeup
  <1>. QED  BY <1>1, <1>2, <1>3, PTL DEF SpineSpec

-----------------------------------------------------------------------------
(* EventSpine: what a tab shows *)

PageRecs == [status: {"connecting", "open", "closed"}, view: Nat,
             fetches: Seq(Nat \cup {None}), crossed: BOOLEAN, failed: BOOLEAN]

\* A batch is written before the next is taken, and a stream in use has its tab.
StreamOK(r) ==
    /\ r.step \in {"admitted", "next", "wait"} => r.batch = {}
    /\ r.step # "none" => r.page \in Pages
    /\ r.step = "none" => ~r.open /\ r.wire = <<>>

\* The stream has something to tell its tab, or will tell it nothing more.
Signals(r) == ~r.open \/ r.cut \/ r.map # {} \/ r.batch # {} \/ r.wire # <<>>

\* Tab q shows version v, or will when the fetch on its way arrives; or fetches
\* crossed, or the last one failed.
Shows(q, v) ==
    \/ q.crossed
    \/ q.fetches = <<>> /\ (q.failed \/ q.view = v)
    \/ q.fetches # <<>> /\ q.fetches[1] \in {None, v}

\* Without crossing, one fetch at most is on its way.
OneFetch(q) == q.crossed \/ Len(q.fetches) <= 1

FreshInv ==
    /\ version \in Nat
    /\ page \in [Pages -> PageRecs]
    /\ \A p \in Pages : OneFetch(page[p])
    /\ \A s \in Streams : StreamOK(stream[s])
    /\ \A s \in Streams :
        closed \/ unpublished # {} \/ Signals(stream[s]) \/ Shows(page[stream[s].page], version)

\* One stream moves: it has something to tell, or had not.
LEMMA FreshMoves ==
    ASSUME SpineInv, FreshInv, NEW s \in Streams, NEW q,
           stream' = [stream EXCEPT ![s] = q], UNCHANGED <<version, unpublished, closed, page>>,
           StreamOK(q),
           Signals(q) \/ (q.page = stream[s].page /\ ~Signals(stream[s]))
    PROVE  FreshInv'
  <1>1. stream'[s] = q /\ \A t \in Streams : t # s => stream'[t] = stream[t]
    BY DEF SpineInv
  <1>2. \A t \in Streams : StreamOK(stream'[t])
    BY <1>1 DEF FreshInv
  <1>3. \A t \in Streams :
            closed \/ unpublished # {} \/ Signals(stream'[t]) \/ Shows(page[stream'[t].page], version)
    BY <1>1 DEF FreshInv
  <1>. QED  BY <1>2, <1>3 DEF FreshInv

\* What a step makes of a stream's record.
LEMMA FreshRecords ==
    ASSUME NEW r \in StreamRecords, StreamOK(r)
    PROVE  /\ r.step # "none" => StreamOK(Ended(r)) /\ Signals(Ended(r))
           /\ StreamOK(Closed(r)) /\ Signals(Closed(r))
           /\ r.open => StreamOK(Drained(r)) /\ (r.map # {} => Signals(Drained(r)))
           /\ StreamOK(NoStream) /\ Signals(NoStream)
  <1>. DEFINE w == Append(r.wire, "end")
  <1>1. Ended(r) = [r EXCEPT !.open = FALSE, !.step = "over", !.map = {}, !.batch = {}, !.wire = w]
    BY DEF Ended
  <1>. HIDE DEF w
  <1>2. r.step # "none" => StreamOK(Ended(r)) /\ Signals(Ended(r))
    BY <1>1 DEF StreamRecords, StreamOK, Signals, Holds
  <1>3. StreamOK(Closed(r)) /\ Signals(Closed(r))
    BY DEF StreamRecords, StreamOK, Signals, Holds, Closed
  <1>4. r.open => StreamOK(Drained(r)) /\ (r.map # {} => Signals(Drained(r)))
    BY DEF StreamRecords, StreamOK, Signals, Holds, Drained
  <1>5. StreamOK(NoStream) /\ Signals(NoStream)
    BY DEF StreamOK, Signals, Holds, NoStream
  <1>. QED  BY <1>2, <1>3, <1>4, <1>5

\* A subscription that takes an event in has something to tell.
LEMMA FreshEnqueued ==
    ASSUME NEW r \in StreamRecords, StreamOK(r), NEW k \in Keys
    PROVE  StreamOK(Enqueued(r, k)) /\ Signals(Enqueued(r, k))
  <1>. DEFINE q == [r EXCEPT !.map = r.map \cup {k}]
  <1>1. /\ q \in StreamRecords /\ q.open = r.open /\ q.step = r.step /\ q.page = r.page
        /\ q.map = r.map \cup {k} /\ q.batch = r.batch /\ q.wire = r.wire
    BY DEF StreamRecords
  <1>2. Enqueued(r, k) =
            IF ~r.open THEN r
            ELSE IF Cardinality(q.map) > Backstop THEN Closed(q)
            ELSE IF r.step = "wait" THEN Drained(q)
            ELSE q
    BY <1>1 DEF Enqueued
  <1>. HIDE DEF q
  <1>3. q.map # {}  BY <1>1
  <1>4. StreamOK(q) /\ Signals(q)  BY <1>1, <1>3 DEF StreamOK, Signals, Holds
  <1>5. /\ StreamOK(Closed(q)) /\ Signals(Closed(q))
        /\ r.open => StreamOK(Drained(q)) /\ Signals(Drained(q))
    BY <1>1, <1>3, <1>4, FreshRecords
  <1>6. ~r.open => Signals(r)  BY DEF Signals
  <1>. QED  BY <1>2, <1>4, <1>5, <1>6

\* The bus: what is committed is published to every stream, if the bus is open.
LEMMA FreshBus ==
    ASSUME SpineInv, FreshInv, CloseAll \/ \E k \in Keys : Change(k) \/ Publish(k)
    PROVE  FreshInv'
  <1>0. \A s \in Streams : stream[s] \in StreamRecords /\ StreamOK(stream[s])
    BY DEF SpineInv, FreshInv
  <1>1. ASSUME NEW k \in Keys, Change(k)  PROVE FreshInv'
    <2>1. /\ version' = version + 1 /\ unpublished' # {} /\ UNCHANGED <<closed, stream, page>>
      BY <1>1 DEF Change
    <2>. QED  BY <2>1 DEF FreshInv
  <1>2. ASSUME NEW k \in Keys, Publish(k)  PROVE FreshInv'
    <2>1. /\ UNCHANGED <<version, closed, page>>
          /\ IF closed THEN stream' = stream
             ELSE stream' = [s \in Streams |-> Enqueued(stream[s], k)]
      BY <1>2 DEF Publish
    <2>2. \A s \in Streams : StreamOK(stream'[s]) /\ (~closed => Signals(stream'[s]))
      BY <1>0, <2>1, FreshEnqueued
    <2>. QED  BY <2>1, <2>2 DEF FreshInv
  <1>3. CASE CloseAll
    <2>1. /\ UNCHANGED <<version, unpublished, page>> /\ closed' = TRUE
          /\ stream' = [s \in Streams |-> Closed(stream[s])]
      BY <1>3 DEF CloseAll
    <2>2. \A s \in Streams : StreamOK(stream'[s])
      BY <1>0, <2>1, FreshRecords
    <2>. QED  BY <2>1, <2>2 DEF FreshInv
  <1>. QED  BY <1>1, <1>2, <1>3

LEMMA FreshSubscribe ==
    ASSUME SpineInv, FreshInv, NEW s \in Streams, Subscribe(s)  PROVE FreshInv'
  <1>0. PICK r : r = stream[s]  OBVIOUS
  <1>1. r \in StreamRecords /\ StreamOK(r) /\ r.step = "admitted"
        /\ UNCHANGED <<version, unpublished, closed, page>>
    BY <1>0 DEF SpineInv, FreshInv, Subscribe, Turn
  <1>2. PICK w : w = Append(r.wire, "connected")  OBVIOUS
  <1>3. w # <<>>
    <2>1. r.wire \in Seq({"connected", "event", "end"})  BY <1>1 DEF StreamRecords
    <2>. QED  BY <1>2, <2>1
  <1>4. PICK q : q = [r EXCEPT !.step = "next", !.open = TRUE, !.wire = w]  OBVIOUS
  <1>5. stream' = [stream EXCEPT ![s] = q]
    BY <1>0, <1>2, <1>4 DEF Subscribe, Turn
  <1>6. StreamOK(q) /\ Signals(q)
    BY <1>1, <1>3, <1>4 DEF StreamRecords, StreamOK, Signals, Holds
  <1>. QED  BY <1>1, <1>5, <1>6, FreshMoves

LEMMA FreshTurns ==
    ASSUME SpineInv, FreshInv, NEW s \in Streams,
           \/ TakeNext(s) \/ Heartbeat(s) \/ AfterNext(s) \/ Deadline(s) \/ Abort(s) \/ Release(s)
    PROVE  FreshInv'
  <1>0. PICK r : r = stream[s]  OBVIOUS
  <1>1. r \in StreamRecords /\ StreamOK(r) /\ UNCHANGED <<version, unpublished, closed, page>>
    BY <1>0 DEF SpineInv, FreshInv, TakeNext, Heartbeat, AfterNext, Deadline, Abort, Release, Turn
  <1>2. \/ r.step # "none" /\ stream' = [stream EXCEPT ![s] = Ended(r)]
        \/ \E q \in {Closed(r), NoStream} : stream' = [stream EXCEPT ![s] = q]
        \/ r.open /\ r.map # {} /\ stream' = [stream EXCEPT ![s] = Drained(r)]
        \/ \E t \in {"turn", "next", "wait", "write"} :
            /\ stream' = [stream EXCEPT ![s] = [r EXCEPT !.step = t]]
            /\ t \in {"next", "wait"} => r.batch = {}
            /\ r.step \notin {"admitted", "none"}
    BY <1>0, <1>1 DEF StreamOK, TakeNext, Heartbeat, AfterNext, Deadline, Abort, Release, Turn
  <1>3. ASSUME NEW q \in {Ended(r), Closed(r), NoStream}, stream' = [stream EXCEPT ![s] = q],
               q = Ended(r) => r.step # "none" \/ q \in {Closed(r), NoStream}
        PROVE  FreshInv'
    <2>1. StreamOK(q) /\ Signals(q)  BY <1>1, <1>3, FreshRecords
    <2>. QED  BY <1>1, <1>3, <2>1, FreshMoves
  <1>4. ASSUME r.open, r.map # {}, stream' = [stream EXCEPT ![s] = Drained(r)]  PROVE FreshInv'
    <2>1. StreamOK(Drained(r)) /\ Signals(Drained(r))  BY <1>1, <1>4, FreshRecords
    <2>. QED  BY <1>1, <1>4, <2>1, FreshMoves
  <1>5. ASSUME NEW t \in {"turn", "next", "wait", "write"},
               stream' = [stream EXCEPT ![s] = [r EXCEPT !.step = t]],
               t \in {"next", "wait"} => r.batch = {}, r.step \notin {"admitted", "none"}
        PROVE  FreshInv'
    <2>1. PICK q : q = [r EXCEPT !.step = t]  OBVIOUS
    <2>2. StreamOK(q) /\ q.page = r.page /\ (Signals(q) <=> Signals(r))
      BY <1>1, <1>5, <2>1 DEF StreamRecords, StreamOK, Signals, Holds
    <2>. QED  BY <1>0, <1>1, <1>5, <2>1, <2>2, FreshMoves
  <1>. QED  BY <1>2, <1>3, <1>4, <1>5

LEMMA FreshWrite ==
    ASSUME SpineInv, FreshInv, NEW s \in Streams, Write(s)  PROVE FreshInv'
  <1>0. PICK r : r = stream[s]  OBVIOUS
  <1>1. r \in StreamRecords /\ StreamOK(r) /\ r.step = "write"
        /\ UNCHANGED <<version, unpublished, closed, page>>
    BY <1>0 DEF SpineInv, FreshInv, Write, Turn
  <1>2. PICK w : w = Append(r.wire, "event")  OBVIOUS
  <1>3. w # <<>>
    <2>1. r.wire \in Seq({"connected", "event", "end"})  BY <1>1 DEF StreamRecords
    <2>. QED  BY <1>2, <2>1
  <1>4. PICK k \in r.batch :
            Turn(s, [r EXCEPT !.batch = @ \ {k}, !.wire = Append(@, "event"),
                              !.step = IF r.batch = {k} THEN "next" ELSE @])
    BY <1>0 DEF Write
  <1>5. PICK t \in {"next", "write"} :
            /\ Turn(s, [r EXCEPT !.batch = r.batch \ {k}, !.wire = w, !.step = t])
            /\ t = "next" => r.batch = {k}
    BY <1>1, <1>2, <1>4
  <1>6. PICK q : q = [r EXCEPT !.batch = r.batch \ {k}, !.wire = w, !.step = t]  OBVIOUS
  <1>7. stream' = [stream EXCEPT ![s] = q]  BY <1>5, <1>6 DEF Turn
  <1>8. StreamOK(q) /\ Signals(q)
    BY <1>1, <1>3, <1>5, <1>6 DEF StreamRecords, StreamOK, Signals, Holds
  <1>. QED  BY <1>1, <1>7, <1>8, FreshMoves

\* A tab that fetches shows what is current then, or its fetches cross.
LEMMA FetchedShows ==
    ASSUME NEW p \in Pages, page[p] \in PageRecs
    PROVE  \A v : /\ Shows(Fetched(p), v) /\ OneFetch(Fetched(p)) /\ Fetched(p) \in PageRecs
                  /\ \A t \in {"connecting", "open", "closed"} :
                       /\ Shows([Fetched(p) EXCEPT !.status = t], v)
                       /\ OneFetch([Fetched(p) EXCEPT !.status = t])
                       /\ [Fetched(p) EXCEPT !.status = t] \in PageRecs
  <1>0. PICK q : q = page[p]  OBVIOUS
  <1>1. PICK f : f = Append(q.fetches, None)  OBVIOUS
  <1>2. PICK c \in BOOLEAN : c = (q.fetches # <<>>)  OBVIOUS
  <1>3. Fetched(p) = [q EXCEPT !.fetches = f, !.crossed = c]
    BY <1>0, <1>1, <1>2 DEF Fetched
  <1>4. q \in PageRecs /\ q.fetches \in Seq(Nat \cup {None})
    BY <1>0 DEF PageRecs
  <1>5. f \in Seq(Nat \cup {None}) /\ f # <<>> /\ (q.fetches = <<>> => Len(f) = 1 /\ f[1] = None)
    BY <1>1, <1>4
  <1>6. PICK g : g = Fetched(p)  OBVIOUS
  <1>7. g \in PageRecs /\ g.fetches = f /\ g.crossed = c
    BY <1>3, <1>4, <1>5, <1>6 DEF PageRecs
  <1>8. c \/ (Len(f) = 1 /\ f[1] = None)
    BY <1>2, <1>5
  <1>9. Len(f) = 1 => Len(f) <= 1
    OBVIOUS
  <1>10. ASSUME NEW t \in {"connecting", "open", "closed"}
         PROVE  /\ [g EXCEPT !.status = t] \in PageRecs
                /\ [g EXCEPT !.status = t].fetches = f /\ [g EXCEPT !.status = t].crossed = c
    BY <1>7 DEF PageRecs
  <1>11. \A h : h.fetches = f /\ h.crossed = c => OneFetch(h) /\ \A v : Shows(h, v)
    BY <1>5, <1>8, <1>9 DEF OneFetch, Shows
  <1>. QED  BY <1>6, <1>7, <1>10, <1>11

\* Tabs show no less, and the streams have as much to tell as they had.
LEMMA FreshPages ==
    ASSUME FreshInv, UNCHANGED <<version, unpublished, closed>>, page' \in [Pages -> PageRecs],
           \A x \in Pages : OneFetch(page'[x]) /\ (Shows(page[x], version) => Shows(page'[x], version)),
           \A t \in Streams :
              /\ StreamOK(stream'[t]) /\ stream'[t].page = stream[t].page
              /\ Signals(stream[t]) => Signals(stream'[t])
    PROVE  FreshInv'
  <1>1. ASSUME NEW t \in Streams
        PROVE  \/ closed' \/ unpublished' # {} \/ Signals(stream'[t])
               \/ Shows(page'[stream'[t].page], version')
    <2>1. StreamOK(stream[t]) /\ (\/ closed \/ unpublished # {} \/ Signals(stream[t])
                                  \/ Shows(page[stream[t].page], version))
      BY DEF FreshInv
    <2>2. CASE stream[t].step = "none"
      <3>1. Signals(stream[t])  BY <2>1, <2>2 DEF StreamOK, Signals
      <3>. QED  BY <3>1
    <2>3. CASE stream[t].step # "none"
      <3>1. stream[t].page \in Pages  BY <2>1, <2>3 DEF StreamOK
      <3>. QED  BY <2>1, <3>1
    <2>. QED  BY <2>2, <2>3
  <1>. QED  BY <1>1 DEF FreshInv

\* A tab fetches; the streams have as much to tell as they had.
LEMMA FreshFetch ==
    ASSUME FreshInv, NEW p \in Pages, NEW q \in PageRecs, page' = [page EXCEPT ![p] = q],
           Shows(q, version), OneFetch(q), UNCHANGED <<version, unpublished, closed>>,
           \A s \in Streams :
              /\ StreamOK(stream'[s])
              /\ stream'[s].page = stream[s].page
              /\ Signals(stream[s]) => Signals(stream'[s]) \/ stream[s].page = p
    PROVE  FreshInv'
  <1>1. /\ page' \in [Pages -> PageRecs] /\ page'[p] = q
        /\ \A x \in Pages : x # p => page'[x] = page[x]
    BY DEF FreshInv
  <1>2. ASSUME NEW t \in Streams
        PROVE  \/ closed' \/ unpublished' # {} \/ Signals(stream'[t])
               \/ Shows(page'[stream'[t].page], version')
    <2>1. CASE stream[t].page = p
      BY <1>1, <2>1
    <2>2. CASE stream[t].page # p
      <3>1. CASE Signals(stream[t])
        BY <2>2, <3>1
      <3>2. CASE ~Signals(stream[t])
        <4>1. stream[t].page \in Pages
          BY <3>2 DEF FreshInv, StreamOK, Signals
        <4>. QED  BY <1>1, <2>2, <3>2, <4>1 DEF FreshInv
      <3>. QED  BY <3>1, <3>2
    <2>. QED  BY <2>1, <2>2
  <1>. QED  BY <1>1, <1>2 DEF FreshInv

LEMMA FreshArrive ==
    ASSUME SpineInv, FreshInv, NEW s \in Streams, Arrive(s)  PROVE FreshInv'
  <1>0. PICK r : r = stream[s]  OBVIOUS
  <1>1. PICK p : p = r.page  OBVIOUS
  <1>2. /\ r \in StreamRecords /\ StreamOK(r) /\ r.wire # <<>> /\ ~r.cut
        /\ UNCHANGED <<version, unpublished, closed>> /\ page \in [Pages -> PageRecs]
    BY <1>0 DEF SpineInv, FreshInv, Arrive
  <1>3. p \in Pages  BY <1>1, <1>2 DEF StreamOK
  <1>4. PICK w, b : w = Tail(r.wire) /\ b = (r.cut \/ Head(r.wire) = "end")  OBVIOUS
  <1>5. PICK q : q = [r EXCEPT !.wire = w, !.cut = b]  OBVIOUS
  <1>6. /\ stream' = [stream EXCEPT ![s] = q]
        /\ page' = [page EXCEPT ![p] = IF Head(r.wire) = "end" THEN [page[p] EXCEPT !.status = "connecting"]
                                       ELSE [Fetched(p) EXCEPT !.status = "open"]]
    BY <1>0, <1>1, <1>3, <1>4, <1>5 DEF Arrive, SpineInv, StreamRecords
  <1>7. /\ q.step = r.step /\ q.open = r.open /\ q.map = r.map /\ q.batch = r.batch
        /\ q.page = r.page /\ q.cut = b /\ q.wire = w
    BY <1>2, <1>5 DEF StreamRecords
  <1>8. r.step # "none"  BY <1>2 DEF StreamOK
  <1>9. StreamOK(q)  BY <1>2, <1>7, <1>8 DEF StreamOK
  <1>10. stream'[s] = q /\ \A t \in Streams : t # s => stream'[t] = stream[t]
    BY <1>6 DEF SpineInv
  <1>11. \A t \in Streams : StreamOK(stream'[t]) /\ stream'[t].page = stream[t].page
    BY <1>0, <1>7, <1>9, <1>10 DEF FreshInv
  <1>12. CASE Head(r.wire) = "end"
    <2>1. PICK g : g = [page[p] EXCEPT !.status = "connecting"]  OBVIOUS
    <2>2. /\ g \in PageRecs /\ g.view = page[p].view /\ g.fetches = page[p].fetches
          /\ g.crossed = page[p].crossed /\ g.failed = page[p].failed
      BY <1>2, <1>3, <2>1 DEF PageRecs
    <2>3. page' = [page EXCEPT ![p] = g]  BY <1>6, <1>12, <2>1
    <2>4. /\ page' \in [Pages -> PageRecs] /\ page'[p] = g
          /\ \A x \in Pages : x # p => page'[x] = page[x]
      BY <1>2, <1>3, <2>2, <2>3
    <2>5. \A x \in Pages : OneFetch(page'[x]) /\ (Shows(page[x], version) => Shows(page'[x], version))
      BY <1>3, <2>2, <2>4 DEF OneFetch, Shows, FreshInv
    <2>6. b  BY <1>4, <1>12
    <2>7. Signals(q)  BY <1>7, <2>6 DEF Signals
    <2>8. \A t \in Streams : Signals(stream[t]) => Signals(stream'[t])
      BY <1>10, <2>7
    <2>. QED  BY <1>2, <1>11, <2>4, <2>5, <2>8, FreshPages
  <1>13. CASE Head(r.wire) # "end"
    <2>1. PICK g : g = [Fetched(p) EXCEPT !.status = "open"]  OBVIOUS
    <2>2. page' = [page EXCEPT ![p] = g]  BY <1>6, <1>13, <2>1
    <2>3. page[p] \in PageRecs  BY <1>2, <1>3
    <2>4. Shows(g, version) /\ OneFetch(g) /\ g \in PageRecs
      BY <1>3, <2>1, <2>3, FetchedShows
    <2>5. \A t \in Streams : Signals(stream[t]) => Signals(stream'[t]) \/ stream[t].page = p
      BY <1>0, <1>1, <1>10
    <2>. QED  BY <1>2, <1>3, <1>11, <2>2, <2>4, <2>5, FreshFetch
  <1>. QED  BY <1>12, <1>13

LEMMA FreshLose ==
    ASSUME SpineInv, FreshInv, NEW s \in Streams, Lose(s)  PROVE FreshInv'
  <1>0. PICK r : r = stream[s]  OBVIOUS
  <1>1. PICK p : p = r.page  OBVIOUS
  <1>2. /\ r \in StreamRecords /\ StreamOK(r) /\ r.step # "none"
        /\ UNCHANGED <<version, unpublished, closed>> /\ page \in [Pages -> PageRecs]
    BY <1>0 DEF SpineInv, FreshInv, Lose
  <1>3. p \in Pages  BY <1>1, <1>2 DEF StreamOK
  <1>4. PICK q : q = [r EXCEPT !.cut = TRUE, !.wire = <<>>]  OBVIOUS
  <1>5. PICK g : g = [page[p] EXCEPT !.status = "connecting"]  OBVIOUS
  <1>6. stream' = [stream EXCEPT ![s] = q] /\ page' = [page EXCEPT ![p] = g]
    BY <1>0, <1>1, <1>2, <1>3, <1>4, <1>5 DEF Lose, SpineInv, StreamRecords
  <1>7. /\ q.step = r.step /\ q.batch = r.batch /\ q.page = r.page /\ q.cut = TRUE
    BY <1>2, <1>4 DEF StreamRecords
  <1>8. StreamOK(q) /\ Signals(q)  BY <1>2, <1>7 DEF StreamOK, Signals
  <1>9. stream'[s] = q /\ \A t \in Streams : t # s => stream'[t] = stream[t]
    BY <1>6 DEF SpineInv
  <1>10. \A t \in Streams : StreamOK(stream'[t]) /\ stream'[t].page = stream[t].page
    BY <1>0, <1>7, <1>8, <1>9 DEF FreshInv
  <1>11. /\ g \in PageRecs /\ g.view = page[p].view /\ g.fetches = page[p].fetches
         /\ g.crossed = page[p].crossed /\ g.failed = page[p].failed
    BY <1>2, <1>3, <1>5 DEF PageRecs
  <1>12. /\ page' \in [Pages -> PageRecs] /\ page'[p] = g
         /\ \A x \in Pages : x # p => page'[x] = page[x]
    BY <1>2, <1>3, <1>6, <1>11
  <1>13. \A x \in Pages : OneFetch(page'[x]) /\ (Shows(page[x], version) => Shows(page'[x], version))
    BY <1>3, <1>11, <1>12 DEF OneFetch, Shows, FreshInv
  <1>14. \A t \in Streams : Signals(stream[t]) => Signals(stream'[t])
    BY <1>8, <1>9
  <1>. QED  BY <1>2, <1>10, <1>12, <1>13, <1>14, FreshPages

\* A stream that begins has told its tab nothing.
LEMMA FreshConnect ==
    ASSUME SpineInv, FreshInv, NEW p \in Pages, NEW s \in Streams, Connect(p, s)
    PROVE  FreshInv'
  <1>0. /\ UNCHANGED <<version, unpublished, closed>> /\ page \in [Pages -> PageRecs]
        /\ stream \in [Streams -> StreamRecords]
    BY DEF Connect, FreshInv, SpineInv
  <1>1. CASE /\ page' = [page EXCEPT ![p].status = "closed"] /\ UNCHANGED stream
    <2>1. PICK g : g = [page[p] EXCEPT !.status = "closed"]  OBVIOUS
    <2>2. /\ g \in PageRecs /\ g.view = page[p].view /\ g.fetches = page[p].fetches
          /\ g.crossed = page[p].crossed /\ g.failed = page[p].failed
      BY <1>0, <2>1 DEF PageRecs
    <2>3. /\ page' \in [Pages -> PageRecs] /\ page'[p] = g
          /\ \A x \in Pages : x # p => page'[x] = page[x]
      BY <1>0, <1>1, <2>1, <2>2
    <2>4. \A x \in Pages : OneFetch(page'[x]) /\ (Shows(page[x], version) => Shows(page'[x], version))
      BY <2>2, <2>3 DEF OneFetch, Shows, FreshInv
    <2>5. \A t \in Streams : StreamOK(stream[t])
      BY DEF FreshInv
    <2>. QED  BY <1>0, <1>1, <2>3, <2>4, <2>5, FreshPages
  <1>2. CASE /\ stream' = [stream EXCEPT ![s] = [NoStream EXCEPT !.step = "admitted", !.page = p]]
             /\ UNCHANGED page
    <2>1. PICK q : q = [NoStream EXCEPT !.step = "admitted", !.page = p]  OBVIOUS
    <2>2. StreamOK(q) /\ Signals(q)  BY <2>1 DEF NoStream, StreamOK, Signals
    <2>. QED  BY <1>0, <1>2, <2>1, <2>2, FreshMoves
  <1>. QED  BY <1>1, <1>2 DEF Connect

\* The server reads for a fetch, and an answer arrives.
LEMMA FreshPage ==
    ASSUME SpineInv, FreshInv, NEW p \in Pages,
           \/ Poll(p)
           \/ \E i \in 1..MaxFetches : ReadFetch(p, i) \/ FetchArrives(p, i) \/ FetchFails(p, i)
    PROVE  FreshInv'
  <1>0. /\ UNCHANGED <<version, unpublished, closed, stream>> /\ page \in [Pages -> PageRecs]
        /\ version \in Nat
    BY DEF Poll, ReadFetch, FetchArrives, FetchFails, FreshInv
  <1>1. PICK r : r = page[p]  OBVIOUS
  <1>2. /\ r \in PageRecs /\ r.fetches \in Seq(Nat \cup {None}) /\ r.view \in Nat
        /\ {r.crossed, r.failed} \subseteq BOOLEAN /\ OneFetch(r)
    BY <1>0, <1>1 DEF PageRecs, FreshInv
  <1>3. CASE Poll(p)
    <2>1. page' = [page EXCEPT ![p] = Fetched(p)]  BY <1>3 DEF Poll
    <2>2. Shows(Fetched(p), version) /\ OneFetch(Fetched(p)) /\ Fetched(p) \in PageRecs
      BY <1>1, <1>2, FetchedShows
    <2>. QED  BY <1>0, <2>1, <2>2, FreshFetch DEF FreshInv
  <1>4. ASSUME NEW q \in PageRecs, page' = [page EXCEPT ![p] = q], OneFetch(q),
               Shows(r, version) => Shows(q, version)
        PROVE  FreshInv'
    <2>1. /\ page' \in [Pages -> PageRecs] /\ page'[p] = q
          /\ \A x \in Pages : x # p => page'[x] = page[x]
      BY <1>0, <1>4
    <2>2. \A x \in Pages : OneFetch(page'[x]) /\ (Shows(page[x], version) => Shows(page'[x], version))
      BY <1>1, <1>4, <2>1 DEF FreshInv
    <2>3. \A t \in Streams : StreamOK(stream[t])
      BY DEF FreshInv
    <2>. QED  BY <1>0, <2>1, <2>2, <2>3, FreshPages
  <1>5. ASSUME NEW i \in 1..MaxFetches, ReadFetch(p, i)  PROVE FreshInv'
    <2>1. i \in DOMAIN r.fetches /\ r.fetches[i] = None
          /\ page' = [page EXCEPT ![p].fetches[i] = version]
      BY <1>1, <1>5 DEF ReadFetch
    <2>2. PICK f : f = [r.fetches EXCEPT ![i] = version]  OBVIOUS
    <2>3. f \in Seq(Nat \cup {None}) /\ Len(f) = Len(r.fetches)
          /\ (f = <<>> <=> r.fetches = <<>>)
          /\ \A j \in DOMAIN r.fetches : f[j] = IF j = i THEN version ELSE r.fetches[j]
      BY <1>0, <1>2, <2>1, <2>2
    <2>4. PICK q : q = [r EXCEPT !.fetches = f]  OBVIOUS
    <2>5. /\ q \in PageRecs /\ q.fetches = f /\ q.view = r.view
          /\ q.crossed = r.crossed /\ q.failed = r.failed
      BY <1>2, <2>3, <2>4 DEF PageRecs
    <2>6. page' = [page EXCEPT ![p] = q]
      BY <1>0, <1>1, <1>2, <2>1, <2>2, <2>4 DEF PageRecs
    <2>7. OneFetch(q)  BY <1>2, <2>3, <2>5 DEF OneFetch
    <2>8. ASSUME Shows(r, version)  PROVE Shows(q, version)
      <3>1. r.fetches # <<>> => 1 \in DOMAIN r.fetches  BY <1>2
      <3>. QED  BY <2>3, <2>5, <2>8, <3>1 DEF Shows
    <2>. QED  BY <1>4, <2>5, <2>6, <2>7, <2>8
  <1>6. ASSUME NEW i \in 1..MaxFetches, FetchArrives(p, i) \/ FetchFails(p, i)  PROVE FreshInv'
    <2>1. i \in DOMAIN r.fetches
      BY <1>1, <1>6 DEF FetchArrives, FetchFails
    <2>2. PICK f : f = RemoveAt(r.fetches, i)  OBVIOUS
    <2>3. f \in Seq(Nat \cup {None}) /\ Len(f) = Len(r.fetches) - 1
      <3>1. i \in 1..Len(r.fetches)  BY <1>2, <2>1
      <3>2. f = SubSeq(r.fetches, 1, i - 1) \o SubSeq(r.fetches, i + 1, Len(r.fetches))
        BY <2>2 DEF RemoveAt
      <3>3. /\ SubSeq(r.fetches, 1, i - 1) \in Seq(Nat \cup {None})
            /\ Len(SubSeq(r.fetches, 1, i - 1)) = i - 1
        BY <1>2, <3>1, SubSeqProperties
      <3>4. /\ SubSeq(r.fetches, i + 1, Len(r.fetches)) \in Seq(Nat \cup {None})
            /\ Len(SubSeq(r.fetches, i + 1, Len(r.fetches))) = Len(r.fetches) - i
        BY <1>2, <3>1, SubSeqProperties
      <3>5. PICK a \in Seq(Nat \cup {None}), b \in Seq(Nat \cup {None}) :
                f = a \o b /\ Len(a) = i - 1 /\ Len(b) = Len(r.fetches) - i
        BY <3>2, <3>3, <3>4
      <3>6. f \in Seq(Nat \cup {None}) /\ Len(f) = Len(a) + Len(b)
        BY <3>5, ConcatProperties
      <3>7. PICK n \in Nat : n = Len(r.fetches)  BY <1>2
      <3>8. i \in Int /\ Len(f) = (i - 1) + (n - i)  BY <3>1, <3>5, <3>6, <3>7
      <3>. QED  BY <3>6, <3>7, <3>8
    <2>4. Len(r.fetches) \in Nat /\ (r.fetches # <<>> => Len(r.fetches) >= 1)
      BY <1>2
    <2>5. ASSUME ~r.crossed  PROVE r.fetches # <<>> /\ i = 1 /\ f = <<>>
      <3>1. i \in 1..Len(r.fetches) /\ Len(r.fetches) <= 1
        BY <1>2, <2>1, <2>5 DEF OneFetch
      <3>2. PICK n \in Nat : n = Len(r.fetches)  BY <2>4
      <3>3. i \in Int /\ i >= 1 /\ i <= n /\ n <= 1  BY <3>1, <3>2
      <3>4. n = 1 /\ i = 1  BY <3>3
      <3>5. Len(r.fetches) = 1 /\ i = 1  BY <3>2, <3>4
      <3>. QED  BY <2>3, <3>5
    <2>6. CASE FetchArrives(p, i)
      <3>1. r.fetches[i] # None
            /\ page' = [page EXCEPT ![p].view = page[p].fetches[i], ![p].failed = FALSE,
                                    ![p].fetches = RemoveAt(@, i)]
        BY <1>1, <2>6 DEF FetchArrives
      <3>2. PICK v : v = r.fetches[i]  OBVIOUS
      <3>3. v \in Nat  BY <1>2, <2>1, <3>1, <3>2
      <3>4. PICK q : q = [r EXCEPT !.view = v, !.failed = FALSE, !.fetches = f]  OBVIOUS
      <3>5. q \in PageRecs /\ q.fetches = f /\ q.view = v /\ q.crossed = r.crossed
        BY <1>2, <2>3, <3>3, <3>4 DEF PageRecs
      <3>6. page' = [page EXCEPT ![p] = q]
        BY <1>0, <1>1, <1>2, <2>2, <3>1, <3>2, <3>4 DEF PageRecs
      <3>7. OneFetch(q)  BY <1>2, <2>3, <2>4, <3>5 DEF OneFetch
      <3>8. ASSUME Shows(r, version)  PROVE Shows(q, version)
        <4>1. ~r.crossed => v = version  BY <2>5, <3>1, <3>2, <3>8 DEF Shows
        <4>. QED  BY <2>5, <3>5, <4>1 DEF Shows
      <3>. QED  BY <1>4, <3>5, <3>6, <3>7, <3>8
    <2>7. CASE FetchFails(p, i)
      <3>1. page' = [page EXCEPT ![p].failed = TRUE, ![p].fetches = RemoveAt(@, i)]
        BY <2>7 DEF FetchFails
      <3>2. PICK q : q = [r EXCEPT !.failed = TRUE, !.fetches = f]  OBVIOUS
      <3>3. q \in PageRecs /\ q.fetches = f /\ q.failed /\ q.crossed = r.crossed
        BY <1>2, <2>3, <3>2 DEF PageRecs
      <3>4. page' = [page EXCEPT ![p] = q]
        BY <1>0, <1>1, <1>2, <2>2, <3>1, <3>2 DEF PageRecs
      <3>5. OneFetch(q)  BY <1>2, <2>3, <2>4, <3>3 DEF OneFetch
      <3>6. Shows(q, version)  BY <2>5, <3>3 DEF Shows
      <3>. QED  BY <1>4, <3>3, <3>4, <3>5, <3>6
    <2>. QED  BY <1>6, <2>6, <2>7
  <1>. QED  BY <1>3, <1>5, <1>6

LEMMA FreshStart ==
    ASSUME SpineInit  PROVE FreshInv
  <1>1. \A s \in Streams : stream[s] = NoStream  BY DEF SpineInit
  <1>2. StreamOK(NoStream) /\ Signals(NoStream)  BY DEF NoStream, StreamOK, Signals
  <1>3. <<>> \in Seq(Nat \cup {None}) /\ Len(<<>>) <= 1  OBVIOUS
  <1>4. page \in [Pages -> PageRecs] /\ \A p \in Pages : page[p].fetches = <<>>
    BY <1>3 DEF SpineInit, PageRecs
  <1>5. \A p \in Pages : OneFetch(page[p])  BY <1>3, <1>4 DEF OneFetch
  <1>. QED  BY <1>1, <1>2, <1>4, <1>5 DEF SpineInit, FreshInv

LEMMA FreshNext ==
    ASSUME SpineInv, FreshInv, [SpineNext]_spineVars  PROVE FreshInv'
  <1>1. CASE UNCHANGED spineVars  BY <1>1 DEF spineVars, FreshInv
  <1>2. ASSUME NEW k \in Keys, Change(k) \/ Publish(k)  PROVE FreshInv'
    BY <1>2, FreshBus
  <1>3. CASE CloseAll  BY <1>3, FreshBus
  <1>4. ASSUME NEW s \in Streams,
               StreamStep(s) \/ Heartbeat(s) \/ Deadline(s) \/ Release(s) \/ Arrive(s) \/ Lose(s)
        PROVE  FreshInv'
    BY <1>4, FreshSubscribe, FreshTurns, FreshWrite, FreshArrive, FreshLose DEF StreamStep
  <1>5. ASSUME NEW p \in Pages,
               \/ Poll(p)
               \/ \E s \in Streams : Connect(p, s)
               \/ \E i \in 1..MaxFetches : ReadFetch(p, i) \/ FetchArrives(p, i) \/ FetchFails(p, i)
        PROVE  FreshInv'
    BY <1>5, FreshConnect, FreshPage
  <1>. QED  BY <1>1, <1>2, <1>3, <1>4, <1>5 DEF SpineNext

\* event-bus.ts and spine-store.ts: a tab whose stream is open and rests shows what the
\* API would answer, for any number of tabs, streams and keys, breaks and shutdowns.
THEOREM NothingMissed ==
    ASSUME SpineAssumption  PROVE SpineSpec => []FreshWhenOpen
  <1>1. SpineInit => SpineInv /\ FreshInv  BY CapInit, FreshStart
  <1>2. SpineInv /\ FreshInv /\ [SpineNext]_spineVars => (SpineInv /\ FreshInv)'
    BY CapNext, FreshNext
  <1>3. SpineInv /\ FreshInv => FreshWhenOpen
    <2>1. SUFFICES ASSUME SpineInv, FreshInv, NEW s \in Streams,
                          stream[s].step = "wait", stream[s].wire = <<>>, ~stream[s].cut,
                          page[stream[s].page].fetches = <<>>, ~page[stream[s].page].crossed,
                          ~page[stream[s].page].failed,
                          unpublished = {}, ~closed
                   PROVE  page[stream[s].page].view = version
      BY DEF FreshWhenOpen
    <2>2. StreamOK(stream[s]) /\ WaitOK(stream[s])  BY <2>1 DEF FreshInv, SpineInv
    <2>3. ~Signals(stream[s])  BY <2>1, <2>2 DEF StreamOK, WaitOK, Signals
    <2>. QED  BY <2>1, <2>3 DEF FreshInv, Shows
  <1>. QED  BY <1>1, <1>2, <1>3, PTL DEF SpineSpec

-----------------------------------------------------------------------------
(* Inbox *)

InboxRows == [event: Events \cup {None}, read: BOOLEAN]
SweepRecs == [step: {"idle", "select", "check", "create"}, now: Nat,
              todo: SUBSET Events, pending: SUBSET Events]
PushRecs  == [step: {"idle", "count", "send"}, count: Nat, alone: BOOLEAN]
Bells     == [connected: BOOLEAN, ws: Nat, initial: Nat, seed: {"asked", "read", "done"},
              answer: Nat, list: Seq(BOOLEAN)]
Traces    == [current: BOOLEAN, overlapped: BOOLEAN, kept: SUBSET Events,
              failed: [Events -> Nat]]

InboxRanges ==
    /\ tick \in Nat /\ fired \in BOOLEAN /\ startAt \in [Events -> Nat] /\ wanted \subseteq Events
    /\ toggle \in [Toggles -> [step: {"insert", "delete"}, event: Events] \cup {NoToggle}]
    /\ sweep \in [Sweeps -> SweepRecs]
    /\ inbox \in Seq(InboxRows)
    /\ push \in [Pushes -> PushRecs]
    /\ bell \in Bells
    /\ trace \in Traces

LEMMA UnreadCounts ==
  ASSUME inbox \in Seq(InboxRows)
  PROVE  /\ IsFiniteSet(Unread) /\ Cardinality(Unread) \in Nat
         /\ Cardinality(Unread) = 0 <=> Unread = {}
<1>1. Unread \subseteq 1..Len(inbox) /\ Len(inbox) \in Nat
  BY DEF Unread
<1>2. IsFiniteSet(1..Len(inbox))
  BY <1>1, FS_Interval
<1>3. IsFiniteSet(Unread)
  BY <1>1, <1>2, FS_Subset
<1> QED
  BY <1>3, FS_CardinalityType, FS_EmptySet

LEMMA NothingRecs ==
  /\ NoPush \in PushRecs /\ NoPush.step = "idle" /\ NoPush.alone = FALSE
  /\ NoSweep \in SweepRecs /\ NoSweep.step = "idle" /\ NoSweep.todo = {} /\ NoSweep.pending = {}
  /\ [NoPush EXCEPT !.alone = FALSE] = NoPush
<1>1. /\ NoPush \in PushRecs /\ NoPush.step = "idle" /\ NoPush.alone = FALSE
      /\ NoSweep \in SweepRecs /\ NoSweep.step = "idle" /\ NoSweep.todo = {} /\ NoSweep.pending = {}
  BY DEF NoPush, NoSweep, PushRecs, SweepRecs
<1>2. \A r \in PushRecs : r.alone = FALSE => [r EXCEPT !.alone = FALSE] = r
  BY DEF PushRecs
<1> QED
  BY <1>1, <1>2

\* What a push that begins makes of those in flight.
Begins(p) ==
    /\ push[p] = NoPush /\ push'[p].step = "count"
    /\ push'[p].alone = (\A r \in Pushes : push[r] = NoPush)
    /\ \A q \in Pushes : q # p => /\ push'[q].alone = FALSE /\ push'[q].step = push[q].step
                                  /\ push[q] = NoPush => push'[q] = NoPush

LEMMA PushBegins ==
  ASSUME push \in [Pushes -> PushRecs], StartPush
  PROVE  push' \in [Pushes -> PushRecs] /\ \E p \in Pushes : Begins(p)
<1>1. PICK p \in Pushes :
        /\ push[p] = NoPush
        /\ push' = [q \in Pushes |->
                      IF q = p THEN [step |-> "count", count |-> 0,
                                     alone |-> \A r \in Pushes : push[r] = NoPush]
                      ELSE [push[q] EXCEPT !.alone = FALSE]]
  BY DEF StartPush
<1>2. (\A r \in Pushes : push[r] = NoPush) \in BOOLEAN
  OBVIOUS
<1>3. /\ push'[p] = [step |-> "count", count |-> 0, alone |-> \A r \in Pushes : push[r] = NoPush]
      /\ push'[p] \in PushRecs
  BY <1>1, <1>2 DEF PushRecs
<1>4. \A q \in Pushes : q # p => push'[q] = [push[q] EXCEPT !.alone = FALSE]
  BY <1>1
<1>5. \A q \in Pushes : q # p => /\ push'[q] \in PushRecs /\ push'[q].alone = FALSE
                                 /\ push'[q].step = push[q].step
  <2>1. \A r \in PushRecs : /\ [r EXCEPT !.alone = FALSE] \in PushRecs
                            /\ [r EXCEPT !.alone = FALSE].alone = FALSE
                            /\ [r EXCEPT !.alone = FALSE].step = r.step
    BY DEF PushRecs
  <2>2. \A q \in Pushes : push[q] \in PushRecs
    OBVIOUS
  <2>3. ASSUME NEW q \in Pushes, q # p
        PROVE  /\ push'[q] \in PushRecs /\ push'[q].alone = FALSE
               /\ push'[q].step = push[q].step
    <3>1. PICK r \in PushRecs : r = push[q]
      BY <2>2
    <3>2. push'[q] = [r EXCEPT !.alone = FALSE]
      BY <1>4, <2>3, <3>1
    <3>3. PICK n : n = [r EXCEPT !.alone = FALSE]
      OBVIOUS
    <3>4. n \in PushRecs /\ n.alone = FALSE /\ n.step = r.step
      BY <2>1, <3>3
    <3> QED
      BY <3>1, <3>2, <3>3, <3>4
  <2> QED
    BY <2>3
<1>6. \A q \in Pushes : q # p /\ push[q] = NoPush => push'[q] = NoPush
  BY <1>4, NothingRecs
<1>7. DOMAIN push' = Pushes /\ push' = [q \in Pushes |-> push'[q]]
  BY <1>1
<1>a. \A q \in Pushes : push'[q] \in PushRecs
  BY <1>3, <1>5
<1>8. push' \in [Pushes -> PushRecs]
  BY <1>7, <1>a
<1>9. Begins(p)
  BY <1>1, <1>3, <1>5, <1>6 DEF Begins
<1> QED
  BY <1>8, <1>9

LEMMA InboxRangesStart == InboxAssumption /\ InboxInit => InboxRanges
<1> SUFFICES ASSUME InboxAssumption, InboxInit PROVE InboxRanges
  OBVIOUS
<1>1. startAt \in [Events -> Nat]
  BY DEF InboxInit, InboxAssumption
<1>2. inbox \in Seq(InboxRows)
  <2>1. [event |-> None, read |-> FALSE] \in InboxRows
    BY DEF InboxRows
  <2>2. <<>> \in Seq(InboxRows) /\ \A r \in InboxRows : <<r>> \in Seq(InboxRows)
    OBVIOUS
  <2> QED
    BY <2>1, <2>2 DEF InboxInit
<1>3. bell \in Bells
  <2>1. <<>> \in Seq(BOOLEAN)
    OBVIOUS
  <2> QED
    BY <2>1 DEF InboxInit, Bells
<1>4. trace \in Traces
  BY DEF InboxInit, Traces
<1> QED
  BY <1>1, <1>2, <1>3, <1>4, NothingRecs DEF InboxInit, InboxRanges

\* The rows, and the list that the bell shows.
LEMMA RowsKept ==
  ASSUME inbox \in Seq(InboxRows)
  PROVE  /\ Append(inbox, [event |-> None, read |-> FALSE]) \in Seq(InboxRows)
         /\ \A e \in Events : Append(inbox, [event |-> e, read |-> FALSE]) \in Seq(InboxRows)
         /\ \A i : [inbox EXCEPT ![i].read = TRUE] \in Seq(InboxRows)
         /\ [i \in DOMAIN inbox |-> [inbox[i] EXCEPT !.read = TRUE]] \in Seq(InboxRows)
         /\ [i \in DOMAIN inbox |-> inbox[i].read] \in Seq(BOOLEAN)
<1>1. Len(inbox) \in Nat /\ DOMAIN inbox = 1..Len(inbox)
      /\ \A i \in DOMAIN inbox : inbox[i] \in InboxRows
  OBVIOUS
<1>2. \A r \in InboxRows : [r EXCEPT !.read = TRUE] \in InboxRows /\ r.read \in BOOLEAN
  BY DEF InboxRows
<1>3. \A e \in Events \cup {None} : [event |-> e, read |-> FALSE] \in InboxRows
  BY DEF InboxRows
<1>4. \A r \in InboxRows : Append(inbox, r) \in Seq(InboxRows)
  OBVIOUS
<1>5. ASSUME NEW i PROVE [inbox EXCEPT ![i].read = TRUE] \in Seq(InboxRows)
  <2>1. CASE i \in DOMAIN inbox
    <3>1. [inbox[i] EXCEPT !.read = TRUE] \in InboxRows
      BY <1>1, <1>2, <2>1
    <3> QED
      BY <2>1, <3>1
  <2>2. CASE i \notin DOMAIN inbox
    <3>1. [inbox EXCEPT ![i].read = TRUE] = inbox
      BY <2>2
    <3> QED
      BY <3>1
  <2> QED
    BY <2>1, <2>2
<1>6. \A f \in [1..Len(inbox) -> InboxRows] : f \in Seq(InboxRows)
  BY <1>1
<1>7. \A f \in [1..Len(inbox) -> BOOLEAN] : f \in Seq(BOOLEAN)
  BY <1>1
<1>8. [i \in DOMAIN inbox |-> [inbox[i] EXCEPT !.read = TRUE]] \in Seq(InboxRows)
  BY <1>1, <1>2, <1>6
<1>9. [i \in DOMAIN inbox |-> inbox[i].read] \in Seq(BOOLEAN)
  BY <1>1, <1>2, <1>7
<1> QED
  BY <1>3, <1>4, <1>5, <1>8, <1>9

LEMMA ListsKept ==
  ASSUME NEW list \in Seq(BOOLEAN), NEW i
  PROVE  /\ [list EXCEPT ![i] = TRUE] \in Seq(BOOLEAN)
         /\ [j \in DOMAIN list |-> TRUE] \in Seq(BOOLEAN)
<1>1. Len(list) \in Nat /\ DOMAIN list = 1..Len(list) /\ list \in [1..Len(list) -> BOOLEAN]
  OBVIOUS
<1>2. \A f \in [1..Len(list) -> BOOLEAN] : f \in Seq(BOOLEAN)
  BY <1>1
<1>3. [list EXCEPT ![i] = TRUE] \in [1..Len(list) -> BOOLEAN]
  BY <1>1
<1>4. [j \in DOMAIN list |-> TRUE] \in [1..Len(list) -> BOOLEAN]
  BY <1>1
<1> QED
  BY <1>2, <1>3, <1>4

LEMMA TracesKept ==
  ASSUME trace \in Traces, NEW b \in BOOLEAN, NEW K \in SUBSET Events, NEW e \in Events
  PROVE  /\ [trace EXCEPT !.current = b] \in Traces
         /\ [trace EXCEPT !.overlapped = b] \in Traces
         /\ [trace EXCEPT !.kept = K] \in Traces
         /\ [trace EXCEPT !.failed[e] = @ + 1] \in Traces
<1>1. trace.failed \in [Events -> Nat]
  BY DEF Traces
<1>2. [trace.failed EXCEPT ![e] = @ + 1] \in [Events -> Nat]
  BY <1>1
<1>3. [trace EXCEPT !.failed = [trace.failed EXCEPT ![e] = @ + 1]] \in Traces
  BY <1>2 DEF Traces
<1> QED
  BY <1>3 DEF Traces

LEMMA InboxRangesStep == InboxAssumption /\ InboxRanges /\ [InboxNext]_inboxVars => InboxRanges'
<1> SUFFICES ASSUME InboxAssumption, InboxRanges, [InboxNext]_inboxVars PROVE InboxRanges'
  OBVIOUS
<1>0. InboxRanges
  OBVIOUS
<1>1. Cardinality(Unread) \in Nat
  BY UnreadCounts DEF InboxRanges
<1>2. StartPush => push' \in [Pushes -> PushRecs]
  BY PushBegins DEF InboxRanges
<1>3. CASE UNCHANGED inboxVars
  BY <1>3 DEF inboxVars, InboxRanges
<1>4. ASSUME NEW p \in Pushes, PushCount(p) PROVE InboxRanges'
  <2>1. push' \in [Pushes -> PushRecs]
    BY <1>1, <1>4 DEF PushCount, InboxRanges, PushRecs
  <2> QED
    BY <1>4, <2>1 DEF PushCount, InboxRanges
<1>5. ASSUME NEW p \in Pushes, PushSend(p) PROVE InboxRanges'
  <2>1. push' \in [Pushes -> PushRecs]
    BY <1>5, NothingRecs DEF PushSend, InboxRanges
  <2>2. push[p].count \in Nat /\ push[p].alone \in BOOLEAN /\ bell.connected \in BOOLEAN
    BY DEF InboxRanges, PushRecs, Bells
  <2>3. bell' \in Bells
    BY <1>5, <2>2 DEF PushSend, InboxRanges, Bells
  <2>4. (push[p].alone /\ bell.connected) \in BOOLEAN
    BY <2>2
  <2>5. trace' \in Traces
    BY <1>5, <2>4 DEF PushSend, InboxRanges, Traces
  <2> QED
    BY <1>5, <2>1, <2>3, <2>5 DEF PushSend, InboxRanges
<1>6. CASE CreateNotification
  BY <1>2, <1>6, RowsKept DEF CreateNotification, InboxRanges
<1>7. ASSUME NEW i, MarkRead(i) PROVE InboxRanges'
  <2>1. bell' \in Bells
    <3>1. bell.list \in Seq(BOOLEAN)
      BY DEF InboxRanges, Bells
    <3>2. [bell.list EXCEPT ![i] = TRUE] \in Seq(BOOLEAN)
      BY <3>1, ListsKept
    <3>3. bell' = [bell EXCEPT !.list = [bell.list EXCEPT ![i] = TRUE]]
      BY <1>7 DEF MarkRead
    <3> QED
      BY <3>2, <3>3 DEF InboxRanges, Bells
  <2> QED
    BY <1>2, <1>7, <2>1, RowsKept DEF MarkRead, InboxRanges
<1>8. CASE MarkAllRead
  <2>1. bell' \in Bells
    <3>1. bell.list \in Seq(BOOLEAN)
      BY DEF InboxRanges, Bells
    <3>2. [i \in DOMAIN bell.list |-> TRUE] \in Seq(BOOLEAN)
      BY <3>1, ListsKept
    <3>3. bell' = [bell EXCEPT !.list = [i \in DOMAIN bell.list |-> TRUE], !.initial = 0]
      BY <1>8 DEF MarkAllRead
    <3> QED
      BY <3>2, <3>3 DEF InboxRanges, Bells
  <2> QED
    BY <1>2, <1>8, <2>1, RowsKept DEF MarkAllRead, InboxRanges
<1>9. CASE OpenBell \/ SeedRead \/ SeedArrives \/ DropSocket \/ ReopenSocket
  <2>1. UNCHANGED trace /\ BellStep
    BY <1>9 DEF OpenBell, SeedRead, SeedArrives, DropSocket, ReopenSocket
  <2>2. bell' \in Bells
    <3>1. CASE OpenBell
      <4>1. [i \in DOMAIN inbox |-> inbox[i].read] \in Seq(BOOLEAN)
        BY RowsKept DEF InboxRanges
      <4> QED
        BY <3>1, <4>1 DEF OpenBell, InboxRanges, Bells
    <3>2. CASE SeedRead
      BY <1>1, <3>2 DEF SeedRead, InboxRanges, Bells
    <3>3. CASE SeedArrives
      BY <3>3 DEF SeedArrives, InboxRanges, Bells
    <3>4. CASE DropSocket \/ ReopenSocket
      BY <3>4 DEF DropSocket, ReopenSocket, InboxRanges, Bells
    <3> QED
      BY <1>9, <3>1, <3>2, <3>3, <3>4
  <2> QED
    BY <2>1, <2>2 DEF BellStep, InboxRanges
<1>10. ASSUME NEW t \in Toggles, NEW e \in Events, ToggleCheck(t, e) PROVE InboxRanges'
  <2>1. toggle' \in [Toggles -> [step: {"insert", "delete"}, event: Events] \cup {NoToggle}]
    BY <1>10 DEF ToggleCheck, InboxRanges
  <2> QED
    BY <1>10, <2>1 DEF ToggleCheck, InboxRanges
<1>11. ASSUME NEW t \in Toggles, ToggleWrite(t) PROVE InboxRanges'
  <2>1. toggle' \in [Toggles -> [step: {"insert", "delete"}, event: Events] \cup {NoToggle}]
    BY <1>11 DEF ToggleWrite, InboxRanges
  <2>2. toggle[t].event \in Events
    BY <1>11 DEF ToggleWrite, InboxRanges
  <2>3. wanted' \subseteq Events
    BY <1>11, <2>2 DEF ToggleWrite, InboxRanges
  <2>4. trace.kept \in SUBSET Events
    BY DEF InboxRanges, Traces
  <2>5. \E K \in SUBSET Events : trace' = [trace EXCEPT !.kept = K]
    BY <1>11, <2>2, <2>4 DEF ToggleWrite, Keep
  <2>6. trace' \in Traces
    BY <2>2, <2>5, TracesKept DEF InboxRanges
  <2> QED
    BY <1>11, <2>1, <2>3, <2>6 DEF ToggleWrite, InboxRanges
<1>12. ASSUME NEW e \in Events, DeleteEvent(e) \/ \E at \in 1..MaxTicks : Reschedule(e, at)
       PROVE  InboxRanges'
  <2>1. trace' \in Traces
    <3>1. trace.kept \ {e} \in SUBSET Events
      BY DEF InboxRanges, Traces
    <3>2. trace' = [trace EXCEPT !.kept = trace.kept \ {e}]
      BY <1>12 DEF DeleteEvent, Reschedule
    <3> QED
      BY <3>1, <3>2, TracesKept DEF InboxRanges
  <2>2. startAt' \in [Events -> Nat]
    BY <1>12 DEF DeleteEvent, Reschedule, InboxRanges, InboxAssumption
  <2> QED
    BY <1>12, <2>1, <2>2 DEF DeleteEvent, Reschedule, InboxRanges
<1>13. ASSUME NEW s \in Sweeps, SweepStart(s) PROVE InboxRanges'
  <2>1. sweep' \in [Sweeps -> SweepRecs]
    <3>1. [NoSweep EXCEPT !.step = "select", !.now = tick] \in SweepRecs
      BY DEF NoSweep, SweepRecs, InboxRanges
    <3> QED
      BY <1>13, <3>1 DEF SweepStart, InboxRanges
  <2>2. trace' \in Traces
    <3>1. trace' = [trace EXCEPT !.overlapped = trace.overlapped \/ \E r \in Sweeps : sweep[r] # NoSweep]
      BY <1>13 DEF SweepStart
    <3>2. (trace.overlapped \/ \E r \in Sweeps : sweep[r] # NoSweep) \in BOOLEAN
      BY DEF InboxRanges, Traces
    <3> QED
      BY <3>1, <3>2 DEF Traces, InboxRanges
  <2> QED
    BY <1>13, <2>1, <2>2 DEF SweepStart, InboxRanges
<1>14. ASSUME NEW s \in Sweeps,
              SweepSelect(s) \/ \E e \in Events : SweepCheck(s, e)
       PROVE  InboxRanges'
  <2>1. \A now \in Nat : Due(now) \in SUBSET Events
    BY DEF Due, InboxRanges
  <2>2. sweep[s] \in SweepRecs /\ sweep[s].now \in Nat
        /\ sweep[s].todo \in SUBSET Events /\ sweep[s].pending \in SUBSET Events
    BY DEF InboxRanges, SweepRecs
  <2>3. \A T, P \in SUBSET Events :
           /\ [sweep[s] EXCEPT !.step = "check", !.todo = T] \in SweepRecs
           /\ [sweep[s] EXCEPT !.todo = T, !.pending = P] \in SweepRecs
           /\ [sweep[s] EXCEPT !.step = "create", !.todo = T, !.pending = P] \in SweepRecs
    BY <2>2 DEF SweepRecs
  <2>4. \E r \in SweepRecs : sweep' = [sweep EXCEPT ![s] = r]
    <3>1. CASE SweepSelect(s)
      <4>1. PICK D : D = Due(sweep[s].now)
        OBVIOUS
      <4>2. D \in SUBSET Events
        BY <2>1, <2>2, <4>1
      <4>3. sweep' = [sweep EXCEPT ![s] = IF D = {} THEN NoSweep
                                          ELSE [sweep[s] EXCEPT !.step = "check", !.todo = D]]
        BY <3>1, <4>1 DEF SweepSelect
      <4> QED
        BY <2>3, <4>2, <4>3, NothingRecs
    <3>2. ASSUME NEW e \in Events, SweepCheck(s, e) PROVE \E r \in SweepRecs : sweep' = [sweep EXCEPT ![s] = r]
      <4>1. PICK T : T = sweep[s].todo \ {e}
        OBVIOUS
      <4>2. PICK P : P = IF Reminded(e) THEN sweep[s].pending ELSE sweep[s].pending \cup {e}
        OBVIOUS
      <4>3. T \in SUBSET Events /\ P \in SUBSET Events
        BY <2>2, <4>1, <4>2
      <4>4. sweep' = [sweep EXCEPT ![s] =
                        IF T # {} THEN [sweep[s] EXCEPT !.todo = T, !.pending = P]
                        ELSE IF P = {} THEN NoSweep
                        ELSE [sweep[s] EXCEPT !.step = "create", !.todo = P, !.pending = {}]]
        BY <3>2, <4>1, <4>2 DEF SweepCheck
      <4> QED
        BY <2>3, <4>3, <4>4, NothingRecs
    <3> QED
      BY <1>14, <3>1, <3>2
  <2>5. sweep' \in [Sweeps -> SweepRecs]
    BY <2>4 DEF InboxRanges
  <2> QED
    BY <1>14, <2>5 DEF SweepSelect, SweepCheck, InboxRanges
<1>15. ASSUME NEW s \in Sweeps, NEW e \in Events, SweepCreate(s, e) PROVE InboxRanges'
  <2>1. sweep' \in [Sweeps -> SweepRecs]
    <3>1. [sweep[s] EXCEPT !.todo = sweep[s].todo \ {e}] \in SweepRecs
      BY DEF InboxRanges, SweepRecs
    <3>2. sweep' = [sweep EXCEPT ![s] = IF sweep[s].todo \ {e} = {} THEN NoSweep
                                        ELSE [sweep[s] EXCEPT !.todo = sweep[s].todo \ {e}]]
      BY <1>15 DEF SweepCreate, Created
    <3> QED
      BY <3>1, <3>2, NothingRecs DEF InboxRanges
  <2>2. inbox' \in Seq(InboxRows) /\ push' \in [Pushes -> PushRecs]
    BY <1>2, <1>15, RowsKept DEF SweepCreate, InboxRanges
  <2>3. trace' \in Traces
    BY <1>15, TracesKept DEF SweepCreate, InboxRanges
  <2> QED
    BY <1>15, <2>1, <2>2, <2>3 DEF SweepCreate, InboxRanges
<1>16. CASE Tick
  <2>1. tick' = tick + 1 /\ fired' = FALSE
    BY <1>16 DEF Tick
  <2>2. tick \in Nat
    BY DEF InboxRanges
  <2>3. tick' \in Nat
    BY <2>1, <2>2
  <2> QED
    BY <1>16, <2>1, <2>3 DEF Tick, InboxRanges
<1> QED
  BY <1>3, <1>4, <1>5, <1>6, <1>7, <1>8, <1>9, <1>10, <1>11, <1>12, <1>13, <1>14, <1>15, <1>16
     DEF InboxNext

-----------------------------------------------------------------------------
(* Inbox: the bell *)

\* A push is alone while no other is in flight; one that is and has counted counts what
\* is unread, since who changes that begins a push of his own; and so does the bell that
\* heard it last.
BellInv ==
    /\ \A p, q \in Pushes : push[p].alone /\ q # p => push[q] = NoPush
    /\ \A p \in Pushes :
          push[p].alone /\ push[p].step = "send" => push[p].count = Cardinality(Unread)
    /\ trace.current /\ (\A p \in Pushes : push[p] = NoPush) => bell.ws = Cardinality(Unread)

\* A push begins, whatever became unread or read.
LEMMA BellBegins ==
  ASSUME InboxRanges, BellInv, StartPush
  PROVE  BellInv'
<1>1. PICK p \in Pushes : Begins(p)
  BY PushBegins DEF InboxRanges
<1>2. push'[p].step = "count" /\ push'[p] # NoPush
  BY <1>1, NothingRecs DEF Begins
<1>3. \A q, r \in Pushes : push'[q].alone /\ r # q => push'[r] = NoPush
  BY <1>1 DEF Begins
<1>4. \A q \in Pushes : push'[q].alone => q = p
  BY <1>1 DEF Begins
<1> QED
  BY <1>2, <1>3, <1>4 DEF BellInv

\* Nothing that the count depends on changes.
LEMMA BellKeeps ==
  ASSUME BellInv, UNCHANGED <<push, Unread>>, bell'.ws = bell.ws, trace'.current = trace.current
  PROVE  BellInv'
BY DEF BellInv

LEMMA BellInvStep == InboxRanges /\ BellInv /\ [InboxNext]_inboxVars => BellInv'
<1> SUFFICES ASSUME InboxRanges, BellInv, [InboxNext]_inboxVars PROVE BellInv'
  OBVIOUS
<1>1. inbox' = inbox => Unread' = Unread
  BY DEF Unread
<1>2. CASE UNCHANGED inboxVars
  BY <1>1, <1>2, BellKeeps DEF inboxVars
<1>3. ASSUME NEW p \in Pushes, PushCount(p) PROVE BellInv'
  <2>1. /\ push'[p].step = "send" /\ push'[p].alone = push[p].alone
        /\ push'[p].count = Cardinality(Unread) /\ push[p] # NoPush /\ push'[p] # NoPush
        /\ \A q \in Pushes : q # p => push'[q] = push[q]
    BY <1>3, NothingRecs DEF PushCount, InboxRanges, PushRecs
  <2>2. UNCHANGED <<Unread, bell, trace>>
    BY <1>1, <1>3 DEF PushCount
  <2>3. \A q, r \in Pushes : push'[q].alone /\ r # q => push'[r] = NoPush
    BY <2>1 DEF BellInv
  <2>4. \A q \in Pushes :
           push'[q].alone /\ push'[q].step = "send" => push'[q].count = Cardinality(Unread)
    BY <2>1 DEF BellInv
  <2> QED
    BY <2>1, <2>2, <2>3, <2>4 DEF BellInv
<1>4. ASSUME NEW p \in Pushes, PushSend(p) PROVE BellInv'
  <2>1. /\ push'[p] = NoPush /\ push[p].step = "send"
        /\ \A q \in Pushes : q # p => push'[q] = push[q]
    BY <1>4 DEF PushSend, InboxRanges
  <2>2. UNCHANGED Unread
    BY <1>1, <1>4 DEF PushSend
  <2>3. trace'.current = (push[p].alone /\ bell.connected)
    BY <1>4 DEF PushSend, InboxRanges, Traces
  <2>4. ASSUME push[p].alone, bell.connected PROVE bell'.ws = Cardinality(Unread)
    BY <1>4, <2>1, <2>4 DEF PushSend, InboxRanges, Bells, BellInv
  <2>5. \A q, r \in Pushes : push'[q].alone /\ r # q => push'[r] = NoPush
    BY <2>1, NothingRecs DEF BellInv
  <2>6. \A q \in Pushes :
           push'[q].alone /\ push'[q].step = "send" => push'[q].count = Cardinality(Unread)
    BY <2>1, NothingRecs DEF BellInv
  <2> QED
    BY <2>2, <2>3, <2>4, <2>5, <2>6 DEF BellInv
<1>5. CASE CreateNotification \/ MarkAllRead \/ \E i \in DOMAIN inbox : MarkRead(i)
  BY <1>5, BellBegins DEF CreateNotification, MarkAllRead, MarkRead
<1>6. CASE OpenBell \/ SeedRead \/ SeedArrives \/ DropSocket \/ ReopenSocket
  <2>1. UNCHANGED <<trace, inbox, push>>
    BY <1>6 DEF OpenBell, SeedRead, SeedArrives, DropSocket, ReopenSocket, BellStep
  <2>2. bell'.ws = bell.ws
    BY <1>6 DEF OpenBell, SeedRead, SeedArrives, DropSocket, ReopenSocket, InboxRanges, Bells
  <2> QED
    BY <1>1, <2>1, <2>2, BellKeeps
<1>7. ASSUME UNCHANGED <<inbox, push, bell>>, trace'.current = trace.current PROVE BellInv'
  BY <1>1, <1>7, BellKeeps
<1>8. \A K : [trace EXCEPT !.kept = K].current = trace.current
  BY DEF InboxRanges, Traces
<1>9. ASSUME NEW t \in Toggles, ToggleWrite(t) \/ \E e \in Events : ToggleCheck(t, e) PROVE BellInv'
  <2>1. trace'.current = trace.current
    BY <1>8, <1>9 DEF ToggleWrite, ToggleCheck, Keep
  <2> QED
    BY <1>7, <1>9, <2>1 DEF ToggleWrite, ToggleCheck
<1>10. ASSUME NEW e \in Events, DeleteEvent(e) \/ \E at \in 1..MaxTicks : Reschedule(e, at)
       PROVE  BellInv'
  <2>1. trace'.current = trace.current
    BY <1>8, <1>10 DEF DeleteEvent, Reschedule
  <2> QED
    BY <1>7, <1>10, <2>1 DEF DeleteEvent, Reschedule
<1>11. ASSUME NEW s \in Sweeps,
              SweepStart(s) \/ SweepSelect(s) \/ \E e \in Events : SweepCheck(s, e)
       PROVE  BellInv'
  <2>1. trace'.current = trace.current
    BY <1>11 DEF SweepStart, SweepSelect, SweepCheck, InboxRanges, Traces
  <2> QED
    BY <1>7, <1>11, <2>1 DEF SweepStart, SweepSelect, SweepCheck
<1>12. ASSUME NEW s \in Sweeps, NEW e \in Events, SweepCreate(s, e) PROVE BellInv'
  <2>1. StartPush \/ (UNCHANGED <<inbox, push, bell>> /\ trace' = [trace EXCEPT !.failed[e] = @ + 1])
    BY <1>12 DEF SweepCreate
  <2>2. [trace EXCEPT !.failed[e] = @ + 1].current = trace.current
    BY DEF InboxRanges, Traces
  <2> QED
    BY <1>7, <2>1, <2>2, BellBegins
<1>13. CASE Tick
  BY <1>7, <1>13 DEF Tick
<1> QED
  BY <1>2, <1>3, <1>4, <1>5, <1>6, <1>9, <1>10, <1>11, <1>12, <1>13 DEF InboxNext

\* However many pushes are in flight and whatever is read, created or connected between
\* their steps: the count the browser holds is the number of unread rows when all are
\* over, unless the last of them crossed another or found nobody connected; and the bell
\* shows it, unless all is read.
THEOREM BellSettles == ASSUME InboxAssumption PROVE InboxSpec => []UnreadSettles
<1>1. InboxInit => InboxRanges /\ BellInv
  <2> SUFFICES ASSUME InboxInit PROVE InboxRanges /\ BellInv
    OBVIOUS
  <2>1. \A p \in Pushes : push[p] = NoPush
    BY DEF InboxInit
  <2>2. trace.current = FALSE
    BY DEF InboxInit
  <2> QED
    BY <2>1, <2>2, InboxRangesStart, NothingRecs DEF BellInv
<1>2. InboxRanges /\ BellInv /\ [InboxNext]_inboxVars => (InboxRanges /\ BellInv)'
  BY InboxRangesStep, BellInvStep
<1>3. InboxRanges /\ BellInv => UnreadSettles
  <2> SUFFICES ASSUME InboxRanges, BellInv, trace.current, \A p \in Pushes : push[p] = NoPush
               PROVE  bell.ws = Cardinality(Unread) /\ (DisplayCount = bell.ws \/ Unread = {})
    BY DEF UnreadSettles
  <2>1. bell.ws = Cardinality(Unread)
    BY DEF BellInv
  <2>2. Cardinality(Unread) \in Nat /\ (Cardinality(Unread) = 0 => Unread = {})
    BY UnreadCounts DEF InboxRanges
  <2> QED
    BY <2>1, <2>2 DEF DisplayCount
<1> QED
  BY <1>1, <1>2, <1>3, PTL DEF InboxSpec

-----------------------------------------------------------------------------
(* Inbox: the reminders *)

\* While no two passes have overlapped there is one at most, and what it is still to
\* create is not there; nor is any reminder there twice.
OnceAt ==
    trace.overlapped \/
        /\ \A r, s \in Sweeps : sweep[r] # NoSweep /\ sweep[s] # NoSweep => r = s
        /\ \A s \in Sweeps : \A e \in sweep[s].pending : ~Reminded(e)
        /\ \A s \in Sweeps : sweep[s].step = "create" => \A e \in sweep[s].todo : ~Reminded(e)
        /\ \A e \in Events, i, j \in DOMAIN inbox :
              inbox[i].event = e /\ inbox[j].event = e => i = j

ChecksPend == \A s \in Sweeps : sweep[s].step # "check" => sweep[s].pending = {}

\* How a pass goes on: it ends, or its todo and its pending are what they were or
\* follow from it.
LEMMA SweepMoves ==
  ASSUME InboxRanges, NEW s \in Sweeps, NEW r \in SweepRecs, sweep' = [sweep EXCEPT ![s] = r]
  PROVE  sweep'[s] = r /\ \A q \in Sweeps : q # s => sweep'[q] = sweep[q]
BY DEF InboxRanges

LEMMA SelectsNothing == 
  ASSUME InboxRanges, ChecksPend, NEW s \in Sweeps, SweepSelect(s)
  PROVE  /\ sweep[s].step = "select"
         /\ \E r \in SweepRecs :
               /\ sweep' = [sweep EXCEPT ![s] = r] /\ r.step \in {"idle", "check"}
               /\ r.pending = {} /\ (r = NoSweep \/ r.step = "check")
               /\ r.now = sweep[s].now \/ r = NoSweep
               /\ r.todo = Due(sweep[s].now)
<1>1. PICK D : D = Due(sweep[s].now)
  OBVIOUS
<1>2. D \in SUBSET Events
  BY <1>1 DEF Due, InboxRanges
<1>3. sweep' = [sweep EXCEPT ![s] = IF D = {} THEN NoSweep
                                    ELSE [sweep[s] EXCEPT !.step = "check", !.todo = D]]
      /\ sweep[s].step = "select"
  BY <1>1 DEF SweepSelect
<1>4. sweep[s] \in SweepRecs /\ sweep[s].pending = {}
  BY <1>3 DEF ChecksPend, InboxRanges
<1>5. CASE D = {}
  BY <1>1, <1>3, <1>5, NothingRecs
<1>6. CASE D # {}
  <2> DEFINE r == [sweep[s] EXCEPT !.step = "check", !.todo = D]
  <2>1. r \in SweepRecs /\ r.step = "check" /\ r.todo = D /\ r.pending = {} /\ r.now = sweep[s].now
    BY <1>2, <1>4 DEF SweepRecs
  <2>2. sweep' = [sweep EXCEPT ![s] = r]
    BY <1>3, <1>6
  <2> HIDE DEF r
  <2> QED
    BY <1>1, <1>3, <2>1, <2>2
<1> QED
  BY <1>5, <1>6

LEMMA ChecksOne ==
  ASSUME InboxRanges, NEW s \in Sweeps, NEW e \in Events, SweepCheck(s, e)
  PROVE  /\ sweep[s].step = "check" /\ e \in sweep[s].todo
         /\ \E r \in SweepRecs, P \in SUBSET Events :
               /\ sweep' = [sweep EXCEPT ![s] = r]
               /\ P = IF Reminded(e) THEN sweep[s].pending ELSE sweep[s].pending \cup {e}
               /\ \/ r.step = "check" /\ r.pending = P /\ r.todo = sweep[s].todo \ {e}
                  \/ r.step = "create" /\ r.pending = {} /\ r.todo = P /\ sweep[s].todo \ {e} = {}
                  \/ r = NoSweep /\ P = {} /\ sweep[s].todo \ {e} = {}
<1>1. PICK T : T = sweep[s].todo \ {e}
  OBVIOUS
<1>2. PICK P : P = IF Reminded(e) THEN sweep[s].pending ELSE sweep[s].pending \cup {e}
  OBVIOUS
<1>3. sweep[s] \in SweepRecs
  BY DEF InboxRanges
<1>4. T \in SUBSET Events /\ P \in SUBSET Events
  BY <1>1, <1>2, <1>3 DEF SweepRecs
<1>5. sweep' = [sweep EXCEPT ![s] =
                  IF T # {} THEN [sweep[s] EXCEPT !.todo = T, !.pending = P]
                  ELSE IF P = {} THEN NoSweep
                  ELSE [sweep[s] EXCEPT !.step = "create", !.todo = P, !.pending = {}]]
      /\ sweep[s].step = "check" /\ e \in sweep[s].todo
  BY <1>1, <1>2 DEF SweepCheck
<1>6. CASE T # {}
  <2> DEFINE r == [sweep[s] EXCEPT !.todo = T, !.pending = P]
  <2>1. r \in SweepRecs /\ r.step = "check" /\ r.pending = P /\ r.todo = T
    BY <1>3, <1>4, <1>5 DEF SweepRecs
  <2>2. sweep' = [sweep EXCEPT ![s] = r]
    BY <1>5, <1>6
  <2> HIDE DEF r
  <2> QED
    BY <1>1, <1>2, <1>4, <1>5, <2>1, <2>2
<1>7. CASE T = {} /\ P # {}
  <2> DEFINE r == [sweep[s] EXCEPT !.step = "create", !.todo = P, !.pending = {}]
  <2>1. r \in SweepRecs /\ r.step = "create" /\ r.pending = {} /\ r.todo = P
    BY <1>3, <1>4 DEF SweepRecs
  <2>2. sweep' = [sweep EXCEPT ![s] = r]
    BY <1>5, <1>7
  <2> HIDE DEF r
  <2> QED
    BY <1>1, <1>2, <1>4, <1>5, <1>7, <2>1, <2>2
<1>8. CASE T = {} /\ P = {}
  BY <1>1, <1>2, <1>4, <1>5, <1>8, NothingRecs
<1> QED
  BY <1>6, <1>7, <1>8

LEMMA CreatesOne ==
  ASSUME InboxRanges, NEW s \in Sweeps, NEW e \in Events, SweepCreate(s, e)
  PROVE  /\ sweep[s].step = "create" /\ e \in sweep[s].todo
         /\ \E r \in SweepRecs :
               /\ sweep' = [sweep EXCEPT ![s] = r]
               /\ r = NoSweep \/ (r.step = "create" /\ r.pending = sweep[s].pending)
               /\ r.todo = sweep[s].todo \ {e}
<1>1. PICK T : T = sweep[s].todo \ {e}
  OBVIOUS
<1>2. sweep' = [sweep EXCEPT ![s] = IF T = {} THEN NoSweep ELSE [sweep[s] EXCEPT !.todo = T]]
      /\ sweep[s].step = "create" /\ e \in sweep[s].todo
  BY <1>1 DEF SweepCreate, Created
<1>3. sweep[s] \in SweepRecs
  BY DEF InboxRanges
<1>4. CASE T = {}
  BY <1>1, <1>2, <1>4, NothingRecs
<1>5. CASE T # {}
  <2> DEFINE r == [sweep[s] EXCEPT !.todo = T]
  <2>1. r \in SweepRecs /\ r.step = "create" /\ r.pending = sweep[s].pending /\ r.todo = T
    BY <1>1, <1>2, <1>3 DEF SweepRecs
  <2>2. sweep' = [sweep EXCEPT ![s] = r]
    BY <1>2, <1>5
  <2> HIDE DEF r
  <2> QED
    BY <1>1, <1>2, <2>1, <2>2
<1> QED
  BY <1>4, <1>5

\* A pass begins.
LEMMA SweepBegins ==
  ASSUME InboxRanges, NEW s \in Sweeps, SweepStart(s)
  PROVE  /\ sweep[s] = NoSweep /\ ~fired /\ fired' = TRUE
         /\ trace'.overlapped = (trace.overlapped \/ \E r \in Sweeps : sweep[r] # NoSweep)
         /\ trace'.kept = trace.kept /\ trace'.failed = trace.failed
         /\ \E r \in SweepRecs : /\ sweep' = [sweep EXCEPT ![s] = r] /\ r.step = "select"
                                 /\ r.now = tick /\ r.todo = {} /\ r.pending = {}
<1>1. [NoSweep EXCEPT !.step = "select", !.now = tick] \in SweepRecs
      /\ [NoSweep EXCEPT !.step = "select", !.now = tick].step = "select"
      /\ [NoSweep EXCEPT !.step = "select", !.now = tick].now = tick
      /\ [NoSweep EXCEPT !.step = "select", !.now = tick].todo = {}
      /\ [NoSweep EXCEPT !.step = "select", !.now = tick].pending = {}
  BY DEF NoSweep, SweepRecs, InboxRanges
<1>2. /\ sweep' = [sweep EXCEPT ![s] = [NoSweep EXCEPT !.step = "select", !.now = tick]]
      /\ sweep[s] = NoSweep /\ ~fired /\ fired' = TRUE
      /\ trace' = [trace EXCEPT !.overlapped = trace.overlapped \/ \E r \in Sweeps : sweep[r] # NoSweep]
  BY DEF SweepStart
<1>3. /\ trace'.overlapped = (trace.overlapped \/ \E r \in Sweeps : sweep[r] # NoSweep)
      /\ trace'.kept = trace.kept /\ trace'.failed = trace.failed
  BY <1>2 DEF InboxRanges, Traces
<1> QED
  BY <1>1, <1>2, <1>3

OneRow(e) == \A i, j \in DOMAIN inbox : inbox[i].event = e /\ inbox[j].event = e => i = j

\* Rows are read, or one that reminds of nothing is new.
RowsBeside ==
    \/ DOMAIN inbox' = DOMAIN inbox /\ \A i \in DOMAIN inbox : inbox'[i].event = inbox[i].event
    \/ inbox' = Append(inbox, [event |-> None, read |-> FALSE])

LEMMA RowsStand ==
  ASSUME InboxAssumption, InboxRanges, RowsBeside, NEW e \in Events
  PROVE  (Reminded(e)' <=> Reminded(e)) /\ (OneRow(e) => OneRow(e)')
<1>1. CASE DOMAIN inbox' = DOMAIN inbox /\ \A i \in DOMAIN inbox : inbox'[i].event = inbox[i].event
  BY <1>1 DEF Reminded, OneRow
<1>2. CASE inbox' = Append(inbox, [event |-> None, read |-> FALSE])
  <2> DEFINE r == [event |-> None, read |-> FALSE]
             n == Len(inbox)
  <2>1. r.event # e
    BY DEF InboxAssumption
  <2>2. n \in Nat /\ DOMAIN inbox = 1..n /\ DOMAIN inbox' = 1..(n + 1) /\ inbox'[n + 1] = r
        /\ \A i \in 1..n : inbox'[i] = inbox[i]
    BY <1>2 DEF InboxRanges
  <2> HIDE DEF r, n
  <2> QED
    BY <2>1, <2>2 DEF Reminded, OneRow
<1> QED
  BY <1>1, <1>2 DEF RowsBeside

\* A reminder is created.
LEMMA RowsGain ==
  ASSUME InboxRanges, NEW x \in Events, NEW e \in Events,
         inbox' = Append(inbox, [event |-> x, read |-> FALSE])
  PROVE  /\ Reminded(e)' <=> (Reminded(e) \/ e = x)
         /\ (OneRow(e) /\ (e = x => ~Reminded(e))) => OneRow(e)'
<1> DEFINE r == [event |-> x, read |-> FALSE]
           n == Len(inbox)
<1>1. r.event = x
  OBVIOUS
<1>2. n \in Nat /\ DOMAIN inbox = 1..n /\ DOMAIN inbox' = 1..(n + 1) /\ inbox'[n + 1] = r
      /\ \A i \in 1..n : inbox'[i] = inbox[i]
  BY DEF InboxRanges
<1> HIDE DEF r, n
<1> QED
  BY <1>1, <1>2 DEF Reminded, OneRow

\* What the steps outside of the passes leave alone.
BesidePasses ==
    /\ RowsBeside /\ UNCHANGED <<sweep, fired>>
    /\ trace'.overlapped = trace.overlapped /\ trace'.failed = trace.failed

LEMMA PassesBeside ==
  ASSUME InboxRanges, [InboxNext]_inboxVars,
         ~\E s \in Sweeps : \/ SweepStart(s) \/ SweepSelect(s)
                            \/ \E e \in Events : SweepCheck(s, e) \/ SweepCreate(s, e),
         ~Tick
  PROVE  BesidePasses
<1>1. inbox' = inbox => RowsBeside
  BY DEF RowsBeside
<1>2. /\ \A b : [trace EXCEPT !.current = b].overlapped = trace.overlapped
      /\ \A b : [trace EXCEPT !.current = b].failed = trace.failed
      /\ \A K : [trace EXCEPT !.kept = K].overlapped = trace.overlapped
      /\ \A K : [trace EXCEPT !.kept = K].failed = trace.failed
  BY DEF InboxRanges, Traces
<1>3. CASE UNCHANGED inboxVars
  BY <1>1, <1>3 DEF inboxVars, BesidePasses
<1>4. ASSUME NEW p \in Pushes, PushCount(p) \/ PushSend(p) PROVE BesidePasses
  BY <1>1, <1>2, <1>4 DEF PushCount, PushSend, BesidePasses
<1>5. CASE CreateNotification
  BY <1>5 DEF CreateNotification, BesidePasses, RowsBeside
<1>6. \A i \in DOMAIN inbox : inbox[i] \in InboxRows
  BY DEF InboxRanges
<1>7. \A r \in InboxRows : [r EXCEPT !.read = TRUE].event = r.event
  BY DEF InboxRows
<1>8. CASE MarkAllRead
  BY <1>6, <1>7, <1>8 DEF MarkAllRead, BesidePasses, RowsBeside
<1>9. ASSUME NEW i, MarkRead(i) PROVE BesidePasses
  <2>1. inbox' = [inbox EXCEPT ![i].read = TRUE]
    BY <1>9 DEF MarkRead
  <2>2. DOMAIN inbox' = DOMAIN inbox
    BY <2>1
  <2>3. \A j \in DOMAIN inbox : inbox'[j] = inbox[j] \/ inbox'[j] = [inbox[j] EXCEPT !.read = TRUE]
    BY <2>1
  <2> QED
    BY <1>6, <1>7, <1>9, <2>2, <2>3 DEF MarkRead, BesidePasses, RowsBeside
<1>10. CASE OpenBell \/ SeedRead \/ SeedArrives \/ DropSocket \/ ReopenSocket
  BY <1>1, <1>10 DEF OpenBell, SeedRead, SeedArrives, DropSocket, ReopenSocket, BellStep, BesidePasses
<1>11. ASSUME NEW t \in Toggles, ToggleWrite(t) \/ \E e \in Events : ToggleCheck(t, e)
       PROVE  BesidePasses
  <2>1. ASSUME ToggleWrite(t) PROVE BesidePasses
    BY <1>1, <1>2, <2>1 DEF ToggleWrite, Keep, BesidePasses
  <2>2. ASSUME NEW e \in Events, ToggleCheck(t, e) PROVE BesidePasses
    BY <1>1, <1>2, <2>2 DEF ToggleCheck, Keep, BesidePasses
  <2> QED
    BY <1>11, <2>1, <2>2
<1>12. ASSUME NEW e \in Events, DeleteEvent(e) \/ \E at \in 1..MaxTicks : Reschedule(e, at)
       PROVE  BesidePasses
  <2>1. ASSUME DeleteEvent(e) PROVE BesidePasses
    BY <1>1, <1>2, <2>1 DEF DeleteEvent, BesidePasses
  <2>2. ASSUME NEW at \in 1..MaxTicks, Reschedule(e, at) PROVE BesidePasses
    BY <1>1, <1>2, <2>2 DEF Reschedule, BesidePasses
  <2> QED
    BY <1>12, <2>1, <2>2
<1> QED
  BY <1>3, <1>4, <1>5, <1>8, <1>9, <1>10, <1>11, <1>12 DEF InboxNext

OncePending == OnceAt /\ ChecksPend

LEMMA OnceInvStep ==
  InboxAssumption /\ InboxRanges /\ OncePending /\ [InboxNext]_inboxVars => OncePending'
<1> SUFFICES ASSUME InboxAssumption, InboxRanges, OnceAt, ChecksPend, [InboxNext]_inboxVars
             PROVE  OnceAt' /\ ChecksPend'
  BY DEF OncePending
<1> USE DEF OneRow
<1>0. \A s \in Sweeps : sweep[s].todo \subseteq Events /\ sweep[s].pending \subseteq Events
  BY DEF InboxRanges, SweepRecs
<1>1. ASSUME RowsBeside, UNCHANGED sweep, trace'.overlapped = trace.overlapped
      PROVE  OnceAt' /\ ChecksPend'
  BY <1>0, <1>1, RowsStand DEF OnceAt, ChecksPend
<1>2. inbox' = inbox => \A e : Reminded(e)' = Reminded(e)
  BY DEF Reminded
<1>3. ASSUME NEW s \in Sweeps, SweepStart(s) PROVE OnceAt' /\ ChecksPend'
  <2>1. PICK r \in SweepRecs : /\ sweep' = [sweep EXCEPT ![s] = r] /\ r.step = "select"
                               /\ r.now = tick /\ r.todo = {} /\ r.pending = {}
    BY <1>3, SweepBegins
  <2>2. trace'.overlapped = (trace.overlapped \/ \E q \in Sweeps : sweep[q] # NoSweep)
    BY <1>3, SweepBegins
  <2>3. sweep'[s] = r /\ \A q \in Sweeps : q # s => sweep'[q] = sweep[q]
    BY <2>1, SweepMoves
  <2>4. inbox' = inbox
    BY <1>3 DEF SweepStart
  <2>5. ChecksPend'
    BY <2>1, <2>3 DEF ChecksPend
  <2>6. CASE trace'.overlapped
    BY <2>5, <2>6 DEF OnceAt
  <2>7. CASE ~trace'.overlapped
    <3>1. ~trace.overlapped /\ \A q \in Sweeps : sweep[q] = NoSweep
      BY <2>2, <2>7
    <3> QED
      BY <1>2, <2>1, <2>3, <2>4, <2>5, <3>1, NothingRecs DEF OnceAt
  <2> QED
    BY <2>6, <2>7
<1>4. ASSUME NEW s \in Sweeps, SweepSelect(s) PROVE OnceAt' /\ ChecksPend'
  <2>1. PICK r \in SweepRecs :
               /\ sweep' = [sweep EXCEPT ![s] = r] /\ r.step \in {"idle", "check"}
               /\ r.pending = {}
    BY <1>4, SelectsNothing
  <2>2. sweep'[s] = r /\ \A q \in Sweeps : q # s => sweep'[q] = sweep[q]
    BY <2>1, SweepMoves
  <2>3. UNCHANGED <<inbox, trace>> /\ sweep[s] # NoSweep
    BY <1>4, NothingRecs DEF SweepSelect
  <2> QED
    BY <1>2, <2>1, <2>2, <2>3 DEF OnceAt, ChecksPend
<1>5. ASSUME NEW s \in Sweeps, NEW e \in Events, SweepCheck(s, e) PROVE OnceAt' /\ ChecksPend'
  <2>1. PICK r \in SweepRecs, P \in SUBSET Events :
               /\ sweep' = [sweep EXCEPT ![s] = r]
               /\ P = IF Reminded(e) THEN sweep[s].pending ELSE sweep[s].pending \cup {e}
               /\ \/ r.step = "check" /\ r.pending = P /\ r.todo = sweep[s].todo \ {e}
                  \/ r.step = "create" /\ r.pending = {} /\ r.todo = P /\ sweep[s].todo \ {e} = {}
                  \/ r = NoSweep /\ P = {} /\ sweep[s].todo \ {e} = {}
    BY <1>5, ChecksOne
  <2>2. sweep'[s] = r /\ \A q \in Sweeps : q # s => sweep'[q] = sweep[q]
    BY <2>1, SweepMoves
  <2>3. UNCHANGED <<inbox, trace>> /\ sweep[s] # NoSweep
    BY <1>5, NothingRecs DEF SweepCheck
  <2>4. ChecksPend'
    BY <2>1, <2>2, NothingRecs DEF ChecksPend
  <2>5. ~trace.overlapped => \A x \in P : ~Reminded(x)
    BY <2>1 DEF OnceAt
  <2>6. r.step = "create" => r.todo = P
    BY <2>1, NothingRecs
  <2>7. r.pending \subseteq P
    BY <2>1, NothingRecs
  <2> QED
    BY <1>2, <2>2, <2>3, <2>4, <2>5, <2>6, <2>7 DEF OnceAt
<1>6. ASSUME NEW s \in Sweeps, NEW e \in Events, SweepCreate(s, e) PROVE OnceAt' /\ ChecksPend'
  <2>1. PICK r \in SweepRecs :
               /\ sweep' = [sweep EXCEPT ![s] = r]
               /\ r = NoSweep \/ (r.step = "create" /\ r.pending = sweep[s].pending)
               /\ r.todo = sweep[s].todo \ {e}
    BY <1>6, CreatesOne
  <2>2. sweep'[s] = r /\ \A q \in Sweeps : q # s => sweep'[q] = sweep[q]
    BY <2>1, SweepMoves
  <2>3. sweep[s].step = "create" /\ e \in sweep[s].todo /\ sweep[s] # NoSweep
    BY <1>6, CreatesOne, NothingRecs
  <2>4. ChecksPend'
    BY <2>1, <2>2, <2>3, NothingRecs DEF ChecksPend
  <2>5. trace'.overlapped = trace.overlapped
    BY <1>6 DEF SweepCreate, InboxRanges, Traces
  <2>6. CASE inbox' = Append(inbox, [event |-> e, read |-> FALSE])
    <3>1. SUFFICES ASSUME ~trace.overlapped PROVE OnceAt'
      BY <2>4, <2>5 DEF OnceAt
    <3>2. \A x \in Events : (Reminded(x)' <=> (Reminded(x) \/ x = e)) /\ OneRow(x)'
      <4>1. ~Reminded(e)
        BY <2>3, <3>1 DEF OnceAt
      <4> QED
        BY <2>6, <3>1, <4>1, RowsGain DEF OnceAt
    <3>3. \A q \in Sweeps : q # s => sweep'[q] = NoSweep
      BY <2>2, <2>3, <3>1 DEF OnceAt
    <3>4. r.todo \subseteq Events /\ r.pending \subseteq Events
      BY DEF SweepRecs
    <3>5. \A x \in r.todo : ~Reminded(x)'
      BY <2>1, <2>3, <3>1, <3>2, <3>4 DEF OnceAt
    <3>6. \A q \in Sweeps : \A x \in sweep'[q].pending : ~Reminded(x)'
      <4>0. r.pending = {}
        BY <2>1, <2>3, NothingRecs DEF ChecksPend
      <4> QED
        BY <2>2, <3>3, <4>0, NothingRecs
    <3> QED
      BY <2>2, <3>2, <3>3, <3>5, <3>6, NothingRecs DEF OnceAt
  <2>7. CASE inbox' = inbox
    BY <1>2, <2>1, <2>2, <2>3, <2>4, <2>5, <2>7, NothingRecs DEF OnceAt
  <2> QED
    BY <1>6, <2>6, <2>7 DEF SweepCreate
<1>7. CASE Tick
  BY <1>1, <1>7 DEF Tick, RowsBeside
<1> QED
  BY <1>1, <1>3, <1>4, <1>5, <1>6, <1>7, PassesBeside DEF BesidePasses

\* A user is reminded of an event once, however pushes, toggles and moves of the event
\* come between the steps of a pass, while no two passes overlap: the rows that a pass
\* found missing stay missing until it creates them.
THEOREM RemindedOnce == ASSUME InboxAssumption PROVE InboxSpec => []ReminderOnce
<1>1. InboxInit => InboxRanges /\ OncePending
  <2> SUFFICES ASSUME InboxInit PROVE InboxRanges /\ OncePending
    OBVIOUS
  <2>1. \A s \in Sweeps : sweep[s] = NoSweep
    BY DEF InboxInit
  <2>2. \A i, j \in DOMAIN inbox : i = j
    <3>1. CASE inbox = <<>>
      BY <3>1
    <3>2. CASE inbox = <<[event |-> None, read |-> FALSE]>>
      <4>1. DOMAIN inbox = {1}
        BY <3>2
      <4> QED
        BY <4>1
    <3> QED
      BY <3>1, <3>2 DEF InboxInit
  <2> QED
    BY <2>1, <2>2, InboxRangesStart, NothingRecs DEF OncePending, OnceAt, ChecksPend
<1>2. InboxRanges /\ OncePending /\ [InboxNext]_inboxVars => (InboxRanges /\ OncePending)'
  BY InboxRangesStep, OnceInvStep
<1>3. InboxRanges /\ OncePending => ReminderOnce
  <2> SUFFICES ASSUME InboxRanges, OnceAt, ~trace.overlapped, NEW e \in Events
               PROVE  Cardinality({i \in DOMAIN inbox : inbox[i].event = e}) <= 1
    BY DEF ReminderOnce, OncePending
  <2> DEFINE S == {i \in DOMAIN inbox : inbox[i].event = e}
  <2>1. \A i, j \in S : i = j
    BY DEF OnceAt
  <2> HIDE DEF S
  <2>2. S = {} => Cardinality(S) = 0
    BY FS_EmptySet
  <2>3. S # {} => Cardinality(S) = 1
    <3>1. SUFFICES ASSUME NEW i \in S PROVE Cardinality(S) = 1
      OBVIOUS
    <3>2. S = {i}
      BY <2>1
    <3> QED
      BY <3>2, FS_Singleton
  <2>4. Cardinality(S) <= 1
    BY <2>2, <2>3
  <2> QED
    BY <2>4 DEF S
<1> QED
  BY <1>1, <1>2, <1>3, PTL DEF InboxSpec

\* The pass in s will see to e, or has begun to.
Carries(s, e) ==
    \/ sweep[s].step = "select" /\ startAt[e] > sweep[s].now /\ startAt[e] <= sweep[s].now + Window
    \/ sweep[s].step = "check" /\ e \in sweep[s].todo \cup sweep[s].pending
    \/ sweep[s].step = "create" /\ e \in sweep[s].todo
Carriers(e) == {s \in Sweeps : Carries(s, e)}
Under == {s \in Sweeps : sweep[s] # NoSweep}

\* The intervals whose pass has begun, and the passes that have failed e or may.
Begun == IF fired THEN tick + 1 ELSE tick
Tries(e) == trace.failed[e] + Cardinality(Carriers(e))

\* Of an event that was asked for a window before it and is not told yet, as many passes
\* have failed or are under way as have begun since then.
TriedInv ==
    /\ IsFiniteSet(Under)
    /\ \A e \in trace.kept :
          /\ e \in wanted \ deleted
          /\ ~Reminded(e) => Begun + Window <= startAt[e] + Tries(e) \/ Window <= Tries(e)

LEMMA CarriersFinite ==
  ASSUME IsFiniteSet(Under)
  PROVE  \A e : IsFiniteSet(Carriers(e)) /\ Cardinality(Carriers(e)) \in Nat
<1> SUFFICES ASSUME NEW e PROVE IsFiniteSet(Carriers(e)) /\ Cardinality(Carriers(e)) \in Nat
  OBVIOUS
<1>1. Carriers(e) \subseteq Under
  BY NothingRecs DEF Carriers, Carries, Under
<1> QED
  BY <1>1, FS_Subset, FS_CardinalityType

\* One more pass is under way at most.
LEMMA UnderOne ==
  ASSUME InboxRanges, IsFiniteSet(Under), NEW s \in Sweeps, NEW r, sweep' = [sweep EXCEPT ![s] = r]
  PROVE  IsFiniteSet(Under')
<1>1. Under' \subseteq Under \cup {s}
  BY DEF Under, InboxRanges
<1>2. IsFiniteSet(Under \cup {s})
  BY FS_AddElement
<1> QED
  BY <1>1, <1>2, FS_Subset

TriesKept(e) == Cardinality(Carriers(e)) <= Cardinality(Carriers(e)')

LEMMA CarriersGrow ==
  ASSUME IsFiniteSet(Under'), NEW e, Carriers(e) \subseteq Carriers(e)'
  PROVE  TriesKept(e)
<1>1. Under' \in SUBSET Sweeps /\ Carriers(e)' \subseteq Under'
  BY NothingRecs DEF Carriers, Carries, Under
<1>2. IsFiniteSet(Carriers(e)')
  BY <1>1, FS_Subset
<1> QED
  BY <1>2, FS_Subset DEF TriesKept

\* Nothing of what concerns e changes for the worse.
LEMMA TriedOn ==
  ASSUME InboxAssumption, InboxRanges, IsFiniteSet(Under), NEW e \in Events,
         Begun + Window <= startAt[e] + Tries(e) \/ Window <= Tries(e),
         Begun' = Begun, startAt'[e] = startAt[e], trace'.failed[e] = trace.failed[e],
         IsFiniteSet(Under'), TriesKept(e)
  PROVE  Begun' + Window <= startAt'[e] + Tries(e)' \/ Window <= Tries(e)'
<1>1. Cardinality(Carriers(e)) \in Nat
  BY CarriersFinite
<1>2. Carriers(e)' \subseteq Under'
  BY NothingRecs DEF Carriers, Carries, Under
<1>3. Cardinality(Carriers(e)') \in Nat
  BY <1>2, FS_Subset, FS_CardinalityType
<1>4. trace.failed[e] \in Nat /\ startAt[e] \in Nat /\ Begun \in Nat /\ Window \in Nat
  BY DEF InboxRanges, Traces, Begun, InboxAssumption
<1>5. Tries(e) = trace.failed[e] + Cardinality(Carriers(e))
      /\ Tries(e)' = trace.failed[e] + Cardinality(Carriers(e)')
  BY DEF Tries
<1> QED
  BY <1>1, <1>3, <1>4, <1>5 DEF TriesKept

\* So it is where the passes stand still, and the event too.
LEMMA TriedStill ==
  ASSUME InboxAssumption, InboxRanges, startAt' \in [Events -> Nat], TriedInv, UNCHANGED sweep,
         RowsBeside, Begun' = Begun,
         trace'.failed = trace.failed,
         \A e \in trace'.kept : /\ e \in Events /\ e \in wanted' \ deleted'
                                /\ \/ e \in trace.kept /\ startAt'[e] = startAt[e]
                                   \/ Begun' + Window <= startAt'[e]
  PROVE  TriedInv'
<1>1. Under' = Under
  BY DEF Under
<1>2. ASSUME NEW e \in trace'.kept, ~Reminded(e)'
      PROVE  Begun' + Window <= startAt'[e] + Tries(e)' \/ Window <= Tries(e)'
  <2>1. e \in Events /\ ~Reminded(e)
    BY <1>2, RowsStand
  <2>2. CASE e \in trace.kept /\ startAt'[e] = startAt[e]
    <3>1. Carriers(e)' = Carriers(e)
      BY <2>2 DEF Carriers, Carries
    <3>2. TriesKept(e)
      BY <1>1, <3>1, CarriersGrow DEF TriedInv
    <3> QED
      BY <1>1, <2>1, <2>2, <3>2, TriedOn DEF TriedInv
  <2>3. CASE Begun' + Window <= startAt'[e]
    <3>1. Carriers(e)' \subseteq Under'
      BY NothingRecs DEF Carriers, Carries, Under
    <3>2. Cardinality(Carriers(e)') \in Nat
      BY <1>1, <3>1, FS_Subset, FS_CardinalityType DEF TriedInv
    <3>3. trace.failed[e] \in Nat
      BY <2>1 DEF InboxRanges, Traces
    <3>4. Tries(e)' \in Nat
      BY <3>2, <3>3 DEF Tries
    <3>5. startAt'[e] \in Nat /\ Window \in Nat
      BY <2>1 DEF InboxAssumption
    <3>6. Begun \in Nat
      BY DEF InboxRanges, Begun
    <3> QED
      BY <2>3, <3>4, <3>5, <3>6
  <2> QED
    BY <1>2, <2>2, <2>3
<1> QED
  BY <1>1, <1>2 DEF TriedInv

\* A pass begins: it is one more for the events of its window.
LEMMA TriedBegins ==
  ASSUME InboxAssumption, InboxRanges, TriedInv, NEW s \in Sweeps, SweepStart(s)
  PROVE  TriedInv'
<1>1. PICK r \in SweepRecs : /\ sweep' = [sweep EXCEPT ![s] = r] /\ r.step = "select"
                             /\ r.now = tick /\ r.todo = {} /\ r.pending = {}
  BY SweepBegins
<1>2. /\ sweep[s] = NoSweep /\ ~fired /\ fired' = TRUE
      /\ trace'.kept = trace.kept /\ trace'.failed = trace.failed
      /\ UNCHANGED <<tick, startAt, deleted, wanted, inbox>>
  BY SweepBegins DEF SweepStart
<1>3. sweep'[s] = r /\ \A q \in Sweeps : q # s => sweep'[q] = sweep[q]
  BY <1>1, SweepMoves
<1>4. IsFiniteSet(Under')
  BY <1>1, UnderOne DEF TriedInv
<1>5. Begun = tick /\ Begun' = tick + 1 /\ tick \in Nat
  BY <1>2 DEF Begun, InboxRanges
<1>6. ASSUME NEW e \in trace.kept, ~Reminded(e)
      PROVE  Begun' + Window <= startAt'[e] + Tries(e)' \/ Window <= Tries(e)'
  <2>1. e \in Events /\ startAt[e] \in Nat /\ Window \in Nat /\ trace.failed[e] \in Nat
    BY DEF InboxRanges, Traces, InboxAssumption
  <2>2. IsFiniteSet(Carriers(e)) /\ Cardinality(Carriers(e)) \in Nat
    BY CarriersFinite DEF TriedInv
  <2>3. s \notin Carriers(e)
    BY <1>2, NothingRecs DEF Carriers, Carries
  <2>4. \A q \in Sweeps \ {s} : q \in Carriers(e)' <=> q \in Carriers(e)
    BY <1>2, <1>3 DEF Carriers, Carries
  <2>5. s \in Carriers(e)' <=> (startAt[e] > tick /\ startAt[e] <= tick + Window)
    BY <1>1, <1>2, <1>3 DEF Carriers, Carries
  <2>6. Carriers(e) \subseteq Sweeps /\ Carriers(e)' \subseteq Sweeps
    BY DEF Carriers
  <2>7. startAt'[e] = startAt[e] /\ Tries(e) = trace.failed[e] + Cardinality(Carriers(e))
        /\ Tries(e)' = trace.failed[e] + Cardinality(Carriers(e)')
    BY <1>2 DEF Tries
  <2>8. Begun + Window <= startAt[e] + Tries(e) \/ Window <= Tries(e)
    BY <1>6 DEF TriedInv
  <2>9. CASE startAt[e] > tick /\ startAt[e] <= tick + Window
    <3>1. Carriers(e)' = Carriers(e) \cup {s}
      BY <2>3, <2>4, <2>5, <2>6, <2>9
    <3>2. Cardinality(Carriers(e)') = Cardinality(Carriers(e)) + 1
      BY <2>2, <2>3, <3>1, FS_AddElement
    <3> QED
      BY <1>5, <2>1, <2>2, <2>7, <2>8, <3>2
  <2>10. CASE ~(startAt[e] > tick /\ startAt[e] <= tick + Window)
    <3>1. Carriers(e)' = Carriers(e)
      BY <2>3, <2>4, <2>5, <2>6, <2>10
    <3>2. Tries(e)' = Tries(e) /\ Tries(e) \in Nat
      BY <2>1, <2>2, <2>7, <3>1
    <3> HIDE DEF Tries
    <3> QED
      BY <1>5, <2>1, <2>7, <2>8, <2>10, <3>2
  <2> QED
    BY <2>9, <2>10
<1>7. \A e : Reminded(e)' = Reminded(e)
  BY <1>2 DEF Reminded
<1> QED
  BY <1>2, <1>4, <1>6, <1>7 DEF TriedInv

\* A pass selects, or asks for a row: it carries on what it carried.
LEMMA TriedGoesOn ==
  ASSUME InboxAssumption, InboxRanges, TriedInv, NEW s \in Sweeps,
         SweepSelect(s) \/ \E x \in Events : SweepCheck(s, x)
  PROVE  TriedInv'
<1>1. UNCHANGED <<tick, fired, startAt, deleted, wanted, inbox, trace>>
  BY DEF SweepSelect, SweepCheck
<1>2. \E r : sweep' = [sweep EXCEPT ![s] = r]
  BY DEF SweepSelect, SweepCheck
<1>3. IsFiniteSet(Under')
  BY <1>2, UnderOne DEF TriedInv
<1>4. ASSUME NEW e \in trace.kept, ~Reminded(e) PROVE Carriers(e) \subseteq Carriers(e)'
  <2>1. CASE SweepSelect(s)
    <3>1. PICK D : D = Due(sweep[s].now)
      OBVIOUS
    <3>2. D = {} \/ (sweep'[s].step = "check" /\ sweep'[s].todo = D)
      BY <2>1, <3>1 DEF SweepSelect, InboxRanges, SweepRecs
    <3>3. \A q \in Sweeps : q # s => sweep'[q] = sweep[q]
      BY <1>2
    <3>4. e \in wanted \ deleted
      BY DEF TriedInv
    <3>5. s \in Carriers(e) => e \in D
      BY <2>1, <3>1, <3>4 DEF Carriers, Carries, SweepSelect, Due
    <3>6. e \in D => s \in Carriers(e)'
      BY <3>2 DEF Carriers, Carries
    <3> QED
      BY <1>1, <3>3, <3>5, <3>6 DEF Carriers, Carries
  <2>2. ASSUME NEW x \in Events, SweepCheck(s, x) PROVE Carriers(e) \subseteq Carriers(e)'
    <3>1. PICK r \in SweepRecs, P \in SUBSET Events :
               /\ sweep' = [sweep EXCEPT ![s] = r]
               /\ P = IF Reminded(x) THEN sweep[s].pending ELSE sweep[s].pending \cup {x}
               /\ \/ r.step = "check" /\ r.pending = P /\ r.todo = sweep[s].todo \ {x}
                  \/ r.step = "create" /\ r.pending = {} /\ r.todo = P /\ sweep[s].todo \ {x} = {}
                  \/ r = NoSweep /\ P = {} /\ sweep[s].todo \ {x} = {}
      BY <2>2, ChecksOne
    <3>2. sweep'[s] = r /\ \A q \in Sweeps : q # s => sweep'[q] = sweep[q]
      BY <3>1, SweepMoves
    <3>3. s \in Carriers(e) => e \in sweep[s].todo \cup sweep[s].pending
      BY <2>2, ChecksOne DEF Carriers, Carries
    <3>4. e \in sweep[s].todo \cup sweep[s].pending => e \in P \cup (sweep[s].todo \ {x})
      BY <1>4, <3>1
    <3>5. e \in P \cup (sweep[s].todo \ {x}) => s \in Carriers(e)'
      BY <3>1, <3>2 DEF Carriers, Carries
    <3> QED
      BY <1>1, <3>2, <3>3, <3>4, <3>5 DEF Carriers, Carries
  <2> QED
    BY <2>1, <2>2
<1>5. \A e : Reminded(e)' = Reminded(e)
  BY <1>1 DEF Reminded
<1>6. Begun' = Begun
  BY <1>1 DEF Begun
<1>7. ASSUME NEW e \in trace.kept, ~Reminded(e)
      PROVE  Begun' + Window <= startAt'[e] + Tries(e)' \/ Window <= Tries(e)'
  <2>1. TriesKept(e)
    BY <1>3, <1>4, <1>7, CarriersGrow
  <2>2. e \in Events
    BY DEF InboxRanges, Traces
  <2> QED
    BY <1>1, <1>3, <1>6, <1>7, <2>1, <2>2, TriedOn DEF TriedInv
<1> QED
  BY <1>1, <1>3, <1>5, <1>7 DEF TriedInv

\* A pass creates a reminder, or fails to.
LEMMA TriedCreates ==
  ASSUME InboxAssumption, InboxRanges, TriedInv, NEW s \in Sweeps, NEW x \in Events,
         SweepCreate(s, x)
  PROVE  TriedInv'
<1>1. PICK r \in SweepRecs :
         /\ sweep' = [sweep EXCEPT ![s] = r]
         /\ r = NoSweep \/ (r.step = "create" /\ r.pending = sweep[s].pending)
         /\ r.todo = sweep[s].todo \ {x}
  BY CreatesOne
<1>2. sweep'[s] = r /\ (\A q \in Sweeps : q # s => sweep'[q] = sweep[q])
      /\ sweep[s].step = "create" /\ x \in sweep[s].todo
  BY <1>1, SweepMoves, CreatesOne
<1>3. IsFiniteSet(Under')
  BY <1>1, UnderOne DEF TriedInv
<1>4. UNCHANGED <<tick, fired, startAt, deleted, wanted>>
  BY DEF SweepCreate
<1>5. Begun' = Begun
  BY <1>4 DEF Begun
<1>6. ASSUME NEW e, e # x PROVE Carriers(e) \subseteq Carriers(e)'
  <2>1. s \in Carriers(e) => e \in r.todo /\ r.step = "create"
    BY <1>1, <1>2, <1>6, NothingRecs DEF Carriers, Carries
  <2> QED
    BY <1>2, <1>4, <2>1 DEF Carriers, Carries
<1>7. ASSUME NEW e \in Events, e # x, Begun + Window <= startAt[e] + Tries(e) \/ Window <= Tries(e),
             trace'.failed[e] = trace.failed[e]
      PROVE  Begun' + Window <= startAt'[e] + Tries(e)' \/ Window <= Tries(e)'
  <2>1. TriesKept(e)
    BY <1>3, <1>6, <1>7, CarriersGrow
  <2> QED
    BY <1>3, <1>4, <1>5, <1>7, <2>1, TriedOn DEF TriedInv
<1>8. trace.kept \subseteq Events
  BY DEF InboxRanges, Traces
<1>9. CASE inbox' = Append(inbox, [event |-> x, read |-> FALSE]) /\ UNCHANGED trace
  <2>1. \A e \in Events : Reminded(e)' <=> (Reminded(e) \/ e = x)
    BY <1>9, RowsGain
  <2> QED
    BY <1>3, <1>4, <1>7, <1>8, <1>9, <2>1 DEF TriedInv
<1>10. CASE trace' = [trace EXCEPT !.failed[x] = @ + 1] /\ UNCHANGED inbox
  <2>1. /\ trace'.kept = trace.kept /\ trace'.failed[x] = trace.failed[x] + 1
        /\ \A e \in Events : e # x => trace'.failed[e] = trace.failed[e]
    BY <1>10 DEF InboxRanges, Traces
  <2>2. \A e : Reminded(e)' = Reminded(e)
    BY <1>10 DEF Reminded
  <2>3. ASSUME Begun + Window <= startAt[x] + Tries(x) \/ Window <= Tries(x)
        PROVE  Begun' + Window <= startAt'[x] + Tries(x)' \/ Window <= Tries(x)'
    <3>1. s \in Carriers(x)
      BY <1>2 DEF Carriers, Carries
    <3>2. IsFiniteSet(Carriers(x)) /\ Cardinality(Carriers(x)) \in Nat
      BY CarriersFinite DEF TriedInv
    <3>3. Cardinality(Carriers(x) \ {s}) = Cardinality(Carriers(x)) - 1
      BY <3>1, <3>2, FS_RemoveElement
    <3>4. Carriers(x) \ {s} \subseteq Carriers(x)'
      BY <1>2, <1>4 DEF Carriers, Carries
    <3>5. Carriers(x)' \subseteq Under'
      BY NothingRecs DEF Carriers, Carries, Under
    <3>6. IsFiniteSet(Carriers(x)')
      BY <1>3, <3>5, FS_Subset
    <3>7. Cardinality(Carriers(x)') \in Nat
          /\ Cardinality(Carriers(x) \ {s}) <= Cardinality(Carriers(x)')
      BY <3>4, <3>6, FS_Subset, FS_CardinalityType
    <3>8. trace.failed[x] \in Nat /\ startAt[x] \in Nat /\ Begun \in Nat /\ Window \in Nat
      BY DEF InboxRanges, Traces, Begun, InboxAssumption
    <3>9. Tries(x) = trace.failed[x] + Cardinality(Carriers(x))
          /\ Tries(x)' = trace.failed[x] + 1 + Cardinality(Carriers(x)')
      BY <2>1 DEF Tries
    <3>10. Tries(x) <= Tries(x)' /\ Tries(x) \in Nat /\ Tries(x)' \in Nat
      BY <3>2, <3>3, <3>7, <3>8, <3>9
    <3> QED
      BY <1>4, <1>5, <2>3, <3>8, <3>10
  <2> QED
    BY <1>3, <1>4, <1>7, <1>8, <2>1, <2>2, <2>3 DEF TriedInv
<1> QED
  BY <1>9, <1>10 DEF SweepCreate

LEMMA TriedStep ==
  InboxAssumption /\ InboxRanges /\ TriedInv /\ [InboxNext]_inboxVars => TriedInv'
<1> SUFFICES ASSUME InboxAssumption, InboxRanges, TriedInv, [InboxNext]_inboxVars PROVE TriedInv'
  OBVIOUS
<1>1. CASE \E s \in Sweeps : \/ SweepStart(s) \/ SweepSelect(s)
                             \/ \E e \in Events : SweepCheck(s, e) \/ SweepCreate(s, e)
  BY <1>1, TriedBegins, TriedGoesOn, TriedCreates
<1>2. InboxRanges'
  BY InboxRangesStep
<1>3. startAt' \in [Events -> Nat] /\ trace.kept \subseteq Events
  BY <1>2 DEF InboxRanges, Traces
<1>4. CASE Tick
  <2>1. Begun' = Begun /\ RowsBeside /\ UNCHANGED <<sweep, startAt, deleted, wanted, trace>>
    BY <1>4 DEF Tick, Begun, RowsBeside, InboxRanges
  <2> QED
    BY <1>3, <2>1, TriedStill DEF TriedInv
<1>5. CASE ~Tick /\ ~\E s \in Sweeps : \/ SweepStart(s) \/ SweepSelect(s)
                             \/ \E e \in Events : SweepCheck(s, e) \/ SweepCreate(s, e)
  <2>1. BesidePasses
    BY <1>5, PassesBeside
  <2>2. RowsBeside /\ UNCHANGED <<sweep, fired>> /\ trace'.failed = trace.failed
    BY <2>1 DEF BesidePasses
  <2>3. tick' = tick
    BY <1>5 DEF InboxNext, inboxVars, PushCount, PushSend, CreateNotification, MarkAllRead, MarkRead,
                OpenBell, SeedRead, SeedArrives, DropSocket, ReopenSocket, BellStep, ToggleWrite,
                ToggleCheck, DeleteEvent, Reschedule
  <2>4. Begun' = Begun
    BY <2>2, <2>3 DEF Begun
  <2>5. ASSUME NEW e \in trace'.kept
        PROVE  /\ e \in Events /\ e \in wanted' \ deleted'
               /\ \/ e \in trace.kept /\ startAt'[e] = startAt[e]
                  \/ Begun' + Window <= startAt'[e]
    <3>1. CASE UNCHANGED <<startAt, deleted, wanted>> /\ trace'.kept = trace.kept
      BY <1>3, <2>5, <3>1 DEF TriedInv
    <3>2. ASSUME NEW t \in Toggles, ToggleWrite(t)
          PROVE  /\ e \in Events /\ e \in wanted' \ deleted'
                 /\ \/ e \in trace.kept /\ startAt'[e] = startAt[e]
                    \/ Begun' + Window <= startAt'[e]
      <4>1. PICK x : x = toggle[t].event
        OBVIOUS
      <4>2. x \in Events
        BY <3>2, <4>1 DEF ToggleWrite, InboxRanges
      <4>3. /\ UNCHANGED <<tick, fired, startAt, deleted>>
            /\ wanted' = wanted \ {x} \/ wanted' = wanted \cup {x}
            /\ trace'.kept = IF x \in wanted' /\ (x \in trace.kept \/ Ahead(x))
                             THEN trace.kept \cup {x} ELSE trace.kept \ {x}
        BY <3>2, <4>1 DEF ToggleWrite, Keep, InboxRanges, Traces
      <4>4. CASE e = x
        <5>1. e \in wanted' /\ (e \in trace.kept \/ Ahead(e))
          BY <2>5, <4>3, <4>4
        <5>2. CASE e \in trace.kept
          BY <1>3, <4>3, <5>1, <5>2 DEF TriedInv
        <5>3. CASE Ahead(e)
          <6>1. tick \in Nat /\ startAt[e] \in Nat /\ Window \in Nat
            BY <4>2, <4>4 DEF InboxRanges, InboxAssumption
          <6>2. Begun + Window <= startAt[e] /\ e \notin deleted
            BY <5>3, <6>1 DEF Ahead, Begun
          <6> QED
            BY <2>4, <4>2, <4>3, <4>4, <5>1, <6>2
        <5> QED
          BY <5>1, <5>2, <5>3
      <4>5. CASE e # x
        <5>1. e \in trace.kept
          BY <2>5, <4>3, <4>5
        <5> QED
          BY <1>3, <4>3, <4>5, <5>1 DEF TriedInv
      <4> QED
        BY <4>4, <4>5
    <3>3. ASSUME NEW x \in Events, DeleteEvent(x) \/ \E at \in 1..MaxTicks : Reschedule(x, at)
          PROVE  /\ e \in Events /\ e \in wanted' \ deleted'
                 /\ \/ e \in trace.kept /\ startAt'[e] = startAt[e]
                    \/ Begun' + Window <= startAt'[e]
      <4>1. trace'.kept = trace.kept \ {x} /\ UNCHANGED wanted
        BY <3>3 DEF DeleteEvent, Reschedule, InboxRanges, Traces
      <4>2. e \in trace.kept /\ e # x
        BY <2>5, <4>1
      <4>3. startAt'[e] = startAt[e] /\ (e \in deleted' => e \in deleted)
        <5>1. CASE DeleteEvent(x)
          BY <4>2, <5>1 DEF DeleteEvent
        <5>2. ASSUME NEW at \in 1..MaxTicks, Reschedule(x, at)
              PROVE  startAt'[e] = startAt[e] /\ deleted' = deleted
          <6>1. startAt' = [startAt EXCEPT ![x] = at] /\ deleted' = deleted
            BY <5>2 DEF Reschedule
          <6> QED
            BY <4>2, <6>1 DEF InboxRanges, Traces
        <5> QED
          BY <3>3, <5>1, <5>2
      <4> QED
        BY <1>3, <4>1, <4>2, <4>3 DEF TriedInv
    <3>4. ASSUME NEW p \in Pushes, PushCount(p) \/ PushSend(p)
          PROVE  UNCHANGED <<startAt, deleted, wanted>> /\ trace'.kept = trace.kept
      BY <3>4 DEF PushCount, PushSend, InboxRanges, Traces
    <3>5. ASSUME \/ CreateNotification \/ MarkAllRead \/ \E i \in DOMAIN inbox : MarkRead(i)
                 \/ OpenBell \/ SeedRead \/ SeedArrives \/ DropSocket \/ ReopenSocket
                 \/ \E t \in Toggles, x \in Events : ToggleCheck(t, x)
                 \/ UNCHANGED inboxVars
          PROVE  UNCHANGED <<startAt, deleted, wanted>> /\ trace'.kept = trace.kept
      BY <3>5 DEF CreateNotification, MarkAllRead, MarkRead, OpenBell, SeedRead, SeedArrives,
                  DropSocket, ReopenSocket, BellStep, ToggleCheck, inboxVars
    <3> QED
      BY <1>5, <3>1, <3>2, <3>3, <3>4, <3>5 DEF InboxNext
  <2> QED
    BY <1>3, <2>2, <2>4, <2>5, TriedStill
<1> QED
  BY <1>1, <1>4, <1>5

\* Who asked for a reminder a window ahead, of an event nobody moved or deleted since,
\* has it when the event starts, unless a window's worth of inserts has failed: each
\* interval's pass looks a whole window ahead, and one that fails leaves the rest to try.
THEOREM RemindedByThen == ASSUME InboxAssumption PROVE InboxSpec => []RemindedInTime
<1>1. InboxInit => InboxRanges /\ TriedInv
  <2> SUFFICES ASSUME InboxInit PROVE InboxRanges /\ TriedInv
    OBVIOUS
  <2>1. Under = {} /\ trace.kept = {}
    BY DEF InboxInit, Under
  <2> QED
    BY <2>1, InboxRangesStart, FS_EmptySet DEF TriedInv
<1>2. InboxRanges /\ TriedInv /\ [InboxNext]_inboxVars => (InboxRanges /\ TriedInv)'
  BY InboxRangesStep, TriedStep
<1>3. InboxRanges /\ TriedInv => RemindedInTime
  <2> SUFFICES ASSUME InboxRanges, TriedInv, \A s \in Sweeps : sweep[s] = NoSweep,
                      NEW e \in trace.kept, tick >= startAt[e], trace.failed[e] < Window
               PROVE  Reminded(e)
    BY DEF RemindedInTime
  <2>1. Carriers(e) = {}
    BY NothingRecs DEF Carriers, Carries
  <2>2. Cardinality(Carriers(e)) = 0
    BY <2>1, FS_EmptySet
  <2>3. e \in Events /\ trace.failed[e] \in Nat /\ startAt[e] \in Nat /\ tick \in Nat /\ Window \in Nat \ {0}
    BY DEF InboxRanges, Traces, InboxAssumption
  <2>4. Tries(e) = trace.failed[e]
    BY <2>2, <2>3 DEF Tries
  <2>5. Begun >= tick /\ Begun \in Nat
    BY <2>3 DEF Begun
  <2>6. ~Reminded(e) => Begun + Window <= startAt[e] + Tries(e) \/ Window <= Tries(e)
    BY DEF TriedInv
  <2> QED
    BY <2>3, <2>4, <2>5, <2>6
<1> QED
  BY <1>1, <1>2, <1>3, PTL DEF InboxSpec

-----------------------------------------------------------------------------
(* Subscriptions: the row and the subscription *)

\* Of the numbers in a set that has a bound one is the greatest.
LEMMA LastOf ==
  ASSUME NEW n \in Nat, NEW T \in SUBSET (0..n), T # {}
  PROVE  \E m \in T : \A k \in T : k <= m
<1> DEFINE U == {j \in 0..n : n - j \in T}
           R == OpToRel(<, Nat)
<1>1. \A x, y \in Nat : x < y => <<x, y>> \in R
  BY DEF OpToRel
<1>2. IsWellFoundedOn(R, Nat)
  BY NatLessThanWellFounded
<1> HIDE DEF R
<1>3. U \in SUBSET Nat /\ U # {}
  <2>1. PICK k : k \in T /\ k \in 0..n
    OBVIOUS
  <2>2. n - k \in 0..n /\ n - (n - k) = k
    BY <2>1
  <2>3. n - k \in U
    BY <2>1, <2>2
  <2> QED
    BY <2>3
<1>4. PICK u \in U : \A v \in U : ~(<<v, u>> \in R)
  BY <1>2, <1>3, WFMin
<1>5. u \in 0..n /\ n - u \in T /\ \A v \in U : ~(v < u)
  BY <1>1, <1>3, <1>4
<1>6. ASSUME NEW k \in T PROVE k <= n - u
  <2>1. n - k \in U /\ k \in Int /\ u \in Int
    <3>1. k \in 0..n /\ n - k \in 0..n /\ n - (n - k) = k
      OBVIOUS
    <3> QED
      BY <1>5, <3>1
  <2>2. ~(n - k < u)
    BY <1>5, <2>1
  <2> QED
    BY <2>1, <2>2
<1> QED
  BY <1>5, <1>6

\* What Stripe's event says of the subscription.
Says(e) ==
    /\ e.kind \in {"checkout", "paid"} => e.is.status = "active"
    /\ e.kind = "failed" => e.is.status = "past_due"
    /\ e.kind = "deleted" => e.is.status = "canceled"
    /\ e.kind = "checkout" => ~e.is.cancel

\* What it says next: a checkout comes first and its payment follows, and nothing takes
\* back a cancellation.
Then(e, f) ==
    /\ f.kind # "checkout" /\ (e.kind = "checkout" => f.kind = "paid")
    /\ f.kind \in {"failed", "deleted"} => f.is.period = e.is.period
    /\ e.is.cancel => f.is.cancel
    /\ f.kind # "updated" => f.is.cancel = e.is.cancel

\* What Stripe has sent of each subscription, from its checkout to what it is now.
Told ==
    /\ \A i \in DOMAIN sent : sent[i] \in SubEvents /\ Says(sent[i])
    /\ \A i, j \in DOMAIN sent :
          /\ i < j /\ sent[i].sub = sent[j].sub
          /\ \A k \in DOMAIN sent : sent[k].sub = sent[j].sub => k <= i \/ j <= k
          => Then(sent[i], sent[j])
    /\ \A i \in DOMAIN sent :
          (\A k \in DOMAIN sent : sent[k].sub = sent[i].sub => i <= k) => sent[i].kind = "checkout"
    /\ \A i \in DOMAIN sent :
          (\A k \in DOMAIN sent : sent[k].sub = sent[i].sub => k <= i) =>
              sent[i].is = stripe[sent[i].sub] /\ sent[i].kind # "checkout"
    /\ \A i \in DOMAIN sent : sent[i].is.cancel => stripe[sent[i].sub].cancel
    /\ \A s \in Subs : stripe[s] = None <=> \A k \in DOMAIN sent : sent[k].sub # s

\* The row once event e was handled.
RowOf(e, r) ==
    /\ r \in SubRows /\ r.status = e.is.status
    /\ r.period = IF e.kind = "checkout" THEN 0 ELSE e.is.period
    /\ e.is.cancel => r.cancel

\* The events of s that were handled are the first ones, and were handled in turn.
InTurn(s) ==
    /\ \A j, k \in DOMAIN applied :
          j < k /\ sent[applied[j]].sub = s /\ sent[applied[k]].sub = s => applied[j] < applied[k]
    /\ \A i \in DOMAIN sent, k \in DOMAIN applied :
          sent[i].sub = s /\ sent[applied[k]].sub = s /\ i < applied[k] =>
              \E j \in DOMAIN applied : applied[j] = i

\* The event in place j of the handled ones is the last one of s.
Latest(j, s) ==
    /\ sent[applied[j]].sub = s
    /\ \A k \in DOMAIN applied : sent[applied[k]].sub = s => applied[k] <= applied[j]

RowFits(s) ==
    /\ row[s] # None => row[s] \in SubRows /\ stripe[s] # None
    /\ row[s] # None /\ row[s].cancel => stripe[s].cancel
    /\ InTurn(s) => \A j \in DOMAIN applied : Latest(j, s) => RowOf(sent[applied[j]], row[s])

\* A call that cancels has a row to write, and Stripe's word once it gets there.
CallFits(h) ==
    /\ call[h].step = "apply" => call[h].id \in DOMAIN sent
    /\ call[h].step \in {"cancelStripe", "cancelRow"} => call[h].sub \in Subs /\ row[call[h].sub] # None
    /\ call[h].step = "cancelRow" => stripe[call[h].sub].cancel

BillShapes ==
    /\ stripe \in [Subs -> SubRows \cup {None}]
    /\ clock \in 0..MaxPeriods
    /\ sent \in Seq(SubEvents)
    /\ outbox \subseteq DOMAIN sent
    /\ row = [s \in Subs |-> row[s]]
    /\ applied \in Seq(Nat)
    /\ \A j \in DOMAIN applied : applied[j] \in DOMAIN sent
    /\ call = [h \in BillingCalls |-> call[h]]
    /\ \A h \in BillingCalls : call[h] = [step |-> call[h].step, id |-> call[h].id, sub |-> call[h].sub]

BillInv ==
    /\ BillShapes /\ Told
    /\ \A s \in Subs : RowFits(s)
    /\ \A h \in BillingCalls : CallFits(h)

\* Stripe sends one event, or two.
LEMMA SentIs ==
  ASSUME BillShapes, NEW es \in Seq(SubEvents), Emit(es)
  PROVE  /\ sent' \in Seq(SubEvents) /\ Len(sent) \in Nat /\ Len(es) \in Nat
         /\ DOMAIN sent = 1..Len(sent) /\ DOMAIN es = 1..Len(es)
         /\ DOMAIN sent' = 1..(Len(sent) + Len(es))
         /\ \A i \in DOMAIN sent : sent'[i] = sent[i]
         /\ \A i \in 1..Len(es) : sent'[Len(sent) + i] = es[i]
         /\ outbox' \subseteq DOMAIN sent'
<1>1. sent \in Seq(SubEvents) /\ sent' = sent \o es /\ outbox \subseteq DOMAIN sent
      /\ outbox' = outbox \cup (Len(sent) + 1 .. Len(sent) + Len(es))
  BY DEF BillShapes, Emit
<1>2. Len(sent) \in Nat /\ Len(es) \in Nat /\ DOMAIN sent = 1..Len(sent) /\ DOMAIN es = 1..Len(es)
  BY <1>1
<1>3. sent' \in Seq(SubEvents) /\ Len(sent') = Len(sent) + Len(es)
  BY <1>1
<1>4. DOMAIN sent' = 1..(Len(sent) + Len(es))
  BY <1>3
<1>5. \A i \in 1..Len(sent) : sent'[i] = sent[i]
  BY <1>1, <1>2
<1>6. \A i \in 1..Len(es) : sent'[Len(sent) + i] = es[i]
  BY <1>1, <1>2
<1>7. outbox' \subseteq DOMAIN sent'
  BY <1>1, <1>2, <1>4
<1> QED
  BY <1>2, <1>3, <1>4, <1>5, <1>6, <1>7

\* What Stripe may send of s, which then is r.
Sends(s, r, es, n, m) ==
    /\ n = Len(sent) /\ m = Len(es)
    /\ es \in Seq(SubEvents) /\ Len(es) \in {1, 2}
    /\ \A i \in 1..Len(es) : es[i].sub = s /\ es[i].is = r /\ Says(es[i])
    /\ es[Len(es)].kind # "checkout"
    /\ Len(es) = 2 /\ es[1].kind = "checkout" => es[2].kind = "paid"
    /\ stripe[s] = None => es[1].kind = "checkout"
    /\ stripe[s] # None =>
          /\ es[1].kind # "checkout"
          /\ es[1].kind \in {"failed", "deleted"} => r.period = stripe[s].period
          /\ stripe[s].cancel => r.cancel
          /\ es[1].kind # "updated" => r.cancel = stripe[s].cancel
    /\ Emit(es) /\ stripe' = [stripe EXCEPT ![s] = r]

LEMMA EventsAre ==
  ASSUME BillShapes, NEW s \in Subs, NEW r \in SubRows, NEW es, NEW n, NEW m, Sends(s, r, es, n, m)
  PROVE  /\ n \in Nat /\ m \in {1, 2} /\ DOMAIN sent = 1..n /\ DOMAIN sent' = 1..(n + m)
         /\ \A i \in 1..n : sent'[i] = sent[i] /\ sent[i].sub \in Subs
         /\ sent'[n + 1] = es[1] /\ es[1].sub = s /\ es[1].is = r /\ es[1] \in SubEvents
         /\ m = 2 => sent'[n + 2] = es[2] /\ es[2].sub = s /\ es[2].is = r /\ es[2] \in SubEvents
         /\ stripe'[s] = r /\ \A u \in Subs \ {s} : stripe'[u] = stripe[u]
         /\ \A i \in 1..(n + m) : i \in 1..n \/ i = n + 1 \/ (m = 2 /\ i = n + 2)
<1>1. /\ sent' \in Seq(SubEvents) /\ n \in Nat /\ Len(es) \in Nat
      /\ DOMAIN sent = 1..n /\ DOMAIN sent' = 1..(n + Len(es)) /\ DOMAIN es = 1..Len(es)
      /\ \A i \in 1..n : sent'[i] = sent[i]
      /\ \A i \in 1..Len(es) : sent'[n + i] = es[i]
  BY SentIs DEF Sends
<1>2. \A i \in 1..n : sent[i].sub \in Subs
  <2>1. \A i \in DOMAIN sent : sent[i] \in SubEvents
    BY DEF BillShapes
  <2> QED
    BY <1>1, <2>1 DEF SubEvents
<1>3. \A i \in 1..Len(es) : es[i].sub = s /\ es[i].is = r /\ es[i] \in SubEvents
  BY <1>1 DEF Sends
<1>4. stripe'[s] = r /\ \A u \in Subs \ {s} : stripe'[u] = stripe[u]
  BY DEF Sends, BillShapes
<1>5. m \in {1, 2} /\ m = Len(es)
  BY DEF Sends
<1>6. \A i \in 1..(n + m) : i \in 1..n \/ i = n + 1 \/ (m = 2 /\ i = n + 2)
  <2>1. m = 1 \/ m = 2
    BY <1>5
  <2>2. CASE m = 1
    BY <1>1, <2>2
  <2>3. CASE m = 2
    BY <1>1, <2>3
  <2> QED
    BY <2>1, <2>2, <2>3
<1>7. 1 \in 1..Len(es) /\ (m = 2 => 2 \in 1..Len(es))
  BY <1>5
<1>8. sent'[n + 1] = es[1] /\ (m = 2 => sent'[n + 2] = es[2])
  BY <1>1, <1>7
<1>9. /\ es[1].sub = s /\ es[1].is = r /\ es[1] \in SubEvents
      /\ m = 2 => es[2].sub = s /\ es[2].is = r /\ es[2] \in SubEvents
  BY <1>3, <1>7
<1> QED
  BY <1>1, <1>2, <1>4, <1>5, <1>6, <1>8, <1>9

LEMMA ToldNext ==
  ASSUME BillingAssumption, BillShapes, Told, NEW s \in Subs, NEW r \in SubRows, NEW es,
         NEW n, NEW m, Sends(s, r, es, n, m)
  PROVE  Told'
<1>1. /\ n \in Nat /\ m \in {1, 2} /\ DOMAIN sent = 1..n /\ DOMAIN sent' = 1..(n + m)
      /\ \A i \in 1..n : sent'[i] = sent[i] /\ sent[i].sub \in Subs
      /\ sent'[n + 1] = es[1] /\ es[1].sub = s /\ es[1].is = r /\ es[1] \in SubEvents
      /\ m = 2 => sent'[n + 2] = es[2] /\ es[2].sub = s /\ es[2].is = r /\ es[2] \in SubEvents
      /\ stripe'[s] = r /\ \A u \in Subs \ {s} : stripe'[u] = stripe[u]
      /\ \A i \in 1..(n + m) : i \in 1..n \/ i = n + 1 \/ (m = 2 /\ i = n + 2)
  BY EventsAre
<1>2. /\ \A i \in 1..n : i \in 1..(n + m) /\ i < n + 1 /\ i < n + 2 /\ ~(n + 1 <= i) /\ ~(n + 2 <= i)
      /\ n + 1 \in 1..(n + m) /\ (m = 2 => n + 2 \in 1..(n + m))
      /\ n + 1 < n + 2 /\ ~(n + 2 <= n + 1) /\ ~(n + 1 < n + 1) /\ ~(n + 2 < n + 1) /\ ~(n + 2 < n + 2)
  <2>1. CASE m = 1
    BY <1>1, <2>1
  <2>2. CASE m = 2
    BY <1>1, <2>2
  <2> QED
    BY <1>1, <2>1, <2>2
<1>3. \A i \in 1..n : sent[i].sub = s => stripe[s] # None
  BY <1>1 DEF Told
<1>4. /\ \A i \in 1..m : Says(es[i])
      /\ m = 1 => es[1].kind # "checkout"
      /\ m = 2 => es[2].kind # "checkout"
      /\ m = 2 /\ es[1].kind = "checkout" => es[2].kind = "paid"
      /\ stripe[s] = None => es[1].kind = "checkout"
      /\ stripe[s] # None =>
            /\ es[1].kind # "checkout"
            /\ es[1].kind \in {"failed", "deleted"} => r.period = stripe[s].period
            /\ stripe[s].cancel => r.cancel
            /\ es[1].kind # "updated" => r.cancel = stripe[s].cancel
  BY DEF Sends
<1>5. Says(es[1]) /\ (m = 2 => Says(es[2]))
  <2>1. 1 \in 1..m /\ (m = 2 => 2 \in 1..m)
    BY <1>1
  <2> QED
    BY <1>4, <2>1
<1>6. ASSUME NEW i \in DOMAIN sent' PROVE sent'[i] \in SubEvents /\ Says(sent'[i])
  BY <1>1, <1>5, <1>6 DEF Told
<1>7. ASSUME NEW i \in DOMAIN sent', NEW j \in DOMAIN sent', i < j, sent'[i].sub = sent'[j].sub,
             \A k \in DOMAIN sent' : sent'[k].sub = sent'[j].sub => k <= i \/ j <= k
      PROVE  Then(sent'[i], sent'[j])
  <2>1. CASE j \in 1..n
    <3>1. i \in 1..n
      BY <1>1, <1>7, <2>1
    <3>2. \A k \in DOMAIN sent : sent[k].sub = sent[j].sub => k <= i \/ j <= k
      BY <1>1, <1>2, <1>7, <2>1
    <3>3. Then(sent[i], sent[j])
      BY <1>1, <1>7, <2>1, <3>1, <3>2 DEF Told
    <3> QED
      BY <1>1, <2>1, <3>1, <3>3
  <2>2. CASE j = n + 1
    <3>1. i \in 1..n /\ sent'[i] = sent[i] /\ sent[i].sub = s
      BY <1>1, <1>2, <1>7, <2>2
    <3>2. \A k \in DOMAIN sent : sent[k].sub = sent[i].sub => k <= i
      BY <1>1, <1>2, <1>7, <2>2, <3>1
    <3>3. sent[i].is = stripe[s] /\ sent[i].kind # "checkout" /\ stripe[s] # None
      BY <1>1, <1>3, <3>1, <3>2 DEF Told
    <3> QED
      BY <1>1, <1>4, <2>2, <3>1, <3>3 DEF Then
  <2>3. CASE m = 2 /\ j = n + 2
    <3>1. ~(j <= n + 1)
      BY <1>2, <2>3
    <3>2. n + 1 <= i
      BY <1>1, <1>2, <1>7, <2>3, <3>1
    <3>3. i = n + 1
      BY <1>1, <1>2, <1>7, <2>3, <3>2
    <3> QED
      BY <1>1, <1>4, <2>3, <3>3 DEF Then
  <2> QED
    BY <1>1, <2>1, <2>2, <2>3
<1>8. ASSUME NEW i \in DOMAIN sent', \A k \in DOMAIN sent' : sent'[k].sub = sent'[i].sub => i <= k
      PROVE  sent'[i].kind = "checkout"
  <2>1. CASE i \in 1..n
    <3>1. \A k \in DOMAIN sent : sent[k].sub = sent[i].sub => i <= k
      BY <1>1, <1>2, <1>8, <2>1
    <3> QED
      BY <1>1, <2>1, <3>1 DEF Told
  <2>2. CASE i = n + 1
    <3>1. \A k \in 1..n : sent[k].sub # s
      BY <1>1, <1>2, <1>8, <2>2
    <3>2. stripe[s] = None
      BY <1>1, <3>1 DEF Told
    <3> QED
      BY <1>1, <1>4, <2>2, <3>2
  <2>3. CASE m = 2 /\ i = n + 2
    BY <1>1, <1>2, <1>8, <2>3
  <2> QED
    BY <1>1, <2>1, <2>2, <2>3
<1>9. ASSUME NEW i \in DOMAIN sent', \A k \in DOMAIN sent' : sent'[k].sub = sent'[i].sub => k <= i
      PROVE  sent'[i].is = stripe'[sent'[i].sub] /\ sent'[i].kind # "checkout"
  <2>1. CASE i \in 1..n
    <3>1. sent[i].sub # s
      BY <1>1, <1>2, <1>9, <2>1
    <3>2. \A k \in DOMAIN sent : sent[k].sub = sent[i].sub => k <= i
      BY <1>1, <1>2, <1>9, <2>1
    <3> QED
      BY <1>1, <2>1, <3>1, <3>2 DEF Told
  <2>2. CASE i = n + 1
    <3>1. m = 1
      BY <1>1, <1>2, <1>9, <2>2
    <3> QED
      BY <1>1, <1>4, <2>2, <3>1
  <2>3. CASE m = 2 /\ i = n + 2
    BY <1>1, <1>4, <2>3
  <2> QED
    BY <1>1, <2>1, <2>2, <2>3
<1>10. ASSUME NEW i \in DOMAIN sent', sent'[i].is.cancel
       PROVE  stripe'[sent'[i].sub].cancel
  <2>1. CASE i \in 1..n
    <3>1. stripe[sent[i].sub].cancel
      BY <1>1, <1>10, <2>1 DEF Told
    <3>2. CASE sent[i].sub = s
      BY <1>1, <1>3, <1>4, <2>1, <3>1, <3>2
    <3>3. CASE sent[i].sub # s
      BY <1>1, <2>1, <3>1, <3>3
    <3> QED
      BY <3>2, <3>3
  <2> QED
    BY <1>1, <1>10, <2>1
<1>11. ASSUME NEW u \in Subs PROVE stripe'[u] = None <=> \A k \in DOMAIN sent' : sent'[k].sub # u
  <2>1. r # None
    BY DEF BillingAssumption
  <2>2. CASE u = s
    BY <1>1, <1>2, <2>1, <2>2
  <2>3. CASE u # s
    <3>1. \A k \in 1..(n + m) : sent'[k].sub = u => k \in 1..n /\ sent[k].sub = u
      BY <1>1, <2>3
    <3>2. \A k \in 1..n : sent[k].sub = u => k \in 1..(n + m) /\ sent'[k].sub = u
      BY <1>1, <1>2
    <3>3. stripe'[u] = stripe[u] /\ (stripe[u] = None <=> \A k \in 1..n : sent[k].sub # u)
      BY <1>1, <2>3 DEF Told
    <3> QED
      BY <1>1, <3>1, <3>2, <3>3
  <2> QED
    BY <2>2, <2>3
<1> QED
  BY <1>6, <1>7, <1>8, <1>9, <1>10, <1>11 DEF Told

\* Cancelled stays cancelled, at Stripe.
LEMMA StripeKeeps ==
  ASSUME BillingAssumption, BillShapes, Told, NEW s \in Subs, NEW r \in SubRows, NEW es,
         NEW n, NEW m, Sends(s, r, es, n, m), NEW u \in Subs
  PROVE  stripe[u] # None => stripe'[u] # None /\ (stripe[u].cancel => stripe'[u].cancel)
<1>1. stripe'[s] = r /\ \A v \in Subs \ {s} : stripe'[v] = stripe[v]
  BY EventsAre
<1>2. r # None
  BY DEF BillingAssumption
<1>3. stripe[s] # None /\ stripe[s].cancel => r.cancel
  BY DEF Sends
<1> QED
  BY <1>1, <1>2, <1>3

LEMMA FitsNext ==
  ASSUME BillingAssumption, BillShapes, Told, \A v \in Subs : RowFits(v),
         NEW s \in Subs, NEW r \in SubRows, NEW es, NEW n, NEW m, Sends(s, r, es, n, m),
         UNCHANGED <<row, applied>>, NEW u \in Subs
  PROVE  RowFits(u)'
<1>1. /\ DOMAIN sent = 1..n /\ DOMAIN sent' = 1..(n + m) /\ n \in Nat /\ m \in {1, 2}
      /\ \A i \in 1..n : sent'[i] = sent[i]
  BY EventsAre
<1>2. /\ stripe[u] # None => stripe'[u] # None /\ (stripe[u].cancel => stripe'[u].cancel)
      /\ row' = row /\ applied' = applied
  BY StripeKeeps
<1>3. \A k \in DOMAIN applied : applied[k] \in 1..n /\ sent'[applied[k]] = sent[applied[k]]
  BY <1>1 DEF BillShapes
<1>4. \A i \in 1..n : i \in 1..(n + m)
  BY <1>1
<1>5. RowFits(u)
  OBVIOUS
<1>6. InTurn(u)' => InTurn(u)
  BY <1>1, <1>2, <1>3, <1>4 DEF InTurn
<1>7. \A j \in DOMAIN applied : Latest(j, u)' => Latest(j, u)
  BY <1>2, <1>3 DEF Latest
<1>8. row'[u] # None => row'[u] \in SubRows /\ stripe'[u] # None
  BY <1>2, <1>5 DEF RowFits
<1>9. row'[u] # None /\ row'[u].cancel => stripe'[u].cancel
  BY <1>2, <1>5 DEF RowFits
<1>10. ASSUME InTurn(u)', NEW j \in DOMAIN applied', Latest(j, u)' PROVE RowOf(sent'[applied'[j]], row'[u])
  <2>1. j \in DOMAIN applied /\ InTurn(u) /\ Latest(j, u)
    BY <1>2, <1>6, <1>7, <1>10
  <2>2. RowOf(sent[applied[j]], row[u])
    BY <1>5, <2>1 DEF RowFits
  <2> QED
    BY <1>2, <1>3, <2>1, <2>2
<1>11. \A j \in DOMAIN applied' : InTurn(u)' /\ Latest(j, u)' => RowOf(sent'[applied'[j]], row'[u])
  BY <1>10
<1> QED
  BY <1>8, <1>9, <1>11 DEF RowFits, RowOf

\* The handler of an event that comes in turn leaves the row as that event says.
LEMMA HandledFits ==
  ASSUME NEW e \in SubEvents, Says(e), NEW q, e.kind # "checkout", q \in SubRows, None \notin SubRows,
         NEW f \in SubEvents, Says(f), RowOf(f, q), Then(f, e)
  PROVE  RowOf(e, Handled(e, q))
<1>1. q # None /\ q = [status |-> q.status, period |-> q.period, cancel |-> q.cancel]
      /\ e.is \in SubRows /\ e.kind \in EventKinds
  BY DEF SubRows, SubEvents
<1>2. CASE e.kind = "paid"
  <2>1. Handled(e, q) = [q EXCEPT !.status = "active", !.period = e.is.period]
    BY <1>1, <1>2 DEF Handled
  <2>2. Handled(e, q) = [status |-> "active", period |-> e.is.period, cancel |-> q.cancel]
    BY <1>1, <2>1
  <2> QED
    BY <1>1, <1>2, <2>2 DEF Says, Then, RowOf, SubRows
<1>3. CASE e.kind = "failed"
  <2>1. Handled(e, q) = [q EXCEPT !.status = "past_due"]
    BY <1>1, <1>3 DEF Handled
  <2>2. Handled(e, q) = [status |-> "past_due", period |-> q.period, cancel |-> q.cancel]
    BY <1>1, <2>1
  <2> QED
    BY <1>1, <1>3, <2>2 DEF Says, Then, RowOf, SubRows
<1>4. CASE e.kind = "deleted"
  <2>1. Handled(e, q) = [q EXCEPT !.status = "canceled"]
    BY <1>1, <1>4 DEF Handled
  <2>2. Handled(e, q) = [status |-> "canceled", period |-> q.period, cancel |-> q.cancel]
    BY <1>1, <2>1
  <2> QED
    BY <1>1, <1>4, <2>2 DEF Says, Then, RowOf, SubRows
<1>5. CASE e.kind = "updated"
  <2>1. Handled(e, q) = e.is
    BY <1>1, <1>5 DEF Handled
  <2> QED
    BY <1>1, <1>5, <2>1 DEF RowOf
<1> QED
  BY <1>1, <1>2, <1>3, <1>4, <1>5 DEF EventKinds

\* What a handler leaves is a row of a subscription that Stripe has, and cancelled only if it is.
LEMMA HandledIs ==
  ASSUME NEW e \in SubEvents, NEW q, q # None => q \in SubRows, None \notin SubRows, Says(e), Handled(e, q) # None, BillingAssumption
  PROVE  /\ Handled(e, q) \in SubRows
         /\ Handled(e, q).cancel => e.is.cancel \/ (q # None /\ q.cancel)
<1>1. e.is \in SubRows /\ e.kind \in EventKinds
  BY DEF SubEvents
<1>2. CASE e.kind = "checkout"
  <2>1. Handled(e, q) = [status |-> "active", period |-> 0, cancel |-> FALSE]
    BY <1>2 DEF Handled
  <2>2. 0 \in 0..MaxPeriods + 1
    BY DEF BillingAssumption
  <2> QED
    BY <2>1, <2>2 DEF SubRows
<1>3. CASE e.kind # "checkout"
  <2>1. q # None
    BY <1>3 DEF Handled
  <2>2. q \in SubRows /\ q = [status |-> q.status, period |-> q.period, cancel |-> q.cancel]
    BY <2>1 DEF SubRows
  <2>3. CASE e.kind = "updated"
    BY <1>1, <2>1, <2>3 DEF Handled
  <2>4. CASE e.kind # "updated"
    <3>1. PICK t, p : Handled(e, q) = [status |-> t, period |-> p, cancel |-> q.cancel]
                      /\ t \in {"active", "past_due", "canceled"} /\ p \in {q.period, e.is.period}
      BY <1>1, <1>3, <2>1, <2>2, <2>4 DEF Handled, EventKinds
    <3> QED
      BY <1>1, <2>1, <2>2, <3>1 DEF SubRows
  <2> QED
    BY <2>3, <2>4
<1> QED
  BY <1>2, <1>3

\* No handler takes a row away.
LEMMA HandledStays ==
  ASSUME BillingAssumption, NEW e \in SubEvents, NEW q \in SubRows
  PROVE  Handled(e, q) # None
<1>1. /\ e.is \in SubRows /\ e.kind \in EventKinds /\ q # None
      /\ q = [status |-> q.status, period |-> q.period, cancel |-> q.cancel]
  BY DEF SubEvents, SubRows, BillingAssumption
<1>2. PICK t, p, x : /\ Handled(e, q) = [status |-> t, period |-> p, cancel |-> x]
                     /\ t \in {"active", "past_due", "canceled"} /\ p \in {0, q.period, e.is.period}
                     /\ x \in {FALSE, q.cancel, e.is.cancel}
  <2>1. CASE e.kind = "checkout"
    BY <2>1 DEF Handled
  <2>2. CASE e.kind = "updated"
    <3>1. Handled(e, q) = e.is /\ e.is = [status |-> e.is.status, period |-> e.is.period, cancel |-> e.is.cancel]
      BY <1>1, <2>2 DEF Handled, SubRows
    <3> QED
      BY <1>1, <3>1 DEF SubRows
  <2>3. CASE e.kind = "paid"
    BY <1>1, <2>3 DEF Handled
  <2>4. CASE e.kind = "failed"
    BY <1>1, <2>4 DEF Handled
  <2>5. CASE e.kind = "deleted"
    BY <1>1, <2>5 DEF Handled
  <2> QED
    BY <1>1, <2>1, <2>2, <2>3, <2>4, <2>5 DEF EventKinds
<1>3. 0 \in 0..MaxPeriods + 1
  BY DEF BillingAssumption
<1>4. q.cancel \in BOOLEAN /\ e.is.cancel \in BOOLEAN /\ q.period \in 0..MaxPeriods + 1 /\ e.is.period \in 0..MaxPeriods + 1
  BY <1>1 DEF SubRows
<1>5. p \in 0..MaxPeriods + 1 /\ x \in BOOLEAN
  BY <1>2, <1>3, <1>4
<1>6. Handled(e, q) \in SubRows
  BY <1>2, <1>5 DEF SubRows
<1> QED
  BY <1>6 DEF BillingAssumption

LEMMA FitsApply ==
  ASSUME BillingAssumption, BillInv, NEW h \in BillingCalls, Apply(h), NEW u \in Subs
  PROVE  RowFits(u)'
<1>1. PICK i, c : i = call[h].id /\ c = Len(applied)
  OBVIOUS
<1>2. /\ i \in DOMAIN sent /\ sent' = sent /\ stripe' = stripe /\ applied' = Append(applied, i)
      /\ row' = [row EXCEPT ![sent[i].sub] = Handled(sent[i], @)]
  BY <1>1 DEF Apply, BillInv, CallFits
<1>3. /\ row = [v \in Subs |-> row[v]] /\ applied \in Seq(Nat)
      /\ \A j \in DOMAIN applied : applied[j] \in DOMAIN sent
      /\ sent \in Seq(SubEvents)
  BY DEF BillInv, BillShapes
<1>4. PICK n : n = Len(sent) /\ n \in Nat /\ DOMAIN sent = 1..n
  BY <1>3
<1>5. c \in Nat /\ DOMAIN applied = 1..c
  BY <1>1, <1>3
<1>6. /\ DOMAIN applied' = 1..(c + 1) /\ applied'[c + 1] = i
      /\ \A j \in 1..c : applied'[j] = applied[j]
  <2>1. i \in Nat
    BY <1>2, <1>4
  <2> QED
    BY <1>1, <1>2, <1>3, <1>5, <2>1
<1>7. \A j \in 1..c : j \in 1..(c + 1) /\ j < c + 1
  BY <1>5
<1>8. c + 1 \in 1..(c + 1) /\ \A j \in 1..(c + 1) : j \in 1..c \/ j = c + 1
  BY <1>5
<1>9. Told /\ RowFits(u) /\ None \notin SubRows
  BY DEF BillInv, BillingAssumption
<1>10. sent[i] \in SubEvents /\ sent[i].sub \in Subs /\ Says(sent[i])
  BY <1>2, <1>9 DEF Told, SubEvents
<1>11. CASE u # sent[i].sub
  <2>1. row'[u] = row[u]
    BY <1>2, <1>3, <1>11
  <2>2. InTurn(u)' => InTurn(u)
    <3>1. SUFFICES ASSUME InTurn(u)' PROVE InTurn(u)
      OBVIOUS
    <3>2. \A j, k \in 1..c :
            j < k /\ sent[applied[j]].sub = u /\ sent[applied[k]].sub = u => applied[j] < applied[k]
      BY <1>2, <1>6, <1>7, <3>1 DEF InTurn
    <3>3. ASSUME NEW d \in DOMAIN sent, NEW k \in 1..c, sent[d].sub = u, sent[applied[k]].sub = u, d < applied[k]
          PROVE  \E j \in 1..c : applied[j] = d
      <4>1. PICK j \in 1..(c + 1) : applied'[j] = d
        BY <1>2, <1>6, <1>7, <3>1, <3>3 DEF InTurn
      <4> QED
        BY <1>6, <1>8, <1>11, <3>3, <4>1
    <3> QED
      BY <1>5, <3>2, <3>3 DEF InTurn
  <2>3. ASSUME InTurn(u)', NEW j \in DOMAIN applied', Latest(j, u)' PROVE RowOf(sent'[applied'[j]], row'[u])
    <3>1. j \in 1..c
      BY <1>2, <1>6, <1>8, <1>11, <2>3 DEF Latest
    <3>2. Latest(j, u)
      BY <1>2, <1>5, <1>6, <1>7, <2>3, <3>1 DEF Latest
    <3> QED
      BY <1>2, <1>5, <1>6, <1>9, <2>1, <2>2, <2>3, <3>1, <3>2 DEF RowFits
  <2>4. \A j \in DOMAIN applied' : InTurn(u)' /\ Latest(j, u)' => RowOf(sent'[applied'[j]], row'[u])
    BY <2>3
  <2>5. row'[u] # None => row'[u] \in SubRows /\ stripe'[u] # None
    BY <1>2, <1>9, <2>1 DEF RowFits
  <2>6. row'[u] # None /\ row'[u].cancel => stripe'[u].cancel
    BY <1>2, <1>9, <2>1 DEF RowFits
  <2> QED
    BY <2>4, <2>5, <2>6 DEF RowFits, RowOf
<1>12. CASE u = sent[i].sub
  <2>1. PICK e, q : e = sent[i] /\ q = row[u]
    OBVIOUS
  <2>2. row'[u] = Handled(e, q)
    BY <1>2, <1>3, <1>12, <2>1
  <2>3. q # None => q \in SubRows /\ (q.cancel => stripe[u].cancel)
    BY <1>9, <2>1 DEF RowFits
  <2>4. stripe[u] # None /\ (e.is.cancel => stripe[u].cancel)
    BY <1>2, <1>9, <1>12, <2>1 DEF Told
  <2>5. row'[u] # None => row'[u] \in SubRows /\ stripe'[u] # None
    BY <1>2, <1>9, <1>10, <2>1, <2>2, <2>3, <2>4, HandledIs
  <2>6. row'[u] # None /\ row'[u].cancel => stripe'[u].cancel
    BY <1>2, <1>9, <1>10, <2>1, <2>2, <2>3, <2>4, HandledIs
  <2>7. ASSUME InTurn(u)', NEW t \in DOMAIN applied', Latest(t, u)' PROVE RowOf(sent'[applied'[t]], row'[u])
    <3>1. \A k \in 1..c : sent[applied[k]].sub = u => applied[k] < i
      <4>1. \A k \in 1..c : sent[applied'[k]].sub = u /\ sent[applied'[c + 1]].sub = u => applied'[k] < applied'[c + 1]
        BY <1>2, <1>6, <1>7, <1>8, <2>7 DEF InTurn
      <4> QED
        BY <1>6, <1>12, <4>1
    <3>2. applied'[t] = i
      <4>1. ~(t \in 1..c)
        <5>1. t \in 1..c => sent[applied[t]].sub = u /\ i <= applied[t]
          BY <1>2, <1>6, <1>8, <1>12, <2>7 DEF Latest
        <5>2. t \in 1..c => applied[t] \in Nat /\ i \in Nat
          BY <1>2, <1>3, <1>4, <1>5
        <5> QED
          BY <3>1, <5>1, <5>2
      <4> QED
        BY <1>6, <1>8, <2>7, <4>1
    <3>3. \A j, k \in 1..c :
            j < k /\ sent[applied[j]].sub = u /\ sent[applied[k]].sub = u => applied[j] < applied[k]
      BY <1>2, <1>6, <1>7, <2>7 DEF InTurn
    <3>4. ASSUME NEW d \in DOMAIN sent, NEW k \in 1..c, sent[d].sub = u, sent[applied[k]].sub = u, d < applied[k]
          PROVE  \E j \in 1..c : applied[j] = d
      <4>1. PICK j \in 1..(c + 1) : applied'[j] = d
        BY <1>2, <1>6, <1>7, <2>7, <3>4 DEF InTurn
      <4>2. d # i
        BY <1>2, <1>3, <1>4, <1>5, <3>1, <3>4
      <4> QED
        BY <1>6, <1>8, <4>1, <4>2
    <3>5. InTurn(u)
      BY <1>5, <3>3, <3>4 DEF InTurn
    <3>6. ASSUME NEW d \in DOMAIN sent, sent[d].sub = u, d < i
          PROVE  \E j \in 1..c : applied[j] = d
      <4>1. PICK j \in 1..(c + 1) : applied'[j] = d
        BY <1>2, <1>6, <1>8, <1>12, <2>7, <3>6 DEF InTurn
      <4> QED
        BY <1>2, <1>4, <1>6, <1>8, <3>6, <4>1
    <3>7. CASE \A k \in 1..c : sent[applied[k]].sub # u
      <4>1. \A k \in DOMAIN sent : sent[k].sub = sent[i].sub => i <= k
        BY <1>2, <1>4, <1>12, <3>6, <3>7
      <4>2. e.kind = "checkout"
        BY <1>2, <1>9, <2>1, <4>1 DEF Told
      <4>3. row'[u] = [status |-> "active", period |-> 0, cancel |-> FALSE]
        BY <2>2, <4>2 DEF Handled
      <4>4. row'[u] \in SubRows
        <5>1. 0 \in 0..MaxPeriods + 1
          BY DEF BillingAssumption
        <5> QED
          BY <4>3, <5>1 DEF SubRows
      <4> QED
        BY <1>2, <1>10, <2>1, <3>2, <4>2, <4>3, <4>4 DEF RowOf, Says
    <3>8. CASE \E k \in 1..c : sent[applied[k]].sub = u
      <4> DEFINE T == {applied[k] : k \in {k \in 1..c : sent[applied[k]].sub = u}}
      <4>1. T \in SUBSET (0..n) /\ T # {}
        BY <1>3, <1>4, <1>5, <3>8
      <4>2. PICK p \in T : \A k \in T : k <= p
        BY <1>4, <4>1, LastOf
      <4>3. PICK j \in 1..c : p = applied[j] /\ sent[p].sub = u
        BY <4>2
      <4>4. \A k \in 1..c : sent[applied[k]].sub = u => applied[k] <= p
        BY <4>2
      <4>5. Latest(j, u)
        BY <1>5, <4>3, <4>4 DEF Latest
      <4>6. RowOf(sent[p], row[u])
        BY <1>5, <1>9, <3>5, <4>3, <4>5 DEF RowFits
      <4>7. p < i /\ p \in DOMAIN sent
        BY <1>3, <1>5, <3>1, <4>3
      <4>8. \A k \in DOMAIN sent : sent[k].sub = u => k <= p \/ i <= k
        <5>1. SUFFICES ASSUME NEW k \in DOMAIN sent, sent[k].sub = u, ~(i <= k) PROVE k <= p
          OBVIOUS
        <5>2. k < i
          BY <1>2, <1>4, <5>1
        <5>3. PICK y \in 1..c : applied[y] = k
          BY <3>6, <5>1, <5>2
        <5> QED
          BY <4>4, <5>1, <5>3
      <4>9. Then(sent[p], e)
        BY <1>2, <1>9, <1>12, <2>1, <4>3, <4>7, <4>8 DEF Told
      <4>10. sent[p] \in SubEvents /\ Says(sent[p])
        BY <1>9, <4>7 DEF Told
      <4>11. RowOf(sent[p], q) /\ q \in SubRows /\ e.kind # "checkout"
        BY <2>1, <4>6, <4>9 DEF RowOf, Then
      <4>12. RowOf(e, Handled(e, q))
        BY <1>9, <1>10, <2>1, <4>9, <4>10, <4>11, HandledFits
      <4> QED
        BY <1>2, <2>1, <2>2, <3>2, <4>12
    <3> QED
      BY <3>7, <3>8
  <2>8. \A j \in DOMAIN applied' : InTurn(u)' /\ Latest(j, u)' => RowOf(sent'[applied'[j]], row'[u])
    BY <2>7
  <2> QED
    BY <2>5, <2>6, <2>8 DEF RowFits, RowOf
<1> QED
  BY <1>11, <1>12

LEMMA OneEvent ==
  ASSUME BillingAssumption, NEW k \in EventKinds, NEW s \in Subs, NEW r \in SubRows, NEW es, es = <<Event(k, s, r)>>
  PROVE  /\ es \in Seq(SubEvents) /\ Len(es) = 1
         /\ es[1].kind = k /\ es[1].sub = s /\ es[1].is = r
<1>1. Event(k, s, r) \in SubEvents /\ Event(k, s, r).kind = k /\ Event(k, s, r).sub = s /\ Event(k, s, r).is = r
  BY DEF Event, SubEvents
<1> QED
  BY <1>1

LEMMA TwoEvents ==
  ASSUME BillingAssumption, NEW k \in EventKinds, NEW l \in EventKinds, NEW s \in Subs, NEW r \in SubRows,
         NEW es, es = <<Event(k, s, r), Event(l, s, r)>>
  PROVE  /\ es \in Seq(SubEvents) /\ Len(es) = 2
         /\ es[1].kind = k /\ es[1].sub = s /\ es[1].is = r
         /\ es[2].kind = l /\ es[2].sub = s /\ es[2].is = r
<1>1. \A x \in {k, l} : Event(x, s, r) \in SubEvents /\ Event(x, s, r).kind = x
                        /\ Event(x, s, r).sub = s /\ Event(x, s, r).is = r
  BY DEF Event, SubEvents
<1> QED
  BY <1>1

LEMMA CallsFit ==
  ASSUME BillingAssumption, BillInv, UNCHANGED <<row, call>>, DOMAIN sent \subseteq DOMAIN sent',
         \A u \in Subs : stripe[u] # None => stripe'[u] # None /\ (stripe[u].cancel => stripe'[u].cancel),
         NEW h \in BillingCalls
  PROVE  CallFits(h)'
<1>1. CallFits(h) /\ \A u \in Subs : row[u] # None => stripe[u] # None
  BY DEF BillInv, RowFits
<1> QED
  BY <1>1 DEF CallFits

\* An event of Stripe's, or two, keep what holds as long as no call moves.
LEMMA StripeSends ==
  ASSUME BillingAssumption, BillInv, NEW s \in Subs, NEW r \in SubRows, NEW es, NEW n, NEW m,
         Sends(s, r, es, n, m), UNCHANGED <<clock, row, applied, call>>
  PROVE  BillInv'
<1>1. BillShapes /\ Told /\ \A u \in Subs : RowFits(u)
  BY DEF BillInv
<1>2. Told'
  BY <1>1, ToldNext
<1>3. \A u \in Subs : RowFits(u)'
  BY <1>1, FitsNext
<1>4. \A u \in Subs : stripe[u] # None => stripe'[u] # None /\ (stripe[u].cancel => stripe'[u].cancel)
  BY <1>1, StripeKeeps
<1>5. DOMAIN sent \subseteq DOMAIN sent'
  BY <1>1, EventsAre
<1>6. \A h \in BillingCalls : CallFits(h)'
  BY <1>4, <1>5, CallsFit
<1>7. sent' \in Seq(SubEvents) /\ outbox' \subseteq DOMAIN sent'
  BY <1>1, SentIs DEF Sends
<1>8. stripe' \in [Subs -> SubRows \cup {None}]
  BY <1>1 DEF BillShapes, Sends
<1>9. BillShapes'
  BY <1>1, <1>5, <1>7, <1>8 DEF BillShapes
<1> QED
  BY <1>2, <1>3, <1>6, <1>9 DEF BillInv

\* A step of no subscription's events, row or handler keeps what holds of them.
LEMMA StillFits ==
  ASSUME BillInv, UNCHANGED <<stripe, sent, row, applied>>
  PROVE  Told' /\ \A s \in Subs : RowFits(s)'
BY DEF BillInv, Told, RowFits, InTurn, Latest, RowOf, Says, Then

LEMMA BillInvStart == ASSUME BillingAssumption PROVE BillingInit => BillInv
<1> SUFFICES ASSUME BillingInit PROVE BillInv
  OBVIOUS
<1>1. /\ stripe = [s \in Subs |-> None] /\ row = [s \in Subs |-> None] /\ sent = <<>> /\ applied = <<>>
      /\ clock = 0 /\ outbox = {} /\ call = [h \in BillingCalls |-> NoCall]
  BY DEF BillingInit
<1>2. DOMAIN sent = {} /\ DOMAIN applied = {} /\ sent \in Seq(SubEvents) /\ applied \in Seq(Nat)
  BY <1>1
<1>3. BillShapes
  BY <1>1, <1>2 DEF BillShapes, BillingAssumption, NoCall
<1>4. Told
  BY <1>1, <1>2 DEF Told
<1>5. \A s \in Subs : RowFits(s)
  BY <1>1, <1>2 DEF RowFits
<1>6. \A h \in BillingCalls : CallFits(h)
  BY <1>1 DEF CallFits, NoCall
<1> QED
  BY <1>3, <1>4, <1>5, <1>6 DEF BillInv

LEMMA BillInvStep == ASSUME BillingAssumption, BillInv, [BillingNext]_billingVars PROVE BillInv'
<1>0. BillShapes /\ Told /\ (\A s \in Subs : RowFits(s)) /\ (\A h \in BillingCalls : CallFits(h))
  BY DEF BillInv
<1>1. ASSUME NEW s \in Subs, Checkout(s) PROVE BillInv'
  <2>1. PICK r : r = [status |-> "active", period |-> clock + 1, cancel |-> FALSE]
    OBVIOUS
  <2>2. PICK es : es = <<Event("checkout", s, r), Event("paid", s, r)>>
    OBVIOUS
  <2>3. clock + 1 \in 0..MaxPeriods + 1
    BY <1>0 DEF BillShapes, BillingAssumption
  <2>4. r \in SubRows
    BY <2>1, <2>3 DEF SubRows
  <2>5. /\ es \in Seq(SubEvents) /\ Len(es) = 2
        /\ es[1].kind = "checkout" /\ es[1].sub = s /\ es[1].is = r
        /\ es[2].kind = "paid" /\ es[2].sub = s /\ es[2].is = r
    BY <2>2, <2>4, TwoEvents DEF EventKinds
  <2>6. Emit(es) /\ stripe' = [stripe EXCEPT ![s] = r] /\ stripe[s] = None /\ UNCHANGED <<clock, row, applied, call>>
    BY <1>1, <2>1, <2>2 DEF Checkout
  <2>7. Sends(s, r, es, Len(sent), 2)
    BY <2>1, <2>5, <2>6 DEF Sends, Says
  <2> QED
    BY <2>4, <2>6, <2>7, StripeSends
<1>2. ASSUME NEW s \in Subs, Renew(s) PROVE BillInv'
  <2>1. PICK r : r = [stripe[s] EXCEPT !.status = "active", !.period = clock + 1]
    OBVIOUS
  <2>2. PICK es : es = <<Event("updated", s, r), Event("paid", s, r)>>
    OBVIOUS
  <2>3. clock + 1 \in 0..MaxPeriods + 1 /\ stripe[s] # None /\ ~stripe[s].cancel /\ stripe[s] \in SubRows
    BY <1>0, <1>2 DEF BillShapes, BillingAssumption, Renew
  <2>4. r = [status |-> "active", period |-> clock + 1, cancel |-> stripe[s].cancel] /\ r \in SubRows
    BY <2>1, <2>3 DEF SubRows
  <2>5. /\ es \in Seq(SubEvents) /\ Len(es) = 2
        /\ es[1].kind = "updated" /\ es[1].sub = s /\ es[1].is = r
        /\ es[2].kind = "paid" /\ es[2].sub = s /\ es[2].is = r
    BY <2>2, <2>4, TwoEvents DEF EventKinds
  <2>6. Emit(es) /\ stripe' = [stripe EXCEPT ![s] = r] /\ UNCHANGED <<clock, row, applied, call>>
    BY <1>2, <2>1, <2>2 DEF Renew, Becomes
  <2>7. Sends(s, r, es, Len(sent), 2)
    BY <2>3, <2>4, <2>5, <2>6 DEF Sends, Says
  <2> QED
    BY <2>4, <2>6, <2>7, StripeSends
<1>3. ASSUME NEW s \in Subs, PaymentFails(s) PROVE BillInv'
  <2>1. PICK r : r = [stripe[s] EXCEPT !.status = "past_due"]
    OBVIOUS
  <2>2. PICK es : es = <<Event("failed", s, r), Event("updated", s, r)>>
    OBVIOUS
  <2>3. stripe[s] # None /\ stripe[s] \in SubRows
    BY <1>0, <1>3 DEF BillShapes, PaymentFails
  <2>4. r = [status |-> "past_due", period |-> stripe[s].period, cancel |-> stripe[s].cancel] /\ r \in SubRows
    BY <2>1, <2>3 DEF SubRows
  <2>5. /\ es \in Seq(SubEvents) /\ Len(es) = 2
        /\ es[1].kind = "failed" /\ es[1].sub = s /\ es[1].is = r
        /\ es[2].kind = "updated" /\ es[2].sub = s /\ es[2].is = r
    BY <2>2, <2>4, TwoEvents DEF EventKinds
  <2>6. Emit(es) /\ stripe' = [stripe EXCEPT ![s] = r] /\ UNCHANGED <<clock, row, applied, call>>
    BY <1>3, <2>1, <2>2 DEF PaymentFails, Becomes
  <2>7. Sends(s, r, es, Len(sent), 2)
    BY <2>3, <2>4, <2>5, <2>6 DEF Sends, Says
  <2> QED
    BY <2>4, <2>6, <2>7, StripeSends
<1>4. ASSUME NEW s \in Subs, Ends(s) PROVE BillInv'
  <2>1. PICK r : r = [stripe[s] EXCEPT !.status = "canceled"]
    OBVIOUS
  <2>2. PICK es : es = <<Event("deleted", s, r)>>
    OBVIOUS
  <2>3. stripe[s] # None /\ stripe[s] \in SubRows
    BY <1>0, <1>4 DEF BillShapes, Ends
  <2>4. r = [status |-> "canceled", period |-> stripe[s].period, cancel |-> stripe[s].cancel] /\ r \in SubRows
    BY <2>1, <2>3 DEF SubRows
  <2>5. es \in Seq(SubEvents) /\ Len(es) = 1 /\ es[1].kind = "deleted" /\ es[1].sub = s /\ es[1].is = r
    BY <2>2, <2>4, OneEvent DEF EventKinds
  <2>6. Emit(es) /\ stripe' = [stripe EXCEPT ![s] = r] /\ UNCHANGED <<clock, row, applied, call>>
    BY <1>4, <2>1, <2>2 DEF Ends, Becomes
  <2>7. Sends(s, r, es, Len(sent), 1)
    BY <2>3, <2>4, <2>5, <2>6 DEF Sends, Says
  <2> QED
    BY <2>4, <2>6, <2>7, StripeSends
<1>5. CASE PeriodPasses
  <2>1. Told' /\ \A s \in Subs : RowFits(s)'
    BY <1>5, StillFits DEF PeriodPasses
  <2>2. clock' \in 0..MaxPeriods
    BY <1>0, <1>5 DEF PeriodPasses, BillShapes, BillingAssumption
  <2>3. BillShapes'
    BY <1>0, <1>5, <2>2 DEF PeriodPasses, BillShapes
  <2>4. \A h \in BillingCalls : CallFits(h)'
    BY <1>0, <1>5 DEF PeriodPasses, CallFits
  <2> QED
    BY <2>1, <2>3, <2>4 DEF BillInv
<1>6. ASSUME NEW i \in Ids, Redeliver(i) PROVE BillInv'
  <2>1. Told' /\ \A s \in Subs : RowFits(s)'
    BY <1>6, StillFits DEF Redeliver
  <2>2. i \in DOMAIN sent
    BY <1>0, <1>6 DEF Redeliver, BillShapes
  <2>3. BillShapes'
    BY <1>0, <1>6, <2>2 DEF Redeliver, BillShapes
  <2>4. \A h \in BillingCalls : CallFits(h)'
    BY <1>0, <1>6 DEF Redeliver, CallFits
  <2> QED
    BY <2>1, <2>3, <2>4 DEF BillInv
<1>7. ASSUME NEW h \in BillingCalls, NEW i \in Ids, Receive(h, i) PROVE BillInv'
  <2>1. Told' /\ \A s \in Subs : RowFits(s)'
    BY <1>7, StillFits DEF Receive
  <2>2. i \in DOMAIN sent
    BY <1>0, <1>7 DEF Receive, BillShapes
  <2>3. PICK k : k = [step |-> "apply", id |-> i, sub |-> None]
    OBVIOUS
  <2>4. call' = [call EXCEPT ![h] = k]
    BY <1>7, <2>3 DEF Receive
  <2>5. outbox' \subseteq DOMAIN sent /\ UNCHANGED <<stripe, clock, sent, row, applied>>
    BY <1>0, <1>7 DEF Receive, BillShapes
  <2>6. \A g \in BillingCalls : call'[g] = call[g] \/ call'[g] = k
    BY <1>0, <2>4 DEF BillShapes
  <2>7. \A g \in BillingCalls : CallFits(g)'
    BY <1>0, <2>2, <2>3, <2>5, <2>6 DEF CallFits
  <2>8. BillShapes'
    BY <1>0, <2>3, <2>4, <2>5, <2>6 DEF BillShapes
  <2> QED
    BY <2>1, <2>7, <2>8 DEF BillInv
<1>8. ASSUME NEW h \in BillingCalls, Apply(h) PROVE BillInv'
  <2>1. \A s \in Subs : RowFits(s)'
    BY <1>8, FitsApply
  <2>2. PICK i : i = call[h].id
    OBVIOUS
  <2>3. /\ i \in DOMAIN sent /\ applied' = Append(applied, i) /\ UNCHANGED <<stripe, clock, sent>>
        /\ row' = [row EXCEPT ![sent[i].sub] = Handled(sent[i], @)] /\ outbox' = outbox \ {i}
        /\ call' = [call EXCEPT ![h] = NoCall]
    BY <1>0, <1>8, <2>2 DEF Apply, CallFits
  <2>4. Told'
    BY <1>0, <2>3 DEF Told
  <2>5. /\ i \in Nat
        /\ row = [s \in Subs |-> row[s]] /\ applied \in Seq(Nat)
        /\ \A j \in DOMAIN applied : applied[j] \in DOMAIN sent
    BY <1>0, <2>3 DEF BillShapes
  <2>6. applied' \in Seq(Nat) /\ \A j \in DOMAIN applied' : applied'[j] \in DOMAIN sent
    BY <2>3, <2>5
  <2>7. \A g \in BillingCalls : call'[g] = IF g = h THEN NoCall ELSE call[g]
    BY <1>0, <2>3 DEF BillShapes
  <2>8. BillShapes'
    BY <1>0, <2>3, <2>5, <2>6, <2>7 DEF BillShapes, NoCall
  <2>9. \A s \in Subs : row[s] # None => row'[s] # None
    <3>1. sent[i] \in SubEvents /\ \A s \in Subs : row[s] # None => row[s] \in SubRows
      BY <1>0, <2>3 DEF Told, RowFits
    <3> QED
      BY <2>3, <2>5, <3>1, HandledStays
  <2>10. \A g \in BillingCalls : CallFits(g)'
    BY <1>0, <2>3, <2>7, <2>9 DEF CallFits, NoCall
  <2> QED
    BY <2>1, <2>4, <2>8, <2>10 DEF BillInv
<1>9. ASSUME NEW h \in BillingCalls, NEW s \in Subs, CancelLoad(h, s) PROVE BillInv'
  <2>1. Told' /\ \A u \in Subs : RowFits(u)'
    BY <1>9, StillFits DEF CancelLoad
  <2>2. PICK k : k = [step |-> "cancelStripe", id |-> 0, sub |-> s]
    OBVIOUS
  <2>3. call' = [call EXCEPT ![h] = k] /\ row[s] # None /\ UNCHANGED <<stripe, clock, sent, outbox, row, applied>>
    BY <1>9, <2>2 DEF CancelLoad
  <2>4. \A g \in BillingCalls : call'[g] = IF g = h THEN k ELSE call[g]
    BY <1>0, <2>3 DEF BillShapes
  <2>5. \A g \in BillingCalls : CallFits(g)'
    BY <1>0, <2>2, <2>3, <2>4 DEF CallFits
  <2>6. BillShapes'
    BY <1>0, <2>2, <2>3, <2>4 DEF BillShapes
  <2> QED
    BY <2>1, <2>5, <2>6 DEF BillInv
<1>10. ASSUME NEW h \in BillingCalls, CancelStripe(h) PROVE BillInv'
  <2>1. PICK s, i : s = call[h].sub /\ i = call[h].id
    OBVIOUS
  <2>2. PICK r : r = [stripe[s] EXCEPT !.cancel = TRUE]
    OBVIOUS
  <2>3. s \in Subs /\ row[s] # None /\ stripe[s] # None /\ stripe[s] \in SubRows
    BY <1>0, <1>10, <2>1 DEF CancelStripe, CallFits, RowFits, BillShapes
  <2>4. r = [status |-> stripe[s].status, period |-> stripe[s].period, cancel |-> TRUE] /\ r \in SubRows
    BY <2>2, <2>3 DEF SubRows
  <2>5. PICK k : k = [step |-> "cancelRow", id |-> i, sub |-> s]
    OBVIOUS
  <2>6. /\ call = [g \in BillingCalls |-> call[g]] /\ call[h] = [step |-> call[h].step, id |-> i, sub |-> s]
        /\ stripe = [u \in Subs |-> stripe[u]]
    BY <1>0, <2>1 DEF BillShapes
  <2>7. CASE call' = [call EXCEPT ![h] = NoCall] /\ UNCHANGED <<stripe, sent, outbox>>
    <3>1. UNCHANGED <<clock, row, applied>>
      BY <1>10 DEF CancelStripe
    <3>2. Told' /\ \A u \in Subs : RowFits(u)'
      BY <2>7, <3>1, StillFits
    <3>3. \A g \in BillingCalls : call'[g] = IF g = h THEN NoCall ELSE call[g]
      BY <2>6, <2>7
    <3>4. \A g \in BillingCalls : CallFits(g)'
      BY <1>0, <2>7, <3>1, <3>3 DEF CallFits, NoCall
    <3>5. BillShapes'
      BY <1>0, <2>7, <3>1, <3>3 DEF BillShapes, NoCall
    <3> QED
      BY <3>2, <3>4, <3>5 DEF BillInv
  <2>8. CASE /\ stripe' = [stripe EXCEPT ![s] = r]
             /\ IF r = stripe[s] THEN UNCHANGED <<sent, outbox>> ELSE Emit(<<Event("updated", s, r)>>)
             /\ call' = [call EXCEPT ![h].step = "cancelRow"]
    <3>1. UNCHANGED <<clock, row, applied>>
      BY <1>10 DEF CancelStripe
    <3>2. call' = [call EXCEPT ![h] = k]
      <4>1. k = [call[h] EXCEPT !.step = "cancelRow"]
        BY <2>5, <2>6
      <4> QED
        BY <2>8, <4>1
    <3>3. \A g \in BillingCalls : call'[g] = IF g = h THEN k ELSE call[g]
      BY <2>6, <3>2
    <3>4. stripe'[s].cancel /\ \A u \in Subs : stripe[u] # None => stripe'[u] # None /\ (stripe[u].cancel => stripe'[u].cancel)
      <4>1. r # None /\ r.cancel
        BY <2>4 DEF BillingAssumption
      <4>2. \A u \in Subs : stripe'[u] = IF u = s THEN r ELSE stripe[u]
        BY <2>3, <2>6, <2>8
      <4> QED
        BY <2>3, <4>1, <4>2
    <3>5. ASSUME Told', \A u \in Subs : RowFits(u)', sent' \in Seq(SubEvents), outbox' \subseteq DOMAIN sent',
                 DOMAIN sent \subseteq DOMAIN sent'
          PROVE  BillInv'
      <4>1. \A g \in BillingCalls : CallFits(g)'
        BY <1>0, <2>3, <2>5, <3>1, <3>3, <3>4, <3>5 DEF CallFits, RowFits
      <4>2. stripe' \in [Subs -> SubRows \cup {None}]
        BY <1>0, <2>4, <2>8 DEF BillShapes
      <4>3. BillShapes'
        BY <1>0, <2>5, <3>1, <3>2, <3>3, <3>5, <4>2 DEF BillShapes
      <4> QED
        BY <3>5, <4>1, <4>3 DEF BillInv
    <3>6. CASE r = stripe[s]
      <4>1. UNCHANGED <<stripe, sent, outbox>>
        BY <2>6, <2>8, <3>6
      <4>2. Told' /\ \A u \in Subs : RowFits(u)'
        BY <3>1, <4>1, StillFits
      <4>3. sent \in Seq(SubEvents) /\ outbox \subseteq DOMAIN sent
        BY <1>0 DEF BillShapes
      <4> QED
        BY <3>5, <4>1, <4>2, <4>3
    <3>7. CASE r # stripe[s]
      <4>1. PICK es : es = <<Event("updated", s, r)>>
        OBVIOUS
      <4>2. es \in Seq(SubEvents) /\ Len(es) = 1 /\ es[1].kind = "updated" /\ es[1].sub = s /\ es[1].is = r
        BY <2>3, <2>4, <4>1, OneEvent DEF EventKinds
      <4>3. Sends(s, r, es, Len(sent), 1)
        <5>1. Emit(es) /\ stripe' = [stripe EXCEPT ![s] = r] /\ r.cancel
          BY <2>4, <2>8, <3>7, <4>1
        <5> QED
          BY <2>3, <4>2, <5>1 DEF Sends, Says
      <4>4. Told'
        BY <1>0, <2>3, <2>4, <4>3, ToldNext
      <4>5. \A u \in Subs : RowFits(u)'
        BY <1>0, <2>3, <2>4, <3>1, <4>3, FitsNext
      <4>6. sent' \in Seq(SubEvents) /\ outbox' \subseteq DOMAIN sent' /\ DOMAIN sent \subseteq DOMAIN sent'
        <5>1. Emit(es)
          BY <4>3 DEF Sends
        <5>2. /\ sent' \in Seq(SubEvents) /\ outbox' \subseteq DOMAIN sent'
              /\ Len(sent) \in Nat /\ DOMAIN sent = 1..Len(sent) /\ DOMAIN sent' = 1..(Len(sent) + 1)
          BY <1>0, <4>2, <5>1, SentIs
        <5> QED
          BY <5>2
      <4> QED
        BY <3>5, <4>4, <4>5, <4>6
    <3> QED
      BY <3>6, <3>7
  <2> QED
    BY <1>10, <2>1, <2>2, <2>7, <2>8 DEF CancelStripe
<1>11. ASSUME NEW h \in BillingCalls, CancelRow(h) PROVE BillInv'
  <2>1. PICK s : s = call[h].sub
    OBVIOUS
  <2>2. s \in Subs /\ row[s] # None /\ stripe[s].cancel /\ row[s] \in SubRows /\ stripe[s] # None
    BY <1>0, <1>11, <2>1 DEF CancelRow, CallFits, RowFits
  <2>3. PICK q : q = [row[s] EXCEPT !.cancel = TRUE]
    OBVIOUS
  <2>4. /\ row' = [row EXCEPT ![s].cancel = TRUE] /\ call' = [call EXCEPT ![h] = NoCall]
        /\ UNCHANGED <<stripe, clock, sent, outbox, applied>>
    BY <1>11, <2>1 DEF CancelRow
  <2>5. row = [u \in Subs |-> row[u]] /\ call = [g \in BillingCalls |-> call[g]]
    BY <1>0 DEF BillShapes
  <2>6. /\ q = [status |-> row[s].status, period |-> row[s].period, cancel |-> TRUE]
        /\ q \in SubRows /\ q # None
    <3>1. q = [status |-> row[s].status, period |-> row[s].period, cancel |-> TRUE] /\ q \in SubRows
      BY <2>2, <2>3 DEF SubRows
    <3> QED
      BY <3>1 DEF BillingAssumption
  <2>7. row' = [row EXCEPT ![s] = q] /\ \A u \in Subs : row'[u] = IF u = s THEN q ELSE row[u]
    BY <2>2, <2>3, <2>4, <2>5
  <2>8. \A g \in BillingCalls : call'[g] = IF g = h THEN NoCall ELSE call[g]
    BY <2>4, <2>5
  <2>9. Told'
    BY <1>0, <2>4 DEF Told
  <2>10. ASSUME NEW u \in Subs PROVE RowFits(u)'
    <3>1. (InTurn(u)' <=> InTurn(u)) /\ \A j \in DOMAIN applied : Latest(j, u)' <=> Latest(j, u)
      BY <2>4 DEF InTurn, Latest
    <3>2. RowFits(u)
      BY <1>0
    <3>3. CASE u # s
      <4>1. row'[u] = row[u]
        BY <2>7, <3>3
      <4> QED
        BY <2>4, <3>1, <3>2, <4>1 DEF RowFits, RowOf
    <3>4. CASE u = s
      <4>1. row'[u] = q /\ q.cancel
        BY <2>6, <2>7, <3>4
      <4>2. \A e : RowOf(e, row[s]) => RowOf(e, q)
        BY <2>2, <2>6 DEF RowOf
      <4>3. row'[u] # None => row'[u] \in SubRows /\ stripe'[u] # None
        BY <2>2, <2>4, <2>6, <3>4, <4>1
      <4>4. row'[u] # None /\ row'[u].cancel => stripe'[u].cancel
        BY <2>2, <2>4, <3>4
      <4>5. ASSUME InTurn(u)', NEW j \in DOMAIN applied', Latest(j, u)' PROVE RowOf(sent'[applied'[j]], row'[u])
        <5>1. RowOf(sent[applied[j]], row[s])
          BY <2>4, <3>1, <3>2, <3>4, <4>5 DEF RowFits
        <5> QED
          BY <2>4, <4>1, <4>2, <5>1
      <4>6. \A j \in DOMAIN applied' : InTurn(u)' /\ Latest(j, u)' => RowOf(sent'[applied'[j]], row'[u])
        BY <4>5
      <4> QED
        BY <4>3, <4>4, <4>6 DEF RowFits, RowOf
    <3> QED
      BY <3>3, <3>4
  <2>11. \A g \in BillingCalls : CallFits(g)'
    BY <1>0, <2>2, <2>4, <2>6, <2>7, <2>8 DEF CallFits, NoCall
  <2>12. BillShapes'
    BY <1>0, <2>4, <2>7, <2>8 DEF BillShapes, NoCall
  <2> QED
    BY <2>9, <2>10, <2>11, <2>12 DEF BillInv
<1>12. ASSUME NEW h \in BillingCalls, CallDies(h) PROVE BillInv'
  <2>1. Told' /\ \A s \in Subs : RowFits(s)'
    BY <1>12, StillFits DEF CallDies
  <2>2. call' = [call EXCEPT ![h] = NoCall] /\ UNCHANGED <<stripe, clock, sent, outbox, row, applied>>
    BY <1>12 DEF CallDies
  <2>3. \A g \in BillingCalls : call'[g] = IF g = h THEN NoCall ELSE call[g]
    BY <1>0, <2>2 DEF BillShapes
  <2>4. \A g \in BillingCalls : CallFits(g)'
    BY <1>0, <2>2, <2>3 DEF CallFits, NoCall
  <2>5. BillShapes'
    BY <1>0, <2>2, <2>3 DEF BillShapes, NoCall
  <2> QED
    BY <2>1, <2>4, <2>5 DEF BillInv
<1>13. CASE UNCHANGED billingVars
  <2>1. Told' /\ \A s \in Subs : RowFits(s)'
    BY <1>13, StillFits DEF billingVars
  <2>2. BillShapes' /\ \A h \in BillingCalls : CallFits(h)'
    BY <1>0, <1>13 DEF billingVars, BillShapes, CallFits
  <2> QED
    BY <2>1, <2>2 DEF BillInv
<1> QED
  BY <1>1, <1>2, <1>3, <1>4, <1>5, <1>6, <1>7, <1>8, <1>9, <1>10, <1>11, <1>12, <1>13
  DEF BillingNext, StripeNext, Webhook, Cancel

LEMMA BillHolds == ASSUME BillingAssumption PROVE BillingSpec => []BillInv
BY BillInvStart, BillInvStep, PTL DEF BillingSpec

LEMMA RowIsStripe == ASSUME BillingAssumption, BillInv PROVE RowMirrorsStripe
<1> SUFFICES ASSUME NEW s \in Subs, InStep(s) PROVE row[s] = stripe[s]
  BY DEF RowMirrorsStripe
<1>1. /\ BillShapes /\ Told /\ RowFits(s)
  BY DEF BillInv
<1>2. PICK n, c : n = Len(sent) /\ c = Len(applied)
  OBVIOUS
<1>3. /\ n \in Nat /\ DOMAIN sent = 1..n /\ c \in Nat /\ DOMAIN applied = 1..c
      /\ \A j \in 1..c : applied[j] \in 1..n
  BY <1>1, <1>2 DEF BillShapes
<1>4. \A i \in 1..n : sent[i].sub = s => \E j \in 1..c : applied[j] = i
  BY <1>2 DEF InStep, EventsOf
<1>5. \A j, k \in 1..c :
        j < k /\ sent[applied[j]].sub = s /\ sent[applied[k]].sub = s => applied[j] < applied[k]
  BY <1>2, <1>3 DEF InStep, EventsOf
<1>6. InTurn(s)
  BY <1>3, <1>4, <1>5 DEF InTurn
<1>7. CASE \A i \in 1..n : sent[i].sub # s
  BY <1>1, <1>3, <1>7 DEF Told, RowFits
<1>8. CASE \E i \in 1..n : sent[i].sub = s
  <2> DEFINE T == {i \in 1..n : sent[i].sub = s}
  <2>1. T \in SUBSET (0..n) /\ T # {}
    BY <1>3, <1>8
  <2>2. PICK p \in T : \A k \in T : k <= p
    BY <1>3, <2>1, LastOf
  <2>3. p \in 1..n /\ sent[p].sub = s /\ \A k \in 1..n : sent[k].sub = s => k <= p
    BY <2>2
  <2>4. sent[p].is = stripe[s] /\ sent[p].kind # "checkout"
    BY <1>1, <1>3, <2>3 DEF Told
  <2>5. PICK j \in 1..c : applied[j] = p
    BY <1>4, <2>3
  <2>6. Latest(j, s)
    BY <1>3, <2>3, <2>5 DEF Latest
  <2>7. RowOf(sent[p], row[s])
    BY <1>1, <1>3, <1>6, <2>5, <2>6 DEF RowFits
  <2>8. stripe[s] \in SubRows
    BY <1>1, <1>3, <2>3, <2>4 DEF Told, SubEvents
  <2>9. /\ row[s] \in SubRows /\ row[s].status = stripe[s].status /\ row[s].period = stripe[s].period
        /\ stripe[s].cancel => row[s].cancel
    BY <2>4, <2>7 DEF RowOf
  <2>10. row[s].cancel => stripe[s].cancel
    BY <1>1, <2>9 DEF RowFits, BillingAssumption
  <2>11. row[s].cancel \in BOOLEAN /\ stripe[s].cancel \in BOOLEAN
    BY <2>8, <2>9 DEF SubRows
  <2>12. row[s].cancel = stripe[s].cancel
    BY <2>9, <2>10, <2>11
  <2>13. /\ row[s] = [status |-> row[s].status, period |-> row[s].period, cancel |-> row[s].cancel]
         /\ stripe[s] = [status |-> stripe[s].status, period |-> stripe[s].period, cancel |-> stripe[s].cancel]
    BY <2>8, <2>9 DEF SubRows
  <2> QED
    BY <2>9, <2>12, <2>13
<1> QED
  BY <1>7, <1>8

LEMMA PaidOpens == ASSUME RowMirrorsStripe PROVE AccessFollowsPayment
<1> SUFFICES ASSUME \A s \in Subs : InStep(s), NEW u \in Users \ Insiders, NEW c \in Creators
             PROVE  HasContentAccess(u, c) <=>
                        \E s \in Subs :
                            /\ OwnerOf[s] = u /\ c \in Covers[s] /\ stripe[s] # None
                            /\ \/ stripe[s].status = "active"
                               \/ (stripe[s].status = "canceled" /\ stripe[s].period > clock)
  BY DEF AccessFollowsPayment
<1>1. \A s \in Subs : row[s] = stripe[s]
  BY DEF RowMirrorsStripe
<1> QED
  BY <1>1 DEF HasContentAccess, Effective

\* However often and in whatever order Stripe delivers, with calls that overlap, die and
\* are made again: a subscription whose events were handled in turn has in the row
\* exactly what Stripe holds, and POST /cancel never makes it say something else.
THEOREM RowsMirror == ASSUME BillingAssumption PROVE BillingSpec => []RowMirrorsStripe
BY BillHolds, RowIsStripe, PTL

\* Gated content is open to who pays for it, and to nobody else but insiders, as soon
\* as the events were handled in turn.
THEOREM PaymentOpens == ASSUME BillingAssumption PROVE BillingSpec => []AccessFollowsPayment
BY BillHolds, RowIsStripe, PaidOpens, PTL
=============================================================================
