---------------------------- MODULE Subscriptions ----------------------------
(***************************************************************************)
(* Paid subscriptions: Stripe holds the subscription, its webhooks drive   *)
(* user_subscriptions, and that row opens gated content                    *)
(* (routes/webhook.routes.ts, routes/subscription.routes.ts,               *)
(* services/stripe.ts, services/content-access.ts).                        *)
(*                                                                         *)
(* Stripe delivers at least once and in no order: an event stays in the    *)
(* outbox until a delivery of it is answered with 200, and a delivery may  *)
(* start while another one of the same event still runs.  A delivery that  *)
(* is answered with another status changes nothing and is no step.         *)
(***************************************************************************)
EXTENDS ApiCalls, Naturals, Sequences, SequencesExt, FiniteSets

CONSTANTS
    BillingCalls, \* slots for webhook deliveries and cancel calls in flight
    Subs,       \* Stripe subscriptions, one for each checkout that is paid
    Users,
    Creators,
    OwnerOf,    \* the user in a subscription's checkout metadata
    Covers,     \* the creators its plan opens: one of them, or all of them
    Insiders,   \* users with the stakeholder role or on some creator's team
    MaxEvents,  \* bound: events that Stripe ever sends
    MaxPeriods, \* bound: billing periods that pass
    BillingFaults

SubRows == [status: {"active", "past_due", "canceled"},
            period: 0..MaxPeriods + 1, cancel: BOOLEAN]

ASSUME BillingAssumption ==
    /\ BillingCalls # {}
    /\ OwnerOf \in [Subs -> Users]
    /\ Covers \in [Subs -> SUBSET Creators]
    /\ Insiders \subseteq Users
    /\ MaxEvents \in Nat
    /\ MaxPeriods \in Nat
    /\ None \notin Subs \cup SubRows
    /\ BillingFaults \subseteq {"crash", "duplicate"}

VARIABLES
    stripe,    \* Stripe: status, end of the paid period, cancel_at_period_end
    clock,     \* billing periods gone by
    sent,      \* the events Stripe has made, in order: an id is an index
    outbox,    \* ids whose delivery no 200 has answered yet
    recorded,  \* payment_events
    row,       \* user_subscriptions: None, or status, period end and flag
    applied,   \* history: the ids whose handler ran, in that order
    died,      \* history: the ids whose handler died after the id was recorded
    call,      \* the webhook delivery or cancel call in each slot
    repeated   \* whether the one repeated delivery has happened

billingVars == <<stripe, clock, sent, outbox, recorded, row, applied, died, call, repeated>>

Ids       == 1..MaxEvents
EventKinds     == {"checkout", "paid", "failed", "updated", "deleted"}
SubEvents == [kind: EventKinds, sub: Subs, is: SubRows]
NoCall    == [step |-> "idle", id |-> 0, sub |-> None]

\* Stripe makes the events of es, in this order.
Emit(es) ==
    /\ Len(sent) + Len(es) <= MaxEvents
    /\ sent' = sent \o es
    /\ outbox' = outbox \cup (Len(sent) + 1 .. Len(sent) + Len(es))

Event(k, s, r) == [kind |-> k, sub |-> s, is |-> r]

-----------------------------------------------------------------------------
(* Stripe *)

\* POST /checkout, then the customer pays on Stripe's page.
Checkout(s) ==
    /\ stripe[s] = None
    /\ LET r == [status |-> "active", period |-> clock + 1, cancel |-> FALSE]
       IN  /\ stripe' = [stripe EXCEPT ![s] = r]
           /\ Emit(<<Event("checkout", s, r), Event("paid", s, r)>>)
    /\ UNCHANGED <<clock, recorded, row, applied, died, call, repeated>>

Becomes(s, r) ==
    /\ stripe' = [stripe EXCEPT ![s] = r]
    /\ UNCHANGED <<clock, recorded, row, applied, died, call, repeated>>

\* A renewal at the end of a period, or a late payment.
Renew(s) ==
    /\ stripe[s] # None
    /\ stripe[s].status # "canceled"
    /\ ~stripe[s].cancel
    /\ stripe[s].period <= clock
    /\ LET r == [stripe[s] EXCEPT !.status = "active", !.period = clock + 1]
       IN  /\ Becomes(s, r)
           /\ Emit(<<Event("updated", s, r), Event("paid", s, r)>>)

PaymentFails(s) ==
    /\ stripe[s] # None
    /\ stripe[s].status = "active"
    /\ ~stripe[s].cancel
    /\ stripe[s].period <= clock
    /\ LET r == [stripe[s] EXCEPT !.status = "past_due"]
       IN  /\ Becomes(s, r)
           /\ Emit(<<Event("failed", s, r), Event("updated", s, r)>>)

\* The period ends after a cancellation, unpaid, or support ends it at once.
Ends(s) ==
    /\ stripe[s] # None
    /\ stripe[s].status # "canceled"
    /\ LET r == [stripe[s] EXCEPT !.status = "canceled"]
       IN  /\ Becomes(s, r)
           /\ Emit(<<Event("deleted", s, r)>>)

PeriodPasses ==
    /\ clock < MaxPeriods
    /\ clock' = clock + 1
    /\ UNCHANGED <<stripe, sent, outbox, recorded, row, applied, died, call, repeated>>

\* Stripe's answer was lost on the way, or an operator resends the event.
Redeliver(i) ==
    /\ "duplicate" \in BillingFaults
    /\ ~repeated
    /\ i \in 1..Len(sent) \ outbox
    /\ outbox' = outbox \cup {i}
    /\ repeated' = TRUE
    /\ UNCHANGED <<stripe, clock, sent, recorded, row, applied, died, call>>

-----------------------------------------------------------------------------
(* POST /webhooks/stripe *)

\* Mutated Receive: SELECT first, INSERT together with the handler.
ReceiveChecks(h, i) ==
    /\ call[h] = NoCall
    /\ i \in outbox
    /\ \/ /\ i \notin {applied[j] : j \in 1..Len(applied)}
          /\ call' = [call EXCEPT ![h] = [step |-> "apply", id |-> i, sub |-> None]]
          /\ recorded' = recorded \cup {i}
          /\ UNCHANGED outbox
       \/ /\ i \in {applied[j] : j \in 1..Len(applied)}
          /\ outbox' = outbox \ {i}
          /\ UNCHANGED <<call, recorded>>
    /\ UNCHANGED <<stripe, clock, sent, row, applied, died, repeated>>

\* INSERT INTO payment_events.  The code means to answer a repetition with 200,
\* but the driver's 23505 is the cause of the error it catches and not its code:
\* a repetition is answered with 500, and changes nothing.
Receive(h, i) ==
    /\ call[h] = NoCall
    /\ i \in outbox \ recorded
    /\ recorded' = recorded \cup {i}
    /\ call' = [call EXCEPT ![h] = [step |-> "apply", id |-> i, sub |-> None]]
    /\ UNCHANGED <<stripe, clock, sent, outbox, row, applied, died, repeated>>

\* Mutated Handled: a failed payment is left to the updated event alone.
HandledNoFlag(e, r) ==
    IF e.kind = "checkout" THEN [status |-> "active", period |-> 0, cancel |-> FALSE]
    ELSE IF r = None THEN None
    ELSE CASE e.kind = "paid"    -> [r EXCEPT !.status = "active", !.period = e.is.period]
           [] e.kind = "failed"  -> [r EXCEPT !.status = "past_due"]
           [] e.kind = "updated" -> [r EXCEPT !.status = e.is.status, !.period = e.is.period]
           [] e.kind = "deleted" -> [r EXCEPT !.status = "canceled"]

\* The row after the handler of event e, each an INSERT or an UPDATE WHERE
\* stripeSubscriptionId: an update of a row not there yet changes nothing.
Handled(e, r) ==
    IF e.kind = "checkout" THEN [status |-> "active", period |-> 0, cancel |-> FALSE]
    ELSE IF r = None THEN None
    ELSE CASE e.kind = "paid"    -> [r EXCEPT !.status = "active", !.period = e.is.period]
           [] e.kind = "failed"  -> [r EXCEPT !.status = "past_due"]
           [] e.kind = "updated" -> e.is
           [] e.kind = "deleted" -> [r EXCEPT !.status = "canceled"]

\* Mutated Apply: an update of a row that is not there yet throws.
ApplyNeedsRow(h) ==
    /\ call[h].step = "apply"
    /\ LET i == call[h].id
           s == sent[i].sub
       IN  IF sent[i].kind # "checkout" /\ row[s] = None
           THEN UNCHANGED <<row, applied, outbox>>
           ELSE /\ row' = [row EXCEPT ![s] = Handled(sent[i], @)]
                /\ applied' = Append(applied, i)
                /\ outbox' = outbox \ {i}
    /\ call' = [call EXCEPT ![h] = NoCall]
    /\ UNCHANGED <<stripe, clock, sent, recorded, died, repeated>>

\* The event's handler, and the 200.
Apply(h) ==
    /\ call[h].step = "apply"
    /\ LET i == call[h].id
           s == sent[i].sub
       IN  /\ row' = [row EXCEPT ![s] = Handled(sent[i], @)]
           /\ applied' = Append(applied, i)
           /\ outbox' = outbox \ {i}
    /\ call' = [call EXCEPT ![h] = NoCall]
    /\ UNCHANGED <<stripe, clock, sent, recorded, died, repeated>>

-----------------------------------------------------------------------------
(* POST /subscriptions/cancel *)

CancelLoad(h, s) ==
    /\ call[h] = NoCall
    /\ row[s] # None
    /\ row[s].status = "active"
    /\ ~row[s].cancel
    /\ call' = [call EXCEPT ![h] = [step |-> "cancelStripe", id |-> 0, sub |-> s]]
    /\ UNCHANGED <<stripe, clock, sent, outbox, recorded, row, applied, died, repeated>>

\* Stripe may fail, as it does when the subscription has ended: a 502 or 503.
CancelStripe(h) ==
    /\ call[h].step = "cancelStripe"
    /\ LET s == call[h].sub
           r == [stripe[s] EXCEPT !.cancel = TRUE]
       IN  \/ /\ call' = [call EXCEPT ![h] = NoCall]
              /\ UNCHANGED <<stripe, sent, outbox>>
           \/ /\ stripe[s].status # "canceled"
              /\ stripe' = [stripe EXCEPT ![s] = r]
              /\ IF r = stripe[s] THEN UNCHANGED <<sent, outbox>>
                 ELSE Emit(<<Event("updated", s, r)>>)
              /\ call' = [call EXCEPT ![h].step = "cancelRow"]
    /\ UNCHANGED <<clock, recorded, row, applied, died, repeated>>

CancelRow(h) ==
    /\ call[h].step = "cancelRow"
    /\ row' = [row EXCEPT ![call[h].sub].cancel = TRUE]
    /\ call' = [call EXCEPT ![h] = NoCall]
    /\ UNCHANGED <<stripe, clock, sent, outbox, recorded, applied, died, repeated>>

\* A statement fails (500), or the process dies, before the call's next step.
CallDies(h) ==
    /\ "crash" \in BillingFaults
    /\ call[h] # NoCall
    /\ call' = [call EXCEPT ![h] = NoCall]
    /\ died' = died \cup (IF call[h].step = "apply" THEN {call[h].id} ELSE {})
    /\ UNCHANGED <<stripe, clock, sent, outbox, recorded, row, applied, repeated>>

-----------------------------------------------------------------------------
BillingInit ==
    /\ stripe = [s \in Subs |-> None]
    /\ clock = 0
    /\ sent = <<>>
    /\ outbox = {}
    /\ recorded = {}
    /\ row = [s \in Subs |-> None]
    /\ applied = <<>>
    /\ died = {}
    /\ call = [h \in BillingCalls |-> NoCall]
    /\ repeated = FALSE

StripeNext ==
    \/ \E s \in Subs : Checkout(s) \/ Renew(s) \/ PaymentFails(s) \/ Ends(s)
    \/ PeriodPasses
    \/ \E i \in Ids : Redeliver(i)

Webhook(h) == Apply(h) \/ \E i \in Ids : Receive(h, i)

Cancel(h) ==
    \/ \E s \in Subs : CancelLoad(h, s)
    \/ CancelStripe(h) \/ CancelRow(h)

BillingNext ==
    \/ StripeNext
    \/ \E h \in BillingCalls : Webhook(h) \/ Cancel(h) \/ CallDies(h)

BillingSpec == BillingInit /\ [][BillingNext]_billingVars

BillingStep(h) == Apply(h) \/ CancelStripe(h) \/ CancelRow(h)
Delivery       == \E h \in BillingCalls, i \in Ids : Receive(h, i)

\* Stripe retries what is not answered, and calls run on.  A slot is a device of
\* the model that other calls may hold again and again, hence SF for Delivery.
BillingFairness ==
    /\ SF_billingVars(Delivery)
    /\ \A h \in BillingCalls : WF_billingVars(BillingStep(h))

-----------------------------------------------------------------------------
(* services/content-access.ts *)

\* Mutated Effective: past_due counts as a grace period.
EffectiveGrace(r) ==
    r # None /\ (r.status # "canceled" \/ r.period > clock)

\* buildSubscriptionStatusCondition.
Effective(r) ==
    /\ r # None
    /\ r.status = "active" \/ (r.status = "canceled" /\ r.period > clock)

\* hasContentAccess for a signed-in user and gated content of creator c.
HasContentAccess(u, c) ==
    \/ u \in Insiders
    \/ \E s \in Subs : OwnerOf[s] = u /\ c \in Covers[s] /\ Effective(row[s])

-----------------------------------------------------------------------------
(* Properties *)

EventsOf(s) == {i \in 1..Len(sent) : sent[i].sub = s}

\* Nothing is under way, and no event of s was lost or taken out of turn.
InStep(s) ==
    /\ EventsOf(s) \subseteq {applied[j] : j \in 1..Len(applied)}
    /\ \A j, k \in DOMAIN applied :
          j < k /\ {applied[j], applied[k]} \subseteq EventsOf(s) => applied[j] < applied[k]
    /\ \A h \in BillingCalls : call[h] = NoCall

\* The range of every variable.
BillingTypeOK ==
    /\ stripe \in [Subs -> SubRows \cup {None}]
    /\ clock \in 0..MaxPeriods
    /\ sent \in Seq(SubEvents)
    /\ Len(sent) <= MaxEvents
    /\ outbox \subseteq 1..Len(sent)
    /\ recorded \subseteq 1..Len(sent)
    /\ row \in [Subs -> SubRows \cup {None}]
    /\ applied \in Seq(Ids)
    /\ died \subseteq recorded
    /\ call \in [BillingCalls -> [step: {"idle", "apply", "cancelStripe", "cancelRow"},
                              id: 0..MaxEvents, sub: Subs \cup {None}]]
    /\ repeated \in BOOLEAN

\* The idempotency key: an event's handler runs at most once, however often and
\* however concurrently the event is delivered, and across crashes.
AppliedOnce == IsInjective(applied)

\* When the events of a subscription have been handled in turn the row says
\* what Stripe says, cancellations by POST /cancel and their crashes included.
RowMirrorsStripe == \A s \in Subs : InStep(s) => row[s] = stripe[s]

\* Access follows payment: with events handled in turn a user opens a creator's
\* gated content exactly when a covering subscription is paid, or runs out.
AccessFollowsPayment ==
    (\A s \in Subs : InStep(s)) =>
        \A u \in Users \ Insiders, c \in Creators :
            HasContentAccess(u, c) <=>
                \E s \in Subs :
                    /\ OwnerOf[s] = u /\ c \in Covers[s] /\ stripe[s] # None
                    /\ \/ stripe[s].status = "active"
                       \/ (stripe[s].status = "canceled" /\ stripe[s].period > clock)

\* Every event's handler runs in the end, whatever came before it, unless it died
\* on the way: the id it recorded keeps each later delivery from it.
EveryEventHandled ==
    \A i \in Ids :
        i <= Len(sent) ~> i \in died \/ \E j \in DOMAIN applied : applied[j] = i

\* "Unique constraint violation on PK means already processed", "returns 200 for
\* duplicate event ID": a delivery of every event is answered with 200 in the end.
EveryEventAnswered == \A i \in Ids : i \in outbox ~> i \notin outbox
=============================================================================
