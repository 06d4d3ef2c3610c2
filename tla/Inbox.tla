-------------------------------- MODULE Inbox --------------------------------
(***************************************************************************)
(* One user's inbox: its rows, the unread count pushed to the browser's    *)
(* bell over the socket and seeded over HTTP, the reminders the user asks  *)
(* for, and the pass that turns them into rows every five minutes.         *)
(* (services/notification-inbox.ts, services/event-reminder.ts,            *)
(* jobs/handlers/event-reminder.ts, and the web's notification-context,    *)
(* use-notifications and notification-bell.)                               *)
(***************************************************************************)
EXTENDS ApiCalls, Naturals, Sequences, SequencesExt, FiniteSets, FiniteSetsExt

CONSTANTS
    Events,     \* calendar events
    Sweeps,     \* slots for passes of the reminder job in flight
    Pushes,     \* slots for calls of pushUnreadCount in flight
    Toggles,    \* slots for calls of toggleReminder in flight
    Window,     \* how far ahead a pass looks, in intervals of the job
    MaxTicks, MaxEdits, MaxToggles, MaxRows, MaxDrops,  \* bounds
    InboxFaults

ASSUME InboxAssumption ==
    /\ None \notin Events
    /\ Window \in Nat \ {0}
    /\ {MaxTicks, MaxEdits, MaxToggles, MaxRows, MaxDrops} \subseteq Nat
    /\ InboxFaults \subseteq {"insert"}

VARIABLES
    tick,      \* the clock, in intervals of the job
    fired,     \* the interval's timer has fired
    startAt, deleted,    \* calendar_events
    wanted,    \* event_reminders of the user
    toggle,    \* calls of toggleReminder
    sweep,     \* passes of handleEventReminderDispatch
    inbox,     \* inbox_notifications, `event` None for every other type
    push,      \* calls of pushUnreadCount
    bell,      \* the browser
    spent,     \* changes so far, for the bounds
    trace      \* history

inboxVars == <<tick, fired, startAt, deleted, wanted, toggle, sweep, inbox, push,
               bell, spent, trace>>

Unread == {i \in DOMAIN inbox : ~inbox[i].read}

NoSweep  == [step |-> "idle", now |-> 0, todo |-> {}, pending |-> {}]
NoPush   == [step |-> "idle", count |-> 0, alone |-> FALSE]
NoToggle == [step |-> "idle", event |-> None]

Spend(what, max) == spent[what] < max /\ spent' = [spent EXCEPT ![what] = @ + 1]

-----------------------------------------------------------------------------
(* pushUnreadCount *)

\* The void call, on the spot: it runs to its first await.  A push is alone if no
\* other is in flight with it.
StartPush ==
    \E p \in Pushes :
        /\ push[p] = NoPush
        /\ push' = [q \in Pushes |->
                      IF q = p THEN [step |-> "count", count |-> 0,
                                     alone |-> \A r \in Pushes : push[r] = NoPush]
                      ELSE [push[q] EXCEPT !.alone = FALSE]]

PushCount(p) ==
    /\ push[p].step = "count"
    /\ push' = [push EXCEPT ![p].step = "send", ![p].count = Cardinality(Unread)]
    /\ UNCHANGED <<tick, fired, startAt, deleted, wanted, toggle, sweep, inbox, bell,
                   spent, trace>>

\* sendToUser: nothing is sent to who is not connected, and nothing kept for later.
PushSend(p) ==
    /\ push[p].step = "send"
    /\ push' = [push EXCEPT ![p] = NoPush]
    /\ bell' = IF bell.connected THEN [bell EXCEPT !.ws = push[p].count] ELSE bell
    /\ trace' = [trace EXCEPT !.current = push[p].alone /\ bell.connected]
    /\ UNCHANGED <<tick, fired, startAt, deleted, wanted, toggle, sweep, inbox, spent>>

-----------------------------------------------------------------------------
(* The rows *)

\* createNotification, from the other services.
CreateNotification ==
    /\ Spend("rows", MaxRows)
    /\ inbox' = Append(inbox, [event |-> None, read |-> FALSE])
    /\ StartPush
    /\ UNCHANGED <<tick, fired, startAt, deleted, wanted, toggle, sweep, bell, trace>>

\* markRead, by a click on a row of the list that the browser holds as unread: it
\* pushes whether or not the row had been read elsewhere.
MarkRead(i) ==
    /\ i \in DOMAIN bell.list /\ ~bell.list[i]
    /\ inbox' = [inbox EXCEPT ![i].read = TRUE]
    /\ bell' = [bell EXCEPT !.list[i] = TRUE]
    /\ StartPush
    /\ UNCHANGED <<tick, fired, startAt, deleted, wanted, toggle, sweep, spent, trace>>

\* Mutated MarkAllRead: the count is not pushed when there was nothing to mark before.
MarkAllReadQuietly ==
    /\ \E i \in DOMAIN bell.list : ~bell.list[i]
    /\ inbox' = [i \in DOMAIN inbox |-> [inbox[i] EXCEPT !.read = TRUE]]
    /\ bell' = [bell EXCEPT !.list = [i \in DOMAIN @ |-> TRUE], !.initial = 0]
    /\ UNCHANGED <<tick, fired, startAt, deleted, wanted, toggle, sweep, push, spent, trace>>

MarkAllRead ==
    /\ \E i \in DOMAIN bell.list : ~bell.list[i]
    /\ inbox' = [i \in DOMAIN inbox |-> [inbox[i] EXCEPT !.read = TRUE]]
    /\ bell' = [bell EXCEPT !.list = [i \in DOMAIN @ |-> TRUE], !.initial = 0]
    /\ StartPush
    /\ UNCHANGED <<tick, fired, startAt, deleted, wanted, toggle, sweep, spent, trace>>

-----------------------------------------------------------------------------
(* The browser *)

BellStep == UNCHANGED <<tick, fired, startAt, deleted, wanted, toggle, sweep, inbox, push>>

\* The bell opens: fetchNotifications.
OpenBell ==
    /\ bell.list # [i \in DOMAIN inbox |-> inbox[i].read]
    /\ bell' = [bell EXCEPT !.list = [i \in DOMAIN inbox |-> inbox[i].read]]
    /\ UNCHANGED <<spent, trace>> /\ BellStep

\* The page's one request for the unread count, and its answer.
SeedRead ==
    /\ bell.seed = "asked"
    /\ bell' = [bell EXCEPT !.seed = "read", !.answer = Cardinality(Unread)]
    /\ UNCHANGED <<spent, trace>> /\ BellStep

SeedArrives ==
    /\ bell.seed = "read"
    /\ bell' = [bell EXCEPT !.seed = "done",
                            !.initial = IF bell.answer > 0 THEN bell.answer ELSE @,
                            !.answer = 0]
    /\ UNCHANGED <<spent, trace>> /\ BellStep

DropSocket ==
    /\ bell.connected
    /\ Spend("drops", MaxDrops)
    /\ bell' = [bell EXCEPT !.connected = FALSE]
    /\ UNCHANGED trace /\ BellStep

ReopenSocket ==
    /\ ~bell.connected
    /\ bell' = [bell EXCEPT !.connected = TRUE]
    /\ UNCHANGED <<spent, trace>> /\ BellStep

\* notification-bell.tsx: a live count of zero gives way to the seed.
DisplayCount == IF bell.ws > 0 THEN bell.ws ELSE bell.initial

-----------------------------------------------------------------------------
(* The reminders *)

\* History: events asked for at least a window ahead, and not touched since.
Ahead(e) ==
    /\ e \notin deleted
    /\ IF fired THEN startAt[e] > tick + Window ELSE startAt[e] >= tick + Window

Keep(e) == trace' = [trace EXCEPT !.kept = IF e \in wanted' /\ (e \in @ \/ Ahead(e))
                                           THEN @ \cup {e} ELSE @ \ {e}]

\* toggleReminder: what it will do depends on what it found.
ToggleCheck(t, e) ==
    /\ toggle[t] = NoToggle
    /\ Spend("toggles", MaxToggles)
    /\ toggle' = [toggle EXCEPT ![t] = [step |-> IF e \in wanted THEN "delete" ELSE "insert",
                                        event |-> e]]
    /\ UNCHANGED <<tick, fired, startAt, deleted, wanted, sweep, inbox, push, bell, trace>>

\* An event that was deleted keeps its row: the check of it passes.  A row that is
\* already there makes the insert fail, and changes nothing.
ToggleWrite(t) ==
    /\ toggle[t] # NoToggle
    /\ wanted' = IF toggle[t].step = "delete" THEN wanted \ {toggle[t].event}
                 ELSE wanted \cup {toggle[t].event}
    /\ toggle' = [toggle EXCEPT ![t] = NoToggle]
    /\ Keep(toggle[t].event)
    /\ UNCHANGED <<tick, fired, startAt, deleted, sweep, inbox, push, bell, spent>>

\* The calendar: an event is moved, or deleted.
Reschedule(e, at) ==
    /\ e \notin deleted /\ at # startAt[e] /\ at > tick
    /\ Spend("edits", MaxEdits)
    /\ startAt' = [startAt EXCEPT ![e] = at]
    /\ trace' = [trace EXCEPT !.kept = @ \ {e}]
    /\ UNCHANGED <<tick, fired, deleted, wanted, toggle, sweep, inbox, push, bell>>

DeleteEvent(e) ==
    /\ e \notin deleted
    /\ Spend("edits", MaxEdits)
    /\ deleted' = deleted \cup {e}
    /\ trace' = [trace EXCEPT !.kept = @ \ {e}]
    /\ UNCHANGED <<tick, fired, startAt, wanted, toggle, sweep, inbox, push, bell>>

-----------------------------------------------------------------------------
(* handleEventReminderDispatch *)

\* The interval fires: a new pass begins whether or not the last one is over.
SweepStart(s) ==
    /\ ~fired
    /\ sweep[s] = NoSweep
    /\ fired' = TRUE
    /\ sweep' = [sweep EXCEPT ![s] = [NoSweep EXCEPT !.step = "select", !.now = tick]]
    /\ trace' = [trace EXCEPT !.overlapped = @ \/ \E r \in Sweeps : sweep[r] # NoSweep]
    /\ UNCHANGED <<tick, startAt, deleted, wanted, toggle, inbox, push, bell, spent>>

\* Mutated Due: a pass looks one interval ahead.
DueNext(now) == {e \in wanted \ deleted : startAt[e] > now /\ startAt[e] <= now + 1}
Due(now) == {e \in wanted \ deleted : startAt[e] > now /\ startAt[e] <= now + Window}

SweepSelect(s) ==
    /\ sweep[s].step = "select"
    /\ LET due == Due(sweep[s].now)
       IN  sweep' = [sweep EXCEPT ![s] = IF due = {} THEN NoSweep
                                         ELSE [@ EXCEPT !.step = "check", !.todo = due]]
    /\ UNCHANGED <<tick, fired, startAt, deleted, wanted, toggle, inbox, push, bell,
                   spent, trace>>

Reminded(e) == \E i \in DOMAIN inbox : inbox[i].event = e

\* Mutated SweepCheck: every due reminder is created.
SweepCheckNothing(s, e) ==
    /\ sweep[s].step = "check" /\ e \in sweep[s].todo
    /\ sweep' = [sweep EXCEPT ![s] = [@ EXCEPT !.step = "create"]]
    /\ UNCHANGED <<tick, fired, startAt, deleted, wanted, toggle, inbox, push, bell,
                   spent, trace>>

\* The first loop asks of every due reminder whether its row is there ...
SweepCheck(s, e) ==
    /\ sweep[s].step = "check" /\ e \in sweep[s].todo
    /\ LET todo == sweep[s].todo \ {e}
           pending == IF Reminded(e) THEN sweep[s].pending ELSE sweep[s].pending \cup {e}
       IN  sweep' = [sweep EXCEPT ![s] =
                       IF todo # {} THEN [@ EXCEPT !.todo = todo, !.pending = pending]
                       ELSE IF pending = {} THEN NoSweep
                       ELSE [@ EXCEPT !.step = "create", !.todo = pending, !.pending = {}]]
    /\ UNCHANGED <<tick, fired, startAt, deleted, wanted, toggle, inbox, push, bell,
                   spent, trace>>

Created(s, e) ==
    LET todo == sweep[s].todo \ {e}
    IN  sweep' = [sweep EXCEPT ![s] = IF todo = {} THEN NoSweep
                                      ELSE [sweep[s] EXCEPT !.todo = todo]]

\* ... and the second creates those that were not; one that fails is left for the
\* next pass.
SweepCreate(s, e) ==
    /\ sweep[s].step = "create" /\ e \in sweep[s].todo
    /\ Created(s, e)
    /\ \/ /\ inbox' = Append(inbox, [event |-> e, read |-> FALSE])
          /\ StartPush
          /\ UNCHANGED trace
       \/ /\ "insert" \in InboxFaults
          /\ trace' = [trace EXCEPT !.failed[e] = @ + 1]
          /\ UNCHANGED <<inbox, push>>
    /\ UNCHANGED <<tick, fired, startAt, deleted, wanted, toggle, bell, spent>>

Tick ==
    /\ tick < MaxTicks /\ fired
    /\ tick' = tick + 1
    /\ fired' = FALSE
    /\ UNCHANGED <<startAt, deleted, wanted, toggle, sweep, inbox, push, bell, spent, trace>>

-----------------------------------------------------------------------------
InboxInit ==
    /\ tick = 0
    /\ fired = FALSE
    /\ startAt \in [Events -> 1..MaxTicks]
    /\ deleted = {}
    /\ wanted = {}
    /\ toggle = [t \in Toggles |-> NoToggle]
    /\ sweep = [s \in Sweeps |-> NoSweep]
    /\ inbox \in {<<>>, <<[event |-> None, read |-> FALSE]>>}
    /\ push = [p \in Pushes |-> NoPush]
    /\ bell = [connected |-> TRUE, ws |-> 0, initial |-> 0, seed |-> "asked",
               answer |-> 0, list |-> <<>>]
    /\ spent = [what \in {"edits", "toggles", "rows", "drops"} |-> 0]
    /\ trace = [current |-> FALSE, overlapped |-> FALSE,
                kept |-> {}, failed |-> [e \in Events |-> 0]]

InboxNext ==
    \/ \E p \in Pushes : PushCount(p) \/ PushSend(p)
    \/ CreateNotification \/ MarkAllRead \/ \E i \in DOMAIN inbox : MarkRead(i)
    \/ OpenBell \/ SeedRead \/ SeedArrives \/ DropSocket \/ ReopenSocket
    \/ \E t \in Toggles : ToggleWrite(t) \/ \E e \in Events : ToggleCheck(t, e)
    \/ \E e \in Events : DeleteEvent(e) \/ \E at \in 1..MaxTicks : Reschedule(e, at)
    \/ \E s \in Sweeps : SweepStart(s) \/ SweepSelect(s)
                         \/ \E e \in Events : SweepCheck(s, e) \/ SweepCreate(s, e)
    \/ Tick

InboxSpec == InboxInit /\ [][InboxNext]_inboxVars

-----------------------------------------------------------------------------
(* Properties *)

\* The range of every variable that a call writes.
InboxTypeOK ==
    /\ wanted \subseteq Events
    /\ inbox \in Seq([event: Events \cup {None}, read: BOOLEAN])
    /\ sweep \in [Sweeps -> [step: {"idle", "select", "check", "create"}, now: 0..tick,
                             todo: SUBSET Events, pending: SUBSET Events]]
    /\ push \in [Pushes -> [step: {"idle", "count", "send"}, count: 0..Len(inbox),
                            alone: BOOLEAN]]
    /\ bell.ws \in 0..Len(inbox) /\ bell.initial \in 0..Len(inbox)
    /\ Len(bell.list) <= Len(inbox)

\* A user is reminded of an event once, while no two passes of the job overlap
\* (event-reminder.ts:62: the rows that exist are read before any is written).
ReminderOnce ==
    trace.overlapped \/
    \A e \in Events : Cardinality({i \in DOMAIN inbox : inbox[i].event = e}) <= 1

\* Who asked for a reminder a window before the event has it when the event starts,
\* though up to two of the three inserts fail: the passes overlap their windows.
RemindedInTime ==
    (\A s \in Sweeps : sweep[s] = NoSweep) =>
        \A e \in trace.kept :
            tick >= startAt[e] /\ trace.failed[e] < Window => Reminded(e)

\* The count the browser holds is the number of unread rows, when nothing is under
\* way, but for pushes that crossed one another or found nobody connected; and it is
\* what the bell shows, unless all is read and the seed said otherwise.
UnreadSettles ==
    trace.current /\ (\A p \in Pushes : push[p] = NoPush) =>
        /\ bell.ws = Cardinality(Unread)
        /\ DisplayCount = bell.ws \/ Unread = {}
=============================================================================
