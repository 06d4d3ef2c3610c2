------------------------------ MODULE PressDraft ------------------------------
(***************************************************************************)
(* The press page of one creator: the published document and the draft     *)
(* beside it (services/press.ts), and the editor's tabs that type, save,   *)
(* publish, discard and take offline (-press-editor.tsx).                  *)
(*                                                                         *)
(* A document is its text, numbered as it is typed, and whether the page   *)
(* is on.  A PATCH carries the whole document, so what the server merges   *)
(* it into does not matter.  Typing while a request is on its way makes    *)
(* the buttons usable again, and so one tab may have two on their way.     *)
(***************************************************************************)
EXTENDS ApiCalls, Naturals

CONSTANTS
    PressCalls,  \* slots for requests on their way
    PressTabs,   \* browser tabs with the editor
    MaxTexts,    \* bound: texts ever typed
    MaxAsks,     \* bound: requests ever sent
    Unfinished,  \* texts that PressContentSchema refuses and the draft's schema takes
    PressFaults

ASSUME PressAssumption ==
    /\ MaxTexts \in Nat /\ MaxAsks \in Nat
    /\ Unfinished \subseteq 1..MaxTexts
    /\ PressFaults \subseteq {"net"}

VARIABLES
    press,   \* creator_press_configs: content, and draftContent or None
    page,    \* the editor in each tab
    typed,   \* texts typed so far
    sent,    \* requests sent so far
    ask,     \* the request in each slot
    stored,  \* history: the texts that drafts have had; the row is there once there is one
    hidden,  \* history: taken offline, and no draft that is on was saved since
    dialog,  \* what the dialog in each tab asks to confirm, None with no dialog
    forgone  \* history: texts that were in a tab when it confirmed a discard, or that
             \* were typed while one was on its way

pressVars == <<press, page, typed, sent, ask, stored, hidden, dialog, forgone>>

Texts == 0..MaxTexts
Docs  == [text: Texts, on: BOOLEAN]

DefaultPressContent == [text |-> 0, on |-> FALSE]
Closed == [state |-> "closed", doc |-> DefaultPressContent, rev |-> 0, dirty |-> FALSE]
NoAsk  == [step |-> "idle", kind |-> None, tab |-> None, doc |-> DefaultPressContent,
           rev |-> 0, publish |-> FALSE, dirty |-> FALSE]

AskAt(q, s, k) == ask[q].step = s /\ ask[q].kind = k
AskTo(q, s)    == ask' = [ask EXCEPT ![q].step = s]
AskEnds(q)     == ask' = [ask EXCEPT ![q] = NoAsk]

IsBusy(t) == page[t].state \in {"saving", "publishing", "unpublishing"}

Destructive == {"discard", "unpublish"}
Discarding(t) == \E q \in PressCalls : ask[q].tab = t /\ ask[q].kind = "discard"

Effective == IF press.draft = None THEN press.content ELSE press.draft

-----------------------------------------------------------------------------
(* The editor *)

OpenEditor(t) ==
    /\ page[t].state = "closed"
    /\ page' = [page EXCEPT ![t] = [Closed EXCEPT !.state = "saved", !.doc = Effective]]
    /\ UNCHANGED <<press, typed, sent, ask, stored, hidden, dialog, forgone>>

\* markDirty, which says "unsaved" whatever is on its way.
Edit(t) ==
    /\ page[t].state # "closed" /\ dialog[t] = None
    /\ typed < MaxTexts
    /\ typed' = typed + 1
    /\ page' = [page EXCEPT ![t] = [state |-> "unsaved", doc |-> [@.doc EXCEPT !.text = typed + 1],
                                    rev |-> @.rev + 1, dirty |-> TRUE]]
    /\ forgone' = IF Discarding(t) THEN forgone \cup {typed + 1} ELSE forgone
    /\ UNCHANGED <<press, sent, ask, stored, hidden, dialog>>

\* Request q goes out, and the tab says what it waits for.
Send(q, t, call, state) ==
    /\ ask[q] = NoAsk
    /\ page[t].state # "closed" /\ ~IsBusy(t)
    /\ sent < MaxAsks
    /\ sent' = sent + 1
    /\ ask' = [ask EXCEPT ![q] = [call EXCEPT !.step = "sent", !.tab = t,
                                              !.rev = page[t].rev, !.dirty = page[t].dirty]]
    /\ page' = [page EXCEPT ![t].state = state]
    /\ UNCHANGED <<press, typed, stored, hidden>>

\* persistDraft, also as the first half of publishDraft: then the text has no issues,
\* and the page is switched on.
PersistDraft(q, t, publish) ==
    /\ dialog[t] = None
    /\ publish => page[t].doc.text \notin Unfinished
    /\ Send(q, t, [NoAsk EXCEPT !.kind = "save", !.publish = publish,
                                !.doc = [page[t].doc EXCEPT !.on = @ \/ publish]], "saving")
    /\ UNCHANGED <<dialog, forgone>>

\* The dialog, opened now or open still, is confirmed.  It stays until the answer, and
\* covers the form.
Confirm(q, t, kind, state) ==
    /\ dialog[t] \in {None, kind}
    /\ dialog' = [dialog EXCEPT ![t] = kind]
    /\ Send(q, t, [NoAsk EXCEPT !.kind = kind], state)

UnpublishPage(q, t) == Confirm(q, t, "unpublish", "unpublishing") /\ UNCHANGED forgone

DiscardDraft(q, t) ==
    /\ Confirm(q, t, "discard", "saving")
    /\ forgone' = forgone \cup {page[t].doc.text}

\* onCancel, which the late answer of another request makes possible while the one that
\* was confirmed is on its way.
CancelDialog(t) ==
    /\ dialog[t] # None /\ ~IsBusy(t)
    /\ dialog' = [dialog EXCEPT ![t] = None]
    /\ UNCHANGED <<press, page, typed, sent, ask, stored, hidden, forgone>>

\* Mutated SaveAnswered: the answer is shown, whatever was typed since.
SaveShown(q) ==
    /\ AskAt(q, "done", "save")
    /\ LET a == ask[q]
       IN  /\ page' = [page EXCEPT ![a.tab] = [@ EXCEPT !.doc = a.doc, !.dirty = FALSE,
                                                        !.state = "saved"]]
           /\ AskEnds(q)
    /\ UNCHANGED <<press, typed, sent, stored, hidden, dialog, forgone>>

\* A newer edit keeps its text, and stops the publish.
SaveAnswered(q) ==
    /\ AskAt(q, "done", "save")
    /\ LET a == ask[q]
       IN  \/ /\ page[a.tab].rev # a.rev
              /\ page' = [page EXCEPT ![a.tab].state = "unsaved"]
              /\ AskEnds(q) /\ UNCHANGED sent
           \/ /\ page[a.tab].rev = a.rev
              /\ page' = [page EXCEPT ![a.tab] =
                    [@ EXCEPT !.doc = a.doc, !.dirty = FALSE,
                              !.state = IF a.publish THEN "publishing" ELSE "saved"]]
              /\ IF a.publish
                 THEN /\ sent' = sent + 1
                      /\ ask' = [ask EXCEPT ![q] = [a EXCEPT !.step = "sent", !.kind = "publish"]]
                 ELSE AskEnds(q) /\ UNCHANGED sent
    /\ UNCHANGED <<press, typed, stored, hidden, dialog, forgone>>

PublishAnswered(q) ==
    /\ AskAt(q, "done", "publish")
    /\ LET a == ask[q]
       IN  page' = [page EXCEPT ![a.tab] =
                IF @.rev # a.rev THEN [@ EXCEPT !.state = "unsaved"]
                ELSE [@ EXCEPT !.doc = a.doc, !.dirty = FALSE, !.state = "published"]]
    /\ AskEnds(q)
    /\ UNCHANGED <<press, typed, sent, stored, hidden, dialog, forgone>>

\* The text stays: only the switch is turned off.
UnpublishAnswered(q) ==
    /\ AskAt(q, "done", "unpublish")
    /\ page' = [page EXCEPT ![ask[q].tab] =
            [@ EXCEPT !.doc.on = FALSE, !.state = IF ask[q].dirty THEN "unsaved" ELSE "unpublished"]]
    /\ AskEnds(q)
    /\ dialog' = [dialog EXCEPT ![ask[q].tab] = None]
    /\ UNCHANGED <<press, typed, sent, stored, hidden, forgone>>

DiscardAnswered(q) ==
    /\ AskAt(q, "done", "discard")
    /\ page' = [page EXCEPT ![ask[q].tab] =
            [state |-> "saved", doc |-> ask[q].doc, rev |-> @.rev + 1, dirty |-> FALSE]]
    /\ AskEnds(q)
    /\ dialog' = [dialog EXCEPT ![ask[q].tab] = None]
    /\ UNCHANGED <<press, typed, sent, stored, hidden, forgone>>

\* The request or its answer is lost.
AskFails(q) ==
    /\ "net" \in PressFaults
    /\ ask[q] # NoAsk
    /\ page' = [page EXCEPT ![ask[q].tab].state = "error"]
    /\ AskEnds(q)
    /\ dialog' = IF ask[q].kind \in Destructive THEN [dialog EXCEPT ![ask[q].tab] = None]
                 ELSE dialog
    /\ UNCHANGED <<press, typed, sent, stored, hidden, forgone>>

-----------------------------------------------------------------------------
(* services/press.ts *)

\* upsertPressConfig: the published document stays, the default if there was no row.
UpsertPressConfig(q) ==
    /\ AskAt(q, "sent", "save")
    /\ press' = [press EXCEPT !.draft = ask[q].doc]
    /\ stored' = stored \cup {ask[q].doc.text}
    /\ hidden' = (hidden /\ ~ask[q].doc.on)
    /\ AskTo(q, "done")
    /\ UNCHANGED <<page, typed, sent, dialog, forgone>>

\* publishPressConfig: one transaction, which an unfinished draft rolls back.  Without
\* a draft it changes nothing.
PublishPressConfig(q) ==
    /\ AskAt(q, "sent", "publish")
    /\ \/ /\ press.draft = None \/ Effective.text \notin Unfinished
          /\ press' = [content |-> Effective, draft |-> None]
          /\ ask' = [ask EXCEPT ![q].step = "done", ![q].doc = Effective]
          /\ UNCHANGED page
       \/ /\ press.draft # None /\ Effective.text \in Unfinished
          /\ page' = [page EXCEPT ![ask[q].tab].state = "error"]
          /\ AskEnds(q)
          /\ UNCHANGED press
    /\ UNCHANGED <<typed, sent, stored, hidden, dialog, forgone>>

\* unpublishPressConfig: both documents are switched off, and there is a draft now.
UnpublishPressConfig(q) ==
    /\ AskAt(q, "sent", "unpublish")
    /\ press' = IF stored = {} THEN press
                ELSE [content |-> [press.content EXCEPT !.on = FALSE],
                      draft |-> [Effective EXCEPT !.on = FALSE]]
    /\ hidden' = TRUE
    /\ AskTo(q, "done")
    /\ UNCHANGED <<page, typed, sent, stored, dialog, forgone>>

\* discardPressDraft, and then a SELECT of what is published.
DiscardPressDraft(q) ==
    /\ AskAt(q, "sent", "discard")
    /\ press' = [press EXCEPT !.draft = None]
    /\ AskTo(q, "reread")
    /\ UNCHANGED <<page, typed, sent, stored, hidden, dialog, forgone>>

GetPressConfig(q) ==
    /\ AskAt(q, "reread", "discard")
    /\ ask' = [ask EXCEPT ![q].step = "done", ![q].doc = press.content]
    /\ UNCHANGED <<press, page, typed, sent, stored, hidden, dialog, forgone>>

-----------------------------------------------------------------------------
PressInit ==
    /\ press = [content |-> DefaultPressContent, draft |-> None]
    /\ page = [t \in PressTabs |-> Closed]
    /\ typed = 0
    /\ sent = 0
    /\ ask = [q \in PressCalls |-> NoAsk]
    /\ stored = {}
    /\ hidden = FALSE
    /\ dialog = [t \in PressTabs |-> None]
    /\ forgone = {}

PressNext ==
    \/ \E t \in PressTabs : OpenEditor(t) \/ Edit(t) \/ CancelDialog(t)
    \/ \E q \in PressCalls, t \in PressTabs :
          \/ \E publish \in BOOLEAN : PersistDraft(q, t, publish)
          \/ UnpublishPage(q, t) \/ DiscardDraft(q, t)
    \/ \E q \in PressCalls :
          \/ SaveAnswered(q) \/ PublishAnswered(q) \/ UnpublishAnswered(q) \/ DiscardAnswered(q)
          \/ UpsertPressConfig(q) \/ PublishPressConfig(q) \/ UnpublishPressConfig(q)
          \/ DiscardPressDraft(q) \/ GetPressConfig(q) \/ AskFails(q)

PressSpec == PressInit /\ [][PressNext]_pressVars

-----------------------------------------------------------------------------
(* Properties *)

\* The range of every variable.
PressTypeOK ==
    /\ press \in [content: Docs, draft: Docs \cup {None}]
    /\ \A t \in PressTabs :
          /\ page[t].state \in {"closed", "saved", "unsaved", "saving", "error", "publishing",
                                "published", "unpublishing", "unpublished"}
          /\ page[t].doc \in Docs /\ page[t].rev \in Nat
    /\ typed \in Texts /\ sent \in Nat
    /\ \A q \in PressCalls : ask[q].step \in {"idle", "sent", "reread", "done"} /\ ask[q].doc \in Docs
    /\ stored \subseteq Texts /\ forgone \subseteq Texts
    /\ dialog \in [PressTabs -> Destructive \cup {None}]

\* What was typed into a tab stays there until more is typed, a draft has it or the user
\* discards it: no answer that comes late replaces it.  Lost all the same is what is typed
\* while a discard is on its way, once a late answer has let its dialog be cancelled.
EditsKept ==
    [][\A t \in PressTabs :
          page[t].state # "closed" /\ page'[t].doc.text # page[t].doc.text
              => typed' # typed \/ page[t].doc.text \in stored \cup {0} \cup forgone]_pressVars

\* The page that is on is complete, although another tab may save an unfinished draft
\* between one tab's check of its text and its publish.
PublicIsComplete == press.content.on => press.content.text \notin Unfinished

\* A page taken offline stays so, whatever publish was on its way, until a draft that is
\* on is saved after it.
HiddenStays == hidden => ~press.content.on
=============================================================================
