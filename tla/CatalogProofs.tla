---------------------------- MODULE CatalogProofs ----------------------------
(***************************************************************************)
(* Theorems about PlayoutIngest, Simulcast, PressDraft, PoolRotation and   *)
(* EditorialControl, for any number of calls in flight, films, uploads,    *)
(* destinations, connections, tabs, texts, pool entries, channels and      *)
(* tiers, and every fault.                                                 *)
(***************************************************************************)
EXTENDS PlayoutIngest, Simulcast, PressDraft, PoolRotation, EditorialControl,
        FiniteSetTheorems, SequenceTheorems, WellFoundedInduction, TLAPS

(* PressDraft: what the editor keeps *)

AskRecords ==
    [step: {"idle", "sent", "reread", "done"},
     kind: {None, "save", "publish", "unpublish", "discard"},
     tab: PressTabs \cup {None}, doc: Docs, rev: Nat,
     publish: BOOLEAN, dirty: BOOLEAN]

PageRecords ==
    [state: {"closed", "saved", "unsaved", "saving", "error", "publishing", "published",
             "unpublishing", "unpublished"},
     doc: Docs, rev: Nat, dirty: BOOLEAN]

\* The texts that no answer can lose: those drafts have had, and the empty one.
Kept == stored \cup {0}

\* What the request in a slot says, and how it stands to the tab that waits for it.
AskOK(q) ==
    LET a == ask[q]
        g == page[a.tab]
    IN  a # NoAsk =>
          /\ a.tab \in PressTabs /\ a.step # "idle"
          /\ g.state # "closed" /\ a.rev <= g.rev
          /\ a.step = "done" /\ a.kind = "save" => a.doc.text \in stored
          /\ a.step = "done" /\ a.kind \in {"publish", "discard"} => a.doc.text \in Kept
          /\ a.rev = g.rev /\ a.kind = "save" => g.doc.text \in Kept \cup {a.doc.text}
          /\ a.rev = g.rev /\ a.kind = "publish" => g.doc.text \in Kept
          /\ a.kind = "discard" => g.doc.text \in Kept \cup forgone

PressTypes ==
    /\ press \in [content: Docs, draft: Docs \cup {None}]
    /\ page \in [PressTabs -> PageRecords]
    /\ ask \in [PressCalls -> AskRecords]
    /\ typed \in Texts /\ sent \in Nat /\ stored \subseteq Texts

KeptInv ==
    /\ press.draft # None => press.draft.text \in Kept
    /\ press.content.text \in Kept
    /\ \A q \in PressCalls : AskOK(q)

\* A page that is on was published, and one that is hidden has no draft that is on.
PublicInv ==
    /\ PublicIsComplete
    /\ stored = {} => press.draft = None /\ ~press.content.on
    /\ hidden => ~press.content.on /\ (press.draft # None => ~press.draft.on)

\* What a step may do to the tab t: more is typed, or a text that is kept is shown.  What
\* is typed while a discard is on its way is forgone.
Evolves(t) ==
    page[t].state # "closed" =>
        /\ page'[t].state # "closed"
        /\ page'[t].rev >= page[t].rev
        /\ page'[t].rev = page[t].rev => page'[t].doc.text \in Kept \cup {page[t].doc.text}
        /\ Discarding(t) => page'[t].doc.text \in Kept \cup forgone' \cup {page[t].doc.text}

\* EditsKept, of the tab t.
EditKept(t) ==
    page[t].state # "closed" /\ page'[t].doc.text # page[t].doc.text
        => typed' # typed \/ page[t].doc.text \in stored \cup {0} \cup forgone

PressGoes == PressTypes' /\ KeptInv' /\ PublicInv' /\ \A t \in PressTabs : EditKept(t)

LEMMA NoAskIs ==
  PressAssumption => NoAsk \in AskRecords /\ NoAsk.kind = None /\ NoAsk.tab = None
BY DEF PressAssumption, NoAsk, AskRecords, DefaultPressContent, Docs, Texts

\* A request that is left alone stays right as its tab evolves.
LEMMA AskStays ==
  ASSUME PressTypes, PressTypes', NEW q \in PressCalls, AskOK(q), ask'[q] = ask[q],
         stored \subseteq stored', forgone \subseteq forgone', \A t \in PressTabs : Evolves(t)
  PROVE  AskOK(q)'
<1> SUFFICES ASSUME ask[q] # NoAsk PROVE AskOK(q)'
  BY DEF AskOK, NoAsk
<1> DEFINE a == ask[q]
           g == page[a.tab]
<1>1. a.tab \in PressTabs /\ g.state # "closed" /\ a.rev <= g.rev
  BY DEF AskOK
<1>2. g.rev \in Nat /\ page'[a.tab].rev \in Nat /\ a.rev \in Nat
  BY <1>1 DEF PressTypes, PageRecords, AskRecords
<1>3. /\ page'[a.tab].state # "closed"
      /\ page'[a.tab].rev >= g.rev
      /\ page'[a.tab].rev = g.rev => page'[a.tab].doc.text \in Kept \cup {g.doc.text}
  BY <1>1 DEF Evolves
<1>4. a.rev <= page'[a.tab].rev /\ (a.rev = page'[a.tab].rev => g.rev = page'[a.tab].rev /\ a.rev = g.rev)
  BY <1>1, <1>2, <1>3
<1>5. Kept \subseteq Kept' /\ forgone \subseteq forgone'
  BY DEF Kept
<1>6. a.kind = "discard" => page'[a.tab].doc.text \in Kept' \cup forgone'
  <2>1. SUFFICES ASSUME a.kind = "discard" PROVE page'[a.tab].doc.text \in Kept' \cup forgone'
    OBVIOUS
  <2>2. Discarding(a.tab)
    BY <2>1 DEF Discarding
  <2>3. g.doc.text \in Kept \cup forgone
    BY <2>1 DEF AskOK
  <2> QED
    BY <1>1, <1>5, <2>2, <2>3 DEF Evolves
<1> QED
  BY <1>1, <1>3, <1>4, <1>5, <1>6 DEF AskOK

\* A step of the editor in tab t, with request q or none: the server's part is the same.
LEMMA TabStep ==
  ASSUME PressTypes, KeptInv, PublicInv, NEW t \in PressTabs,
         UNCHANGED <<press, stored, hidden>>, forgone \subseteq forgone',
         PressTypes',
         \A u \in PressTabs : u # t => page'[u] = page[u],
         \A p \in PressCalls : ask'[p] = ask[p] \/ AskOK(p)',
         Evolves(t), EditKept(t)
  PROVE  PressGoes
<1>1. \A u \in PressTabs : Evolves(u) /\ EditKept(u)
  <2> TAKE u \in PressTabs
  <2>1. page[u].rev \in Nat /\ page'[u].rev \in Nat
    BY DEF PressTypes, PageRecords
  <2> QED
    BY <2>1 DEF Evolves, EditKept
<1>2. \A p \in PressCalls : AskOK(p)'
  BY <1>1, AskStays DEF KeptInv
<1>3. KeptInv' /\ PublicInv'
  BY <1>2 DEF KeptInv, PublicInv, PublicIsComplete, Kept
<1> QED
  BY <1>1, <1>3 DEF PressGoes

\* A request that ends satisfies what is asked of one.
LEMMA AskOver ==
  ASSUME PressTypes, NEW q \in PressCalls, AskEnds(q)
  PROVE  /\ AskOK(q)' /\ ask'[q] = NoAsk
         /\ \A p \in PressCalls \ {q} : ask'[p] = ask[p]
BY DEF PressTypes, AskEnds, AskOK

LEMMA PressOpen ==
  ASSUME PressAssumption, PressTypes, KeptInv, PublicInv,
         NEW t \in PressTabs, OpenEditor(t)
  PROVE  PressGoes
<1> DEFINE g == [Closed EXCEPT !.state = "saved", !.doc = Effective]
<1>1. Effective \in Docs
  BY DEF PressTypes, Effective
<1>2. g \in PageRecords
  BY <1>1 DEF PageRecords, Closed
<1> HIDE DEF g
<1>3. page[t].state = "closed" /\ page' = [page EXCEPT ![t] = g]
      /\ UNCHANGED <<press, typed, sent, ask, stored, hidden, forgone>>
  BY DEF OpenEditor, g
<1>4. PressTypes'
  BY <1>2, <1>3 DEF PressTypes
<1>5. Evolves(t) /\ EditKept(t)
  BY <1>3 DEF Evolves, EditKept
<1>6. \A u \in PressTabs : u # t => page'[u] = page[u]
  BY <1>3 DEF PressTypes
<1> QED
  BY <1>3, <1>4, <1>5, <1>6, TabStep

LEMMA PressEdit ==
  ASSUME PressAssumption, PressTypes, KeptInv, PublicInv,
         NEW t \in PressTabs, Edit(t)
  PROVE  PressGoes
<1> DEFINE d == [page[t].doc EXCEPT !.text = typed + 1]
           g == [state |-> "unsaved", doc |-> d, rev |-> page[t].rev + 1, dirty |-> TRUE]
<1>1. page[t] \in PageRecords /\ page[t].doc \in Docs /\ page[t].rev \in Nat
  BY DEF PressTypes, PageRecords
<1>2. typed + 1 \in Texts
  BY DEF PressTypes, Edit, Texts, PressAssumption
<1>3. d \in Docs
  BY <1>1, <1>2 DEF Docs
<1> HIDE DEF d
<1>4. g \in PageRecords /\ g.rev = page[t].rev + 1 /\ g.state = "unsaved"
  BY <1>1, <1>3 DEF PageRecords
<1>5. /\ page' = [page EXCEPT ![t] = g] /\ typed' = typed + 1
      /\ forgone' = IF Discarding(t) THEN forgone \cup {typed + 1} ELSE forgone
      /\ UNCHANGED <<press, sent, ask, stored, hidden>>
  BY DEF Edit, d
<1>9. d.text = typed + 1 /\ g.doc = d /\ typed \in Nat
  BY <1>1 DEF d, Docs, PressTypes, Texts
<1> HIDE DEF g
<1>6. PressTypes'
  BY <1>2, <1>4, <1>5 DEF PressTypes
<1>7. page'[t] = g /\ \A u \in PressTabs : u # t => page'[u] = page[u]
  BY <1>5 DEF PressTypes
<1>8. Evolves(t) /\ EditKept(t)
  BY <1>1, <1>4, <1>5, <1>7, <1>9 DEF Evolves, EditKept
<1> QED
  BY <1>5, <1>6, <1>7, <1>8, TabStep

\* A request that goes out.  A save carries the text that the tab shows.
LEMMA PressSend ==
  ASSUME PressAssumption, PressTypes, KeptInv, PublicInv,
         NEW q \in PressCalls, NEW t \in PressTabs,
         NEW call \in AskRecords, call.kind \in {"save", "unpublish", "discard"},
         call.kind = "save" => call.doc.text = page[t].doc.text,
         NEW state \in {"saving", "unpublishing"}, Send(q, t, call, state),
         forgone' = IF call.kind = "discard" THEN forgone \cup {page[t].doc.text} ELSE forgone
  PROVE  PressGoes
<1> DEFINE a == [call EXCEPT !.step = "sent", !.tab = t,
                             !.rev = page[t].rev, !.dirty = page[t].dirty]
           g == [page[t] EXCEPT !.state = state]
<1>1. page[t] \in PageRecords /\ page[t].rev \in Nat /\ page[t].dirty \in BOOLEAN /\ sent + 1 \in Nat
  BY DEF PressTypes, PageRecords
<1>2. /\ a \in AskRecords /\ a.step = "sent" /\ a.tab = t /\ a.rev = page[t].rev
      /\ a.kind = call.kind /\ a.doc = call.doc
  BY <1>1 DEF AskRecords
<1>3. /\ g \in PageRecords /\ g.state # "closed" /\ g.rev = page[t].rev /\ g.doc = page[t].doc
  BY <1>1 DEF PageRecords
<1>4. /\ page' = [page EXCEPT ![t] = g] /\ ask' = [ask EXCEPT ![q] = a] /\ sent' = sent + 1
      /\ UNCHANGED <<press, typed, stored, hidden>>
  BY DEF Send
<1> HIDE DEF g, a
<1>5. PressTypes'
  BY <1>1, <1>2, <1>3, <1>4 DEF PressTypes
<1>6. /\ page'[t] = g /\ \A u \in PressTabs : u # t => page'[u] = page[u]
      /\ ask'[q] = a /\ \A p \in PressCalls \ {q} : ask'[p] = ask[p]
  BY <1>4 DEF PressTypes
<1>7. Evolves(t) /\ EditKept(t)
  BY <1>1, <1>3, <1>6 DEF Evolves, EditKept
<1>8. AskOK(q)'
  BY <1>1, <1>2, <1>3, <1>6, PressTypes' DEF AskOK, Kept
<1> QED
  BY <1>4, <1>5, <1>6, <1>7, <1>8, TabStep

LEMMA PressSaveAnswered ==
  ASSUME PressAssumption, PressTypes, KeptInv, PublicInv,
         NEW q \in PressCalls, SaveAnswered(q)
  PROVE  PressGoes
<1> DEFINE a == ask[q]
           t == a.tab
<1>1. /\ a.step = "done" /\ a.kind = "save" /\ a # NoAsk /\ a \in AskRecords
      /\ a.doc \in Docs /\ a.rev \in Nat /\ a.publish \in BOOLEAN
  BY DEF SaveAnswered, AskAt, NoAsk, PressTypes, AskRecords
<1>2. /\ t \in PressTabs /\ page[t].state # "closed" /\ a.rev <= page[t].rev
      /\ a.doc.text \in stored
      /\ a.rev = page[t].rev => page[t].doc.text \in Kept \cup {a.doc.text}
  BY <1>1 DEF KeptInv, AskOK
<1>3. page[t] \in PageRecords /\ page[t].rev \in Nat
  BY <1>2 DEF PressTypes, PageRecords
<1>4. ASSUME page[t].rev # a.rev, page' = [page EXCEPT ![t].state = "unsaved"], AskEnds(q),
             UNCHANGED <<press, typed, sent, stored, hidden, forgone>>
      PROVE  PressGoes
  <2>1. AskOK(q)' /\ ask'[q] = NoAsk /\ \A p \in PressCalls \ {q} : ask'[p] = ask[p]
    BY <1>4, AskOver
  <2>2. PressTypes'
    BY <1>3, <1>4, NoAskIs DEF PressTypes, PageRecords, AskEnds
  <2>3. Evolves(t) /\ EditKept(t)
    BY <1>2, <1>3, <1>4 DEF Evolves, EditKept, PressTypes
  <2> QED
    BY <1>2, <1>4, <2>1, <2>2, <2>3, TabStep DEF PressTypes
<1>5. ASSUME page[t].rev = a.rev, NEW s \in {"publishing", "saved"},
             page' = [page EXCEPT ![t] = [page[t] EXCEPT !.doc = a.doc, !.dirty = FALSE,
                                                         !.state = s]],
             PressTypes', \A p \in PressCalls \ {q} : ask'[p] = ask[p],
             \/ AskEnds(q)
             \/ ask'[q] = [a EXCEPT !.step = "sent", !.kind = "publish"],
             UNCHANGED <<press, typed, stored, hidden, forgone>>
      PROVE  PressGoes
  <2> DEFINE g == [page[t] EXCEPT !.doc = a.doc, !.dirty = FALSE, !.state = s]
  <2>1. g.state = s /\ g.rev = page[t].rev /\ g.doc = a.doc
    BY <1>3 DEF PageRecords
  <2>2. page'[t] = g
    BY <1>2, <1>5 DEF PressTypes
  <2> HIDE DEF g
  <2>3. Evolves(t) /\ EditKept(t)
    BY <1>2, <1>3, <1>5, <2>1, <2>2 DEF Evolves, EditKept, Kept
  <2>4. AskOK(q)'
    <3>1. CASE AskEnds(q)
      BY <3>1, AskOver
    <3>2. CASE ask'[q] = [a EXCEPT !.step = "sent", !.kind = "publish"]
      <4>1. ask'[q].step = "sent" /\ ask'[q].kind = "publish" /\ ask'[q].tab = t /\ ask'[q].rev = a.rev
        BY <1>1, <3>2 DEF AskRecords
      <4> QED
        BY <1>2, <1>3, <1>5, <2>1, <2>2, <4>1 DEF AskOK, Kept
    <3> QED
      BY <1>5, <3>1, <3>2
  <2> QED
    BY <1>2, <1>5, <2>3, <2>4, TabStep DEF PressTypes
<1>6. ASSUME page[t].rev = a.rev,
             page' = [page EXCEPT ![t] = [page[t] EXCEPT !.doc = a.doc, !.dirty = FALSE,
                          !.state = IF a.publish THEN "publishing" ELSE "saved"]],
             IF a.publish
             THEN /\ sent' = sent + 1
                  /\ ask' = [ask EXCEPT ![q] = [a EXCEPT !.step = "sent", !.kind = "publish"]]
             ELSE AskEnds(q) /\ UNCHANGED sent,
             UNCHANGED <<press, typed, stored, hidden, forgone>>
      PROVE  PressGoes
  <2> PICK s \in {"publishing", "saved"} :
        page' = [page EXCEPT ![t] = [page[t] EXCEPT !.doc = a.doc, !.dirty = FALSE, !.state = s]]
    BY <1>6
  <2>1. [page[t] EXCEPT !.doc = a.doc, !.dirty = FALSE, !.state = s] \in PageRecords
    BY <1>1, <1>3 DEF PageRecords
  <2>2. [a EXCEPT !.step = "sent", !.kind = "publish"] \in AskRecords
    <3>1. sent + 1 \in Nat
      BY DEF PressTypes
    <3> HIDE DEF a
    <3> QED
      BY <1>1, <3>1 DEF AskRecords
  <2>3. PressTypes' /\ \A p \in PressCalls \ {q} : ask'[p] = ask[p]
    <3>1. /\ ask' \in [PressCalls -> AskRecords] /\ sent' \in Nat
          /\ \A p \in PressCalls \ {q} : ask'[p] = ask[p]
      BY <1>6, <2>2, NoAskIs DEF PressTypes, AskEnds
    <3>2. page' \in [PressTabs -> PageRecords]
      BY <2>1 DEF PressTypes
    <3> QED
      BY <1>6, <3>1, <3>2 DEF PressTypes
  <2>4. AskEnds(q) \/ ask'[q] = [a EXCEPT !.step = "sent", !.kind = "publish"]
    BY <1>6 DEF PressTypes
  <2> QED
    BY <1>5, <1>6, <2>3, <2>4
<1> QED
  BY <1>4, <1>6 DEF SaveAnswered

\* The other answers: request q is over, and its tab shows the same text or one that is
\* kept in the place of one that is.
LEMMA PressAnswer ==
  ASSUME PressAssumption, PressTypes, KeptInv, PublicInv, NEW q \in PressCalls, AskEnds(q),
         UNCHANGED <<press, typed, sent, stored, hidden, forgone>>,
         ask[q].tab \in PressTabs,
         page' \in [PressTabs -> PageRecords],
         \A u \in PressTabs : u # ask[q].tab => page'[u] = page[u],
         page'[ask[q].tab].state # "closed",
         page'[ask[q].tab].rev >= page[ask[q].tab].rev,
         page'[ask[q].tab].rev = page[ask[q].tab].rev =>
            \/ page'[ask[q].tab].doc.text = page[ask[q].tab].doc.text
            \/ page'[ask[q].tab].doc.text \in Kept /\ page[ask[q].tab].doc.text \in Kept,
         page'[ask[q].tab].rev # page[ask[q].tab].rev =>
            page'[ask[q].tab].doc.text \in Kept /\ page[ask[q].tab].doc.text \in Kept \cup forgone
  PROVE  PressGoes
<1>1. AskOK(q)' /\ ask'[q] = NoAsk /\ \A p \in PressCalls \ {q} : ask'[p] = ask[p]
  BY AskOver
<1>2. PressTypes'
  BY NoAskIs DEF PressTypes, AskEnds
<1>3. Evolves(ask[q].tab) /\ EditKept(ask[q].tab)
  BY DEF Evolves, EditKept, Kept
<1> QED
  BY <1>1, <1>2, <1>3, TabStep

\* A request that is answered is one, of a tab that is open.
LEMMA Answered ==
  ASSUME PressTypes, KeptInv, NEW q \in PressCalls, ask[q].step # "idle" \/ ask[q] # NoAsk
  PROVE  /\ ask[q] # NoAsk /\ ask[q] \in AskRecords /\ ask[q].tab \in PressTabs
         /\ ask[q].doc \in Docs /\ ask[q].rev \in Nat
         /\ page[ask[q].tab] \in PageRecords /\ page[ask[q].tab].state # "closed"
         /\ page[ask[q].tab].rev \in Nat /\ page[ask[q].tab].doc \in Docs
         /\ ask[q].rev <= page[ask[q].tab].rev
<1>1. ask[q] # NoAsk /\ ask[q] \in AskRecords
  BY DEF NoAsk, PressTypes
<1>2. ask[q].tab \in PressTabs /\ page[ask[q].tab].state # "closed"
      /\ ask[q].rev <= page[ask[q].tab].rev
  BY <1>1 DEF KeptInv, AskOK
<1> QED
  BY <1>1, <1>2 DEF PressTypes, AskRecords, PageRecords

LEMMA PressOtherAnswers ==
  ASSUME PressAssumption, PressTypes, KeptInv, PublicInv, NEW q \in PressCalls,
         PublishAnswered(q) \/ UnpublishAnswered(q) \/ DiscardAnswered(q) \/ AskFails(q)
  PROVE  PressGoes
<1> DEFINE a == ask[q]
           t == a.tab
<1>0. /\ a # NoAsk /\ a \in AskRecords /\ t \in PressTabs /\ a.doc \in Docs /\ a.rev \in Nat
      /\ page[t] \in PageRecords /\ page[t].state # "closed" /\ page[t].rev \in Nat
      /\ page[t].doc \in Docs /\ a.rev <= page[t].rev
  BY Answered DEF PublishAnswered, UnpublishAnswered, DiscardAnswered, AskFails, AskAt
<1>1. CASE PublishAnswered(q)
  <2> DEFINE g == IF page[t].rev # a.rev THEN [page[t] EXCEPT !.state = "unsaved"]
                  ELSE [page[t] EXCEPT !.doc = a.doc, !.dirty = FALSE, !.state = "published"]
  <2>1. a.step = "done" /\ a.kind = "publish"
    BY <1>1 DEF PublishAnswered, AskAt
  <2>2. a.doc.text \in Kept /\ (a.rev = page[t].rev => page[t].doc.text \in Kept)
    BY <1>0, <2>1 DEF KeptInv, AskOK
  <2>3. /\ g \in PageRecords /\ g.state # "closed" /\ g.rev = page[t].rev
        /\ page[t].rev # a.rev => g.doc = page[t].doc
        /\ page[t].rev = a.rev => g.doc = a.doc
    <3>1. CASE page[t].rev # a.rev
      BY <1>0, <3>1 DEF PageRecords
    <3>2. CASE page[t].rev = a.rev
      BY <1>0, <3>2 DEF PageRecords
    <3> QED
      BY <3>1, <3>2
  <2>4. /\ page' = [page EXCEPT ![t] = g] /\ AskEnds(q)
        /\ UNCHANGED <<press, typed, sent, stored, hidden, forgone>>
    BY <1>1 DEF PublishAnswered
  <2> HIDE DEF g
  <2>5. page'[t] = g /\ \A u \in PressTabs : u # t => page'[u] = page[u]
    BY <1>0, <2>4 DEF PressTypes
  <2> QED
    BY <1>0, <2>2, <2>3, <2>4, <2>5, PressAnswer DEF PressTypes
<1>2. CASE UnpublishAnswered(q)
  <2> PICK s \in {"unsaved", "unpublished"} :
        page' = [page EXCEPT ![t] = [page[t] EXCEPT !.doc.on = FALSE, !.state = s]]
    BY <1>2 DEF UnpublishAnswered
  <2> DEFINE d == [page[t].doc EXCEPT !.on = FALSE]
             g == [page[t] EXCEPT !.doc = d, !.state = s]
  <2>1. d \in Docs /\ d.text = page[t].doc.text
    BY <1>0 DEF Docs
  <2>2. page' = [page EXCEPT ![t] = g]
    OBVIOUS
  <2> HIDE DEF d
  <2>3. g \in PageRecords /\ g.state # "closed" /\ g.rev = page[t].rev /\ g.doc = d
    BY <1>0, <2>1 DEF PageRecords
  <2>4. AskEnds(q) /\ UNCHANGED <<press, typed, sent, stored, hidden, forgone>>
    BY <1>2 DEF UnpublishAnswered
  <2> HIDE DEF g
  <2>5. page'[t] = g /\ \A u \in PressTabs : u # t => page'[u] = page[u]
    BY <1>0, <2>2 DEF PressTypes
  <2>6. /\ page' \in [PressTabs -> PageRecords]
        /\ page'[t].state # "closed" /\ page'[t].rev = page[t].rev /\ page'[t].rev >= page[t].rev
        /\ page'[t].doc.text = page[t].doc.text
    BY <1>0, <2>1, <2>2, <2>3, <2>5 DEF PressTypes
  <2> QED
    BY <1>0, <2>4, <2>5, <2>6, PressAnswer
<1>3. CASE DiscardAnswered(q)
  <2> DEFINE g == [state |-> "saved", doc |-> a.doc, rev |-> page[t].rev + 1, dirty |-> FALSE]
  <2>1. g \in PageRecords /\ g.state # "closed" /\ g.rev = page[t].rev + 1
    BY <1>0 DEF PageRecords
  <2>2. /\ page' = [page EXCEPT ![t] = g] /\ AskEnds(q)
        /\ UNCHANGED <<press, typed, sent, stored, hidden, forgone>>
    BY <1>3 DEF DiscardAnswered
  <2> HIDE DEF g
  <2>3. page'[t] = g /\ \A u \in PressTabs : u # t => page'[u] = page[u]
    BY <1>0, <2>2 DEF PressTypes
  <2>4. a.doc.text \in Kept /\ page[t].doc.text \in Kept \cup forgone
    BY <1>0, <1>3 DEF DiscardAnswered, AskAt, KeptInv, AskOK
  <2>5. g.doc = a.doc
    BY DEF g
  <2> QED
    BY <1>0, <2>1, <2>2, <2>3, <2>4, <2>5, PressAnswer DEF PressTypes
<1>4. CASE AskFails(q)
  <2> DEFINE g == [page[t] EXCEPT !.state = "error"]
  <2>1. g \in PageRecords /\ g.state # "closed" /\ g.rev = page[t].rev /\ g.doc = page[t].doc
    BY <1>0 DEF PageRecords
  <2>2. /\ page' = [page EXCEPT ![t] = g] /\ AskEnds(q)
        /\ UNCHANGED <<press, typed, sent, stored, hidden, forgone>>
    BY <1>4 DEF AskFails
  <2> HIDE DEF g
  <2>3. page'[t] = g /\ \A u \in PressTabs : u # t => page'[u] = page[u]
    BY <1>0, <2>2 DEF PressTypes
  <2> QED
    BY <1>0, <2>1, <2>2, <2>3, PressAnswer DEF PressTypes
<1> QED
  BY <1>1, <1>2, <1>3, <1>4

\* A step of the server on request q: the tabs do not change, but for an error that one shows.
LEMMA ServerStep ==
  ASSUME PressTypes, KeptInv, PressTypes', NEW q \in PressCalls,
         \A p \in PressCalls \ {q} : ask'[p] = ask[p], AskOK(q)',
         stored \subseteq stored', UNCHANGED forgone,
         \/ UNCHANGED page
         \/ page' = [page EXCEPT ![ask[q].tab].state = "error"],
         press'.draft # None => press'.draft.text \in Kept',
         press'.content.text \in Kept'
  PROVE  KeptInv' /\ \A t \in PressTabs : EditKept(t)
<1>1. \A t \in PressTabs : Evolves(t) /\ EditKept(t)
  <2> TAKE t \in PressTabs
  <2>1. page[t] \in PageRecords /\ page[t].rev \in Nat
    BY DEF PressTypes, PageRecords
  <2>2. page'[t].rev = page[t].rev /\ page'[t].doc = page[t].doc
        /\ (page[t].state # "closed" => page'[t].state # "closed")
    BY <2>1 DEF PressTypes, PageRecords
  <2> QED
    BY <2>1, <2>2 DEF Evolves, EditKept
<1>2. \A p \in PressCalls : AskOK(p)'
  BY <1>1, AskStays DEF KeptInv
<1> QED
  BY <1>1, <1>2 DEF KeptInv

\* Request q goes on to another step with document d.
LEMMA AskGoesOn ==
  ASSUME PressTypes, KeptInv, NEW q \in PressCalls, ask[q] # NoAsk, ask[q].step = "sent" \/ ask[q].step = "reread",
         NEW s \in {"reread", "done"}, NEW d \in Docs,
         ask' = [ask EXCEPT ![q] = [ask[q] EXCEPT !.step = s, !.doc = d]],
         ask[q].kind = "save" => d = ask[q].doc /\ d.text \in stored',
         s = "done" /\ ask[q].kind \in {"publish", "discard"} => d.text \in Kept',
         stored \subseteq stored', UNCHANGED <<page, forgone>>
  PROVE  /\ ask' \in [PressCalls -> AskRecords] /\ AskOK(q)'
         /\ \A p \in PressCalls \ {q} : ask'[p] = ask[p]
<1> DEFINE a == [ask[q] EXCEPT !.step = s, !.doc = d]
<1>1. /\ a \in AskRecords /\ a.step = s /\ a.doc = d /\ a.kind = ask[q].kind
      /\ a.tab = ask[q].tab /\ a.rev = ask[q].rev
  <2> DEFINE b == ask[q]
  <2>1. b \in AskRecords
    BY DEF PressTypes
  <2> HIDE DEF b
  <2>2. [b EXCEPT !.step = s, !.doc = d] \in AskRecords
    BY <2>1 DEF AskRecords
  <2>3. /\ [b EXCEPT !.step = s, !.doc = d].step = s /\ [b EXCEPT !.step = s, !.doc = d].doc = d
        /\ [b EXCEPT !.step = s, !.doc = d].kind = b.kind
        /\ [b EXCEPT !.step = s, !.doc = d].tab = b.tab
        /\ [b EXCEPT !.step = s, !.doc = d].rev = b.rev
    BY <2>1 DEF AskRecords
  <2> QED
    BY <2>2, <2>3 DEF b
<1> HIDE DEF a
<1>2. ask' = [ask EXCEPT ![q] = a]
  BY DEF a
<1>3. ask' \in [PressCalls -> AskRecords] /\ ask'[q] = a
      /\ \A p \in PressCalls \ {q} : ask'[p] = ask[p]
  BY <1>1, <1>2 DEF PressTypes
<1>4. AskOK(q)
  BY DEF KeptInv
<1>5. Kept \subseteq Kept'
  BY DEF Kept
<1> QED
  BY <1>1, <1>3, <1>4, <1>5 DEF AskOK

LEMMA PressUpsert ==
  ASSUME PressAssumption, PressTypes, KeptInv, PublicInv,
         NEW q \in PressCalls, UpsertPressConfig(q)
  PROVE  PressGoes
<1> DEFINE a == ask[q]
<1>1. /\ a.step = "sent" /\ a.kind = "save"
      /\ press' = [press EXCEPT !.draft = a.doc]
      /\ stored' = stored \cup {a.doc.text}
      /\ hidden' = (hidden /\ ~a.doc.on)
      /\ ask' = [ask EXCEPT ![q].step = "done"]
      /\ UNCHANGED <<page, typed, sent, forgone>>
  BY DEF UpsertPressConfig, AskAt, AskTo
<1>2. a # NoAsk /\ a \in AskRecords /\ a.doc \in Docs /\ a.doc.text \in Texts
  BY <1>1, Answered DEF Docs
<1>3. ask' = [ask EXCEPT ![q] = [a EXCEPT !.step = "done", !.doc = a.doc]]
  <2>1. [a EXCEPT !.step = "done"] = [a EXCEPT !.step = "done", !.doc = a.doc]
    BY <1>2 DEF AskRecords
  <2> QED
    BY <1>1, <2>1
<1>4. /\ ask' \in [PressCalls -> AskRecords] /\ AskOK(q)'
      /\ \A p \in PressCalls \ {q} : ask'[p] = ask[p]
  BY <1>1, <1>2, <1>3, AskGoesOn
<1>5. /\ press'.draft = a.doc /\ press'.content = press.content
      /\ press' \in [content: Docs, draft: Docs \cup {None}]
  BY <1>1, <1>2 DEF PressTypes
<1>6. PressTypes'
  BY <1>1, <1>2, <1>4, <1>5 DEF PressTypes
<1>7. press'.draft.text \in Kept' /\ press'.content.text \in Kept'
  BY <1>1, <1>5 DEF KeptInv, Kept
<1>8. KeptInv' /\ \A t \in PressTabs : EditKept(t)
  BY <1>1, <1>4, <1>6, <1>7, ServerStep
<1>9. PublicInv'
  BY <1>1, <1>5 DEF PublicInv, PublicIsComplete
<1> QED
  BY <1>6, <1>8, <1>9 DEF PressGoes

LEMMA PressPublish ==
  ASSUME PressAssumption, PressTypes, KeptInv, PublicInv,
         NEW q \in PressCalls, PublishPressConfig(q)
  PROVE  PressGoes
<1> DEFINE a == ask[q]
<1>1. /\ a.step = "sent" /\ a.kind = "publish"
      /\ UNCHANGED <<typed, sent, stored, hidden, forgone>>
  BY DEF PublishPressConfig, AskAt
<1>2. /\ a # NoAsk /\ a \in AskRecords /\ a.doc \in Docs /\ a.tab \in PressTabs
      /\ page[a.tab] \in PageRecords /\ Effective \in Docs /\ Effective.text \in Kept
  BY <1>1, Answered DEF PressTypes, Effective, KeptInv
<1>3. CASE /\ press.draft = None \/ Effective.text \notin Unfinished
           /\ press' = [content |-> Effective, draft |-> None]
           /\ ask' = [ask EXCEPT ![q].step = "done", ![q].doc = Effective]
           /\ UNCHANGED page
  <2>1. ask' = [ask EXCEPT ![q] = [a EXCEPT !.step = "done", !.doc = Effective]]
    BY <1>3 DEF PressTypes
  <2>2. /\ ask' \in [PressCalls -> AskRecords] /\ AskOK(q)'
        /\ \A p \in PressCalls \ {q} : ask'[p] = ask[p]
    BY <1>1, <1>2, <1>3, <2>1, AskGoesOn DEF Kept
  <2>3. /\ press'.content = Effective /\ press'.draft = None
        /\ press' \in [content: Docs, draft: Docs \cup {None}]
    BY <1>2, <1>3
  <2>4. PressTypes'
    BY <1>1, <1>3, <2>2, <2>3 DEF PressTypes
  <2>5. KeptInv' /\ \A t \in PressTabs : EditKept(t)
    BY <1>1, <1>2, <1>3, <2>2, <2>3, <2>4, ServerStep DEF Kept
  <2>6. PublicInv'
    BY <1>1, <1>3, <2>3 DEF PublicInv, PublicIsComplete, Effective
  <2> QED
    BY <2>4, <2>5, <2>6 DEF PressGoes
<1>4. CASE /\ page' = [page EXCEPT ![a.tab].state = "error"]
           /\ AskEnds(q)
           /\ UNCHANGED press
  <2>1. /\ AskOK(q)' /\ \A p \in PressCalls \ {q} : ask'[p] = ask[p]
        /\ ask' \in [PressCalls -> AskRecords]
    BY <1>4, AskOver, NoAskIs DEF AskEnds, PressTypes
  <2>2. page' \in [PressTabs -> PageRecords]
    BY <1>2, <1>4 DEF PressTypes, PageRecords
  <2>3. PressTypes'
    BY <1>1, <1>4, <2>1, <2>2 DEF PressTypes
  <2>4. KeptInv' /\ \A t \in PressTabs : EditKept(t)
    BY <1>1, <1>4, <2>1, <2>3, ServerStep DEF Kept, KeptInv
  <2>5. PublicInv'
    BY <1>1, <1>4 DEF PublicInv, PublicIsComplete
  <2> QED
    BY <2>3, <2>4, <2>5 DEF PressGoes
<1> QED
  BY <1>3, <1>4 DEF PublishPressConfig

LEMMA PressUnpublish ==
  ASSUME PressAssumption, PressTypes, KeptInv, PublicInv,
         NEW q \in PressCalls, UnpublishPressConfig(q)
  PROVE  PressGoes
<1> DEFINE a == ask[q]
           c == [press.content EXCEPT !.on = FALSE]
           d == [Effective EXCEPT !.on = FALSE]
<1>1. /\ a.step = "sent" /\ a.kind = "unpublish"
      /\ press' = IF stored = {} THEN press ELSE [content |-> c, draft |-> d]
      /\ hidden' = TRUE
      /\ ask' = [ask EXCEPT ![q].step = "done"]
      /\ UNCHANGED <<page, typed, sent, stored, forgone>>
  BY DEF UnpublishPressConfig, AskAt, AskTo
<1>2. /\ a # NoAsk /\ a \in AskRecords /\ a.doc \in Docs
      /\ Effective \in Docs /\ Effective.text \in Kept /\ press.content \in Docs
  BY <1>1, Answered DEF PressTypes, Effective, KeptInv
<1>3. /\ c \in Docs /\ c.text = press.content.text /\ ~c.on
      /\ d \in Docs /\ d.text = Effective.text /\ ~d.on
  BY <1>2 DEF Docs
<1> HIDE DEF c, d
<1>4. ask' = [ask EXCEPT ![q] = [a EXCEPT !.step = "done", !.doc = a.doc]]
  <2>1. [a EXCEPT !.step = "done"] = [a EXCEPT !.step = "done", !.doc = a.doc]
    BY <1>2 DEF AskRecords
  <2> QED
    BY <1>1, <2>1
<1>5. /\ ask' \in [PressCalls -> AskRecords] /\ AskOK(q)'
      /\ \A p \in PressCalls \ {q} : ask'[p] = ask[p]
  BY <1>1, <1>2, <1>4, AskGoesOn
<1>6. /\ press' \in [content: Docs, draft: Docs \cup {None}]
      /\ press'.draft # None => press'.draft.text \in Kept
      /\ press'.content.text \in Kept
  <2>1. CASE stored = {}
    BY <1>1, <2>1 DEF PressTypes, KeptInv
  <2>2. CASE stored # {}
    BY <1>1, <1>2, <1>3, <2>2 DEF KeptInv
  <2> QED
    BY <2>1, <2>2
<1>7. PressTypes'
  BY <1>1, <1>5, <1>6 DEF PressTypes
<1>8. KeptInv' /\ \A t \in PressTabs : EditKept(t)
  BY <1>1, <1>5, <1>6, <1>7, ServerStep DEF Kept
<1>9. PublicInv'
  <2>1. CASE stored = {}
    BY <1>1, <2>1 DEF PublicInv, PublicIsComplete
  <2>2. CASE stored # {}
    <3>1. press'.content = c /\ press'.draft = d
      BY <1>1, <2>2
    <3> QED
      BY <1>1, <1>3, <2>2, <3>1 DEF PublicInv, PublicIsComplete
  <2> QED
    BY <2>1, <2>2
<1> QED
  BY <1>7, <1>8, <1>9 DEF PressGoes

LEMMA PressDiscard ==
  ASSUME PressAssumption, PressTypes, KeptInv, PublicInv,
         NEW q \in PressCalls, DiscardPressDraft(q) \/ GetPressConfig(q)
  PROVE  PressGoes
<1> DEFINE a == ask[q]
<1>1. /\ a.step \in {"sent", "reread"} /\ a.kind = "discard"
      /\ UNCHANGED <<page, typed, sent, stored, hidden, forgone>>
  BY DEF DiscardPressDraft, GetPressConfig, AskAt
<1>2. a # NoAsk /\ a \in AskRecords /\ a.doc \in Docs /\ press.content \in Docs
  BY <1>1, Answered DEF PressTypes
<1>3. PICK s \in {"reread", "done"}, d \in Docs :
        /\ ask' = [ask EXCEPT ![q] = [a EXCEPT !.step = s, !.doc = d]]
        /\ s = "done" => d.text \in Kept
  <2>1. CASE DiscardPressDraft(q)
    <3>1. [a EXCEPT !.step = "reread"] = [a EXCEPT !.step = "reread", !.doc = a.doc]
      BY <1>2 DEF AskRecords
    <3> QED
      BY <1>2, <2>1, <3>1 DEF DiscardPressDraft, AskTo
  <2>2. CASE GetPressConfig(q)
    <3>1. ask' = [ask EXCEPT ![q] = [a EXCEPT !.step = "done", !.doc = press.content]]
      BY <2>2 DEF GetPressConfig, PressTypes
    <3> QED
      BY <1>2, <3>1 DEF KeptInv
  <2> QED
    BY <2>1, <2>2
<1>4. /\ ask' \in [PressCalls -> AskRecords] /\ AskOK(q)'
      /\ \A p \in PressCalls \ {q} : ask'[p] = ask[p]
  BY <1>1, <1>2, <1>3, AskGoesOn DEF Kept
<1>5. /\ press' \in [content: Docs, draft: Docs \cup {None}]
      /\ press'.content = press.content
      /\ press'.draft = press.draft \/ press'.draft = None
  BY DEF DiscardPressDraft, GetPressConfig, PressTypes
<1>6. PressTypes'
  BY <1>1, <1>4, <1>5 DEF PressTypes
<1>7. KeptInv' /\ \A t \in PressTabs : EditKept(t)
  BY <1>1, <1>4, <1>5, <1>6, ServerStep DEF Kept, KeptInv
<1>8. PublicInv'
  BY <1>1, <1>5 DEF PublicInv, PublicIsComplete
<1> QED
  BY <1>6, <1>7, <1>8 DEF PressGoes

LEMMA PressSends ==
  ASSUME PressAssumption, PressTypes, KeptInv, PublicInv, NEW q \in PressCalls, NEW t \in PressTabs,
         \/ \E publish \in BOOLEAN : PersistDraft(q, t, publish)
         \/ UnpublishPage(q, t) \/ DiscardDraft(q, t)
  PROVE  PressGoes
<1>1. ASSUME NEW publish \in BOOLEAN, PersistDraft(q, t, publish) PROVE PressGoes
  <2> DEFINE d == [page[t].doc EXCEPT !.on = page[t].doc.on \/ publish]
             call == [NoAsk EXCEPT !.kind = "save", !.publish = publish, !.doc = d]
  <2>1. page[t].doc \in Docs
    BY DEF PressTypes, PageRecords
  <2>2. d \in Docs /\ d.text = page[t].doc.text
    BY <2>1 DEF Docs
  <2>3. Send(q, t, call, "saving") /\ UNCHANGED forgone
    BY <1>1 DEF PersistDraft
  <2> HIDE DEF d
  <2>4. call \in AskRecords /\ call.kind = "save" /\ call.doc = d
    BY <2>2, NoAskIs DEF AskRecords
  <2> HIDE DEF call
  <2> QED
    BY <2>2, <2>3, <2>4, PressSend
<1>2. ASSUME NEW k \in {"unpublish", "discard"}, NEW s \in {"saving", "unpublishing"},
             Send(q, t, [NoAsk EXCEPT !.kind = k], s),
             forgone' = IF k = "discard" THEN forgone \cup {page[t].doc.text} ELSE forgone
      PROVE  PressGoes
  <2> DEFINE call == [NoAsk EXCEPT !.kind = k]
  <2>1. call \in AskRecords /\ call.kind = k
    BY NoAskIs DEF AskRecords
  <2>2. Send(q, t, call, s)
    BY <1>2
  <2> HIDE DEF call
  <2> QED
    BY <1>2, <2>1, <2>2, PressSend
<1>3. CASE UnpublishPage(q, t)
  BY <1>2, <1>3 DEF UnpublishPage, Confirm
<1>4. CASE DiscardDraft(q, t)
  BY <1>2, <1>4 DEF DiscardDraft, Confirm
<1> QED
  BY <1>1, <1>3, <1>4

\* The dialog is looked at by nothing that is proved of the texts.
LEMMA PressCancel ==
  ASSUME PressTypes, KeptInv, PublicInv, NEW t \in PressTabs, CancelDialog(t)
  PROVE  PressGoes
BY DEF CancelDialog, PressGoes, PressTypes, KeptInv, AskOK, Kept, PublicInv, PublicIsComplete,
   EditKept

LEMMA PressStep ==
  ASSUME PressAssumption, PressTypes, KeptInv, PublicInv, [PressNext]_pressVars
  PROVE  PressGoes
<1>1. CASE UNCHANGED pressVars
  BY <1>1 DEF pressVars, PressGoes, PressTypes, KeptInv, AskOK, Kept, PublicInv,
     PublicIsComplete, EditKept
<1>2. CASE PressNext
  BY <1>2, PressOpen, PressEdit, PressCancel, PressSends, PressSaveAnswered, PressOtherAnswers,
     PressUpsert, PressPublish, PressUnpublish, PressDiscard DEF PressNext
<1> QED
  BY <1>1, <1>2

LEMMA PressStart == PressAssumption /\ PressInit => PressTypes /\ KeptInv /\ PublicInv
<1> SUFFICES ASSUME PressAssumption, PressInit PROVE PressTypes /\ KeptInv /\ PublicInv
  OBVIOUS
<1>1. DefaultPressContent \in Docs /\ DefaultPressContent.text = 0 /\ ~DefaultPressContent.on
  BY DEF DefaultPressContent, Docs, Texts, PressAssumption
<1>2. Closed \in PageRecords
  BY <1>1 DEF Closed, PageRecords
<1>3. PressTypes
  BY <1>1, <1>2, NoAskIs DEF PressInit, PressTypes, Texts, PressAssumption
<1>4. KeptInv /\ PublicInv
  BY <1>1 DEF PressInit, KeptInv, PublicInv, PublicIsComplete, AskOK, Kept
<1> QED
  BY <1>3, <1>4

\* press.ts and -press-editor.tsx: whatever the order in which requests are answered, and
\* however many tabs there are, a text that was typed is replaced only when a draft has
\* had it, by typing, or by a discard that was confirmed over it or was on its way when it
\* was typed.
THEOREM NoEditLost == PressSpec => EditsKept
<1>1. PressInit => PressTypes /\ KeptInv /\ PublicInv
  BY PressStart, PressAssumption
<1>2. PressTypes /\ KeptInv /\ PublicInv /\ [PressNext]_pressVars
        => (PressTypes /\ KeptInv /\ PublicInv)'
  BY PressStep, PressAssumption DEF PressGoes
<1>3. PressTypes /\ KeptInv /\ PublicInv /\ [PressNext]_pressVars =>
        [\A t \in PressTabs :
            page[t].state # "closed" /\ page'[t].doc.text # page[t].doc.text
               => typed' # typed \/ page[t].doc.text \in stored \cup {0} \cup forgone]_pressVars
  BY PressStep, PressAssumption DEF PressGoes, EditKept
<1> QED
  BY <1>1, <1>2, <1>3, PTL DEF PressSpec, EditsKept

\* press.ts: a page that visitors see was complete when it was published, whichever tab
\* saved the draft last.
THEOREM PublishedComplete == PressSpec => []PublicIsComplete
<1>1. PressInit => PressTypes /\ KeptInv /\ PublicInv
  BY PressStart, PressAssumption
<1>2. PressTypes /\ KeptInv /\ PublicInv /\ [PressNext]_pressVars
        => (PressTypes /\ KeptInv /\ PublicInv)'
  BY PressStep, PressAssumption DEF PressGoes
<1>3. PublicInv => PublicIsComplete
  BY DEF PublicInv
<1> QED
  BY <1>1, <1>2, <1>3, PTL DEF PressSpec

\* press.ts: after a page was taken offline no request that is late brings it back.
THEOREM StaysHidden == PressSpec => []HiddenStays
<1>1. PressInit => PressTypes /\ KeptInv /\ PublicInv
  BY PressStart, PressAssumption
<1>2. PressTypes /\ KeptInv /\ PublicInv /\ [PressNext]_pressVars
        => (PressTypes /\ KeptInv /\ PublicInv)'
  BY PressStep, PressAssumption DEF PressGoes
<1>3. PublicInv => HiddenStays
  BY DEF PublicInv, HiddenStays
<1> QED
  BY <1>1, <1>2, <1>3, PTL DEF PressSpec

-----------------------------------------------------------------------------
(* Simulcast *)

FeedRecords ==
    [step: {"off", "classify", "urls", "answer", "live"}, cid: 0..MaxConnections,
     as: Feeds \cup {None}, to: SUBSET (Dests \cup {Liquidsoap}), owed: BOOLEAN]

ChangeRecords ==
    [step: {"idle", "names", "list", "kick", "insert"}, owner: Hosts \cup {None},
     names: SUBSET Feeds, kicks: SUBSET (Feeds \X (1..MaxConnections))]

\* Connections have numbers of their own: one that hangs up is no publisher's any more.
FeedOK(s) ==
    LET f == feed[s]
    IN  /\ f.step = "off" => f = OffAir
        /\ f.step # "off" => f.cid \in 1..opened
        /\ f.step # "off" /\ s \in Hosts =>
              <<s, f.cid>> \in sessions /\ <<s, f.cid>> \notin hangUps
        /\ f.step \in {"urls", "answer", "live"} => f.as = s

ChangeOK(h) ==
    LET c == change[h]
    IN  /\ c.step = "idle" => c = NoChange
        /\ c.step # "kick" => c.kicks = {}
        /\ c.step = "list" => Playout \in c.names
        /\ c.step = "insert" => c.owner \in Hosts

ForwardInv ==
    /\ dest \in [Dests -> {None} \cup [owner: Feeds, active: BOOLEAN]]
    /\ dests \in 0..MaxDests
    /\ \A d \in Dests : d > dests => dest[d] = None
    /\ feed \in [Feeds -> FeedRecords]
    /\ opened \in 0..MaxConnections
    /\ sessions \subseteq Hosts \X (1..MaxConnections)
    /\ \A k \in hangUps : k \in Hosts \X (1..opened)
    /\ onAir \in [Hosts -> 0..MaxConnections]
    /\ change \in [ForwardCalls -> ChangeRecords]
    /\ \A s \in Feeds : FeedOK(s)
    /\ \A h \in ForwardCalls : ChangeOK(h)

\* A creator's destinations were read for that creator, and rows do not change hands.
Tenant(s) ==
    feed[s].step \in {"answer", "live"} =>
        /\ Liquidsoap \in feed[s].to
        /\ \A d \in feed[s].to \cap Dests :
              d <= dests /\ (dest[d] # None => dest[d].owner = s)
TenantInv == \A s \in Hosts : Tenant(s)

\* What the playout is about to be told counts as what it goes to.
FollowsInv ==
    /\ feed[Playout].step \in {"answer", "live"}
    /\ ~feed[Playout].owed
    /\ \A h \in ForwardCalls : ~ToRestart(h)
    => feed[Playout].to = ActiveOf(Playout)

\* A call that has counted is counted with the rows.
Inserting(o) == {h \in ForwardCalls : change[h].step = "insert" /\ change[h].owner = o}
CapInv ==
    \A o \in Hosts :
        Cardinality(DestsOf(o)) + Cardinality(Inserting(o)) < HostCap + Cardinality(ForwardCalls)

\* What each of the invariants of forwarding says of a step.
ForwardGoes == ForwardInv' /\ TenantInv' /\ FollowsInv' /\ CapInv'

ForwardAll == ForwardInv /\ TenantInv /\ FollowsInv /\ CapInv

\* The facts about one publisher and one call that the steps start from.
LEMMA FeedIs ==
  ASSUME ForwardInv, NEW s \in Feeds
  PROVE  feed[s] \in FeedRecords /\ FeedOK(s)
BY DEF ForwardInv

LEMMA ChangeIs ==
  ASSUME ForwardInv, NEW h \in ForwardCalls
  PROVE  change[h] \in ChangeRecords /\ ChangeOK(h)
BY DEF ForwardInv

LEMMA PlayoutIsFeed == ForwardAssumption => Playout \in Feeds /\ Playout \notin Hosts /\ Hosts \subseteq Feeds
BY DEF ForwardAssumption, Feeds

LEMMA NoChangeIs ==
  ForwardAssumption => /\ NoChange \in ChangeRecords /\ NoChange.step = "idle"
                       /\ NoChange.kicks = {} /\ OffAir \in FeedRecords /\ OffAir.step = "off"
                       /\ OffAir.cid = 0
BY DEF ForwardAssumption, NoChange, ChangeRecords, OffAir, FeedRecords

\* The rows and calls are what they were, and so the cap is kept.
LEMMA CapStays ==
  ASSUME CapInv, UNCHANGED dest, UNCHANGED change
  PROVE  CapInv'
BY DEF CapInv, DestsOf, Inserting

\* A step of SRS at publisher s: the calls and the rows stay.
LEMMA SrsStep ==
  ASSUME ForwardAssumption, ForwardAll, NEW s \in Feeds, NEW f \in FeedRecords,
         feed' = [feed EXCEPT ![s] = f], UNCHANGED <<dest, dests, change>>,
         opened' \in opened..MaxConnections,
         sessions \subseteq sessions', sessions' \subseteq Hosts \X (1..MaxConnections),
         \A k \in hangUps' : k \in hangUps \/ (k[1] = s /\ k \in Hosts \X (1..opened')),
         onAir' \in [Hosts -> 0..MaxConnections],
         FeedOK(s)', s \in Hosts => Tenant(s)', s = Playout => FollowsInv'
  PROVE  ForwardGoes
<1>1. opened \in Nat /\ opened' \in Nat /\ opened <= opened' /\ MaxConnections \in Nat
  BY DEF ForwardAll, ForwardInv, ForwardAssumption
<1>2. feed'[s] = f /\ feed' \in [Feeds -> FeedRecords] /\ \A u \in Feeds : u # s => feed'[u] = feed[u]
  BY DEF ForwardAll, ForwardInv
<1>3. \A k \in hangUps' : k \in Hosts \X (1..opened')
  BY <1>1 DEF ForwardAll, ForwardInv
<1>4. \A u \in Feeds : FeedOK(u)'
  <2> TAKE u \in Feeds
  <2> SUFFICES ASSUME u # s PROVE FeedOK(u)'
    OBVIOUS
  <2>1. FeedOK(u) /\ feed'[u] = feed[u] /\ <<u, feed[u].cid>>[1] # s
    BY <1>2, FeedIs DEF ForwardAll
  <2>2. <<u, feed[u].cid>> \in hangUps' => <<u, feed[u].cid>> \in hangUps
    BY <2>1
  <2> QED
    BY <1>1, <2>1, <2>2 DEF FeedOK
<1>5. \A h \in ForwardCalls : ChangeOK(h)'
  BY DEF ForwardAll, ForwardInv, ChangeOK
<1>6. ForwardInv'
  BY <1>1, <1>2, <1>3, <1>4, <1>5 DEF ForwardAll, ForwardInv
<1>7. TenantInv'
  <2> SUFFICES ASSUME NEW u \in Hosts, u # s PROVE Tenant(u)'
    BY DEF TenantInv
  <2>1. Tenant(u) /\ feed'[u] = feed[u]
    BY <1>2, PlayoutIsFeed DEF ForwardAll, TenantInv
  <2> QED
    BY <2>1 DEF Tenant
<1>8. FollowsInv'
  <2> SUFFICES ASSUME s # Playout PROVE FollowsInv'
    OBVIOUS
  <2>1. feed'[Playout] = feed[Playout]
    BY <1>2, PlayoutIsFeed
  <2> QED
    BY <2>1 DEF ForwardAll, FollowsInv, ToRestart, ActiveOf, DestsOf
<1> QED
  BY <1>6, <1>7, <1>8, CapStays DEF ForwardGoes, ForwardAll

LEMMA ForwardConnect ==
  ASSUME ForwardAssumption, ForwardAll, NEW s \in Feeds, Connect(s)
  PROVE  ForwardGoes
<1> DEFINE f == [OffAir EXCEPT !.step = "classify", !.cid = opened + 1]
<1>1. /\ opened \in Nat /\ MaxConnections \in Nat /\ opened < MaxConnections /\ opened' = opened + 1
      /\ feed' = [feed EXCEPT ![s] = f]
      /\ UNCHANGED <<dest, dests, hangUps, change>>
  BY DEF Connect, ForwardAll, ForwardInv, ForwardAssumption
<1>2. f \in FeedRecords /\ f.step = "classify" /\ f.cid = opened + 1
  <2>1. opened + 1 \in 0..MaxConnections /\ OffAir \in FeedRecords
    BY <1>1, NoChangeIs
  <2> QED
    BY <2>1 DEF FeedRecords
<1>3. feed'[s] = f
  BY <1>1 DEF ForwardAll, ForwardInv
<1> HIDE DEF f
<1>4. /\ sessions \subseteq sessions' /\ sessions' \subseteq Hosts \X (1..MaxConnections)
      /\ onAir' \in [Hosts -> 0..MaxConnections]
      /\ s \in Hosts => <<s, opened + 1>> \in sessions'
  <2>1. CASE s = Playout
    BY <2>1, PlayoutIsFeed DEF Connect, ForwardAll, ForwardInv
  <2>2. CASE s # Playout
    <3>1. s \in Hosts
      BY <2>2 DEF Feeds
    <3>2. /\ sessions' = sessions \cup {<<s, opened + 1>>}
          /\ onAir' = [onAir EXCEPT ![s] = opened + 1]
      BY <2>2 DEF Connect
    <3> QED
      BY <1>1, <3>1, <3>2 DEF ForwardAll, ForwardInv
  <2> QED
    BY <2>1, <2>2
<1>5. <<s, opened + 1>> \notin hangUps
  BY <1>1 DEF ForwardAll, ForwardInv
<1>6. FeedOK(s)'
  BY <1>1, <1>2, <1>3, <1>4, <1>5 DEF FeedOK
<1>7. (s \in Hosts => Tenant(s)') /\ (s = Playout => FollowsInv')
  BY <1>2, <1>3 DEF Tenant, FollowsInv
<1>8. \A k \in hangUps' : k \in hangUps
  BY <1>1
<1>9. opened' \in opened..MaxConnections
  BY <1>1
<1> QED
  BY <1>1, <1>2, <1>4, <1>6, <1>7, <1>8, <1>9, SrsStep

LEMMA ForwardClassify ==
  ASSUME ForwardAssumption, ForwardAll, NEW s \in Feeds, ClassifyPublish(s)
  PROVE  ForwardGoes
<1> DEFINE as == IF <<s, feed[s].cid>> \in sessions THEN s
                 ELSE IF s \in ActiveNames THEN Playout ELSE None
           f == [feed[s] EXCEPT !.step = "urls", !.as = as]
<1>1. /\ feed[s].step = "classify" /\ feed[s] \in FeedRecords /\ FeedOK(s)
      /\ UNCHANGED <<dest, dests, opened, sessions, onAir, hangUps, change>>
  BY FeedIs DEF ForwardAll, ClassifyPublish
<1>2. as = s
  <2>1. CASE s \in Hosts
    BY <1>1, <2>1 DEF FeedOK
  <2>2. CASE s = Playout
    <3>1. <<s, feed[s].cid>> \notin sessions
      BY <2>2, PlayoutIsFeed DEF ForwardAll, ForwardInv
    <3> QED
      BY <2>2, <3>1 DEF ActiveNames
  <2> QED
    BY <2>1, <2>2 DEF Feeds
<1>3. feed' = [feed EXCEPT ![s] = f]
  BY DEF ClassifyPublish, ForwardAll, ForwardInv
<1> HIDE DEF as
<1>4. f \in FeedRecords /\ f.step = "urls" /\ f.as = s /\ f.cid = feed[s].cid
  BY <1>1, <1>2 DEF FeedRecords
<1> HIDE DEF f
<1>5. feed'[s] = f
  BY <1>3 DEF ForwardAll, ForwardInv
<1>6. FeedOK(s)'
  BY <1>1, <1>4, <1>5 DEF FeedOK
<1>7. (s \in Hosts => Tenant(s)') /\ (s = Playout => FollowsInv')
  BY <1>4, <1>5 DEF Tenant, FollowsInv
<1>8. /\ opened' \in opened..MaxConnections /\ sessions' \subseteq Hosts \X (1..MaxConnections)
      /\ onAir' \in [Hosts -> 0..MaxConnections] /\ hangUps' = hangUps /\ sessions' = sessions
  BY <1>1 DEF ForwardAll, ForwardInv
<1> QED
  BY <1>1, <1>3, <1>4, <1>6, <1>7, <1>8, SrsStep

LEMMA ForwardReadUrls ==
  ASSUME ForwardAssumption, ForwardAll, NEW s \in Feeds, ReadUrls(s)
  PROVE  ForwardGoes
<1> DEFINE to == ActiveOf(feed[s].as) \cup (IF feed[s].as \in Hosts THEN {Liquidsoap} ELSE {})
           f == [feed[s] EXCEPT !.step = "answer", !.to = to]
<1>1. /\ feed[s].step = "urls" /\ feed[s] \in FeedRecords /\ FeedOK(s) /\ feed[s].as = s
      /\ UNCHANGED <<dest, dests, opened, sessions, onAir, hangUps, change>>
  BY FeedIs DEF ForwardAll, ReadUrls, FeedOK
<1>2. /\ to \in SUBSET (Dests \cup {Liquidsoap})
      /\ s \in Hosts => Liquidsoap \in to
      /\ \A d \in to \cap Dests : d \in ActiveOf(s)
      /\ s = Playout => to = ActiveOf(Playout)
  BY <1>1, PlayoutIsFeed DEF ActiveOf, DestsOf, Dests, ForwardAssumption
<1>3. feed' = [feed EXCEPT ![s] = f]
  BY DEF ReadUrls, ForwardAll, ForwardInv
<1> HIDE DEF to
<1>4. f \in FeedRecords /\ f.step = "answer" /\ f.as = s /\ f.cid = feed[s].cid /\ f.to = to
  BY <1>1, <1>2 DEF FeedRecords
<1> HIDE DEF f
<1>5. feed'[s] = f
  BY <1>3 DEF ForwardAll, ForwardInv
<1>6. FeedOK(s)'
  BY <1>1, <1>4, <1>5 DEF FeedOK
<1>7. \A d \in ActiveOf(s) : d <= dests /\ dest[d].owner = s
  BY DEF ActiveOf, DestsOf, ForwardAll, ForwardInv, Dests, ForwardAssumption
<1>8. (s \in Hosts => Tenant(s)') /\ (s = Playout => FollowsInv')
  <2>1. s \in Hosts => Tenant(s)'
    BY <1>1, <1>2, <1>4, <1>5, <1>7 DEF Tenant
  <2>2. s = Playout => FollowsInv'
    BY <1>1, <1>2, <1>4, <1>5 DEF FollowsInv, ActiveOf, DestsOf
  <2> QED
    BY <2>1, <2>2
<1>9. /\ opened' \in opened..MaxConnections /\ sessions' \subseteq Hosts \X (1..MaxConnections)
      /\ onAir' \in [Hosts -> 0..MaxConnections] /\ hangUps' = hangUps /\ sessions' = sessions
  BY <1>1 DEF ForwardAll, ForwardInv
<1> QED
  BY <1>1, <1>3, <1>4, <1>6, <1>8, <1>9, SrsStep

LEMMA ForwardGoLive ==
  ASSUME ForwardAssumption, ForwardAll, NEW s \in Feeds, GoLive(s)
  PROVE  ForwardGoes
<1> DEFINE f == [feed[s] EXCEPT !.step = "live"]
<1>1. /\ feed[s].step = "answer" /\ feed[s] \in FeedRecords /\ FeedOK(s)
      /\ feed' = [feed EXCEPT ![s] = f]
      /\ UNCHANGED <<dest, dests, opened, sessions, onAir, hangUps, change>>
  BY FeedIs DEF ForwardAll, GoLive
<1>2. /\ f \in FeedRecords /\ f.step = "live" /\ f.as = feed[s].as /\ f.cid = feed[s].cid
      /\ f.to = feed[s].to /\ f.owed = feed[s].owed
  BY <1>1 DEF FeedRecords
<1> HIDE DEF f
<1>3. feed'[s] = f
  BY <1>1 DEF ForwardAll, ForwardInv
<1>4. FeedOK(s)'
  BY <1>1, <1>2, <1>3 DEF FeedOK
<1>5. s \in Hosts => Tenant(s)'
  BY <1>1, <1>2, <1>3 DEF Tenant, ForwardAll, TenantInv
<1>6. s = Playout => FollowsInv'
  BY <1>1, <1>2, <1>3 DEF ForwardAll, FollowsInv, ToRestart, ActiveOf, DestsOf
<1>7. /\ opened' \in opened..MaxConnections /\ sessions' \subseteq Hosts \X (1..MaxConnections)
      /\ onAir' \in [Hosts -> 0..MaxConnections] /\ hangUps' = hangUps /\ sessions' = sessions
  BY <1>1 DEF ForwardAll, ForwardInv
<1> QED
  BY <1>1, <1>2, <1>4, <1>5, <1>6, <1>7, SrsStep

\* A publisher that is lost, of which a connection was known.
LEMMA LostIs ==
  ASSUME ForwardAssumption, ForwardInv, NEW s \in Feeds, feed[s].step # "off", Lost(s)
  PROVE  /\ feed' = [feed EXCEPT ![s] = OffAir] /\ feed'[s] = OffAir
         /\ \A k \in hangUps' : k \in hangUps \/ (k[1] = s /\ k \in Hosts \X (1..opened))
<1>1. feed[s].cid \in 1..opened
  BY FeedIs DEF FeedOK
<1>2. s # Playout => s \in Hosts
  BY DEF Feeds
<1> QED
  BY <1>1, <1>2 DEF Lost, ForwardInv

LEMMA ForwardDisconnect ==
  ASSUME ForwardAssumption, ForwardAll, NEW s \in Feeds, Disconnect(s)
  PROVE  ForwardGoes
<1>1. /\ feed' = [feed EXCEPT ![s] = OffAir] /\ feed'[s] = OffAir
      /\ \A k \in hangUps' : k \in hangUps \/ (k[1] = s /\ k \in Hosts \X (1..opened))
      /\ UNCHANGED <<dest, dests, opened, sessions, onAir, change>>
  BY LostIs DEF Disconnect, ForwardAll
<1>2. FeedOK(s)' /\ (s \in Hosts => Tenant(s)') /\ (s = Playout => FollowsInv')
  BY <1>1, NoChangeIs DEF FeedOK, Tenant, FollowsInv
<1>3. /\ opened' \in opened..MaxConnections /\ sessions' \subseteq Hosts \X (1..MaxConnections)
      /\ onAir' \in [Hosts -> 0..MaxConnections] /\ sessions' = sessions
  BY <1>1 DEF ForwardAll, ForwardInv
<1> QED
  BY <1>1, <1>2, <1>3, NoChangeIs, SrsStep

\* on_unpublish is of a connection that no stream publishes on any more.
LEMMA ForwardHangUp ==
  ASSUME ForwardAssumption, ForwardAll, NEW s \in Hosts, NEW c \in 1..MaxConnections, HangUp(s, c)
  PROVE  ForwardGoes
<1>1. /\ <<s, c>> \in hangUps /\ hangUps' = hangUps \ {<<s, c>>}
      /\ sessions' = sessions \ {<<s, c>>}
      /\ UNCHANGED <<dest, dests, feed, opened, change>>
  BY DEF HangUp
<1>2. onAir' \in [Hosts -> 0..MaxConnections]
  BY DEF HangUp, ForwardAll, ForwardInv, ForwardAssumption
<1>3. \A u \in Feeds : FeedOK(u)'
  BY <1>1 DEF ForwardAll, ForwardInv, FeedOK
<1>4. \A h \in ForwardCalls : ChangeOK(h)'
  BY <1>1 DEF ForwardAll, ForwardInv, ChangeOK
<1>5. ForwardInv'
  BY <1>1, <1>2, <1>3, <1>4 DEF ForwardAll, ForwardInv
<1>6. TenantInv' /\ FollowsInv'
  BY <1>1 DEF ForwardAll, TenantInv, Tenant, FollowsInv, ToRestart, ActiveOf, DestsOf
<1> QED
  BY <1>1, <1>5, <1>6, CapStays DEF ForwardGoes, ForwardAll

\* The rows that are there, and the calls about to insert one, are finitely many.
LEMMA Counted ==
  ASSUME ForwardAssumption, NEW o
  PROVE  /\ IsFiniteSet(DestsOf(o)) /\ IsFiniteSet(Inserting(o))
         /\ Cardinality(DestsOf(o)) \in Nat /\ Cardinality(Inserting(o)) \in Nat
         /\ Cardinality(ForwardCalls) \in Nat
         /\ Cardinality(Inserting(o)) <= Cardinality(ForwardCalls)
<1>1. IsFiniteSet(Dests) /\ DestsOf(o) \in SUBSET Dests /\ Inserting(o) \in SUBSET ForwardCalls
  BY FS_Interval DEF ForwardAssumption, Dests, DestsOf, Inserting
<1>2. IsFiniteSet(DestsOf(o)) /\ IsFiniteSet(Inserting(o))
      /\ Cardinality(Inserting(o)) <= Cardinality(ForwardCalls)
  BY <1>1, FS_Subset DEF ForwardAssumption
<1> QED
  BY <1>2, FS_CardinalityType DEF ForwardAssumption

\* No row and no call more for any creator.
LEMMA CapShrinks ==
  ASSUME ForwardAssumption, CapInv,
         \A o \in Hosts : DestsOf(o)' \subseteq DestsOf(o) /\ Inserting(o)' \subseteq Inserting(o)
  PROVE  CapInv'
<1> SUFFICES ASSUME NEW o \in Hosts
             PROVE  Cardinality(DestsOf(o)') + Cardinality(Inserting(o)')
                      < HostCap + Cardinality(ForwardCalls)
  BY DEF CapInv
<1>1. DestsOf(o)' \in SUBSET DestsOf(o) /\ Inserting(o)' \in SUBSET Inserting(o)
  OBVIOUS
<1>2. /\ IsFiniteSet(DestsOf(o)') /\ Cardinality(DestsOf(o)') <= Cardinality(DestsOf(o))
      /\ IsFiniteSet(Inserting(o)') /\ Cardinality(Inserting(o)') <= Cardinality(Inserting(o))
  BY <1>1, Counted, FS_Subset
<1>3. Cardinality(DestsOf(o)') \in Nat /\ Cardinality(Inserting(o)') \in Nat
  BY <1>2, FS_CardinalityType
<1> QED
  BY <1>2, <1>3, Counted DEF CapInv, ForwardAssumption

\* A step of one call: what the invariant says of the calls.
LEMMA CallStep ==
  ASSUME ForwardInv, NEW h \in ForwardCalls, NEW c \in ChangeRecords,
         change' = [change EXCEPT ![h] = c], ChangeOK(h)'
  PROVE  change' \in [ForwardCalls -> ChangeRecords] /\ \A g \in ForwardCalls : ChangeOK(g)'
BY DEF ForwardInv, ChangeOK

\* A write of the rows: none changes hands, and a new one has a number of its own.
LEMMA RowsWritten ==
  ASSUME ForwardAssumption, ForwardAll, UNCHANGED srsVars, dests' \in dests..MaxDests,
         dest' \in [Dests -> {None} \cup [owner: Feeds, active: BOOLEAN]],
         \A d \in Dests : d > dests' => dest'[d] = None,
         \A d \in Dests : d <= dests /\ dest'[d] # None
                             => dest[d] # None /\ dest'[d].owner = dest[d].owner,
         change' \in [ForwardCalls -> ChangeRecords], \A g \in ForwardCalls : ChangeOK(g)'
  PROVE  ForwardInv' /\ TenantInv'
<1>1. dests \in Nat /\ dests' \in 0..MaxDests /\ dests <= dests'
  BY DEF ForwardAll, ForwardInv, ForwardAssumption
<1>2. \A s \in Feeds : FeedOK(s)'
  BY DEF ForwardAll, ForwardInv, FeedOK, srsVars
<1>3. ForwardInv'
  BY <1>1, <1>2 DEF ForwardAll, ForwardInv, srsVars
<1>4. TenantInv'
  <2> SUFFICES ASSUME NEW s \in Hosts, feed'[s].step \in {"answer", "live"} PROVE Tenant(s)'
    BY DEF TenantInv, Tenant
  <2>1. feed'[s] = feed[s]
    BY DEF srsVars
  <2>2. Liquidsoap \in feed[s].to
        /\ \A d \in feed[s].to \cap Dests : d <= dests /\ (dest[d] # None => dest[d].owner = s)
    BY <2>1 DEF ForwardAll, TenantInv, Tenant
  <2>3. \A d \in feed[s].to \cap Dests : d <= dests' /\ (dest'[d] # None => dest'[d].owner = s)
    BY <1>1, <2>2 DEF Dests, ForwardAssumption
  <2> QED
    BY <2>1, <2>2, <2>3 DEF Tenant
<1> QED
  BY <1>3, <1>4

\* The three writes of the platform's destinations: the restart is ahead.
LEMMA ForwardPlatform ==
  ASSUME ForwardAssumption, ForwardAll, NEW h \in ForwardCalls,
         AddPlatform(h) \/ \E d \in Dests : TogglePlatform(h, d) \/ RemovePlatform(h, d)
  PROVE  ForwardGoes
<1> DEFINE c == [NoChange EXCEPT !.step = "names"]
<1>1. change[h] = NoChange /\ change' = [change EXCEPT ![h] = c] /\ UNCHANGED srsVars
  BY DEF AddPlatform, TogglePlatform, RemovePlatform, Restart
<1>2. c \in ChangeRecords /\ c.step = "names" /\ c.kicks = {}
  BY NoChangeIs DEF ChangeRecords
<1> HIDE DEF c
<1>3. change'[h] = c /\ \A g \in ForwardCalls : g # h => change'[g] = change[g]
  BY <1>1 DEF ForwardAll, ForwardInv
<1>4. ChangeOK(h)' /\ ToRestart(h)'
  BY <1>2, <1>3 DEF ChangeOK, ToRestart
<1>5. /\ dests' \in dests..MaxDests
      /\ dest' \in [Dests -> {None} \cup [owner: Feeds, active: BOOLEAN]]
      /\ \A d \in Dests : d > dests' => dest'[d] = None
      /\ \A d \in Dests : d <= dests /\ dest'[d] # None
                             => dest[d] # None /\ dest'[d].owner = dest[d].owner
      /\ \A o \in Hosts : DestsOf(o)' \subseteq DestsOf(o)
  <2>1. CASE AddPlatform(h)
    <3>1. /\ dests' = dests + 1 /\ dests < MaxDests /\ dests \in Nat /\ MaxDests \in Nat
          /\ dest' = [dest EXCEPT ![dests + 1] = [owner |-> Playout, active |-> FALSE]]
      BY <2>1 DEF AddPlatform, ForwardAll, ForwardInv, ForwardAssumption
    <3>2. [owner |-> Playout, active |-> FALSE] \in [owner: Feeds, active: BOOLEAN]
      BY PlayoutIsFeed
    <3>3. \A o \in Hosts : o # Playout
      BY PlayoutIsFeed
    <3> QED
      BY <3>1, <3>2, <3>3 DEF ForwardAll, ForwardInv, Dests, DestsOf
  <2>2. CASE \E d \in Dests : TogglePlatform(h, d)
    <3>1. PICK d \in Dests : dests' = dests /\ dest[d] # None /\ dest' = [dest EXCEPT ![d].active = ~@]
      BY <2>2 DEF TogglePlatform
    <3>2. dest[d] \in [owner: Feeds, active: BOOLEAN]
      BY <3>1 DEF ForwardAll, ForwardInv
    <3> DEFINE x == [dest[d] EXCEPT !.active = ~dest[d].active]
    <3>3. x \in [owner: Feeds, active: BOOLEAN] /\ x.owner = dest[d].owner
      BY <3>2
    <3>4. dest' = [dest EXCEPT ![d] = x]
      BY <3>1
    <3> HIDE DEF x
    <3> QED
      BY <3>1, <3>3, <3>4 DEF ForwardAll, ForwardInv, ForwardAssumption, Dests, DestsOf
  <2>3. CASE \E d \in Dests : RemovePlatform(h, d)
    BY <2>3 DEF RemovePlatform, ForwardAll, ForwardInv, ForwardAssumption, Dests, DestsOf
  <2> QED
    BY <2>1, <2>2, <2>3
<1>6. ForwardInv' /\ TenantInv'
  BY <1>1, <1>2, <1>4, <1>5, CallStep, RowsWritten DEF ForwardAll
<1>7. FollowsInv'
  BY <1>4 DEF FollowsInv
<1>8. \A o \in Hosts : Inserting(o)' \subseteq Inserting(o)
  BY <1>2, <1>3 DEF Inserting
<1> QED
  BY <1>5, <1>6, <1>7, <1>8, CapShrinks DEF ForwardGoes, ForwardAll

\* A creator's writes of a row that is there: the playout does not go to it.
LEMMA ForwardOwn ==
  ASSUME ForwardAssumption, ForwardAll, NEW o \in Hosts, NEW d \in Dests,
         ToggleDest(o, d) \/ RemoveDest(o, d)
  PROVE  ForwardGoes
<1>1. UNCHANGED <<dests, change, srsVars>> /\ dest[d] # None /\ dest[d].owner = o
  BY DEF ToggleDest, RemoveDest, DestsOf
<1>2. dest[d] \in [owner: Feeds, active: BOOLEAN] /\ o # Playout
  BY <1>1, PlayoutIsFeed DEF ForwardAll, ForwardInv
<1>3. PICK x \in {None} \cup [owner: Feeds, active: BOOLEAN] :
         dest' = [dest EXCEPT ![d] = x] /\ (x # None => x.owner = o)
  <2>1. CASE ToggleDest(o, d)
    <3> DEFINE x == [dest[d] EXCEPT !.active = ~dest[d].active]
    <3>1. x \in [owner: Feeds, active: BOOLEAN] /\ x.owner = o
      BY <1>1, <1>2
    <3>2. dest' = [dest EXCEPT ![d] = x]
      BY <2>1 DEF ToggleDest
    <3> HIDE DEF x
    <3> QED
      BY <3>1, <3>2
  <2>2. CASE RemoveDest(o, d)
    BY <2>2 DEF RemoveDest
  <2> QED
    BY <2>1, <2>2
<1>4. dest'[d] = x /\ \A e \in Dests : e # d => dest'[e] = dest[e]
  BY <1>3 DEF ForwardAll, ForwardInv
<1>5. /\ dests' \in dests..MaxDests
      /\ dest' \in [Dests -> {None} \cup [owner: Feeds, active: BOOLEAN]]
      /\ \A e \in Dests : e > dests' => dest'[e] = None
      /\ \A e \in Dests : e <= dests /\ dest'[e] # None
                             => dest[e] # None /\ dest'[e].owner = dest[e].owner
      /\ \A u \in Hosts : DestsOf(u)' \subseteq DestsOf(u)
  BY <1>1, <1>3, <1>4 DEF ForwardAll, ForwardInv, ForwardAssumption, Dests, DestsOf
<1>6. ForwardInv' /\ TenantInv'
  BY <1>1, <1>5, RowsWritten DEF ForwardAll, ForwardInv, ChangeOK
<1>7. ActiveOf(Playout)' = ActiveOf(Playout)
  BY <1>1, <1>2, <1>3, <1>4 DEF ActiveOf, DestsOf
<1>8. FollowsInv'
  BY <1>1, <1>7 DEF ForwardAll, FollowsInv, ToRestart, srsVars
<1>9. \A u \in Hosts : Inserting(u)' \subseteq Inserting(u)
  BY <1>1 DEF Inserting
<1> QED
  BY <1>5, <1>6, <1>8, <1>9, CapShrinks DEF ForwardGoes, ForwardAll

\* A step of a call that leaves the rows and the streams.
LEMMA CallOnly ==
  ASSUME ForwardAssumption, ForwardAll, UNCHANGED <<dest, dests, srsVars>>,
         NEW h \in ForwardCalls, NEW c \in ChangeRecords,
         change' = [change EXCEPT ![h] = c], ChangeOK(h)',
         ToRestart(h) => ToRestart(h)', c.step # "insert"
  PROVE  ForwardGoes
<1>1. change'[h] = c /\ \A g \in ForwardCalls : g # h => change'[g] = change[g]
  BY DEF ForwardAll, ForwardInv
<1>2. dests' \in dests..MaxDests
  BY DEF ForwardAll, ForwardInv, ForwardAssumption
<1>3. ForwardInv' /\ TenantInv'
  BY <1>2, CallStep, RowsWritten DEF ForwardAll, ForwardInv
<1>4. \A g \in ForwardCalls : ToRestart(g) => ToRestart(g)'
  BY <1>1 DEF ToRestart, srsVars
<1>5. FollowsInv'
  BY <1>4 DEF ForwardAll, FollowsInv, srsVars, ActiveOf, DestsOf
<1>6. \A o \in Hosts : DestsOf(o)' \subseteq DestsOf(o) /\ Inserting(o)' \subseteq Inserting(o)
  BY <1>1 DEF DestsOf, Inserting
<1> QED
  BY <1>3, <1>5, <1>6, CapShrinks DEF ForwardGoes, ForwardAll

LEMMA ForwardSelect ==
  ASSUME ForwardAssumption, ForwardAll, NEW h \in ForwardCalls, SelectNames(h)
  PROVE  ForwardGoes
<1> DEFINE c == [change[h] EXCEPT !.step = "list", !.names = ActiveNames]
<1>1. /\ change[h].step = "names" /\ change[h] \in ChangeRecords /\ ChangeOK(h)
      /\ change' = [change EXCEPT ![h] = c] /\ UNCHANGED <<dest, dests, srsVars>>
  BY ChangeIs DEF ForwardAll, SelectNames, ChangeAt
<1>2. ActiveNames \in SUBSET Feeds /\ Playout \in ActiveNames
  BY DEF ActiveNames, Feeds
<1>3. c \in ChangeRecords /\ c.step = "list" /\ c.names = ActiveNames /\ c.kicks = change[h].kicks
  BY <1>1, <1>2 DEF ChangeRecords
<1> HIDE DEF c
<1>4. change'[h] = c
  BY <1>1 DEF ForwardAll, ForwardInv
<1>5. ChangeOK(h)' /\ ToRestart(h)'
  BY <1>1, <1>2, <1>3, <1>4 DEF ChangeOK, ToRestart
<1> QED
  BY <1>1, <1>3, <1>5, CallOnly

LEMMA ForwardKicked ==
  ASSUME ForwardAssumption, ForwardAll, NEW h \in ForwardCalls, Kicked(h)
  PROVE  ForwardGoes
<1>1. /\ change[h].step = "kick" /\ change[h].kicks = {}
      /\ change' = [change EXCEPT ![h] = NoChange] /\ UNCHANGED <<dest, dests, srsVars>>
  BY DEF Kicked, ChangeAt
<1>2. change'[h] = NoChange
  BY <1>1 DEF ForwardAll, ForwardInv
<1>3. ChangeOK(h)' /\ ~ToRestart(h)
  BY <1>1, <1>2, NoChangeIs DEF ChangeOK, ToRestart
<1> QED
  BY <1>1, <1>3, NoChangeIs, CallOnly

\* A step of a call that marks the playout's publisher, or leaves the streams as they are.
LEMMA OwedStep ==
  ASSUME ForwardAssumption, ForwardAll, UNCHANGED <<dest, dests, opened, sessions, onAir, hangUps>>,
         NEW h \in ForwardCalls, NEW c \in ChangeRecords,
         change' = [change EXCEPT ![h] = c], ChangeOK(h)', c.step # "insert",
         \/ feed' = feed
         \/ feed[Playout].step # "off" /\ feed' = [feed EXCEPT ![Playout].owed = TRUE],
         FollowsInv'
  PROVE  ForwardGoes
<1>1. change'[h] = c /\ \A g \in ForwardCalls : g # h => change'[g] = change[g]
  BY DEF ForwardAll, ForwardInv
<1>2. /\ feed' \in [Feeds -> FeedRecords]
      /\ \A s \in Feeds : /\ feed'[s].step = feed[s].step /\ feed'[s].cid = feed[s].cid
                          /\ feed'[s].as = feed[s].as /\ feed'[s].to = feed[s].to
                          /\ feed'[s] = feed[s] \/ (s = Playout /\ feed[s].step # "off")
  <2>1. CASE feed' = feed
    BY <2>1 DEF ForwardAll, ForwardInv
  <2>2. CASE feed[Playout].step # "off" /\ feed' = [feed EXCEPT ![Playout].owed = TRUE]
    <3> DEFINE f == [feed[Playout] EXCEPT !.owed = TRUE]
    <3>1. feed[Playout] \in FeedRecords /\ feed \in [Feeds -> FeedRecords]
      BY PlayoutIsFeed DEF ForwardAll, ForwardInv
    <3>2. /\ f \in FeedRecords /\ f.step = feed[Playout].step /\ f.cid = feed[Playout].cid
          /\ f.as = feed[Playout].as /\ f.to = feed[Playout].to
      BY <3>1 DEF FeedRecords
    <3>3. feed' = [feed EXCEPT ![Playout] = f]
      BY <2>2
    <3> HIDE DEF f
    <3> QED
      BY <2>2, <3>1, <3>2, <3>3, PlayoutIsFeed
  <2> QED
    BY <2>1, <2>2
<1>3. \A s \in Feeds : FeedOK(s)'
  BY <1>2 DEF ForwardAll, ForwardInv, FeedOK
<1>4. ForwardInv'
  BY <1>2, <1>3, CallStep DEF ForwardAll, ForwardInv
<1>5. TenantInv'
  BY <1>2, PlayoutIsFeed DEF ForwardAll, TenantInv, Tenant
<1>6. \A o \in Hosts : DestsOf(o)' \subseteq DestsOf(o) /\ Inserting(o)' \subseteq Inserting(o)
  BY <1>1 DEF DestsOf, Inserting
<1> QED
  BY <1>4, <1>5, <1>6, CapShrinks DEF ForwardGoes, ForwardAll

LEMMA ForwardList ==
  ASSUME ForwardAssumption, ForwardAll, NEW h \in ForwardCalls, ListPublishers(h)
  PROVE  ForwardGoes
<1> DEFINE live == {s \in change[h].names : feed[s].step = "live"}
           kicks == {<<s, feed[s].cid>> : s \in live}
           c == [change[h] EXCEPT !.step = "kick", !.kicks = kicks]
<1>1. /\ change[h].step = "list" /\ change[h] \in ChangeRecords /\ ChangeOK(h)
      /\ change' = [change EXCEPT ![h] = c]
      /\ feed' = IF feed[Playout].step = "answer" THEN [feed EXCEPT ![Playout].owed = TRUE] ELSE feed
      /\ UNCHANGED <<dest, dests, opened, sessions, onAir, hangUps>>
  BY ChangeIs DEF ForwardAll, ListPublishers, ChangeAt
<1>2. kicks \in SUBSET (Feeds \X (1..MaxConnections))
  <2> SUFFICES ASSUME NEW s \in change[h].names, feed[s].step = "live"
               PROVE  s \in Feeds /\ feed[s].cid \in 1..MaxConnections
    OBVIOUS
  <2>1. s \in Feeds
    BY <1>1 DEF ChangeRecords
  <2>2. feed[s].cid \in 1..opened
    BY <2>1, FeedIs DEF ForwardAll, FeedOK
  <2> QED
    BY <2>1, <2>2 DEF ForwardAll, ForwardInv, ForwardAssumption
<1>3. feed[Playout].step = "live" => <<Playout, feed[Playout].cid>> \in kicks
  BY <1>1 DEF ChangeOK
<1> HIDE DEF kicks
<1>4. c \in ChangeRecords /\ c.step = "kick" /\ c.kicks = kicks
  BY <1>1, <1>2 DEF ChangeRecords
<1> HIDE DEF c
<1>5. change'[h] = c
  BY <1>1 DEF ForwardAll, ForwardInv
<1>6. ChangeOK(h)'
  BY <1>4, <1>5 DEF ChangeOK
<1>7. FollowsInv'
  <2>1. CASE feed[Playout].step = "answer"
    <3>1. feed'[Playout].owed
      BY <1>1, <2>1, PlayoutIsFeed DEF ForwardAll, ForwardInv, FeedRecords
    <3> QED
      BY <3>1 DEF FollowsInv
  <2>2. CASE feed[Playout].step = "live"
    <3>1. ToRestart(h)'
      BY <1>1, <1>3, <1>4, <1>5, <2>2 DEF ToRestart
    <3> QED
      BY <3>1 DEF FollowsInv
  <2>3. CASE feed[Playout].step \notin {"answer", "live"}
    BY <1>1, <2>3 DEF FollowsInv
  <2> QED
    BY <2>1, <2>2, <2>3
<1> QED
  BY <1>1, <1>4, <1>6, <1>7, OwedStep

LEMMA ForwardFails ==
  ASSUME ForwardAssumption, ForwardAll, NEW h \in ForwardCalls, RestartFails(h)
  PROVE  ForwardGoes
<1>1. /\ change' = [change EXCEPT ![h] = NoChange]
      /\ feed' = IF feed[Playout].step \in {"answer", "live"} /\ ToRestart(h)
                 THEN [feed EXCEPT ![Playout].owed = TRUE] ELSE feed
      /\ UNCHANGED <<dest, dests, opened, sessions, onAir, hangUps>>
  BY DEF RestartFails
<1>2. change'[h] = NoChange /\ \A g \in ForwardCalls : g # h => change'[g] = change[g]
  BY <1>1 DEF ForwardAll, ForwardInv
<1>3. ChangeOK(h)'
  BY <1>2, NoChangeIs DEF ChangeOK
<1>4. FollowsInv'
  <2>1. CASE feed[Playout].step \in {"answer", "live"} /\ ToRestart(h)
    <3>1. feed'[Playout].owed
      BY <1>1, <2>1, PlayoutIsFeed DEF ForwardAll, ForwardInv, FeedRecords
    <3> QED
      BY <3>1 DEF FollowsInv
  <2>2. CASE feed[Playout].step \notin {"answer", "live"}
    BY <1>1, <2>2 DEF FollowsInv
  <2>3. CASE ~ToRestart(h) /\ feed' = feed
    <3>1. \A g \in ForwardCalls : ToRestart(g) => ToRestart(g)'
      BY <1>2, <2>3 DEF ToRestart
    <3> QED
      BY <1>1, <2>3, <3>1 DEF ForwardAll, FollowsInv, ActiveOf, DestsOf
  <2> QED
    BY <1>1, <2>1, <2>2, <2>3
<1> QED
  BY <1>1, <1>3, <1>4, NoChangeIs, OwedStep

\* A kick reaches the connection it was meant for, or none.
LEMMA ForwardKick ==
  ASSUME ForwardAssumption, ForwardAll, NEW h \in ForwardCalls, Kick(h)
  PROVE  ForwardGoes
<1>1. PICK k \in change[h].kicks :
        /\ change' = [change EXCEPT ![h].kicks = change[h].kicks \ {k}]
        /\ IF feed[k[1]].cid = k[2] THEN Lost(k[1]) ELSE UNCHANGED <<feed, hangUps>>
  BY DEF Kick
<1> DEFINE c == [change[h] EXCEPT !.kicks = change[h].kicks \ {k}]
<1>2. /\ change[h].step = "kick" /\ change[h] \in ChangeRecords
      /\ UNCHANGED <<dest, dests, opened, sessions, onAir>>
  BY ChangeIs DEF ForwardAll, Kick, ChangeAt
<1>3. change' = [change EXCEPT ![h] = c]
  BY <1>1
<1>4. c \in ChangeRecords /\ c.step = "kick" /\ c.kicks = change[h].kicks \ {k}
  BY <1>2 DEF ChangeRecords
<1>5. k \in Feeds \X (1..MaxConnections)
  BY <1>2 DEF ChangeRecords
<1> HIDE DEF c
<1>6. change'[h] = c /\ \A g \in ForwardCalls : g # h => change'[g] = change[g]
  BY <1>3 DEF ForwardAll, ForwardInv
<1>7. ChangeOK(h)'
  BY <1>4, <1>6 DEF ChangeOK
<1>8. \A g \in ForwardCalls : <<Playout, feed[Playout].cid>> # k /\ feed'[Playout] = feed[Playout]
         => (ToRestart(g) => ToRestart(g)')
  BY <1>2, <1>4, <1>6 DEF ToRestart
<1>9. CASE feed[k[1]].cid = k[2]
  <2>1. feed[k[1]].step # "off" /\ k[1] \in Feeds /\ Lost(k[1])
    BY <1>1, <1>5, <1>9, FeedIs, NoChangeIs DEF ForwardAll, FeedOK, ForwardAssumption
  <2>2. /\ feed' = [feed EXCEPT ![k[1]] = OffAir] /\ feed'[k[1]] = OffAir
        /\ \A x \in hangUps' : x \in hangUps \/ (x[1] = k[1] /\ x \in Hosts \X (1..opened))
    BY <2>1, LostIs DEF ForwardAll
  <2>3. feed' \in [Feeds -> FeedRecords] /\ \A u \in Feeds : u # k[1] => feed'[u] = feed[u]
    BY <2>1, <2>2, NoChangeIs DEF ForwardAll, ForwardInv
  <2>4. \A u \in Feeds : FeedOK(u)'
    <3> TAKE u \in Feeds
    <3>1. CASE u = k[1]
      BY <2>2, <3>1, NoChangeIs DEF FeedOK
    <3>2. CASE u # k[1]
      <4>1. FeedOK(u) /\ feed'[u] = feed[u] /\ <<u, feed[u].cid>>[1] # k[1]
        BY <2>3, <3>2, FeedIs DEF ForwardAll
      <4>2. <<u, feed[u].cid>> \in hangUps' => <<u, feed[u].cid>> \in hangUps
        BY <2>2, <4>1
      <4> QED
        BY <1>2, <4>1, <4>2 DEF FeedOK
    <3> QED
      BY <3>1, <3>2
  <2>5. ForwardInv'
    BY <1>2, <1>3, <1>4, <1>7, <2>2, <2>3, <2>4, CallStep DEF ForwardAll, ForwardInv
  <2>6. TenantInv'
    <3> SUFFICES ASSUME NEW s \in Hosts PROVE Tenant(s)'
      BY DEF TenantInv
    <3>1. CASE s = k[1]
      BY <2>2, <3>1, NoChangeIs DEF Tenant
    <3>2. CASE s # k[1]
      BY <1>2, <2>3, <3>2, PlayoutIsFeed DEF ForwardAll, TenantInv, Tenant
    <3> QED
      BY <3>1, <3>2
  <2>7. FollowsInv'
    <3>1. CASE k[1] = Playout
      BY <2>2, <3>1, NoChangeIs DEF FollowsInv
    <3>2. CASE k[1] # Playout
      <4>1. <<Playout, feed[Playout].cid>> # k /\ feed'[Playout] = feed[Playout]
        BY <2>3, <3>2, PlayoutIsFeed
      <4> QED
        BY <1>2, <1>8, <4>1 DEF ForwardAll, FollowsInv, ActiveOf, DestsOf
    <3> QED
      BY <3>1, <3>2
  <2>8. \A o \in Hosts : DestsOf(o)' \subseteq DestsOf(o) /\ Inserting(o)' \subseteq Inserting(o)
    BY <1>2, <1>4, <1>6 DEF DestsOf, Inserting
  <2> QED
    BY <2>5, <2>6, <2>7, <2>8, CapShrinks DEF ForwardGoes, ForwardAll
<1>10. CASE feed[k[1]].cid # k[2]
  <2>1. UNCHANGED <<feed, hangUps>>
    BY <1>1, <1>10
  <2>2. <<Playout, feed[Playout].cid>> # k
    BY <1>10
  <2>3. FollowsInv'
    BY <1>2, <1>8, <2>1, <2>2 DEF ForwardAll, FollowsInv, ActiveOf, DestsOf
  <2> QED
    BY <1>2, <1>3, <1>4, <1>7, <2>1, <2>3, OwedStep
<1> QED
  BY <1>9, <1>10

LEMMA ForwardRefused ==
  ASSUME ForwardAssumption, ForwardAll, NEW h \in ForwardCalls, KickRefused(h)
  PROVE  ForwardGoes
<1>1. PICK k \in change[h].kicks :
        /\ change' = [change EXCEPT ![h].kicks = change[h].kicks \ {k}]
        /\ feed' = IF k = <<Playout, feed[Playout].cid>>
                   THEN [feed EXCEPT ![Playout].owed = TRUE] ELSE feed
  BY DEF KickRefused
<1> DEFINE c == [change[h] EXCEPT !.kicks = change[h].kicks \ {k}]
<1>2. /\ change[h].step = "kick" /\ change[h] \in ChangeRecords
      /\ UNCHANGED <<dest, dests, opened, sessions, onAir, hangUps>>
  BY ChangeIs DEF ForwardAll, KickRefused, ChangeAt
<1>3. change' = [change EXCEPT ![h] = c]
  BY <1>1
<1>4. c \in ChangeRecords /\ c.step = "kick" /\ c.kicks = change[h].kicks \ {k}
  BY <1>2 DEF ChangeRecords
<1>5. k \in Feeds \X (1..MaxConnections)
  BY <1>2 DEF ChangeRecords
<1> HIDE DEF c
<1>6. change'[h] = c /\ \A g \in ForwardCalls : g # h => change'[g] = change[g]
  BY <1>3 DEF ForwardAll, ForwardInv
<1>7. ChangeOK(h)'
  BY <1>4, <1>6 DEF ChangeOK
<1>8. CASE k = <<Playout, feed[Playout].cid>>
  <2>1. feed[Playout].cid # 0 /\ Playout \in Feeds
    BY <1>5, <1>8, PlayoutIsFeed DEF ForwardAssumption
  <2>2. feed[Playout].step # "off"
    BY <2>1, NoChangeIs DEF ForwardAll, FeedOK, ForwardInv, OffAir
  <2>3. feed'[Playout].owed
    BY <1>1, <1>8, PlayoutIsFeed DEF ForwardAll, ForwardInv, FeedRecords
  <2>4. FollowsInv'
    BY <2>3 DEF FollowsInv
  <2> QED
    BY <1>1, <1>2, <1>3, <1>4, <1>7, <1>8, <2>2, <2>4, OwedStep
<1>9. CASE k # <<Playout, feed[Playout].cid>>
  <2>1. feed' = feed
    BY <1>1, <1>9
  <2>2. \A g \in ForwardCalls : ToRestart(g) => ToRestart(g)'
    BY <1>2, <1>4, <1>6, <1>9, <2>1 DEF ToRestart
  <2>3. FollowsInv'
    BY <1>2, <2>1, <2>2 DEF ForwardAll, FollowsInv, ActiveOf, DestsOf
  <2> QED
    BY <1>2, <1>3, <1>4, <1>7, <2>1, <2>3, OwedStep
<1> QED
  BY <1>8, <1>9

\* A creator's call that counted.  The playout's destinations are none of its business.
LEMMA ForwardCount ==
  ASSUME ForwardAssumption, ForwardAll, NEW h \in ForwardCalls, NEW o \in Hosts, CountDests(h, o)
  PROVE  ForwardGoes
<1> DEFINE c == [NoChange EXCEPT !.step = "insert", !.owner = o]
<1>1. /\ change[h] = NoChange /\ Cardinality(DestsOf(o)) < HostCap
      /\ change' = [change EXCEPT ![h] = c] /\ UNCHANGED <<dest, dests, srsVars>>
  BY DEF CountDests
<1>2. c \in ChangeRecords /\ c.step = "insert" /\ c.owner = o /\ c.kicks = {}
  BY NoChangeIs DEF ChangeRecords, NoChange
<1> HIDE DEF c
<1>3. change'[h] = c /\ \A g \in ForwardCalls : g # h => change'[g] = change[g]
  BY <1>1 DEF ForwardAll, ForwardInv
<1>4. ChangeOK(h)'
  BY <1>2, <1>3 DEF ChangeOK
<1>5. \A g \in ForwardCalls : ToRestart(g) = ToRestart(g)'
  BY <1>1, <1>2, <1>3, NoChangeIs DEF ToRestart, srsVars
<1>6. dests' \in dests..MaxDests
  BY <1>1 DEF ForwardAll, ForwardInv, ForwardAssumption
<1>7. ForwardInv' /\ TenantInv'
  BY <1>1, <1>2, <1>4, <1>6, CallStep, RowsWritten DEF ForwardAll, ForwardInv
<1>8. FollowsInv'
  BY <1>1, <1>5 DEF ForwardAll, FollowsInv, srsVars, ActiveOf, DestsOf
<1>9. CapInv'
  <2> SUFFICES ASSUME NEW u \in Hosts
               PROVE  Cardinality(DestsOf(u)') + Cardinality(Inserting(u)')
                        < HostCap + Cardinality(ForwardCalls)
    BY DEF CapInv
  <2>1. DestsOf(u)' = DestsOf(u)
    BY <1>1 DEF DestsOf
  <2>2. CASE u = o
    <3>1. Inserting(o)' \in SUBSET ForwardCalls
      BY DEF Inserting
    <3>2. Cardinality(Inserting(o)') <= Cardinality(ForwardCalls) /\ Cardinality(Inserting(o)') \in Nat
      BY <3>1, FS_Subset, FS_CardinalityType DEF ForwardAssumption
    <3> QED
      BY <1>1, <2>1, <2>2, <3>2, Counted DEF ForwardAssumption
  <2>3. CASE u # o
    <3>1. Inserting(u)' = Inserting(u)
      BY <1>1, <1>2, <1>3, <2>3, NoChangeIs DEF Inserting
    <3> QED
      BY <2>1, <3>1 DEF ForwardAll, CapInv
  <2> QED
    BY <2>2, <2>3
<1> QED
  BY <1>7, <1>8, <1>9 DEF ForwardGoes

LEMMA ForwardInsert ==
  ASSUME ForwardAssumption, ForwardAll, NEW h \in ForwardCalls, InsertDest(h)
  PROVE  ForwardGoes
<1> DEFINE o == change[h].owner
           row == [owner |-> o, active |-> FALSE]
<1>1. /\ change[h].step = "insert" /\ ChangeOK(h) /\ o \in Hosts
      /\ dests' = dests + 1 /\ dests < MaxDests /\ dests \in Nat /\ MaxDests \in Nat
      /\ dest' = [dest EXCEPT ![dests + 1] = row]
      /\ change' = [change EXCEPT ![h] = NoChange] /\ UNCHANGED srsVars
  BY ChangeIs DEF ForwardAll, ForwardInv, ForwardAssumption, InsertDest, ChangeAt, ChangeOK
<1>2. row \in [owner: Feeds, active: BOOLEAN] /\ row.owner = o /\ ~row.active /\ o # Playout
  BY <1>1, PlayoutIsFeed
<1> HIDE DEF o, row
<1>3. change'[h] = NoChange /\ \A g \in ForwardCalls : g # h => change'[g] = change[g]
  BY <1>1 DEF ForwardAll, ForwardInv
<1>4. dests + 1 \in Dests /\ dest'[dests + 1] = row /\ dest[dests + 1] = None
      /\ \A d \in Dests : d # dests + 1 => dest'[d] = dest[d]
  BY <1>1 DEF ForwardAll, ForwardInv, Dests
<1>5. /\ dests' \in dests..MaxDests
      /\ dest' \in [Dests -> {None} \cup [owner: Feeds, active: BOOLEAN]]
      /\ \A d \in Dests : d > dests' => dest'[d] = None
      /\ \A d \in Dests : d <= dests /\ dest'[d] # None
                             => dest[d] # None /\ dest'[d].owner = dest[d].owner
  BY <1>1, <1>2, <1>4 DEF ForwardAll, ForwardInv, Dests
<1>6. ChangeOK(h)' /\ \A g \in ForwardCalls : ToRestart(g) => ToRestart(g)'
  BY <1>1, <1>3, NoChangeIs DEF ChangeOK, ToRestart, srsVars
<1>7. ForwardInv' /\ TenantInv'
  BY <1>1, <1>5, <1>6, NoChangeIs, CallStep, RowsWritten DEF ForwardAll
<1>8. FollowsInv'
  <2>1. ActiveOf(Playout)' = ActiveOf(Playout)
    BY <1>2, <1>4 DEF ActiveOf, DestsOf
  <2> QED
    BY <1>1, <1>6, <2>1 DEF ForwardAll, FollowsInv, srsVars
<1>9. CapInv'
  <2> SUFFICES ASSUME NEW u \in Hosts
               PROVE  Cardinality(DestsOf(u)') + Cardinality(Inserting(u)')
                        < HostCap + Cardinality(ForwardCalls)
    BY DEF CapInv
  <2>1. CASE u = o
    <3>1. DestsOf(u)' \in SUBSET (DestsOf(u) \cup {dests + 1}) /\ dests + 1 \notin DestsOf(u)
      BY <1>2, <1>4, <2>1 DEF DestsOf
    <3>2. Inserting(u)' = Inserting(u) \ {h} /\ h \in Inserting(u)
      BY <1>1, <1>3, <2>1, NoChangeIs DEF Inserting, o
    <3>3. IsFiniteSet(DestsOf(u)') /\ Cardinality(DestsOf(u)') <= Cardinality(DestsOf(u)) + 1
      <4> DEFINE more == DestsOf(u) \cup {dests + 1}
      <4>1. IsFiniteSet(more) /\ Cardinality(more) = Cardinality(DestsOf(u)) + 1
        BY <3>1, Counted, FS_AddElement
      <4>2. DestsOf(u)' \in SUBSET more
        BY <3>1
      <4> HIDE DEF more
      <4> QED
        BY <4>1, <4>2, FS_Subset
    <3>4. Cardinality(Inserting(u)') = Cardinality(Inserting(u)) - 1
      <4> DEFINE before == Inserting(u)
      <4>1. IsFiniteSet(before) /\ h \in before
        BY <3>2, Counted
      <4> HIDE DEF before
      <4>2. Cardinality(before \ {h}) = Cardinality(before) - 1
        BY <4>1, FS_RemoveElement
      <4> QED
        BY <3>2, <4>2 DEF before
    <3> QED
      BY <3>3, <3>4, Counted, FS_CardinalityType DEF ForwardAll, CapInv, ForwardAssumption
  <2>2. CASE u # o
    <3>1. DestsOf(u)' = DestsOf(u) /\ Inserting(u)' = Inserting(u)
      BY <1>1, <1>2, <1>3, <1>4, <2>2, NoChangeIs DEF DestsOf, Inserting, o
    <3> QED
      BY <3>1 DEF ForwardAll, CapInv
  <2> QED
    BY <2>1, <2>2
<1> QED
  BY <1>7, <1>8, <1>9 DEF ForwardGoes

LEMMA ForwardStart == ForwardAssumption /\ ForwardInit => ForwardAll
<1> SUFFICES ASSUME ForwardAssumption, ForwardInit PROVE ForwardAll
  OBVIOUS
<1>1. ForwardInv
  BY NoChangeIs DEF ForwardInit, ForwardInv, FeedOK, ChangeOK, ForwardAssumption
<1>2. TenantInv /\ FollowsInv
  BY NoChangeIs, PlayoutIsFeed DEF ForwardInit, TenantInv, Tenant, FollowsInv
<1>3. CapInv
  <2> SUFFICES ASSUME NEW o \in Hosts
               PROVE  Cardinality(DestsOf(o)) + Cardinality(Inserting(o))
                        < HostCap + Cardinality(ForwardCalls)
    BY DEF CapInv
  <2>1. DestsOf(o) = {} /\ Inserting(o) = {}
    BY NoChangeIs DEF ForwardInit, DestsOf, Inserting
  <2> QED
    BY <2>1, FS_EmptySet, Counted DEF ForwardAssumption
<1> QED
  BY <1>1, <1>2, <1>3 DEF ForwardAll

LEMMA ForwardStep == ForwardAssumption /\ ForwardAll /\ [ForwardNext]_forwardVars => ForwardAll'
<1> SUFFICES ASSUME ForwardAssumption, ForwardAll, [ForwardNext]_forwardVars PROVE ForwardGoes
  BY DEF ForwardGoes, ForwardAll
<1>1. CASE UNCHANGED forwardVars
  BY <1>1 DEF forwardVars, srsVars, ForwardAll, ForwardGoes, ForwardInv, FeedOK, ChangeOK, TenantInv,
     Tenant, FollowsInv, ToRestart, ActiveOf, DestsOf, CapInv, Inserting
<1>2. CASE ForwardNext
  BY <1>2, ForwardConnect, ForwardClassify, ForwardReadUrls, ForwardGoLive, ForwardDisconnect,
     ForwardHangUp, ForwardPlatform, ForwardSelect, ForwardList, ForwardKick, ForwardKicked,
     ForwardRefused, ForwardFails, ForwardCount, ForwardInsert, ForwardOwn DEF ForwardNext
<1> QED
  BY <1>1, <1>2

\* simulcast.ts: once the restarts after the platform's writes are over, the playout goes
\* to the destinations that are switched on, however writes, kicks and reconnects crossed.
THEOREM PlayoutFollows == ForwardSpec => []ForwardsFollow
<1>1. ForwardAll => ForwardsFollow
  BY DEF ForwardAll, FollowsInv, ForwardsFollow
<1> QED
  BY <1>1, ForwardStart, ForwardStep, ForwardAssumption, PTL DEF ForwardSpec

\* streaming-callbacks.ts: a creator's stream is forwarded to Liquidsoap and to that
\* creator's destinations only.
THEOREM OwnForwards == ForwardSpec => []TenantForwards
<1>1. ForwardAll => TenantForwards
  BY DEF ForwardAll, TenantInv, Tenant, TenantForwards
<1> QED
  BY <1>1, ForwardStart, ForwardStep, ForwardAssumption, PTL DEF ForwardSpec

\* simulcast.ts: the cap on a creator's destinations is passed by no more than the calls
\* that counted at the same time.
THEOREM DestsCapped == ForwardSpec => []DestCap
<1>1. ForwardAll => DestCap
  BY ForwardAssumption, Counted DEF ForwardAll, CapInv, DestCap
<1> QED
  BY <1>1, ForwardStart, ForwardStep, ForwardAssumption, PTL DEF ForwardSpec

\* The range of every variable of the forwarding.
THEOREM ForwardTyped == ForwardSpec => []ForwardTypeOK
<1>1. ForwardAll => ForwardTypeOK
  <2> SUFFICES ASSUME ForwardAll PROVE ForwardTypeOK
    OBVIOUS
  <2>1. hangUps \subseteq Hosts \X (1..MaxConnections)
    BY ForwardAssumption DEF ForwardAll, ForwardInv
  <2> QED
    BY <2>1 DEF ForwardAll, ForwardInv, ForwardTypeOK, FeedRecords
<1> QED
  BY <1>1, ForwardStart, ForwardStep, ForwardAssumption, PTL DEF ForwardSpec

-----------------------------------------------------------------------------
(* PlayoutIngest *)

FilmRecords ==
    [status: {"pending", "uploading", "processing", "ready", "failed"},
     source: Films \cup {None}, title: {None, "admin", "tag"}, position: Nat]

WorkRecords ==
    [step: {"idle", "start", "download", "save", "probe", "ready"}, row: 0..MaxFilms,
     file: Films \cup {None}, blank: BOOLEAN, from: 0..MaxCopies]

Lists == {<<>>} \cup UNION {[rs -> Nat] : rs \in SUBSET Rows}
DeskRecords ==
    [step: {"idle", "check", "record", "mark", "send", "insert", "list", "reindex", "reset", "resend"},
     row: 0..MaxFilms, file: Films \cup {None}, position: Nat, seen: Nat, list: Lists]

WorkerOK ==
    worker # NoWork => worker.step # "idle" /\ worker.row \in 1..filmed /\ worker.file \in Films

DeskOK(h) ==
    LET c == desk[h]
    IN  /\ c.step = "idle" => c = NoDesk
        /\ c.step \in {"check", "record", "mark", "send", "reset", "resend"} => c.row \in 1..filmed
        /\ c.step \in {"check", "record"} => c.file \in Films
        /\ c.step = "insert" => c.seen <= filmed
        /\ c.step = "reindex" => DOMAIN c.list \subseteq 1..filmed

FilmsTyped ==
    /\ film \in [Rows -> FilmRecords \cup {None}]
    /\ filmed \in 0..MaxFilms
    /\ \A r \in Rows : r > filmed => film[r] = None

IngestTypes ==
    /\ FilmsTyped
    /\ reel \in [Rows \X Films -> [from: 0..MaxCopies, clean: BOOLEAN]]
    /\ copied \in 0..MaxCopies
    /\ newest \in [Rows \X Films -> 0..MaxCopies]
    /\ ingests \in [Rows -> Nat]
    /\ worker \in WorkRecords /\ WorkerOK
    /\ desk \in [IngestCalls -> DeskRecords]
    /\ \A h \in IngestCalls : DeskOK(h)

\* A job for the row is waiting, or will be sent.
Pending(r) ==
    \/ ingests[r] > 0
    \/ \E h \in IngestCalls :
          desk[h].row = r /\ desk[h].step \in {"record", "mark", "send", "resend"}

\* An upload under the name of the row's own file is being checked.
Checking(r) ==
    \E h \in IngestCalls :
        desk[h].step = "check" /\ desk[h].row = r /\ desk[h].file = film[r].source

\* What the key of row r's source holds was remuxed, or is going to be.
Settling(r) == reel[<<r, film[r].source>>].clean \/ Pending(r) \/ Checking(r)

Excused == ~Unharmed

\* What a key holds is its last upload, or was deleted.
ReelOK ==
    \A k \in Rows \X Films : /\ reel[k].from = newest[k] \/ reel[k].from = 0
                             /\ reel[k].clean => reel[k].from > 0

\* The worker's row, if it is still there, has a source that is the worker's file or
\* that has a job of its own ahead.
WorkerAhead ==
    worker # NoWork /\ worker.row \in Live =>
        /\ film[worker.row].source # worker.file => Pending(worker.row)
        /\ worker.step \in {"probe", "ready"} => Settling(worker.row)

NewestInv ==
    /\ \A h \in IngestCalls :
          desk[h].step \in {"check", "record"} => newest[<<desk[h].row, desk[h].file>>] > 0
    /\ \A r \in Live : film[r].source # None => newest[<<r, film[r].source>>] > 0
    /\ \A r \in Live : film[r].status = "ready" => film[r].source # None
    /\ worker # NoWork =>
          /\ newest[<<worker.row, worker.file>>] > 0
          /\ worker.row \in Live => film[worker.row].source # None
    /\ Excused \/
          /\ ReelOK
          /\ worker.step = "save" => worker.from = newest[<<worker.row, worker.file>>]
          /\ \A r \in Live : film[r].status = "ready" => Settling(r) \/ worker.row = r
          /\ WorkerAhead

\* How many rows there are up to row s.
Rank(s) == Cardinality({x \in Live : x <= s})

\* A list that was read when all its rows were there, and none of them is gone.
ListOK(list) ==
    DOMAIN list \subseteq Live =>
        \A s \in DOMAIN list :
            /\ list[s] = Rank(s)
            /\ \A x \in Live : x < s => x \in DOMAIN list

InsertOK(h) ==
    desk[h].step = "insert" /\ desk[h].seen = filmed =>
        /\ \A r \in Live : desk[h].position > film[r].position
        /\ desk[h].position > Cardinality(Live)

Crossed == amiss \cap {"crossed", "shuffled"} # {}

OrderInv ==
    Crossed \/
        /\ \A r, s \in Live : r < s => film[r].position < film[s].position
        /\ \A r \in Live : film[r].position >= Rank(r)
        /\ \A h \in IngestCalls : InsertOK(h)
        /\ \A h \in IngestCalls : desk[h].step = "reindex" => ListOK(desk[h].list)

IngestAll == IngestTypes /\ NewestInv /\ OrderInv

\* The rows are finitely many, and so each has a rank.
LEMMA LiveFinite ==
  ASSUME IngestAssumption
  PROVE  /\ IsFiniteSet(Live) /\ Cardinality(Live) \in Nat
         /\ \A s : /\ IsFiniteSet({x \in Live : x <= s})
                   /\ Rank(s) \in Nat /\ Rank(s) <= Cardinality(Live)
<1>1. IsFiniteSet(Rows) /\ Live \in SUBSET Rows
  BY FS_Interval DEF IngestAssumption, Rows, Live
<1>2. IsFiniteSet(Live)
  BY <1>1, FS_Subset
<1>3. ASSUME NEW s
      PROVE  /\ IsFiniteSet({x \in Live : x <= s})
             /\ Rank(s) \in Nat /\ Rank(s) <= Cardinality(Live)
  <2> DEFINE low == {x \in Live : x <= s}
  <2>1. low \in SUBSET Live
    OBVIOUS
  <2>2. IsFiniteSet(low) /\ Cardinality(low) <= Cardinality(Live)
    <3> HIDE DEF low
    <3> QED
      BY <1>2, <2>1, FS_Subset
  <2> QED
    BY <2>2, FS_CardinalityType DEF Rank
<1> QED
  BY <1>2, <1>3, FS_CardinalityType

\* Rows that go can only lower a rank, and do not when none of them is below.
LEMMA RanksShrink ==
  ASSUME IngestAssumption, Live' \subseteq Live
  PROVE  /\ IsFiniteSet(Live') /\ Cardinality(Live') \in Nat /\ Cardinality(Live') <= Cardinality(Live)
         /\ \A s : Rank(s)' \in Nat /\ Rank(s)' <= Rank(s)
         /\ \A s : (\A x \in Live : x <= s => x \in Live') => Rank(s)' = Rank(s)
<1>1. Live' \in SUBSET Live
  OBVIOUS
<1>2. IsFiniteSet(Live') /\ Cardinality(Live') <= Cardinality(Live) /\ Cardinality(Live') \in Nat
  BY <1>1, LiveFinite, FS_Subset, FS_CardinalityType
<1>3. ASSUME NEW s
      PROVE  /\ Rank(s)' \in Nat /\ Rank(s)' <= Rank(s)
             /\ (\A x \in Live : x <= s => x \in Live') => Rank(s)' = Rank(s)
  <2> DEFINE low == {x \in Live : x <= s}
             low1 == {x \in Live' : x <= s}
  <2>1. low1 \in SUBSET low /\ IsFiniteSet(low)
    BY LiveFinite
  <2>2. (\A x \in Live : x <= s => x \in Live') => low1 = low
    OBVIOUS
  <2>3. Rank(s) = Cardinality(low) /\ Rank(s)' = Cardinality(low1)
    BY DEF Rank
  <2> HIDE DEF low, low1
  <2>4. IsFiniteSet(low1) /\ Cardinality(low1) <= Cardinality(low)
    BY <2>1, FS_Subset
  <2> QED
    BY <2>2, <2>3, <2>4, FS_CardinalityType
<1> QED
  BY <1>2, <1>3

\* Ranks go up with the rows.
LEMMA RanksRise ==
  ASSUME IngestAssumption, NEW r \in Live, NEW s \in Live, r < s
  PROVE  Rank(r) < Rank(s)
<1> DEFINE low == {x \in Live : x <= r}
           high == {x \in Live : x <= s}
<1>0. \A x \in Live : x \in Int
  BY DEF Live, Rows, IngestAssumption
<1>1. low \in SUBSET high /\ s \in high /\ s \notin low
  BY <1>0
<1>2. IsFiniteSet(high) /\ IsFiniteSet(low) /\ Rank(r) = Cardinality(low) /\ Rank(s) = Cardinality(high)
  BY LiveFinite DEF Rank
<1> HIDE DEF low, high
<1>3. Cardinality(low) <= Cardinality(high) /\ (Cardinality(low) = Cardinality(high) => high = low)
  BY <1>1, <1>2, FS_Subset
<1> QED
  BY <1>1, <1>2, <1>3, FS_CardinalityType

\* A list keeps what it is worth when rows go.
LEMMA ListStays ==
  ASSUME IngestAssumption, Live' \subseteq Live, NEW h \in IngestCalls, desk'[h] = desk[h],
         ListOK(desk[h].list)
  PROVE  ListOK(desk[h].list)'
<1> DEFINE list == desk[h].list
<1> SUFFICES ASSUME DOMAIN list \subseteq Live', NEW s \in DOMAIN list
             PROVE  list[s] = Rank(s)' /\ \A x \in Live' : x < s => x \in DOMAIN list
  BY DEF ListOK
<1>1. list[s] = Rank(s) /\ \A x \in Live : x < s => x \in DOMAIN list
  BY DEF ListOK
<1>2. \A x \in Live : x <= s => x \in Live'
  BY <1>1 DEF Live, Rows, IngestAssumption
<1> QED
  BY <1>1, <1>2, RanksShrink

\* Items stay in their order when rows go, and no other position, list or insert changes.
LEMMA OrderStays ==
  ASSUME IngestAssumption, IngestTypes, OrderInv, Live' \subseteq Live, amiss \subseteq amiss',
         filmed' = filmed,
         \A r \in Live' : film'[r].position = film[r].position,
         \A h \in IngestCalls : desk'[h].step \in {"insert", "reindex"} => desk'[h] = desk[h]
  PROVE  OrderInv'
<1> SUFFICES ASSUME ~Crossed'
             PROVE  /\ \A r, s \in Live' : r < s => film'[r].position < film'[s].position
                    /\ \A r \in Live' : film'[r].position >= Rank(r)'
                    /\ \A h \in IngestCalls : InsertOK(h)'
                    /\ \A h \in IngestCalls : desk'[h].step = "reindex" => ListOK(desk[h].list)'
  BY DEF OrderInv
<1>1. /\ \A r, s \in Live : r < s => film[r].position < film[s].position
      /\ \A r \in Live : film[r].position >= Rank(r)
      /\ \A h \in IngestCalls : InsertOK(h)
      /\ \A h \in IngestCalls : desk[h].step = "reindex" => ListOK(desk[h].list)
  BY DEF OrderInv, Crossed
<1>2. \A r \in Live : film[r].position \in Nat
  BY DEF IngestTypes, FilmsTyped, Live, FilmRecords
<1>3. \A r, s \in Live' : r < s => film'[r].position < film'[s].position
  BY <1>1
<1>4. ASSUME NEW r \in Live' PROVE film'[r].position >= Rank(r)'
  <2>1. Rank(r) \in Nat /\ Rank(r)' \in Nat /\ Rank(r)' <= Rank(r)
    BY LiveFinite, RanksShrink
  <2>2. film'[r].position = film[r].position /\ film[r].position \in Nat
        /\ film[r].position >= Rank(r)
    BY <1>1, <1>2
  <2> QED
    BY <2>1, <2>2
<1>5. ASSUME NEW h \in IngestCalls PROVE InsertOK(h)'
  <2> SUFFICES ASSUME desk'[h].step = "insert", desk'[h].seen = filmed'
               PROVE  /\ \A r \in Live' : desk'[h].position > film'[r].position
                      /\ desk'[h].position > Cardinality(Live')
    BY DEF InsertOK
  <2>1. desk'[h] = desk[h] /\ desk[h].position \in Nat
    BY DEF IngestTypes, DeskRecords
  <2>2. /\ \A r \in Live : desk[h].position > film[r].position
        /\ desk[h].position > Cardinality(Live)
    BY <1>1, <2>1 DEF InsertOK
  <2>3. desk[h].position > Cardinality(Live')
    BY <2>1, <2>2, LiveFinite, RanksShrink
  <2> QED
    BY <2>1, <2>2, <2>3
<1>6. ASSUME NEW h \in IngestCalls, desk'[h].step = "reindex" PROVE ListOK(desk[h].list)'
  BY <1>1, <1>6, ListStays
<1> QED
  BY <1>3, <1>4, <1>5, <1>6

\* A call with an upload is where it was, or its upload has passed the check.
Goes(h) ==
    \/ desk'[h] = desk[h]
    \/ /\ desk[h].step = "check" /\ desk'[h].step = "record"
       /\ desk'[h].row = desk[h].row /\ desk'[h].file = desk[h].file

\* Ready films stay as good as they were: no object, worker or source changes, and no job
\* that was to come is gone.
LEMMA NewestStays ==
  ASSUME IngestAssumption, IngestTypes, NewestInv, UNCHANGED <<reel, newest, worker>>,
         amiss \subseteq amiss',
         \A r \in Live' :
            \/ /\ r \in Live /\ film'[r].source = film[r].source
               /\ film'[r].status = "ready" => film[r].status = "ready"
            \/ r > filmed /\ film'[r].source = None /\ film'[r].status # "ready",
         \A r \in Rows : Pending(r) => Pending(r)',
         \A h \in IngestCalls :
            desk[h].step = "check" \/ desk'[h].step \in {"check", "record"} => Goes(h)
  PROVE  NewestInv'
<1>1. worker # NoWork => worker.row <= filmed /\ worker.row \in Nat /\ filmed \in Nat
  BY DEF IngestTypes, WorkerOK, FilmsTyped, IngestAssumption
<1>2. worker # NoWork /\ worker.row \in Live'
        => worker.row \in Live /\ film'[worker.row].source = film[worker.row].source
  BY <1>1
<1>3. \A r \in Live' : r \in Live /\ film'[r].source = film[r].source /\ Settling(r) => Settling(r)'
  <2> SUFFICES ASSUME NEW r \in Live', film'[r].source = film[r].source, Settling(r)
               PROVE  Settling(r)'
    OBVIOUS
  <2>1. CASE reel[<<r, film[r].source>>].clean
    BY <2>1 DEF Settling
  <2>2. CASE Pending(r)
    BY <2>2 DEF Settling, Live
  <2>3. CASE Checking(r)
    <3>1. PICK h \in IngestCalls :
             desk[h].step = "check" /\ desk[h].row = r /\ desk[h].file = film[r].source
      BY <2>3 DEF Checking
    <3>2. CASE desk'[h] = desk[h]
      BY <3>1, <3>2 DEF Settling, Checking
    <3>3. CASE desk'[h].step = "record" /\ desk'[h].row = desk[h].row
      BY <3>1, <3>3 DEF Settling, Pending
    <3> QED
      BY <3>1, <3>2, <3>3 DEF Goes
  <2> QED
    BY <2>1, <2>2, <2>3 DEF Settling
<1>4. ASSUME ~Excused'
      PROVE  /\ ReelOK'
             /\ worker'.step = "save" => worker'.from = newest'[<<worker'.row, worker'.file>>]
             /\ \A r \in Live' : film'[r].status = "ready" => Settling(r)' \/ worker'.row = r
             /\ WorkerAhead'
  <2>1. /\ ReelOK
        /\ worker.step = "save" => worker.from = newest[<<worker.row, worker.file>>]
        /\ \A r \in Live : film[r].status = "ready" => Settling(r) \/ worker.row = r
        /\ WorkerAhead
    BY <1>4 DEF NewestInv, Excused, Unharmed
  <2>2. WorkerAhead'
    BY <1>2, <1>3, <2>1 DEF WorkerAhead, Live
  <2>3. ReelOK'
    BY <2>1 DEF ReelOK
  <2> QED
    BY <1>3, <2>1, <2>2, <2>3
<1>5. \A h \in IngestCalls : desk'[h].step \in {"check", "record"}
         => newest'[<<desk'[h].row, desk'[h].file>>] > 0
  BY DEF NewestInv, Goes
<1> QED
  BY <1>2, <1>4, <1>5 DEF NewestInv

\* What the invariants say of a step.
IngestGoes == IngestTypes' /\ NewestInv' /\ OrderInv'

LEMMA NoDeskIs ==
  IngestAssumption => /\ NoDesk \in DeskRecords /\ NoDesk.step = "idle" /\ NoDesk.row = 0
                      /\ NoDesk.list = <<>> /\ NoDesk.seen = 0
BY DEF IngestAssumption, NoDesk, DeskRecords, Lists

\* A step of one call: the other calls are where they were.
LEMMA DeskTyped ==
  ASSUME IngestAssumption, IngestTypes, NEW h \in IngestCalls, NEW c \in DeskRecords,
         desk' = [desk EXCEPT ![h] = c], DeskOK(h)', filmed' \in filmed..MaxFilms
  PROVE  /\ desk' \in [IngestCalls -> DeskRecords] /\ desk'[h] = c
         /\ \A g \in IngestCalls : g # h => desk'[g] = desk[g]
         /\ \A g \in IngestCalls : DeskOK(g)'
         /\ UNCHANGED worker => worker' \in WorkRecords /\ WorkerOK'
<1>1. /\ desk' \in [IngestCalls -> DeskRecords] /\ desk'[h] = c
      /\ \A g \in IngestCalls : g # h => desk'[g] = desk[g]
  BY DEF IngestTypes
<1>2. filmed \in Nat /\ filmed' \in Nat /\ filmed <= filmed'
  BY DEF IngestTypes, FilmsTyped, IngestAssumption
<1>3. ASSUME NEW g \in IngestCalls, g # h PROVE DeskOK(g)'
  <2>1. desk'[g] = desk[g] /\ DeskOK(g) /\ desk[g].seen \in Nat
    BY <1>1, <1>3 DEF IngestTypes, DeskRecords
  <2> QED
    BY <1>2, <2>1 DEF DeskOK
<1>4. UNCHANGED worker => worker' \in WorkRecords /\ WorkerOK'
  BY <1>2 DEF IngestTypes, WorkerOK
<1> QED
  BY <1>1, <1>3, <1>4

\* The status of a row is written, if the row is there.
Marked(r, status) == SetFilm(r, [film[r] EXCEPT !.status = status])
LEMMA StatusSet ==
  ASSUME IngestAssumption, FilmsTyped, NEW r \in 1..filmed, filmed' = filmed,
         NEW status \in {"pending", "uploading", "processing", "ready", "failed"},
         Marked(r, status)
  PROVE  /\ FilmsTyped' /\ Live' \subseteq Live
         /\ \A x \in Live' : /\ film'[x].position = film[x].position
                             /\ film'[x].source = film[x].source
                             /\ film'[x].status = IF x = r THEN status ELSE film[x].status
<1>1. r \in Rows /\ filmed \in Nat
  BY DEF FilmsTyped, Rows, IngestAssumption
<1>2. CASE film[r] = None
  <2>1. film' = film /\ r \notin Live
    BY <1>2 DEF Marked, SetFilm, Live
  <2> QED
    BY <2>1 DEF FilmsTyped, Live
<1>3. CASE film[r] # None
  <2> DEFINE f == [film[r] EXCEPT !.status = status]
  <2>1. film[r] \in FilmRecords
    BY <1>1, <1>3 DEF FilmsTyped
  <2>2. /\ f \in FilmRecords /\ f.status = status
        /\ f.position = film[r].position /\ f.source = film[r].source
    BY <2>1 DEF FilmRecords
  <2>3. film' = [film EXCEPT ![r] = f]
    BY <1>3 DEF Marked, SetFilm
  <2> HIDE DEF f
  <2>4. film'[r] = f /\ \A x \in Rows : x # r => film'[x] = film[x]
    BY <1>1, <2>3 DEF FilmsTyped
  <2>5. FilmsTyped'
    BY <1>1, <2>2, <2>3, <2>4 DEF FilmsTyped
  <2>6. Live' \subseteq Live
    BY <1>1, <1>3, <2>4 DEF Live
  <2>7. \A x \in Live' : x \in Rows
    BY DEF Live
  <2> QED
    BY <2>2, <2>4, <2>5, <2>6, <2>7
<1> QED
  BY <1>2, <1>3

\* No job that was to come is gone, when call h has handed over what it was to do.
LEMMA PendingStays ==
  ASSUME NEW h \in IngestCalls, \A g \in IngestCalls : g # h => desk'[g] = desk[g],
         \A r \in Rows : ingests[r] > 0 => ingests'[r] > 0,
         desk[h].step \in {"record", "mark", "send", "resend"}
            => \/ /\ desk'[h].step \in {"record", "mark", "send", "resend"}
                  /\ desk'[h].row = desk[h].row
               \/ ingests'[desk[h].row] > 0
  PROVE  \A r \in Rows : Pending(r) => Pending(r)'
<1> SUFFICES ASSUME NEW r \in Rows, Pending(r) PROVE Pending(r)'
  OBVIOUS
<1>1. CASE ingests[r] > 0
  BY <1>1 DEF Pending
<1>2. ASSUME NEW g \in IngestCalls, desk[g].row = r,
             desk[g].step \in {"record", "mark", "send", "resend"}
      PROVE  Pending(r)'
  BY <1>2 DEF Pending
<1> QED
  BY <1>1, <1>2 DEF Pending

\* A call starts, goes on or ends, and writes no row: neither a list nor an insert is at stake.
LEMMA DeskGoesOn ==
  ASSUME IngestAssumption, IngestAll, NEW h \in IngestCalls, NEW c \in DeskRecords,
         desk' = [desk EXCEPT ![h] = c], DeskOK(h)',
         desk[h].step # "check", c.step \notin {"check", "record", "insert", "reindex"},
         desk[h].step \in {"record", "mark", "send", "resend"}
            => \/ c.step \in {"record", "mark", "send", "resend"} /\ c.row = desk[h].row
               \/ ingests'[desk[h].row] > 0,
         ingests' \in [Rows -> Nat], \A r \in Rows : ingests[r] > 0 => ingests'[r] > 0,
         UNCHANGED <<filmed, reel, copied, newest, worker, amiss>>,
         FilmsTyped', Live' \subseteq Live,
         \A r \in Live' : /\ film'[r].position = film[r].position
                          /\ film'[r].source = film[r].source
                          /\ film'[r].status = "ready" => film[r].status = "ready"
  PROVE  IngestGoes
<1>1. filmed' \in filmed..MaxFilms
  BY DEF IngestAll, IngestTypes, FilmsTyped, IngestAssumption
<1>2. /\ desk' \in [IngestCalls -> DeskRecords] /\ desk'[h] = c
      /\ \A g \in IngestCalls : g # h => desk'[g] = desk[g]
      /\ \A g \in IngestCalls : DeskOK(g)'
      /\ worker' \in WorkRecords /\ WorkerOK'
  BY <1>1, DeskTyped DEF IngestAll
<1>3. IngestTypes'
  BY <1>2 DEF IngestAll, IngestTypes
<1>4. \A g \in IngestCalls :
         /\ desk'[g].step \in {"insert", "reindex"} => desk'[g] = desk[g]
         /\ desk[g].step = "check" \/ desk'[g].step \in {"check", "record"} => Goes(g)
  BY <1>2 DEF Goes
<1>5. OrderInv'
  BY <1>4, OrderStays DEF IngestAll
<1>6. \A r \in Rows : Pending(r) => Pending(r)'
  BY <1>2, PendingStays
<1>7. NewestInv'
  BY <1>4, <1>6, NewestStays DEF IngestAll
<1> QED
  BY <1>3, <1>5, <1>7 DEF IngestGoes

\* The two steps that write a status and leave what is to come.
LEMMA IngestMarks ==
  ASSUME IngestAssumption, IngestAll, NEW h \in IngestCalls, MarkUploading(h) \/ RetryReset(h)
  PROVE  IngestGoes
<1>1. PICK step \in {"send", "resend"}, status \in {"uploading", "pending"} :
         /\ SetFilm(desk[h].row, [film[desk[h].row] EXCEPT !.status = status])
         /\ desk' = [desk EXCEPT ![h].step = step]
  BY DEF MarkUploading, RetryReset
<1>2. /\ desk[h].step \in {"mark", "reset"} /\ desk[h].row \in 1..filmed /\ desk[h] \in DeskRecords
      /\ UNCHANGED <<filmed, reel, copied, newest, ingests, worker, amiss>>
  BY DEF MarkUploading, RetryReset, DeskAt, IngestAll, IngestTypes, DeskOK
<1> DEFINE c == [desk[h] EXCEPT !.step = step]
<1>3. c \in DeskRecords /\ c.step = step /\ c.row = desk[h].row
  BY <1>2 DEF DeskRecords
<1>4. desk' = [desk EXCEPT ![h] = c]
  BY <1>1
<1> HIDE DEF c
<1>5. DeskOK(h)'
  BY <1>2, <1>3, <1>4 DEF IngestAll, IngestTypes, DeskOK
<1>6. PICK r \in 1..filmed : r = desk[h].row
  BY <1>2
<1>7. /\ FilmsTyped' /\ Live' \subseteq Live
      /\ \A x \in Live' : /\ film'[x].position = film[x].position
                          /\ film'[x].source = film[x].source
                          /\ film'[x].status = IF x = r THEN status ELSE film[x].status
  <2>1. Marked(r, status)
    BY <1>1, <1>6 DEF Marked, SetFilm
  <2>2. status \in {"pending", "uploading", "processing", "ready", "failed"}
    OBVIOUS
  <2> QED
    BY <1>2, <2>1, <2>2, StatusSet DEF IngestAll, IngestTypes
<1>8. ingests' \in [Rows -> Nat] /\ \A x \in Rows : ingests[x] > 0 => ingests'[x] > 0
  BY <1>2 DEF IngestAll, IngestTypes
<1> QED
  BY <1>2, <1>3, <1>4, <1>5, <1>7, <1>8, DeskGoesOn

\* A job is handed to pg-boss.
LEMMA IngestSends ==
  ASSUME IngestAssumption, IngestAll, NEW h \in IngestCalls, SendIngest(h) \/ RetrySend(h)
  PROVE  IngestGoes
<1>1. /\ desk[h].step # "check"
      /\ desk[h].row \in 1..filmed /\ filmed \in 0..MaxFilms /\ ingests \in [Rows -> Nat]
      /\ ingests' = [ingests EXCEPT ![desk[h].row] = ingests[desk[h].row] + 1]
      /\ desk' = [desk EXCEPT ![h] = NoDesk]
      /\ UNCHANGED <<film, filmed, reel, copied, newest, worker, amiss>>
  BY DEF SendIngest, RetrySend, DeskAt, DeskEnds, IngestAll, IngestTypes, FilmsTyped, DeskOK
<1>2. desk[h].row \in Rows
  BY <1>1 DEF Rows, IngestAssumption
<1>3. /\ ingests' \in [Rows -> Nat] /\ \A x \in Rows : ingests[x] > 0 => ingests'[x] > 0
      /\ ingests'[desk[h].row] > 0
  BY <1>1, <1>2
<1>4. DeskOK(h)'
  BY <1>1, NoDeskIs DEF IngestAll, IngestTypes, DeskOK
<1>5. FilmsTyped' /\ Live' \subseteq Live
  BY <1>1 DEF IngestAll, IngestTypes, FilmsTyped, Live
<1>6. \A x \in Live' : film'[x] = film[x]
  BY <1>1
<1> QED
  BY <1>1, <1>3, <1>4, <1>5, <1>6, NoDeskIs, DeskGoesOn

LEMMA IngestRetry ==
  ASSUME IngestAssumption, IngestAll, NEW h \in IngestCalls, NEW r \in Rows, RetryLoad(h, r)
  PROVE  IngestGoes
<1> DEFINE c == [NoDesk EXCEPT !.step = "reset", !.row = r]
<1>1. /\ desk[h] = NoDesk /\ r \in Live /\ desk' = [desk EXCEPT ![h] = c]
      /\ UNCHANGED <<film, filmed, reel, copied, newest, ingests, worker, amiss>>
  BY DEF RetryLoad
<1>2. r \in 0..MaxFilms /\ r \in 1..filmed
  BY <1>1 DEF IngestAll, IngestTypes, FilmsTyped, Live, Rows, IngestAssumption
<1>3. c \in DeskRecords /\ c.step = "reset" /\ c.row = r
  BY <1>2, NoDeskIs DEF DeskRecords
<1> HIDE DEF c
<1>4. DeskOK(h)'
  BY <1>1, <1>2, <1>3 DEF IngestAll, IngestTypes, DeskOK
<1>5. /\ FilmsTyped' /\ Live' \subseteq Live
      /\ ingests' \in [Rows -> Nat] /\ \A x \in Rows : ingests[x] > 0 => ingests'[x] > 0
  BY <1>1 DEF IngestAll, IngestTypes, FilmsTyped, Live
<1>6. \A x \in Live' : film'[x] = film[x]
  BY <1>1
<1> QED
  BY <1>1, <1>3, <1>4, <1>5, <1>6, NoDeskIs, DeskGoesOn

\* The row goes, and the list is read in a step of its own.
LEMMA IngestDelete ==
  ASSUME IngestAssumption, IngestAll, NEW h \in IngestCalls, NEW r \in Rows, DeleteFilm(h, r)
  PROVE  IngestGoes
<1> DEFINE c == [NoDesk EXCEPT !.step = "list"]
<1>1. /\ desk[h] = NoDesk /\ desk' = [desk EXCEPT ![h] = c] /\ film' = [film EXCEPT ![r] = None]
      /\ UNCHANGED <<filmed, reel, copied, newest, ingests, worker, amiss>>
  BY DEF DeleteFilm
<1>2. c \in DeskRecords /\ c.step = "list"
  BY NoDeskIs DEF DeskRecords
<1> HIDE DEF c
<1>3. DeskOK(h)'
  BY <1>1, <1>2 DEF IngestAll, IngestTypes, DeskOK
<1>4. film'[r] = None /\ \A x \in Rows : x # r => film'[x] = film[x]
  BY <1>1 DEF IngestAll, IngestTypes, FilmsTyped
<1>5. /\ FilmsTyped' /\ Live' \subseteq Live
      /\ ingests' \in [Rows -> Nat] /\ \A x \in Rows : ingests[x] > 0 => ingests'[x] > 0
  BY <1>1, <1>4 DEF IngestAll, IngestTypes, FilmsTyped, Live
<1>6. \A x \in Live' : film'[x] = film[x]
  BY <1>4 DEF Live
<1> QED
  BY <1>1, <1>2, <1>3, <1>5, <1>6, NoDeskIs, DeskGoesOn

LEMMA IngestRetitle ==
  ASSUME IngestAssumption, IngestAll, NEW r \in Rows, Retitle(r)
  PROVE  IngestGoes
<1> DEFINE f == [film[r] EXCEPT !.title = "admin"]
<1>1. /\ r \in Live /\ film' = [film EXCEPT ![r] = f]
      /\ UNCHANGED <<filmed, reel, copied, newest, ingests, worker, desk, amiss>>
  BY DEF Retitle
<1>2. film[r] \in FilmRecords
  BY <1>1 DEF IngestAll, IngestTypes, FilmsTyped, Live
<1>3. /\ f \in FilmRecords /\ f.status = film[r].status
      /\ f.position = film[r].position /\ f.source = film[r].source
  BY <1>2 DEF FilmRecords
<1> HIDE DEF f
<1>4. film'[r] = f /\ \A x \in Rows : x # r => film'[x] = film[x]
  BY <1>1 DEF IngestAll, IngestTypes, FilmsTyped
<1>5. FilmsTyped' /\ Live' \subseteq Live
  BY <1>1, <1>3, <1>4 DEF IngestAll, IngestTypes, FilmsTyped, Live
<1>6. \A x \in Live' : /\ film'[x].position = film[x].position
                       /\ film'[x].source = film[x].source
                       /\ film'[x].status = film[x].status
  BY <1>3, <1>4 DEF Live
<1>7. IngestTypes'
  BY <1>1, <1>5 DEF IngestAll, IngestTypes, WorkerOK, DeskOK
<1>8. \A x \in Rows : Pending(x) => Pending(x)'
  BY <1>1 DEF Pending
<1>9. OrderInv' /\ NewestInv'
  BY <1>1, <1>5, <1>6, <1>8, OrderStays, NewestStays DEF IngestAll, Goes
<1> QED
  BY <1>7, <1>9 DEF IngestGoes

\* recordUpload: the key that the hook wrote becomes the row's, and a job is to follow.
LEMMA IngestRecord ==
  ASSUME IngestAssumption, IngestAll, NEW h \in IngestCalls, RecordSource(h)
  PROVE  IngestGoes
<1> DEFINE c == [desk[h] EXCEPT !.step = "mark"]
<1>1. /\ desk[h].step = "record" /\ desk[h].row \in 1..filmed /\ desk[h].file \in Films
      /\ desk[h] \in DeskRecords /\ desk' = [desk EXCEPT ![h] = c]
      /\ SetFilm(desk[h].row, [film[desk[h].row] EXCEPT !.source = desk[h].file])
      /\ UNCHANGED <<filmed, reel, copied, newest, ingests, worker, amiss>>
  BY DEF RecordSource, DeskAt, IngestAll, IngestTypes, DeskOK
<1>2. c \in DeskRecords /\ c.step = "mark" /\ c.row = desk[h].row
  BY <1>1 DEF DeskRecords
<1> HIDE DEF c
<1>3. PICK r \in Rows, f \in Films : r = desk[h].row /\ f = desk[h].file
  BY <1>1 DEF IngestAll, IngestTypes, FilmsTyped, Rows, IngestAssumption
<1>4. /\ FilmsTyped' /\ Live' \subseteq Live
      /\ \A x \in Live' : /\ film'[x].position = film[x].position
                          /\ film'[x].status = film[x].status
                          /\ film'[x].source = IF x = r THEN f ELSE film[x].source
  <2>1. CASE film[r] = None
    <3>1. film' = film
      BY <1>1, <1>3, <2>1 DEF SetFilm
    <3> QED
      BY <1>1, <2>1, <3>1 DEF IngestAll, IngestTypes, FilmsTyped, Live
  <2>2. CASE film[r] # None
    <3> DEFINE x == [film[r] EXCEPT !.source = f]
    <3>1. film[r] \in FilmRecords
      BY <2>2 DEF IngestAll, IngestTypes, FilmsTyped
    <3>2. /\ x \in FilmRecords /\ x.source = f
          /\ x.position = film[r].position /\ x.status = film[r].status
      BY <3>1 DEF FilmRecords
    <3>3. film' = [film EXCEPT ![r] = x]
      BY <1>1, <1>3, <2>2 DEF SetFilm
    <3> HIDE DEF x
    <3>4. film'[r] = x /\ \A y \in Rows : y # r => film'[y] = film[y]
      BY <3>3 DEF IngestAll, IngestTypes, FilmsTyped
    <3>5. FilmsTyped'
      BY <1>1, <1>3, <3>2, <3>3, <3>4 DEF IngestAll, IngestTypes, FilmsTyped
    <3> QED
      BY <2>2, <3>2, <3>4, <3>5 DEF Live
  <2> QED
    BY <2>1, <2>2
<1>5. filmed' \in filmed..MaxFilms
  BY <1>1 DEF IngestAll, IngestTypes, FilmsTyped, IngestAssumption
<1>6. DeskOK(h)'
  BY <1>1, <1>2 DEF IngestAll, IngestTypes, DeskOK
<1>7. /\ desk' \in [IngestCalls -> DeskRecords] /\ desk'[h] = c
      /\ \A g \in IngestCalls : g # h => desk'[g] = desk[g]
      /\ \A g \in IngestCalls : DeskOK(g)'
      /\ worker' \in WorkRecords /\ WorkerOK'
  BY <1>1, <1>2, <1>5, <1>6, DeskTyped DEF IngestAll
<1>8. IngestTypes'
  BY <1>1, <1>4, <1>7 DEF IngestAll, IngestTypes
<1>9. \A g \in IngestCalls :
         desk'[g].step \in {"check", "record", "insert", "reindex"} => desk'[g] = desk[g]
  BY <1>2, <1>7
<1>10. OrderInv'
  BY <1>1, <1>4, <1>9, OrderStays DEF IngestAll
<1>11. (\A x \in Rows : Pending(x) => Pending(x)') /\ Pending(r)'
  <2>1. \A x \in Rows : Pending(x) => Pending(x)'
    BY <1>1, <1>2, <1>7, PendingStays
  <2> QED
    BY <1>2, <1>3, <1>7, <2>1 DEF Pending
<1>12. newest[<<r, f>>] > 0 /\ f # None
  BY <1>1, <1>3 DEF IngestAll, NewestInv, IngestAssumption
<1>13. \A x \in Live' : Settling(x) => Settling(x)'
  <2> SUFFICES ASSUME NEW x \in Live', Settling(x), x # r PROVE Settling(x)'
    BY <1>11 DEF Settling
  <2>1. film'[x].source = film[x].source /\ x \in Rows
    BY <1>4 DEF Live
  <2>2. Checking(x) => Checking(x)'
    BY <1>1, <1>7, <2>1 DEF Checking
  <2> QED
    BY <1>1, <1>11, <2>1, <2>2 DEF Settling
<1>14. ASSUME ~Excused'
       PROVE  /\ ReelOK'
              /\ worker'.step = "save" => worker'.from = newest'[<<worker'.row, worker'.file>>]
              /\ \A x \in Live' : film'[x].status = "ready" => Settling(x)' \/ worker'.row = x
              /\ WorkerAhead'
  <2>1. /\ ReelOK
        /\ worker.step = "save" => worker.from = newest[<<worker.row, worker.file>>]
        /\ \A x \in Live : film[x].status = "ready" => Settling(x) \/ worker.row = x
        /\ WorkerAhead
    BY <1>1, <1>14 DEF IngestAll, NewestInv, Excused, Unharmed
  <2>2. WorkerAhead'
    <3> SUFFICES ASSUME worker # NoWork, worker.row \in Live'
                 PROVE  /\ film'[worker.row].source # worker.file => Pending(worker.row)'
                        /\ worker.step \in {"probe", "ready"} => Settling(worker.row)'
      BY <1>1 DEF WorkerAhead
    <3>1. CASE worker.row = r
      BY <1>1, <1>11, <3>1 DEF Settling, Pending
    <3>2. CASE worker.row # r
      BY <1>1, <1>4, <1>11, <1>13, <2>1, <3>2 DEF WorkerAhead, Live
    <3> QED
      BY <3>1, <3>2
  <2>3. ReelOK'
    BY <1>1, <2>1 DEF ReelOK
  <2> QED
    BY <1>1, <1>4, <1>13, <2>1, <2>2, <2>3
<1>15. NewestInv'
  BY <1>1, <1>4, <1>9, <1>12, <1>14 DEF IngestAll, NewestInv
<1> QED
  BY <1>8, <1>10, <1>15 DEF IngestGoes

LEMMA NoWorkIs ==
  IngestAssumption => NoWork \in WorkRecords /\ NoWork.step = "idle" /\ NoWork.row = 0
BY DEF IngestAssumption, NoWork, WorkRecords

\* The job that runs goes on or ends, and touches no object.
LEMMA WorkerGoesOn ==
  ASSUME IngestAssumption, IngestAll, worker # NoWork,
         UNCHANGED <<filmed, reel, copied, newest, ingests, desk, amiss>>,
         worker' \in WorkRecords,
         worker' # NoWork => /\ worker'.step \in {"download", "save", "ready"}
                             /\ worker'.row = worker.row /\ worker'.file = worker.file,
         worker'.step = "save" => /\ worker'.from = reel[<<worker.row, worker.file>>].from
                                  /\ worker'.from # 0,
         worker'.step = "ready" => worker.step = "probe",
         FilmsTyped', Live' \subseteq Live,
         \A x \in Live' : /\ film'[x].position = film[x].position
                          /\ film'[x].source = film[x].source
                          /\ x # worker.row => film'[x].status = film[x].status,
         worker' = NoWork /\ worker.row \in Live' /\ film'[worker.row].status = "ready"
            => worker.step = "ready"
  PROVE  IngestGoes
<1>1. worker.row \in 1..filmed /\ worker.file \in Films /\ worker \in WorkRecords
  BY DEF IngestAll, IngestTypes, WorkerOK
<1>2. worker' # NoWork => worker'.step # "idle" /\ worker'.row \in 1..filmed' /\ worker'.file \in Films
  BY <1>1
<1>3. IngestTypes'
  BY <1>2 DEF IngestAll, IngestTypes, WorkerOK, DeskOK
<1>4. OrderInv'
  BY OrderStays DEF IngestAll
<1>5. \A x \in Rows : Pending(x)' = Pending(x)
  BY DEF Pending
<1>6. \A x \in Live' : Settling(x) => Settling(x)'
  BY <1>5 DEF Settling, Checking, Live
<1>7. /\ \A h \in IngestCalls : desk[h].step \in {"check", "record"} => newest[<<desk[h].row, desk[h].file>>] > 0
      /\ \A r \in Live : film[r].source # None => newest[<<r, film[r].source>>] > 0
      /\ \A r \in Live : film[r].status = "ready" => film[r].source # None
      /\ newest[<<worker.row, worker.file>>] > 0
      /\ worker.row \in Live => film[worker.row].source # None
  BY DEF IngestAll, NewestInv
<1>8. \A x \in Live' : film'[x].status = "ready" => film'[x].source # None
  BY <1>7
<1>9. ASSUME ~Excused'
      PROVE  /\ ReelOK'
             /\ worker'.step = "save" => worker'.from = newest'[<<worker'.row, worker'.file>>]
             /\ \A x \in Live' : film'[x].status = "ready" => Settling(x)' \/ worker'.row = x
             /\ WorkerAhead'
  <2>1. /\ ReelOK
        /\ \A x \in Live : film[x].status = "ready" => Settling(x) \/ worker.row = x
        /\ WorkerAhead
    BY <1>9 DEF IngestAll, NewestInv, Excused, Unharmed
  <2>2. <<worker.row, worker.file>> \in Rows \X Films
    BY <1>1 DEF IngestAll, IngestTypes, FilmsTyped, Rows, IngestAssumption
  <2>3. worker'.step = "save" => worker' # NoWork
    BY NoWorkIs
  <2>4. worker'.step = "save" => worker'.from = newest'[<<worker'.row, worker'.file>>]
    BY <2>1, <2>2, <2>3 DEF ReelOK
  <2>5. \A x \in Live' : film'[x].status = "ready" => Settling(x)' \/ worker'.row = x
    <3> SUFFICES ASSUME NEW x \in Live', film'[x].status = "ready" PROVE Settling(x)' \/ worker'.row = x
      OBVIOUS
    <3>1. CASE x # worker.row
      BY <1>6, <2>1, <3>1
    <3>2. CASE x = worker.row /\ worker' # NoWork
      BY <3>2
    <3>3. CASE x = worker.row /\ worker' = NoWork
      <4>1. Settling(worker.row)
        BY <2>1, <3>3 DEF WorkerAhead
      <4>2. Settling(x)
        BY <3>3, <4>1 DEF Settling, Pending, Checking
      <4> QED
        BY <1>6, <4>2
    <3> QED
      BY <3>1, <3>2, <3>3
  <2>6. WorkerAhead'
    <3> SUFFICES ASSUME worker' # NoWork, worker'.row \in Live'
                 PROVE  /\ film'[worker'.row].source # worker'.file => Pending(worker.row)'
                        /\ worker'.step \in {"probe", "ready"} => Settling(worker.row)'
      BY DEF WorkerAhead
    <3>1. /\ film[worker.row].source # worker.file => Pending(worker.row)
          /\ worker.step \in {"probe", "ready"} => Settling(worker.row)
      BY <2>1 DEF WorkerAhead
    <3> QED
      BY <3>1 DEF Settling, Pending, Checking
  <2>7. ReelOK'
    BY <2>1 DEF ReelOK
  <2> QED
    BY <2>4, <2>5, <2>6, <2>7
<1>10. NewestInv'
  BY <1>7, <1>8, <1>9 DEF NewestInv
<1> QED
  BY <1>3, <1>4, <1>10 DEF IngestGoes

\* The three steps of the job that write a status.
LEMMA WorkerMarks ==
  ASSUME IngestAssumption, IngestAll, StartIngest \/ MarkReady \/ MarkFailed
  PROVE  IngestGoes
<1>1. /\ worker # NoWork /\ worker \in WorkRecords /\ worker.row \in 1..filmed
      /\ UNCHANGED <<filmed, reel, copied, newest, ingests, desk, amiss>>
  BY NoWorkIs DEF StartIngest, MarkReady, MarkFailed, IngestAll, IngestTypes, WorkerOK
<1>2. PICK r \in 1..filmed, status \in {"pending", "uploading", "processing", "ready", "failed"} :
         /\ r = worker.row /\ Marked(r, status)
         /\ \/ worker' = [worker EXCEPT !.step = "download"] /\ status = "processing"
            \/ worker' = NoWork /\ (status = "ready" => worker.step = "ready")
  BY <1>1 DEF StartIngest, MarkReady, MarkFailed, Marked, WorkerTo
<1>3. /\ FilmsTyped' /\ Live' \subseteq Live
      /\ \A x \in Live' : /\ film'[x].position = film[x].position
                          /\ film'[x].source = film[x].source
                          /\ film'[x].status = IF x = r THEN status ELSE film[x].status
  BY <1>1, <1>2, StatusSet DEF IngestAll, IngestTypes
<1>4. CASE worker' = NoWork /\ (status = "ready" => worker.step = "ready")
  <2>1. worker'.step = "idle" /\ worker' \in WorkRecords
    BY <1>4, NoWorkIs
  <2> QED
    BY <1>1, <1>2, <1>3, <1>4, <2>1, WorkerGoesOn
<1>5. CASE worker' = [worker EXCEPT !.step = "download"]
  <2> DEFINE w == [worker EXCEPT !.step = "download"]
  <2>1. w \in WorkRecords /\ w.step = "download" /\ w.row = worker.row /\ w.file = worker.file
    BY <1>1 DEF WorkRecords
  <2>2. worker' = w
    BY <1>5
  <2> HIDE DEF w
  <2>3. worker' # NoWork
    BY <2>1, <2>2, NoWorkIs
  <2> QED
    BY <1>1, <1>2, <1>3, <2>1, <2>2, <2>3, WorkerGoesOn
<1> QED
  BY <1>2, <1>4, <1>5

\* The copy that is remuxed is of the object as it is now.
LEMMA IngestRemux ==
  ASSUME IngestAssumption, IngestAll, Remux
  PROVE  IngestGoes
<1> DEFINE w == [worker EXCEPT !.step = "save", !.from = reel[<<worker.row, worker.file>>].from]
<1>1. /\ worker # NoWork /\ worker \in WorkRecords /\ worker.row \in 1..filmed
      /\ worker.file \in Films /\ worker' = w
      /\ reel[<<worker.row, worker.file>>].from > 0
      /\ UNCHANGED <<film, filmed, reel, copied, newest, ingests, desk, amiss>>
  BY NoWorkIs DEF Remux, IngestAll, IngestTypes, WorkerOK
<1>2. /\ reel[<<worker.row, worker.file>>].from \in 0..MaxCopies
      /\ reel[<<worker.row, worker.file>>].from # 0
  BY <1>1 DEF IngestAll, IngestTypes, FilmsTyped, Rows, IngestAssumption
<1>3. /\ w \in WorkRecords /\ w.step = "save" /\ w.row = worker.row /\ w.file = worker.file
      /\ w.from = reel[<<worker.row, worker.file>>].from /\ w.from # 0
  BY <1>1, <1>2 DEF WorkRecords
<1> HIDE DEF w
<1>4. worker' # NoWork
  BY <1>1, <1>3, NoWorkIs
<1>5. FilmsTyped' /\ Live' \subseteq Live
  BY <1>1 DEF IngestAll, IngestTypes, FilmsTyped, Live
<1>6. \A x \in Live' : film'[x] = film[x]
  BY <1>1
<1> QED
  BY <1>1, <1>3, <1>4, <1>5, <1>6, WorkerGoesOn

LEMMA IngestProbe ==
  ASSUME IngestAssumption, IngestAll, FillMetadata
  PROVE  IngestGoes
<1> DEFINE w == [worker EXCEPT !.step = "ready"]
<1>1. /\ worker # NoWork /\ worker \in WorkRecords /\ worker.row \in 1..filmed
      /\ worker.step = "probe" /\ worker' = w
      /\ UNCHANGED <<filmed, reel, copied, newest, ingests, desk, amiss>>
  BY NoWorkIs DEF FillMetadata, WorkerTo, IngestAll, IngestTypes, WorkerOK
<1>2. w \in WorkRecords /\ w.step = "ready" /\ w.row = worker.row /\ w.file = worker.file
  BY <1>1 DEF WorkRecords
<1> HIDE DEF w
<1>3. worker' # NoWork
  BY <1>1, <1>2, NoWorkIs
<1>4. /\ FilmsTyped' /\ Live' \subseteq Live
      /\ \A x \in Live' : /\ film'[x].position = film[x].position
                          /\ film'[x].source = film[x].source
                          /\ film'[x].status = film[x].status
  <2>1. PICK r \in Rows : r = worker.row
    BY <1>1 DEF IngestAll, IngestTypes, FilmsTyped, Rows, IngestAssumption
  <2>2. CASE film' = film
    BY <1>1, <2>2 DEF IngestAll, IngestTypes, FilmsTyped, Live
  <2>3. CASE film[r] # None /\ film' # film
    <3> DEFINE f == [film[r] EXCEPT !.title = "tag"]
    <3>1. film[r] \in FilmRecords
      BY <2>3 DEF IngestAll, IngestTypes, FilmsTyped
    <3>2. /\ f \in FilmRecords /\ f.status = film[r].status
          /\ f.position = film[r].position /\ f.source = film[r].source
      BY <3>1 DEF FilmRecords
    <3>3. film' = [film EXCEPT ![r] = f]
      BY <2>1, <2>3 DEF FillMetadata, SetFilm
    <3> HIDE DEF f
    <3>4. film'[r] = f /\ \A x \in Rows : x # r => film'[x] = film[x]
      BY <3>3 DEF IngestAll, IngestTypes, FilmsTyped
    <3>5. r \in 1..filmed
      BY <1>1, <2>1
    <3>6. FilmsTyped'
      BY <1>1, <3>2, <3>3, <3>4, <3>5 DEF IngestAll, IngestTypes, FilmsTyped
    <3> QED
      BY <2>3, <3>2, <3>4, <3>6 DEF Live
  <2> QED
    BY <2>1, <2>2, <2>3 DEF FillMetadata, SetFilm
<1> QED
  BY <1>1, <1>2, <1>3, <1>4, WorkerGoesOn

\* The remuxed file is of the upload that the key held, and still holds.
LEMMA IngestSave ==
  ASSUME IngestAssumption, IngestAll, SaveClean
  PROVE  IngestGoes
<1> DEFINE w == [worker EXCEPT !.step = "probe"]
           k == <<worker.row, worker.file>>
           o == [from |-> worker.from, clean |-> TRUE]
<1>1. /\ worker # NoWork /\ worker \in WorkRecords /\ worker.row \in 1..filmed
      /\ worker.file \in Films /\ worker.step = "save" /\ worker' = w
      /\ reel' = [reel EXCEPT ![k] = o]
      /\ UNCHANGED <<film, filmed, copied, newest, ingests, desk, amiss>>
  BY NoWorkIs DEF SaveClean, WorkerTo, IngestAll, IngestTypes, WorkerOK
<1>2. /\ w \in WorkRecords /\ w.step = "probe" /\ w.row = worker.row /\ w.file = worker.file
      /\ o \in [from: 0..MaxCopies, clean: BOOLEAN] /\ o.clean /\ o.from = worker.from
  BY <1>1 DEF WorkRecords
<1> HIDE DEF w, o
<1>3. k \in Rows \X Films /\ worker.row \in Rows
  BY <1>1 DEF IngestAll, IngestTypes, FilmsTyped, Rows, IngestAssumption
<1>4. /\ reel' \in [Rows \X Films -> [from: 0..MaxCopies, clean: BOOLEAN]]
      /\ reel'[k] = o /\ \A x \in Rows \X Films : x # k => reel'[x] = reel[x]
  BY <1>1, <1>2, <1>3 DEF IngestAll, IngestTypes
<1>5. worker' # NoWork
  BY <1>1, <1>2, NoWorkIs
<1>6. IngestTypes'
  BY <1>1, <1>2, <1>4 DEF IngestAll, IngestTypes, FilmsTyped, WorkerOK, DeskOK
<1>7. OrderInv'
  BY <1>1, OrderStays DEF IngestAll, Live
<1>8. \A x \in Rows : Pending(x)' = Pending(x)
  BY <1>1 DEF Pending
<1>9. \A r \in Live : Settling(r) /\ film[r].source # None => Settling(r)'
  <2> SUFFICES ASSUME NEW r \in Live, reel[<<r, film[r].source>>].clean, film[r].source # None
               PROVE  reel'[<<r, film[r].source>>].clean
    BY <1>1, <1>8 DEF Settling, Checking, Live
  <2>1. <<r, film[r].source>> \in Rows \X Films
    BY DEF Live, IngestAll, IngestTypes, FilmsTyped, FilmRecords
  <2> QED
    BY <1>2, <1>4, <2>1
<1>10. /\ \A r \in Live : film[r].status = "ready" => film[r].source # None
       /\ worker.row \in Live => film[worker.row].source # None
       /\ newest[k] > 0
  BY <1>1 DEF IngestAll, NewestInv
<1>11. ASSUME ~Excused'
       PROVE  /\ ReelOK'
              /\ \A r \in Live' : film'[r].status = "ready" => Settling(r)' \/ worker'.row = r
              /\ WorkerAhead'
  <2>1. /\ ReelOK
        /\ worker.from = newest[k]
        /\ \A r \in Live : film[r].status = "ready" => Settling(r) \/ worker.row = r
        /\ WorkerAhead
    BY <1>1, <1>11 DEF IngestAll, NewestInv, Excused, Unharmed
  <2>2. ReelOK'
    BY <1>1, <1>2, <1>4, <1>10, <2>1 DEF ReelOK
  <2>3. \A r \in Live' : film'[r].status = "ready" => Settling(r)' \/ worker'.row = r
    BY <1>1, <1>2, <1>9, <1>10, <2>1 DEF Live
  <2>4. WorkerAhead'
    <3> SUFFICES ASSUME worker.row \in Live
                 PROVE  /\ film[worker.row].source # worker.file => Pending(worker.row)'
                        /\ Settling(worker.row)'
      BY <1>1, <1>2 DEF WorkerAhead, Live
    <3>1. film[worker.row].source # worker.file => Pending(worker.row)
      BY <1>1, <2>1 DEF WorkerAhead
    <3>2. film[worker.row].source # worker.file => Pending(worker.row)'
      BY <1>1, <1>2, <3>1 DEF Pending
    <3>3. film[worker.row].source = worker.file => reel'[<<worker.row, film[worker.row].source>>].clean
      BY <1>2, <1>4
    <3> QED
      BY <1>1, <1>2, <3>2, <3>3 DEF Settling
  <2> QED
    BY <2>2, <2>3, <2>4
<1>12. NewestInv'
  BY <1>1, <1>2, <1>10, <1>11 DEF IngestAll, NewestInv, Live
<1> QED
  BY <1>6, <1>7, <1>12 DEF IngestGoes

\* The job reads its row when it starts.  One of a row that is gone or has no source ends.
LEMMA IngestTake ==
  ASSUME IngestAssumption, IngestAll, NEW r \in Rows, TakeIngest(r)
  PROVE  IngestGoes
<1>1. /\ worker = NoWork /\ ingests[r] > 0 /\ ingests \in [Rows -> Nat]
      /\ ingests' = [ingests EXCEPT ![r] = ingests[r] - 1]
      /\ UNCHANGED <<film, filmed, reel, copied, newest, desk, amiss>>
  BY DEF TakeIngest, IngestAll, IngestTypes
<1>2. /\ ingests' \in [Rows -> Nat]
      /\ \A x \in Rows : x # r => ingests'[x] = ingests[x]
  BY <1>1
<1>3. worker' \in WorkRecords /\ WorkerOK' /\
      \/ worker' = NoWork /\ (r \notin Live \/ film[r].source = None)
      \/ /\ worker'.step = "start" /\ worker'.row = r /\ worker' # NoWork
         /\ r \in Live /\ film[r].source # None /\ worker'.file = film[r].source
  <2>1. CASE r \notin Live \/ film[r].source = None
    <3>1. worker' = NoWork
      BY <1>1, <2>1 DEF TakeIngest
    <3> QED
      BY <2>1, <3>1, NoWorkIs DEF WorkerOK
  <2>2. CASE r \in Live /\ film[r].source # None
    <3> DEFINE w == [NoWork EXCEPT !.step = "start", !.row = r, !.file = film[r].source,
                                   !.blank = (film[r].title = None)]
    <3>1. worker' = w
      BY <2>2 DEF TakeIngest
    <3>2. /\ film[r].source \in Films /\ r \in 1..filmed /\ r \in 0..MaxFilms
          /\ (film[r].title = None) \in BOOLEAN
      BY <2>2 DEF IngestAll, IngestTypes, FilmsTyped, FilmRecords, Live, Rows, IngestAssumption
    <3>3. w \in WorkRecords /\ w.step = "start" /\ w.row = r /\ w.file = film[r].source
      BY <3>2, NoWorkIs DEF WorkRecords
    <3> HIDE DEF w
    <3>4. worker' # NoWork
      BY <3>1, <3>3, NoWorkIs
    <3> QED
      BY <1>1, <2>2, <3>1, <3>2, <3>3, <3>4 DEF WorkerOK
  <2> QED
    BY <2>1, <2>2
<1>4. IngestTypes'
  BY <1>1, <1>2, <1>3 DEF IngestAll, IngestTypes, FilmsTyped, DeskOK
<1>5. OrderInv'
  BY <1>1, OrderStays DEF IngestAll, Live
<1>6. \A x \in Rows : x # r => Pending(x)' = Pending(x)
  BY <1>1, <1>2 DEF Pending
<1>7. \A x \in Live : x # r /\ Settling(x) => Settling(x)'
  BY <1>1, <1>6 DEF Settling, Checking, Live
<1>8. \A x \in Live : /\ film[x].source # None => newest[<<x, film[x].source>>] > 0
                      /\ film[x].status = "ready" => film[x].source # None
  BY DEF IngestAll, NewestInv
<1>9. ASSUME ~Excused'
      PROVE  /\ ReelOK'
             /\ \A x \in Live' : film'[x].status = "ready" => Settling(x)' \/ worker'.row = x
             /\ WorkerAhead'
  <2>1. /\ ReelOK
        /\ \A x \in Live : film[x].status = "ready" => Settling(x) \/ worker.row = x
    BY <1>1, <1>9 DEF IngestAll, NewestInv, Excused, Unharmed
  <2>2. WorkerAhead'
    BY <1>1, <1>3 DEF WorkerAhead, Live
  <2>3. \A x \in Live : x # worker.row
    BY <1>1, NoWorkIs DEF Live, Rows, IngestAssumption
  <2>4. \A x \in Live' : film'[x].status = "ready" => Settling(x)' \/ worker'.row = x
    <3> SUFFICES ASSUME NEW x \in Live, film[x].status = "ready" PROVE Settling(x)' \/ worker'.row = x
      BY <1>1 DEF Live
    <3>1. Settling(x)
      BY <2>1, <2>3
    <3>2. x = r => worker'.row = x
      BY <1>3, <1>8
    <3> QED
      BY <1>7, <3>1, <3>2
  <2>5. ReelOK'
    BY <1>1, <2>1 DEF ReelOK
  <2> QED
    BY <2>2, <2>4, <2>5
<1>10. worker' # NoWork =>
          /\ newest'[<<worker'.row, worker'.file>>] > 0
          /\ worker'.row \in Live' => film'[worker'.row].source # None
  BY <1>1, <1>3, <1>8
<1>11. worker'.step # "save"
  BY <1>3, NoWorkIs
<1>12. NewestInv'
  BY <1>1, <1>9, <1>10, <1>11 DEF IngestAll, NewestInv, Live
<1> QED
  BY <1>4, <1>5, <1>12 DEF IngestGoes

\* An upload takes its place: a row that plays that key waits for it to be checked.
LEMMA IngestCopy ==
  ASSUME IngestAssumption, IngestAll, NEW h \in IngestCalls, NEW r \in Rows, NEW f \in Films,
         CopyUpload(h, r, f)
  PROVE  IngestGoes
<1> DEFINE c == [NoDesk EXCEPT !.step = "check", !.row = r, !.file = f]
           o == [from |-> copied + 1, clean |-> FALSE]
           k == <<r, f>>
<1>1. /\ desk[h] = NoDesk /\ r \in Live /\ copied \in Nat /\ MaxCopies \in Nat
      /\ copied < MaxCopies /\ copied' = copied + 1
      /\ reel' = [reel EXCEPT ![k] = o] /\ newest' = [newest EXCEPT ![k] = copied + 1]
      /\ desk' = [desk EXCEPT ![h] = c]
      /\ amiss' = IF worker.row = r /\ worker.file = f /\ worker.from > 0
                  THEN amiss \cup {"overwritten"} ELSE amiss
      /\ UNCHANGED <<film, filmed, ingests, worker>>
  BY DEF CopyUpload, IngestAll, IngestTypes, IngestAssumption
<1>2. r \in 0..MaxFilms /\ r \in 1..filmed /\ filmed' \in filmed..MaxFilms
  BY <1>1 DEF IngestAll, IngestTypes, FilmsTyped, Live, Rows, IngestAssumption
<1>3. /\ c \in DeskRecords /\ c.step = "check" /\ c.row = r /\ c.file = f
      /\ o \in [from: 0..MaxCopies, clean: BOOLEAN] /\ o.from = copied + 1
  <2>1. copied + 1 \in 0..MaxCopies
    BY <1>1
  <2>2. c \in DeskRecords /\ c.step = "check" /\ c.row = r /\ c.file = f
    BY <1>2, NoDeskIs DEF DeskRecords
  <2> QED
    BY <2>1, <2>2
<1> HIDE DEF c, o
<1>4. DeskOK(h)'
  BY <1>1, <1>2, <1>3 DEF IngestAll, IngestTypes, DeskOK
<1>5. /\ desk' \in [IngestCalls -> DeskRecords] /\ desk'[h] = c
      /\ \A g \in IngestCalls : g # h => desk'[g] = desk[g]
      /\ \A g \in IngestCalls : DeskOK(g)'
      /\ worker' \in WorkRecords /\ WorkerOK'
  BY <1>1, <1>2, <1>3, <1>4, DeskTyped DEF IngestAll
<1>6. /\ reel' \in [Rows \X Films -> [from: 0..MaxCopies, clean: BOOLEAN]]
      /\ newest' \in [Rows \X Films -> 0..MaxCopies]
      /\ reel'[k] = o /\ newest'[k] = copied + 1 /\ copied + 1 > 0
      /\ \A x \in Rows \X Films : x # k => reel'[x] = reel[x] /\ newest'[x] = newest[x]
  BY <1>1, <1>3 DEF IngestAll, IngestTypes
<1>7. IngestTypes'
  BY <1>1, <1>5, <1>6 DEF IngestAll, IngestTypes, FilmsTyped
<1>8. \A g \in IngestCalls : desk'[g].step \in {"insert", "reindex"} => desk'[g] = desk[g]
  BY <1>3, <1>5
<1>9. OrderInv'
  BY <1>1, <1>8, OrderStays DEF IngestAll, Live
<1>10. \A x \in Rows : Pending(x) => Pending(x)'
  BY <1>1, <1>5, NoDeskIs, PendingStays
<1>11. \A x \in Rows \X Films : newest[x] > 0 => newest'[x] > 0
  BY <1>6
<1>12. \A x \in Live : film[x].source # None => <<x, film[x].source>> \in Rows \X Films
  BY DEF Live, IngestAll, IngestTypes, FilmsTyped, FilmRecords
<1>13. worker # NoWork => <<worker.row, worker.file>> \in Rows \X Films
  BY DEF IngestAll, IngestTypes, FilmsTyped, WorkerOK, Rows, IngestAssumption
<1>14. \A g \in IngestCalls : desk'[g].step \in {"check", "record"}
          => newest'[<<desk'[g].row, desk'[g].file>>] > 0
  <2> SUFFICES ASSUME NEW g \in IngestCalls, desk'[g].step \in {"check", "record"}
               PROVE  newest'[<<desk'[g].row, desk'[g].file>>] > 0
    OBVIOUS
  <2>1. CASE g = h
    BY <1>3, <1>5, <1>6, <2>1
  <2>2. CASE g # h
    <3>1. /\ desk'[g] = desk[g] /\ newest[<<desk[g].row, desk[g].file>>] > 0
          /\ desk[g].row \in 1..filmed /\ desk[g].file \in Films
      BY <1>5, <2>2 DEF IngestAll, NewestInv, IngestTypes, DeskOK
    <3>2. <<desk[g].row, desk[g].file>> \in Rows \X Films
      BY <3>1 DEF IngestAll, IngestTypes, FilmsTyped, Rows, IngestAssumption
    <3> QED
      BY <1>11, <3>1, <3>2
  <2> QED
    BY <2>1, <2>2
<1>15. /\ \A x \in Live : film[x].source # None => newest'[<<x, film[x].source>>] > 0
       /\ \A x \in Live : film[x].status = "ready" => film[x].source # None
       /\ worker # NoWork => /\ newest'[<<worker.row, worker.file>>] > 0
                             /\ worker.row \in Live => film[worker.row].source # None
  BY <1>11, <1>12, <1>13 DEF IngestAll, NewestInv
<1>16. \A x \in Live : film[x].source # None /\ Settling(x) => Settling(x)'
  <2> SUFFICES ASSUME NEW x \in Live, film[x].source # None, Settling(x) PROVE Settling(x)'
    OBVIOUS
  <2>1. CASE Checking(x)
    <3>1. PICK g \in IngestCalls :
             desk[g].step = "check" /\ desk[g].row = x /\ desk[g].file = film[x].source
      BY <2>1 DEF Checking
    <3>2. desk'[g] = desk[g]
      BY <1>1, <1>5, <3>1, NoDeskIs
    <3> QED
      BY <1>1, <3>1, <3>2 DEF Settling, Checking
  <2>2. CASE Pending(x)
    BY <1>10, <2>2 DEF Settling, Live
  <2>3. CASE reel[<<x, film[x].source>>].clean /\ <<x, film[x].source>> # k
    BY <1>1, <1>6, <1>12, <2>3 DEF Settling
  <2>4. CASE <<x, film[x].source>> = k
    BY <1>1, <1>3, <1>5, <2>4 DEF Settling, Checking
  <2> QED
    BY <2>1, <2>2, <2>3, <2>4 DEF Settling
<1>17. ASSUME ~Excused'
       PROVE  /\ ReelOK'
              /\ worker'.step = "save" => worker'.from = newest'[<<worker'.row, worker'.file>>]
              /\ \A x \in Live' : film'[x].status = "ready" => Settling(x)' \/ worker'.row = x
              /\ WorkerAhead'
  <2>1. /\ ReelOK
        /\ worker.step = "save" => worker.from = newest[<<worker.row, worker.file>>]
        /\ \A x \in Live : film[x].status = "ready" => Settling(x) \/ worker.row = x
        /\ WorkerAhead
    BY <1>1, <1>17 DEF IngestAll, NewestInv, Excused, Unharmed
  <2>2. ReelOK'
    BY <1>3, <1>6, <2>1 DEF ReelOK
  <2>3. worker.step = "save" => worker.from = newest'[<<worker.row, worker.file>>]
    <3> SUFFICES ASSUME worker.step = "save" PROVE worker.from = newest'[<<worker.row, worker.file>>]
      OBVIOUS
    <3>1. worker # NoWork /\ worker.from = newest[<<worker.row, worker.file>>]
          /\ newest[<<worker.row, worker.file>>] > 0
      BY <2>1, NoWorkIs DEF IngestAll, NewestInv
    <3>2. <<worker.row, worker.file>> # k
      BY <1>1, <1>17, <3>1 DEF Excused, Unharmed
    <3> QED
      BY <1>6, <1>13, <3>1, <3>2
  <2>4. \A x \in Live' : film'[x].status = "ready" => Settling(x)' \/ worker'.row = x
    BY <1>1, <1>15, <1>16, <2>1 DEF Live
  <2>5. WorkerAhead'
    <3> SUFFICES ASSUME worker # NoWork, worker.row \in Live
                 PROVE  /\ film[worker.row].source # worker.file => Pending(worker.row)'
                        /\ worker.step \in {"probe", "ready"} => Settling(worker.row)'
      BY <1>1 DEF WorkerAhead, Live
    <3>1. /\ film[worker.row].source # worker.file => Pending(worker.row)
          /\ worker.step \in {"probe", "ready"} => Settling(worker.row)
          /\ worker.row \in Rows /\ film[worker.row].source # None
      BY <1>15, <2>1 DEF WorkerAhead, Live
    <3>2. PICK x \in Live : x = worker.row
      OBVIOUS
    <3>3. (Pending(x) => Pending(x)') /\ (Settling(x) => Settling(x)')
      BY <1>10, <1>16, <3>1, <3>2
    <3> QED
      BY <1>1, <3>1, <3>2, <3>3 DEF Pending, Settling, Checking
  <2> QED
    BY <1>1, <2>2, <2>3, <2>4, <2>5
<1>18. NewestInv'
  BY <1>1, <1>14, <1>15, <1>17 DEF NewestInv, Live
<1> QED
  BY <1>7, <1>9, <1>18 DEF IngestGoes

\* An upload has passed the check: its job is to come.
LEMMA IngestChecks ==
  ASSUME IngestAssumption, IngestAll, NEW h \in IngestCalls, CheckUpload(h)
  PROVE  IngestGoes
<1> DEFINE c == [desk[h] EXCEPT !.step = "record"]
<1>1. /\ desk[h].step = "check" /\ desk[h].row \in 1..filmed /\ desk[h].file \in Films
      /\ desk[h] \in DeskRecords /\ desk' = [desk EXCEPT ![h] = c]
      /\ UNCHANGED <<film, filmed, reel, copied, newest, ingests, worker, amiss>>
  BY DEF CheckUpload, DeskAt, IngestAll, IngestTypes, DeskOK
<1>2. /\ c \in DeskRecords /\ c.step = "record" /\ c.row = desk[h].row
      /\ c.file = desk[h].file
  BY <1>1 DEF DeskRecords
<1> HIDE DEF c
<1>3. filmed' \in filmed..MaxFilms
  BY <1>1 DEF IngestAll, IngestTypes, FilmsTyped, IngestAssumption
<1>4. DeskOK(h)'
  BY <1>1, <1>2 DEF IngestAll, IngestTypes, DeskOK
<1>5. /\ desk' \in [IngestCalls -> DeskRecords] /\ desk'[h] = c
      /\ \A g \in IngestCalls : g # h => desk'[g] = desk[g]
      /\ \A g \in IngestCalls : DeskOK(g)'
      /\ worker' \in WorkRecords /\ WorkerOK'
  BY <1>1, <1>2, <1>3, <1>4, DeskTyped DEF IngestAll
<1>6. IngestTypes'
  BY <1>1, <1>5 DEF IngestAll, IngestTypes, FilmsTyped
<1>7. OrderInv'
  BY <1>1, <1>2, <1>5, OrderStays DEF IngestAll, Live
<1>8. \A x \in Rows : Pending(x) => Pending(x)'
  BY <1>1, <1>5, PendingStays
<1>9. \A g \in IngestCalls : Goes(g)
  BY <1>1, <1>2, <1>5 DEF Goes
<1>10. NewestInv'
  BY <1>1, <1>8, <1>9, NewestStays DEF IngestAll, Live
<1> QED
  BY <1>6, <1>7, <1>10 DEF IngestGoes

\* An upload is refused when it has taken its place: no row names it, or that is noted.
LEMMA IngestRefuses ==
  ASSUME IngestAssumption, IngestAll, NEW h \in IngestCalls, RefuseUpload(h)
  PROVE  IngestGoes
<1> DEFINE k == <<desk[h].row, desk[h].file>>
           o == [from |-> 0, clean |-> FALSE]
<1>1. /\ desk[h].step = "check" /\ desk[h].row \in 1..filmed /\ desk[h].file \in Films
      /\ reel' = reel \/ reel' = [reel EXCEPT ![k] = o]
      /\ amiss' = IF desk[h].row \in Live /\ film[desk[h].row].source = desk[h].file
                  THEN amiss \cup {"refused"} ELSE amiss
      /\ desk' = [desk EXCEPT ![h] = NoDesk]
      /\ UNCHANGED <<film, filmed, copied, newest, ingests, worker>>
  BY DEF RefuseUpload, DeskAt, DeskEnds, IngestAll, IngestTypes, DeskOK
<1>2. k \in Rows \X Films /\ filmed' \in filmed..MaxFilms
  BY <1>1 DEF IngestAll, IngestTypes, FilmsTyped, Rows, IngestAssumption
<1>3. o \in [from: 0..MaxCopies, clean: BOOLEAN] /\ o.from = 0 /\ ~o.clean
  BY DEF IngestAssumption
<1> HIDE DEF k, o
<1>4. /\ reel' \in [Rows \X Films -> [from: 0..MaxCopies, clean: BOOLEAN]]
      /\ \A x \in Rows \X Films : reel'[x] = reel[x] \/ (x = k /\ reel'[x] = o)
  BY <1>1, <1>2, <1>3 DEF IngestAll, IngestTypes
<1>5. DeskOK(h)'
  BY <1>1, NoDeskIs DEF IngestAll, IngestTypes, DeskOK
<1>6. /\ desk' \in [IngestCalls -> DeskRecords] /\ desk'[h] = NoDesk
      /\ \A g \in IngestCalls : g # h => desk'[g] = desk[g]
      /\ \A g \in IngestCalls : DeskOK(g)'
      /\ worker' \in WorkRecords /\ WorkerOK'
  BY <1>1, <1>2, <1>5, NoDeskIs, DeskTyped DEF IngestAll
<1>7. IngestTypes'
  BY <1>1, <1>4, <1>6 DEF IngestAll, IngestTypes, FilmsTyped
<1>8. OrderInv'
  BY <1>1, <1>6, NoDeskIs, OrderStays DEF IngestAll, Live
<1>9. \A x \in Rows : Pending(x) => Pending(x)'
  BY <1>1, <1>6, PendingStays
<1>10. \A g \in IngestCalls : desk'[g].step \in {"check", "record"}
          => newest'[<<desk'[g].row, desk'[g].file>>] > 0
  BY <1>1, <1>6, NoDeskIs DEF IngestAll, NewestInv
<1>11. ASSUME ~Excused'
       PROVE  /\ ReelOK'
              /\ worker'.step = "save" => worker'.from = newest'[<<worker'.row, worker'.file>>]
              /\ \A x \in Live' : film'[x].status = "ready" => Settling(x)' \/ worker'.row = x
              /\ WorkerAhead'
  <2>1. /\ ReelOK
        /\ worker.step = "save" => worker.from = newest[<<worker.row, worker.file>>]
        /\ \A x \in Live : film[x].status = "ready" => Settling(x) \/ worker.row = x
        /\ WorkerAhead
    BY <1>1, <1>11 DEF IngestAll, NewestInv, Excused, Unharmed
  <2>2. ReelOK'
    BY <1>1, <1>3, <1>4, <2>1 DEF ReelOK
  <2>3. ~(desk[h].row \in Live /\ film[desk[h].row].source = desk[h].file)
    BY <1>1, <1>11 DEF Excused, Unharmed
  <2>4. ASSUME NEW x \in Live, film[x].source # None, Settling(x) PROVE Settling(x)'
    <3>1. <<x, film[x].source>> \in Rows \X Films /\ <<x, film[x].source>> # k
      BY <2>3, <2>4 DEF k, Live, IngestAll, IngestTypes, FilmsTyped, FilmRecords
    <3>2. reel'[<<x, film[x].source>>] = reel[<<x, film[x].source>>]
      BY <1>4, <3>1
    <3>3. Checking(x) => Checking(x)'
      BY <1>1, <1>6, <2>3, <2>4 DEF Checking
    <3> QED
      BY <1>1, <1>9, <2>4, <3>1, <3>2, <3>3 DEF Settling, Live
  <2>5. /\ \A x \in Live : film[x].status = "ready" => film[x].source # None
        /\ worker # NoWork /\ worker.row \in Live => film[worker.row].source # None
    BY DEF IngestAll, NewestInv
  <2>6. \A x \in Live' : film'[x].status = "ready" => Settling(x)' \/ worker'.row = x
    BY <1>1, <2>1, <2>4, <2>5 DEF Live
  <2>7. WorkerAhead'
    <3> SUFFICES ASSUME worker # NoWork, worker.row \in Live
                 PROVE  /\ film[worker.row].source # worker.file => Pending(worker.row)'
                        /\ worker.step \in {"probe", "ready"} => Settling(worker.row)'
      BY <1>1 DEF WorkerAhead, Live
    <3>1. PICK x \in Live : x = worker.row
      OBVIOUS
    <3>2. (Pending(x) => Pending(x)') /\ (Settling(x) => Settling(x)')
      BY <1>9, <2>4, <2>5, <3>1 DEF Live
    <3> QED
      BY <1>1, <2>1, <3>1, <3>2 DEF WorkerAhead, Pending, Settling, Checking
  <2> QED
    BY <1>1, <2>1, <2>2, <2>6, <2>7
<1>12. NewestInv'
  BY <1>1, <1>10, <1>11 DEF IngestAll, NewestInv, Live
<1> QED
  BY <1>7, <1>8, <1>12 DEF IngestGoes

\* The process dies: pg-boss hands the job out again, and what a hook had not done is lost.
LEMMA IngestDies ==
  ASSUME IngestAssumption, IngestAll, IngestCrash
  PROVE  IngestGoes
<1>1. /\ ingests' = IF worker = NoWork THEN ingests
                    ELSE [ingests EXCEPT ![worker.row] = ingests[worker.row] + 1]
      /\ worker' = NoWork /\ desk' = [h \in IngestCalls |-> NoDesk]
      /\ amiss \subseteq amiss'
      /\ (\E h \in IngestCalls : desk[h].step \in {"check", "record", "mark", "send", "resend"})
            => "lost" \in amiss'
      /\ UNCHANGED <<film, filmed, reel, copied, newest>>
  BY DEF IngestCrash
<1>2. worker # NoWork => worker.row \in Rows
  BY DEF IngestAll, IngestTypes, FilmsTyped, WorkerOK, Rows, IngestAssumption
<1>3. /\ ingests' \in [Rows -> Nat]
      /\ \A x \in Rows : ingests[x] > 0 => ingests'[x] > 0
      /\ worker # NoWork => ingests'[worker.row] > 0
  BY <1>1, <1>2 DEF IngestAll, IngestTypes
<1>4. \A h \in IngestCalls : desk'[h] = NoDesk /\ DeskOK(h)'
  BY <1>1, NoDeskIs DEF DeskOK
<1>5. IngestTypes'
  BY <1>1, <1>3, <1>4, NoWorkIs, NoDeskIs DEF IngestAll, IngestTypes, FilmsTyped, WorkerOK
<1>6. OrderInv'
  BY <1>1, <1>4, NoDeskIs, OrderStays DEF IngestAll, Live
<1>7. ASSUME ~Excused'
      PROVE  /\ ReelOK'
             /\ \A x \in Live' : film'[x].status = "ready" => Settling(x)'
  <2>1. /\ ReelOK
        /\ \A x \in Live : film[x].status = "ready" => Settling(x) \/ worker.row = x
    BY <1>1, <1>7 DEF IngestAll, NewestInv, Excused, Unharmed
  <2>2. \A h \in IngestCalls : desk[h].step \notin {"check", "record", "mark", "send", "resend"}
    BY <1>1, <1>7 DEF Excused, Unharmed
  <2>3. \A x \in Rows : Pending(x) => ingests'[x] > 0
    BY <1>3, <2>2 DEF Pending
  <2>4. \A x \in Live : Settling(x) => Settling(x)'
    BY <1>1, <2>2, <2>3 DEF Settling, Pending, Checking, Live
  <2>5. \A x \in Live : x = worker.row => ingests'[x] > 0
    BY <1>3, NoWorkIs DEF Live, Rows, IngestAssumption
  <2>6. \A x \in Live' : film'[x].status = "ready" => Settling(x)'
    BY <1>1, <2>1, <2>4, <2>5 DEF Settling, Pending, Live
  <2>7. ReelOK'
    BY <1>1, <2>1 DEF ReelOK
  <2> QED
    BY <2>6, <2>7
<1>8. NewestInv'
  BY <1>1, <1>4, <1>7, NoWorkIs, NoDeskIs DEF IngestAll, NewestInv, WorkerAhead, Live
<1> QED
  BY <1>5, <1>6, <1>8 DEF IngestGoes

\* A finite set has a member whose number is the highest.
LEMMA Highest ==
  ASSUME NEW S, IsFiniteSet(S), S # {}, NEW p \in [S -> Nat]
  PROVE  \E m \in S : \A x \in S : p[x] <= p[m]
<1> DEFINE Above(r) == {x \in S : p[x] > p[r]}
           all == {Above(r) : r \in S}
<1>1. all # {} /\ all \subseteq FiniteSubsetsOf(S)
  <2>1. \A r \in S : Above(r) \in SUBSET S /\ IsFiniteSet(Above(r))
    <3> TAKE r \in S
    <3>1. Above(r) \in SUBSET S
      OBVIOUS
    <3> HIDE DEF Above
    <3> QED
      BY <3>1, FS_Subset
  <2> HIDE DEF Above
  <2> QED
    BY <2>1 DEF FiniteSubsetsOf
<1>2. PICK t \in all : \A u \in all : <<u, t>> \notin StrictSubsetOrdering(S)
  <2> HIDE DEF all
  <2> QED
    BY <1>1, FS_StrictSubsetOrderingWellFounded, WFMin
<1>3. PICK m \in S : t = Above(m)
  OBVIOUS
<1>4. ASSUME NEW x \in S, p[x] > p[m] PROVE FALSE
  <2>1. Above(x) \subseteq Above(m) /\ x \in Above(m) /\ x \notin Above(x)
    BY <1>4
  <2>2. Above(x) \in all /\ Above(x) \in SUBSET S /\ Above(m) \in SUBSET S
    OBVIOUS
  <2> HIDE DEF Above, all
  <2>3. <<Above(x), Above(m)>> \in StrictSubsetOrdering(S)
    BY <2>1, <2>2 DEF StrictSubsetOrdering
  <2> QED
    BY <1>2, <1>3, <2>2, <2>3
<1> QED
  BY <1>4

\* MAX(position) is no lower than any position, nor, in order, than the number of rows.
LEMMA LastIs ==
  ASSUME IngestAssumption, FilmsTyped
  PROVE  /\ LastPosition \in Nat /\ \A r \in Live : film[r].position <= LastPosition
         /\ /\ \A r, s \in Live : r < s => film[r].position < film[s].position
            /\ \A r \in Live : film[r].position >= Rank(r)
            => LastPosition >= Cardinality(Live)
<1>1. \A r \in Live : film[r].position \in Nat /\ r \in Nat
  BY DEF FilmsTyped, Live, FilmRecords, Rows, IngestAssumption
<1>2. CASE Live = {}
  BY <1>2, FS_EmptySet DEF LastPosition
<1>3. CASE Live # {}
  <2> DEFINE p == [r \in Live |-> film[r].position]
  <2>1. p \in [Live -> Nat]
    BY <1>1
  <2> HIDE DEF p
  <2>2. PICK m \in Live : \A x \in Live : p[x] <= p[m]
    BY <1>3, <2>1, LiveFinite, Highest
  <2>3. \A x \in Live : film[x].position <= film[m].position
    BY <2>2 DEF p
  <2>4. LastPosition = film[m].position
    <3>1. film[m].position \in {film[r].position : r \in Live}
      OBVIOUS
    <3>2. ASSUME NEW q \in {film[r].position : r \in Live}, \A r \in Live : film[r].position <= q
          PROVE  q = film[m].position
      BY <1>1, <2>3, <3>2
    <3> QED
      BY <1>3, <2>3, <3>1, <3>2 DEF LastPosition
  <2>5. ASSUME \A r, s \in Live : r < s => film[r].position < film[s].position,
               \A r \in Live : film[r].position >= Rank(r)
        PROVE  LastPosition >= Cardinality(Live)
    <3>1. \A x \in Live : x <= m
      BY <1>1, <2>3, <2>5
    <3>2. {x \in Live : x <= m} = Live
      BY <3>1
    <3>3. Rank(m) = Cardinality(Live)
      BY <3>2 DEF Rank
    <3> QED
      BY <2>4, <2>5, <3>3
  <2> QED
    BY <1>1, <2>3, <2>4, <2>5
<1> QED
  BY <1>2, <1>3

LEMMA IngestCreate ==
  ASSUME IngestAssumption, IngestAll, NEW h \in IngestCalls, CreateMax(h)
  PROVE  IngestGoes
<1> DEFINE c == [NoDesk EXCEPT !.step = "insert", !.seen = filmed, !.position = LastPosition + 1]
<1>1. /\ desk[h] = NoDesk /\ desk' = [desk EXCEPT ![h] = c]
      /\ UNCHANGED <<film, filmed, reel, copied, newest, ingests, worker, amiss>>
  BY DEF CreateMax
<1>2. LastPosition + 1 \in Nat /\ filmed \in Nat /\ filmed' \in filmed..MaxFilms
  BY <1>1, LastIs DEF IngestAll, IngestTypes, FilmsTyped, IngestAssumption
<1>3. c \in DeskRecords /\ c.step = "insert" /\ c.seen = filmed /\ c.position = LastPosition + 1
  BY <1>2, NoDeskIs DEF DeskRecords
<1> HIDE DEF c
<1>4. DeskOK(h)'
  BY <1>1, <1>2, <1>3 DEF IngestAll, IngestTypes, DeskOK
<1>5. /\ desk' \in [IngestCalls -> DeskRecords] /\ desk'[h] = c
      /\ \A g \in IngestCalls : g # h => desk'[g] = desk[g]
      /\ \A g \in IngestCalls : DeskOK(g)'
      /\ worker' \in WorkRecords /\ WorkerOK'
  BY <1>1, <1>2, <1>3, <1>4, DeskTyped DEF IngestAll
<1>6. IngestTypes'
  BY <1>1, <1>5 DEF IngestAll, IngestTypes, FilmsTyped
<1>7. \A x \in Rows : Pending(x) => Pending(x)'
  BY <1>1, <1>5, NoDeskIs, PendingStays
<1>8. NewestInv'
  BY <1>1, <1>3, <1>5, <1>7, NoDeskIs, NewestStays DEF IngestAll, Live, Goes
<1>9. OrderInv'
  <2> SUFFICES ASSUME ~Crossed PROVE OrderInv'
    BY <1>1 DEF OrderInv, Crossed
  <2>1. /\ \A r, s \in Live : r < s => film[r].position < film[s].position
        /\ \A r \in Live : film[r].position >= Rank(r)
        /\ \A g \in IngestCalls : InsertOK(g)
        /\ \A g \in IngestCalls : desk[g].step = "reindex" => ListOK(desk[g].list)
    BY DEF IngestAll, OrderInv
  <2>2. LastPosition >= Cardinality(Live) /\ LastPosition \in Nat /\ Cardinality(Live) \in Nat
    BY <2>1, LastIs, LiveFinite DEF IngestAll, IngestTypes
  <2>3. \A r \in Live : LastPosition + 1 > film[r].position
    BY LastIs DEF IngestAll, IngestTypes, FilmsTyped, Live, FilmRecords
  <2>4. \A g \in IngestCalls : InsertOK(g)'
    <3> TAKE g \in IngestCalls
    <3>1. CASE g = h
      BY <1>1, <1>3, <1>5, <2>2, <2>3, <3>1 DEF InsertOK, Live
    <3>2. CASE g # h
      BY <1>1, <1>5, <2>1, <3>2 DEF InsertOK, Live
    <3> QED
      BY <3>1, <3>2
  <2>5. \A g \in IngestCalls : desk'[g].step = "reindex" => ListOK(desk[g].list)'
    <3> SUFFICES ASSUME NEW g \in IngestCalls, desk'[g].step = "reindex" PROVE ListOK(desk[g].list)'
      OBVIOUS
    <3>1. g # h /\ desk'[g] = desk[g]
      BY <1>3, <1>5
    <3> QED
      BY <1>1, <2>1, <3>1 DEF ListOK, Rank, Live
  <2>6. (\A r, s \in Live' : r < s => film'[r].position < film'[s].position)
        /\ \A r \in Live' : film'[r].position >= Rank(r)'
    BY <1>1, <2>1 DEF Live, Rank
  <2> QED
    BY <2>4, <2>5, <2>6 DEF OrderInv
<1> QED
  BY <1>6, <1>8, <1>9 DEF IngestGoes

\* A list in the order of the rows gives each its rank.
LEMMA PlaceIsRank ==
  ASSUME NEW S \in SUBSET Nat, IsFiniteSet(S), NEW n \in Nat, n = Cardinality(S),
         NEW list \in [S -> 1..n], \A r, s \in S : r < s => list[r] < list[s]
  PROVE  \A s \in S : list[s] = Cardinality({x \in S : x <= s})
<1> TAKE s \in S
<1> DEFINE low == {x \in S : x <= s}
           high == S \ low
<1>1. \A x \in S : x \in Nat /\ list[x] \in Nat /\ 1 <= list[x] /\ list[x] <= n
  OBVIOUS
<1>2. \A x, y \in S : list[x] = list[y] => x = y
  <2> SUFFICES ASSUME NEW x \in S, NEW y \in S, list[x] = list[y] PROVE x = y
    OBVIOUS
  <2>1. ~(x < y) /\ ~(y < x)
    BY <1>1
  <2> QED
    BY <1>1, <2>1
<1>3. low \in SUBSET S /\ S \cap low = low
  OBVIOUS
<1>4. IsFiniteSet(low) /\ Cardinality(low) \in Nat /\ Cardinality(high) = n - Cardinality(low)
  <2> HIDE DEF low
  <2>1. IsFiniteSet(low)
    BY <1>3, FS_Subset
  <2>2. Cardinality(S \ low) = Cardinality(S) - Cardinality(S \cap low)
    BY FS_Difference
  <2> QED
    BY <1>3, <2>1, <2>2, FS_CardinalityType
<1>5. Cardinality(low) <= list[s]
  <2> DEFINE f == [x \in low |-> list[x]]
             places == 1..list[s]
  <2>1. \A x \in low : list[x] \in places
    <3> SUFFICES ASSUME NEW x \in S, x <= s PROVE list[x] <= list[s]
      BY <1>1
    <3>1. x = s \/ x < s
      BY <1>1
    <3> QED
      BY <1>1, <3>1
  <2>2. f \in [low -> places]
    BY <2>1
  <2>3. \A x, y \in low : f[x] = f[y] => x = y
    BY <1>2
  <2>4. f \in Injection(low, places)
    BY <2>2, <2>3 DEF Injection, IsInjective
  <2>5. IsFiniteSet(places) /\ Cardinality(places) = list[s]
    BY <1>1, FS_Interval
  <2> HIDE DEF f, low, places
  <2> QED
    BY <2>4, <2>5, FS_Injection
<1>6. Cardinality(high) <= n - list[s]
  <2> DEFINE f == [x \in high |-> list[x]]
             places == (list[s] + 1)..n
  <2>1. \A x \in high : list[x] \in places
    <3> SUFFICES ASSUME NEW x \in S, ~(x <= s) PROVE list[s] < list[x]
      BY <1>1
    <3>1. s < x
      BY <1>1
    <3> QED
      BY <3>1
  <2>2. f \in [high -> places]
    BY <2>1
  <2>3. \A x, y \in high : f[x] = f[y] => x = y
    BY <1>2
  <2>4. f \in Injection(high, places)
    BY <2>2, <2>3 DEF Injection, IsInjective
  <2>5. list[s] + 1 \in Int /\ n \in Int /\ list[s] \in Int /\ list[s] <= n
    BY <1>1
  <2>6. PICK a \in Int : a = list[s] + 1 /\ places = a..n
    BY <2>5
  <2>7. IsFiniteSet(places) /\ Cardinality(places) = IF a > n THEN 0 ELSE n - a + 1
    BY <2>5, <2>6, FS_Interval
  <2>8. Cardinality(places) = n - list[s]
    BY <2>5, <2>6, <2>7
  <2> HIDE DEF f, high, places
  <2> QED
    BY <2>4, <2>7, <2>8, FS_Injection
<1> HIDE DEF low, high
<1>7. Cardinality(low) = list[s]
  BY <1>1, <1>4, <1>5, <1>6
<1> QED
  BY <1>7 DEF low

\* The rows that are there have been inserted.
LEMMA LiveIs ==
  ASSUME IngestAssumption, FilmsTyped
  PROVE  Live \in SUBSET Rows /\ Live \in SUBSET Nat /\ Live \subseteq 1..filmed
BY DEF Live, Rows, IngestAssumption, FilmsTyped

\* The list of what remains is read: in the order of positions, which is that of the rows.
LEMMA IngestLists ==
  ASSUME IngestAssumption, IngestAll, NEW h \in IngestCalls, ListRemaining(h)
  PROVE  IngestGoes
<1>1. /\ desk[h].step = "list"
      /\ UNCHANGED <<film, filmed, reel, copied, newest, ingests, worker, amiss>>
  BY DEF ListRemaining, DeskAt
<1>2. CASE Live = {}
  <2>1. desk' = [desk EXCEPT ![h] = NoDesk]
    BY <1>2 DEF ListRemaining, DeskEnds
  <2>2. DeskOK(h)'
    BY <2>1, NoDeskIs DEF IngestAll, IngestTypes, DeskOK
  <2>3. /\ FilmsTyped' /\ Live' \subseteq Live /\ ingests' \in [Rows -> Nat]
        /\ \A x \in Live' : film'[x] = film[x]
    BY <1>1 DEF IngestAll, IngestTypes, FilmsTyped, Live
  <2> QED
    BY <1>1, <2>1, <2>2, <2>3, NoDeskIs, DeskGoesOn
<1>3. CASE Live # {}
  <2>1. PICK list \in [Live -> 1..Cardinality(Live)] :
          /\ \A r, s \in Live : film[r].position < film[s].position => list[r] < list[s]
          /\ desk' = [desk EXCEPT ![h] = [NoDesk EXCEPT !.step = "reindex", !.list = list]]
    BY <1>3 DEF ListRemaining
  <2> DEFINE c == [NoDesk EXCEPT !.step = "reindex", !.list = list]
  <2>2. Live \in SUBSET Rows /\ list \in [Live -> Nat] /\ Live \subseteq 1..filmed
    <3>1. \A x \in Live : list[x] \in Nat
      BY LiveFinite
    <3> QED
      BY <3>1, LiveIs DEF IngestAll, IngestTypes
  <2>3. list \in Lists
    BY <2>2 DEF Lists
  <2>4. c \in DeskRecords /\ c.step = "reindex" /\ c.list = list
    BY <2>3, NoDeskIs DEF DeskRecords
  <2>5. desk' = [desk EXCEPT ![h] = c]
    BY <2>1
  <2> HIDE DEF c
  <2>6. DeskOK(h)' /\ filmed' \in filmed..MaxFilms
    <3>1. DOMAIN list \subseteq 1..filmed
      BY <2>2
    <3>2. desk'[h] = c
      BY <2>5 DEF IngestAll, IngestTypes
    <3>3. DeskOK(h)'
      BY <1>1, <2>4, <3>1, <3>2 DEF DeskOK
    <3> QED
      BY <1>1, <3>3 DEF IngestAll, IngestTypes, FilmsTyped, IngestAssumption
  <2>7. /\ desk' \in [IngestCalls -> DeskRecords] /\ desk'[h] = c
        /\ \A g \in IngestCalls : g # h => desk'[g] = desk[g]
        /\ \A g \in IngestCalls : DeskOK(g)'
        /\ worker' \in WorkRecords /\ WorkerOK'
    BY <1>1, <2>4, <2>5, <2>6, DeskTyped DEF IngestAll
  <2>8. IngestTypes'
    BY <1>1, <2>7 DEF IngestAll, IngestTypes, FilmsTyped
  <2>9. \A x \in Rows : Pending(x) => Pending(x)'
    BY <1>1, <2>7, PendingStays
  <2>10. NewestInv'
    BY <1>1, <2>4, <2>7, <2>9, NewestStays DEF IngestAll, Live, Goes
  <2>11. OrderInv'
    <3> SUFFICES ASSUME ~Crossed PROVE OrderInv'
      BY <1>1 DEF OrderInv, Crossed
    <3>1. /\ \A r, s \in Live : r < s => film[r].position < film[s].position
          /\ \A r \in Live : film[r].position >= Rank(r)
          /\ \A g \in IngestCalls : InsertOK(g)
          /\ \A g \in IngestCalls : desk[g].step = "reindex" => ListOK(desk[g].list)
      BY DEF IngestAll, OrderInv
    <3>2. \A r, s \in Live : r < s => list[r] < list[s]
      BY <2>1, <3>1
    <3>3. \A s \in Live : list[s] = Rank(s)
      <4>1. Live \in SUBSET Nat
        BY LiveIs DEF IngestAll, IngestTypes
      <4>2. PICK n \in Nat : n = Cardinality(Live)
        BY LiveFinite
      <4>3. list \in [Live -> 1..n]
        BY <4>2
      <4>4. \A s \in Live : list[s] = Cardinality({x \in Live : x <= s})
        BY <3>2, <4>1, <4>2, <4>3, LiveFinite, PlaceIsRank
      <4> QED
        BY <4>4 DEF Rank
    <3>4. \A g \in IngestCalls : desk'[g].step = "reindex" => ListOK(desk[g].list)'
      <4> SUFFICES ASSUME NEW g \in IngestCalls, desk'[g].step = "reindex" PROVE ListOK(desk[g].list)'
        OBVIOUS
      <4>1. CASE g = h
        BY <1>1, <2>2, <2>4, <2>7, <3>3, <4>1 DEF ListOK, Rank, Live
      <4>2. CASE g # h
        <5>1. desk'[g] = desk[g] /\ Live' \subseteq Live /\ ListOK(desk[g].list)
          BY <1>1, <2>7, <3>1, <4>2 DEF Live
        <5> QED
          BY <5>1, ListStays
      <4> QED
        BY <4>1, <4>2
    <3>5. \A g \in IngestCalls : InsertOK(g)'
      BY <1>1, <2>4, <2>7, <3>1 DEF InsertOK, Live
    <3>6. (\A r, s \in Live' : r < s => film'[r].position < film'[s].position)
          /\ \A r \in Live' : film'[r].position >= Rank(r)'
      BY <1>1, <3>1 DEF Live, Rank
    <3> QED
      BY <3>4, <3>5, <3>6 DEF OrderInv
  <2> QED
    BY <2>8, <2>10, <2>11 DEF IngestGoes
<1> QED
  BY <1>2, <1>3

\* A list is written back: the rows that it does not hold came in after it was read.
LEMMA IngestReindex ==
  ASSUME IngestAssumption, IngestAll, NEW h \in IngestCalls, Reindex(h), ~UNCHANGED <<film, amiss>>
  PROVE  IngestGoes
<1> DEFINE list == desk[h].list
           held == DOMAIN list
<1>1. /\ desk[h].step = "reindex" /\ desk' = [desk EXCEPT ![h] = NoDesk]
      /\ film' = [r \in Rows |-> IF r \in held \cap Live
                                 THEN [film[r] EXCEPT !.position = list[r]] ELSE film[r]]
      /\ amiss' = IF held \subseteq Live THEN amiss ELSE amiss \cup {"shuffled"}
      /\ UNCHANGED <<filmed, reel, copied, newest, ingests, worker>>
  BY DEF Reindex, DeskAt, DeskEnds
<1>2. \A r \in held : list[r] \in Nat
  <2>1. list \in Lists
    BY DEF IngestAll, IngestTypes, DeskRecords
  <2>2. CASE list = <<>>
    BY <2>2
  <2>3. CASE \E rs \in SUBSET Rows : list \in [rs -> Nat]
    BY <2>3
  <2> QED
    BY <2>1, <2>2, <2>3 DEF Lists
<1>3. ASSUME NEW r \in Rows
      PROVE  /\ film[r] = None => film'[r] = None
             /\ film[r] # None => /\ film'[r] \in FilmRecords
                                  /\ film'[r].source = film[r].source
                                  /\ film'[r].status = film[r].status
                                  /\ film'[r].position = IF r \in held THEN list[r] ELSE film[r].position
  <2>1. CASE film[r] = None
    BY <1>1, <2>1 DEF Live
  <2>2. CASE film[r] # None
    <3>1. film[r] \in FilmRecords /\ r \in Live
      BY <2>2 DEF IngestAll, IngestTypes, FilmsTyped, Live
    <3>2. CASE r \in held
      <4> DEFINE f == [film[r] EXCEPT !.position = list[r]]
      <4>1. /\ f \in FilmRecords /\ f.source = film[r].source /\ f.status = film[r].status
            /\ f.position = list[r]
        BY <1>2, <3>1, <3>2 DEF FilmRecords
      <4>2. film'[r] = f
        BY <1>1, <3>1, <3>2
      <4> QED
        BY <2>2, <3>2, <4>1, <4>2
    <3>3. CASE r \notin held
      BY <1>1, <2>2, <3>1, <3>3
    <3> QED
      BY <3>2, <3>3
  <2> QED
    BY <2>1, <2>2
<1>4. FilmsTyped' /\ Live' \subseteq Live
  <2>1. film' \in [Rows -> FilmRecords \cup {None}]
    BY <1>1, <1>3
  <2> QED
    BY <1>1, <1>3, <2>1 DEF IngestAll, IngestTypes, FilmsTyped, Live
<1>5. \A r \in Live' : /\ film'[r].source = film[r].source /\ film'[r].status = film[r].status
                       /\ film'[r].position = IF r \in held THEN list[r] ELSE film[r].position
  BY <1>3, <1>4 DEF Live
<1>6. DeskOK(h)' /\ filmed' \in filmed..MaxFilms
  BY <1>1, NoDeskIs DEF IngestAll, IngestTypes, DeskOK, FilmsTyped, IngestAssumption
<1>7. /\ desk' \in [IngestCalls -> DeskRecords] /\ desk'[h] = NoDesk
      /\ \A g \in IngestCalls : g # h => desk'[g] = desk[g]
      /\ \A g \in IngestCalls : DeskOK(g)'
      /\ worker' \in WorkRecords /\ WorkerOK'
  BY <1>1, <1>6, NoDeskIs, DeskTyped DEF IngestAll
<1>8. IngestTypes'
  BY <1>1, <1>4, <1>7 DEF IngestAll, IngestTypes
<1>9. \A x \in Rows : Pending(x) => Pending(x)'
  BY <1>1, <1>7, PendingStays
<1>10. NewestInv'
  BY <1>1, <1>4, <1>5, <1>7, <1>9, NoDeskIs, NewestStays DEF IngestAll, Goes
<1>11. OrderInv'
  <2> SUFFICES ASSUME ~Crossed' PROVE OrderInv'
    BY DEF OrderInv
  <2>1. held \subseteq Live
    BY <1>1 DEF Crossed
  <2>2. /\ \A r, s \in Live : r < s => film[r].position < film[s].position
        /\ \A r \in Live : film[r].position >= Rank(r)
        /\ \A g \in IngestCalls : InsertOK(g)
        /\ \A g \in IngestCalls : desk[g].step = "reindex" => ListOK(desk[g].list)
    BY <1>1, <2>1 DEF IngestAll, OrderInv, Crossed
  <2>3. \A s \in held : list[s] = Rank(s) /\ \A x \in Live : x < s => x \in held
    BY <1>1, <2>1, <2>2 DEF ListOK
  <2>4. \A r \in Live : film[r].position \in Nat /\ r \in Nat
    BY DEF IngestAll, IngestTypes, FilmsTyped, Live, FilmRecords, Rows, IngestAssumption
  <2> HIDE DEF list, held
  <2>5. ASSUME NEW r \in Live', NEW s \in Live', r < s
        PROVE  film'[r].position < film'[s].position
    <3>1. r \in Live /\ s \in Live /\ Rank(r) < Rank(s) /\ Rank(r) \in Nat /\ Rank(s) \in Nat
      BY <1>4, <2>5, RanksRise, LiveFinite
    <3>2. s \in held => r \in held
      BY <2>3, <2>5, <3>1
    <3>3. film[s].position >= Rank(s) /\ film[r].position < film[s].position
          /\ film[s].position \in Nat
      BY <2>2, <2>4, <2>5, <3>1
    <3> QED
      BY <1>5, <2>3, <3>1, <3>2, <3>3
  <2>6. ASSUME NEW r \in Live' PROVE film'[r].position >= Rank(r)'
    <3>1. r \in Live /\ Rank(r) \in Nat /\ Rank(r)' \in Nat /\ Rank(r)' <= Rank(r)
      BY <1>4, LiveFinite, RanksShrink
    <3>2. film'[r].position >= Rank(r) /\ film'[r].position \in Nat
      BY <1>5, <2>2, <2>3, <2>4, <3>1
    <3> QED
      BY <3>1, <3>2
  <2>7. ASSUME NEW g \in IngestCalls PROVE InsertOK(g)'
    <3> SUFFICES ASSUME desk'[g].step = "insert", desk'[g].seen = filmed'
                 PROVE  /\ \A r \in Live' : desk'[g].position > film'[r].position
                        /\ desk'[g].position > Cardinality(Live')
      BY DEF InsertOK
    <3>1. g # h /\ desk'[g] = desk[g] /\ desk[g].position \in Nat
      BY <1>7, NoDeskIs DEF IngestAll, IngestTypes, DeskRecords
    <3>2. /\ \A r \in Live : desk[g].position > film[r].position
          /\ desk[g].position > Cardinality(Live)
      BY <1>1, <2>2, <3>1 DEF InsertOK
    <3>3. desk[g].position > Cardinality(Live')
      BY <1>4, <3>1, <3>2, LiveFinite, RanksShrink
    <3>4. ASSUME NEW r \in Live' PROVE desk[g].position > film'[r].position
      <4>1. r \in Live /\ Rank(r) \in Nat /\ Rank(r) <= Cardinality(Live) /\ Cardinality(Live) \in Nat
        BY <1>4, LiveFinite
      <4>2. CASE r \in held
        BY <1>5, <2>3, <3>1, <3>2, <4>1, <4>2
      <4>3. CASE r \notin held
        BY <1>5, <3>2, <4>1, <4>3
      <4> QED
        BY <4>2, <4>3
    <3> QED
      BY <3>1, <3>3, <3>4
  <2>8. ASSUME NEW g \in IngestCalls, desk'[g].step = "reindex" PROVE ListOK(desk[g].list)'
    <3>1. g # h /\ desk'[g] = desk[g] /\ ListOK(desk[g].list)
      BY <1>7, <2>2, <2>8, NoDeskIs
    <3> QED
      BY <1>4, <3>1, ListStays
  <2> QED
    BY <2>5, <2>6, <2>7, <2>8 DEF OrderInv
<1> QED
  BY <1>8, <1>10, <1>11 DEF IngestGoes

LEMMA IngestNoIndex ==
  ASSUME IngestAssumption, IngestAll, NEW h \in IngestCalls, Reindex(h), UNCHANGED <<film, amiss>>
  PROVE  IngestGoes
<1>1. /\ desk[h].step = "reindex" /\ desk' = [desk EXCEPT ![h] = NoDesk]
      /\ UNCHANGED <<film, filmed, reel, copied, newest, ingests, worker, amiss>>
  BY DEF Reindex, DeskAt, DeskEnds
<1>2. DeskOK(h)'
  BY <1>1, NoDeskIs DEF IngestAll, IngestTypes, DeskOK
<1>3. /\ FilmsTyped' /\ Live' \subseteq Live
      /\ ingests' \in [Rows -> Nat] /\ \A x \in Rows : ingests[x] > 0 => ingests'[x] > 0
  BY <1>1 DEF IngestAll, IngestTypes, FilmsTyped, Live
<1>4. \A x \in Live' : film'[x] = film[x]
  BY <1>1
<1> QED
  BY <1>1, <1>2, <1>3, <1>4, NoDeskIs, DeskGoesOn

\* An item is inserted behind the last, or another came in since the maximum was read.
LEMMA IngestInsert ==
  ASSUME IngestAssumption, IngestAll, NEW h \in IngestCalls, InsertFilm(h)
  PROVE  IngestGoes
<1>0. PICK n \in Nat : n = filmed + 1
  BY DEF IngestAll, IngestTypes, FilmsTyped, IngestAssumption
<1>1. PICK t \in {None, "admin"} :
        film' = [film EXCEPT ![n] = [status |-> "pending", source |-> None, title |-> t,
                                     position |-> desk[h].position]]
  BY <1>0 DEF InsertFilm
<1> DEFINE f == [status |-> "pending", source |-> None, title |-> t, position |-> desk[h].position]
<1>2. /\ desk[h].step = "insert" /\ desk[h].position \in Nat /\ DeskOK(h)
      /\ filmed \in Nat /\ MaxFilms \in Nat /\ filmed < MaxFilms /\ filmed' = n
      /\ desk' = [desk EXCEPT ![h] = NoDesk]
      /\ amiss' = IF desk[h].seen # filmed THEN amiss \cup {"crossed"} ELSE amiss
      /\ UNCHANGED <<reel, copied, newest, ingests, worker>>
  BY <1>0 DEF InsertFilm, DeskAt, DeskEnds, IngestAll, IngestTypes, FilmsTyped, DeskRecords, IngestAssumption
<1>3. n \in Rows /\ n > filmed /\ n \in Nat
  BY <1>0, <1>2 DEF Rows
<1>4. f \in FilmRecords /\ f.status = "pending" /\ f.source = None /\ f.position = desk[h].position
  BY <1>2 DEF FilmRecords
<1> HIDE DEF f
<1>5. film'[n] = f /\ film[n] = None /\ \A x \in Rows : x # n => film'[x] = film[x]
  BY <1>1, <1>3 DEF IngestAll, IngestTypes, FilmsTyped, f
<1>6. FilmsTyped'
  <2>1. film' \in [Rows -> FilmRecords \cup {None}]
    BY <1>1, <1>4 DEF IngestAll, IngestTypes, FilmsTyped, f
  <2>2. \A r \in Rows : r > filmed' => film'[r] = None
    <3> SUFFICES ASSUME NEW r \in Rows, r > n PROVE film'[r] = None
      BY <1>2
    <3>1. r > filmed /\ r # n
      BY <1>0, <1>2 DEF Rows
    <3> QED
      BY <1>5, <3>1 DEF IngestAll, IngestTypes, FilmsTyped
  <2>3. filmed' \in 0..MaxFilms
    BY <1>0, <1>2
  <2> QED
    BY <2>1, <2>2, <2>3 DEF FilmsTyped
<1>7. /\ Live' \subseteq Live \cup {n} /\ Live \subseteq Live' /\ n \notin Live
      /\ Live \in SUBSET Nat /\ \A x \in Live : x < n
  <2>1. Live' \subseteq Live \cup {n} /\ Live \subseteq Live' /\ n \notin Live
    BY <1>5 DEF Live
  <2>2. Live \in SUBSET Nat /\ Live \subseteq 1..filmed
    BY LiveIs DEF IngestAll, IngestTypes
  <2> QED
    BY <1>0, <1>2, <2>1, <2>2
<1>8. DeskOK(h)' /\ filmed' \in filmed..MaxFilms
  BY <1>0, <1>2, NoDeskIs DEF IngestAll, IngestTypes, DeskOK
<1>9. /\ desk' \in [IngestCalls -> DeskRecords] /\ desk'[h] = NoDesk
      /\ \A g \in IngestCalls : g # h => desk'[g] = desk[g]
      /\ \A g \in IngestCalls : DeskOK(g)'
      /\ worker' \in WorkRecords /\ WorkerOK'
  BY <1>2, <1>8, NoDeskIs, DeskTyped DEF IngestAll
<1>10. IngestTypes'
  BY <1>2, <1>6, <1>9 DEF IngestAll, IngestTypes
<1>11. \A x \in Rows : Pending(x) => Pending(x)'
  BY <1>2, <1>9, PendingStays
<1>12. NewestInv'
  <2>1. \A r \in Live' :
          \/ /\ r \in Live /\ film'[r].source = film[r].source
             /\ film'[r].status = "ready" => film[r].status = "ready"
          \/ r > filmed /\ film'[r].source = None /\ film'[r].status # "ready"
    <3> SUFFICES ASSUME NEW r \in Live, r # n
                 PROVE  film'[r].source = film[r].source /\ film'[r].status = film[r].status
      BY <1>3, <1>4, <1>5, <1>7
    <3> QED
      BY <1>5 DEF Live
  <2>2. \A g \in IngestCalls :
           desk[g].step = "check" \/ desk'[g].step \in {"check", "record"} => desk'[g] = desk[g]
    BY <1>2, <1>9, NoDeskIs
  <2> QED
    BY <1>2, <1>11, <2>1, <2>2, NewestStays DEF IngestAll, Goes
<1>13. OrderInv'
  <2> SUFFICES ASSUME ~Crossed' PROVE OrderInv'
    BY DEF OrderInv
  <2>1. desk[h].seen = filmed /\ ~Crossed
    BY <1>2 DEF Crossed
  <2>2. /\ \A r, s \in Live : r < s => film[r].position < film[s].position
        /\ \A r \in Live : film[r].position >= Rank(r)
        /\ \A g \in IngestCalls : InsertOK(g)
        /\ \A g \in IngestCalls : desk[g].step = "reindex" => ListOK(desk[g].list)
    BY <2>1 DEF IngestAll, OrderInv
  <2>3. /\ \A r \in Live : film'[n].position > film[r].position
        /\ film'[n].position > Cardinality(Live) /\ film'[n].position \in Nat
    BY <1>2, <1>4, <1>5, <2>1, <2>2 DEF InsertOK
  <2>4. \A r \in Live : film'[r] = film[r]
    BY <1>5, <1>7 DEF Live
  <2>5. \A r \in Live : film[r].position \in Nat
    BY DEF IngestAll, IngestTypes, FilmsTyped, Live, FilmRecords
  <2>6. ASSUME NEW r \in Live', NEW s \in Live', r < s
        PROVE  film'[r].position < film'[s].position
    <3>1. r \in Live /\ (s \in Live \/ s = n)
      BY <1>3, <1>7, <2>6
    <3> QED
      BY <2>2, <2>3, <2>4, <2>5, <2>6, <3>1
  <2>7. ASSUME NEW r \in Nat, r < n PROVE Rank(r)' = Rank(r)
    <3>1. r # n /\ ~(n <= r)
      BY <1>3, <2>7
    <3>2. \A x : (x \in Live' /\ x <= r) <=> (x \in Live /\ x <= r)
      <4> SUFFICES ASSUME NEW x, x <= r PROVE x \in Live' <=> x \in Live
        OBVIOUS
      <4>1. x # n
        BY <3>1
      <4> QED
        BY <1>7, <4>1
    <3>3. {x \in Live' : x <= r} = {x \in Live : x <= r}
      BY <3>2
    <3> QED
      BY <3>3 DEF Rank
  <2>8. Cardinality(Live') <= Cardinality(Live) + 1 /\ Cardinality(Live') \in Nat
    <3> DEFINE more == Live \cup {n}
    <3>1. IsFiniteSet(more) /\ Cardinality(more) = Cardinality(Live) + 1
      BY <1>7, LiveFinite, FS_AddElement
    <3>2. Live' \in SUBSET more
      BY <1>7
    <3> HIDE DEF more
    <3>3. IsFiniteSet(Live') /\ Cardinality(Live') <= Cardinality(more)
      BY <3>1, <3>2, FS_Subset
    <3> QED
      BY <3>1, <3>3, FS_CardinalityType
  <2>9. ASSUME NEW r \in Live' PROVE film'[r].position >= Rank(r)'
    <3>1. CASE r \in Live
      <4>1. Rank(r)' = Rank(r) /\ film'[r] = film[r]
        BY <1>7, <2>4, <2>7, <3>1
      <4> QED
        BY <2>2, <3>1, <4>1
    <3>2. CASE r = n
      <4>0. \A x \in Live' : x <= n
        BY <1>3, <1>7
      <4>1. {x \in Live' : x <= n} = Live'
        BY <4>0
      <4>2. Rank(n)' = Cardinality(Live')
        BY <4>1 DEF Rank
      <4>3. film'[n].position >= Cardinality(Live')
        BY <2>3, <2>8, LiveFinite
      <4>4. film'[r].position >= Rank(n)'
        BY <3>2, <4>2, <4>3
      <4> QED
        BY <3>2, <4>4 DEF Rank
    <3> QED
      BY <1>7, <3>1, <3>2
  <2>10. \A g \in IngestCalls : InsertOK(g)'
    <3> SUFFICES ASSUME NEW g \in IngestCalls PROVE ~(desk'[g].step = "insert" /\ desk'[g].seen = filmed')
      BY DEF InsertOK
    <3>1. g = h => desk'[g].step = "idle"
      BY <1>9, NoDeskIs
    <3>2. desk[g].step = "insert" => desk[g].seen <= filmed /\ desk[g].seen \in Nat
      BY DEF IngestAll, IngestTypes, DeskOK, DeskRecords
    <3> QED
      BY <1>0, <1>2, <1>9, <3>1, <3>2
  <2>11. ASSUME NEW g \in IngestCalls, desk'[g].step = "reindex" PROVE ListOK(desk[g].list)'
    <3>1. desk'[g] = desk[g] /\ ListOK(desk[g].list) /\ DOMAIN desk[g].list \subseteq 1..filmed
      BY <1>9, <2>2, <2>11, NoDeskIs DEF IngestAll, IngestTypes, DeskOK
    <3> DEFINE list == desk[g].list
    <3> SUFFICES ASSUME DOMAIN list \subseteq Live', NEW s \in DOMAIN list
                 PROVE  list[s] = Rank(s)' /\ \A x \in Live' : x < s => x \in DOMAIN list
      BY <3>1 DEF ListOK
    <3>2. DOMAIN list \subseteq Live /\ s \in Nat /\ s < n
      BY <1>0, <1>2, <1>7, <3>1
    <3>3. list[s] = Rank(s) /\ \A x \in Live : x < s => x \in DOMAIN list
      BY <3>1, <3>2 DEF ListOK
    <3>4. \A x \in Live' : x < s => x \in Live
      BY <1>3, <1>7, <3>2
    <3> QED
      BY <2>7, <3>2, <3>3, <3>4
  <2> QED
    BY <2>6, <2>9, <2>10, <2>11 DEF OrderInv
<1> QED
  BY <1>10, <1>12, <1>13 DEF IngestGoes

LEMMA IngestStart == IngestAssumption /\ IngestInit => IngestAll
<1> SUFFICES ASSUME IngestAssumption, IngestInit PROVE IngestAll
  OBVIOUS
<1>1. Live = {} /\ \A h \in IngestCalls : desk[h] = NoDesk
  BY DEF IngestInit, Live
<1>2. IngestTypes
  <2>1. film \in [Rows -> FilmRecords \cup {None}] /\ \A r \in Rows : film[r] = None
    BY DEF IngestInit
  <2>2. \A h \in IngestCalls : DeskOK(h)
    BY <1>1, NoDeskIs DEF DeskOK
  <2> QED
    BY <2>1, <2>2, NoDeskIs, NoWorkIs DEF IngestInit, IngestTypes, FilmsTyped, WorkerOK, IngestAssumption
<1>3. NewestInv
  <2>1. ReelOK
    BY DEF IngestInit, ReelOK
  <2> QED
    BY <1>1, <2>1, NoDeskIs, NoWorkIs DEF IngestInit, NewestInv, WorkerAhead
<1>4. OrderInv
  BY <1>1, NoDeskIs DEF OrderInv, InsertOK
<1> QED
  BY <1>2, <1>3, <1>4 DEF IngestAll

LEMMA IngestStep == IngestAssumption /\ IngestAll /\ [IngestNext]_ingestVars => IngestAll'
<1> SUFFICES ASSUME IngestAssumption, IngestAll, [IngestNext]_ingestVars PROVE IngestGoes
  BY DEF IngestGoes, IngestAll
<1>1. CASE UNCHANGED ingestVars
  <2>1. UNCHANGED <<film, filmed, reel, copied, newest, ingests, worker, desk, amiss>>
    BY <1>1 DEF ingestVars
  <2>2. IngestTypes'
    BY <2>1 DEF IngestAll, IngestTypes, FilmsTyped, WorkerOK, DeskOK
  <2>3. OrderInv'
    BY <2>1, OrderStays DEF IngestAll, Live
  <2>4. \A x \in Rows : Pending(x) => Pending(x)'
    BY <2>1 DEF Pending
  <2>5. NewestInv'
    BY <2>1, <2>4, NewestStays DEF IngestAll, Live, Goes
  <2> QED
    BY <2>2, <2>3, <2>5 DEF IngestGoes
<1>2. CASE IngestNext
  BY <1>2, IngestCreate, IngestDelete, IngestRetry, IngestCopy, IngestTake, IngestRetitle,
     IngestRecord, IngestMarks, IngestSends, IngestInsert, IngestLists, IngestReindex, IngestNoIndex,
     IngestChecks, IngestRefuses, WorkerMarks, IngestRemux, IngestSave, IngestProbe, IngestDies
     DEF IngestNext, DeskStep, WorkerStep
<1> QED
  BY <1>1, <1>2

\* playout-ingest.ts and upload-completion.ts: a film that is ready, with no job or hook
\* under way, plays the last upload of its file, remuxed, unless an upload took the place of
\* a file at work or in use and was then refused, or a hook died halfway.
THEOREM ReadyPlaysNewest == IngestSpec => []ReadyIsNewest
<1>1. IngestAll => ReadyIsNewest
  <2> SUFFICES ASSUME IngestAll, NEW r \in Live, IngestAtRest(r), film[r].status = "ready",
                      Unharmed
               PROVE  reel[<<r, film[r].source>>]
                        = [from |-> newest[<<r, film[r].source>>], clean |-> TRUE]
    BY DEF ReadyIsNewest
  <2> DEFINE k == <<r, film[r].source>>
  <2>1. /\ film[r].source # None
        /\ Settling(r) \/ worker.row = r
        /\ ReelOK
    BY DEF IngestAll, NewestInv, Excused
  <2>2. k \in Rows \X Films
    BY <2>1 DEF IngestAll, IngestTypes, FilmsTyped, FilmRecords, Live
  <2>3. ~Pending(r) /\ ~Checking(r) /\ worker.row # r
    BY DEF IngestAtRest, Pending, Checking
  <2>4. reel[k].clean /\ reel[k].from = newest[k]
    <3>1. reel[k].clean
      BY <2>1, <2>3 DEF Settling
    <3> QED
      BY <2>1, <2>2, <3>1 DEF ReelOK
  <2>5. reel[k] \in [from: 0..MaxCopies, clean: BOOLEAN]
    BY <2>2 DEF IngestAll, IngestTypes
  <2> HIDE DEF k
  <2> QED
    BY <2>4, <2>5 DEF k
<1> QED
  BY <1>1, IngestStart, IngestStep, IngestAssumption, PTL DEF IngestSpec

\* playout.ts: items stay in the order in which they were created, and share no place,
\* unless creates, or a delete and another's reindex, crossed.
THEOREM PlaylistOrdered == IngestSpec => []PlaylistInOrder
<1>1. IngestAll => PlaylistInOrder
  BY DEF IngestAll, OrderInv, Crossed, PlaylistInOrder
<1> QED
  BY <1>1, IngestStart, IngestStep, IngestAssumption, PTL DEF IngestSpec

-----------------------------------------------------------------------------
(* The rotation of a pool *)

Asks == {IdleAsk} \cup [step : {"keys"}, rows : Seq(PoolEntries)]
                  \cup [step : {"touch"}, entry : PoolEntries]

PoolTypes ==
    /\ InPool \subseteq PoolEntries
    /\ lastPlayedAt \in [InPool -> Nat]
    /\ plays \in Nat
    /\ \A e \in InPool : lastPlayedAt[e] <= plays
    /\ since \in [PoolEntries -> SUBSET PoolEntries]
    /\ poolCall \in [PoolCalls -> Asks]

\* What was served since an entry was last played was played later than it.
Later ==
    \A f \in PoolEntries : \A e \in since[f] :
        e \in InPool /\ f \in InPool => lastPlayedAt[f] < lastPlayedAt[e]

\* A call that read the pool has every entry ahead of what was served since it was played ...
Ahead ==
    \A c \in PoolCalls : poolCall[c].step = "keys" =>
        \A i \in DOMAIN poolCall[c].rows, f \in Scope :
            poolCall[c].rows[i] \in since[f] =>
                \E j \in DOMAIN poolCall[c].rows : j < i /\ poolCall[c].rows[j] = f

\* ... so that what it takes was not served since any other that could be.
Due ==
    \A c \in PoolCalls : poolCall[c].step = "touch" =>
        \A f \in PoolEntries : Servable(f) => poolCall[c].entry \notin since[f]

PoolInv == PoolTypes /\ Later /\ Ahead /\ Due /\ overtaken = {}

\* A batch is the beginning of the pool by the time its entries were last played.
LEMMA BatchIs ==
  ASSUME PoolAssumption, PoolOwner = "creator", PoolTypes, NEW batch \in Batches
  PROVE  /\ batch \in Seq(PoolEntries)
         /\ \A i \in DOMAIN batch : batch[i] \in Scope
         /\ \A i \in DOMAIN batch, f \in Scope :
                lastPlayedAt[f] < lastPlayedAt[batch[i]] =>
                    \E j \in DOMAIN batch : j < i /\ batch[j] = f
<1> DEFINE n == Cardinality(Scope)
<1>1. Scope \subseteq InPool /\ Scope \subseteq PoolEntries /\ IsFiniteSet(Scope)
  BY FS_Subset DEF Scope, PoolTypes, PoolAssumption
<1>2. n \in Nat
  BY <1>1, FS_CardinalityType
<1> HIDE DEF n
<1>3. PICK q \in [1..n -> Scope] :
         /\ \A i, j \in 1..n : i # j => q[i] # q[j]
         /\ \A i, j \in DOMAIN q : i < j => Before(q[i], q[j])
         /\ batch = SubSeq(q, 1, IF Len(q) < PoolBatch THEN Len(q) ELSE PoolBatch)
  BY DEF Batches, SetToSeqs, n
<1>4. q \in Seq(Scope) /\ Len(q) = n /\ DOMAIN q = 1..n
  BY <1>2, <1>3
<1> DEFINE m == IF n < PoolBatch THEN n ELSE PoolBatch
<1>5. m \in 0..n
  BY <1>2 DEF PoolAssumption
<1> HIDE DEF m
<1>6. batch = SubSeq(q, 1, m)
  BY <1>3, <1>4 DEF m
<1>7. DOMAIN batch = 1..m /\ \A i \in 1..m : batch[i] = q[i] /\ batch[i] \in Scope
  <2>1. \A i \in 1..m : i \in 1..n /\ q[i] \in Scope
    BY <1>2, <1>3, <1>5
  <2>2. batch = [i \in 1..m |-> q[i]]
    BY <1>2, <1>4, <1>5, <1>6
  <2> QED
    BY <2>1, <2>2
<1>8. batch \in Seq(PoolEntries)
  <2>1. batch \in [1..m -> PoolEntries]
    <3>1. batch = [i \in 1..m |-> batch[i]]
      BY <1>2, <1>4, <1>5, <1>6
    <3>2. \A i \in 1..m : batch[i] \in PoolEntries
      BY <1>1, <1>7
    <3> QED
      BY <3>1, <3>2
  <2> QED
    BY <2>1, <1>5
<1>9. \A f \in Scope : \E k \in 1..n : q[k] = f
  <2>1. q \in Injection(1..n, Scope)
    BY <1>3 DEF Injection, IsInjective
  <2>2. Cardinality(1..n) = n
    BY <1>2, FS_Interval
  <2>3. q \in Surjection(1..n, Scope)
    BY <1>1, <2>1, <2>2, FS_Injection DEF n
  <2> QED
    BY <2>3 DEF Surjection
<1>10. ASSUME NEW i \in DOMAIN batch, NEW f \in Scope, lastPlayedAt[f] < lastPlayedAt[batch[i]]
       PROVE  \E j \in DOMAIN batch : j < i /\ batch[j] = f
  <2>1. PICK k \in 1..n : q[k] = f
    BY <1>9
  <2>2. i \in 1..m /\ i \in 1..n /\ batch[i] = q[i] /\ q[i] \in Scope
    BY <1>2, <1>3, <1>5, <1>7
  <2>3. k # i
    <3>1. lastPlayedAt[f] \in Nat
      BY <1>1 DEF PoolTypes
    <3> QED
      BY <1>10, <2>1, <2>2, <3>1
  <2>4. ~(i < k)
    <3>1. SUFFICES ASSUME i < k PROVE FALSE
      OBVIOUS
    <3>2. Before(q[i], q[k])
      BY <1>3, <1>4, <2>1, <2>2, <3>1
    <3>3. lastPlayedAt[q[i]] <= lastPlayedAt[f]
      BY <2>1, <3>2 DEF Before
    <3>4. lastPlayedAt[f] \in Nat /\ lastPlayedAt[q[i]] \in Nat
      BY <1>1, <2>2 DEF PoolTypes
    <3> QED
      BY <1>10, <2>2, <3>3, <3>4
  <2>5. k < i
    BY <2>1, <2>2, <2>3, <2>4, <1>2, <1>5
  <2>6. k \in 1..m
    BY <2>1, <2>2, <2>5, <1>2, <1>5
  <2> QED
    BY <2>1, <2>5, <2>6, <1>7
<1>11. \A i \in DOMAIN batch : batch[i] \in Scope
  BY <1>7
<1> QED
  BY <1>8, <1>10, <1>11

LEMMA AskIs ==
  ASSUME PoolTypes, NEW c \in PoolCalls
  PROVE  /\ poolCall[c].step = "keys" => poolCall[c].rows \in Seq(PoolEntries)
         /\ poolCall[c].step = "touch" => poolCall[c].entry \in PoolEntries
BY DEF PoolTypes, Asks, IdleAsk

LEMMA PoolBegins ==
  ASSUME PoolInit PROVE PoolInv
<1>1. InPool = PoolEntries
  BY DEF PoolInit, InPool
<1>2. PoolTypes
  <2>1. IdleAsk \in Asks
    BY DEF Asks
  <2> QED
    BY <1>1, <2>1 DEF PoolInit, PoolTypes
<1>3. \A c \in PoolCalls : poolCall[c].step = "idle"
  BY DEF PoolInit, IdleAsk
<1>4. Ahead /\ Due
  BY <1>3 DEF Ahead, Due
<1> QED
  BY <1>2, <1>4 DEF PoolInv, Later, PoolInit

LEMMA ReadsPool ==
  ASSUME PoolAssumption, PoolOwner = "creator", PoolInv,
         NEW c \in PoolCalls, ReadPool(c)
  PROVE  PoolInv'
<1>1. PICK batch \in Batches :
        poolCall' = [poolCall EXCEPT ![c] = [step |-> "keys", rows |-> batch]]
  BY DEF ReadPool
<1>2. UNCHANGED <<lastPlayedAt, keyed, removed, plays, since, overtaken>>
  BY DEF ReadPool
<1>3. batch \in Seq(PoolEntries)
  BY <1>1, BatchIs DEF PoolInv
<1>4. PoolTypes'
  <2>1. [step |-> "keys", rows |-> batch] \in Asks
    BY <1>3 DEF Asks
  <2> QED
    BY <1>1, <1>2, <2>1 DEF PoolInv, PoolTypes, InPool
<1>5. Later'
  BY <1>2 DEF PoolInv, Later, InPool
<1>6. Scope' = Scope /\ Scope \subseteq InPool /\ InPool \subseteq PoolEntries
  BY <1>2 DEF Scope, InPool, PoolInv, PoolTypes
<1>7. \A d \in PoolCalls \ {c} : poolCall'[d] = poolCall[d]
  BY <1>1 DEF PoolInv, PoolTypes
<1>8. poolCall'[c] = [step |-> "keys", rows |-> batch]
  BY <1>1 DEF PoolInv, PoolTypes
<1>9. Ahead'
  <2>1. ASSUME NEW i \in DOMAIN batch, NEW f \in Scope, batch[i] \in since[f]
        PROVE  \E j \in DOMAIN batch : j < i /\ batch[j] = f
    <3>1. batch[i] \in Scope
      BY BatchIs DEF PoolInv
    <3>2. lastPlayedAt[f] < lastPlayedAt[batch[i]]
      BY <1>6, <2>1, <3>1 DEF PoolInv, Later
    <3> QED
      BY <3>2, BatchIs DEF PoolInv
  <2>2. ASSUME NEW d \in PoolCalls, poolCall'[d].step = "keys",
               NEW i \in DOMAIN poolCall'[d].rows, NEW f \in Scope',
               poolCall'[d].rows[i] \in since'[f]
        PROVE  \E j \in DOMAIN poolCall'[d].rows : j < i /\ poolCall'[d].rows[j] = f
    <3>1. CASE d = c
      BY <1>2, <1>6, <1>8, <2>1, <2>2, <3>1
    <3>2. CASE d # c
      <4>1. poolCall'[d] = poolCall[d]
        BY <1>7, <3>2
      <4> QED
        BY <1>2, <1>6, <2>2, <4>1 DEF PoolInv, Ahead
    <3> QED
      BY <3>1, <3>2
  <2> QED
    BY <2>2 DEF Ahead
<1>10. Due'
  BY <1>2, <1>6, <1>7, <1>8 DEF PoolInv, Due, Servable
<1> QED
  BY <1>2, <1>4, <1>5, <1>9, <1>10 DEF PoolInv

LEMMA ReadsKeys ==
  ASSUME PoolInv, NEW c \in PoolCalls, ReadKeys(c)
  PROVE  PoolInv'
<1> DEFINE batch == poolCall[c].rows
           good == {i \in DOMAIN batch : batch[i] \in keyed}
<1>1. poolCall[c].step = "keys" /\ UNCHANGED <<lastPlayedAt, keyed, removed, plays, since, overtaken>>
  BY DEF ReadKeys
<1>2. batch \in Seq(PoolEntries)
  BY <1>1, AskIs DEF PoolInv
<1>3. Scope' = Scope /\ (\A f : Servable(f)' <=> Servable(f))
  BY <1>1 DEF Scope, InPool, Servable
<1>4. Later'
  BY <1>1 DEF PoolInv, Later, InPool
<1>5. CASE poolCall' = [poolCall EXCEPT ![c] = IdleAsk]
  <2>1. poolCall' = [poolCall EXCEPT ![c] = IdleAsk]
    BY <1>5
  <2>2. PoolTypes'
    BY <1>1, <2>1 DEF PoolInv, PoolTypes, InPool, Asks
  <2>3. \A d \in PoolCalls : poolCall'[d] = poolCall[d] \/ poolCall'[d].step = "idle"
    BY <2>1 DEF PoolInv, PoolTypes, IdleAsk
  <2>4. Ahead'
    BY <1>1, <1>3, <2>3 DEF PoolInv, Ahead
  <2>5. Due'
    BY <1>1, <1>3, <2>3 DEF PoolInv, Due
  <2> QED
    BY <1>1, <1>4, <2>2, <2>4, <2>5 DEF PoolInv
<1>6. CASE \E i \in good :
             /\ \A j \in good : i <= j
             /\ poolCall' = [poolCall EXCEPT ![c] = [step |-> "touch", entry |-> batch[i]]]
  <2>1. PICK i \in good :
             /\ \A j \in good : i <= j
             /\ poolCall' = [poolCall EXCEPT ![c] = [step |-> "touch", entry |-> batch[i]]]
    BY <1>6
  <2>2. PICK e : e = batch[i]
    OBVIOUS
  <2>3. e \in PoolEntries
    BY <1>2, <2>2
  <2>4. poolCall' = [poolCall EXCEPT ![c] = [step |-> "touch", entry |-> e]]
    BY <2>1, <2>2
  <2>5. PoolTypes'
    <3>1. [step |-> "touch", entry |-> e] \in Asks
      BY <2>3 DEF Asks
    <3> QED
      BY <1>1, <2>4, <3>1 DEF PoolInv, PoolTypes, InPool
  <2>6. /\ \A d \in PoolCalls \ {c} : poolCall'[d] = poolCall[d]
        /\ poolCall'[c] = [step |-> "touch", entry |-> e]
    BY <2>4 DEF PoolInv, PoolTypes
  <2>7. Ahead'
    BY <1>1, <1>3, <2>6 DEF PoolInv, Ahead
  <2>8. ASSUME NEW f \in PoolEntries, Servable(f), e \in since[f] PROVE FALSE
    <3>1. f \in Scope /\ f \in keyed
      BY <2>8 DEF Servable
    <3>2. PICK j \in DOMAIN batch : j < i /\ batch[j] = f
      BY <1>1, <2>1, <2>2, <2>8, <3>1 DEF PoolInv, Ahead
    <3>3. j \in good
      BY <3>1, <3>2
    <3>4. i <= j /\ i \in Nat /\ j \in Nat
      BY <1>2, <2>1, <3>2, <3>3
    <3> QED
      BY <3>2, <3>4
  <2>9. Due'
    BY <1>1, <1>3, <2>6, <2>8 DEF PoolInv, Due
  <2> QED
    BY <1>1, <1>4, <2>5, <2>7, <2>9 DEF PoolInv
<1> QED
  BY <1>5, <1>6 DEF ReadKeys

\* With one call in flight no other has read the pool, or taken an entry.
LEMMA Touches ==
  ASSUME \A d, e \in PoolCalls : d = e, PoolInv, NEW c \in PoolCalls, Touch(c)
  PROVE  PoolInv'
<1>1. PICK e : e = poolCall[c].entry
  OBVIOUS
<1>2. /\ poolCall[c].step = "touch" /\ e \in PoolEntries
      /\ plays' = plays + 1 /\ lastPlayedAt' = Stamped(e)
      /\ poolCall' = [poolCall EXCEPT ![c] = IdleAsk]
      /\ Offered(e) /\ UNCHANGED <<keyed, removed>>
  BY <1>1, AskIs DEF Touch, PoolInv
<1>3. \A d \in PoolCalls : poolCall'[d].step = "idle"
  BY <1>2 DEF PoolInv, PoolTypes, IdleAsk
<1>4. Ahead' /\ Due'
  BY <1>3 DEF Ahead, Due
<1>5. overtaken' = {}
  <2>1. \A f \in PoolEntries : Servable(f) => e \notin since[f]
    BY <1>1, <1>2 DEF PoolInv, Due
  <2> QED
    BY <1>2, <2>1 DEF Offered, PoolInv
<1>6. /\ InPool' = InPool /\ lastPlayedAt' \in [InPool -> Nat]
      /\ \A f \in InPool : lastPlayedAt'[f] = IF f = e THEN plays + 1 ELSE lastPlayedAt[f]
  BY <1>2 DEF Stamped, InPool, PoolInv, PoolTypes
<1>7. /\ since' \in [PoolEntries -> SUBSET PoolEntries]
      /\ \A f \in PoolEntries : since'[f] = IF f = e THEN {} ELSE since[f] \cup {e}
  BY <1>2 DEF Offered, PoolInv, PoolTypes
<1>8. \A f \in InPool : lastPlayedAt'[f] <= plays' /\ lastPlayedAt[f] < plays + 1
  BY <1>2, <1>6 DEF PoolInv, PoolTypes
<1>9. PoolTypes'
  <2>1. poolCall' \in [PoolCalls -> Asks]
    BY <1>2 DEF PoolInv, PoolTypes, Asks
  <2>2. plays' \in Nat
    BY <1>2 DEF PoolInv, PoolTypes
  <2> QED
    BY <1>6, <1>7, <1>8, <2>1, <2>2 DEF PoolInv, PoolTypes
<1>10. Later'
  <2>1. ASSUME NEW f \in PoolEntries, NEW g \in since'[f], g \in InPool, f \in InPool
        PROVE  lastPlayedAt'[f] < lastPlayedAt'[g]
    <3>1. f # e
      BY <1>7, <2>1
    <3>2. g = e \/ g \in since[f]
      BY <1>7, <2>1
    <3>3. CASE g = e
      BY <1>6, <1>8, <2>1, <3>1, <3>3
    <3>4. CASE g # e
      BY <1>6, <2>1, <3>1, <3>2, <3>4 DEF PoolInv, Later
    <3> QED
      BY <3>3, <3>4
  <2> QED
    BY <1>6, <2>1 DEF Later
<1> QED
  BY <1>4, <1>5, <1>9, <1>10 DEF PoolInv

\* Beside the calls, an entry that comes into the pool or gets its media starts anew.
LEMMA PoolBeside ==
  ASSUME PoolInv, PoolTypes', Later', UNCHANGED <<poolCall, overtaken>>,
         \A f \in PoolEntries : \A e \in since'[f] :
             /\ e \in since[f]
             /\ f \in Scope' => f \in Scope
             /\ f \in keyed' => f \in keyed
  PROVE  PoolInv'
<1>1. Scope' \subseteq PoolEntries
  BY DEF Scope, PoolTypes
<1>2. Ahead'
  <2>1. ASSUME NEW c \in PoolCalls, poolCall[c].step = "keys",
               NEW i \in DOMAIN poolCall[c].rows, NEW f \in Scope',
               poolCall[c].rows[i] \in since'[f]
        PROVE  \E j \in DOMAIN poolCall[c].rows : j < i /\ poolCall[c].rows[j] = f
    BY <1>1, <2>1 DEF PoolInv, Ahead
  <2> QED
    BY <2>1 DEF Ahead
<1>3. Due'
  BY DEF PoolInv, Due, Servable
<1> QED
  BY <1>2, <1>3 DEF PoolInv

LEMMA PoolWriters ==
  ASSUME PoolInv, NEW e \in PoolEntries,
         QueuePlayed(e) \/ Assign(e) \/ Unassign(e) \/ ChangeMedia(e) \/ RemoveContent(e)
  PROVE  PoolInv'
<1>1. CASE QueuePlayed(e)
  <2>1. /\ e \in InPool /\ plays' = plays + 1 /\ UNCHANGED <<keyed, removed, poolCall, overtaken>>
        /\ lastPlayedAt' = [lastPlayedAt EXCEPT ![e] = plays + 1]
        /\ since' = [since EXCEPT ![e] = {}]
    BY <1>1 DEF QueuePlayed, Stamped, Fresh
  <2>2. /\ InPool' = InPool /\ lastPlayedAt' \in [InPool -> Nat]
        /\ \A f \in InPool : lastPlayedAt'[f] = IF f = e THEN plays + 1 ELSE lastPlayedAt[f]
    BY <2>1 DEF InPool, PoolInv, PoolTypes
  <2>3. /\ since' \in [PoolEntries -> SUBSET PoolEntries]
        /\ \A f \in PoolEntries : since'[f] = IF f = e THEN {} ELSE since[f]
    BY <2>1 DEF PoolInv, PoolTypes
  <2>4. \A f \in InPool : lastPlayedAt'[f] <= plays' /\ lastPlayedAt[f] < plays + 1
    BY <2>1, <2>2 DEF PoolInv, PoolTypes
  <2>5. PoolTypes'
    BY <2>1, <2>2, <2>3, <2>4 DEF PoolInv, PoolTypes
  <2>6. Later'
    BY <2>2, <2>3, <2>4 DEF PoolInv, Later
  <2>7. Scope' = Scope
    BY <2>1, <2>2 DEF Scope
  <2> QED
    BY <2>1, <2>3, <2>5, <2>6, <2>7, PoolBeside
<1>2. CASE Assign(e)
  <2>1. /\ e \notin InPool /\ UNCHANGED <<keyed, removed, plays, poolCall, overtaken>>
        /\ lastPlayedAt' = [f \in InPool \cup {e} |-> IF f = e THEN 0 ELSE lastPlayedAt[f]]
        /\ since' = [f \in PoolEntries |-> IF f = e THEN {} ELSE since[f] \ {e}]
    BY <1>2 DEF Assign
  <2>2. /\ InPool' = InPool \cup {e} /\ lastPlayedAt' \in [InPool' -> Nat]
        /\ \A f \in InPool' : lastPlayedAt'[f] = IF f = e THEN 0 ELSE lastPlayedAt[f]
    BY <2>1 DEF InPool, PoolInv, PoolTypes
  <2>3. /\ since' \in [PoolEntries -> SUBSET PoolEntries]
        /\ \A f \in PoolEntries : since'[f] = IF f = e THEN {} ELSE since[f] \ {e}
    BY <2>1 DEF PoolInv, PoolTypes
  <2>4. PoolTypes'
    BY <2>1, <2>2, <2>3 DEF PoolInv, PoolTypes
  <2>5. Later'
    BY <2>2, <2>3 DEF PoolInv, Later
  <2>6. \A f \in PoolEntries \ {e} : f \in Scope' => f \in Scope
    BY <2>1, <2>2 DEF Scope
  <2> QED
    BY <2>1, <2>3, <2>4, <2>5, <2>6, PoolBeside
<1>3. CASE Unassign(e)
  <2>1. /\ UNCHANGED <<keyed, removed, plays, poolCall, since, overtaken>>
        /\ lastPlayedAt' = [f \in InPool \ {e} |-> lastPlayedAt[f]]
    BY <1>3 DEF Unassign
  <2>2. /\ InPool' = InPool \ {e} /\ lastPlayedAt' \in [InPool' -> Nat]
        /\ \A f \in InPool' : lastPlayedAt'[f] = lastPlayedAt[f]
    BY <2>1 DEF InPool, PoolInv, PoolTypes
  <2>3. PoolTypes' /\ Later'
    BY <2>1, <2>2 DEF PoolInv, PoolTypes, Later
  <2>4. Scope' \subseteq Scope
    BY <2>1, <2>2 DEF Scope
  <2> QED
    BY <2>1, <2>3, <2>4, PoolBeside
<1>4. CASE ChangeMedia(e)
  <2>1. /\ UNCHANGED <<lastPlayedAt, removed, plays, poolCall, overtaken>>
        /\ keyed' = IF e \in keyed THEN keyed \ {e} ELSE keyed \cup {e}
        /\ since' = [since EXCEPT ![e] = {}]
    BY <1>4 DEF ChangeMedia, Fresh
  <2>2. /\ since' \in [PoolEntries -> SUBSET PoolEntries]
        /\ \A f \in PoolEntries : since'[f] = IF f = e THEN {} ELSE since[f]
    BY <2>1 DEF PoolInv, PoolTypes
  <2>3. PoolTypes' /\ Later' /\ Scope' = Scope
    BY <2>1, <2>2 DEF PoolInv, PoolTypes, Later, InPool, Scope
  <2> QED
    BY <2>1, <2>2, <2>3, PoolBeside
<1>5. CASE RemoveContent(e)
  <2>1. /\ UNCHANGED <<lastPlayedAt, keyed, plays, poolCall, since, overtaken>>
        /\ removed' = removed \cup {e}
    BY <1>5 DEF RemoveContent
  <2>2. PoolTypes' /\ Later' /\ Scope' \subseteq Scope
    BY <2>1 DEF PoolInv, PoolTypes, Later, InPool, Scope
  <2> QED
    BY <2>1, <2>2, PoolBeside
<1> QED
  BY <1>1, <1>2, <1>3, <1>4, <1>5

\* resolvePoolNextUri, on a creator's channel: while the engine asks for one entry at a
\* time, no entry that can be served is passed over twice for the same other one,
\* whatever the queue plays and whoever fills, empties and uploads to the pool meanwhile.
THEOREM PoolTurns ==
  ASSUME PoolOwner = "creator", \A d, e \in PoolCalls : d = e
  PROVE  PoolSpec => []PoolRotates
<1>1. PoolInit => PoolInv
  BY PoolBegins
<1>2. PoolInv /\ [PoolNext]_poolVars => PoolInv'
  <2> SUFFICES ASSUME PoolInv, [PoolNext]_poolVars PROVE PoolInv'
    OBVIOUS
  <2>1. ASSUME NEW c \in PoolCalls, ReadPool(c) \/ ReadKeys(c) \/ Touch(c) PROVE PoolInv'
    BY <2>1, PoolAssumption, ReadsPool, ReadsKeys, Touches
  <2>2. ASSUME NEW e \in PoolEntries,
               QueuePlayed(e) \/ Assign(e) \/ Unassign(e) \/ ChangeMedia(e) \/ RemoveContent(e)
        PROVE  PoolInv'
    BY <2>2, PoolWriters
  <2>3. CASE UNCHANGED poolVars
    <3>1. PoolTypes'
      BY <2>3 DEF poolVars, PoolInv, PoolTypes, InPool
    <3>2. Later' /\ Scope' = Scope
      BY <2>3 DEF poolVars, PoolInv, Later, InPool, Scope
    <3> QED
      BY <2>3, <3>1, <3>2, PoolBeside DEF poolVars
  <2> QED
    BY <2>1, <2>2, <2>3 DEF PoolNext
<1>3. PoolInv => PoolRotates
  BY DEF PoolInv, PoolRotates
<1> QED
  BY <1>1, <1>2, <1>3, PTL DEF PoolSpec

-----------------------------------------------------------------------------
(* The engine and the editorial tables *)

\* The script is a function of the tables.
LEMMA RenderedStays == UNCHANGED store => Rendered' = Rendered
<1> SUFFICES ASSUME UNCHANGED store PROVE Rendered' = Rendered
  OBVIOUS
<1>1. active' = active /\ settings' = settings /\ tier' = tier
  BY DEF store
<1>2. rows' = rows
  BY <1>1 DEF rows
<1>3. \A c : TiersOf(c)' = TiersOf(c)
  BY <1>1 DEF TiersOf, Exists
<1>4. \A c : configured(c)' = configured(c)
  BY <1>1, <1>3 DEF configured
<1>5. \A c : enabledTiers(c)' = enabledTiers(c)
  BY <1>1, <1>3 DEF enabledTiers
<1>6. \A c : resolvedTiers(c)' = resolvedTiers(c)
  BY <1>1, <1>2, <1>5 DEF resolvedTiers, Known
<1>7. ASSUME NEW c PROVE renderedTiers(c)' = renderedTiers(c)
  BY <1>1, <1>4, <1>6 DEF renderedTiers
<1>8. ASSUME NEW c PROVE manualTierIndex(c)' = manualTierIndex(c)
  BY <1>1, <1>5 DEF manualTierIndex
<1>9. ASSUME NEW c PROVE pinnedSource(c)' = pinnedSource(c)
  BY <1>1, <1>4, <1>5, <1>7, <1>8 DEF pinnedSource
<1> QED
  BY <1>2, <1>7, <1>9 DEF Rendered

\* What the steps rely on: slots that hold records, and an engine with its fields.
SlotOK(r) ==
    /\ r = [f \in DOMAIN r |-> r[f]]
    /\ "step" \in DOMAIN r
    /\ r.step \in {"graph", "insert"} => "todo" \in DOMAIN r
    /\ r.step = "graph" /\ r.old # {} => r.todo = <<>>

SlotsOK ==
    /\ editCall = [c \in EditCalls |-> editCall[c]]
    /\ \A c \in EditCalls : SlotOK(editCall[c])

EngineOK ==
    /\ engine = [up |-> engine.up, script |-> engine.script, armed |-> engine.armed]
    /\ engine.up \in BOOLEAN
    /\ due \in BOOLEAN /\ renderedTogether \in BOOLEAN

\* A call that will regenerate, whatever is changed until then.
Owes(r) == r.step \in {"generate", "tiers"} \/ (r.step \in {"graph", "insert"} /\ r.todo # <<>>)

\* What is stored is going to be rendered, is rendered, or is on its way to the engine.
Follows ==
    \/ \E c \in EditCalls : Owes(editCall[c])
    \/ \E c \in Writing : editCall[c].text = Rendered
    \/ /\ Writing = {} /\ script = Rendered
       /\ \/ \E c \in EditCalls : editCall[c].step = "signal"
          \/ ~engine.up \/ engine.script = Rendered

FollowInv ==
    /\ SlotsOK /\ EngineOK
    /\ ~renderedTogether => \A c, d \in Writing : c = d
    /\ ~due /\ ~renderedTogether => Follows

SameEngine == engine'.up = engine.up /\ engine'.script = engine.script

LEMMA SlotIs ==
  ASSUME SlotsOK, NEW c \in EditCalls, NEW r, SetCall(c, r)
  PROVE  /\ editCall'[c] = r /\ \A d \in EditCalls \ {c} : editCall'[d] = editCall[d]
         /\ SlotOK(r) => SlotsOK'
BY DEF SlotsOK, SetCall

\* Arming changes neither what the engine runs nor whether it does.
LEMMA ArmedIs ==
  ASSUME EngineOK, NEW ch, NEW v, engine' = Armed(ch, v), UNCHANGED <<due, renderedTogether>>
  PROVE  EngineOK' /\ SameEngine
<1>1. CASE engine' = engine
  BY <1>1 DEF EngineOK, SameEngine
<1>2. CASE engine' # engine
  <2>1. PICK a : engine' = [engine EXCEPT !.armed = a]
    BY <1>2 DEF Armed
  <2> QED
    BY <2>1 DEF EngineOK, SameEngine
<1> QED
  BY <1>1, <1>2

\* A call goes on that neither has a script nor owes one.
LEMMA FollowsBeside ==
  ASSUME FollowInv, EngineOK', NEW c \in EditCalls, NEW r, SetCall(c, r), SlotOK(r),
         editCall[c].step \notin {"write", "signal"}, r.step # "write",
         ~Owes(editCall[c]),
         SameEngine, UNCHANGED <<store, script, due, renderedTogether>>
  PROVE  FollowInv'
<1>1. /\ editCall'[c] = r /\ SlotsOK' /\ \A d \in EditCalls \ {c} : editCall'[d] = editCall[d]
  BY SlotIs DEF FollowInv
<1>2. Rendered' = Rendered
  BY RenderedStays
<1>3. Writing' = Writing
  BY <1>1 DEF Writing
<1>4. Follows => Follows'
  <2>1. (\E d \in EditCalls : Owes(editCall[d])) => \E d \in EditCalls : Owes(editCall'[d])
    BY <1>1
  <2>2. (\E d \in Writing : editCall[d].text = Rendered) =>
           \E d \in Writing' : editCall'[d].text = Rendered
    BY <1>1, <1>3 DEF Writing
  <2>3. (\E d \in EditCalls : editCall[d].step = "signal") =>
           \E d \in EditCalls : editCall'[d].step = "signal"
    BY <1>1
  <2> QED
    BY <1>2, <1>3, <2>1, <2>2, <2>3 DEF Follows, SameEngine
<1> QED
  BY <1>1, <1>3, <1>4 DEF FollowInv

\* A call that owes a regeneration makes good whatever else changed.
LEMMA FollowsOwing ==
  ASSUME FollowInv, EngineOK', NEW c \in EditCalls, NEW r, SetCall(c, r), SlotOK(r),
         r.step # "write", Owes(r), UNCHANGED renderedTogether
  PROVE  FollowInv'
<1>1. /\ editCall'[c] = r /\ SlotsOK' /\ \A d \in EditCalls \ {c} : editCall'[d] = editCall[d]
  BY SlotIs DEF FollowInv
<1>2. Writing' \subseteq Writing
  BY <1>1 DEF Writing
<1>3. Follows'
  BY <1>1 DEF Follows
<1> QED
  BY <1>1, <1>2, <1>3 DEF FollowInv

\* What did not get through is recorded.
LEMMA FollowsDue ==
  ASSUME FollowInv, EngineOK', SlotsOK', Writing' \subseteq Writing, due',
         UNCHANGED renderedTogether
  PROVE  FollowInv'
BY DEF FollowInv

LEMMA FollowGenerate ==
  ASSUME FollowInv, NEW c \in EditCalls, Generate(c)
  PROVE  FollowInv'
<1>1. /\ renderedTogether' = (renderedTogether \/ Writing # {})
      /\ UNCHANGED <<store, script, engine>> /\ editCall[c].step = "generate"
  BY DEF Generate
<1>2. Rendered' = Rendered
  BY <1>1, RenderedStays
<1>3. CASE HasCycle(carryEdges)
  <2>1. SetCall(c, IdleEdit) /\ due' = TRUE
    BY <1>3 DEF Generate, Done
  <2>2. SlotOK(IdleEdit) /\ IdleEdit.step = "idle"
    BY DEF SlotOK, IdleEdit
  <2>3. editCall'[c] = IdleEdit /\ SlotsOK' /\ \A d \in EditCalls \ {c} : editCall'[d] = editCall[d]
    BY <2>1, <2>2, SlotIs DEF FollowInv
  <2>4. Writing' \subseteq Writing
    BY <2>2, <2>3 DEF Writing
  <2> QED
    BY <1>1, <2>1, <2>3, <2>4 DEF FollowInv, EngineOK
<1>4. CASE ~HasCycle(carryEdges)
  <2>1. PICK r : r = [step |-> "write", then |-> editCall[c].then, text |-> Rendered]
    OBVIOUS
  <2>2. SetCall(c, r) /\ due' = FALSE
    BY <1>4, <2>1 DEF Generate
  <2>3. SlotOK(r) /\ r.step = "write" /\ r.text = Rendered
    BY <2>1 DEF SlotOK
  <2>4. editCall'[c] = r /\ SlotsOK' /\ \A d \in EditCalls \ {c} : editCall'[d] = editCall[d]
    BY <2>2, <2>3, SlotIs DEF FollowInv
  <2>5. Writing' = Writing \cup {c}
    BY <2>3, <2>4 DEF Writing
  <2>6. Follows'
    BY <1>2, <2>3, <2>4, <2>5 DEF Follows
  <2> QED
    BY <1>1, <2>2, <2>4, <2>5, <2>6 DEF FollowInv, EngineOK
<1> QED
  BY <1>3, <1>4

LEMMA FollowWrite ==
  ASSUME FollowInv, NEW c \in EditCalls, WriteScript(c)
  PROVE  FollowInv'
<1>1. PICK r : r = editCall[c]
  OBVIOUS
<1>2. /\ r.step = "write" /\ script' = r.text /\ UNCHANGED <<store, engine, renderedTogether>>
      /\ c \in Writing
  BY <1>1 DEF WriteScript, Writing, overlaps
<1>3. Rendered' = Rendered
  BY <1>2, RenderedStays
<1>4. PICK s : SetCall(c, s) /\ SlotOK(s) /\ s.step \in {"idle", "signal"}
               /\ (s.step = "idle" => due' = (due \/ engine.script # r.text))
               /\ (s.step = "signal" => due' = due)
  <2>1. CASE r.then = "boot"
    <3>1. SlotOK(IdleEdit) /\ IdleEdit.step = "idle"
      BY DEF SlotOK, IdleEdit
    <3>2. SetCall(c, IdleEdit) /\ due' = (due \/ engine.script # r.text)
      BY <1>1, <2>1 DEF WriteScript, Done
    <3> QED
      BY <3>1, <3>2
  <2>2. CASE r.then # "boot"
    <3>1. SetCall(c, [r EXCEPT !.step = "signal"]) /\ due' = due
      BY <1>1, <2>2 DEF WriteScript, Go
    <3>2. SlotOK(r)
      BY <1>1 DEF FollowInv, SlotsOK
    <3>3. PICK s : s = [r EXCEPT !.step = "signal"]
      OBVIOUS
    <3>4. SlotOK(s) /\ s.step = "signal"
      BY <3>2, <3>3 DEF SlotOK
    <3> QED
      BY <3>1, <3>3, <3>4
  <2> QED
    BY <2>1, <2>2
<1>5. editCall'[c] = s /\ SlotsOK' /\ \A d \in EditCalls \ {c} : editCall'[d] = editCall[d]
  BY <1>4, SlotIs DEF FollowInv
<1>6. Writing' = Writing \ {c}
  BY <1>4, <1>5 DEF Writing
<1>7. EngineOK'
  BY <1>2, <1>4 DEF FollowInv, EngineOK
<1>8. ASSUME ~due', ~renderedTogether'
      PROVE  Follows'
  <2>1. ~due /\ ~renderedTogether
    BY <1>2, <1>4, <1>8 DEF FollowInv, EngineOK
  <2>2. Writing = {c}
    BY <1>2, <2>1 DEF FollowInv
  <2>3. CASE \E d \in EditCalls : Owes(editCall[d])
    <3>1. PICK d \in EditCalls : Owes(editCall[d])
      BY <2>3
    <3>2. d # c
      BY <1>1, <1>2, <3>1 DEF Owes
    <3> QED
      BY <1>5, <3>1, <3>2 DEF Follows
  <2>4. CASE r.text = Rendered
    <3>1. Writing' = {} /\ script' = Rendered'
      BY <1>2, <1>3, <1>6, <2>2, <2>4
    <3>2. CASE s.step = "signal"
      BY <1>5, <3>1, <3>2 DEF Follows
    <3>3. CASE s.step = "idle"
      <4>1. engine.script = r.text
        BY <1>4, <1>8, <2>1, <3>3
      <4> QED
        BY <1>2, <1>3, <2>4, <3>1, <4>1 DEF Follows
    <3> QED
      BY <1>4, <3>2, <3>3
  <2> QED
    BY <1>1, <2>1, <2>2, <2>3, <2>4 DEF FollowInv, Follows
<1> QED
  BY <1>2, <1>5, <1>6, <1>7, <1>8 DEF FollowInv

LEMMA FollowSignal ==
  ASSUME FollowInv, NEW c \in EditCalls, Signal(c)
  PROVE  FollowInv'
<1>1. editCall[c].step = "signal" /\ UNCHANGED <<store, script, renderedTogether>>
  BY DEF Signal, overlaps
<1>2. Rendered' = Rendered
  BY <1>1, RenderedStays
<1>3. PICK s : SetCall(c, s) /\ SlotOK(s) /\ s.step \in {"idle", "arm"}
  <2>1. \/ SetCall(c, IdleEdit)
        \/ SetCall(c, [step |-> "arm", channel |-> editCall[c].then])
    BY DEF Signal, Done
  <2>2. SlotOK(IdleEdit) /\ IdleEdit.step = "idle"
    BY DEF SlotOK, IdleEdit
  <2>3. ASSUME NEW ch
        PROVE  SlotOK([step |-> "arm", channel |-> ch]) /\ [step |-> "arm", channel |-> ch].step = "arm"
    BY DEF SlotOK
  <2> QED
    BY <2>1, <2>2, <2>3
<1>4. editCall'[c] = s /\ SlotsOK' /\ \A d \in EditCalls \ {c} : editCall'[d] = editCall[d]
  BY <1>3, SlotIs DEF FollowInv
<1>5. Writing' = Writing
  BY <1>1, <1>3, <1>4 DEF Writing
<1>6. CASE engine' = [engine EXCEPT !.up = FALSE, !.armed = {}] /\ UNCHANGED due
  <2>1. EngineOK' /\ engine'.up = FALSE
    BY <1>1, <1>6 DEF FollowInv, EngineOK
  <2>2. Follows => Follows'
    <3>1. CASE \E d \in EditCalls : Owes(editCall[d])
      <4>1. PICK d \in EditCalls : Owes(editCall[d])
        BY <3>1
      <4>2. d # c
        BY <1>1, <4>1 DEF Owes
      <4> QED
        BY <1>4, <4>1, <4>2 DEF Follows
    <3>2. CASE \E d \in Writing : editCall[d].text = Rendered
      <4>1. PICK d \in Writing : editCall[d].text = Rendered
        BY <3>2
      <4>2. d # c /\ d \in EditCalls
        BY <1>1, <4>1 DEF Writing
      <4> QED
        BY <1>2, <1>4, <1>5, <4>1, <4>2 DEF Follows
    <3>3. CASE Writing = {} /\ script = Rendered
      BY <1>1, <1>2, <1>5, <2>1, <3>3 DEF Follows
    <3> QED
      BY <3>1, <3>2, <3>3 DEF Follows
  <2> QED
    BY <1>1, <1>4, <1>5, <1>6, <2>1, <2>2 DEF FollowInv
<1>7. CASE due' = TRUE /\ UNCHANGED engine
  <2>1. EngineOK'
    BY <1>1, <1>7 DEF FollowInv, EngineOK
  <2> QED
    BY <1>1, <1>4, <1>5, <1>7, <2>1, FollowsDue
<1> QED
  BY <1>6, <1>7 DEF Signal

LEMMA FollowEngine ==
  ASSUME FollowInv, EngineStart \/ \E ch \in Playouts, v \in BOOLEAN : ArmQueue(ch, v)
  PROVE  FollowInv'
<1>1. UNCHANGED <<store, script, editCall, due, renderedTogether>>
  BY DEF EngineStart, ArmQueue, overlaps
<1>2. Rendered' = Rendered /\ Writing' = Writing /\ SlotsOK'
  BY <1>1, RenderedStays DEF Writing, SlotsOK, FollowInv
<1>3. /\ EngineOK'
      /\ \/ SameEngine
         \/ engine'.script = script
  <2>1. CASE EngineStart
    BY <1>1, <2>1 DEF EngineStart, EngineOK, FollowInv
  <2>2. ASSUME NEW ch \in Playouts, NEW v \in BOOLEAN, ArmQueue(ch, v)
        PROVE  EngineOK' /\ SameEngine
    BY <1>1, <2>2, ArmedIs DEF ArmQueue, FollowInv
  <2> QED
    BY <2>1, <2>2
<1>4. Follows => Follows'
  BY <1>1, <1>2, <1>3 DEF Follows, SameEngine
<1> QED
  BY <1>1, <1>2, <1>3, <1>4 DEF FollowInv

\* What a call is followed by, in ensureBroadcastEditorialConfig's loop and outside it.
LEMMA NextIs ==
  ASSUME NEW c \in EditCalls, NEW todo, NextTier(c, todo)
  PROVE  \E r : SetCall(c, r) /\ SlotOK(r) /\ Owes(r) /\ r.step # "write" /\ r.step # "channel"
<1>1. CASE todo = <<>>
  <2>1. PICK r : r = [step |-> "generate", then |-> "boot"]
    OBVIOUS
  <2>2. SlotOK(r) /\ r.step = "generate"
    BY <2>1 DEF SlotOK
  <2> QED
    BY <1>1, <2>1, <2>2 DEF NextTier, Owes
<1>2. CASE todo # <<>>
  <2>1. PICK r, s : r = [step |-> s, channel |-> Broadcast, new |-> Head(todo), old |-> {}, todo |-> todo]
                    /\ s = IF Head(todo).type = "carry" THEN "graph" ELSE "insert"
    OBVIOUS
  <2>2. r.step = s /\ r.todo = todo /\ r.old = {} /\ s \in {"graph", "insert"}
    BY <2>1
  <2>3. SlotOK(r)
    BY <2>1, <2>2 DEF SlotOK
  <2> QED
    BY <1>2, <2>1, <2>2, <2>3 DEF NextTier, Owes
<1> QED
  BY <1>1, <1>2

LEMMA RefusedIs ==
  ASSUME NEW c \in EditCalls, Refused(c)
  PROVE  \E r : SetCall(c, r) /\ SlotOK(r) /\ r.step # "write" /\ r.step # "channel"
                /\ (editCall[c].todo # <<>> => Owes(r))
<1>1. CASE editCall[c].todo = <<>>
  <2>1. SlotOK(IdleEdit) /\ IdleEdit.step = "idle"
    BY DEF SlotOK, IdleEdit
  <2> QED
    BY <1>1, <2>1 DEF Refused, Done
<1>2. CASE editCall[c].todo # <<>>
  <2>1. PICK r : r = [step |-> "generate", then |-> "boot"]
    OBVIOUS
  <2>2. SlotOK(r) /\ r.step = "generate"
    BY <2>1 DEF SlotOK
  <2> QED
    BY <1>2, <2>1, <2>2 DEF Refused, Owes
<1> QED
  BY <1>1, <1>2

LEMMA IdleIs == SlotOK(IdleEdit) /\ IdleEdit.step = "idle" /\ ~Owes(IdleEdit)
BY DEF SlotOK, IdleEdit, Owes

\* A refused tier ends the request, or the loop.
LEMMA FollowRefused ==
  ASSUME FollowInv, NEW c \in EditCalls, Refused(c), editCall[c].step \in {"graph", "insert"},
         UNCHANGED <<store, script, engine, due, renderedTogether>>
  PROVE  FollowInv'
<1>1. EngineOK' /\ SameEngine
  BY DEF FollowInv, EngineOK, SameEngine
<1>2. PICK r : SetCall(c, r) /\ SlotOK(r) /\ r.step # "write" /\ (editCall[c].todo # <<>> => Owes(r))
  BY RefusedIs
<1>3. CASE Owes(r)
  BY <1>1, <1>2, <1>3, FollowsOwing
<1>4. CASE editCall[c].todo = <<>>
  <2>1. ~Owes(editCall[c])
    BY <1>4 DEF Owes
  <2> QED
    BY <1>1, <1>2, <2>1, FollowsBeside
<1> QED
  BY <1>2, <1>3, <1>4

LEMMA FollowCheckGraph ==
  ASSUME FollowInv, NEW c \in EditCalls, CheckGraph(c)
  PROVE  FollowInv'
<1>1. editCall[c].step = "graph" /\ UNCHANGED <<store, script, engine, due, renderedTogether>>
  BY DEF CheckGraph, overlaps
<1>2. EngineOK' /\ SameEngine
  BY <1>1 DEF FollowInv, EngineOK, SameEngine
<1>3. CASE Refused(c)
  BY <1>1, <1>3, FollowRefused
<1>4. ASSUME NEW s \in {"insert", "change"}, Go(c, s),
             s = "change" => ~Owes(editCall[c])
      PROVE  FollowInv'
  <2>1. PICK r : r = [editCall[c] EXCEPT !.step = s]
    OBVIOUS
  <2>2. SlotOK(editCall[c]) /\ SetCall(c, r)
    BY <1>4, <2>1 DEF FollowInv, SlotsOK, Go
  <2>3. r.step = s /\ r.todo = editCall[c].todo /\ SlotOK(r)
    BY <1>1, <2>1, <2>2 DEF SlotOK
  <2>4. CASE Owes(editCall[c])
    <3>1. Owes(r)
      BY <1>1, <1>4, <2>3, <2>4 DEF Owes
    <3> QED
      BY <1>1, <1>2, <1>4, <2>2, <2>3, <3>1, FollowsOwing
  <2>5. CASE ~Owes(editCall[c])
    BY <1>1, <1>2, <1>4, <2>2, <2>3, <2>5, FollowsBeside
  <2> QED
    BY <2>4, <2>5
<1>5. ASSUME editCall[c].old # {} PROVE ~Owes(editCall[c])
  BY <1>1, <1>5 DEF FollowInv, SlotsOK, SlotOK, Owes
<1> QED
  BY <1>3, <1>4, <1>5 DEF CheckGraph

LEMMA FollowInsert ==
  ASSUME FollowInv, NEW c \in EditCalls, InsertTier(c)
  PROVE  FollowInv'
<1>1. editCall[c].step = "insert" /\ UNCHANGED <<active, settings, script, engine, renderedTogether>>
  BY DEF InsertTier
<1>2. CASE Refused(c) /\ UNCHANGED <<tier, due>>
  BY <1>1, <1>2, FollowRefused DEF store
<1>3. CASE (Done(c) \/ \E todo : NextTier(c, todo)) /\ due' = TRUE
  <2>1. PICK r : SetCall(c, r) /\ SlotOK(r) /\ r.step # "write"
    BY <1>3, NextIs, IdleIs DEF Done
  <2>2. editCall'[c] = r /\ SlotsOK' /\ \A d \in EditCalls \ {c} : editCall'[d] = editCall[d]
    BY <2>1, SlotIs DEF FollowInv
  <2>3. Writing' \subseteq Writing
    BY <2>1, <2>2 DEF Writing
  <2>4. EngineOK'
    BY <1>1, <1>3 DEF FollowInv, EngineOK
  <2> QED
    BY <1>1, <1>3, <2>2, <2>3, <2>4, FollowsDue
<1> QED
  BY <1>2, <1>3 DEF InsertTier

LEMMA FollowStep ==
  ASSUME FollowInv, NEW c \in EditCalls, EditStep(c)
  PROVE  FollowInv'
<1>1. CASE Upsert(c)
  <2>1. /\ editCall[c].step = "upsert" /\ UNCHANGED <<active, tier, script, engine, due, renderedTogether>>
        /\ \/ Done(c) /\ UNCHANGED settings
           \/ Regenerating(c, editCall[c].then)
    BY <1>1 DEF Upsert, overlaps
  <2>2. EngineOK' /\ SameEngine
    BY <2>1 DEF FollowInv, EngineOK, SameEngine
  <2>3. CASE Done(c) /\ UNCHANGED settings
    <3>1. ~Owes(editCall[c])
      BY <2>1 DEF Owes
    <3> QED
      BY <2>1, <2>2, <2>3, <3>1, IdleIs, FollowsBeside DEF Done, store
  <2>4. CASE Regenerating(c, editCall[c].then)
    <3>1. PICK r : r = [step |-> "generate", then |-> editCall[c].then]
      OBVIOUS
    <3>2. SlotOK(r) /\ r.step = "generate" /\ Owes(r) /\ SetCall(c, r)
      BY <2>4, <3>1 DEF SlotOK, Owes, Regenerating
    <3> QED
      BY <2>1, <2>2, <3>2, FollowsOwing
  <2> QED
    BY <2>1, <2>3, <2>4
<1>2. CASE TakeArms(c)
  <2>1. /\ editCall[c].step = "arm" /\ engine' = Armed(editCall[c].channel, TRUE) /\ SetCall(c, IdleEdit)
        /\ UNCHANGED <<store, script, due, renderedTogether>>
    BY <1>2 DEF TakeArms, Done, overlaps
  <2>2. EngineOK' /\ SameEngine
    BY <2>1, ArmedIs DEF FollowInv
  <2>3. ~Owes(editCall[c])
    BY <2>1 DEF Owes
  <2> QED
    BY <2>1, <2>2, <2>3, IdleIs, FollowsBeside
<1>3. CASE WriteChannel(c)
  <2>1. PICK r : r = [step |-> "generate", then |-> None]
    OBVIOUS
  <2>2. SlotOK(r) /\ r.step = "generate" /\ Owes(r) /\ SetCall(c, r)
    BY <1>3, <2>1 DEF SlotOK, Owes, Regenerating, WriteChannel
  <2>3. EngineOK' /\ UNCHANGED renderedTogether
    BY <1>3 DEF WriteChannel, overlaps, FollowInv, EngineOK
  <2> QED
    BY <2>2, <2>3, FollowsOwing
<1>4. CASE Generate(c) \/ WriteScript(c) \/ Signal(c)
  BY <1>4, FollowGenerate, FollowWrite, FollowSignal
<1>5. CASE CheckGraph(c) \/ InsertTier(c)
  BY <1>5, FollowCheckGraph, FollowInsert
<1>6. CASE ChangeTier(c)
  <2>1. SetCall(c, IdleEdit) /\ due' = TRUE /\ UNCHANGED <<script, engine, renderedTogether>>
    BY <1>6 DEF ChangeTier, Done
  <2>2. editCall'[c] = IdleEdit /\ SlotsOK' /\ \A d \in EditCalls \ {c} : editCall'[d] = editCall[d]
    BY <2>1, IdleIs, SlotIs DEF FollowInv
  <2>3. Writing' \subseteq Writing
    BY <2>2, IdleIs DEF Writing
  <2>4. EngineOK'
    BY <2>1 DEF FollowInv, EngineOK
  <2> QED
    BY <2>1, <2>2, <2>3, <2>4, FollowsDue
<1>7. CASE EnsureConfig(c)
  <2>1. editCall[c].step = "ensure" /\ SlotOK(editCall[c])
    BY <1>7 DEF EnsureConfig, FollowInv, SlotsOK
  <2>2. PICK r : r = [editCall[c] EXCEPT !.step = "tiers"]
    OBVIOUS
  <2>3. SlotOK(r) /\ r.step = "tiers" /\ Owes(r) /\ SetCall(c, r)
    BY <1>7, <2>1, <2>2 DEF SlotOK, Owes, EnsureConfig, Go
  <2>4. EngineOK' /\ UNCHANGED renderedTogether
    BY <1>7 DEF EnsureConfig, overlaps, FollowInv, EngineOK
  <2> QED
    BY <2>3, <2>4, FollowsOwing
<1>8. CASE EnsureTiers(c)
  <2>1. PICK r : SetCall(c, r) /\ SlotOK(r) /\ Owes(r) /\ r.step # "write"
    BY <1>8, NextIs DEF EnsureTiers
  <2>2. EngineOK' /\ UNCHANGED renderedTogether
    BY <1>8 DEF EnsureTiers, overlaps, FollowInv, EngineOK
  <2> QED
    BY <2>1, <2>2, FollowsOwing
<1> QED
  BY <1>1, <1>2, <1>3, <1>4, <1>5, <1>6, <1>7, <1>8 DEF EditStep

LEMMA FollowRequest ==
  ASSUME FollowInv, NEW c \in EditCalls, EditRequest(c)
  PROVE  FollowInv'
<1>1. editCall[c] = IdleEdit
  BY DEF EditRequest
<1>2. ASSUME NEW verb, NEW r, BeginEdit(verb, c, r), SlotOK(r), r.step # "write"
      PROVE  FollowInv'
  <2>1. SetCall(c, r) /\ UNCHANGED <<store, script, engine, due, renderedTogether>>
    BY <1>2 DEF BeginEdit, overlaps
  <2>2. EngineOK' /\ SameEngine
    BY <2>1 DEF FollowInv, EngineOK, SameEngine
  <2> QED
    BY <1>1, <1>2, <2>1, <2>2, IdleIs, FollowsBeside
<1>3. ASSUME NEW ch, SetChannel(c, ch) PROVE FollowInv'
  <2>1. PICK r : r = [step |-> "channel", channel |-> ch]
    OBVIOUS
  <2>2. SlotOK(r) /\ r.step = "channel"
    BY <2>1 DEF SlotOK
  <2> QED
    BY <1>2, <1>3, <2>1, <2>2 DEF SetChannel
<1>4. ASSUME NEW ch, NEW mode, NEW pin, NEW then, NEW verb,
             BeginEdit(verb, c, [step |-> "upsert", channel |-> ch, mode |-> mode, pin |-> pin,
                                 then |-> then])
      PROVE  FollowInv'
  <2>1. PICK r : r = [step |-> "upsert", channel |-> ch, mode |-> mode, pin |-> pin, then |-> then]
    OBVIOUS
  <2>2. SlotOK(r) /\ r.step = "upsert"
    BY <2>1 DEF SlotOK
  <2> QED
    BY <1>2, <1>4, <2>1, <2>2
<1>5. ASSUME NEW ch, NEW new, CreateTier(c, ch, new) PROVE FollowInv'
  <2>1. PICK s : s = IF new.type = "carry" THEN "graph" ELSE "insert"
    OBVIOUS
  <2>2. PICK r : r = [step |-> s, channel |-> ch, new |-> new, old |-> {}, todo |-> <<>>]
    OBVIOUS
  <2>3. SlotOK(r) /\ r.step \in {"graph", "insert"}
    BY <2>1, <2>2 DEF SlotOK
  <2> QED
    BY <1>2, <1>5, <2>1, <2>2, <2>3 DEF CreateTier
<1>6. ASSUME NEW t, NEW new, UpdateTier(c, t, new) PROVE FollowInv'
  <2>1. PICK s : s = IF new.type = "carry" /\ new.source # tier[t].source THEN "graph" ELSE "change"
    OBVIOUS
  <2>2. PICK r : r = [step |-> s, channel |-> tier[t].channel, id |-> t, was |-> tier[t], new |-> new,
                      old |-> {<<tier[t].channel, tier[t].source>>}, todo |-> <<>>]
    OBVIOUS
  <2>3. SlotOK(r) /\ r.step \in {"graph", "change"}
    BY <2>1, <2>2 DEF SlotOK
  <2> QED
    BY <1>2, <1>6, <2>1, <2>2, <2>3 DEF UpdateTier
<1>7. ASSUME NEW ch, TakeQueue(c, ch) PROVE FollowInv'
  <2>1. CASE settings[ch] = None \/ settings[ch].mode = "auto"
    <3>1. PICK r : r = [step |-> "arm", channel |-> ch]
      OBVIOUS
    <3>2. SlotOK(r) /\ r.step = "arm"
      BY <3>1 DEF SlotOK
    <3> QED
      BY <1>2, <1>7, <2>1, <3>1, <3>2 DEF TakeQueue
  <2>2. CASE ~(settings[ch] = None \/ settings[ch].mode = "auto")
    BY <1>4, <1>7, <2>2 DEF TakeQueue
  <2> QED
    BY <2>1, <2>2
<1> QED
  BY <1>3, <1>4, <1>5, <1>6, <1>7 DEF EditRequest, SetMode, SetManualTier

LEMMA FollowRest ==
  ASSUME FollowInv,
         \/ \E t \in TierIds : DeleteTier(t)
         \/ \E c \in EditCalls : Crash(c)
         \/ UNCHANGED editVars
  PROVE  FollowInv'
<1>1. CASE UNCHANGED editVars
  <2>1. UNCHANGED <<store, script, engine, editCall, due, renderedTogether>>
    BY <1>1 DEF editVars, overlaps
  <2>2. Rendered' = Rendered
    BY <2>1, RenderedStays
  <2> QED
    BY <2>1, <2>2 DEF FollowInv, SlotsOK, EngineOK, Writing, Follows
<1>2. ASSUME NEW t \in TierIds, DeleteTier(t) PROVE FollowInv'
  <2>1. due' = TRUE /\ UNCHANGED <<script, engine, editCall, renderedTogether>>
    BY <1>2 DEF DeleteTier, overlaps
  <2>2. EngineOK' /\ SlotsOK' /\ Writing' = Writing
    BY <2>1 DEF FollowInv, EngineOK, SlotsOK, Writing
  <2> QED
    BY <2>1, <2>2, FollowsDue
<1>3. ASSUME NEW c \in EditCalls, Crash(c) PROVE FollowInv'
  <2>1. due' = TRUE /\ UNCHANGED <<script, engine, renderedTogether>>
    BY <1>3 DEF Crash, overlaps
  <2>2. editCall' = [d \in EditCalls |-> IF d = c THEN [step |-> "ensure"] ELSE IdleEdit]
    BY <1>3 DEF Crash
  <2>3. SlotOK([step |-> "ensure"]) /\ [step |-> "ensure"].step = "ensure"
    BY DEF SlotOK
  <2>4. SlotsOK' /\ Writing' = {}
    BY <2>2, <2>3, IdleIs DEF SlotsOK, Writing
  <2>5. EngineOK'
    BY <2>1 DEF FollowInv, EngineOK
  <2> QED
    BY <2>1, <2>4, <2>5, FollowsDue
<1> QED
  BY <1>1, <1>2, <1>3

LEMMA FollowBegins ==
  ASSUME EditInit PROVE FollowInv
<1>1. editCall = [c \in EditCalls |-> IdleEdit]
  BY DEF EditInit
<1>2. SlotsOK /\ Writing = {}
  BY <1>1, IdleIs DEF SlotsOK, Writing
<1>3. EngineOK
  BY DEF EditInit, EngineOK
<1>4. Follows
  BY <1>2 DEF Follows, EditInit
<1> QED
  BY <1>2, <1>3, <1>4 DEF FollowInv

LEMMA FollowHolds == EditSpec => []FollowInv
<1>1. EditInit => FollowInv
  BY FollowBegins
<1>2. FollowInv /\ [EditNext]_editVars => FollowInv'
  BY FollowStep, FollowRequest, FollowRest, FollowEngine DEF EditNext, EditGoesOn
<1> QED
  BY <1>1, <1>2, PTL DEF EditSpec

\* regenerateAndRestart: once no call is under way and the engine is up, it runs what the
\* tables say, unless two calls had rendered the script at the same time, a tier was written
\* or deleted since, or a regeneration did not get through.
THEOREM EngineRunsStore == EditSpec => []EngineFollowsStore
<1>1. FollowInv => EngineFollowsStore
  <2> SUFFICES ASSUME FollowInv, \A c \in EditCalls : editCall[c] = IdleEdit,
                      engine.up, ~due, ~renderedTogether
               PROVE  engine.script = Rendered
    BY DEF EngineFollowsStore
  <2> QED
    BY IdleIs DEF FollowInv, Follows, Writing
<1> QED
  BY <1>1, FollowHolds, PTL

-----------------------------------------------------------------------------
(* Numbers *)

\* A set that has 0 and the next of each number has them all.
LEMMA Reaches ==
  ASSUME NEW X, 0 \in X, \A k \in Nat : k \in X => k + 1 \in X
  PROVE  Nat \subseteq X
<1> DEFINE R == OpToRel(<, Nat)
           T == Nat \ X
<1> SUFFICES ASSUME T # {} PROVE FALSE
  OBVIOUS
<1>1. \A x, y \in Nat : x < y => <<x, y>> \in R
  BY DEF OpToRel
<1>2. IsWellFoundedOn(R, Nat)
  BY NatLessThanWellFounded
<1>3. T \in SUBSET Nat
  OBVIOUS
<1> HIDE DEF R
<1>4. PICK m \in T : \A k \in T : ~(<<k, m>> \in R)
  BY <1>2, <1>3, WFMin
<1>5. m # 0 /\ m - 1 \in Nat /\ m - 1 < m
  BY <1>4
<1>6. m - 1 \in X
  BY <1>1, <1>4, <1>5
<1>7. (m - 1) + 1 \in X
  BY <1>5, <1>6
<1> QED
  BY <1>4, <1>7

-----------------------------------------------------------------------------
(* The carry graph *)

\* The walk for n steps: the channels from which it can be made.
IsWalk(f, n, edges) ==
    f = [k \in 0..n |-> IF k = 0 THEN Channels
                        ELSE {c \in Channels : Sources(c, edges) \cap f[k - 1] # {}}]

LEMMA WalkExists ==
  ASSUME NEW edges, NEW n \in Nat
  PROVE  \E f : IsWalk(f, n, edges)
<1> DEFINE X == {m \in Nat : \E f : IsWalk(f, m, edges)}
<1>1. 0 \in X
  <2>1. PICK f : f = [k \in 0..0 |-> Channels]
    OBVIOUS
  <2>2. IsWalk(f, 0, edges)
    BY <2>1 DEF IsWalk
  <2> QED
    BY <2>2
<1>2. ASSUME NEW m \in Nat, m \in X
      PROVE  m + 1 \in X
  <2>1. PICK f : IsWalk(f, m, edges)
    BY <1>2
  <2>2. PICK g : g = [k \in 0..(m + 1) |-> IF k = m + 1 THEN {c \in Channels : Sources(c, edges) \cap f[m] # {}}
                                           ELSE f[k]]
    OBVIOUS
  <2>3. \A k \in 0..m : g[k] = f[k] /\ k \in 0..(m + 1)
    BY <2>2
  <2>4. ASSUME NEW k \in 0..(m + 1), k # 0
        PROVE  g[k] = {c \in Channels : Sources(c, edges) \cap g[k - 1] # {}}
    <3>1. k - 1 \in 0..m /\ g[k - 1] = f[k - 1]
      BY <2>3, <2>4
    <3>2. CASE k = m + 1
      <4>1. k - 1 = m
        BY <3>2
      <4>2. g[k] = {c \in Channels : Sources(c, edges) \cap f[m] # {}}
        BY <2>2, <3>2
      <4> QED
        BY <3>1, <4>1, <4>2
    <3>3. CASE k # m + 1
      <4>1. k \in 0..m /\ g[k] = f[k]
        BY <2>3, <3>3
      <4>2. f[k] = {c \in Channels : Sources(c, edges) \cap f[k - 1] # {}}
        BY <2>1, <2>4, <4>1 DEF IsWalk
      <4> QED
        BY <3>1, <4>1, <4>2
    <3> QED
      BY <3>2, <3>3
  <2>5. g[0] = Channels
    <3>1. 0 \in 0..m /\ f[0] = Channels
      BY <2>1 DEF IsWalk
    <3> QED
      BY <2>3, <3>1
  <2>6. IsWalk(g, m + 1, edges)
    <3>1. g = [k \in 0..(m + 1) |-> g[k]]
      BY <2>2
    <3>2. \A k \in 0..(m + 1) :
             g[k] = IF k = 0 THEN Channels
                    ELSE {c \in Channels : Sources(c, edges) \cap g[k - 1] # {}}
      BY <2>4, <2>5
    <3> QED
      BY <3>1, <3>2 DEF IsWalk
  <2> QED
    BY <2>6
<1>3. Nat \subseteq X
  <2> HIDE DEF X
  <2> QED
    BY <1>1, <1>2, Reaches
<1> QED
  BY <1>3

\* A set of channels that each carry one of them can be walked in for ever.
LEMMA WalkGoesOn ==
  ASSUME NEW edges, NEW n \in Nat, NEW f, IsWalk(f, n, edges),
         NEW S \in SUBSET Channels, \A c \in S : Sources(c, edges) \cap S # {}
  PROVE  S \subseteq f[n]
<1> DEFINE X == {m \in Nat : m \in 0..n => S \subseteq f[m]}
<1>1. 0 \in X
  BY DEF IsWalk
<1>2. ASSUME NEW m \in Nat, m \in X
      PROVE  m + 1 \in X
  <2> SUFFICES ASSUME m + 1 \in 0..n, NEW c \in S PROVE c \in f[m + 1]
    OBVIOUS
  <2>1. S \subseteq f[m]
    BY <1>2
  <2>2. f[m + 1] = {d \in Channels : Sources(d, edges) \cap f[m] # {}}
    <3>1. m + 1 # 0 /\ (m + 1) - 1 = m
      OBVIOUS
    <3>2. \A k \in 0..n : k # 0 => f[k] = {d \in Channels : Sources(d, edges) \cap f[k - 1] # {}}
      BY DEF IsWalk
    <3>3. f[m + 1] = {d \in Channels : Sources(d, edges) \cap f[(m + 1) - 1] # {}}
      BY <3>1, <3>2
    <3> QED
      BY <3>1, <3>3
  <2> QED
    BY <2>1, <2>2
<1>3. Nat \subseteq X
  <2> HIDE DEF X
  <2> QED
    BY <1>1, <1>2, Reaches
<1> QED
  BY <1>3

\* No set of channels carries itself around.
Acyclic(edges) ==
    \A S \in (SUBSET Channels) \ {{}} : \E c \in S : Sources(c, edges) \cap S = {}

\* detectChannelSourceCycles finds every cycle.
LEMMA CyclesFound ==
  ASSUME EditAssumption, NEW edges, ~HasCycle(edges)
  PROVE  Acyclic(edges)
<1>1. IsFiniteSet(Channels)
  BY FS_AddElement DEF EditAssumption, Channels
<1>2. Cardinality(Channels) \in Nat
  BY <1>1, FS_CardinalityType
<1>3. PICK n \in Nat : n = Cardinality(Channels)
  BY <1>2
<1>4. PICK f : /\ f = CHOOSE g : IsWalk(g, n, edges)
               /\ f[n] = {}
  BY <1>3 DEF HasCycle, IsWalk
<1>5. IsWalk(f, n, edges)
  BY <1>4, WalkExists
<1> SUFFICES ASSUME NEW S \in SUBSET Channels, \A c \in S : Sources(c, edges) \cap S # {}
             PROVE  S = {}
  BY DEF Acyclic
<1>6. S \subseteq f[n]
  BY <1>5, WalkGoesOn
<1> QED
  BY <1>4, <1>6

LEMMA FewerEdges ==
  ASSUME NEW edges, NEW fewer, fewer \subseteq edges, Acyclic(edges)
  PROVE  Acyclic(fewer)
BY DEF Acyclic, Sources

\* A channel carries another one instead: the check leaves out every edge like the old
\* one, those of other tiers included, and yet none that stays closes a cycle with the new.
LEMMA EdgeMoves ==
  ASSUME NEW edges, Acyclic(edges), NEW a, NEW s, NEW t,
         Acyclic((edges \ {<<a, s>>}) \cup {<<a, t>>})
  PROVE  Acyclic(edges \cup {<<a, t>>})
<1> SUFFICES ASSUME NEW S \in SUBSET Channels, S # {},
                    \A c \in S : Sources(c, edges \cup {<<a, t>>}) \cap S # {}
             PROVE  FALSE
  BY DEF Acyclic
<1>1. CASE a \in S /\ t \in S
  <2>1. PICK c \in S : Sources(c, (edges \ {<<a, s>>}) \cup {<<a, t>>}) \cap S = {}
    BY DEF Acyclic
  <2>2. c # a
    BY <1>1, <2>1 DEF Sources
  <2>3. PICK d \in S : d \in Channels /\ <<c, d>> \in edges \cup {<<a, t>>}
    BY DEF Sources
  <2> QED
    BY <2>1, <2>2, <2>3 DEF Sources
<1>2. CASE ~(a \in S /\ t \in S)
  <2>1. PICK c \in S : Sources(c, edges) \cap S = {}
    BY DEF Acyclic
  <2>2. PICK d \in S : d \in Channels /\ <<c, d>> \in edges \cup {<<a, t>>}
    BY DEF Sources
  <2> QED
    BY <1>2, <2>1, <2>2 DEF Sources
<1> QED
  BY <1>1, <1>2

-----------------------------------------------------------------------------
(* The tiers *)

TierRecords ==
    [channel : Channels, type : {"live", "queue"}, source : {None}, priority : Nat,
     enabled : BOOLEAN]
    \cup [channel : Channels, type : {"carry"}, source : Channels, priority : Nat,
          enabled : BOOLEAN]

\* The default tiers of the broadcast channel, as ensureBroadcastEditorialConfig lists them.
DefaultTiers == {[type |-> "live", priority |-> 0, source |-> None],
                 [type |-> "queue", priority |-> 1, source |-> None],
                 [type |-> "carry", priority |-> 2, source |-> Default]}
TiersToCreate == NewTiers \cup DefaultTiers

\* A call that creates a tier, up to its INSERT: it fits what is there, and once the graph
\* is checked it closes no cycle.
Creating(r) ==
    /\ DOMAIN r = {"step", "channel", "new", "old", "todo"}
    /\ r.old = {}
    /\ r.channel \in Channels /\ r.new \in TiersToCreate
    /\ r.todo \in Seq(DefaultTiers)
    /\ Fits(r.channel, r.new.type, TypesOf(TiersOf(r.channel)))
    /\ r.step = "insert" /\ r.new.type = "carry" =>
          Acyclic(CarryEdges \cup {<<r.channel, r.new.source>>})

\* A call that changes one: the tier is as it was, or gone.
Updating(r) ==
    /\ DOMAIN r = {"step", "channel", "id", "was", "new", "old", "todo"}
    /\ r.id \in TierIds /\ r.was \in TierRecords /\ r.new \in NewForms
    /\ r.channel = r.was.channel /\ r.old = {<<r.was.channel, r.was.source>>}
    /\ tier[r.id] = r.was \/ r.id \notin Exists
    /\ r.new.type # r.was.type =>
          Fits(r.channel, r.new.type, TypesOf(TiersOf(r.channel) \ {r.id}))
    /\ r.step = "change" /\ r.new.type = "carry" /\ r.new.source # r.was.source =>
          Acyclic((CarryEdges \ r.old) \cup {<<r.channel, r.new.source>>})

ValidOK(r) ==
    /\ r.step = "insert" => Creating(r)
    /\ r.step = "change" => Updating(r)
    /\ r.step = "graph" => Creating(r) \/ Updating(r)

TierTypes == \A t \in Exists : tier[t] \in TierRecords

Alone(c) == ~({"live", "carry"} \subseteq TypesOf(TiersOf(c)))

TiersInv ==
    /\ editCall = [c \in EditCalls |-> editCall[c]]
    /\ tier = [t \in TierIds |-> tier[t]]
    /\ ~validatedTogether =>
        /\ TierTypes
        /\ Acyclic(CarryEdges)
        /\ \A c \in Playouts : Alone(c)
        /\ \A c \in EditCalls : ValidOK(editCall[c])

\* The graph is read off the tiers, and shrinks with them.
LEMMA TiersShrink ==
  ASSUME \A t \in Exists' : t \in Exists /\ tier'[t] = tier[t]
  PROVE  /\ CarryEdges' \subseteq CarryEdges
         /\ \A c : TiersOf(c)' \subseteq TiersOf(c)
         /\ \A c, id : TypesOf(TiersOf(c) \ {id})' \subseteq TypesOf(TiersOf(c) \ {id})
         /\ \A c : TypesOf(TiersOf(c))' \subseteq TypesOf(TiersOf(c))
<1>1. \A c : TiersOf(c)' \subseteq TiersOf(c)
  BY DEF TiersOf
<1>2. \A c : \A t \in TiersOf(c)' : t \in TiersOf(c) /\ tier'[t] = tier[t]
  BY <1>1 DEF TiersOf
<1>3. \A c : TypesOf(TiersOf(c))' \subseteq TypesOf(TiersOf(c))
  BY <1>2 DEF TypesOf
<1>4. \A c, id : TypesOf(TiersOf(c) \ {id})' \subseteq TypesOf(TiersOf(c) \ {id})
  BY <1>2 DEF TypesOf
<1>5. \A t \in CarryTiers' : t \in CarryTiers /\ tier'[t] = tier[t]
  BY DEF CarryTiers
<1>6. CarryEdges' \subseteq CarryEdges
  BY <1>5 DEF CarryEdges, Edge
<1> QED
  BY <1>1, <1>3, <1>4, <1>6

LEMMA FitsFewer ==
  ASSUME NEW ch, NEW type, NEW more, NEW fewer, fewer \subseteq more, Fits(ch, type, more)
  PROVE  Fits(ch, type, fewer)
BY DEF Fits

\* A call that holds to what is there holds to less.
LEMMA ValidFewer ==
  ASSUME NEW r, ValidOK(r), \A t \in Exists' : t \in Exists /\ tier'[t] = tier[t],
         Exists \subseteq TierIds
  PROVE  ValidOK(r)'
<1>1. /\ CarryEdges' \subseteq CarryEdges
      /\ \A c, id : TypesOf(TiersOf(c) \ {id})' \subseteq TypesOf(TiersOf(c) \ {id})
      /\ \A c : TypesOf(TiersOf(c))' \subseteq TypesOf(TiersOf(c))
  BY TiersShrink
<1>2. ASSUME Creating(r) PROVE Creating(r)'
  <2>1. Fits(r.channel, r.new.type, TypesOf(TiersOf(r.channel)))'
    <3>1. PICK more, fewer : more = TypesOf(TiersOf(r.channel)) /\ fewer = TypesOf(TiersOf(r.channel))'
      OBVIOUS
    <3>2. Fits(r.channel, r.new.type, fewer)
      BY <1>1, <1>2, <3>1, FitsFewer DEF Creating
    <3> QED
      BY <3>1, <3>2 DEF Fits
  <2>2. r.step = "insert" /\ r.new.type = "carry" =>
          Acyclic(CarryEdges \cup {<<r.channel, r.new.source>>})'
    <3>1. PICK more, fewer : /\ more = CarryEdges \cup {<<r.channel, r.new.source>>}
                            /\ fewer = (CarryEdges \cup {<<r.channel, r.new.source>>})'
      OBVIOUS
    <3>2. fewer \subseteq more
      BY <1>1, <3>1
    <3>3. Acyclic(more) => Acyclic(fewer)
      BY <3>2, FewerEdges
    <3> QED
      BY <1>2, <3>1, <3>3 DEF Creating, Acyclic, Sources
  <2> QED
    BY <1>2, <2>1, <2>2 DEF Creating
<1>3. ASSUME Updating(r) PROVE Updating(r)'
  <2>1. r.new.type # r.was.type =>
           Fits(r.channel, r.new.type, TypesOf(TiersOf(r.channel) \ {r.id}))'
    <3>1. PICK more, fewer : /\ more = TypesOf(TiersOf(r.channel) \ {r.id})
                            /\ fewer = TypesOf(TiersOf(r.channel) \ {r.id})'
      OBVIOUS
    <3>2. fewer \subseteq more
      BY <1>1, <3>1
    <3>3. r.new.type # r.was.type => Fits(r.channel, r.new.type, fewer)
      BY <1>3, <3>1, <3>2, FitsFewer DEF Updating
    <3> QED
      BY <3>1, <3>3 DEF Fits
  <2>2. r.step = "change" /\ r.new.type = "carry" /\ r.new.source # r.was.source =>
          Acyclic((CarryEdges \ r.old) \cup {<<r.channel, r.new.source>>})'
    <3>1. PICK more, fewer : /\ more = (CarryEdges \ r.old) \cup {<<r.channel, r.new.source>>}
                            /\ fewer = ((CarryEdges \ r.old) \cup {<<r.channel, r.new.source>>})'
      OBVIOUS
    <3>2. fewer \subseteq more
      BY <1>1, <3>1
    <3>3. Acyclic(more) => Acyclic(fewer)
      BY <3>2, FewerEdges
    <3> QED
      BY <1>3, <3>1, <3>3 DEF Updating, Acyclic, Sources
  <2>3. tier'[r.id] = r.was \/ r.id \notin Exists'
    BY <1>3 DEF Updating
  <2> QED
    BY <1>3, <2>1, <2>2, <2>3 DEF Updating
<1> QED
  BY <1>2, <1>3 DEF ValidOK

\* A call in its slot.
LEMMA CallIs ==
  ASSUME editCall = [c \in EditCalls |-> editCall[c]], NEW c \in EditCalls, NEW r, SetCall(c, r)
  PROVE  /\ editCall' = [d \in EditCalls |-> editCall'[d]] /\ editCall'[c] = r
         /\ \A d \in EditCalls \ {c} : editCall'[d] = editCall[d]
BY DEF SetCall

\* Of the tiers nothing is new, and of the calls at most one.
LEMMA TiersBeside ==
  ASSUME TiersInv, tier' = [t \in TierIds |-> tier'[t]],
         \A t \in Exists' : t \in Exists /\ tier'[t] = tier[t],
         editCall' = [d \in EditCalls |-> editCall'[d]],
         \A d \in EditCalls : \/ editCall'[d] = editCall[d]
                              \/ ~validatedTogether => ValidOK(editCall'[d]),
         UNCHANGED validatedTogether
  PROVE  TiersInv'
<1> SUFFICES ASSUME ~validatedTogether'
             PROVE  /\ TierTypes' /\ Acyclic(CarryEdges)' /\ (\A c \in Playouts : Alone(c))'
                    /\ (\A c \in EditCalls : ValidOK(editCall[c]))'
  BY DEF TiersInv
<1>1. /\ ~validatedTogether
      /\ TierTypes /\ Acyclic(CarryEdges) /\ \A c \in Playouts : Alone(c)
      /\ \A c \in EditCalls : ValidOK(editCall[c])
  BY DEF TiersInv
<1>2. TierTypes'
  BY <1>1 DEF TierTypes
<1>3. /\ CarryEdges' \subseteq CarryEdges
      /\ \A c : TypesOf(TiersOf(c))' \subseteq TypesOf(TiersOf(c))
  BY TiersShrink
<1>4. Acyclic(CarryEdges)'
  <2>1. PICK more, fewer : more = CarryEdges /\ fewer = CarryEdges'
    OBVIOUS
  <2>2. Acyclic(fewer)
    BY <1>1, <1>3, <2>1, FewerEdges
  <2> QED
    BY <2>1, <2>2 DEF Acyclic, Sources
<1>5. ASSUME NEW c \in Playouts PROVE Alone(c)'
  BY <1>1, <1>3 DEF Alone
<1>6. Exists \subseteq TierIds
  BY DEF Exists
<1>7. ASSUME NEW c \in EditCalls PROVE ValidOK(editCall[c])'
  <2>1. PICK r : r = editCall'[c]
    OBVIOUS
  <2>2. ValidOK(r)
    BY <1>1, <2>1
  <2>3. ValidOK(r)'
    BY <1>6, <2>2, ValidFewer
  <2> QED
    BY <2>1, <2>3
<1> QED
  BY <1>2, <1>4, <1>5, <1>7

\* A call goes on that is not about a tier, or is about one and holds.
LEMMA TiersCall ==
  ASSUME TiersInv, NEW c \in EditCalls, NEW r, SetCall(c, r),
         ~validatedTogether => ValidOK(r), UNCHANGED <<tier, validatedTogether>>
  PROVE  TiersInv'
<1>1. /\ editCall' = [d \in EditCalls |-> editCall'[d]] /\ editCall'[c] = r
      /\ \A d \in EditCalls \ {c} : editCall'[d] = editCall[d]
  BY CallIs DEF TiersInv
<1>2. tier' = [t \in TierIds |-> tier'[t]] /\ \A t \in Exists' : t \in Exists /\ tier'[t] = tier[t]
  BY DEF TiersInv, Exists
<1> QED
  BY <1>1, <1>2, TiersBeside

\* The INSERT: whoever else validates makes it a race, and it fits what is there.
LEMMA TiersInsert ==
  ASSUME TiersInv, NEW c \in EditCalls, InsertTier(c)
  PROVE  TiersInv'
<1> DEFINE r == editCall[c]
<1>1. r.step = "insert" /\ c \in Validating
  BY DEF InsertTier, Validating
<1>2. ~validatedTogether => Creating(r)
  BY <1>1 DEF TiersInv, ValidOK
<1>3. CASE Refused(c) /\ UNCHANGED <<tier, validatedTogether>>
  <2>1. PICK s : SetCall(c, s) /\ s.step \in {"idle", "generate"}
    BY <1>3 DEF Refused, Done, IdleEdit
  <2>2. ValidOK(s)
    BY <2>1 DEF ValidOK
  <2> QED
    BY <1>3, <2>1, <2>2, TiersCall
<1>4. ASSUME Unused # {}, Race(c),
             tier' = [tier EXCEPT ![CHOOSE t \in Unused : TRUE] =
                        [channel |-> r.channel, type |-> r.new.type, enabled |-> TRUE,
                         source |-> r.new.source, priority |-> r.new.priority]],
             IF r.todo = <<>> THEN Done(c) ELSE NextTier(c, Tail(r.todo))
      PROVE  TiersInv'
  <2>1. PICK t \in Unused : t = CHOOSE u \in Unused : TRUE
    BY <1>4
  <2>2. PICK new : new = [channel |-> r.channel, type |-> r.new.type, enabled |-> TRUE,
                          source |-> r.new.source, priority |-> r.new.priority]
    OBVIOUS
  <2>3. t \in TierIds /\ tier' = [tier EXCEPT ![t] = new] /\ tier' = [u \in TierIds |-> tier'[u]]
    BY <1>4, <2>1, <2>2 DEF Unused, TiersInv
  <2>4. tier'[t] = new /\ \A u \in TierIds \ {t} : tier'[u] = tier[u]
    BY <2>3 DEF TiersInv
  <2>5. PICK s : SetCall(c, s) /\ (~validatedTogether => ValidOK(s)')
    <3>1. CASE r.todo = <<>>
      <4>1. SetCall(c, IdleEdit) /\ IdleEdit.step = "idle"
        BY <1>4, <3>1 DEF Done, IdleEdit
      <4> QED
        BY <4>1 DEF ValidOK
    <3>2. CASE r.todo # <<>> /\ Tail(r.todo) = <<>>
      <4>1. PICK s : s = [step |-> "generate", then |-> "boot"]
        OBVIOUS
      <4>2. SetCall(c, s) /\ s.step = "generate"
        BY <1>4, <3>2, <4>1 DEF NextTier
      <4> QED
        BY <4>2 DEF ValidOK
    <3>3. CASE r.todo # <<>> /\ Tail(r.todo) # <<>>
      <4>1. PICK todo : todo = Tail(r.todo)
        OBVIOUS
      <4>2. PICK g : g = IF Head(todo).type = "carry" THEN "graph" ELSE "insert"
        OBVIOUS
      <4>3. PICK s : s = [step |-> g, channel |-> Broadcast, new |-> Head(todo), old |-> {},
                          todo |-> todo]
        OBVIOUS
      <4>4. SetCall(c, s)
        BY <1>4, <3>3, <4>1, <4>2, <4>3 DEF NextTier
      <4>5. ASSUME ~validatedTogether PROVE Creating(s)'
        <5>1. todo \in Seq(DefaultTiers) /\ todo # <<>>
          BY <1>2, <3>3, <4>1, <4>5 DEF Creating
        <5>2. Head(todo) \in DefaultTiers
          BY <5>1
        <5>3. Broadcast \in Channels /\ Fits(s.channel, s.new.type, TypesOf(TiersOf(s.channel)))'
          BY <4>3 DEF Fits, Channels
        <5>4. s.step = "insert" => s.new.type # "carry"
          BY <4>2, <4>3
        <5> QED
          BY <4>3, <5>1, <5>2, <5>3, <5>4 DEF Creating, TiersToCreate
      <4>6. s.step \in {"insert", "graph"}
        BY <4>2, <4>3
      <4> QED
        BY <4>4, <4>5, <4>6 DEF ValidOK
    <3> QED
      BY <3>1, <3>2, <3>3
  <2>6. /\ editCall' = [d \in EditCalls |-> editCall'[d]] /\ editCall'[c] = s
        /\ \A d \in EditCalls \ {c} : editCall'[d] = editCall[d]
    BY <2>5, CallIs DEF TiersInv
  <2>7. ASSUME ~validatedTogether'
        PROVE  /\ TierTypes' /\ Acyclic(CarryEdges)' /\ (\A d \in Playouts : Alone(d))'
               /\ (\A d \in EditCalls : ValidOK(editCall[d]))'
    <3>1. ~validatedTogether /\ Validating = {c}
      BY <1>4, <2>7 DEF Race
    <3>2. /\ TierTypes /\ Acyclic(CarryEdges) /\ \A d \in Playouts : Alone(d)
          /\ Creating(r)
      BY <1>2, <3>1 DEF TiersInv
    <3>3. new \in TierRecords /\ new.channel = r.channel /\ new.type = r.new.type
          /\ new.source = r.new.source
      <4>1. r.channel \in Channels /\ r.new \in TiersToCreate
        BY <3>2 DEF Creating
      <4>2. PICK n : n = r.new
        OBVIOUS
      <4>3. /\ n.priority \in Nat
            /\ \/ n.type \in {"live", "queue"} /\ n.source = None
               \/ n.type = "carry" /\ n.source \in Channels
        BY <4>1, <4>2, EditAssumption DEF TiersToCreate, NewTiers, DefaultTiers, EditAssumption, Channels
      <4> QED
        BY <2>2, <4>1, <4>2, <4>3 DEF TierRecords
    <3>4. TierTypes'
      BY <2>3, <2>4, <3>2, <3>3 DEF TierTypes, Exists
    <3>5. Acyclic(CarryEdges)'
      <4>1. PICK more, fewer : more = CarryEdges \cup (IF new.type = "carry"
                                                       THEN {<<new.channel, new.source>>} ELSE {})
                               /\ fewer = CarryEdges'
        OBVIOUS
      <4>2. fewer \subseteq more
        BY <2>3, <2>4, <4>1 DEF CarryEdges, CarryTiers, Exists, Edge
      <4>3. Acyclic(more)
        BY <1>1, <3>2, <3>3, <4>1 DEF Creating
      <4>4. Acyclic(fewer)
        BY <4>2, <4>3, FewerEdges
      <4> QED
        BY <4>1, <4>4 DEF Acyclic, Sources
    <3>6. ASSUME NEW d \in Playouts PROVE Alone(d)'
      <4>1. TiersOf(d)' \subseteq TiersOf(d) \cup {t}
        BY <2>3, <2>4 DEF TiersOf, Exists
      <4>2. d # r.channel => TiersOf(d)' \subseteq TiersOf(d) \ {t}
        BY <2>3, <2>4, <3>3 DEF TiersOf, Exists
      <4>3. \A u \in TiersOf(d) \ {t} : tier'[u] = tier[u]
        BY <2>4 DEF TiersOf, Exists
      <4>4. d # r.channel => TypesOf(TiersOf(d))' \subseteq TypesOf(TiersOf(d))
        BY <4>2, <4>3 DEF TypesOf
      <4>5. TypesOf(TiersOf(d))' \subseteq TypesOf(TiersOf(d)) \cup {r.new.type}
        BY <2>4, <3>3, <4>1, <4>3 DEF TypesOf
      <4>6. d # Broadcast
        BY EditAssumption DEF EditAssumption
      <4>7. d = r.channel => Fits(d, r.new.type, TypesOf(TiersOf(d)))
        BY <3>2 DEF Creating
      <4> QED
        BY <3>2, <4>4, <4>5, <4>6, <4>7 DEF Alone, Fits
    <3>7. ASSUME NEW d \in EditCalls PROVE ValidOK(editCall[d])'
      <4>1. CASE d = c
        BY <2>5, <2>6, <3>1, <4>1
      <4>2. CASE d # c
        <5>1. editCall'[d] = editCall[d] /\ editCall[d].step \notin {"graph", "insert", "change"}
          BY <2>6, <3>1, <4>2 DEF Validating
        <5> QED
          BY <5>1 DEF ValidOK
      <4> QED
        BY <4>1, <4>2
    <3> QED
      BY <3>4, <3>5, <3>6, <3>7
  <2> QED
    BY <2>3, <2>6, <2>7 DEF TiersInv
<1> QED
  BY <1>3, <1>4 DEF InsertTier

\* The UPDATE: the tier it reads is the one it writes, and the graph it checked still holds.
LEMMA TiersChange ==
  ASSUME TiersInv, NEW c \in EditCalls, ChangeTier(c)
  PROVE  TiersInv'
<1>1. PICK r : r = editCall[c]
  OBVIOUS
<1>2. /\ r.step = "change" /\ c \in Validating /\ SetCall(c, IdleEdit) /\ Race(c)
      /\ tier' = IF r.id \notin Exists THEN tier
                 ELSE [tier EXCEPT ![r.id] = [f \in DOMAIN @ |->
                          IF f \in DOMAIN r.new /\ r.new[f] # r.was[f] THEN r.new[f] ELSE @[f]]]
  BY <1>1 DEF ChangeTier, Validating, Done
<1>3. /\ editCall' = [d \in EditCalls |-> editCall'[d]] /\ editCall'[c] = IdleEdit
      /\ \A d \in EditCalls \ {c} : editCall'[d] = editCall[d]
  BY <1>2, CallIs DEF TiersInv
<1>4. tier' = [t \in TierIds |-> tier'[t]]
  BY <1>2 DEF TiersInv
<1>5. ASSUME ~validatedTogether'
      PROVE  /\ TierTypes' /\ Acyclic(CarryEdges)' /\ (\A d \in Playouts : Alone(d))'
             /\ (\A d \in EditCalls : ValidOK(editCall[d]))'
  <2>1. ~validatedTogether /\ Validating = {c}
    BY <1>2, <1>5 DEF Race
  <2>2. /\ TierTypes /\ Acyclic(CarryEdges) /\ \A d \in Playouts : Alone(d)
        /\ Updating(r)
    BY <1>1, <1>2, <2>1 DEF TiersInv, ValidOK
  <2>3. ASSUME NEW d \in EditCalls PROVE ValidOK(editCall[d])'
    <3>1. editCall'[d].step \notin {"graph", "insert", "change"}
      BY <1>3, <2>1 DEF Validating, IdleEdit
    <3> QED
      BY <3>1 DEF ValidOK
  <2>4. CASE r.id \notin Exists
    <3>1. tier' = tier
      BY <1>2, <2>4
    <3> QED
      BY <2>2, <2>3, <3>1 DEF TierTypes, Exists, Acyclic, CarryEdges, CarryTiers, Edge, Sources,
                              Alone, TypesOf, TiersOf
  <2>5. CASE r.id \in Exists
    <3>1. PICK t, was : t = r.id /\ was = r.was
      OBVIOUS
    <3>2. t \in TierIds /\ t \in Exists /\ tier[t] = was /\ was \in TierRecords
      BY <2>2, <2>5, <3>1 DEF Updating
    <3>3. PICK new : new = [f \in DOMAIN was |->
                              IF f \in DOMAIN r.new /\ r.new[f] # r.was[f] THEN r.new[f] ELSE was[f]]
      OBVIOUS
    <3>4. tier' = [tier EXCEPT ![t] = new]
      BY <1>2, <2>5, <3>1, <3>2, <3>3
    <3>5. tier'[t] = new /\ \A u \in TierIds \ {t} : tier'[u] = tier[u]
      BY <3>2, <3>4 DEF TiersInv
    <3>6. /\ r.new \in NewForms /\ DOMAIN r.new = {"type", "source", "enabled"}
          /\ r.new.enabled \in BOOLEAN
          /\ \/ r.new.type \in {"live", "queue"} /\ r.new.source = None
             \/ r.new.type = "carry" /\ r.new.source \in Channels
      <4>1. PICK n : n = r.new
        OBVIOUS
      <4>2. n \in NewForms
        BY <2>2, <4>1 DEF Updating
      <4> QED
        BY <4>1, <4>2 DEF NewForms
    <3>7. /\ DOMAIN was = {"channel", "type", "source", "priority", "enabled"}
          /\ was.channel \in Channels /\ was.priority \in Nat /\ was.enabled \in BOOLEAN
          /\ \/ was.type \in {"live", "queue"} /\ was.source = None
             \/ was.type = "carry" /\ was.source \in Channels
      BY <3>2 DEF TierRecords
    <3>8. new = [channel |-> was.channel, type |-> r.new.type, source |-> r.new.source,
                 priority |-> was.priority, enabled |-> r.new.enabled]
      BY <3>1, <3>3, <3>6, <3>7
    <3>9. new \in TierRecords
      BY <3>6, <3>7, <3>8 DEF TierRecords
    <3>10. new.channel = r.channel /\ new.type = r.new.type /\ new.source = r.new.source
      BY <2>2, <3>1, <3>8 DEF Updating
    <3>11. TierTypes'
      BY <2>2, <3>2, <3>5, <3>9 DEF TierTypes, Exists
    <3>12. Acyclic(CarryEdges)'
      <4>1. PICK more, fewer : more = CarryEdges \cup (IF new.type = "carry"
                                                       THEN {<<new.channel, new.source>>} ELSE {})
                               /\ fewer = CarryEdges'
        OBVIOUS
      <4>2. fewer \subseteq more
        BY <3>2, <3>5, <4>1 DEF CarryEdges, CarryTiers, Exists, Edge
      <4>3. Acyclic(more)
        <5>1. CASE new.type # "carry"
          BY <2>2, <4>1, <5>1
        <5>2. CASE new.type = "carry" /\ r.new.source # was.source
          <6>1. PICK E, a, s : E = CarryEdges /\ a = r.channel /\ s = was.source
            OBVIOUS
          <6>2. Acyclic((E \ {<<a, s>>}) \cup {<<a, r.new.source>>})
            BY <1>2, <2>2, <3>1, <3>10, <5>2, <6>1 DEF Updating
          <6>3. Acyclic(E \cup {<<a, r.new.source>>})
            BY <2>2, <6>1, <6>2, EdgeMoves
          <6> QED
            BY <3>10, <4>1, <5>2, <6>1, <6>3
        <5>3. CASE new.type = "carry" /\ r.new.source = was.source
          <6>1. None \notin Channels
            BY EditAssumption DEF EditAssumption, Channels
          <6>2. was.type = "carry"
            BY <3>6, <3>7, <3>10, <5>3, <6>1
          <6>3. t \in CarryTiers /\ Edge(t) = <<was.channel, was.source>>
            BY <3>2, <6>2 DEF CarryTiers, Edge
          <6>4. <<new.channel, new.source>> \in CarryEdges
            BY <3>8, <3>10, <5>3, <6>3 DEF CarryEdges
          <6> QED
            BY <2>2, <4>1, <5>3, <6>4, FewerEdges
        <5> QED
          BY <5>1, <5>2, <5>3
      <4>4. Acyclic(fewer)
        BY <4>2, <4>3, FewerEdges
      <4> QED
        BY <4>1, <4>4 DEF Acyclic, Sources
    <3>13. ASSUME NEW d \in Playouts PROVE Alone(d)'
      <4>1. TiersOf(d)' \subseteq TiersOf(d) /\ (t \in TiersOf(d) => d = r.channel)
        <5>1. t \in TiersOf(d) <=> d = was.channel
          BY <3>2 DEF TiersOf
        <5>2. t \in TiersOf(d)' => d = was.channel
          BY <3>5, <3>8 DEF TiersOf
        <5>3. \A u \in TiersOf(d)' : u # t => u \in TiersOf(d)
          BY <3>5 DEF TiersOf, Exists
        <5> QED
          BY <3>8, <3>10, <5>1, <5>2, <5>3
      <4>2. \A u \in TiersOf(d) \ {t} : tier'[u] = tier[u]
        BY <3>5 DEF TiersOf, Exists
      <4>3. t \notin TiersOf(d) => TypesOf(TiersOf(d))' \subseteq TypesOf(TiersOf(d))
        BY <4>1, <4>2 DEF TypesOf
      <4>4. TypesOf(TiersOf(d))' \subseteq TypesOf(TiersOf(d) \ {t}) \cup {r.new.type}
        BY <3>5, <3>10, <4>1, <4>2 DEF TypesOf
      <4>5. TypesOf(TiersOf(d) \ {t}) \subseteq TypesOf(TiersOf(d))
        BY DEF TypesOf
      <4>6. t \in TiersOf(d) /\ r.new.type = was.type => r.new.type \in TypesOf(TiersOf(d))
        BY <3>2 DEF TypesOf
      <4>7. d # Broadcast
        BY EditAssumption DEF EditAssumption
      <4>8. t \in TiersOf(d) /\ r.new.type # was.type =>
              Fits(d, r.new.type, TypesOf(TiersOf(d) \ {t}))
        BY <2>2, <3>1, <4>1 DEF Updating
      <4> QED
        BY <2>2, <4>3, <4>4, <4>5, <4>6, <4>7, <4>8 DEF Alone, Fits
    <3> QED
      BY <2>3, <3>11, <3>12, <3>13
  <2> QED
    BY <2>4, <2>5
<1> QED
  BY <1>3, <1>4, <1>5 DEF TiersInv

\* The graph is read, and the tier closes no cycle in it.
LEMMA TiersChecked ==
  ASSUME TiersInv, NEW c \in EditCalls, CheckGraph(c)
  PROVE  TiersInv'
<1>1. PICK r : r = editCall[c]
  OBVIOUS
<1>2. r.step = "graph" /\ UNCHANGED <<tier, validatedTogether>>
  BY <1>1 DEF CheckGraph, store, overlaps
<1>3. CASE Refused(c)
  <2>1. PICK s : SetCall(c, s) /\ s.step \in {"idle", "generate"}
    BY <1>3 DEF Refused, Done, IdleEdit
  <2>2. ValidOK(s)
    BY <2>1 DEF ValidOK
  <2> QED
    BY <1>2, <2>1, <2>2, TiersCall
<1>4. CASE /\ ~HasCycle((CarryEdges \ r.old) \cup {<<r.channel, r.new.source>>})
           /\ Go(c, IF r.old = {} THEN "insert" ELSE "change")
  <2>1. PICK E : E = (CarryEdges \ r.old) \cup {<<r.channel, r.new.source>>}
    OBVIOUS
  <2>2. Acyclic(E)
    BY <1>4, <2>1, CyclesFound, EditAssumption
  <2>3. PICK g : g = IF r.old = {} THEN "insert" ELSE "change"
    OBVIOUS
  <2>4. PICK s : s = [r EXCEPT !.step = g]
    OBVIOUS
  <2>5. SetCall(c, s)
    BY <1>1, <1>4, <2>3, <2>4 DEF Go
  <2>6. ASSUME Creating(r) PROVE ValidOK(s)
    <3>1. g = "insert"
      BY <2>3, <2>6 DEF Creating
    <3>2. /\ DOMAIN s = DOMAIN r /\ s.step = g /\ s.channel = r.channel /\ s.new = r.new
          /\ s.old = r.old /\ s.todo = r.todo
      BY <2>4, <2>6 DEF Creating
    <3>3. CarryEdges \cup {<<r.channel, r.new.source>>} = E
      BY <2>1, <2>6 DEF Creating
    <3>4. Creating(s)
      BY <2>2, <2>6, <3>2, <3>3 DEF Creating
    <3> QED
      BY <3>1, <3>2, <3>4 DEF ValidOK
  <2>7. ASSUME Updating(r) PROVE ValidOK(s)
    <3>1. g = "change"
      BY <2>3, <2>7 DEF Updating
    <3>2. /\ DOMAIN s = DOMAIN r /\ s.step = g /\ s.channel = r.channel /\ s.new = r.new
          /\ s.old = r.old /\ s.id = r.id /\ s.was = r.was
      BY <2>4, <2>7 DEF Updating
    <3>3. Updating(s)
      BY <2>1, <2>2, <2>7, <3>2 DEF Updating
    <3> QED
      BY <3>1, <3>2, <3>3 DEF ValidOK
  <2>8. ~validatedTogether => ValidOK(s)
    BY <1>1, <1>2, <2>6, <2>7 DEF TiersInv, ValidOK
  <2> QED
    BY <1>2, <2>5, <2>8, TiersCall
<1> QED
  BY <1>1, <1>3, <1>4 DEF CheckGraph

LEMMA TiersStep ==
  ASSUME TiersInv, SlotsOK, NEW c \in EditCalls, EditStep(c)
  PROVE  TiersInv'
<1>1. ASSUME NEW r, SetCall(c, r), r.step \notin {"graph", "insert", "change"},
             UNCHANGED <<tier, validatedTogether>>
      PROVE  TiersInv'
  <2>1. ValidOK(r)
    BY <1>1 DEF ValidOK
  <2> QED
    BY <1>1, <2>1, TiersCall
<1>2. ASSUME NEW to \in {"signal", "tiers"}, Go(c, to),
             editCall[c].step \in {"write", "ensure"}, UNCHANGED <<tier, validatedTogether>>
      PROVE  TiersInv'
  <2>1. PICK r, s : r = editCall[c] /\ s = [r EXCEPT !.step = to]
    OBVIOUS
  <2>2. SetCall(c, s) /\ r.step \in {"write", "ensure"}
    BY <1>2, <2>1 DEF Go
  <2>3. s.step = to
    BY <2>1 DEF SlotsOK, SlotOK
  <2> QED
    BY <1>1, <1>2, <2>2, <2>3
<1>3. CASE Upsert(c) \/ TakeArms(c) \/ WriteChannel(c)
  <2>1. UNCHANGED <<tier, validatedTogether>>
    BY <1>3 DEF Upsert, TakeArms, WriteChannel, store, overlaps
  <2>2. Done(c) \/ \E then : Regenerating(c, then)
    BY <1>3 DEF Upsert, TakeArms, WriteChannel
  <2>3. CASE Done(c)
    BY <1>1, <2>1, <2>3 DEF Done, IdleEdit
  <2>4. ASSUME NEW then, Regenerating(c, then) PROVE TiersInv'
    <3>1. PICK r : r = [step |-> "generate", then |-> then]
      OBVIOUS
    <3> QED
      BY <1>1, <2>1, <2>4, <3>1 DEF Regenerating
  <2> QED
    BY <2>2, <2>3, <2>4
<1>4. CASE Generate(c)
  <2>1. PICK r : SetCall(c, r) /\ r.step \in {"idle", "write"}
    BY <1>4 DEF Generate, Done, IdleEdit
  <2>2. UNCHANGED <<tier, validatedTogether>>
    BY <1>4 DEF Generate, store
  <2> QED
    BY <1>1, <2>1, <2>2
<1>5. CASE WriteScript(c)
  <2>1. UNCHANGED <<tier, validatedTogether>>
    BY <1>5 DEF WriteScript, store, overlaps
  <2>2. CASE Done(c)
    BY <1>1, <2>1, <2>2 DEF Done, IdleEdit
  <2>3. CASE Go(c, "signal")
    BY <1>5, <1>2, <2>1, <2>3 DEF WriteScript
  <2> QED
    BY <1>5, <2>2, <2>3 DEF WriteScript
<1>6. CASE Signal(c)
  <2>1. PICK r : SetCall(c, r) /\ r.step \in {"idle", "arm"}
    BY <1>6 DEF Signal, Done, IdleEdit
  <2>2. UNCHANGED <<tier, validatedTogether>>
    BY <1>6 DEF Signal, store, overlaps
  <2> QED
    BY <1>1, <2>1, <2>2
<1>7. CASE CheckGraph(c) \/ InsertTier(c) \/ ChangeTier(c)
  BY <1>7, TiersChecked, TiersInsert, TiersChange
<1>8. CASE EnsureConfig(c)
  <2>1. UNCHANGED <<tier, validatedTogether>>
    BY <1>8 DEF EnsureConfig, store, overlaps
  <2> QED
    BY <1>8, <1>2, <2>1 DEF EnsureConfig
<1>9. CASE EnsureTiers(c)
  <2>1. UNCHANGED <<tier, validatedTogether>>
    BY <1>9 DEF EnsureTiers, store, overlaps
  <2>2. CASE NextTier(c, <<>>)
    <3>1. PICK r : SetCall(c, r) /\ r.step = "generate"
      BY <2>2 DEF NextTier
    <3> QED
      BY <1>1, <2>1, <3>1
  <2>3. CASE NextTier(c, <<[type |-> "live", priority |-> 0, source |-> None],
                           [type |-> "queue", priority |-> 1, source |-> None],
                           [type |-> "carry", priority |-> 2, source |-> Default]>>)
    <3>1. PICK todo : todo = <<[type |-> "live", priority |-> 0, source |-> None],
                               [type |-> "queue", priority |-> 1, source |-> None],
                               [type |-> "carry", priority |-> 2, source |-> Default]>>
      OBVIOUS
    <3>2. todo \in Seq(DefaultTiers) /\ todo # <<>> /\ Head(todo) = [type |-> "live", priority |-> 0, source |-> None]
      BY <3>1 DEF DefaultTiers
    <3>3. PICK r : r = [step |-> "insert", channel |-> Broadcast, new |-> Head(todo), old |-> {},
                        todo |-> todo]
      OBVIOUS
    <3>4. SetCall(c, r)
      BY <2>3, <3>1, <3>2, <3>3 DEF NextTier
    <3>5. Broadcast \in Channels /\ Fits(r.channel, r.new.type, TypesOf(TiersOf(r.channel)))
      BY <3>3 DEF Fits, Channels
    <3>6. r.new \in TiersToCreate /\ r.new.type # "carry"
      BY <3>2, <3>3 DEF TiersToCreate, DefaultTiers
    <3>7. Creating(r)
      BY <3>2, <3>3, <3>5, <3>6 DEF Creating
    <3> QED
      BY <2>1, <3>3, <3>4, <3>7, TiersCall DEF ValidOK
  <2> QED
    BY <1>9, <2>2, <2>3 DEF EnsureTiers
<1> QED
  BY <1>3, <1>4, <1>5, <1>6, <1>7, <1>8, <1>9 DEF EditStep

LEMMA TiersRequest ==
  ASSUME TiersInv, NEW c \in EditCalls, EditRequest(c)
  PROVE  TiersInv'
<1>1. ASSUME NEW verb, NEW r, BeginEdit(verb, c, r), ~validatedTogether => ValidOK(r)
      PROVE  TiersInv'
  <2>1. SetCall(c, r) /\ UNCHANGED <<tier, validatedTogether>>
    BY <1>1 DEF BeginEdit, store, overlaps
  <2> QED
    BY <1>1, <2>1, TiersCall
<1>2. ASSUME NEW verb, NEW r, BeginEdit(verb, c, r), r.step \notin {"graph", "insert", "change"}
      PROVE  TiersInv'
  BY <1>1, <1>2 DEF ValidOK
<1>3. ASSUME NEW ch, \/ SetChannel(c, ch) \/ TakeQueue(c, ch)
                     \/ \E mode : SetMode(c, ch, mode)
                     \/ \E t : SetManualTier(c, ch, t)
      PROVE  TiersInv'
  <2>1. ASSUME NEW verb, NEW mode, NEW pin, NEW then,
               BeginEdit(verb, c, [step |-> "upsert", channel |-> ch, mode |-> mode, pin |-> pin,
                                   then |-> then])
        PROVE  TiersInv'
    <3>1. PICK r : r = [step |-> "upsert", channel |-> ch, mode |-> mode, pin |-> pin,
                        then |-> then]
      OBVIOUS
    <3> QED
      BY <1>2, <2>1, <3>1
  <2>2. ASSUME NEW verb, NEW s \in {"channel", "arm"},
               BeginEdit(verb, c, [step |-> s, channel |-> ch])
        PROVE  TiersInv'
    <3>1. PICK r : r = [step |-> s, channel |-> ch]
      OBVIOUS
    <3> QED
      BY <1>2, <2>2, <3>1
  <2>3. CASE SetChannel(c, ch)
    BY <2>2, <2>3 DEF SetChannel
  <2>4. CASE TakeQueue(c, ch)
    <3>1. CASE settings[ch] = None \/ settings[ch].mode = "auto"
      BY <2>2, <2>4, <3>1 DEF TakeQueue
    <3>2. CASE ~(settings[ch] = None \/ settings[ch].mode = "auto")
      BY <2>1, <2>4, <3>2 DEF TakeQueue
    <3> QED
      BY <3>1, <3>2
  <2> QED
    BY <1>3, <2>1, <2>3, <2>4 DEF SetMode, SetManualTier
<1>4. ASSUME NEW ch \in Channels, NEW new \in NewTiers, CreateTier(c, ch, new)
      PROVE  TiersInv'
  <2>1. PICK g : g = IF new.type = "carry" THEN "graph" ELSE "insert"
    OBVIOUS
  <2>2. PICK r : r = [step |-> g, channel |-> ch, new |-> new, old |-> {}, todo |-> <<>>]
    OBVIOUS
  <2>3. BeginEdit("create", c, r) /\ Fits(ch, new.type, TypesOf(TiersOf(ch)))
    BY <1>4, <2>1, <2>2 DEF CreateTier
  <2>4. Creating(r)
    <3>1. <<>> \in Seq(DefaultTiers) /\ new \in TiersToCreate
      BY DEF TiersToCreate
    <3>2. ~(r.step = "insert" /\ r.new.type = "carry")
      BY <2>1, <2>2
    <3> QED
      BY <2>2, <2>3, <3>1, <3>2 DEF Creating
  <2>5. ValidOK(r)
    BY <2>1, <2>2, <2>4 DEF ValidOK
  <2> QED
    BY <1>1, <2>3, <2>5
<1>5. ASSUME NEW t \in Exists, NEW new \in NewForms, UpdateTier(c, t, new)
      PROVE  TiersInv'
  <2>1. PICK old : old = tier[t]
    OBVIOUS
  <2>2. PICK g : g = IF new.type = "carry" /\ new.source # old.source THEN "graph" ELSE "change"
    OBVIOUS
  <2>3. PICK r : r = [step |-> g, channel |-> old.channel, id |-> t, was |-> old, new |-> new,
                      old |-> {<<old.channel, old.source>>}, todo |-> <<>>]
    OBVIOUS
  <2>4. /\ BeginEdit("update", c, r)
        /\ new.type # old.type => Fits(old.channel, new.type, TypesOf(TiersOf(old.channel) \ {t}))
    BY <1>5, <2>1, <2>2, <2>3 DEF UpdateTier
  <2>5. ASSUME ~validatedTogether PROVE ValidOK(r)
    <3>1. t \in TierIds /\ old \in TierRecords
      BY <2>1, <2>5 DEF TiersInv, TierTypes, Exists
    <3>2. ~(r.step = "change" /\ r.new.type = "carry" /\ r.new.source # r.was.source)
      BY <2>2, <2>3
    <3>3. Updating(r)
      BY <2>1, <2>3, <2>4, <3>1, <3>2 DEF Updating
    <3>4. r.step \in {"graph", "change"}
      BY <2>2, <2>3
    <3> QED
      BY <3>3, <3>4 DEF ValidOK
  <2> QED
    BY <1>1, <2>4, <2>5
<1> QED
  BY <1>3, <1>4, <1>5 DEF EditRequest

LEMMA TiersRest ==
  ASSUME TiersInv,
         \/ EngineStart
         \/ \E ch \in Playouts, v \in BOOLEAN : ArmQueue(ch, v)
         \/ \E t \in TierIds : DeleteTier(t)
         \/ \E c \in EditCalls : Crash(c)
         \/ UNCHANGED editVars
  PROVE  TiersInv'
<1>1. CASE UNCHANGED <<tier, editCall, validatedTogether>>
  <2>1. \A t \in Exists' : t \in Exists /\ tier'[t] = tier[t]
    BY <1>1 DEF Exists
  <2> QED
    BY <1>1, <2>1, TiersBeside DEF TiersInv
<1>2. ASSUME NEW t \in TierIds, DeleteTier(t) PROVE TiersInv'
  <2>1. tier' = [tier EXCEPT ![t] = None] /\ UNCHANGED <<editCall, validatedTogether>>
    BY <1>2 DEF DeleteTier, overlaps
  <2>2. tier' = [u \in TierIds |-> tier'[u]] /\ \A u \in Exists' : u \in Exists /\ tier'[u] = tier[u]
    BY <2>1 DEF Exists, TiersInv
  <2> QED
    BY <2>1, <2>2, TiersBeside DEF TiersInv
<1>3. ASSUME NEW c \in EditCalls, Crash(c) PROVE TiersInv'
  <2>1. UNCHANGED <<tier, validatedTogether>>
    BY <1>3 DEF Crash, store, overlaps
  <2>2. editCall' = [d \in EditCalls |-> IF d = c THEN [step |-> "ensure"] ELSE IdleEdit]
    BY <1>3 DEF Crash
  <2>3. \A d \in EditCalls : editCall'[d].step \in {"ensure", "idle"}
    BY <2>2 DEF IdleEdit
  <2>4. \A d \in EditCalls : ValidOK(editCall'[d])
    BY <2>3 DEF ValidOK
  <2>5. tier' = [u \in TierIds |-> tier'[u]] /\ \A u \in Exists' : u \in Exists /\ tier'[u] = tier[u]
    BY <2>1 DEF TiersInv, Exists
  <2> QED
    BY <2>1, <2>2, <2>4, <2>5, TiersBeside
<1> QED
  BY <1>1, <1>2, <1>3 DEF EngineStart, ArmQueue, store, overlaps, editVars

LEMMA TiersBegin ==
  ASSUME EditInit PROVE TiersInv
<1>1. editCall = [c \in EditCalls |-> IdleEdit] /\ tier = [t \in TierIds |-> None]
  BY DEF EditInit
<1>2. Exists = {} /\ CarryEdges = {}
  BY <1>1 DEF Exists, CarryEdges, CarryTiers
<1>3. TierTypes /\ \A c \in Playouts : Alone(c)
  BY <1>2 DEF TierTypes, Alone, TypesOf, TiersOf
<1>4. Acyclic(CarryEdges)
  BY <1>2 DEF Acyclic, Sources
<1>5. \A c \in EditCalls : ValidOK(editCall[c])
  BY <1>1 DEF ValidOK, IdleEdit
<1> QED
  BY <1>1, <1>3, <1>4, <1>5 DEF TiersInv

\* editorial-graph.ts and validateOwnershipConstraint: unless two tiers are validated at
\* the same time, or one is written while another is, the tiers never carry a channel
\* around to itself, whatever the channels, and no playout channel has a live tier and
\* carries one.
THEOREM TiersStayLegal == EditSpec => []TiersLegal
<1>1. EditInit => TiersInv
  BY TiersBegin
<1>2. FollowInv /\ TiersInv /\ [EditNext]_editVars => TiersInv'
  BY TiersStep, TiersRequest, TiersRest DEF EditNext, EditGoesOn, FollowInv
<1>3. TiersInv => TiersLegal
  <2> SUFFICES ASSUME TiersInv, ~validatedTogether
               PROVE  /\ \A S \in (SUBSET {e[1] : e \in CarryEdges}) \ {{}} :
                            \E c \in S : Sources(c, CarryEdges) \cap S = {}
                      /\ \A c \in Playouts : Alone(c)
    BY DEF TiersLegal, Alone
  <2>1. \A e \in CarryEdges : e[1] \in Channels
    <3>1. \A t \in Exists : tier[t] \in TierRecords
      BY DEF TiersInv, TierTypes
    <3>2. ASSUME NEW t \in CarryTiers PROVE Edge(t)[1] \in Channels
      <4>1. PICK x : x = tier[t]
        OBVIOUS
      <4>2. x \in TierRecords
        BY <3>1, <4>1 DEF CarryTiers
      <4>3. x.channel \in Channels
        BY <4>2 DEF TierRecords
      <4> QED
        BY <4>1, <4>3 DEF Edge
    <3> QED
      BY <3>2 DEF CarryEdges
  <2> QED
    BY <2>1 DEF TiersInv, Acyclic
<1> QED
  BY <1>1, <1>2, <1>3, FollowHolds, PTL DEF EditSpec

-----------------------------------------------------------------------------
(* The order of the blocks *)

\* A list that has each of its members once.
Once(s) == \A i, j \in DOMAIN s : s[i] = s[j] => i = j

\* What has different ranks has an order by them.
LEMMA OrderFound ==
  ASSUME NEW U, IsFiniteSet(U), NEW rank \in [U -> Nat],
         \A x, y \in U : rank[x] = rank[y] => x = y
  PROVE  \A n \in Nat : \A S \in SUBSET U : Cardinality(S) = n =>
            \E f \in [1..n -> S] : \A i, j \in 1..n : i < j => rank[f[i]] < rank[f[j]]
<1> DEFINE Ordered(n) == \A S \in SUBSET U : Cardinality(S) = n =>
                \E f \in [1..n -> S] : \A i, j \in 1..n : i < j => rank[f[i]] < rank[f[j]]
<1> DEFINE X == {n \in Nat : Ordered(n)}
<1>1. 0 \in X
  <2>1. ASSUME NEW S \in SUBSET U
        PROVE  \E f \in [1..0 -> S] : \A i, j \in 1..0 : i < j => rank[f[i]] < rank[f[j]]
    <3>1. PICK f : f = [i \in 1..0 |-> 0]
      OBVIOUS
    <3>2. \A i : i \notin 1..0
      OBVIOUS
    <3>3. f \in [1..0 -> S]
      BY <3>1, <3>2
    <3> QED
      BY <3>2, <3>3
  <2> QED
    BY <2>1
<1>2. ASSUME NEW n \in Nat, n \in X PROVE n + 1 \in X
  <2>1. ASSUME NEW S \in SUBSET U, Cardinality(S) = n + 1
        PROVE  \E f \in [1..(n + 1) -> S] : \A i, j \in 1..(n + 1) : i < j => rank[f[i]] < rank[f[j]]
    <3>1. S # {} /\ IsFiniteSet(S)
      BY <2>1, FS_EmptySet, FS_Subset
    <3>2. PICK m \in S : \A x \in S : rank[x] <= rank[m]
      <4>1. PICK p : p = [x \in S |-> rank[x]]
        OBVIOUS
      <4>2. p \in [S -> Nat]
        BY <4>1
      <4>3. PICK m \in S : \A x \in S : p[x] <= p[m]
        BY <3>1, <4>2, Highest
      <4> QED
        BY <4>1, <4>3
    <3>3. Cardinality(S \ {m}) = n /\ S \ {m} \in SUBSET U
      <4>1. Cardinality(S \ {m}) = Cardinality(S) - 1
        BY <3>1, FS_RemoveElement
      <4>2. (n + 1) - 1 = n
        OBVIOUS
      <4> QED
        BY <2>1, <4>1, <4>2
    <3>4. PICK f \in [1..n -> S \ {m}] : \A i, j \in 1..n : i < j => rank[f[i]] < rank[f[j]]
      BY <1>2, <3>3
    <3>5. PICK g : g = [i \in 1..(n + 1) |-> IF i = n + 1 THEN m ELSE f[i]]
      OBVIOUS
    <3>6. /\ \A i \in 1..(n + 1) : i = n + 1 \/ i \in 1..n
          /\ \A i \in 1..n : i \in 1..(n + 1) /\ i # n + 1
      OBVIOUS
    <3>7. \A i \in 1..n : f[i] \in S /\ rank[f[i]] < rank[m]
      <4>1. ASSUME NEW i \in 1..n PROVE f[i] \in S /\ rank[f[i]] < rank[m]
        <5>1. f[i] \in S /\ f[i] # m /\ f[i] \in U /\ m \in U
          BY <3>4
        <5>2. rank[f[i]] # rank[m]
          BY <5>1
        <5>3. rank[f[i]] \in Nat /\ rank[m] \in Nat /\ rank[f[i]] <= rank[m]
          BY <3>2, <5>1
        <5> QED
          BY <5>1, <5>2, <5>3
      <4> QED
        BY <4>1
    <3>8. g \in [1..(n + 1) -> S]
      BY <3>5, <3>6, <3>7
    <3>9. ASSUME NEW i \in 1..(n + 1), NEW j \in 1..(n + 1), i < j
          PROVE  rank[g[i]] < rank[g[j]]
      <4>1. i \in 1..n
        BY <3>9
      <4> QED
        BY <3>4, <3>5, <3>6, <3>7, <3>9, <4>1
    <3> QED
      BY <3>8, <3>9
  <2>2. Ordered(n + 1)
    BY <2>1
  <2> QED
    BY <2>2
<1>3. Nat \subseteq X
  <2> HIDE DEF X
  <2> QED
    BY <1>1, <1>2, Reaches
<1> QED
  BY <1>3

LEMMA InOrderIs ==
  ASSUME NEW U, IsFiniteSet(U), NEW rank \in [U -> Nat],
         \A x, y \in U : rank[x] = rank[y] => x = y, NEW S \in SUBSET U
  PROVE  /\ InOrder(S, rank) \in Seq(S) /\ Once(InOrder(S, rank))
         /\ ToSet(InOrder(S, rank)) = S
<1>1. IsFiniteSet(S) /\ Cardinality(S) \in Nat
  BY FS_Subset, FS_CardinalityType
<1>2. PICK n \in Nat : n = Cardinality(S)
  BY <1>1
<1>3. PICK f : f = InOrder(S, rank)
  OBVIOUS
<1>4. f \in [1..n -> S] /\ \A i, j \in 1..n : i < j => rank[f[i]] < rank[f[j]]
  <2>1. \A T \in SUBSET U : Cardinality(T) = n =>
            \E g \in [1..n -> T] : \A i, j \in 1..n : i < j => rank[g[i]] < rank[g[j]]
    BY OrderFound
  <2>2. \E g \in [1..n -> S] : \A i, j \in DOMAIN g : i < j => rank[g[i]] < rank[g[j]]
    BY <1>2, <2>1
  <2>3. f = CHOOSE g \in [1..n -> S] : \A i, j \in DOMAIN g : i < j => rank[g[i]] < rank[g[j]]
    BY <1>2, <1>3 DEF InOrder
  <2> QED
    BY <2>2, <2>3
<1>5. \A i, j \in 1..n : f[i] = f[j] => i = j
  <2>1. \A i \in 1..n : f[i] \in S /\ rank[f[i]] \in Nat
    BY <1>4
  <2>2. \A i, j \in 1..n : i < j \/ j < i \/ i = j
    OBVIOUS
  <2> QED
    BY <1>4, <2>1, <2>2
<1>6. f \in Surjection(1..n, S)
  <2>1. f \in Injection(1..n, S)
    BY <1>4, <1>5 DEF Injection, IsInjective
  <2>2. Cardinality(1..n) = n
    BY FS_Interval
  <2> QED
    BY <1>1, <1>2, <2>1, <2>2, FS_Injection
<1>7. f \in Seq(S) /\ DOMAIN f = 1..n
  BY <1>4
<1>8. ToSet(f) = S
  BY <1>4, <1>6, <1>7 DEF Surjection, ToSet
<1> QED
  BY <1>3, <1>5, <1>7, <1>8 DEF Once

LEMMA InputIs ==
  ASSUME NEW R, NEW input \in Seq(R), Once(input), ToSet(input) = R
  PROVE  /\ inputOrder(input) \in [R -> Nat]
         /\ \A x, y \in R : inputOrder(input)[x] = inputOrder(input)[y] => x = y
<1>1. \A x \in R : inputOrder(input)[x] \in DOMAIN input /\ input[inputOrder(input)[x]] = x
  <2>1. ASSUME NEW x \in R PROVE inputOrder(input)[x] \in DOMAIN input /\ input[inputOrder(input)[x]] = x
    <3>1. \E i \in DOMAIN input : input[i] = x
      BY DEF ToSet
    <3>2. inputOrder(input)[x] = CHOOSE i \in DOMAIN input : input[i] = x
      BY DEF inputOrder
    <3> QED
      BY <3>1, <3>2
  <2> QED
    BY <2>1
<1>2. DOMAIN input \subseteq Nat
  OBVIOUS
<1>3. inputOrder(input) = [x \in R |-> inputOrder(input)[x]]
  BY DEF inputOrder
<1> QED
  BY <1>1, <1>2, <1>3

LEMMA JoinIs ==
  ASSUME NEW R, NEW s \in Seq(R), NEW t \in Seq(R), Once(s), Once(t), ToSet(s) \cap ToSet(t) = {}
  PROVE  s \o t \in Seq(R) /\ Once(s \o t) /\ ToSet(s \o t) = ToSet(s) \cup ToSet(t)
<1>1. PICK m \in Nat, n \in Nat : m = Len(s) /\ n = Len(t)
  OBVIOUS
<1>2. PICK u : u = s \o t
  OBVIOUS
<1>3. /\ u \in Seq(R) /\ DOMAIN u = 1..(m + n) /\ DOMAIN s = 1..m /\ DOMAIN t = 1..n
      /\ \A i \in 1..(m + n) : u[i] = IF i <= m THEN s[i] ELSE t[i - m]
  BY <1>1, <1>2
<1>4. \A i \in 1..(m + n) : (i <= m /\ i \in 1..m) \/ (~(i <= m) /\ i - m \in 1..n)
  OBVIOUS
<1>5. \A i \in 1..m : i \in 1..(m + n) /\ i <= m
  OBVIOUS
<1>6. \A i \in 1..n : i + m \in 1..(m + n) /\ ~(i + m <= m) /\ (i + m) - m = i
  OBVIOUS
<1>7. ToSet(u) = ToSet(s) \cup ToSet(t)
  <2>1. ASSUME NEW x \in ToSet(u) PROVE x \in ToSet(s) \cup ToSet(t)
    BY <1>3, <1>4 DEF ToSet
  <2>2. ASSUME NEW x \in ToSet(s) PROVE x \in ToSet(u)
    BY <1>3, <1>5 DEF ToSet
  <2>3. ASSUME NEW x \in ToSet(t) PROVE x \in ToSet(u)
    <3>1. PICK i \in 1..n : t[i] = x
      BY <1>3 DEF ToSet
    <3>2. i + m \in 1..(m + n) /\ u[i + m] = x
      BY <1>3, <1>6, <3>1
    <3> QED
      BY <1>3, <3>2 DEF ToSet
  <2> QED
    BY <2>1, <2>2, <2>3
<1>8. ASSUME NEW i \in 1..(m + n), NEW j \in 1..(m + n), u[i] = u[j] PROVE i = j
  <2>1. CASE i <= m /\ j <= m
    BY <1>3, <1>4, <1>8, <2>1 DEF Once
  <2>2. CASE ~(i <= m) /\ ~(j <= m)
    <3>1. i - m \in 1..n /\ j - m \in 1..n
      BY <1>4, <2>2
    <3>2. i - m = j - m
      BY <1>3, <1>8, <2>2, <3>1 DEF Once
    <3> QED
      BY <3>2
  <2>3. ASSUME NEW k \in 1..(m + n), NEW l \in 1..(m + n), u[k] = u[l], k <= m, ~(l <= m)
        PROVE  FALSE
    BY <1>3, <1>4, <2>3 DEF ToSet
  <2> QED
    BY <1>8, <2>1, <2>2, <2>3
<1> QED
  BY <1>2, <1>3, <1>7, <1>8 DEF Once

LEMMA RestIs ==
  ASSUME NEW R, NEW s \in Seq(R), Once(s), s # <<>>
  PROVE  /\ Head(s) \in R /\ Tail(s) \in Seq(R) /\ Once(Tail(s))
         /\ Head(s) \in ToSet(s) /\ ToSet(Tail(s)) = ToSet(s) \ {Head(s)}
<1>1. PICK n \in Nat : n = Len(s) /\ n > 0 /\ n - 1 \in Nat /\ DOMAIN s = 1..n
  <2>1. Len(s) # 0
    BY EmptySeq
  <2>2. PICK n \in Nat : n = Len(s) /\ DOMAIN s = 1..Len(s)
    OBVIOUS
  <2>3. n > 0 /\ n - 1 \in Nat
    BY <2>1, <2>2
  <2> QED
    BY <2>2, <2>3
<1>2. PICK u : u = Tail(s)
  OBVIOUS
<1>3. /\ u \in Seq(R) /\ Head(s) = s[1] /\ DOMAIN u = 1..(n - 1)
      /\ \A i \in 1..(n - 1) : u[i] = s[i + 1]
  BY <1>1, <1>2
<1>4. /\ 1 \in 1..n /\ \A i \in 1..n : i = 1 \/ (i - 1 \in 1..(n - 1) /\ (i - 1) + 1 = i)
      /\ \A i \in 1..(n - 1) : i + 1 \in 1..n /\ i + 1 # 1
  BY <1>1
<1>5. ASSUME NEW i \in 1..(n - 1), NEW j \in 1..(n - 1), u[i] = u[j] PROVE i = j
  <2>1. i + 1 = j + 1
    BY <1>1, <1>3, <1>4, <1>5 DEF Once
  <2> QED
    BY <2>1
<1>6. ASSUME NEW x \in ToSet(u) PROVE x \in ToSet(s) /\ x # s[1]
  <2>1. PICK i \in 1..(n - 1) : u[i] = x
    BY <1>3 DEF ToSet
  <2>2. i + 1 \in 1..n /\ s[i + 1] = x /\ i + 1 # 1
    BY <1>3, <1>4, <2>1
  <2> QED
    BY <1>1, <1>4, <2>2 DEF Once, ToSet
<1>7. ASSUME NEW x \in ToSet(s), x # s[1] PROVE x \in ToSet(u)
  <2>1. PICK i \in 1..n : s[i] = x
    BY <1>1 DEF ToSet
  <2>2. i - 1 \in 1..(n - 1) /\ u[i - 1] = x
    BY <1>3, <1>4, <1>7, <2>1
  <2> QED
    BY <1>3, <2>2 DEF ToSet
<1>8. s[1] \in R /\ s[1] \in ToSet(s)
  BY <1>1, <1>4 DEF ToSet
<1> QED
  BY <1>2, <1>3, <1>5, <1>6, <1>7, <1>8 DEF Once

\* One turn of topoSort's loop.
Emit(was, input, edges) ==
    LET out == Append(was.out, Head(was.queue))
    IN  IF was.queue = <<>> THEN was
        ELSE [queue |-> Tail(was.queue) \o Unblocked(input, out, edges), out |-> out]

\* Out, or next in the queue, are those whose sources are all out, once each, and none
\* came out before a source.
Sorted(r, R, edges) ==
    /\ r.queue \in Seq(R) /\ r.out \in Seq(R) /\ Once(r.queue) /\ Once(r.out)
    /\ ToSet(r.queue) \cap ToSet(r.out) = {}
    /\ \A c \in R : c \in ToSet(r.queue) \cup ToSet(r.out) <=> Sources(c, edges) \subseteq ToSet(r.out)
    /\ \A i, j \in DOMAIN r.out : <<r.out[i], r.out[j]>> \in edges => j < i

LEMMA EmitSorts ==
  ASSUME NEW R \in SUBSET Channels, IsFiniteSet(R), NEW edges,
         NEW input \in Seq(R), Once(input), ToSet(input) = R,
         NEW r, Sorted(r, R, edges), r.queue # <<>>
  PROVE  /\ Sorted(Emit(r, input, edges), R, edges)
         /\ Len(Emit(r, input, edges).out) = Len(r.out) + 1
<1>1. PICK h : h = Head(r.queue)
  OBVIOUS
<1>2. PICK q : q = Tail(r.queue)
  OBVIOUS
<1>3. PICK out : out = Append(r.out, h)
  OBVIOUS
<1>4. PICK new : new = Unblocked(input, out, edges)
  OBVIOUS
<1>5. Emit(r, input, edges) = [queue |-> q \o new, out |-> out]
  BY <1>1, <1>2, <1>3, <1>4 DEF Emit
<1>6. /\ h \in R /\ q \in Seq(R) /\ Once(q) /\ h \in ToSet(r.queue)
      /\ ToSet(q) = ToSet(r.queue) \ {h}
  <2>1. r.queue \in Seq(R) /\ Once(r.queue)
    BY DEF Sorted
  <2> QED
    BY <1>1, <1>2, <2>1, RestIs
<1>7. PICK n \in Nat : n = Len(r.out) /\ r.out \in Seq(R)
  BY DEF Sorted
<1>8. /\ out \in Seq(R) /\ Len(out) = n + 1 /\ DOMAIN out = 1..(n + 1) /\ DOMAIN r.out = 1..n
      /\ out[n + 1] = h /\ \A i \in 1..n : out[i] = r.out[i]
  BY <1>3, <1>6, <1>7
<1>9. /\ \A i \in 1..(n + 1) : i = n + 1 \/ i \in 1..n
      /\ n + 1 \in 1..(n + 1) /\ \A i \in 1..n : i \in 1..(n + 1) /\ i < n + 1
  OBVIOUS
<1>10. ToSet(out) = ToSet(r.out) \cup {h}
  BY <1>8, <1>9 DEF ToSet
<1>11. h \notin ToSet(r.out) /\ Sources(h, edges) \subseteq ToSet(r.out)
  BY <1>6 DEF Sorted
<1>12. Once(out)
  <2>1. \A i \in 1..n : out[i] # h
    BY <1>8, <1>11 DEF ToSet
  <2> QED
    BY <1>8, <1>9, <2>1 DEF Once, Sorted
<1>13. /\ new \in Seq(R) /\ Once(new)
       /\ ToSet(new) = {c \in R : h \in Sources(c, edges) /\ Sources(c, edges) \subseteq ToSet(out)}
  <2>1. PICK S : S = {c \in R : h \in Sources(c, edges) /\ Sources(c, edges) \subseteq ToSet(out)}
    OBVIOUS
  <2>2. Last(out) = h
    BY <1>8 DEF Last
  <2>3. new = InOrder(S, inputOrder(input))
    BY <1>4, <2>1, <2>2 DEF Unblocked
  <2>4. S \in SUBSET R
    BY <2>1
  <2>5. new \in Seq(S) /\ Once(new) /\ ToSet(new) = S
    BY <2>3, <2>4, InputIs, InOrderIs
  <2>6. new \in Seq(R)
    BY <2>4, <2>5
  <2> QED
    BY <2>1, <2>5, <2>6
<1>14. ToSet(new) \cap (ToSet(r.queue) \cup ToSet(r.out)) = {}
  BY <1>11, <1>13 DEF Sorted
<1>15. /\ q \o new \in Seq(R) /\ Once(q \o new)
       /\ ToSet(q \o new) = (ToSet(r.queue) \ {h}) \cup ToSet(new)
  <2>1. ToSet(q) \cap ToSet(new) = {}
    BY <1>6, <1>14
  <2> QED
    BY <1>6, <1>13, <2>1, JoinIs
<1>16. ToSet(q \o new) \cap ToSet(out) = {}
  BY <1>6, <1>10, <1>14, <1>15 DEF Sorted
<1>17. ASSUME NEW c \in R
       PROVE  c \in ToSet(q \o new) \cup ToSet(out) <=> Sources(c, edges) \subseteq ToSet(out)
  BY <1>6, <1>10, <1>13, <1>15 DEF Sorted
<1>18. ASSUME NEW i \in 1..(n + 1), NEW j \in 1..(n + 1), <<out[i], out[j]>> \in edges
       PROVE  j < i
  <2>1. out[j] \in Sources(out[i], edges)
    BY <1>8, <1>18 DEF Sources
  <2>2. CASE j = n + 1
    <3>1. h \in Sources(out[i], edges)
      BY <1>8, <2>1, <2>2
    <3>2. CASE i = n + 1
      BY <1>8, <1>11, <3>1, <3>2
    <3>3. CASE i \in 1..n
      <4>1. out[i] \in ToSet(r.out) /\ out[i] \in R
        <5>1. out[i] = r.out[i] /\ i \in DOMAIN r.out
          BY <1>8, <3>3
        <5>2. r.out[i] \in R
          BY <1>7, <5>1
        <5> QED
          BY <5>1, <5>2 DEF ToSet
      <4>2. Sources(out[i], edges) \subseteq ToSet(r.out)
        BY <4>1 DEF Sorted
      <4> QED
        BY <1>11, <3>1, <4>2
    <3> QED
      BY <1>9, <3>2, <3>3
  <2>3. CASE j \in 1..n /\ i = n + 1
    BY <1>9, <2>3
  <2>4. CASE j \in 1..n /\ i \in 1..n
    BY <1>8, <1>18, <2>4 DEF Sorted
  <2> QED
    BY <1>9, <2>2, <2>3, <2>4
<1>19. PICK x : x = [queue |-> q \o new, out |-> out]
  OBVIOUS
<1>20. x.queue = q \o new /\ x.out = out
  BY <1>19
<1>21. Sorted(x, R, edges)
  BY <1>8, <1>12, <1>15, <1>16, <1>17, <1>18, <1>20 DEF Sorted
<1> QED
  BY <1>5, <1>7, <1>8, <1>19, <1>20, <1>21

IsSort(f, n, input, edges) ==
    f = [k \in 0..n |-> IF k = 0 THEN [queue |-> CarryNone(input, edges), out |-> <<>>]
                        ELSE Emit(f[k - 1], input, edges)]

LEMMA SortExists ==
  ASSUME NEW input, NEW edges, NEW n \in Nat
  PROVE  \E f : IsSort(f, n, input, edges)
<1> DEFINE X == {m \in Nat : \E f : IsSort(f, m, input, edges)}
           start == [queue |-> CarryNone(input, edges), out |-> <<>>]
<1>1. 0 \in X
  <2>1. PICK f : f = [k \in 0..0 |-> start]
    OBVIOUS
  <2>2. IsSort(f, 0, input, edges)
    BY <2>1 DEF IsSort
  <2> QED
    BY <2>2
<1>2. ASSUME NEW m \in Nat, m \in X
      PROVE  m + 1 \in X
  <2>1. PICK f : IsSort(f, m, input, edges)
    BY <1>2
  <2> HIDE DEF start
  <2>2. f = [k \in 0..m |-> IF k = 0 THEN start ELSE Emit(f[k - 1], input, edges)]
    BY <2>1 DEF IsSort, start
  <2>3. PICK g : g = [k \in 0..(m + 1) |-> IF k = m + 1 THEN Emit(f[m], input, edges) ELSE f[k]]
    OBVIOUS
  <2>4. /\ \A k \in 0..m : k \in 0..(m + 1) /\ k # m + 1
        /\ \A k \in 0..(m + 1) : k = m + 1 \/ k \in 0..m
        /\ \A k \in 0..(m + 1) : k # 0 => k - 1 \in 0..m
        /\ m + 1 \in 0..(m + 1) /\ (m + 1) - 1 = m /\ m + 1 # 0 /\ 0 \in 0..m /\ m \in 0..m
    OBVIOUS
  <2>5. \A k \in 0..m : g[k] = f[k]
    BY <2>3, <2>4
  <2>6. ASSUME NEW k \in 0..(m + 1)
        PROVE  g[k] = IF k = 0 THEN start ELSE Emit(g[k - 1], input, edges)
    <3>1. CASE k = m + 1
      BY <2>3, <2>4, <2>5, <3>1
    <3>2. CASE k \in 0..m
      BY <2>2, <2>4, <2>5, <3>2
    <3> QED
      BY <2>4, <3>1, <3>2
  <2>7. g = [k \in 0..(m + 1) |-> g[k]]
    BY <2>3
  <2>8. g = [k \in 0..(m + 1) |-> IF k = 0 THEN start ELSE Emit(g[k - 1], input, edges)]
    BY <2>6, <2>7
  <2>9. IsSort(g, m + 1, input, edges)
    BY <2>8 DEF IsSort, start
  <2> QED
    BY <2>9
<1>3. Nat \subseteq X
  <2> HIDE DEF X
  <2> QED
    BY <1>1, <1>2, Reaches
<1> QED
  BY <1>3

LEMMA SortKeeps ==
  ASSUME NEW R \in SUBSET Channels, IsFiniteSet(R), NEW edges,
         NEW input \in Seq(R), Once(input), ToSet(input) = R,
         NEW n \in Nat, NEW f, IsSort(f, n, input, edges)
  PROVE  Sorted(f[n], R, edges) /\ (f[n].queue = <<>> \/ Len(f[n].out) = n)
<1> DEFINE Good(k) == Sorted(f[k], R, edges) /\ (f[k].queue = <<>> \/ Len(f[k].out) = k)
           X == {k \in Nat : k \in 0..n => Good(k)}
<1>1. 0 \in X
  <2>1. f[0] = [queue |-> CarryNone(input, edges), out |-> <<>>]
    BY DEF IsSort
  <2>2. PICK q : q = CarryNone(input, edges)
    OBVIOUS
  <2>3. f[0].queue = q /\ f[0].out = <<>>
    BY <2>1, <2>2
  <2>4. PICK S : S = {c \in R : Sources(c, edges) = {}}
    OBVIOUS
  <2>5. q = InOrder(S, inputOrder(input)) /\ S \in SUBSET R
    BY <2>2, <2>4 DEF CarryNone
  <2>6. q \in Seq(S) /\ Once(q) /\ ToSet(q) = S
    BY <2>5, InputIs, InOrderIs
  <2>7. q \in Seq(R)
    BY <2>5, <2>6
  <2>8. <<>> \in Seq(R) /\ Len(<<>>) = 0 /\ \A i : i \notin DOMAIN <<>>
    OBVIOUS
  <2>9. ToSet(<<>>) = {} /\ Once(<<>>)
    BY <2>8 DEF ToSet, Once
  <2>10. \A c \in R : c \in ToSet(q) \cup {} <=> Sources(c, edges) \subseteq {}
    BY <2>4, <2>6
  <2>11. Sorted(f[0], R, edges)
    BY <2>3, <2>6, <2>7, <2>8, <2>9, <2>10 DEF Sorted
  <2> QED
    BY <2>3, <2>8, <2>11
<1>2. ASSUME NEW k \in Nat, k \in X
      PROVE  k + 1 \in X
  <2> SUFFICES ASSUME k + 1 \in 0..n PROVE Good(k + 1)
    OBVIOUS
  <2>1. k \in 0..n /\ k + 1 # 0 /\ (k + 1) - 1 = k
    OBVIOUS
  <2>2. Good(k)
    BY <1>2, <2>1
  <2>3. f[k + 1] = Emit(f[k], input, edges)
    <3>1. \A m \in 0..n : m # 0 => f[m] = Emit(f[m - 1], input, edges)
      BY DEF IsSort
    <3>2. f[k + 1] = Emit(f[(k + 1) - 1], input, edges)
      BY <2>1, <3>1
    <3> QED
      BY <2>1, <3>2
  <2>4. CASE f[k].queue = <<>>
    BY <2>2, <2>3, <2>4 DEF Emit
  <2>5. CASE f[k].queue # <<>>
    BY <2>2, <2>3, <2>5, EmitSorts
  <2> QED
    BY <2>4, <2>5
<1>3. Nat \subseteq X
  <2> HIDE DEF X
  <2> QED
    BY <1>1, <1>2, Reaches
<1> QED
  BY <1>3

\* topoSort puts out every channel once, each after those it carries.
LEMMA TopoSortIs ==
  ASSUME NEW R \in SUBSET Channels, IsFiniteSet(R), NEW edges, edges \subseteq R \X R,
         Acyclic(edges), NEW input \in SetToSeqs(R)
  PROVE  /\ Len(TopoSort(input, edges)) = Len(input)
         /\ ToSet(TopoSort(input, edges)) = R
         /\ \A i, j \in DOMAIN TopoSort(input, edges) :
               <<TopoSort(input, edges)[i], TopoSort(input, edges)[j]>> \in edges => j < i
<1>1. Cardinality(R) \in Nat
  BY FS_CardinalityType
<1>2. PICK n \in Nat : n = Cardinality(R)
  BY <1>1
<1>3. input \in [1..n -> R] /\ \A i, j \in 1..n : i # j => input[i] # input[j]
  BY <1>2 DEF SetToSeqs
<1>4. input \in Seq(R) /\ DOMAIN input = 1..n /\ Len(input) = n
  BY <1>3
<1>5. \A s \in Seq(R) : Once(s) => /\ IsFiniteSet(ToSet(s)) /\ Cardinality(ToSet(s)) = Len(s)
                                    /\ ToSet(s) \in SUBSET R
  <2>1. ASSUME NEW s \in Seq(R), Once(s)
        PROVE  /\ IsFiniteSet(ToSet(s)) /\ Cardinality(ToSet(s)) = Len(s)
               /\ ToSet(s) \in SUBSET R
    <3>1. PICK m \in Nat : m = Len(s) /\ DOMAIN s = 1..m /\ s = [i \in 1..m |-> s[i]]
      OBVIOUS
    <3>2. \A i \in 1..m : s[i] \in R
      BY <3>1
    <3>3. \A i \in 1..m : s[i] \in ToSet(s)
      BY <3>1 DEF ToSet
    <3>4. s \in [1..m -> ToSet(s)]
      BY <3>1, <3>3
    <3>5. s \in Surjection(1..m, ToSet(s))
      BY <3>1, <3>4 DEF Surjection, ToSet
    <3>6. s \in Injection(1..m, ToSet(s))
      BY <2>1, <3>1, <3>4 DEF Injection, IsInjective, Once
    <3>7. IsFiniteSet(1..m) /\ Cardinality(1..m) = m
      BY FS_Interval
    <3>8. ToSet(s) \in SUBSET R
      BY <3>1, <3>2 DEF ToSet
    <3> QED
      BY <3>1, <3>5, <3>6, <3>7, <3>8, FS_Surjection
  <2> QED
    BY <2>1
<1>6. Once(input) /\ ToSet(input) = R
  <2>1. Once(input)
    BY <1>3, <1>4 DEF Once
  <2> QED
    BY <1>2, <1>4, <1>5, <2>1, FS_Subset
<1>7. PICK f : /\ f = CHOOSE g : IsSort(g, n, input, edges)
               /\ TopoSort(input, edges) = f[n].out
  BY <1>4 DEF TopoSort, IsSort, Emit
<1>8. IsSort(f, n, input, edges)
  BY <1>7, SortExists
<1>9. Sorted(f[n], R, edges) /\ (f[n].queue = <<>> \/ Len(f[n].out) = n)
  BY <1>4, <1>6, <1>8, SortKeeps
<1>10. PICK out : out = f[n].out
  OBVIOUS
<1>11. out \in Seq(R) /\ Once(out) /\ \A i, j \in DOMAIN out : <<out[i], out[j]>> \in edges => j < i
  BY <1>9, <1>10 DEF Sorted
<1>12. IsFiniteSet(ToSet(out)) /\ Cardinality(ToSet(out)) = Len(out) /\ ToSet(out) \in SUBSET R
  BY <1>5, <1>11
<1>13. CASE Len(out) = n
  <2>1. ToSet(out) = R
    BY <1>2, <1>12, <1>13, FS_Subset
  <2> QED
    BY <1>4, <1>7, <1>10, <1>11, <1>13, <2>1
<1>14. CASE f[n].queue = <<>>
  <2>1. ToSet(f[n].queue) = {}
    BY <1>14 DEF ToSet
  <2>2. \A c \in R : c \in ToSet(out) <=> Sources(c, edges) \subseteq ToSet(out)
    BY <1>9, <1>10, <2>1 DEF Sorted
  <2>3. PICK S : S = R \ ToSet(out)
    OBVIOUS
  <2>4. ASSUME NEW c \in S PROVE Sources(c, edges) \cap S # {}
    <3>1. PICK d \in Sources(c, edges) : d \notin ToSet(out)
      BY <2>2, <2>3
    <3>2. d \in R
      BY <3>1 DEF Sources
    <3> QED
      BY <2>3, <3>1, <3>2
  <2>5. S = {}
    BY <2>3, <2>4 DEF Acyclic
  <2>6. ToSet(out) = R
    BY <1>12, <2>3, <2>5
  <2>7. Len(out) = n
    BY <1>2, <1>12, <2>6
  <2> QED
    BY <1>13, <2>7
<1> QED
  BY <1>9, <1>10, <1>13, <1>14

\* The channels that have a block are playout channels, or the broadcast channel.
RowsInv ==
    /\ active \subseteq Playouts
    /\ \A c \in EditCalls : editCall[c].step = "channel" => editCall[c].channel \in Playouts

LEMMA RowsStay ==
  ASSUME RowsInv, SlotsOK, UNCHANGED active, NEW c \in EditCalls, NEW r, SetCall(c, r),
         r.step = "channel" => r.channel \in Playouts
  PROVE  RowsInv'
<1>1. \A d \in EditCalls : editCall'[d] = IF d = c THEN r ELSE editCall[d]
  BY DEF SetCall, SlotsOK
<1> QED
  BY <1>1 DEF RowsInv

LEMMA StepIs ==
  ASSUME SlotsOK, NEW c \in EditCalls, EditStep(c)
  PROVE  \E r : SetCall(c, r) /\ r.step # "channel"
<1>1. CASE Done(c)
  BY <1>1, IdleIs DEF Done
<1>2. ASSUME NEW to, to # "channel", Go(c, to) PROVE \E r : SetCall(c, r) /\ r.step # "channel"
  <2>1. PICK r, s : r = editCall[c] /\ s = [r EXCEPT !.step = to]
    OBVIOUS
  <2>2. s.step = to
    BY <2>1 DEF SlotsOK, SlotOK
  <2> QED
    BY <1>2, <2>1, <2>2 DEF Go
<1>3. ASSUME NEW then, Regenerating(c, then) PROVE \E r : SetCall(c, r) /\ r.step # "channel"
  <2>1. PICK r : r = [step |-> "generate", then |-> then]
    OBVIOUS
  <2> QED
    BY <1>3, <2>1 DEF Regenerating
<1>4. ASSUME NEW todo, NextTier(c, todo) PROVE \E r : SetCall(c, r) /\ r.step # "channel"
  BY <1>4, NextIs
<1>5. CASE Refused(c)
  BY <1>5, RefusedIs
<1>6. CASE Generate(c)
  <2>1. PICK r : r = [step |-> "write", then |-> editCall[c].then, text |-> Rendered]
    OBVIOUS
  <2>2. r.step = "write"
    BY <2>1
  <2>3. Done(c) \/ SetCall(c, r)
    BY <1>6, <2>1 DEF Generate
  <2> QED
    BY <1>1, <2>2, <2>3
<1>7. CASE Signal(c)
  <2>1. PICK r : r = [step |-> "arm", channel |-> editCall[c].then]
    OBVIOUS
  <2>2. r.step = "arm"
    BY <2>1
  <2>3. Done(c) \/ SetCall(c, r)
    BY <1>7, <2>1 DEF Signal
  <2> QED
    BY <1>1, <2>2, <2>3
<1>8. CASE Upsert(c) \/ TakeArms(c) \/ WriteChannel(c)
  BY <1>1, <1>3, <1>8 DEF Upsert, TakeArms, WriteChannel
<1>9. CASE WriteScript(c) \/ EnsureConfig(c) \/ EnsureTiers(c)
  BY <1>1, <1>2, <1>4, <1>9 DEF WriteScript, EnsureConfig, EnsureTiers
<1>10. CASE CheckGraph(c)
  <2>1. PICK to : to = IF editCall[c].old = {} THEN "insert" ELSE "change"
    OBVIOUS
  <2>2. Refused(c) \/ Go(c, to)
    BY <1>10, <2>1 DEF CheckGraph
  <2> QED
    BY <1>2, <1>5, <2>1, <2>2
<1>11. CASE InsertTier(c) \/ ChangeTier(c)
  BY <1>1, <1>4, <1>5, <1>11 DEF InsertTier, ChangeTier
<1> QED
  BY <1>6, <1>7, <1>8, <1>9, <1>10, <1>11 DEF EditStep

LEMMA RowsStep ==
  ASSUME RowsInv, SlotsOK, [EditNext]_editVars
  PROVE  RowsInv'
<1>1. ASSUME NEW c \in EditCalls, EditStep(c) PROVE RowsInv'
  <2>1. PICK r : SetCall(c, r) /\ r.step # "channel"
    BY <1>1, StepIs
  <2>2. CASE WriteChannel(c)
    <3>1. active' \subseteq Playouts
      BY <2>2 DEF WriteChannel, RowsInv
    <3>2. \A d \in EditCalls : editCall'[d] = IF d = c THEN r ELSE editCall[d]
      BY <2>1 DEF SetCall, SlotsOK
    <3> QED
      BY <2>1, <3>1, <3>2 DEF RowsInv
  <2>3. CASE ~WriteChannel(c)
    <3>1. UNCHANGED active
      BY <1>1, <2>3 DEF EditStep, Upsert, TakeArms, Generate, WriteScript, Signal, CheckGraph,
         InsertTier, ChangeTier, EnsureConfig, EnsureTiers, store
    <3> QED
      BY <2>1, <3>1, RowsStay
  <2> QED
    BY <2>2, <2>3
<1>2. ASSUME NEW c \in EditCalls, EditRequest(c) PROVE RowsInv'
  <2>1. ASSUME NEW verb, NEW r, BeginEdit(verb, c, r), r.step = "channel" => r.channel \in Playouts
        PROVE  RowsInv'
    <3>1. SetCall(c, r) /\ UNCHANGED active
      BY <2>1 DEF BeginEdit, store
    <3> QED
      BY <2>1, <3>1, RowsStay
  <2>2. ASSUME NEW ch \in Playouts, SetChannel(c, ch) PROVE RowsInv'
    <3>1. PICK r : r = [step |-> "channel", channel |-> ch]
      OBVIOUS
    <3> QED
      BY <2>1, <2>2, <3>1 DEF SetChannel
  <2>3. ASSUME NEW ch, NEW mode, NEW pin, NEW then, NEW verb,
               BeginEdit(verb, c, [step |-> "upsert", channel |-> ch, mode |-> mode, pin |-> pin,
                                   then |-> then])
        PROVE  RowsInv'
    <3>1. PICK r : r = [step |-> "upsert", channel |-> ch, mode |-> mode, pin |-> pin, then |-> then]
      OBVIOUS
    <3> QED
      BY <2>1, <2>3, <3>1
  <2>4. ASSUME NEW ch, NEW new, CreateTier(c, ch, new) PROVE RowsInv'
    <3>1. PICK s : s = IF new.type = "carry" THEN "graph" ELSE "insert"
      OBVIOUS
    <3>2. PICK r : r = [step |-> s, channel |-> ch, new |-> new, old |-> {}, todo |-> <<>>]
      OBVIOUS
    <3>3. r.step # "channel"
      BY <3>1, <3>2
    <3> QED
      BY <2>1, <2>4, <3>1, <3>2, <3>3 DEF CreateTier
  <2>5. ASSUME NEW t, NEW new, UpdateTier(c, t, new) PROVE RowsInv'
    <3>1. PICK s : s = IF new.type = "carry" /\ new.source # tier[t].source THEN "graph" ELSE "change"
      OBVIOUS
    <3>2. PICK r : r = [step |-> s, channel |-> tier[t].channel, id |-> t, was |-> tier[t], new |-> new,
                        old |-> {<<tier[t].channel, tier[t].source>>}, todo |-> <<>>]
      OBVIOUS
    <3>3. r.step # "channel"
      BY <3>1, <3>2
    <3> QED
      BY <2>1, <2>5, <3>1, <3>2, <3>3 DEF UpdateTier
  <2>6. ASSUME NEW ch, TakeQueue(c, ch) PROVE RowsInv'
    <3>1. CASE settings[ch] = None \/ settings[ch].mode = "auto"
      <4>1. PICK r : r = [step |-> "arm", channel |-> ch]
        OBVIOUS
      <4> QED
        BY <2>1, <2>6, <3>1, <4>1 DEF TakeQueue
    <3>2. CASE ~(settings[ch] = None \/ settings[ch].mode = "auto")
      BY <2>3, <2>6, <3>2 DEF TakeQueue
    <3> QED
      BY <3>1, <3>2
  <2> QED
    BY <1>2, <2>2, <2>3, <2>4, <2>5, <2>6 DEF EditRequest, SetMode, SetManualTier
<1>3. ASSUME NEW c \in EditCalls, Crash(c) PROVE RowsInv'
  <2>1. UNCHANGED active /\ \A d \in EditCalls : editCall'[d].step \in {"ensure", "idle"}
    BY <1>3 DEF Crash, store, IdleEdit
  <2> QED
    BY <2>1 DEF RowsInv
<1>4. CASE UNCHANGED <<active, editCall>>
  BY <1>4 DEF RowsInv
<1> QED
  BY <1>1, <1>2, <1>3, <1>4 DEF EditNext, EditGoesOn, EngineStart, ArmQueue, DeleteTier, store, editVars

\* playout-topology.ts: in whatever order the rows come, topoSort writes the block of every
\* channel once, and after the blocks of all channels that it carries.
THEOREM BlocksInOrder == EditSpec => []CarriedFirst
<1>1. EditInit => RowsInv
  BY DEF EditInit, RowsInv, IdleEdit
<1>2. FollowInv /\ RowsInv /\ [EditNext]_editVars => RowsInv'
  BY RowsStep DEF FollowInv
<1>3. RowsInv => CarriedFirst
  <2> SUFFICES ASSUME RowsInv, ~HasCycle(carryEdges), NEW input \in SetToSeqs(rows)
               PROVE  /\ Len(TopoSort(input, carryEdges)) = Len(input)
                      /\ ToSet(TopoSort(input, carryEdges)) = rows
                      /\ \A i, j \in DOMAIN TopoSort(input, carryEdges) :
                            <<TopoSort(input, carryEdges)[i], TopoSort(input, carryEdges)[j]>>
                                \in carryEdges => j < i
    BY DEF CarriedFirst
  <2>1. rows \in SUBSET Channels /\ IsFiniteSet(Channels)
    BY EditAssumption, FS_AddElement DEF rows, Channels, RowsInv, EditAssumption
  <2>2. IsFiniteSet(rows)
    BY <2>1, FS_Subset
  <2>3. carryEdges \subseteq rows \X rows
    <3>1. ASSUME NEW t \in CarryTiers, Known(t), tier[t].channel \in rows
          PROVE  Edge(t) \in rows \X rows
      BY <3>1 DEF CarryTiers, Known, Edge
    <3> QED
      BY <3>1 DEF carryEdges
  <2>4. Acyclic(carryEdges)
    BY EditAssumption, CyclesFound
  <2>5. PICK edges : edges = carryEdges
    OBVIOUS
  <2> QED
    BY <2>1, <2>2, <2>3, <2>4, <2>5, TopoSortIs
<1> QED
  BY <1>1, <1>2, <1>3, FollowHolds, PTL DEF EditSpec
=============================================================================
