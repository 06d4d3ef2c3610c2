-------------------------- MODULE PlayoutQueueProofs --------------------------
(***************************************************************************)
(* Theorems about PlayoutQueue, for every value of its constants.          *)
(***************************************************************************)
EXTENDS PlayoutQueue, FiniteSetTheorems, SequenceTheorems, TLAPS

-----------------------------------------------------------------------------
(* Lemmas about the operators *)

\* The live rows are finitely many, so that the depth queries return a number.
LEMMA LiveFinite == IsFiniteSet(Live) /\ Cardinality(Live) \in Nat
<1>1. IsFiniteSet(Entries)
  BY PlayoutAssumption, FS_Interval DEF Entries
<1>2. Live \subseteq Entries
  BY DEF Live, WithStatus
<1> QED
  BY <1>1, <1>2, FS_Subset, FS_CardinalityType

\* ORDER BY ... LIMIT returns a list of elements of the set it orders.
LEMMA FirstByIsList ==
  ASSUME NEW key, NEW S, IsFiniteSet(S), NEW n \in Nat,
         NEW s \in FirstBy(key, S, n)
  PROVE  s \in Seq(S)
<1>1. Cardinality(S) \in Nat
  BY FS_CardinalityType
<1> QED
  BY <1>1 DEF FirstBy

-----------------------------------------------------------------------------
(* Type correctness *)

TableOK ==
    /\ status \in [Entries -> Statuses]
    /\ position \in [Entries -> Nat]
    /\ source \in [Entries -> Items \cup {None}]
    /\ pushed \in [Entries -> BOOLEAN]
    /\ born \in 0..MaxEntries
    /\ pool \subseteq library
    /\ recency \in [Items -> Nat]
    /\ library \subseteq Items

EngineOK ==
    /\ buffer \in Seq(Entries)
    /\ airing \in Entries \cup {None}
    /\ events \in Nat
    /\ accepted \subseteq Entries

\* A call that acts on a row or on a list has loaded one.
LocalsOK ==
    /\ pc \in [Handlers -> PCs]
    /\ row \in [Handlers -> Entries \cup {None}]
    /\ slot \in [Handlers -> Nat]
    /\ picks \in [Handlers -> Seq(Items)]
    /\ todo \in [Handlers -> Seq(Entries)]
    /\ startup \in Handlers \cup {None}
    /\ \A h \in Handlers :
        /\ pc[h] \in {"eventMark", "eventStats", "promoteSet", "skipMark",
                      "removeDelete"} => row[h] \in Entries
        /\ pc[h] \in {"pushSend", "pushFlag"} => todo[h] # <<>>

TypeInv == TableOK /\ EngineOK /\ LocalsOK

\* What the parts of a list that is not empty are.
LEMMA ListParts ==
  ASSUME NEW S, NEW s \in Seq(S), s # <<>>
  PROVE  /\ Head(s) \in S
         /\ Tail(s) \in Seq(S)
         /\ Len(s) # 1 => Tail(s) # <<>>
<1>1. Tail(s) \in Seq(S) /\ Len(Tail(s)) = Len(s) - 1 /\ Head(s) \in S
  BY HeadTailProperties
<1>2. Len(s) # 1 => Tail(s) # <<>>
  <2>1. Tail(s) = <<>> => Len(Tail(s)) = 0
    BY EmptySeq
  <2>2. Len(s) \in Nat
    BY LenProperties
  <2> QED
    BY <1>1, <2>1, <2>2
<1> QED
  BY <1>1, <1>2

\* MAX(position) is a number no smaller than the position of any live row.
LEMMA MaxLiveBounds ==
  ASSUME TableOK, NEW m \in MaxLivePosition
  PROVE  m \in Nat /\ \A e \in Live : position[e] <= m
BY DEF MaxLivePosition, Greatest, TableOK, Live, WithStatus

\* The rows of an INSERT are well typed and join those that were there.
LEMMA InsertRowsOK ==
  ASSUME TableOK, NEW s \in Seq(Items), NEW p \in Nat, InsertRows(s, p),
         UNCHANGED catalogue
  PROVE  TableOK'
<1> DEFINE new == born + 1 .. born + Len(s)
<1>1. born \in Nat /\ Len(s) \in Nat /\ born' = born + Len(s) /\ born' \in 0..MaxEntries
  BY PlayoutAssumption DEF TableOK, InsertRows
<1>2. \A e \in new : e - born \in 1..Len(s) /\ p + (e - born - 1) \in Nat
  BY <1>1
<1>3. \A e \in new : s[e - born] \in Items
  BY <1>2
<1>4. status' \in [Entries -> Statuses] /\ pushed' \in [Entries -> BOOLEAN]
  BY DEF TableOK, InsertRows, Statuses
<1>5. position' \in [Entries -> Nat]
  BY <1>2 DEF TableOK, InsertRows
<1>6. source' \in [Entries -> Items \cup {None}]
  BY <1>3 DEF TableOK, InsertRows
<1> QED
  BY <1>1, <1>4, <1>5, <1>6 DEF TableOK, catalogue

\* The engine's queue stays well typed when its next track starts.
LEMMA EngineNextOK ==
  ASSUME EngineOK, EngineNext, accepted' = accepted
  PROVE  EngineOK'
<1>1. CASE buffer = <<>>
  BY <1>1 DEF EngineOK, EngineNext
<1>2. CASE buffer # <<>>
  BY <1>2, ListParts DEF EngineOK, EngineNext
<1> QED
  BY <1>1, <1>2

\* Every step keeps every variable in its range.
LEMMA TypeStep == TypeInv /\ [Next]_vars => TypeInv'
<1> SUFFICES ASSUME TypeInv, [Next]_vars PROVE TypeInv'
  OBVIOUS
<1> USE DEF TypeInv, table, catalogue, engine, handlers
<1>1. ASSUME NEW h \in Handlers, TrackStarted(h) PROVE TypeInv'
  <2>1. TableOK'
    BY <1>1 DEF TrackStarted, TableOK
  <2>2. EngineOK'
    BY <1>1 DEF TrackStarted, EngineOK, LocalsOK
  <2>3. LocalsOK'
    BY <1>1 DEF TrackStarted, LocalsOK, PCs, Goto, Playing, WithStatus
  <2> QED
    BY <2>1, <2>2, <2>3
<1>2. ASSUME NEW h \in Handlers, EventMark(h) PROVE TypeInv'
  <2>1. TableOK'
    BY <1>2 DEF EventMark, SetStatus, TableOK, LocalsOK, Entries, Statuses
  <2>2. EngineOK'
    BY <1>2 DEF EventMark, SetStatus, EngineOK
  <2>3. LocalsOK'
    BY <1>2 DEF EventMark, SetStatus, LocalsOK, PCs, Goto
  <2> QED
    BY <2>1, <2>2, <2>3
<1>3. ASSUME NEW h \in Handlers, EventStats(h) PROVE TypeInv'
  <2>1. TableOK'
    <3>1. CASE source[row[h]] \in pool
      <4>1. PICK m \in Greatest({0} \cup {recency[i] : i \in pool}) :
                recency' = [recency EXCEPT ![source[row[h]]] = m + 1]
        BY <1>3, <3>1 DEF EventStats
      <4>2. m \in Nat
        BY DEF Greatest, TableOK
      <4>3. recency \in [Items -> Nat] /\ m + 1 \in Nat
        BY <4>2 DEF TableOK
      <4>4. \A x \in Items, n \in Nat : [recency EXCEPT ![x] = n] \in [Items -> Nat]
        BY <4>3
      <4>5. recency' \in [Items -> Nat]
        BY <3>1, <4>1, <4>3, <4>4
      <4> QED
        BY <1>3, <4>5 DEF EventStats, TableOK
    <3> QED
      BY <1>3, <3>1 DEF EventStats, TableOK
  <2>2. EngineOK'
    BY <1>3 DEF EventStats, Greatest, EngineOK
  <2>3. LocalsOK'
    BY <1>3 DEF EventStats, Greatest, LocalsOK, PCs, Goto
  <2> QED
    BY <2>1, <2>2, <2>3
<1>4. ASSUME NEW h \in Handlers, PromotePick(h) PROVE TypeInv'
  <2>1. TableOK'
    BY <1>4 DEF PromotePick, TableOK
  <2>2. EngineOK'
    BY <1>4 DEF PromotePick, EngineOK
  <2>3. LocalsOK'
    BY <1>4 DEF PromotePick, LocalsOK, PCs, Goto, Queued, WithStatus
  <2> QED
    BY <2>1, <2>2, <2>3
<1>5. ASSUME NEW h \in Handlers, PromoteSet(h) PROVE TypeInv'
  <2>1. TableOK'
    BY <1>5 DEF PromoteSet, SetStatus, TableOK, LocalsOK, Entries, Statuses
  <2>2. EngineOK'
    BY <1>5 DEF PromoteSet, SetStatus, EngineOK
  <2>3. LocalsOK'
    BY <1>5 DEF PromoteSet, SetStatus, LocalsOK, PCs, Goto
  <2> QED
    BY <2>1, <2>2, <2>3
<1>6. ASSUME NEW h \in Handlers, FillDepth(h) PROVE TypeInv'
  <2>1. TableOK'
    BY <1>6 DEF FillDepth, TableOK
  <2>2. EngineOK'
    BY <1>6 DEF FillDepth, EngineOK
  <2>3. LocalsOK'
    <3>1. Cardinality(Live) < AutoFillThreshold
            => AutoFillBatch - Cardinality(Live) \in Nat
      BY LiveFinite, PlayoutAssumption
    <3> QED
      BY <1>6, <3>1 DEF FillDepth, LocalsOK, PCs, Goto
  <2> QED
    BY <2>1, <2>2, <2>3
<1>7. ASSUME NEW h \in Handlers, FillPick(h) PROVE TypeInv'
  <2>1. TableOK'
    BY <1>7 DEF FillPick, TableOK
  <2>2. EngineOK'
    BY <1>7 DEF FillPick, EngineOK
  <2>3. LocalsOK'
    <3>1. PICK s : /\ s \in Seq(Items)
                   /\ picks' = [picks EXCEPT ![h] = s]
                   /\ Goto(h, IF s = <<>> THEN "pushSelect" ELSE "fillMax")
      <4>1. MaxEntries - born \in Nat
        BY PlayoutAssumption DEF TableOK
      <4>2. PICK n \in Nat : \E s \in FirstBy(recency, Candidates, n) :
                /\ picks' = [picks EXCEPT ![h] = s]
                /\ Goto(h, IF s = <<>> THEN "pushSelect" ELSE "fillMax")
        BY <1>7, <4>1 DEF FillPick, LocalsOK
      <4>3. IsFiniteSet(Candidates)
        BY PlayoutAssumption, FS_Subset DEF Candidates, TableOK
      <4>4. PICK s \in FirstBy(recency, Candidates, n) :
                /\ picks' = [picks EXCEPT ![h] = s]
                /\ Goto(h, IF s = <<>> THEN "pushSelect" ELSE "fillMax")
        BY <4>2
      <4>5. s \in Seq(Candidates)
        BY <4>3, FirstByIsList
      <4>6. s \in Seq(Items)
        BY <4>5 DEF Candidates, TableOK
      <4> QED
        BY <4>4, <4>6
    <3> QED
      BY <1>7, <3>1 DEF FillPick, LocalsOK, PCs, Goto
  <2> QED
    BY <2>1, <2>2, <2>3
<1>8. ASSUME NEW h \in Handlers, FillMax(h) PROVE TypeInv'
  <2>1. TableOK'
    BY <1>8 DEF FillMax, TableOK
  <2>2. EngineOK'
    BY <1>8 DEF FillMax, EngineOK
  <2>3. LocalsOK'
    BY <1>8, MaxLiveBounds DEF FillMax, LocalsOK, PCs, Goto
  <2> QED
    BY <2>1, <2>2, <2>3
<1>9. ASSUME NEW h \in Handlers, FillRows(h) PROVE TypeInv'
  <2>1. TableOK'
    <3>1. CASE InsertRows(picks[h], slot[h])
      BY <1>9, <3>1, InsertRowsOK DEF FillRows, LocalsOK
    <3>2. CASE UNCHANGED table
      BY <1>9, <3>2 DEF FillRows, TableOK
    <3> QED
      BY <1>9, <3>1, <3>2 DEF FillRows
  <2>2. EngineOK'
    BY <1>9 DEF FillRows, InsertRows, EngineOK
  <2>3. LocalsOK'
    <3>1. \E p \in {"pushSelect", "idle"} : Goto(h, p)
      BY <1>9 DEF FillRows
    <3>2. picks' = [picks EXCEPT ![h] = <<>>] /\ slot' = [slot EXCEPT ![h] = 0]
      BY <1>9 DEF FillRows
    <3>3. UNCHANGED <<row, todo, startup>>
      BY <1>9 DEF FillRows
    <3> QED
      BY <3>1, <3>2, <3>3 DEF LocalsOK, PCs, Goto
  <2> QED
    BY <2>1, <2>2, <2>3
<1>10. ASSUME NEW h \in Handlers, PushSelect(h) PROVE TypeInv'
  <2>1. TableOK'
    BY <1>10 DEF PushSelect, TableOK
  <2>2. EngineOK'
    BY <1>10 DEF PushSelect, EngineOK
  <2>3. LocalsOK'
    <3> DEFINE U == {e \in Live : ~pushed[e]}
    <3>1. PICK s \in FirstBy(position, U, PrefetchDepth) :
              /\ todo' = [todo EXCEPT ![h] = s]
              /\ Goto(h, IF s = <<>> THEN "idle" ELSE "pushSend")
      BY <1>10 DEF PushSelect
    <3>2. IsFiniteSet(U)
      BY LiveFinite, FS_Subset
    <3>3. s \in Seq(U)
      <4> HIDE DEF U
      <4> QED
        BY <3>2, FirstByIsList, PlayoutAssumption
    <3>4. s \in Seq(Entries)
      BY <3>3 DEF Live, WithStatus
    <3> QED
      BY <1>10, <3>1, <3>4 DEF PushSelect, LocalsOK, PCs, Goto
  <2> QED
    BY <2>1, <2>2, <2>3
<1>11. ASSUME NEW h \in Handlers, PushSend(h) PROVE TypeInv'
  <2>1. TableOK'
    BY <1>11 DEF PushSend, EngineTakes, PushRest, TableOK
  <2>2. EngineOK'
    <3>1. Head(todo[h]) \in Entries
      BY <1>11, ListParts DEF PushSend, LocalsOK
    <3> QED
      BY <1>11, <3>1 DEF PushSend, EngineTakes, EngineOK
  <2>3. LocalsOK'
    <3>1. Tail(todo[h]) \in Seq(Entries) /\ (Len(todo[h]) # 1 => Tail(todo[h]) # <<>>)
      BY <1>11, ListParts DEF PushSend, LocalsOK
    <3>2. CASE PushRest(h)
      BY <1>11, <3>1, <3>2 DEF PushSend, PushRest, LocalsOK, PCs, Goto
    <3>3. CASE Goto(h, "pushFlag") /\ UNCHANGED todo
      BY <1>11, <3>3 DEF PushSend, LocalsOK, PCs, Goto
    <3> QED
      BY <1>11, <3>2, <3>3 DEF PushSend
  <2> QED
    BY <2>1, <2>2, <2>3
<1>12. ASSUME NEW h \in Handlers, PushFlag(h) PROVE TypeInv'
  <2>1. TableOK'
    BY <1>12 DEF PushFlag, PushRest, TableOK, LocalsOK, Entries, Statuses
  <2>2. EngineOK'
    BY <1>12 DEF PushFlag, PushRest, EngineOK
  <2>3. LocalsOK'
    <3>1. Tail(todo[h]) \in Seq(Entries) /\ (Len(todo[h]) # 1 => Tail(todo[h]) # <<>>)
      BY <1>12, ListParts DEF PushFlag, LocalsOK
    <3> QED
      BY <1>12, <3>1 DEF PushFlag, PushRest, LocalsOK, PCs, Goto
  <2> QED
    BY <2>1, <2>2, <2>3
<1>13. ASSUME NEW h \in Handlers, Skip(h) PROVE TypeInv'
  <2>1. TableOK'
    BY <1>13 DEF Skip, TableOK
  <2>2. EngineOK'
    BY <1>13 DEF Skip, EngineOK
  <2>3. LocalsOK'
    BY <1>13 DEF Skip, LocalsOK, PCs, Goto, Playing, WithStatus
  <2> QED
    BY <2>1, <2>2, <2>3
<1>14. ASSUME NEW h \in Handlers, SkipMark(h) PROVE TypeInv'
  <2>1. TableOK'
    BY <1>14 DEF SkipMark, SetStatus, TableOK, LocalsOK, Entries, Statuses
  <2>2. EngineOK'
    BY <1>14 DEF SkipMark, SetStatus, EngineOK
  <2>3. LocalsOK'
    BY <1>14 DEF SkipMark, SetStatus, LocalsOK, PCs, Goto
  <2> QED
    BY <2>1, <2>2, <2>3
<1>15. ASSUME NEW h \in Handlers, SkipEngine(h) PROVE TypeInv'
  <2>1. TableOK'
    BY <1>15 DEF SkipEngine, EngineNext, TableOK
  <2>2. EngineOK'
    BY <1>15, EngineNextOK DEF SkipEngine, EngineOK
  <2>3. LocalsOK'
    BY <1>15 DEF SkipEngine, EngineNext, LocalsOK, PCs, Goto
  <2> QED
    BY <2>1, <2>2, <2>3
<1>16. ASSUME NEW h \in Handlers, InsertRow(h) PROVE TypeInv'
  <2>1. TableOK'
    <3>1. CASE InsertRows(picks[h], slot[h])
      BY <1>16, <3>1, InsertRowsOK DEF InsertRow, LocalsOK
    <3>2. CASE UNCHANGED table
      BY <1>16, <3>2 DEF InsertRow, TableOK
    <3> QED
      BY <1>16, <3>1, <3>2 DEF InsertRow
  <2>2. EngineOK'
    BY <1>16 DEF InsertRow, InsertRows, EngineOK
  <2>3. LocalsOK'
    <3>1. \E p \in {"pushSelect", "idle"} : Goto(h, p)
      BY <1>16 DEF InsertRow
    <3>2. picks' = [picks EXCEPT ![h] = <<>>] /\ slot' = [slot EXCEPT ![h] = 0]
      BY <1>16 DEF InsertRow
    <3>3. UNCHANGED <<row, todo, startup>>
      BY <1>16 DEF InsertRow
    <3> QED
      BY <3>1, <3>2, <3>3 DEF LocalsOK, PCs, Goto
  <2> QED
    BY <2>1, <2>2, <2>3
<1>17. ASSUME NEW h \in Handlers, RemoveDelete(h) PROVE TypeInv'
  <2>1. TableOK'
    BY <1>17 DEF RemoveDelete, DeleteRows, TableOK, LocalsOK, Entries, Statuses
  <2>2. EngineOK'
    BY <1>17 DEF RemoveDelete, DeleteRows, EngineOK
  <2>3. LocalsOK'
    BY <1>17 DEF RemoveDelete, DeleteRows, LocalsOK, PCs, Goto
  <2> QED
    BY <2>1, <2>2, <2>3
<1>18. ASSUME NEW h \in Handlers, StartupReset(h) PROVE TypeInv'
  <2>1. TableOK'
    BY <1>18 DEF StartupReset, TableOK, LocalsOK, Entries, Statuses
  <2>2. EngineOK'
    BY <1>18 DEF StartupReset, EngineOK
  <2>3. LocalsOK'
    BY <1>18 DEF StartupReset, LocalsOK, PCs, Goto
  <2> QED
    BY <2>1, <2>2, <2>3
<1>19. ASSUME NEW h \in Handlers, NEW i \in Items, AppendItem(h, i) PROVE TypeInv'
  <2>1. TableOK'
    BY <1>19 DEF AppendItem, TableOK
  <2>2. EngineOK'
    BY <1>19 DEF AppendItem, EngineOK
  <2>3. LocalsOK'
    BY <1>19, MaxLiveBounds DEF AppendItem, LocalsOK, PCs, Goto
  <2> QED
    BY <2>1, <2>2, <2>3
<1>20. ASSUME NEW h \in Handlers, NEW i \in Items, NEW p \in InsertPositions, InsertItemAt(h, i, p) PROVE TypeInv'
  <2>1. TableOK'
    BY <1>20 DEF InsertItemAt, TableOK, LocalsOK, Entries, Statuses
  <2>2. EngineOK'
    BY <1>20 DEF InsertItemAt, EngineOK
  <2>3. LocalsOK'
    BY <1>20, PlayoutAssumption DEF InsertItemAt, LocalsOK, PCs, Goto
  <2> QED
    BY <2>1, <2>2, <2>3
<1>21. ASSUME NEW h \in Handlers, NEW e \in Entries, RemoveLoad(h, e) PROVE TypeInv'
  <2>1. TableOK'
    BY <1>21 DEF RemoveLoad, TableOK
  <2>2. EngineOK'
    BY <1>21 DEF RemoveLoad, EngineOK
  <2>3. LocalsOK'
    BY <1>21 DEF RemoveLoad, LocalsOK, PCs, Goto
  <2> QED
    BY <2>1, <2>2, <2>3
<1>22. ASSUME NEW h \in Handlers, NEW e \in Entries, RemoveRefused(h, e) PROVE TypeInv'
  BY <1>22 DEF RemoveRefused, vars, TableOK, EngineOK, LocalsOK
<1>23. ASSUME NEW i \in Items, AssignItem(i) PROVE TypeInv'
  BY <1>23 DEF AssignItem, TableOK, EngineOK, LocalsOK
<1>24. ASSUME NEW i \in Items, RemoveItem(i) PROVE TypeInv'
  BY <1>24 DEF RemoveItem, TableOK, EngineOK, LocalsOK
<1>25. ASSUME NEW i \in Items, DeleteItem(i) PROVE TypeInv'
  BY <1>25 DEF DeleteItem, DeleteRows, Statuses, TableOK, EngineOK, LocalsOK
<1>26. CASE CleanupPlayed
  BY <1>26 DEF CleanupPlayed, DeleteRows, Statuses, TableOK, EngineOK, LocalsOK
<1>27. CASE EngineAdvance
  BY <1>27, EngineNextOK DEF EngineAdvance, TableOK, LocalsOK
<1>28. CASE EngineRestart
  BY <1>28 DEF EngineRestart, TableOK, EngineOK, LocalsOK
<1>29. CASE LoseEvent
  BY <1>29 DEF LoseEvent, TableOK, EngineOK, LocalsOK
<1>30. CASE ApiRestart
  BY <1>30 DEF ApiRestart, PCs, TableOK, EngineOK, LocalsOK
<1>31. CASE UNCHANGED vars
  BY <1>31 DEF vars, TableOK, EngineOK, LocalsOK
<1> QED
  BY <1>1, <1>2, <1>3, <1>4, <1>5, <1>6, <1>7, <1>8, <1>9, <1>10,
     <1>11, <1>12, <1>13, <1>14, <1>15, <1>16, <1>17, <1>18, <1>19, <1>20,
     <1>21, <1>22, <1>23, <1>24, <1>25, <1>26, <1>27, <1>28, <1>29, <1>30,
     <1>31
  DEF Next, Step, Request

\* The initial states are well typed.
LEMMA TypeInit == Init => TypeInv
BY PlayoutAssumption DEF Init, TypeInv, TableOK, EngineOK, LocalsOK, PCs,
   Statuses, Entries

\* Every variable stays in its range, however many calls overlap.
THEOREM TypeCorrect == Spec => []TypeOK
<1>2. TypeInv => TypeOK
  BY DEF TypeInv, TypeOK, TableOK, EngineOK, LocalsOK
<1> QED
  BY <1>2, TypeInit, TypeStep, PTL DEF Spec

-----------------------------------------------------------------------------
(* What the pushed column says *)

\* pushed is set from the acknowledgement alone: between the engine's answer
\* and the UPDATE a call holds an entry that the engine has taken.
PushedInv ==
    /\ PushedWasAccepted
    /\ \A h \in Handlers : pc[h] = "pushFlag" => Head(todo[h]) \in accepted

\* Every step keeps what the pushed column says true.
LEMMA PushedStep == TypeInv /\ PushedInv /\ [Next]_vars => PushedInv'
<1> SUFFICES ASSUME TypeInv, PushedInv, [Next]_vars PROVE PushedInv'
  OBVIOUS
<1> USE DEF TypeInv, LocalsOK, PushedInv, PushedWasAccepted, table, catalogue, engine, handlers, Goto
<1>1. ASSUME NEW h \in Handlers, TrackStarted(h) PROVE PushedInv'
  BY <1>1 DEF TrackStarted
<1>2. ASSUME NEW h \in Handlers, EventMark(h) PROVE PushedInv'
  BY <1>2 DEF EventMark, SetStatus
<1>3. ASSUME NEW h \in Handlers, EventStats(h) PROVE PushedInv'
  BY <1>3 DEF EventStats
<1>4. ASSUME NEW h \in Handlers, PromotePick(h) PROVE PushedInv'
  BY <1>4 DEF PromotePick
<1>5. ASSUME NEW h \in Handlers, PromoteSet(h) PROVE PushedInv'
  BY <1>5 DEF PromoteSet
<1>6. ASSUME NEW h \in Handlers, FillDepth(h) PROVE PushedInv'
  BY <1>6 DEF FillDepth
<1>7. ASSUME NEW h \in Handlers, FillPick(h) PROVE PushedInv'
  BY <1>7 DEF FillPick
<1>8. ASSUME NEW h \in Handlers, FillMax(h) PROVE PushedInv'
  BY <1>8 DEF FillMax
<1>9. ASSUME NEW h \in Handlers, FillRows(h) PROVE PushedInv'
  BY <1>9 DEF FillRows, InsertRows, TableOK
<1>10. ASSUME NEW h \in Handlers, PushSelect(h) PROVE PushedInv'
  BY <1>10 DEF PushSelect
<1>11. ASSUME NEW h \in Handlers, PushSend(h) PROVE PushedInv'
  BY <1>11 DEF PushSend, PushRest, EngineTakes
<1>12. ASSUME NEW h \in Handlers, PushFlag(h) PROVE PushedInv'
  <2>1. Head(todo[h]) \in Entries
    BY <1>12, ListParts DEF PushFlag
  <2> QED
    BY <1>12, <2>1 DEF PushFlag, PushRest, TableOK
<1>13. ASSUME NEW h \in Handlers, Skip(h) PROVE PushedInv'
  BY <1>13 DEF Skip
<1>14. ASSUME NEW h \in Handlers, SkipMark(h) PROVE PushedInv'
  BY <1>14 DEF SkipMark
<1>15. ASSUME NEW h \in Handlers, SkipEngine(h) PROVE PushedInv'
  BY <1>15 DEF SkipEngine, EngineNext
<1>16. ASSUME NEW h \in Handlers, InsertRow(h) PROVE PushedInv'
  BY <1>16 DEF InsertRow, InsertRows, TableOK
<1>17. ASSUME NEW h \in Handlers, RemoveDelete(h) PROVE PushedInv'
  BY <1>17 DEF RemoveDelete, DeleteRows, TableOK
<1>18. ASSUME NEW h \in Handlers, StartupReset(h) PROVE PushedInv'
  BY <1>18 DEF StartupReset, TableOK
<1>19. ASSUME NEW h \in Handlers, NEW i \in Items, AppendItem(h, i) PROVE PushedInv'
  BY <1>19 DEF AppendItem
<1>20. ASSUME NEW h \in Handlers, NEW i \in Items,
            NEW p \in InsertPositions, InsertItemAt(h, i, p) PROVE PushedInv'
  BY <1>20 DEF InsertItemAt
<1>21. ASSUME NEW h \in Handlers, NEW e \in Entries, RemoveLoad(h, e) PROVE PushedInv'
  BY <1>21 DEF RemoveLoad
<1>22. ASSUME NEW h \in Handlers, NEW e \in Entries, RemoveRefused(h, e) PROVE PushedInv'
  BY <1>22 DEF RemoveRefused, vars
<1>23. ASSUME NEW i \in Items, AssignItem(i) PROVE PushedInv'
  BY <1>23 DEF AssignItem
<1>24. ASSUME NEW i \in Items, RemoveItem(i) PROVE PushedInv'
  BY <1>24 DEF RemoveItem
<1>25. ASSUME NEW i \in Items, DeleteItem(i) PROVE PushedInv'
  BY <1>25 DEF DeleteItem, DeleteRows, TableOK
<1>26. CASE CleanupPlayed
  BY <1>26 DEF CleanupPlayed, DeleteRows, TableOK
<1>27. CASE EngineAdvance
  BY <1>27 DEF EngineAdvance, EngineNext
<1>28. CASE EngineRestart
  BY <1>28 DEF EngineRestart
<1>29. CASE LoseEvent
  BY <1>29 DEF LoseEvent
<1>30. CASE ApiRestart
  BY <1>30 DEF ApiRestart
<1>31. CASE UNCHANGED vars
  BY <1>31 DEF vars
<1> QED
  BY <1>1, <1>2, <1>3, <1>4, <1>5, <1>6, <1>7, <1>8, <1>9, <1>10, <1>11,
     <1>12, <1>13, <1>14, <1>15, <1>16, <1>17, <1>18, <1>19, <1>20, <1>21,
     <1>22, <1>23, <1>24, <1>25, <1>26, <1>27, <1>28, <1>29, <1>30, <1>31
  DEF Next, Step, Request

\* Whatever calls overlap and whatever fails, an entry is flagged as pushed only
\* if the engine took it: pushPrefetchBuffer never loses an entry by its flag.
THEOREM PushedAccepted == Spec => []PushedWasAccepted
<1>1. Init => TypeInv /\ PushedInv
  BY TypeInit DEF Init, PushedInv, PushedWasAccepted, Entries
<1>2. TypeInv /\ PushedInv /\ [Next]_vars => TypeInv' /\ PushedInv'
  BY TypeStep, PushedStep
<1>3. PushedInv => PushedWasAccepted
  BY DEF PushedInv
<1> QED
  BY <1>1, <1>2, <1>3, PTL DEF Spec

-----------------------------------------------------------------------------
(* The life of an entry *)

\* A row in the hands of markPlayed left the queue before; a row that was never
\* inserted has no status, and no call has loaded it.
LifeInv ==
    /\ \A e \in Entries : e > born => status[e] = "absent"
    /\ \A h \in Handlers :
        /\ row[h] # None => row[h] <= born
        /\ pc[h] \in {"eventMark", "skipMark"} => status[row[h]] # "queued"

\* What a step may do to the status of one entry.
EntryStep(e) ==
    /\ status[e] = "queued" => status'[e] # "played"
    /\ status[e] \in {"playing", "played"} => status'[e] # "queued"
    /\ status[e] = "absent" /\ e <= born => status'[e] = "absent"

LifeStep == LifeInv' /\ \A e \in Entries : EntryStep(e)

\* An INSERT touches the rows it adds and no other.
LEMMA InsertRowsLife ==
  ASSUME TypeInv, LifeInv, NEW s \in Seq(Items), NEW p \in Nat, InsertRows(s, p)
  PROVE  /\ born \in Nat /\ born' \in Nat /\ born <= born'
         /\ status' \in [Entries -> Statuses]
         /\ \A e \in Entries : e <= born => status'[e] = status[e]
         /\ \A e \in Entries : e > born' => status'[e] = "absent"
<1>1. born \in Nat /\ Len(s) \in Nat /\ born' = born + Len(s)
  BY PlayoutAssumption DEF TypeInv, TableOK, InsertRows
<1>2. \A e \in Entries : e \in Nat /\ (e <= born \/ e > born' => e \notin born + 1 .. born + Len(s))
  BY <1>1 DEF Entries
<1> QED
  BY <1>1, <1>2 DEF InsertRows, TypeInv, TableOK, LifeInv, Statuses

\* Every step keeps LifeInv and moves every entry on, never back.
LEMMA EveryLifeStep == TypeInv /\ LifeInv /\ [Next]_vars => LifeStep
<1> SUFFICES ASSUME TypeInv, LifeInv, [Next]_vars PROVE LifeStep
  OBVIOUS
<1>0. None \notin Entries /\ born \in Nat /\ \A e \in Entries : e \in Nat
  BY PlayoutAssumption DEF TypeInv, TableOK, Entries
<1>a. \A e \in Entries : status[e] # "absent" => e <= born
  BY <1>0 DEF LifeInv
<1> USE <1>0 DEF TypeInv, LocalsOK, TableOK, LifeStep, LifeInv, EntryStep, table, catalogue, engine,
      handlers, Goto
<1>1. ASSUME NEW h \in Handlers, TrackStarted(h) PROVE LifeStep
  BY <1>1, <1>a DEF TrackStarted, Playing, WithStatus
<1>2. ASSUME NEW h \in Handlers, EventMark(h) PROVE LifeStep
  BY <1>2 DEF EventMark, SetStatus
<1>3. ASSUME NEW h \in Handlers, EventStats(h) PROVE LifeStep
  BY <1>3 DEF EventStats
<1>4. ASSUME NEW h \in Handlers, PromotePick(h) PROVE LifeStep
  BY <1>4, <1>a DEF PromotePick, Queued, WithStatus
<1>5. ASSUME NEW h \in Handlers, PromoteSet(h) PROVE LifeStep
  BY <1>5 DEF PromoteSet, SetStatus
<1>6. ASSUME NEW h \in Handlers, FillDepth(h) PROVE LifeStep
  BY <1>6 DEF FillDepth
<1>7. ASSUME NEW h \in Handlers, FillPick(h) PROVE LifeStep
  BY <1>7 DEF FillPick
<1>8. ASSUME NEW h \in Handlers, FillMax(h) PROVE LifeStep
  BY <1>8 DEF FillMax
<1>9. ASSUME NEW h \in Handlers, FillRows(h) PROVE LifeStep
  <2>1. picks[h] \in Seq(Items) /\ slot[h] \in Nat
    OBVIOUS
  <2>2. row' = row /\ \E p \in {"pushSelect", "idle"} : pc' = [pc EXCEPT ![h] = p]
    BY <1>9 DEF FillRows
  <2>3. CASE InsertRows(picks[h], slot[h])
    <3>1. /\ born' \in Nat /\ born <= born'
          /\ \A e \in Entries : e <= born => status'[e] = status[e]
          /\ \A e \in Entries : e > born' => status'[e] = "absent"
      BY <2>1, <2>3, InsertRowsLife
    <3>2. \A e \in Entries : EntryStep(e)
      BY <3>1
    <3>3. \A k \in Handlers : row[k] # None => row[k] \in Entries /\ row[k] <= born'
      BY <3>1
    <3>4. \A k \in Handlers : pc'[k] \in {"eventMark", "skipMark"} =>
            row[k] \in Entries /\ row[k] <= born /\ status[row[k]] # "queued"
      BY <2>2
    <3> QED
      BY <2>2, <3>1, <3>2, <3>3, <3>4
  <2>4. CASE UNCHANGED table
    BY <2>4, <2>2
  <2> QED
    BY <1>9, <2>3, <2>4 DEF FillRows
<1>10. ASSUME NEW h \in Handlers, PushSelect(h) PROVE LifeStep
  BY <1>10 DEF PushSelect
<1>11. ASSUME NEW h \in Handlers, PushSend(h) PROVE LifeStep
  BY <1>11 DEF PushSend, PushRest
<1>12. ASSUME NEW h \in Handlers, PushFlag(h) PROVE LifeStep
  BY <1>12 DEF PushFlag, PushRest
<1>13. ASSUME NEW h \in Handlers, Skip(h) PROVE LifeStep
  BY <1>13, <1>a DEF Skip, Playing, WithStatus
<1>14. ASSUME NEW h \in Handlers, SkipMark(h) PROVE LifeStep
  BY <1>14 DEF SkipMark, SetStatus
<1>15. ASSUME NEW h \in Handlers, SkipEngine(h) PROVE LifeStep
  BY <1>15 DEF SkipEngine
<1>16. ASSUME NEW h \in Handlers, InsertRow(h) PROVE LifeStep
  <2>1. picks[h] \in Seq(Items) /\ slot[h] \in Nat
    OBVIOUS
  <2>2. row' = row /\ \E p \in {"pushSelect", "idle"} : pc' = [pc EXCEPT ![h] = p]
    BY <1>16 DEF InsertRow
  <2>3. CASE InsertRows(picks[h], slot[h])
    <3>1. /\ born' \in Nat /\ born <= born'
          /\ \A e \in Entries : e <= born => status'[e] = status[e]
          /\ \A e \in Entries : e > born' => status'[e] = "absent"
      BY <2>1, <2>3, InsertRowsLife
    <3>2. \A e \in Entries : EntryStep(e)
      BY <3>1
    <3>3. \A k \in Handlers : row[k] # None => row[k] \in Entries /\ row[k] <= born'
      BY <3>1
    <3>4. \A k \in Handlers : pc'[k] \in {"eventMark", "skipMark"} =>
            row[k] \in Entries /\ row[k] <= born /\ status[row[k]] # "queued"
      BY <2>2
    <3> QED
      BY <2>2, <3>1, <3>2, <3>3, <3>4
  <2>4. CASE UNCHANGED table
    BY <2>4, <2>2
  <2> QED
    BY <1>16, <2>3, <2>4 DEF InsertRow
<1>17. ASSUME NEW h \in Handlers, RemoveDelete(h) PROVE LifeStep
  BY <1>17 DEF RemoveDelete, DeleteRows
<1>18. ASSUME NEW h \in Handlers, StartupReset(h) PROVE LifeStep
  BY <1>18 DEF StartupReset
<1>19. ASSUME NEW h \in Handlers, NEW i \in Items, AppendItem(h, i) PROVE LifeStep
  BY <1>19 DEF AppendItem
<1>20. ASSUME NEW h \in Handlers, NEW i \in Items,
            NEW p \in InsertPositions, InsertItemAt(h, i, p) PROVE LifeStep
  BY <1>20 DEF InsertItemAt
<1>21. ASSUME NEW h \in Handlers, NEW e \in Entries, RemoveLoad(h, e) PROVE LifeStep
  BY <1>21 DEF RemoveLoad
<1>22. ASSUME NEW h \in Handlers, NEW e \in Entries, RemoveRefused(h, e) PROVE LifeStep
  BY <1>22 DEF RemoveRefused, vars
<1>23. ASSUME NEW i \in Items, AssignItem(i) PROVE LifeStep
  BY <1>23 DEF AssignItem
<1>24. ASSUME NEW i \in Items, RemoveItem(i) PROVE LifeStep
  BY <1>24 DEF RemoveItem
<1>25. ASSUME NEW i \in Items, DeleteItem(i) PROVE LifeStep
  BY <1>25 DEF DeleteItem, DeleteRows
<1>26. CASE CleanupPlayed
  BY <1>26 DEF CleanupPlayed, DeleteRows, WithStatus
<1>27. CASE EngineAdvance
  BY <1>27 DEF EngineAdvance
<1>28. CASE EngineRestart
  BY <1>28 DEF EngineRestart
<1>29. CASE LoseEvent
  BY <1>29 DEF LoseEvent
<1>30. CASE ApiRestart
  BY <1>30 DEF ApiRestart
<1>31. CASE UNCHANGED vars
  BY <1>31 DEF vars
<1> QED
  BY <1>1, <1>2, <1>3, <1>4, <1>5, <1>6, <1>7, <1>8, <1>9, <1>10, <1>11,
     <1>12, <1>13, <1>14, <1>15, <1>16, <1>17, <1>18, <1>19, <1>20, <1>21,
     <1>22, <1>23, <1>24, <1>25, <1>26, <1>27, <1>28, <1>29, <1>30, <1>31
  DEF Next, Step, Request

\* However calls overlap, and whatever fails, no step marks a queued row played,
\* puts a playing or a played row back in the queue, or brings a deleted row back,
\* though markPlayed and promoteNext write by id unconditionally. It does not say
\* that a played row stays so: promotes that overlap may put it on once more.
THEOREM EntriesMoveOn == Spec => NeverRequeued
<1>1. Init => TypeInv /\ LifeInv
  BY TypeInit DEF Init, LifeInv
<1>2. TypeInv /\ LifeInv /\ [Next]_vars => TypeInv' /\ LifeInv'
  BY TypeStep, EveryLifeStep DEF LifeStep
<1>3. TypeInv /\ LifeInv /\ [Next]_vars
        => [\A e \in Entries :
              /\ status[e] = "queued" => status'[e] # "played"
              /\ status[e] \in {"playing", "played"} => status'[e] # "queued"
              /\ status[e] = "absent" /\ e <= born => status'[e] = "absent"]_vars
  BY EveryLifeStep DEF LifeStep, EntryStep
<1> QED
  BY <1>1, <1>2, <1>3, PTL DEF Spec, NeverRequeued

=============================================================================
