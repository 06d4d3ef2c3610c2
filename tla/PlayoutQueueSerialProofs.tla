---------------------- MODULE PlayoutQueueSerialProofs ----------------------
(***************************************************************************)
(* Theorems about PlayoutQueue when calls do not overlap: one slot, any    *)
(* number of entries, items and faults, and crashes between any two steps. *)
(***************************************************************************)
EXTENDS PlayoutQueueProofs

\* The API handles one call at a time.
OneAtATime == \E h : Handlers = {h}

-----------------------------------------------------------------------------
(* One entry is on *)

\* A call that has looked for the playing row is about to end it, or has.
PlayingInv ==
    /\ AtMostOnePlaying
    /\ \A h \in Handlers :
        /\ pc[h] \in {"eventMark", "skipMark"} => Playing \subseteq {row[h]}
        /\ pc[h] \in {"eventStats", "skipEngine", "promotePick", "promoteSet"}
             => Playing = {}

\* Every step that runs alone keeps at most one entry playing.
LEMMA PlayingStep ==
  ASSUME OneAtATime
  PROVE  TypeInv /\ PlayingInv /\ [Next]_vars => PlayingInv'
<1> SUFFICES ASSUME TypeInv, PlayingInv, [Next]_vars PROVE PlayingInv'
  OBVIOUS
<1>a. PICK k : Handlers = {k}
  BY DEF OneAtATime
<1> USE <1>a DEF TypeInv, LocalsOK, TableOK, PlayingInv, AtMostOnePlaying,
      Playing, WithStatus, table, catalogue, engine, handlers, Goto
<1>1. ASSUME NEW h \in Handlers, TrackStarted(h) PROVE PlayingInv'
  BY <1>1 DEF TrackStarted
<1>2. ASSUME NEW h \in Handlers, EventMark(h) PROVE PlayingInv'
  BY <1>2 DEF EventMark, SetStatus
<1>3. ASSUME NEW h \in Handlers, EventStats(h) PROVE PlayingInv'
  BY <1>3 DEF EventStats
<1>4. ASSUME NEW h \in Handlers, PromotePick(h) PROVE PlayingInv'
  BY <1>4 DEF PromotePick
<1>5. ASSUME NEW h \in Handlers, PromoteSet(h) PROVE PlayingInv'
  BY <1>5 DEF PromoteSet, SetStatus
<1>6. ASSUME NEW h \in Handlers, FillDepth(h) PROVE PlayingInv'
  BY <1>6 DEF FillDepth
<1>7. ASSUME NEW h \in Handlers, FillPick(h) PROVE PlayingInv'
  BY <1>7 DEF FillPick
<1>8. ASSUME NEW h \in Handlers, FillMax(h) PROVE PlayingInv'
  BY <1>8 DEF FillMax
<1>9. ASSUME NEW h \in Handlers, FillRows(h) PROVE PlayingInv'
  <2>1. \E p \in {"pushSelect", "idle"} : pc' = [pc EXCEPT ![h] = p]
    BY <1>9 DEF FillRows
  <2>2. CASE InsertRows(picks[h], slot[h])
    <3>1. Playing' \subseteq Playing
      BY <2>2 DEF InsertRows
    <3> QED
      BY <2>1, <3>1
  <2>3. CASE UNCHANGED table
    BY <2>1, <2>3
  <2> QED
    BY <1>9, <2>2, <2>3 DEF FillRows
<1>10. ASSUME NEW h \in Handlers, PushSelect(h) PROVE PlayingInv'
  BY <1>10 DEF PushSelect
<1>11. ASSUME NEW h \in Handlers, PushSend(h) PROVE PlayingInv'
  BY <1>11 DEF PushSend, PushRest
<1>12. ASSUME NEW h \in Handlers, PushFlag(h) PROVE PlayingInv'
  BY <1>12 DEF PushFlag, PushRest
<1>13. ASSUME NEW h \in Handlers, Skip(h) PROVE PlayingInv'
  BY <1>13 DEF Skip
<1>14. ASSUME NEW h \in Handlers, SkipMark(h) PROVE PlayingInv'
  BY <1>14 DEF SkipMark, SetStatus
<1>15. ASSUME NEW h \in Handlers, SkipEngine(h) PROVE PlayingInv'
  BY <1>15 DEF SkipEngine
<1>16. ASSUME NEW h \in Handlers, InsertRow(h) PROVE PlayingInv'
  <2>1. \E p \in {"pushSelect", "idle"} : pc' = [pc EXCEPT ![h] = p]
    BY <1>16 DEF InsertRow
  <2>2. CASE InsertRows(picks[h], slot[h])
    <3>1. Playing' \subseteq Playing
      BY <2>2 DEF InsertRows
    <3> QED
      BY <2>1, <3>1
  <2>3. CASE UNCHANGED table
    BY <2>1, <2>3
  <2> QED
    BY <1>16, <2>2, <2>3 DEF InsertRow
<1>17. ASSUME NEW h \in Handlers, RemoveDelete(h) PROVE PlayingInv'
  BY <1>17 DEF RemoveDelete, DeleteRows
<1>18. ASSUME NEW h \in Handlers, StartupReset(h) PROVE PlayingInv'
  BY <1>18 DEF StartupReset
<1>19. ASSUME NEW h \in Handlers, NEW i \in Items, AppendItem(h, i) PROVE PlayingInv'
  BY <1>19 DEF AppendItem
<1>20. ASSUME NEW h \in Handlers, NEW i \in Items,
            NEW p \in InsertPositions, InsertItemAt(h, i, p) PROVE PlayingInv'
  BY <1>20 DEF InsertItemAt
<1>21. ASSUME NEW h \in Handlers, NEW e \in Entries, RemoveLoad(h, e) PROVE PlayingInv'
  BY <1>21 DEF RemoveLoad
<1>22. ASSUME NEW h \in Handlers, NEW e \in Entries, RemoveRefused(h, e) PROVE PlayingInv'
  BY <1>22 DEF RemoveRefused, vars
<1>23. ASSUME NEW i \in Items, AssignItem(i) PROVE PlayingInv'
  BY <1>23 DEF AssignItem
<1>24. ASSUME NEW i \in Items, RemoveItem(i) PROVE PlayingInv'
  BY <1>24 DEF RemoveItem
<1>25. ASSUME NEW i \in Items, DeleteItem(i) PROVE PlayingInv'
  BY <1>25 DEF DeleteItem, DeleteRows
<1>26. CASE CleanupPlayed
  BY <1>26 DEF CleanupPlayed, DeleteRows
<1>27. CASE EngineAdvance
  BY <1>27 DEF EngineAdvance
<1>28. CASE EngineRestart
  BY <1>28 DEF EngineRestart
<1>29. CASE LoseEvent
  BY <1>29 DEF LoseEvent
<1>30. CASE ApiRestart
  BY <1>30 DEF ApiRestart
<1>31. CASE UNCHANGED vars
  BY <1>31 DEF vars
<1> QED
  BY <1>1, <1>2, <1>3, <1>4, <1>5, <1>6, <1>7, <1>8, <1>9, <1>10, <1>11,
     <1>12, <1>13, <1>14, <1>15, <1>16, <1>17, <1>18, <1>19, <1>20, <1>21,
     <1>22, <1>23, <1>24, <1>25, <1>26, <1>27, <1>28, <1>29, <1>30, <1>31
  DEF Next, Step, Request

\* While calls do not overlap the channel has one now-playing entry at most,
\* even when the API dies between markPlayed and promoteNext.
THEOREM OneNowPlaying == ASSUME OneAtATime PROVE Spec => []AtMostOnePlaying
<1>1. Init => TypeInv /\ PlayingInv
  BY TypeInit DEF Init, PlayingInv, AtMostOnePlaying, Playing, WithStatus
<1>2. TypeInv /\ PlayingInv /\ [Next]_vars => TypeInv' /\ PlayingInv'
  BY TypeStep, PlayingStep
<1>3. PlayingInv => AtMostOnePlaying
  BY DEF PlayingInv
<1> QED
  BY <1>1, <1>2, <1>3, PTL DEF Spec

-----------------------------------------------------------------------------
(* The positions of the waiting entries *)

\* A call about to INSERT holds a position that no waiting row has, and a call
\* about to insert a batch holds one above them all.
PositionInv ==
    /\ QueuedPositionsDistinct
    /\ \A h \in Handlers :
        /\ pc[h] = "insertRow" => /\ Len(picks[h]) = 1
                                  /\ \A e \in Queued : position[e] # slot[h]
        /\ pc[h] = "fillRows" => \A e \in Queued : position[e] < slot[h]

\* An INSERT leaves positions distinct when it starts at a free one and either
\* adds one row or lies above every row that waits.
LEMMA InsertRowsDistinct ==
  ASSUME TypeInv, QueuedPositionsDistinct,
         NEW s \in Seq(Items), NEW p \in Nat, InsertRows(s, p),
         \/ Len(s) = 1 /\ \A e \in Queued : position[e] # p
         \/ \A e \in Queued : position[e] < p
  PROVE  QueuedPositionsDistinct'
<1> DEFINE new == born + 1 .. born + Len(s)
<1>1. born \in Nat /\ Len(s) \in Nat /\ \A e \in Entries : e \in Nat
  BY PlayoutAssumption DEF TypeInv, TableOK, Entries
<1>2. \A e \in Queued' : /\ e \in Entries
                         /\ e \in new => position'[e] = p + (e - born - 1)
                         /\ e \notin new => e \in Queued /\ position'[e] = position[e]
  BY DEF InsertRows, Queued, WithStatus, TypeInv, TableOK
<1>3. \A e \in Queued : position[e] \in Nat
  BY DEF Queued, WithStatus, TypeInv, TableOK
<1>4. \A e \in Queued' : e \in new => \A f \in Queued : position'[e] # position[f]
  <2>1. CASE Len(s) = 1 /\ \A e \in Queued : position[e] # p
    <3>1. \A e \in Queued' : e \in new => e = born + 1 /\ position'[e] = p
      BY <1>1, <1>2, <2>1
    <3> QED
      BY <3>1, <2>1
  <2>2. CASE \A e \in Queued : position[e] < p
    <3>1. \A e \in Queued' : e \in new => position'[e] \in Nat /\ position'[e] >= p
      BY <1>1, <1>2
    <3> QED
      BY <3>1, <2>2, <1>3
  <2> QED
    BY <2>1, <2>2
<1>5. ASSUME NEW e \in Queued', NEW f \in Queued', position'[e] = position'[f]
      PROVE  e = f
  <2>1. CASE e \in new /\ f \in new
    BY <1>1, <1>2, <1>5, <2>1
  <2>2. CASE e \notin new /\ f \notin new
    BY <1>2, <1>5, <2>2 DEF QueuedPositionsDistinct
  <2>3. CASE e \in new /\ f \notin new
    BY <1>2, <1>4, <1>5, <2>3
  <2>4. CASE e \notin new /\ f \in new
    BY <1>2, <1>4, <1>5, <2>4
  <2> QED
    BY <2>1, <2>2, <2>3, <2>4
<1> QED
  BY <1>5 DEF QueuedPositionsDistinct

\* Every step that runs alone keeps the positions of waiting entries distinct.
LEMMA PositionStep ==
  ASSUME OneAtATime
  PROVE  TypeInv /\ PositionInv /\ [Next]_vars => PositionInv'
<1> SUFFICES ASSUME TypeInv, PositionInv, [Next]_vars PROVE PositionInv'
  OBVIOUS
<1>a. PICK k : Handlers = {k}
  BY DEF OneAtATime
<1> USE <1>a DEF TypeInv, LocalsOK, TableOK, PositionInv, table, catalogue,
      engine, handlers, Goto
<1>1. ASSUME NEW h \in Handlers, TrackStarted(h) PROVE PositionInv'
  BY <1>1 DEF TrackStarted, QueuedPositionsDistinct, Queued, WithStatus
<1>2. ASSUME NEW h \in Handlers, EventMark(h) PROVE PositionInv'
  BY <1>2 DEF EventMark, SetStatus, QueuedPositionsDistinct, Queued, WithStatus
<1>3. ASSUME NEW h \in Handlers, EventStats(h) PROVE PositionInv'
  BY <1>3 DEF EventStats, QueuedPositionsDistinct, Queued, WithStatus
<1>4. ASSUME NEW h \in Handlers, PromotePick(h) PROVE PositionInv'
  BY <1>4 DEF PromotePick, QueuedPositionsDistinct, Queued, WithStatus
<1>5. ASSUME NEW h \in Handlers, PromoteSet(h) PROVE PositionInv'
  BY <1>5 DEF PromoteSet, SetStatus, QueuedPositionsDistinct, Queued, WithStatus
<1>6. ASSUME NEW h \in Handlers, FillDepth(h) PROVE PositionInv'
  BY <1>6 DEF FillDepth, QueuedPositionsDistinct, Queued, WithStatus
<1>7. ASSUME NEW h \in Handlers, FillPick(h) PROVE PositionInv'
  BY <1>7 DEF FillPick, QueuedPositionsDistinct, Queued, WithStatus
<1>8. ASSUME NEW h \in Handlers, FillMax(h) PROVE PositionInv'
  <2>1. PICK m \in MaxLivePosition : slot' = [slot EXCEPT ![h] = m + 1]
    BY <1>8 DEF FillMax
  <2>2. m \in Nat /\ \A e \in Queued : position[e] < m + 1
    BY MaxLiveBounds DEF Queued, Live, WithStatus
  <2> QED
    BY <1>8, <2>1, <2>2 DEF FillMax, QueuedPositionsDistinct, Queued, WithStatus
<1>9. ASSUME NEW h \in Handlers, FillRows(h) PROVE PositionInv'
  <2>1. picks[h] \in Seq(Items) /\ slot[h] \in Nat
    OBVIOUS
  <2>2. \E p \in {"pushSelect", "idle"} : pc' = [pc EXCEPT ![h] = p]
    BY <1>9 DEF FillRows
  <2>3. CASE InsertRows(picks[h], slot[h])
    <3>1. QueuedPositionsDistinct'
      BY <1>9, <2>1, <2>3, InsertRowsDistinct DEF FillRows
    <3> QED
      BY <2>2, <3>1
  <2>4. CASE UNCHANGED table
    BY <2>2, <2>4 DEF QueuedPositionsDistinct, Queued, WithStatus
  <2> QED
    BY <1>9, <2>3, <2>4 DEF FillRows
<1>10. ASSUME NEW h \in Handlers, PushSelect(h) PROVE PositionInv'
  BY <1>10 DEF PushSelect, QueuedPositionsDistinct, Queued, WithStatus
<1>11. ASSUME NEW h \in Handlers, PushSend(h) PROVE PositionInv'
  BY <1>11 DEF PushSend, PushRest, QueuedPositionsDistinct, Queued, WithStatus
<1>12. ASSUME NEW h \in Handlers, PushFlag(h) PROVE PositionInv'
  BY <1>12 DEF PushFlag, PushRest, QueuedPositionsDistinct, Queued, WithStatus
<1>13. ASSUME NEW h \in Handlers, Skip(h) PROVE PositionInv'
  BY <1>13 DEF Skip, QueuedPositionsDistinct, Queued, WithStatus
<1>14. ASSUME NEW h \in Handlers, SkipMark(h) PROVE PositionInv'
  BY <1>14 DEF SkipMark, SetStatus, QueuedPositionsDistinct, Queued, WithStatus
<1>15. ASSUME NEW h \in Handlers, SkipEngine(h) PROVE PositionInv'
  BY <1>15 DEF SkipEngine, QueuedPositionsDistinct, Queued, WithStatus
<1>16. ASSUME NEW h \in Handlers, InsertRow(h) PROVE PositionInv'
  <2>1. picks[h] \in Seq(Items) /\ slot[h] \in Nat
    OBVIOUS
  <2>2. \E p \in {"pushSelect", "idle"} : pc' = [pc EXCEPT ![h] = p]
    BY <1>16 DEF InsertRow
  <2>3. CASE InsertRows(picks[h], slot[h])
    <3>1. QueuedPositionsDistinct'
      BY <1>16, <2>1, <2>3, InsertRowsDistinct DEF InsertRow
    <3> QED
      BY <2>2, <3>1
  <2>4. CASE UNCHANGED table
    BY <2>2, <2>4 DEF QueuedPositionsDistinct, Queued, WithStatus
  <2> QED
    BY <1>16, <2>3, <2>4 DEF InsertRow
<1>17. ASSUME NEW h \in Handlers, RemoveDelete(h) PROVE PositionInv'
  BY <1>17 DEF RemoveDelete, DeleteRows, QueuedPositionsDistinct, Queued, WithStatus
<1>18. ASSUME NEW h \in Handlers, StartupReset(h) PROVE PositionInv'
  BY <1>18 DEF StartupReset, QueuedPositionsDistinct, Queued, WithStatus
<1>19. ASSUME NEW h \in Handlers, NEW i \in Items, AppendItem(h, i) PROVE PositionInv'
  <2>1. PICK m \in MaxLivePosition : slot' = [slot EXCEPT ![h] = m + 1]
    BY <1>19 DEF AppendItem
  <2>2. m \in Nat /\ \A e \in Queued : position[e] < m + 1
    BY MaxLiveBounds DEF Queued, Live, WithStatus
  <2> QED
    BY <1>19, <2>1, <2>2 DEF AppendItem, QueuedPositionsDistinct, Queued, WithStatus
<1>20. ASSUME NEW h \in Handlers, NEW i \in Items,
            NEW p \in InsertPositions, InsertItemAt(h, i, p) PROVE PositionInv'
  <2>1. p \in Nat /\ \A e \in Queued : e \in Entries /\ position[e] \in Nat
    BY PlayoutAssumption DEF Queued, WithStatus
  <2>2. \A e \in Queued : position'[e] = IF position[e] >= p THEN position[e] + 1 ELSE position[e]
    BY <1>20, <2>1 DEF InsertItemAt
  <2>3. Queued' = Queued
    BY <1>20 DEF InsertItemAt, Queued, WithStatus
  <2>4. \A e \in Queued : position'[e] # p
    BY <2>1, <2>2
  <2>5. \A e, f \in Queued : position'[e] = position'[f] => position[e] = position[f]
    BY <2>1, <2>2
  <2>6. QueuedPositionsDistinct'
    BY <2>3, <2>5 DEF QueuedPositionsDistinct
  <2> QED
    BY <1>20, <2>3, <2>4, <2>6 DEF InsertItemAt
<1>21. ASSUME NEW h \in Handlers, NEW e \in Entries, RemoveLoad(h, e) PROVE PositionInv'
  BY <1>21 DEF RemoveLoad, QueuedPositionsDistinct, Queued, WithStatus
<1>22. ASSUME NEW h \in Handlers, NEW e \in Entries, RemoveRefused(h, e) PROVE PositionInv'
  BY <1>22 DEF RemoveRefused, vars, QueuedPositionsDistinct, Queued, WithStatus
<1>23. ASSUME NEW i \in Items, AssignItem(i) PROVE PositionInv'
  BY <1>23 DEF AssignItem, QueuedPositionsDistinct, Queued, WithStatus
<1>24. ASSUME NEW i \in Items, RemoveItem(i) PROVE PositionInv'
  BY <1>24 DEF RemoveItem, QueuedPositionsDistinct, Queued, WithStatus
<1>25. ASSUME NEW i \in Items, DeleteItem(i) PROVE PositionInv'
  BY <1>25 DEF DeleteItem, DeleteRows, QueuedPositionsDistinct, Queued, WithStatus
<1>26. CASE CleanupPlayed
  BY <1>26 DEF CleanupPlayed, DeleteRows, QueuedPositionsDistinct, Queued, WithStatus
<1>27. CASE EngineAdvance
  BY <1>27 DEF EngineAdvance, QueuedPositionsDistinct, Queued, WithStatus
<1>28. CASE EngineRestart
  BY <1>28 DEF EngineRestart, QueuedPositionsDistinct, Queued, WithStatus
<1>29. CASE LoseEvent
  BY <1>29 DEF LoseEvent, QueuedPositionsDistinct, Queued, WithStatus
<1>30. CASE ApiRestart
  BY <1>30 DEF ApiRestart, QueuedPositionsDistinct, Queued, WithStatus
<1>31. CASE UNCHANGED vars
  BY <1>31 DEF vars, QueuedPositionsDistinct, Queued, WithStatus
<1> QED
  BY <1>1, <1>2, <1>3, <1>4, <1>5, <1>6, <1>7, <1>8, <1>9, <1>10, <1>11,
     <1>12, <1>13, <1>14, <1>15, <1>16, <1>17, <1>18, <1>19, <1>20, <1>21,
     <1>22, <1>23, <1>24, <1>25, <1>26, <1>27, <1>28, <1>29, <1>30, <1>31
  DEF Next, Step, Request

\* While calls do not overlap no two waiting entries share a position, though
\* positions are computed from an earlier read and a crash may separate the
\* shift from the INSERT.
THEOREM PositionsDistinct ==
  ASSUME OneAtATime PROVE Spec => []QueuedPositionsDistinct
<1>1. Init => TypeInv /\ PositionInv
  BY TypeInit DEF Init, PositionInv, QueuedPositionsDistinct, Queued, WithStatus
<1>2. TypeInv /\ PositionInv /\ [Next]_vars => TypeInv' /\ PositionInv'
  BY TypeStep, PositionStep
<1>3. PositionInv => QueuedPositionsDistinct
  BY DEF PositionInv
<1> QED
  BY <1>1, <1>2, <1>3, PTL DEF Spec

-----------------------------------------------------------------------------
(* The table implements the lineup *)

\* The row that promoteNext holds is the first of those that wait, unless its item
\* was deleted meanwhile.
PickedInv ==
    \A h \in Handlers : pc[h] = "promoteSet" =>
        \/ status[row[h]] = "absent"
        \/ /\ status[row[h]] = "queued"
           /\ \A f \in Queued : position[row[h]] <= position[f]

\* Every step that runs alone keeps the row that promoteNext holds the first.
LEMMA PickedStep ==
  ASSUME OneAtATime
  PROVE  TypeInv /\ PickedInv /\ [Next]_vars => PickedInv'
<1> SUFFICES ASSUME TypeInv, PickedInv, [Next]_vars PROVE PickedInv'
  OBVIOUS
<1>a. PICK k : Handlers = {k}
  BY DEF OneAtATime
<1> USE <1>a DEF TypeInv, LocalsOK, TableOK, PickedInv, Queued, WithStatus, table,
      catalogue, engine, handlers, Goto
<1>1. ASSUME NEW h \in Handlers, TrackStarted(h) PROVE PickedInv'
  BY <1>1 DEF TrackStarted
<1>2. ASSUME NEW h \in Handlers, EventMark(h) \/ EventStats(h) PROVE PickedInv'
  BY <1>2 DEF EventMark, EventStats
<1>3. ASSUME NEW h \in Handlers, PromotePick(h) PROVE PickedInv'
  BY <1>3 DEF PromotePick
<1>4. ASSUME NEW h \in Handlers, PromoteSet(h) PROVE PickedInv'
  BY <1>4 DEF PromoteSet
<1>5. ASSUME NEW h \in Handlers, FillDepth(h) \/ FillMax(h) PROVE PickedInv'
  BY <1>5 DEF FillDepth, FillMax
<1>6. ASSUME NEW h \in Handlers, FillPick(h) PROVE PickedInv'
  <2>1. \E p \in {"pushSelect", "fillMax"} : pc' = [pc EXCEPT ![h] = p]
    BY <1>6 DEF FillPick
  <2> QED
    BY <2>1
<1>7. ASSUME NEW h \in Handlers, FillRows(h) \/ InsertRow(h) PROVE PickedInv'
  <2>1. \E p \in {"pushSelect", "idle"} : pc' = [pc EXCEPT ![h] = p]
    BY <1>7 DEF FillRows, InsertRow
  <2> QED
    BY <2>1
<1>8. ASSUME NEW h \in Handlers, PushSelect(h) PROVE PickedInv'
  <2>1. \E p \in {"idle", "pushSend"} : pc' = [pc EXCEPT ![h] = p]
    BY <1>8 DEF PushSelect
  <2> QED
    BY <2>1
<1>9. ASSUME NEW h \in Handlers, PushSend(h) \/ PushFlag(h) PROVE PickedInv'
  <2>1. \E p \in {"idle", "pushSend", "pushFlag"} : pc' = [pc EXCEPT ![h] = p]
    BY <1>9 DEF PushSend, PushFlag, PushRest
  <2> QED
    BY <2>1
<1>10. ASSUME NEW h \in Handlers, Skip(h) \/ SkipMark(h) \/ SkipEngine(h) PROVE PickedInv'
  BY <1>10 DEF Skip, SkipMark, SkipEngine
<1>11. ASSUME NEW h \in Handlers, RemoveDelete(h) \/ StartupReset(h) PROVE PickedInv'
  BY <1>11 DEF RemoveDelete, StartupReset
<1>12. ASSUME NEW h \in Handlers, NEW i \in Items, AppendItem(h, i) PROVE PickedInv'
  BY <1>12 DEF AppendItem
<1>13. ASSUME NEW h \in Handlers, NEW i \in Items,
            NEW p \in InsertPositions, InsertItemAt(h, i, p) PROVE PickedInv'
  BY <1>13 DEF InsertItemAt
<1>14. ASSUME NEW h \in Handlers, NEW e \in Entries,
            RemoveLoad(h, e) \/ RemoveRefused(h, e) PROVE PickedInv'
  BY <1>14 DEF RemoveLoad, RemoveRefused, vars
<1>15. ASSUME NEW i \in Items, AssignItem(i) \/ RemoveItem(i) PROVE PickedInv'
  BY <1>15 DEF AssignItem, RemoveItem
<1>16. ASSUME NEW S, DeleteRows(S), UNCHANGED handlers PROVE PickedInv'
  <2> SUFFICES ASSUME NEW h \in Handlers, pc[h] = "promoteSet"
               PROVE  \/ status'[row[h]] = "absent"
                      \/ /\ status'[row[h]] = "queued"
                         /\ \A f \in Queued' : position'[row[h]] <= position'[f]
    BY <1>16
  <2>1. row[h] \in Entries
    OBVIOUS
  <2>2. \A f \in Entries : f \notin S => position'[f] = position[f] /\ status'[f] = status[f]
    BY <1>16 DEF DeleteRows
  <2>3. \A f \in Entries : f \in S => status'[f] = "absent"
    BY <1>16 DEF DeleteRows
  <2> QED
    BY <2>1, <2>2, <2>3
<1>17. ASSUME NEW i \in Items, DeleteItem(i) PROVE PickedInv'
  BY <1>16, <1>17 DEF DeleteItem
<1>18. CASE CleanupPlayed
  BY <1>16, <1>18 DEF CleanupPlayed
<1>19. CASE EngineAdvance \/ EngineRestart \/ LoseEvent
  BY <1>19 DEF EngineAdvance, EngineRestart, LoseEvent
<1>20. CASE ApiRestart
  BY <1>20 DEF ApiRestart
<1>21. CASE UNCHANGED vars
  BY <1>21 DEF vars
<1> QED
  BY <1>1, <1>2, <1>3, <1>4, <1>5, <1>6, <1>7, <1>8, <1>9, <1>10, <1>11,
     <1>12, <1>13, <1>14, <1>15, <1>17, <1>18, <1>19, <1>20, <1>21
  DEF Next, Step, Request

\* What is chosen from a set of one element.
LEMMA OnlyOne ==
  ASSUME NEW S, \A e, f \in S : e = f, NEW e \in S
  PROVE  (CHOOSE x \in S : TRUE) = e
OBVIOUS

\* Distinct numbers put a set into a total order.
LEMMA NumbersOrder ==
  ASSUME NEW S, NEW key, \A e \in S : key[e] \in Nat,
         \A e, f \in S : key[e] = key[f] => e = f
  PROVE  Lineup!TotalOrder({p \in S \X S : key[p[1]] < key[p[2]]}, S)
<1> DEFINE R == {p \in S \X S : key[p[1]] < key[p[2]]}
<1>1. \A a, b \in S : <<a, b>> \in R <=> key[a] < key[b]
  OBVIOUS
<1>2. R \subseteq S \X S
  OBVIOUS
<1> HIDE DEF R
<1>3. \A a, b \in S : a # b => (<<a, b>> \in R) # (<<b, a>> \in R)
  BY <1>1
<1>4. \A a \in S : <<a, a>> \notin R
  BY <1>1
<1>5. \A a, b, c \in S : <<a, b>> \in R /\ <<b, c>> \in R => <<a, c>> \in R
  BY <1>1
<1>6. Lineup!TotalOrder(R, S)
  BY <1>2, <1>3, <1>4, <1>5 DEF Lineup!TotalOrder
<1> QED
  BY <1>6 DEF R

\* A step that leaves the statuses and the order of what waits alone stutters.
LEMMA NothingMoves ==
  ASSUME status' = status, born' = born,
         \A e, f \in Queued : position[e] < position[f] <=> position'[e] < position'[f]
  PROVE  UNCHANGED Lineup!lineup
<1>1. Queued' = Queued /\ Playing' = Playing
  BY DEF Queued, Playing, WithStatus
<1>2. Precedes' = Precedes
  BY <1>1 DEF Precedes
<1>3. NowPlaying' = NowPlaying
  BY <1>1 DEF NowPlaying
<1> QED
  BY <1>1, <1>2, <1>3 DEF Lineup!lineup, Upcoming

\* The end of the playing entry is Finish, or nothing when nothing played.
LEMMA MarkFinishes ==
  ASSUME TypeInv, AtMostOnePlaying, NEW e \in Entries, status[e] # "queued",
         Playing \subseteq {e}, SetStatus(e, "played"), UNCHANGED <<position, born>>
  PROVE  [Lineup!LineupNext]_(Lineup!lineup)
<1> USE DEF TypeInv, TableOK
<1>1. Queued' = Queued /\ Playing' = {}
  BY DEF SetStatus, Queued, Playing, WithStatus
<1>2. Precedes' = Precedes
  BY <1>1 DEF Precedes
<1>3. NowPlaying' = None
  BY <1>1 DEF NowPlaying
<1>4. CASE Playing = {}
  <2>1. NowPlaying = None
    BY <1>4 DEF NowPlaying
  <2> QED
    BY <1>1, <1>2, <1>3, <2>1 DEF Lineup!lineup, Upcoming
<1>5. CASE Playing # {}
  <2>1. Playing = {e}
    BY <1>5
  <2>2. NowPlaying = e
    BY <2>1, OnlyOne DEF NowPlaying
  <2>3. e # None
    BY PlayoutAssumption DEF Entries
  <2> QED
    BY <1>1, <1>2, <1>3, <2>2, <2>3 DEF Lineup!LineupNext, Lineup!Finish, Upcoming
<1> QED
  BY <1>4, <1>5

\* The promotion of the first entry is Start, or nothing when its row is gone.
LEMMA PromotionStarts ==
  ASSUME TypeInv, NEW e \in Entries, Playing = {}, SetStatus(e, "playing"),
         UNCHANGED <<position, born>>,
         \/ status[e] = "absent"
         \/ status[e] = "queued" /\ \A f \in Queued : position[e] <= position[f]
  PROVE  [Lineup!LineupNext]_(Lineup!lineup)
<1> USE DEF TypeInv, TableOK
<1>1. CASE status[e] = "absent"
  <2>1. status' = status
    BY <1>1 DEF SetStatus
  <2> QED
    BY <2>1, NothingMoves
<1>2. CASE status[e] = "queued" /\ \A f \in Queued : position[e] <= position[f]
  <2>1. e \in Queued /\ Queued' = Queued \ {e} /\ Playing' = {e}
    BY <1>2 DEF SetStatus, Queued, Playing, WithStatus
  <2>2. NowPlaying = None
    BY DEF NowPlaying
  <2>3. NowPlaying' = e
    BY <2>1, OnlyOne DEF NowPlaying
  <2>4. Precedes' = Lineup!Within(Precedes, Queued \ {e})
    BY <2>1 DEF Precedes, Lineup!Within
  <2>5. \A f \in Queued : <<f, e>> \notin Precedes
    <3>1. \A f \in Queued : position[e] \in Nat /\ position[f] \in Nat
      BY DEF Queued, WithStatus
    <3> QED
      BY <1>2, <2>1, <3>1 DEF Precedes
  <2> QED
    BY <2>1, <2>2, <2>3, <2>4, <2>5 DEF Lineup!LineupNext, Lineup!Start, Upcoming
<1> QED
  BY <1>1, <1>2

\* The deletion of rows is Withdraw, or the end of what is on, or nothing.
LEMMA DeletionWithdraws ==
  ASSUME TypeInv, AtMostOnePlaying, NEW S, DeleteRows(S)
  PROVE  [Lineup!LineupNext]_(Lineup!lineup)
<1> USE DEF TypeInv, TableOK
<1> DEFINE gone == Queued \cap S
<1>1. /\ Queued' = Queued \ gone
      /\ Playing' = Playing \ S
      /\ born' = born
      /\ \A e \in Queued' : position'[e] = position[e]
  BY DEF DeleteRows, Queued, Playing, WithStatus
<1>2. Precedes' = Lineup!Within(Precedes, Queued \ gone)
  BY <1>1 DEF Precedes, Lineup!Within
<1>3. NowPlaying' \in {NowPlaying, None}
  <2>1. CASE Playing' = {}
    BY <2>1 DEF NowPlaying
  <2>2. CASE Playing' # {}
    <3>1. Playing' = Playing
      BY <1>1, <2>2 DEF AtMostOnePlaying
    <3> QED
      BY <3>1 DEF NowPlaying
  <2> QED
    BY <2>1, <2>2
<1>4. CASE gone # {}
  <2>1. gone \in SUBSET Upcoming
    BY DEF Upcoming
  <2>2. Upcoming' = Upcoming \ gone /\ Precedes' = Lineup!Within(Precedes, Upcoming \ gone)
    BY <1>1, <1>2 DEF Upcoming
  <2> HIDE DEF gone
  <2>3. Lineup!Withdraw
    BY <1>1, <1>3, <1>4, <2>1, <2>2 DEF Lineup!Withdraw
  <2> QED
    BY <2>3 DEF Lineup!LineupNext
<1>5. CASE gone = {}
  <2>1. Upcoming' = Upcoming /\ Precedes' = Precedes
    BY <1>1, <1>2, <1>5 DEF Upcoming, Precedes, Lineup!Within
  <2>2. CASE NowPlaying' = NowPlaying
    BY <1>1, <2>1, <2>2 DEF Lineup!lineup
  <2>3. CASE NowPlaying' # NowPlaying
    <3>1. NowPlaying' = None /\ NowPlaying # None
      BY <1>3, <2>3
    <3> QED
      BY <1>1, <2>1, <3>1 DEF Lineup!LineupNext, Lineup!Finish
  <2> QED
    BY <2>2, <2>3
<1> QED
  BY <1>4, <1>5

\* The INSERT of rows is Enqueue, or nothing when there are none.
LEMMA InsertEnqueues ==
  ASSUME TypeInv, LifeInv, TypeInv', QueuedPositionsDistinct',
         NEW s \in Seq(Items), NEW p \in Nat, InsertRows(s, p)
  PROVE  [Lineup!LineupNext]_(Lineup!lineup)
<1> USE DEF TypeInv, TableOK
<1> DEFINE new == born + 1 .. born + Len(s)
<1>1. born \in Nat /\ Len(s) \in Nat /\ born' = born + Len(s) /\ born' <= MaxEntries /\ MaxEntries \in Nat
  BY PlayoutAssumption DEF InsertRows
<1>2. new \subseteq Entries \ (1..born) /\ 1..born' = (1..born) \cup new
  <2>1. \A e \in new : e \in Int /\ e > born /\ 1 <= e /\ e <= MaxEntries
    BY <1>1
  <2>2. \A e \in new : e \in Entries /\ e \notin 1..born
    BY <1>1, <2>1 DEF Entries
  <2>3. \A e : e \in 1..born' <=> e \in 1..born \/ e \in new
    BY <1>1
  <2> HIDE DEF new
  <2> QED
    BY <2>2, <2>3
<1>3. \A e \in new : status[e] = "absent"
  BY <1>1, <1>2 DEF LifeInv, Entries
<1>4. \A e \in Entries : status'[e] = IF e \in new THEN "queued" ELSE status[e]
  BY DEF InsertRows
<1>5. \A e \in Entries : e \notin new => position'[e] = position[e]
  BY DEF InsertRows
<1> HIDE DEF new
<1>6. Queued' = Queued \cup new /\ Playing' = Playing
  BY <1>2, <1>3, <1>4 DEF Queued, Playing, WithStatus
<1>7. \A e \in Queued : position'[e] = position[e]
  BY <1>3, <1>5 DEF Queued, WithStatus
<1>8. NowPlaying' = NowPlaying
  BY <1>6 DEF NowPlaying
<1>9. Lineup!TotalOrder(Precedes', Queued')
  <2>1. \A e \in Queued' : position'[e] \in Nat
    BY DEF Queued, WithStatus
  <2>2. \A e, f \in Queued' : position'[e] = position'[f] => e = f
    BY DEF QueuedPositionsDistinct
  <2> QED
    BY <2>1, <2>2, NumbersOrder DEF Precedes
<1>10. Lineup!Within(Precedes', Queued) = Precedes
  <2>1. Queued \subseteq Queued'
    BY <1>6
  <2>2. \A e, f \in Queued : position[e] < position[f] <=> position'[e] < position'[f]
    BY <1>7
  <2>3. \A q : q \in Lineup!Within(Precedes', Queued) <=> q \in Precedes
    BY <2>1, <2>2 DEF Precedes, Lineup!Within
  <2>4. Lineup!Within(Precedes', Queued) \subseteq Precedes
    BY <2>3
  <2>5. Precedes \subseteq Lineup!Within(Precedes', Queued)
    BY <2>3
  <2> QED
    BY <2>4, <2>5
<1>11. CASE new # {}
  <2>1. Lineup!Enqueue
    BY <1>2, <1>6, <1>8, <1>9, <1>10, <1>11 DEF Lineup!Enqueue, Upcoming
  <2> QED
    BY <2>1 DEF Lineup!LineupNext
<1>12. CASE new = {}
  <2>1. Queued' = Queued
    BY <1>6, <1>12
  <2>2. Precedes' = Precedes
    BY <1>7, <2>1 DEF Precedes
  <2> QED
    BY <1>2, <1>8, <1>12, <2>1, <2>2 DEF Lineup!lineup, Upcoming
<1> QED
  BY <1>11, <1>12

SerialInv == TypeInv /\ LifeInv /\ PlayingInv /\ PositionInv /\ PickedInv

\* Every step that runs alone is a step of the lineup, or leaves it alone.
LEMMA LineupStep ==
  ASSUME OneAtATime, SerialInv, SerialInv', [Next]_vars
  PROVE  [Lineup!LineupNext]_(Lineup!lineup)
<1> DEFINE Goal  == [Lineup!LineupNext]_(Lineup!lineup)
           Still == UNCHANGED <<status, position, born>>
<1>0. /\ TypeInv /\ LifeInv /\ PlayingInv /\ PickedInv /\ AtMostOnePlaying
      /\ TypeInv' /\ QueuedPositionsDistinct'
  BY DEF SerialInv, PlayingInv, PositionInv
<1>a. ASSUME Still PROVE Goal
  BY <1>a, NothingMoves
<1>b. \A h \in Handlers : /\ picks[h] \in Seq(Items) /\ slot[h] \in Nat
                          /\ pc[h] \in {"eventMark", "promoteSet", "skipMark"} => row[h] \in Entries
  BY <1>0 DEF TypeInv, LocalsOK
<1> USE DEF table, handlers
<1>1. ASSUME NEW h \in Handlers, EventMark(h) \/ SkipMark(h) PROVE Goal
  <2>1. /\ row[h] \in Entries /\ status[row[h]] # "queued" /\ Playing \subseteq {row[h]}
        /\ SetStatus(row[h], "played") /\ UNCHANGED <<position, born>>
    BY <1>0, <1>1, <1>b DEF LifeInv, PlayingInv, EventMark, SkipMark
  <2> QED
    BY <1>0, <2>1, MarkFinishes
<1>2. ASSUME NEW h \in Handlers, PromoteSet(h) PROVE Goal
  <2>1. /\ row[h] \in Entries /\ Playing = {}
        /\ SetStatus(row[h], "playing") /\ UNCHANGED <<position, born>>
    BY <1>0, <1>2, <1>b DEF PlayingInv, PromoteSet
  <2>2. \/ status[row[h]] = "absent"
        \/ status[row[h]] = "queued" /\ \A f \in Queued : position[row[h]] <= position[f]
    BY <1>0, <1>2 DEF PickedInv, PromoteSet
  <2> QED
    BY <1>0, <2>1, <2>2, PromotionStarts
<1>3. ASSUME NEW h \in Handlers, FillRows(h) \/ InsertRow(h) PROVE Goal
  <2>1. CASE InsertRows(picks[h], slot[h])
    BY <1>0, <1>b, <2>1, InsertEnqueues
  <2>2. CASE UNCHANGED table
    BY <1>a, <2>2
  <2> QED
    BY <1>3, <2>1, <2>2 DEF FillRows, InsertRow
<1>4. ASSUME NEW h \in Handlers, RemoveDelete(h) PROVE Goal
  BY <1>0, <1>4, DeletionWithdraws DEF RemoveDelete
<1>5. ASSUME NEW i \in Items, DeleteItem(i) PROVE Goal
  BY <1>0, <1>5, DeletionWithdraws DEF DeleteItem
<1>6. CASE CleanupPlayed
  BY <1>0, <1>6, DeletionWithdraws DEF CleanupPlayed
<1>7. ASSUME NEW h \in Handlers, NEW i \in Items,
            NEW p \in InsertPositions, InsertItemAt(h, i, p) PROVE Goal
  <2>1. p \in Nat /\ \A e \in Queued : e \in Entries /\ position[e] \in Nat
    BY <1>0, PlayoutAssumption DEF Queued, WithStatus, TypeInv, TableOK
  <2>2. \A e \in Queued : position'[e] = IF position[e] >= p THEN position[e] + 1 ELSE position[e]
    BY <1>7, <2>1 DEF InsertItemAt
  <2>3. \A e, f \in Queued : position[e] < position[f] <=> position'[e] < position'[f]
    BY <2>1, <2>2
  <2> QED
    BY <1>7, <2>3, NothingMoves DEF InsertItemAt
<1>8. ASSUME NEW h \in Handlers,
             \/ EventStats(h) \/ SkipEngine(h) \/ PromotePick(h) \/ FillDepth(h)
             \/ FillPick(h) \/ FillMax(h) \/ StartupReset(h)
      PROVE  Still
  BY <1>8 DEF EventStats, SkipEngine, PromotePick, FillDepth, FillPick, FillMax, StartupReset
<1>9. ASSUME NEW h \in Handlers,
             TrackStarted(h) \/ PushSelect(h) \/ PushSend(h) \/ PushFlag(h) \/ Skip(h)
      PROVE  Still
  BY <1>9 DEF TrackStarted, PushSelect, PushSend, PushFlag, Skip
<1>10. ASSUME NEW h \in Handlers, NEW i \in Items, AppendItem(h, i)
       PROVE  Still
  BY <1>10 DEF AppendItem
<1>11. ASSUME NEW h \in Handlers, NEW e \in Entries, RemoveLoad(h, e) \/ RemoveRefused(h, e)
       PROVE  Still
  BY <1>11 DEF RemoveLoad, RemoveRefused, vars
<1>12. ASSUME NEW i \in Items, AssignItem(i) \/ RemoveItem(i)
       PROVE  Still
  BY <1>12 DEF AssignItem, RemoveItem
<1>13. ASSUME EngineAdvance \/ EngineRestart \/ LoseEvent \/ ApiRestart \/ UNCHANGED vars
       PROVE  Still
  BY <1>13 DEF EngineAdvance, EngineRestart, LoseEvent, ApiRestart, vars
<1> HIDE DEF Goal, Still
<1>14. ASSUME NEW h \in Handlers, Step(h) PROVE Goal
  BY <1>14, <1>a, <1>1, <1>2, <1>3, <1>4, <1>8, <1>9 DEF Step
<1>15. ASSUME NEW h \in Handlers, Request(h) PROVE Goal
  BY <1>15, <1>a, <1>7, <1>9, <1>10, <1>11 DEF Request
<1>16. ASSUME NEW i \in Items, AssignItem(i) \/ RemoveItem(i) \/ DeleteItem(i) PROVE Goal
  BY <1>16, <1>a, <1>5, <1>12
<1>17. CASE EngineAdvance \/ EngineRestart \/ LoseEvent \/ ApiRestart
  BY <1>17, <1>a, <1>13 DEF Goal
<1>18. CASE UNCHANGED vars
  BY <1>18, <1>a, <1>13 DEF Goal
<1>19. ASSUME NEW h \in Handlers, TrackStarted(h) PROVE Goal
  BY <1>19, <1>a, <1>9
<1> QED
  BY <1>6, <1>14, <1>15, <1>16, <1>17, <1>18, <1>19 DEF Next, Goal

\* While calls do not overlap the table implements the lineup that its operators are
\* promised, though every operation takes several statements, positions are shifted,
\* items are deleted under a call and the API may die anywhere.
THEOREM TableIsLineup == ASSUME OneAtATime PROVE Spec => ImplementsLineup
<1>1. Init => SerialInv
  <2>1. Init => LifeInv
    BY PlayoutAssumption DEF Init, LifeInv, Entries
  <2> QED
    BY <2>1, TypeInit
    DEF Init, SerialInv, PlayingInv, PositionInv, PickedInv, AtMostOnePlaying, Playing,
        QueuedPositionsDistinct, Queued, WithStatus
<1>2. SerialInv /\ [Next]_vars => SerialInv'
  BY TypeStep, EveryLifeStep, PlayingStep, PositionStep, PickedStep DEF SerialInv, LifeStep
<1>3. SerialInv /\ SerialInv' /\ [Next]_vars => [Lineup!LineupNext]_(Lineup!lineup)
  BY LineupStep
<1>4. Init => Lineup!LineupInit
  <2> SUFFICES ASSUME Init PROVE Lineup!LineupInit
    OBVIOUS
  <2>1. Queued = {} /\ Playing = {} /\ born = 0
    BY DEF Init, Queued, Playing, WithStatus
  <2> QED
    BY <2>1 DEF Lineup!LineupInit, Upcoming, Precedes, NowPlaying
<1> QED
  BY <1>1, <1>2, <1>3, <1>4, PTL DEF Spec, ImplementsLineup, Lineup!LineupSpec

-----------------------------------------------------------------------------
(* What auto-fill adds *)

\* A list that names each item once, and none that a live row refers to.
NewItems(s) ==
    \A i \in 1..Len(s) :
        /\ \A j \in 1..Len(s) : s[i] = s[j] => i = j
        /\ \A e \in Live : source[e] # s[i]

\* What a fill counted, and what it picked, still fits when it inserts.
FillInv ==
    \A h \in Handlers :
        /\ pc[h] = "fillPick" => Cardinality(Live) + slot[h] <= AutoFillBatch
        /\ pc[h] \in {"fillMax", "fillRows"} =>
              /\ Cardinality(Live) + Len(picks[h]) <= AutoFillBatch
              /\ NewItems(picks[h])

\* At most n elements of S, each once.
Limited(s, S, n) ==
    /\ Len(s) \in Nat /\ Len(s) <= n
    /\ \A i \in 1..Len(s) : s[i] \in S /\ \A j \in 1..Len(s) : s[i] = s[j] => i = j

\* LIMIT n, and each row once.
LEMMA FirstByLimits ==
  ASSUME NEW key, NEW S, IsFiniteSet(S), NEW n \in Nat, NEW s \in FirstBy(key, S, n)
  PROVE  Limited(s, S, n)
<1> DEFINE k == IF Cardinality(S) < n THEN Cardinality(S) ELSE n
<1>1. k \in Nat /\ k <= n
  BY FS_CardinalityType
<1>2. s \in [1..k -> S] /\ \A i, j \in 1..k : i < j => s[i] # s[j]
  BY DEF FirstBy
<1> HIDE DEF k
<1>3. Len(s) = k
  BY <1>1, <1>2
<1>4. \A i, j \in 1..k : s[i] = s[j] => i = j
  <2> SUFFICES ASSUME NEW i \in 1..k, NEW j \in 1..k, s[i] = s[j], i # j PROVE FALSE
    OBVIOUS
  <2>1. i < j \/ j < i
    BY <1>1
  <2> QED
    BY <1>2, <2>1
<1> QED
  BY <1>1, <1>2, <1>3, <1>4 DEF Limited

\* Deletions make room and free items.
LEMMA DeletionsFit ==
  ASSUME TypeInv, FillInv, NEW S, DeleteRows(S), UNCHANGED handlers
  PROVE  FillInv'
<1>1. Live' \subseteq Live /\ source' = source
  BY DEF DeleteRows, Live, WithStatus
<1>2. Cardinality(Live) \in Nat /\ Cardinality(Live') \in Nat
      /\ Cardinality(Live') <= Cardinality(Live)
  BY <1>1, LiveFinite, FS_Subset, FS_CardinalityType
<1>3. \A h \in Handlers : slot[h] \in Nat /\ Len(picks[h]) \in Nat
  BY DEF TypeInv, LocalsOK
<1>4. pc' = pc /\ slot' = slot /\ picks' = picks
  BY DEF handlers
<1>5. ASSUME NEW h \in Handlers, pc'[h] = "fillPick"
      PROVE  Cardinality(Live') + slot'[h] <= AutoFillBatch
  BY <1>2, <1>3, <1>4, <1>5, PlayoutAssumption DEF FillInv
<1>6. ASSUME NEW h \in Handlers, pc'[h] \in {"fillMax", "fillRows"}
      PROVE  Cardinality(Live') + Len(picks'[h]) <= AutoFillBatch /\ NewItems(picks[h])'
  <2>1. Cardinality(Live) + Len(picks[h]) <= AutoFillBatch /\ NewItems(picks[h])
    BY <1>4, <1>6 DEF FillInv
  <2>2. NewItems(picks[h])'
    BY <1>1, <1>4, <2>1 DEF NewItems
  <2> QED
    BY <1>2, <1>3, <1>4, <2>1, <2>2, PlayoutAssumption
<1> QED
  BY <1>5, <1>6 DEF FillInv

\* Every step that runs alone keeps what a fill relies on.
LEMMA FillStep ==
  ASSUME OneAtATime
  PROVE  TypeInv /\ FillInv /\ [Next]_vars => FillInv'
<1> SUFFICES ASSUME TypeInv, FillInv, [Next]_vars PROVE FillInv'
  OBVIOUS
<1>a. PICK k : Handlers = {k}
  BY DEF OneAtATime
<1>b. pc \in [Handlers -> PCs] /\ slot \in [Handlers -> Nat] /\ picks \in [Handlers -> Seq(Items)]
  BY DEF TypeInv, LocalsOK
<1>c. ASSUME NEW h \in Handlers, NEW p, pc' = [pc EXCEPT ![h] = p],
             p \notin {"fillPick", "fillMax", "fillRows"}
      PROVE  FillInv'
  BY <1>a, <1>b, <1>c DEF FillInv
<1>d. ASSUME UNCHANGED <<table, handlers>> PROVE FillInv'
  <2>1. Live' = Live /\ source' = source /\ pc' = pc /\ slot' = slot /\ picks' = picks
    BY <1>d DEF table, handlers, Live, WithStatus
  <2> QED
    BY <2>1 DEF FillInv, NewItems
<1>1. ASSUME NEW h \in Handlers, TrackStarted(h) \/ EventMark(h) \/ EventStats(h) PROVE FillInv'
  <2>1. \E p \in {"promotePick", "eventMark", "eventStats"} : pc' = [pc EXCEPT ![h] = p]
    BY <1>1 DEF TrackStarted, EventMark, EventStats, Goto
  <2> QED
    BY <1>c, <2>1
<1>2. ASSUME NEW h \in Handlers, PromotePick(h) \/ PromoteSet(h) \/ StartupReset(h) PROVE FillInv'
  <2>1. \E p \in {"promoteSet", "fillDepth"} : pc' = [pc EXCEPT ![h] = p]
    BY <1>2 DEF PromotePick, PromoteSet, StartupReset, Goto
  <2> QED
    BY <1>c, <2>1
<1>3. ASSUME NEW h \in Handlers, FillDepth(h) PROVE FillInv'
  <2>1. CASE Cardinality(Live) < AutoFillThreshold
    <3>1. slot' = [slot EXCEPT ![h] = AutoFillBatch - Cardinality(Live)]
          /\ pc' = [pc EXCEPT ![h] = "fillPick"]
      BY <1>3, <2>1 DEF FillDepth, Goto
    <3>2. Live' = Live
      BY <1>3 DEF FillDepth, table, Live, WithStatus
    <3>3. Cardinality(Live) + (AutoFillBatch - Cardinality(Live)) <= AutoFillBatch
      BY LiveFinite, PlayoutAssumption
    <3> QED
      BY <1>a, <1>b, <3>1, <3>2, <3>3 DEF FillInv
  <2>2. CASE ~(Cardinality(Live) < AutoFillThreshold)
    BY <1>3, <1>c, <2>2 DEF FillDepth, Goto
  <2> QED
    BY <2>1, <2>2
<1>4. ASSUME NEW h \in Handlers, FillPick(h) PROVE FillInv'
  <2> DEFINE free == MaxEntries - born
             n    == IF slot[h] < free THEN slot[h] ELSE free
  <2>1. PICK s \in FirstBy(recency, Candidates, n) :
            /\ picks' = [picks EXCEPT ![h] = s]
            /\ pc' = [pc EXCEPT ![h] = IF s = <<>> THEN "pushSelect" ELSE "fillMax"]
    BY <1>4 DEF FillPick, Goto
  <2>2. n \in Nat /\ n <= slot[h] /\ slot[h] \in Nat
    BY <1>b, PlayoutAssumption DEF TypeInv, TableOK
  <2>3. IsFiniteSet(Candidates)
    BY PlayoutAssumption, FS_Subset DEF Candidates, TypeInv, TableOK
  <2> HIDE DEF n
  <2>4. Limited(s, Candidates, n)
    BY <2>1, <2>2, <2>3, FirstByLimits
  <2>5. NewItems(s)
    BY <2>4 DEF NewItems, Candidates, Limited
  <2>6. Live' = Live /\ source' = source
    BY <1>4 DEF FillPick, table, Live, WithStatus
  <2>7. NewItems(s)'
    BY <2>5, <2>6 DEF NewItems
  <2>8. Cardinality(Live) + Len(s) <= AutoFillBatch
    <3>1. Cardinality(Live) + slot[h] <= AutoFillBatch
      BY <1>4 DEF FillPick, FillInv
    <3> QED
      BY <2>2, <2>4, <3>1, LiveFinite, PlayoutAssumption DEF Limited
  <2>9. picks'[h] = s /\ pc'[h] # "fillPick"
    BY <1>b, <2>1
  <2>10. \A x \in Handlers : x = h
    BY <1>a
  <2> QED
    BY <2>6, <2>7, <2>8, <2>9, <2>10 DEF FillInv, NewItems
<1>5. ASSUME NEW h \in Handlers, FillMax(h) PROVE FillInv'
  <2>1. pc' = [pc EXCEPT ![h] = "fillRows"] /\ picks' = picks /\ pc[h] = "fillMax"
    BY <1>5 DEF FillMax, Goto
  <2>2. Live' = Live /\ source' = source
    BY <1>5 DEF FillMax, table, Live, WithStatus
  <2> QED
    BY <1>a, <1>b, <2>1, <2>2 DEF FillInv, NewItems
<1>6. ASSUME NEW h \in Handlers, FillRows(h) \/ InsertRow(h) \/ RemoveDelete(h) PROVE FillInv'
  <2>1. \E p \in {"pushSelect", "idle"} : pc' = [pc EXCEPT ![h] = p]
    BY <1>6 DEF FillRows, InsertRow, RemoveDelete, Goto
  <2> QED
    BY <1>c, <2>1
<1>7. ASSUME NEW h \in Handlers, PushSelect(h) \/ PushSend(h) \/ PushFlag(h) PROVE FillInv'
  <2>1. \E p \in {"idle", "pushSend", "pushFlag"} : pc' = [pc EXCEPT ![h] = p]
    BY <1>7 DEF PushSelect, PushSend, PushFlag, PushRest, Goto
  <2> QED
    BY <1>c, <2>1
<1>8. ASSUME NEW h \in Handlers, Skip(h) \/ SkipMark(h) \/ SkipEngine(h) PROVE FillInv'
  <2>1. \E p \in {"skipMark", "skipEngine", "promotePick"} : pc' = [pc EXCEPT ![h] = p]
    BY <1>8 DEF Skip, SkipMark, SkipEngine, Goto
  <2> QED
    BY <1>c, <2>1
<1>9. ASSUME NEW h \in Handlers, NEW i \in Items, AppendItem(h, i) PROVE FillInv'
  BY <1>9, <1>c DEF AppendItem, Goto
<1>10. ASSUME NEW h \in Handlers, NEW i \in Items,
            NEW p \in InsertPositions, InsertItemAt(h, i, p) PROVE FillInv'
  BY <1>10, <1>c DEF InsertItemAt, Goto
<1>11. ASSUME NEW h \in Handlers, NEW e \in Entries, RemoveLoad(h, e) PROVE FillInv'
  BY <1>11, <1>c DEF RemoveLoad, Goto
<1>12. ASSUME NEW h \in Handlers, NEW e \in Entries, RemoveRefused(h, e) PROVE FillInv'
  BY <1>12, <1>d DEF RemoveRefused, vars
<1>13. ASSUME NEW i \in Items, AssignItem(i) \/ RemoveItem(i) PROVE FillInv'
  BY <1>13, <1>d DEF AssignItem, RemoveItem
<1>14. ASSUME NEW i \in Items, DeleteItem(i) PROVE FillInv'
  BY <1>14, DeletionsFit DEF DeleteItem
<1>15. CASE CleanupPlayed
  BY <1>15, DeletionsFit DEF CleanupPlayed
<1>16. CASE EngineAdvance \/ EngineRestart \/ LoseEvent
  BY <1>16, <1>d DEF EngineAdvance, EngineRestart, LoseEvent
<1>17. CASE ApiRestart
  BY <1>17 DEF ApiRestart, FillInv
<1>18. CASE UNCHANGED vars
  BY <1>18, <1>d DEF vars
<1> QED
  BY <1>1, <1>2, <1>3, <1>4, <1>5, <1>6, <1>7, <1>8, <1>9, <1>10, <1>11, <1>12,
     <1>13, <1>14, <1>15, <1>16, <1>17, <1>18
  DEF Next, Step, Request

\* What an action of AutoFillTopsUp says.
TopsUp(h) ==
    pc[h] = "fillRows" /\ pc'[h] = "pushSelect" =>
        /\ Cardinality(Live') <= AutoFillBatch
        /\ \A e \in (Live' \ Live), f \in Live' : source'[e] = source'[f] => e = f

\* The INSERT of a fill that fits tops up.
LEMMA InsertTopsUp ==
  ASSUME TypeInv, LifeInv, NEW h \in Handlers, NewItems(picks[h]),
         Cardinality(Live) + Len(picks[h]) <= AutoFillBatch, InsertRows(picks[h], slot[h])
  PROVE  TopsUp(h)
<1> DEFINE s   == picks[h]
           new == born + 1 .. born + Len(s)
<1>1. born \in Nat /\ Len(s) \in Nat /\ born + Len(s) <= MaxEntries /\ MaxEntries \in Nat
  BY PlayoutAssumption DEF TypeInv, TableOK, LocalsOK, InsertRows
<1>2. \A e \in new : /\ e \in Entries /\ status[e] = "absent"
                     /\ e - born \in 1..Len(s) /\ source'[e] = s[e - born]
  <2>1. \A e \in new : e \in Entries /\ e > born /\ e - born \in 1..Len(s)
    BY <1>1 DEF Entries
  <2> QED
    BY <2>1 DEF LifeInv, InsertRows
<1>3. \A e \in Entries : /\ e \in new => status'[e] = "queued"
                         /\ e \notin new => status'[e] = status[e] /\ source'[e] = source[e]
  BY DEF InsertRows
<1>4. \A e, f \in new : e - born = f - born => e = f
  BY <1>1
<1>5. IsFiniteSet(new) /\ Cardinality(new) = Len(s)
  <2> HIDE DEF s
  <2>1. /\ IsFiniteSet(born + 1 .. born + Len(s))
        /\ Cardinality(born + 1 .. born + Len(s))
              = IF born + 1 > born + Len(s) THEN 0 ELSE (born + Len(s)) - (born + 1) + 1
    <3>1. born + 1 \in Int /\ born + Len(s) \in Int
      BY <1>1
    <3> QED
      BY <3>1, FS_Interval
  <2> QED
    BY <1>1, <2>1
<1> HIDE DEF new
<1>6. Live' = Live \cup new /\ Live \cap new = {}
  BY <1>2, <1>3 DEF Live, WithStatus
<1>7. Cardinality(Live') <= AutoFillBatch
  <2>1. Cardinality(Live \cup new) = Cardinality(Live) + Cardinality(new) - Cardinality({})
    BY <1>5, <1>6, LiveFinite, FS_Union
  <2> QED
    BY <1>1, <1>5, <1>6, <2>1, LiveFinite, FS_EmptySet
<1>8. ASSUME NEW e \in new, NEW f \in Live', source'[e] = source'[f] PROVE e = f
  <2>1. CASE f \in new
    BY <1>2, <1>4, <1>8, <2>1 DEF NewItems
  <2>2. CASE f \notin new
    <3>1. f \in Live /\ source'[f] = source[f]
      BY <1>3, <1>6, <2>2 DEF Live, WithStatus
    <3> QED
      BY <1>2, <1>8, <3>1 DEF NewItems
  <2> QED
    BY <2>1, <2>2
<1>9. Live' \ Live \subseteq new
  BY <1>6
<1> QED
  BY <1>7, <1>8, <1>9 DEF TopsUp

\* While calls do not overlap, a fill adds no item that is live already and stays within
\* the batch, though it counts, picks and inserts in separate statements.
THEOREM FillTopsUp == ASSUME OneAtATime PROVE Spec => AutoFillTopsUp
<1> DEFINE Inv == TypeInv /\ LifeInv /\ FillInv
<1>1. Init => Inv
  <2>1. Init => LifeInv
    BY PlayoutAssumption DEF Init, LifeInv, Entries
  <2> QED
    BY <2>1, TypeInit DEF Init, FillInv
<1>2. Inv /\ [Next]_vars => Inv'
  BY TypeStep, EveryLifeStep, FillStep DEF LifeStep
<1>3. ASSUME Inv, [Next]_vars, NEW h \in Handlers PROVE TopsUp(h)
  <2> SUFFICES ASSUME pc[h] = "fillRows", pc'[h] = "pushSelect" PROVE TopsUp(h)
    BY DEF TopsUp
  <2>1. FillRows(h)
    <3>1. PICK k : Handlers = {k}
      BY DEF OneAtATime
    <3> QED
      BY <1>3, <3>1, ZenonT(40)
      DEF Next, Step, Request, vars, handlers, TrackStarted, EventMark, EventStats, SkipMark,
          SkipEngine, PromotePick, PromoteSet, FillDepth, FillPick, FillMax, PushSelect, PushSend,
          PushFlag, InsertRow, RemoveDelete, StartupReset, Skip, AppendItem, InsertItemAt,
          RemoveLoad, RemoveRefused, AssignItem, RemoveItem, DeleteItem, CleanupPlayed,
          EngineAdvance, EngineRestart, LoseEvent, ApiRestart
  <2>2. Cardinality(Live) + Len(picks[h]) <= AutoFillBatch /\ NewItems(picks[h])
    BY <1>3 DEF FillInv
  <2>3. CASE InsertRows(picks[h], slot[h])
    BY <1>3, <2>2, <2>3, InsertTopsUp
  <2>4. CASE UNCHANGED table
    <3>1. Live' = Live
      BY <2>4 DEF table, Live, WithStatus
    <3>2. Len(picks[h]) \in Nat
      BY <1>3 DEF TypeInv, LocalsOK
    <3> QED
      BY <2>2, <3>1, <3>2, LiveFinite, PlayoutAssumption DEF TopsUp
  <2> QED
    BY <2>1, <2>3, <2>4 DEF FillRows
<1>4. Inv /\ [Next]_vars =>
        [\A h \in Handlers : pc[h] = "fillRows" /\ pc'[h] = "pushSelect" =>
          /\ Cardinality(Live') <= AutoFillBatch
          /\ \A e \in (Live' \ Live), f \in Live' :
                source'[e] = source'[f] => e = f]_vars
  BY <1>3 DEF TopsUp
<1> QED
  BY <1>1, <1>2, <1>4, PTL DEF Spec, AutoFillTopsUp

-----------------------------------------------------------------------------
(* What airs *)

\* What the engine has played of the entries that wait.
Started == {e \in Queued : e \in accepted /\ \A i \in DOMAIN buffer : buffer[i] # e}

\* The events that are posted, and the one being handled, each are for one of them.
Answering == {h \in Handlers : pc[h] \in {"eventMark", "eventStats", "promotePick", "promoteSet"}}
Posted == IF Answering = {} THEN events ELSE events + 1

\* The engine has played the first of those that wait, holds the next, in their order,
\* and has not been given the rest.
InOrder ==
    /\ \A f \in Started, g \in Queued \ Started : position[f] < position[g]
    /\ \A f \in Queued, g \in Queued : f \in accepted /\ g \notin accepted => position[f] < position[g]
    /\ \A i \in DOMAIN buffer : buffer[i] \in Queued /\ buffer[i] \in accepted
    /\ \A i, j \in DOMAIN buffer : i < j => position[buffer[i]] < position[buffer[j]]

\* What airs is the last that it has played, or else the one that is on.
OnAir ==
    airing # None =>
        \/ Started = {} /\ airing \in Playing
        \/ airing \in Started /\ \A f \in Started : position[f] <= position[airing]

\* An entry that is on was taken, and so flagged, or about to be.
Flagged ==
    /\ Playing \subseteq accepted
    /\ \A e \in Live : e \in accepted =>
          pushed[e] \/ \E h \in Handlers : pc[h] = "pushFlag" /\ Head(todo[h]) = e

\* A call that pushes has the first of those that wait and were not taken, in their order.
Given(h) == IF pc[h] = "pushFlag" THEN 2 ELSE 1
Pushes ==
    \A h \in Handlers : pc[h] \in {"pushSend", "pushFlag"} =>
        /\ \A i \in DOMAIN todo[h] :
             /\ todo[h][i] \in Queued
             /\ todo[h][i] \in accepted <=> i < Given(h)
             /\ \A j \in DOMAIN todo[h] : i < j => position[todo[h][i]] < position[todo[h][j]]
             /\ \A g \in Queued \ accepted : (\A j \in DOMAIN todo[h] : todo[h][j] # g)
                    => position[todo[h][i]] < position[g]

Holds ==
    \A h \in Handlers :
        /\ pc[h] \notin {"skipMark", "skipEngine", "removeDelete"}
        /\ pc[h] = "reset" => Live = {}
        /\ pc[h] = "eventMark" => row[h] \in Playing
        /\ pc[h] = "promoteSet" => row[h] \in Queued /\ \A f \in Queued : position[row[h]] <= position[f]
        /\ pc[h] \in {"fillRows", "insertRow"} => \A e \in Queued : position[e] < slot[h]

Whole ==
    /\ library = Items
    /\ \A e \in Live : source[e] \in Items
    /\ \A e \in accepted : e <= born
    /\ \A h \in Handlers : pc[h] \in {"fillRows", "insertRow"} => \A i \in DOMAIN picks[h] : picks[h][i] \in Items

Told == Cardinality(Started) = Posted

AirInv == InOrder /\ OnAir /\ Flagged /\ Pushes /\ Holds /\ Whole /\ Told

\* Calls do not overlap, nothing fails, and the queue only ever grows at its end.
Undisturbed == OneAtATime /\ Faults = {} /\ Requests \subseteq {"append", "assign", "unassign"}

LEMMA StartedFinite ==
  ASSUME NEW T, T \subseteq Entries
  PROVE  IsFiniteSet(T) /\ Cardinality(T) \in Nat
<1>1. IsFiniteSet(Entries)
  BY PlayoutAssumption, FS_Interval DEF Entries
<1> QED
  BY <1>1, FS_Subset, FS_CardinalityType

\* What the engine has played, and what is on, depends on the entries that wait, on
\* their order, and on the engine.
LEMMA AirStays ==
  ASSUME InOrder, OnAir, Told, TypeInv,
         Queued' = Queued, Playing \subseteq Playing' \/ Started # {},
         \A e \in Queued : position'[e] = position[e],
         UNCHANGED <<buffer, airing, accepted>>, Posted' = Posted
  PROVE  InOrder' /\ OnAir' /\ Told'
<1>1. UNCHANGED <<buffer, airing, accepted>>
  OBVIOUS
<1>2. Started' = Started /\ Started \subseteq Queued
  BY <1>1 DEF Started
<1>3. InOrder'
  <2>1. \A f \in Started, g \in Queued \ Started : position'[f] < position'[g]
    BY <1>2 DEF InOrder
  <2>2. \A i \in DOMAIN buffer : position'[buffer[i]] = position[buffer[i]]
    BY DEF InOrder
  <2>3. \A i, j \in DOMAIN buffer : i < j => position'[buffer[i]] < position'[buffer[j]]
    BY <2>2 DEF InOrder
  <2>4. \A f \in Queued, g \in Queued : f \in accepted /\ g \notin accepted
            => position'[f] < position'[g]
    BY DEF InOrder
  <2> QED
    BY <1>1, <1>2, <2>1, <2>3, <2>4 DEF InOrder
<1>4. OnAir'
  BY <1>1, <1>2 DEF OnAir
<1>5. Told'
  BY <1>1, <1>2 DEF Told
<1> QED
  BY <1>3, <1>4, <1>5

\* The engine goes on to the next entry, and posts its event.
LEMMA AirAdvance ==
  ASSUME Undisturbed, TypeInv, PositionInv, AirInv, EngineAdvance
  PROVE  AirInv'
<1>0. /\ position \in [Entries -> Nat] /\ buffer \in Seq(Entries) /\ events \in Nat
      /\ InOrder /\ OnAir /\ Flagged /\ Pushes /\ Holds /\ Whole /\ Told
  BY DEF TypeInv, TableOK, EngineOK, AirInv
<1>1. UNCHANGED <<status, position, source, pushed, born, library, accepted, pc, row, slot, picks, todo>>
  BY DEF EngineAdvance, table, catalogue, handlers
<1>2. Queued' = Queued /\ Playing' = Playing /\ Live' = Live /\ Answering' = Answering
  BY <1>1 DEF Queued, Playing, Live, WithStatus, Answering
<1>3. Flagged' /\ Pushes' /\ Holds' /\ Whole'
  BY <1>0, <1>1, <1>2 DEF Flagged, Pushes, Holds, Whole, Given
<1>4. CASE buffer = <<>>
  <2>1. UNCHANGED <<buffer, events>> /\ airing' = None
    BY <1>4 DEF EngineAdvance, EngineNext
  <2>2. Started' = Started
    BY <1>1, <1>2, <2>1 DEF Started
  <2>3. InOrder' /\ OnAir' /\ Told'
    BY <1>0, <1>1, <1>2, <2>1, <2>2 DEF InOrder, OnAir, Told, Posted
  <2> QED
    BY <1>3, <2>3 DEF AirInv
<1>5. CASE buffer # <<>>
  <2>1. PICK e : e = Head(buffer)
    OBVIOUS
  <2>2. airing' = e /\ buffer' = Tail(buffer) /\ events' = events + 1
    BY <1>5, <2>1 DEF EngineAdvance, EngineNext
  <2>3. /\ Len(buffer) \in Nat /\ Len(buffer) >= 1 /\ e = buffer[1] /\ DOMAIN buffer = 1..Len(buffer)
        /\ DOMAIN buffer' = 1..Len(buffer) - 1 /\ \A i \in DOMAIN buffer' : buffer'[i] = buffer[i + 1]
    <3>1. buffer \in Seq(Entries) /\ Len(buffer) \in Nat
      BY <1>0, LenProperties
    <3>2. Len(buffer) # 0
      BY <1>5, <3>1, EmptySeq
    <3> QED
      BY <2>1, <2>2, <3>1, <3>2, HeadTailProperties
  <2>30. \A i \in DOMAIN buffer' : i \in Nat /\ i + 1 \in DOMAIN buffer /\ 1 < i + 1
    BY <2>3
  <2>31. \A i, j \in DOMAIN buffer' : i < j => i + 1 < j + 1
    BY <2>30
  <2>4. e \in Queued /\ e \in accepted /\ \A i \in DOMAIN buffer' : position[e] < position[buffer'[i]]
    <3>1. 1 \in DOMAIN buffer
      BY <2>3
    <3> QED
      BY <1>0, <2>3, <2>30, <3>1 DEF InOrder
  <2>5. \A f \in Queued : f \in Entries /\ position[f] \in Nat
    BY <1>0 DEF Queued, WithStatus
  <2>6. Started' = Started \cup {e} /\ e \notin Started
    <3>1. e \notin Started
      BY <2>3 DEF Started
    <3>2. \A i \in DOMAIN buffer' : buffer'[i] # e
      BY <2>4, <2>5
    <3>3. \A f : (\A i \in DOMAIN buffer : buffer[i] # f) <=> (f # e /\ \A i \in DOMAIN buffer' : buffer'[i] # f)
      <4>1. ASSUME NEW f, f # e, \A i \in DOMAIN buffer' : buffer'[i] # f, NEW i \in DOMAIN buffer
            PROVE  buffer[i] # f
        <5>1. CASE i = 1
          BY <2>3, <4>1, <5>1
        <5>2. CASE i # 1
          <6>1. i - 1 \in DOMAIN buffer' /\ (i - 1) + 1 = i
            BY <2>3, <5>2
          <6> QED
            BY <2>3, <4>1, <6>1
        <5> QED
          BY <5>1, <5>2
      <4>2. ASSUME NEW f, \A i \in DOMAIN buffer : buffer[i] # f, NEW i \in DOMAIN buffer'
            PROVE  buffer'[i] # f
        BY <2>3, <2>30, <4>2
      <4>3. 1 \in DOMAIN buffer
        BY <2>3
      <4> QED
        BY <2>3, <4>1, <4>2, <4>3
    <3>4. ASSUME NEW f \in Queued, f \in accepted
          PROVE  (\A i \in DOMAIN buffer' : buffer'[i] # f)
                    <=> (f = e \/ \A i \in DOMAIN buffer : buffer[i] # f)
      <4>1. CASE f = e
        BY <3>2, <4>1
      <4>2. CASE f # e
        BY <3>3, <4>2
      <4> QED
        BY <4>1, <4>2
    <3> QED
      BY <1>1, <1>2, <2>4, <3>1, <3>4 DEF Started
  <2>7. \A f \in Started : position[f] < position[e]
    BY <1>0, <2>4, <2>6 DEF InOrder
  <2>8. InOrder'
    <3>1. ASSUME NEW g \in Queued, g \notin Started, g # e PROVE position[e] < position[g]
      <4>1. CASE g \in accepted
        <5>1. PICK i \in DOMAIN buffer : buffer[i] = g
          BY <3>1, <4>1 DEF Started
        <5>2. i # 1
          BY <2>3, <3>1, <5>1
        <5>3. i - 1 \in DOMAIN buffer' /\ (i - 1) + 1 = i
          BY <2>3, <5>2
        <5> QED
          BY <2>3, <2>4, <5>1, <5>3
      <4>2. CASE g \notin accepted
        BY <1>0, <2>4, <3>1, <4>2 DEF InOrder
      <4> QED
        BY <4>1, <4>2
    <3>2. \A f \in Started', g \in Queued' \ Started' : position'[f] < position'[g]
      BY <1>0, <1>1, <1>2, <2>6, <3>1 DEF InOrder
    <3>3. \A i \in DOMAIN buffer' : buffer'[i] \in Queued /\ buffer'[i] \in accepted
      BY <1>0, <2>3, <2>30 DEF InOrder
    <3>4. \A i, j \in DOMAIN buffer' : i < j => position[buffer'[i]] < position[buffer'[j]]
      BY <1>0, <2>3, <2>30, <2>31 DEF InOrder
    <3> QED
      BY <1>0, <1>1, <1>2, <3>2, <3>3, <3>4 DEF InOrder
  <2>9. OnAir'
    <3>1. e \in Started' /\ \A f \in Started' : position'[f] <= position'[e]
      <4>1. Started \subseteq Queued
        BY DEF Started
      <4>2. \A f \in Started : position[f] <= position[e]
        BY <2>4, <2>5, <2>7, <4>1
      <4>3. position[e] <= position[e]
        BY <2>4, <2>5
      <4> QED
        BY <1>1, <2>6, <4>2, <4>3
    <3> QED
      BY <2>2, <3>1 DEF OnAir
  <2>10. Told'
    <3>1. Started \subseteq Entries
      BY DEF Started, Queued, WithStatus
    <3>2. Cardinality(Started') = Cardinality(Started) + 1
      BY <2>6, <3>1, StartedFinite, FS_AddElement
    <3>3. Cardinality(Started) = Posted
      BY <1>0 DEF Told
    <3>4. Posted' = Posted + 1
      BY <1>0, <1>2, <2>2 DEF Posted
    <3> QED
      BY <3>2, <3>3, <3>4 DEF Told
  <2> QED
    BY <1>3, <2>8, <2>9, <2>10 DEF AirInv
<1> QED
  BY <1>4, <1>5

\* The parts of the invariant that are about calls, when the entries that wait are as before.
LEMMA CallsStay ==
  ASSUME AirInv, Live' \subseteq Live, Playing' \subseteq Playing, Queued' = Queued,
         \A e \in Live : position'[e] = position[e] /\ source'[e] = source[e] /\ pushed'[e] = pushed[e],
         UNCHANGED <<library, born, accepted>>
  PROVE  /\ (\A h \in Handlers : pc[h] = "pushFlag" => pc'[h] = "pushFlag" /\ todo'[h] = todo[h])
               => Flagged'
         /\ (\A h \in Handlers : pc'[h] \in {"pushSend", "pushFlag"} =>
                pc'[h] = pc[h] /\ todo'[h] = todo[h]) => Pushes'
         /\ (\A h \in Handlers : pc'[h] \in {"fillRows", "insertRow"} =>
                \A i \in DOMAIN picks'[h] : picks'[h][i] \in Items) => Whole'
<1>1. Queued \subseteq Live /\ Playing \subseteq Live
  BY DEF Queued, Playing, Live, WithStatus
<1>2. ASSUME \A h \in Handlers : pc[h] = "pushFlag" => pc'[h] = "pushFlag" /\ todo'[h] = todo[h]
      PROVE  Flagged'
  BY <1>1, <1>2 DEF AirInv, Flagged
<1>3. ASSUME \A h \in Handlers : pc'[h] \in {"pushSend", "pushFlag"} =>
                pc'[h] = pc[h] /\ todo'[h] = todo[h]
      PROVE  Pushes'
  BY <1>1, <1>3 DEF AirInv, Pushes, Given
<1>4. ASSUME \A h \in Handlers : pc'[h] \in {"fillRows", "insertRow"} =>
                \A i \in DOMAIN picks'[h] : picks'[h][i] \in Items
      PROVE  Whole'
  BY <1>4 DEF AirInv, Whole
<1> QED
  BY <1>2, <1>3, <1>4

\* A call that only looks, or counts, or writes elsewhere.
LEMMA AirLooks ==
  ASSUME Undisturbed, TypeInv, PositionInv, AirInv, NEW h \in Handlers,
         \/ EventStats(h) \/ FillDepth(h) \/ FillPick(h) \/ FillMax(h)
         \/ \E i \in Items : AppendItem(h, i)
  PROVE  AirInv'
<1>0. Handlers = {h} /\ pc \in [Handlers -> PCs] /\ picks \in [Handlers -> Seq(Items)]
      /\ slot \in [Handlers -> Nat]
  BY DEF Undisturbed, OneAtATime, TypeInv, LocalsOK
<1>1. UNCHANGED <<status, position, source, pushed, born, library, buffer, airing, events, accepted, todo>>
  BY DEF EventStats, FillDepth, FillPick, FillMax, AppendItem, table, catalogue, engine
<1>2. Queued' = Queued /\ Playing' = Playing /\ Live' = Live
  BY <1>1 DEF Queued, Playing, Live, WithStatus
<1>3. /\ pc[h] \in {"eventStats", "promotePick"} <=> pc'[h] \in {"promotePick"}
      /\ pc[h] \notin {"pushSend", "pushFlag", "eventMark", "promotePick", "promoteSet"}
      /\ pc'[h] \in {"promotePick", "fillPick", "pushSelect", "fillMax", "fillRows", "insertRow"}
  BY <1>0 DEF EventStats, FillDepth, FillPick, FillMax, AppendItem, Goto
<1>4. Posted' = Posted
  BY <1>0, <1>1, <1>3 DEF Answering, Posted
<1>5. InOrder' /\ OnAir' /\ Told'
  BY <1>1, <1>2, <1>4, AirStays DEF AirInv, engine
<1>6. pc'[h] \in {"fillRows", "insertRow"} => \A i \in DOMAIN picks'[h] : picks'[h][i] \in Items
  <2>1. picks'[h] \in Seq(Items)
    <3>1. CASE FillPick(h)
      <4>1. IsFiniteSet(Items)
        BY PlayoutAssumption
      <4>2. Candidates \subseteq Items
        BY DEF Candidates, TypeInv, TableOK
      <4>3. IsFiniteSet(Candidates)
        BY <4>1, <4>2, FS_Subset
      <4>4. PICK n : n = (LET free == MaxEntries - born
                          IN  IF slot[h] < free THEN slot[h] ELSE free)
        OBVIOUS
      <4>5. n \in Nat
        BY <1>0, <4>4, PlayoutAssumption DEF TypeInv, TableOK
      <4>6. PICK s \in FirstBy(recency, Candidates, n) : picks' = [picks EXCEPT ![h] = s]
        BY <3>1, <4>4 DEF FillPick
      <4>7. s \in Seq(Candidates)
        BY <4>3, <4>5, <4>6, FirstByIsList
      <4>8. s \in Seq(Items)
        BY <4>2, <4>7
      <4> QED
        BY <1>0, <4>6, <4>8
    <3>2. CASE \E i \in Items : AppendItem(h, i)
      <4>1. PICK i \in Items : picks' = [picks EXCEPT ![h] = <<i>>]
        BY <3>2 DEF AppendItem
      <4>2. <<i>> \in Seq(Items)
        OBVIOUS
      <4> QED
        BY <1>0, <4>1, <4>2
    <3>3. CASE EventStats(h) \/ FillDepth(h) \/ FillMax(h)
      BY <1>0, <3>3 DEF EventStats, FillDepth, FillMax
    <3> QED
      BY <3>1, <3>2, <3>3
  <2> QED
    BY <2>1
<1>7. Flagged' /\ Pushes' /\ Whole'
  BY <1>0, <1>1, <1>2, <1>3, <1>6, CallsStay
<1>8. Holds'
  <2>1. pc'[h] \in {"fillRows", "insertRow"} => \A e \in Queued : position[e] < slot'[h]
    <3>1. SUFFICES ASSUME pc'[h] \in {"fillRows", "insertRow"} PROVE \A e \in Queued : position[e] < slot'[h]
      OBVIOUS
    <3>2. PICK m \in MaxLivePosition : slot' = [slot EXCEPT ![h] = m + 1]
      BY <1>0, <3>1 DEF EventStats, FillDepth, FillPick, FillMax, AppendItem, Goto
    <3>3. m \in Nat /\ \A e \in Live : position[e] <= m
      BY <3>2, MaxLiveBounds DEF TypeInv
    <3>4. \A e \in Queued : e \in Live /\ position[e] \in Nat
      BY DEF Queued, Live, WithStatus, TypeInv, TableOK
    <3> QED
      BY <1>0, <3>2, <3>3, <3>4
  <2> QED
    BY <1>0, <1>1, <1>2, <1>3, <2>1 DEF Holds
<1> QED
  BY <1>5, <1>7, <1>8 DEF AirInv

\* A call that handles an event finds that the engine has played one of those that wait.
LEMMA SomeStarted ==
  ASSUME TypeInv, Told, NEW h \in Answering
  PROVE  Started # {}
<1>1. events \in Nat /\ Posted = events + 1
  BY DEF TypeInv, EngineOK, Posted
<1>2. Cardinality({}) = 0
  BY FS_EmptySet
<1> QED
  BY <1>1, <1>2 DEF Told

LEMMA AirEvent ==
  ASSUME Undisturbed, TypeInv, PositionInv, AirInv, NEW h \in Handlers,
         TrackStarted(h) \/ EventMark(h) \/ PromotePick(h)
  PROVE  AirInv'
<1>0. Handlers = {h} /\ pc \in [Handlers -> PCs] /\ row \in [Handlers -> Entries \cup {None}]
      /\ events \in Nat /\ status \in [Entries -> Statuses]
  BY DEF Undisturbed, OneAtATime, TypeInv, LocalsOK, EngineOK, TableOK
<1>1. UNCHANGED <<position, source, pushed, born, library, buffer, airing, accepted, slot, picks, todo>>
  BY DEF TrackStarted, EventMark, PromotePick, table, catalogue, engine
<1>2. CASE TrackStarted(h)
  <2>1. /\ pc[h] = "idle" /\ pc'[h] \in {"promotePick", "eventMark"}
        /\ pc'[h] = "eventMark" => row'[h] \in Playing
        /\ events > 0 /\ events' = events - 1 /\ status' = status
    BY <1>0, <1>2 DEF TrackStarted, Goto, table
  <2>2. Queued' = Queued /\ Playing' = Playing /\ Live' = Live
    BY <2>1 DEF Queued, Playing, Live, WithStatus
  <2>3. Posted' = Posted
    BY <1>0, <2>1 DEF Answering, Posted
  <2>4. InOrder' /\ OnAir' /\ Told'
    BY <1>1, <2>2, <2>3, AirStays DEF AirInv
  <2>5. Flagged' /\ Pushes' /\ Whole'
    BY <1>0, <1>1, <2>1, <2>2, CallsStay
  <2>6. Holds'
    BY <1>0, <2>1, <2>2 DEF Holds
  <2> QED
    BY <2>4, <2>5, <2>6 DEF AirInv
<1>3. CASE EventMark(h)
  <2>1. /\ pc[h] = "eventMark" /\ pc'[h] = "eventStats" /\ UNCHANGED events
        /\ SetStatus(row[h], "played")
    BY <1>0, <1>3 DEF EventMark, Goto, engine
  <2>2. row[h] \in Playing
    BY <2>1 DEF AirInv, Holds
  <2>3. Queued' = Queued /\ Playing' \subseteq Playing /\ Live' \subseteq Live
    BY <1>0, <2>1, <2>2 DEF SetStatus, Queued, Playing, Live, WithStatus
  <2>4. Posted' = Posted /\ h \in Answering
    BY <1>0, <2>1 DEF Answering, Posted
  <2>5. InOrder' /\ OnAir' /\ Told'
    BY <1>1, <2>3, <2>4, AirStays, SomeStarted DEF AirInv
  <2>6. Flagged' /\ Pushes' /\ Whole'
    BY <1>0, <1>1, <2>1, <2>3, CallsStay
  <2>7. Holds'
    BY <1>0, <2>1 DEF Holds
  <2> QED
    BY <2>5, <2>6, <2>7 DEF AirInv
<1>4. CASE PromotePick(h)
  <2>1. pc[h] = "promotePick" /\ UNCHANGED <<events, status>>
    BY <1>4 DEF PromotePick, engine, table
  <2>2. h \in Answering
    BY <2>1 DEF Answering
  <2>3. Queued # {}
    BY <2>2, SomeStarted DEF AirInv, Started
  <2>4. /\ pc'[h] = "promoteSet" /\ row'[h] \in Queued
        /\ \A f \in Queued : position[row'[h]] <= position[f]
    <3>1. PICK e \in Queued : (\A f \in Queued : position[e] <= position[f])
                              /\ row' = [row EXCEPT ![h] = e] /\ Goto(h, "promoteSet")
      BY <1>4, <2>3 DEF PromotePick
    <3> QED
      BY <1>0, <3>1 DEF Goto
  <2>5. Queued' = Queued /\ Playing' = Playing /\ Live' = Live
    BY <2>1 DEF Queued, Playing, Live, WithStatus
  <2>6. Posted' = Posted
    BY <1>0, <2>1, <2>4 DEF Answering, Posted
  <2>7. InOrder' /\ OnAir' /\ Told'
    BY <1>1, <2>5, <2>6, AirStays DEF AirInv
  <2>8. Flagged' /\ Pushes' /\ Whole'
    BY <1>0, <1>1, <2>1, <2>4, <2>5, CallsStay
  <2>9. Holds'
    BY <1>0, <1>1, <2>4, <2>5 DEF Holds
  <2> QED
    BY <2>7, <2>8, <2>9 DEF AirInv
<1> QED
  BY <1>2, <1>3, <1>4

\* The first of those that wait goes on, and it is one that the engine has played.
LEMMA AirPromote ==
  ASSUME Undisturbed, TypeInv, PositionInv, AirInv, NEW h \in Handlers, PromoteSet(h)
  PROVE  AirInv'
<1>0. /\ Handlers = {h} /\ pc \in [Handlers -> PCs] /\ events \in Nat
      /\ status \in [Entries -> Statuses] /\ position \in [Entries -> Nat]
      /\ InOrder /\ OnAir /\ Flagged /\ Pushes /\ Holds /\ Whole /\ Told
  BY DEF Undisturbed, OneAtATime, TypeInv, LocalsOK, EngineOK, TableOK, AirInv
<1>1. /\ UNCHANGED <<position, source, pushed, born, library, buffer, airing, accepted, events,
                     slot, picks, todo>>
      /\ pc[h] = "promoteSet" /\ pc'[h] = "fillDepth"
  BY <1>0 DEF PromoteSet, catalogue, engine, Goto
<1>2. PICK r : r = row[h]
  OBVIOUS
<1>3. r \in Queued /\ \A f \in Queued : f \in Entries /\ position[f] \in Nat /\ position[r] <= position[f]
  BY <1>0, <1>1, <1>2 DEF Holds, Queued, WithStatus
<1>4. Queued' = Queued \ {r} /\ Playing' = Playing \cup {r} /\ Live' = Live
  <2>1. status' = [status EXCEPT ![r] = "playing"] /\ r \in Entries /\ status[r] = "queued"
    BY <1>2, <1>3 DEF PromoteSet, SetStatus, Queued, WithStatus
  <2> QED
    BY <1>0, <2>1 DEF Queued, Playing, Live, WithStatus
<1>5. r \in Started
  <2>1. PICK f \in Started : TRUE
    <3>1. h \in Answering
      BY <1>1 DEF Answering
    <3> QED
      BY <1>0, <3>1, SomeStarted
  <2>2. f \in Queued
    BY DEF Started
  <2>3. r \notin Started => position[f] < position[r]
    BY <1>0, <1>3 DEF InOrder
  <2> QED
    BY <1>3, <2>2, <2>3
<1>6. Started' = Started \ {r} /\ \A f \in Started : f \in Queued
  BY <1>1, <1>4 DEF Started
<1>7. \A i \in DOMAIN buffer : buffer[i] # r
  BY <1>5 DEF Started
<1>8. InOrder'
  BY <1>0, <1>1, <1>4, <1>6, <1>7 DEF InOrder
<1>9. OnAir'
  <2>1. SUFFICES ASSUME airing # None PROVE OnAir'
    BY <1>1 DEF OnAir
  <2>2. airing \in Started /\ \A f \in Started : position[f] <= position[airing]
    BY <1>0, <1>5, <2>1 DEF OnAir
  <2>3. CASE airing # r
    BY <1>1, <1>6, <2>2, <2>3 DEF OnAir
  <2>4. CASE airing = r
    <3>1. \A f \in Started : f = r
      <4>1. SUFFICES ASSUME NEW f \in Started PROVE f = r
        OBVIOUS
      <4>2. position[f] <= position[r] /\ position[r] <= position[f] /\ f \in Queued
        BY <1>3, <1>6, <2>2, <2>4
      <4>3. position[f] = position[r]
        BY <1>3, <4>2
      <4> QED
        BY <1>3, <4>2, <4>3 DEF PositionInv, QueuedPositionsDistinct
    <3> QED
      BY <1>1, <1>4, <1>6, <2>4, <3>1 DEF OnAir
  <2> QED
    BY <2>3, <2>4
<1>10. Told'
  <2>1. Started \subseteq Entries
    BY <1>3, <1>6
  <2>2. Cardinality(Started') = Cardinality(Started) - 1
    BY <1>5, <1>6, <2>1, StartedFinite, FS_RemoveElement
  <2>3. Posted = events + 1 /\ Posted' = events
    BY <1>0, <1>1 DEF Posted, Answering
  <2> QED
    BY <1>0, <2>2, <2>3 DEF Told
<1>11. Flagged'
  <2>1. r \in accepted
    BY <1>5 DEF Started
  <2> QED
    BY <1>0, <1>1, <1>4, <2>1 DEF Flagged
<1>12. Pushes' /\ Holds'
  BY <1>0, <1>1 DEF Pushes, Holds
<1>13. Whole'
  BY <1>0, <1>1, <1>4 DEF Whole
<1> QED
  BY <1>8, <1>9, <1>10, <1>11, <1>12, <1>13 DEF AirInv

\* What is inserted waits behind all that wait, and the engine does not have it.
LEMMA AirInsert ==
  ASSUME Undisturbed, TypeInv, PositionInv, LifeInv, AirInv, NEW h \in Handlers,
         FillRows(h) \/ InsertRow(h)
  PROVE  AirInv'
<1>0. /\ Handlers = {h} /\ pc \in [Handlers -> PCs] /\ slot \in [Handlers -> Nat]
      /\ picks[h] \in Seq(Items) /\ born \in Nat /\ accepted \subseteq Entries
      /\ status \in [Entries -> Statuses] /\ position \in [Entries -> Nat]
      /\ InOrder /\ OnAir /\ Flagged /\ Pushes /\ Holds /\ Whole /\ Told
  BY PlayoutAssumption DEF Undisturbed, OneAtATime, TypeInv, LocalsOK, EngineOK, TableOK, AirInv
<1>1. /\ UNCHANGED <<library, buffer, airing, accepted, events, todo>>
      /\ pc[h] \in {"fillRows", "insertRow"} /\ pc'[h] \in {"idle", "pushSelect"}
  <2>1. \E p \in {"pushSelect", "idle"} : pc' = [pc EXCEPT ![h] = p]
    BY DEF FillRows, InsertRow, Goto
  <2> QED
    BY <1>0, <2>1 DEF FillRows, InsertRow, catalogue, engine
<1>2. Posted' = Posted
  BY <1>0, <1>1 DEF Answering, Posted
<1>3. Pushes' /\ Holds'
  BY <1>0, <1>1 DEF Pushes, Holds
<1>4. CASE UNCHANGED table
  <2>1. UNCHANGED <<status, position, source, pushed, born>>
    BY <1>4 DEF table
  <2>2. Queued' = Queued /\ Playing' = Playing /\ Live' = Live
    BY <2>1 DEF Queued, Playing, Live, WithStatus
  <2>3. InOrder' /\ OnAir' /\ Told'
    BY <1>0, <1>1, <1>2, <2>1, <2>2, AirStays
  <2>4. Flagged' /\ Whole'
    BY <1>0, <1>1, <2>1, <2>2, CallsStay DEF AirInv
  <2> QED
    BY <1>3, <2>3, <2>4 DEF AirInv
<1>5. CASE InsertRows(picks[h], slot[h])
  <2>1. PICK p, s : p = slot[h] /\ s = picks[h]
    OBVIOUS
  <2>2. p \in Nat /\ s \in Seq(Items) /\ Len(s) \in Nat /\ InsertRows(s, p)
        /\ (\A i \in DOMAIN s : s[i] \in Items) /\ DOMAIN s = 1..Len(s)
    BY <1>0, <1>5, <2>1
  <2>3. \A e \in Queued : e \in Entries /\ position[e] \in Nat /\ position[e] < p
    BY <1>0, <1>1, <2>1 DEF Holds, Queued, WithStatus
  <2> DEFINE new == {e \in Entries : e \in born + 1 .. born + Len(s)}
  <2>4. /\ \A e \in Entries : /\ status'[e] = IF e \in new THEN "queued" ELSE status[e]
                              /\ position'[e] = IF e \in new THEN p + (e - born - 1) ELSE position[e]
                              /\ source'[e] = IF e \in new THEN s[e - born] ELSE source[e]
                              /\ pushed'[e] = IF e \in new THEN FALSE ELSE pushed[e]
        /\ born' = born + Len(s)
    BY <2>2 DEF InsertRows
  <2>5. \A e \in new : status[e] = "absent" /\ e \notin accepted /\ position'[e] \in Nat /\ position'[e] >= p
    <3>1. SUFFICES ASSUME NEW e \in new
                   PROVE  status[e] = "absent" /\ e \notin accepted /\ position'[e] \in Nat /\ position'[e] >= p
      OBVIOUS
    <3>2. e \in Entries /\ e \in Nat /\ e > born /\ ~(e <= born)
      BY <1>0, <2>2 DEF Entries
    <3>3. position'[e] = p + (e - born - 1)
      BY <2>4
    <3>4. status[e] = "absent" /\ e \notin accepted
      BY <1>0, <3>2 DEF LifeInv, Whole
    <3> QED
      BY <1>0, <2>2, <3>2, <3>3, <3>4
  <2> HIDE DEF new
  <2>6. new \subseteq Entries
    BY DEF new
  <2>7. /\ Queued' = Queued \cup new /\ Playing' = Playing /\ Live' = Live \cup new
        /\ \A e \in Live : e \notin new
    BY <1>0, <2>4, <2>5, <2>6 DEF Queued, Playing, Live, WithStatus
  <2>8. Started' = Started /\ \A f \in Started : f \in Queued
    BY <1>1, <2>5, <2>7 DEF Started
  <2>9. /\ \A e \in Queued : position'[e] = position[e] /\ e \notin new
        /\ \A e \in Queued, g \in new : position'[e] < position'[g]
    <3>1. \A e \in Queued : position'[e] = position[e] /\ e \notin new
      BY <2>3, <2>4, <2>7 DEF Queued, Live, WithStatus
    <3> QED
      BY <2>2, <2>3, <2>5, <3>1
  <2>10. InOrder'
    <3>1. \A f \in Started, g \in (Queued \cup new) \ Started : position'[f] < position'[g]
      BY <1>0, <2>8, <2>9 DEF InOrder
    <3>2. \A f \in Queued \cup new, g \in Queued \cup new :
            f \in accepted /\ g \notin accepted => position'[f] < position'[g]
      BY <1>0, <2>5, <2>9 DEF InOrder
    <3>3. \A i \in DOMAIN buffer : buffer[i] \in Queued /\ buffer[i] \in accepted
      BY <1>0 DEF InOrder
    <3>4. \A i, j \in DOMAIN buffer : i < j => position'[buffer[i]] < position'[buffer[j]]
      BY <1>0, <2>9, <3>3 DEF InOrder
    <3> QED
      BY <1>1, <2>7, <2>8, <3>1, <3>2, <3>3, <3>4 DEF InOrder
  <2>11. OnAir' /\ Told'
    BY <1>0, <1>1, <1>2, <2>7, <2>8, <2>9 DEF OnAir, Told
  <2>12. Flagged'
    <3>1. \A e \in Live : pushed'[e] = pushed[e]
      BY <2>4, <2>7 DEF Live, WithStatus
    <3> QED
      BY <1>0, <1>1, <2>5, <2>7, <3>1 DEF Flagged
  <2>13. Whole'
    <3>1. \A e \in new : source'[e] \in Items
      <4>1. SUFFICES ASSUME NEW e \in new PROVE source'[e] \in Items
        OBVIOUS
      <4>2. e - born \in DOMAIN s
        BY <1>0, <2>2 DEF new, Entries
      <4> QED
        BY <2>2, <2>4, <2>6, <4>2
    <3>2. \A e \in Live : source'[e] = source[e]
      BY <2>4, <2>7 DEF Live, WithStatus
    <3>3. \A e \in accepted : e <= born'
      BY <1>0, <2>2, <2>4 DEF Whole, Entries
    <3> QED
      BY <1>0, <1>1, <2>7, <3>1, <3>2, <3>3 DEF Whole
  <2> QED
    BY <1>3, <2>10, <2>11, <2>12, <2>13 DEF AirInv
<1> QED
  BY <1>4, <1>5 DEF FillRows, InsertRow

\* ORDER BY, LIMIT: what is left out comes no earlier than what is taken.
LEMMA FirstByOrders ==
  ASSUME NEW key, NEW S, IsFiniteSet(S), NEW n \in Nat, NEW s \in FirstBy(key, S, n)
  PROVE  /\ \A i \in DOMAIN s : i \in Nat /\ s[i] \in S
         /\ \A i, j \in DOMAIN s : i < j => s[i] # s[j] /\ key[s[i]] <= key[s[j]]
         /\ \A x \in S : (\A i \in DOMAIN s : s[i] # x) => \A i \in DOMAIN s : key[s[i]] <= key[x]
<1> DEFINE k == IF Cardinality(S) < n THEN Cardinality(S) ELSE n
<1>1. k \in Nat
  BY FS_CardinalityType
<1>2. /\ s \in [1..k -> S]
      /\ \A i, j \in 1..k : i < j => s[i] # s[j] /\ key[s[i]] <= key[s[j]]
      /\ \A x \in S : (\A i \in 1..k : s[i] # x) => \A i \in 1..k : key[s[i]] <= key[x]
  BY DEF FirstBy
<1> HIDE DEF k
<1> QED
  BY <1>1, <1>2

\* A push starts with the first of those that wait and were not taken.
LEMMA AirSelect ==
  ASSUME Undisturbed, TypeInv, PositionInv, PushedInv, AirInv, NEW h \in Handlers, PushSelect(h)
  PROVE  AirInv'
<1>0. /\ Handlers = {h} /\ pc \in [Handlers -> PCs] /\ todo \in [Handlers -> Seq(Entries)]
      /\ position \in [Entries -> Nat] /\ pushed \in [Entries -> BOOLEAN]
      /\ InOrder /\ OnAir /\ Flagged /\ Pushes /\ Holds /\ Whole /\ Told
  BY DEF Undisturbed, OneAtATime, TypeInv, LocalsOK, TableOK, AirInv
<1>1. /\ UNCHANGED <<status, position, source, pushed, born, library, buffer, airing, accepted,
                     events, slot, picks>>
      /\ pc[h] = "pushSelect"
  BY DEF PushSelect, table, catalogue, engine
<1>2. PICK s \in FirstBy(position, {e \in Live : ~pushed[e]}, PrefetchDepth) :
        /\ todo' = [todo EXCEPT ![h] = s]
        /\ pc' = [pc EXCEPT ![h] = IF s = <<>> THEN "idle" ELSE "pushSend"]
  BY DEF PushSelect, Goto
<1>3. pc'[h] \in {"idle", "pushSend"} /\ todo'[h] = s
  BY <1>0, <1>2
<1>4. Queued' = Queued /\ Playing' = Playing /\ Live' = Live
  BY <1>1 DEF Queued, Playing, Live, WithStatus
<1>5. Posted' = Posted
  BY <1>0, <1>1, <1>3 DEF Answering, Posted
<1>6. InOrder' /\ OnAir' /\ Told'
  BY <1>0, <1>1, <1>4, <1>5, AirStays
<1>7. {e \in Live : ~pushed[e]} = Queued \ accepted
  <2>1. \A e \in Queued : pushed[e] => e \in accepted
    BY DEF PushedInv, PushedWasAccepted, Queued, WithStatus
  <2>2. \A e \in Live : e \in accepted => pushed[e]
    BY <1>0, <1>1 DEF Flagged
  <2>3. Live = Queued \cup Playing
    BY DEF Queued, Playing, Live, WithStatus
  <2> QED
    BY <1>0, <2>1, <2>2, <2>3 DEF Flagged
<1>8. /\ s \in FirstBy(position, Queued \ accepted, PrefetchDepth) /\ PrefetchDepth \in Nat
      /\ IsFiniteSet(Queued \ accepted)
  <2>1. Queued \ accepted \subseteq Entries
    BY DEF Queued, WithStatus
  <2> QED
    BY <1>2, <1>7, <2>1, StartedFinite, PlayoutAssumption
<1>9. \A e \in Queued : e \in Entries /\ position[e] \in Nat
  BY <1>0 DEF Queued, WithStatus
<1>10. /\ \A i \in DOMAIN s : i \in Nat /\ s[i] \in Queued /\ s[i] \notin accepted
       /\ \A i, j \in DOMAIN s : i < j => position[s[i]] < position[s[j]]
       /\ \A g \in Queued \ accepted : (\A j \in DOMAIN s : s[j] # g) =>
              \A i \in DOMAIN s : position[s[i]] < position[g]
  <2>0. \A i \in DOMAIN s : i \in Nat /\ s[i] \in Queued \ accepted
    BY <1>8, FirstByOrders
  <2>1. \A i \in DOMAIN s : i \in Nat /\ s[i] \in Queued /\ s[i] \notin accepted
    BY <2>0
  <2>2. \A e, f \in Queued : e # f /\ position[e] <= position[f] => position[e] < position[f]
    BY <1>9 DEF PositionInv, QueuedPositionsDistinct
  <2>3. \A i, j \in DOMAIN s : i < j => s[i] # s[j] /\ position[s[i]] <= position[s[j]]
    BY <1>8, FirstByOrders
  <2>4. \A g \in Queued \ accepted : (\A j \in DOMAIN s : s[j] # g) =>
              \A i \in DOMAIN s : s[i] # g /\ position[s[i]] <= position[g]
    BY <1>8, FirstByOrders
  <2> QED
    BY <2>1, <2>2, <2>3, <2>4
<1>11. \A i \in DOMAIN s : ~(i < 1)
  <2>1. s \in Seq(Queued \ accepted)
    BY <1>8, FirstByIsList
  <2> QED
    BY <2>1
<1>12. Pushes'
  BY <1>0, <1>1, <1>3, <1>4, <1>10, <1>11 DEF Pushes, Given
<1>13. Flagged' /\ Whole'
  BY <1>0, <1>1, <1>3, <1>4, CallsStay DEF AirInv
<1>14. Holds'
  BY <1>0, <1>3 DEF Holds
<1> QED
  BY <1>6, <1>12, <1>13, <1>14 DEF AirInv

\* The first of a list, and where the others are in the rest of it.
LEMMA ListRest ==
  ASSUME NEW S, NEW s \in Seq(S), s # <<>>
  PROVE  /\ 1 \in DOMAIN s /\ Head(s) = s[1] /\ \A i \in DOMAIN s : i \in Nat /\ 1 <= i
         /\ \A i \in DOMAIN Tail(s) : i \in Nat /\ 1 <= i /\ i + 1 \in DOMAIN s /\ Tail(s)[i] = s[i + 1]
         /\ \A i \in DOMAIN s : i # 1 => i - 1 \in DOMAIN Tail(s) /\ s[i] = Tail(s)[i - 1]
<1>1. Len(s) \in Nat /\ DOMAIN s = 1..Len(s) /\ Len(s) # 0
  BY LenProperties, EmptySeq
<1>2. /\ Head(s) = s[1] /\ DOMAIN Tail(s) = 1..Len(s) - 1
      /\ \A i \in 1..Len(s) - 1 : Tail(s)[i] = s[i + 1]
  BY <1>1, HeadTailProperties
<1> HIDE DEF Head, Tail
<1>3. \A i \in 1..Len(s) : i # 1 => i - 1 \in 1..Len(s) - 1 /\ (i - 1) + 1 = i
  BY <1>1
<1> QED
  BY <1>1, <1>2, <1>3

\* The engine takes the next entry, behind those it has.
LEMMA AirSend ==
  ASSUME Undisturbed, TypeInv, PositionInv, LifeInv, AirInv, NEW h \in Handlers, PushSend(h)
  PROVE  AirInv'
<1>0. /\ Handlers = {h} /\ pc \in [Handlers -> PCs] /\ todo[h] \in Seq(Entries)
      /\ position \in [Entries -> Nat] /\ buffer \in Seq(Entries)
      /\ pc[h] = "pushSend" /\ todo[h] # <<>>
      /\ InOrder /\ OnAir /\ Flagged /\ Pushes /\ Holds /\ Whole /\ Told
  BY DEF PushSend, Undisturbed, OneAtATime, TypeInv, LocalsOK, EngineOK, TableOK, AirInv
<1>1. PICK e, list : e = Head(todo[h]) /\ list = todo[h]
  OBVIOUS
<1>2. /\ 1 \in DOMAIN list /\ e = list[1] /\ \A i \in DOMAIN list : i \in Nat /\ 1 <= i
  BY <1>0, <1>1, ListRest
<1>3. /\ \A i \in DOMAIN list : list[i] \in Queued /\ list[i] \notin accepted
      /\ \A i, j \in DOMAIN list : i < j => position[list[i]] < position[list[j]]
      /\ \A g \in Queued \ accepted : (\A j \in DOMAIN list : list[j] # g) =>
             \A i \in DOMAIN list : position[list[i]] < position[g]
  BY <1>0, <1>1, <1>2 DEF Pushes, Given
<1>4. e \in Queued /\ e \notin accepted /\ e \in Live /\ e \in Entries
  BY <1>2, <1>3 DEF Queued, Live, WithStatus
<1>5. source[e] \in library
  BY <1>0, <1>4 DEF Whole
<1>6. EngineTakes(e) /\ pc' = [pc EXCEPT ![h] = "pushFlag"] /\ UNCHANGED todo
  BY <1>0, <1>1, <1>5 DEF PushSend, Undisturbed, Goto
<1>7. /\ buffer' = Append(buffer, e) /\ accepted' = accepted \cup {e}
      /\ UNCHANGED <<airing, events, status, position, source, pushed, born, library, row, slot, picks, todo>>
      /\ pc'[h] = "pushFlag"
  BY <1>0, <1>6 DEF EngineTakes, PushSend, table, catalogue
<1>8. Queued' = Queued /\ Playing' = Playing /\ Live' = Live
  BY <1>7 DEF Queued, Playing, Live, WithStatus
<1>9. /\ Len(buffer) \in Nat /\ DOMAIN buffer = 1..Len(buffer) /\ DOMAIN buffer' = 1..Len(buffer) + 1
      /\ buffer'[Len(buffer) + 1] = e /\ \A i \in DOMAIN buffer : buffer'[i] = buffer[i]
  BY <1>0, <1>4, <1>7, AppendProperties, LenProperties
<1>10. /\ \A i \in DOMAIN buffer' : i \in Nat /\ (i \in DOMAIN buffer \/ i = Len(buffer) + 1)
       /\ \A i \in DOMAIN buffer : i \in DOMAIN buffer' /\ i < Len(buffer) + 1
       /\ Len(buffer) + 1 \in DOMAIN buffer'
  BY <1>9
<1>11. Started' = Started
  <2>1. ASSUME NEW f \in Queued
        PROVE  (f \in accepted' /\ \A i \in DOMAIN buffer' : buffer'[i] # f)
                  <=> (f \in accepted /\ \A i \in DOMAIN buffer : buffer[i] # f)
    BY <1>4, <1>7, <1>9, <1>10
  <2> QED
    BY <1>8, <2>1 DEF Started
<1>12. \A f \in Queued : f \in Entries /\ position[f] \in Nat
  BY <1>0 DEF Queued, WithStatus
<1>13. \A g \in Queued \ accepted : g # e => position[e] < position[g]
  <2>1. SUFFICES ASSUME NEW g \in Queued, g \notin accepted, g # e PROVE position[e] < position[g]
    OBVIOUS
  <2>2. CASE \A j \in DOMAIN list : list[j] # g
    BY <1>2, <1>3, <2>1, <2>2
  <2>3. CASE \E j \in DOMAIN list : list[j] = g
    <3>1. PICK j \in DOMAIN list : list[j] = g
      BY <2>3
    <3>2. j # 1 /\ 1 <= j /\ j \in Nat
      BY <1>2, <2>1, <3>1
    <3>3. 1 < j
      BY <3>2
    <3> QED
      BY <1>2, <1>3, <3>1, <3>3
  <2> QED
    BY <2>2, <2>3
<1>14. InOrder'
  <2>1. \A f \in Queued, g \in Queued : f \in accepted' /\ g \notin accepted' => position[f] < position[g]
    BY <1>0, <1>7, <1>13 DEF InOrder
  <2>2. \A i \in DOMAIN buffer' : buffer'[i] \in Queued /\ buffer'[i] \in accepted'
    BY <1>0, <1>4, <1>7, <1>9, <1>10 DEF InOrder
  <2>3. ASSUME NEW i \in DOMAIN buffer', NEW j \in DOMAIN buffer', i < j
        PROVE  position[buffer'[i]] < position[buffer'[j]]
    <3>1. i \in DOMAIN buffer /\ buffer'[i] = buffer[i]
      <4>1. i # Len(buffer) + 1
        BY <1>9, <1>10, <2>3
      <4> QED
        BY <1>9, <1>10, <4>1
    <3>2. CASE j \in DOMAIN buffer
      BY <1>0, <1>9, <2>3, <3>1, <3>2 DEF InOrder
    <3>3. CASE j = Len(buffer) + 1
      <4>1. buffer'[j] = e /\ buffer[i] \in Queued /\ buffer[i] \in accepted
        BY <1>0, <1>9, <3>1, <3>3 DEF InOrder
      <4> QED
        BY <1>0, <1>4, <3>1, <4>1 DEF InOrder
    <3> QED
      BY <1>10, <3>2, <3>3
  <2>4. \A f \in Started, g \in Queued \ Started : position[f] < position[g]
    BY <1>0 DEF InOrder
  <2> QED
    BY <1>7, <1>8, <1>11, <2>1, <2>2, <2>3, <2>4 DEF InOrder
<1>15. OnAir' /\ Told'
  <2>1. Posted' = Posted
    BY <1>0, <1>7 DEF Posted, Answering
  <2> QED
    BY <1>0, <1>7, <1>8, <1>11, <2>1 DEF OnAir, Told
<1>16. Flagged'
  BY <1>0, <1>1, <1>7, <1>8 DEF Flagged
<1>17. Pushes'
  <2>1. \A i \in DOMAIN list : list[i] \in accepted' <=> i < 2
    <3>1. SUFFICES ASSUME NEW i \in DOMAIN list PROVE list[i] \in accepted' <=> i < 2
      OBVIOUS
    <3>2. CASE i = 1
      BY <1>2, <1>7, <3>2
    <3>3. CASE i # 1
      <4>1. 1 < i /\ ~(i < 2)
        BY <1>2, <3>3
      <4>2. list[i] # e
        BY <1>2, <1>3, <1>12, <4>1
      <4> QED
        BY <1>3, <1>7, <4>1, <4>2
    <3> QED
      BY <3>2, <3>3
  <2>2. \A g \in Queued \ accepted' : (\A j \in DOMAIN list : list[j] # g) =>
             \A i \in DOMAIN list : position[list[i]] < position[g]
    BY <1>3, <1>7
  <2> QED
    BY <1>0, <1>1, <1>3, <1>7, <1>8, <2>1, <2>2 DEF Pushes, Given
<1>18. Holds'
  BY <1>0, <1>7 DEF Holds
<1>19. Whole'
  <2>1. e <= born
    <3>1. born \in Nat /\ e \in Nat /\ status[e] # "absent"
      BY <1>4, PlayoutAssumption DEF TypeInv, TableOK, Entries, Queued, WithStatus
    <3>2. ~(e > born)
      BY <1>4, <3>1 DEF LifeInv
    <3> QED
      BY <3>1, <3>2
  <2> QED
    BY <1>0, <1>7, <1>8, <2>1 DEF Whole
<1> QED
  BY <1>14, <1>15, <1>16, <1>17, <1>18, <1>19 DEF AirInv

\* The flag is set, and the call goes on with the rest.
LEMMA AirFlag ==
  ASSUME Undisturbed, TypeInv, PositionInv, AirInv, NEW h \in Handlers, PushFlag(h)
  PROVE  AirInv'
<1>0. /\ Handlers = {h} /\ pc \in [Handlers -> PCs] /\ todo \in [Handlers -> Seq(Entries)]
      /\ status \in [Entries -> Statuses] /\ pushed \in [Entries -> BOOLEAN]
      /\ pc[h] = "pushFlag" /\ todo[h] # <<>>
      /\ InOrder /\ OnAir /\ Flagged /\ Pushes /\ Holds /\ Whole /\ Told
  BY DEF PushFlag, Undisturbed, OneAtATime, TypeInv, LocalsOK, EngineOK, TableOK, AirInv
<1>1. PICK e, list : e = Head(todo[h]) /\ list = todo[h]
  OBVIOUS
<1>2. PICK rest : rest = Tail(list)
  OBVIOUS
<1>3. /\ 1 \in DOMAIN list /\ e = list[1]
      /\ \A i \in DOMAIN rest : i \in Nat /\ 1 <= i /\ i + 1 \in DOMAIN list /\ rest[i] = list[i + 1]
      /\ \A i \in DOMAIN list : i # 1 => i - 1 \in DOMAIN rest /\ list[i] = rest[i - 1]
  BY <1>0, <1>1, <1>2, ListRest
<1>4. /\ todo'[h] = rest /\ pc'[h] \in {"idle", "pushSend"}
      /\ pushed' = [pushed EXCEPT ![e] = status[e] # "absent"]
      /\ UNCHANGED <<status, position, source, born, library, buffer, airing, accepted, events,
                     row, slot, picks>>
  BY <1>0, <1>1, <1>2 DEF PushFlag, PushRest, Goto, catalogue, engine
<1>5. /\ \A i \in DOMAIN list : list[i] \in Queued /\ (list[i] \in accepted <=> i < 2)
      /\ \A i, j \in DOMAIN list : i < j => position[list[i]] < position[list[j]]
      /\ \A g \in Queued \ accepted : (\A j \in DOMAIN list : list[j] # g) =>
             \A i \in DOMAIN list : position[list[i]] < position[g]
  BY <1>0, <1>1 DEF Pushes, Given
<1>6. e \in Queued /\ e \in accepted /\ e \in Entries /\ status[e] = "queued"
  <2>1. 1 < 2
    OBVIOUS
  <2> QED
    BY <1>3, <1>5, <2>1 DEF Queued, WithStatus
<1>7. Queued' = Queued /\ Playing' = Playing /\ Live' = Live
  BY <1>4 DEF Queued, Playing, Live, WithStatus
<1>8. Posted' = Posted
  BY <1>0, <1>4 DEF Answering, Posted
<1>9. InOrder' /\ OnAir' /\ Told'
  BY <1>0, <1>4, <1>7, <1>8, AirStays
<1>10. Flagged'
  <2>1. pushed'[e] /\ \A f \in Entries : f # e => pushed'[f] = pushed[f]
    BY <1>0, <1>4, <1>6
  <2>2. \A f \in Live : f \in Entries
    BY DEF Live, WithStatus
  <2> QED
    BY <1>0, <1>1, <1>4, <1>7, <2>1, <2>2 DEF Flagged
<1>11. Pushes'
  <2>1. \A i \in DOMAIN rest : rest[i] \in Queued /\ rest[i] \notin accepted /\ ~(i < 1)
    <3>1. SUFFICES ASSUME NEW i \in DOMAIN rest
                   PROVE  rest[i] \in Queued /\ rest[i] \notin accepted /\ ~(i < 1)
      OBVIOUS
    <3>2. i + 1 \in DOMAIN list /\ rest[i] = list[i + 1] /\ i \in Nat /\ 1 <= i
      BY <1>3
    <3>3. ~(i + 1 < 2) /\ ~(i < 1)
      BY <3>2
    <3> QED
      BY <1>5, <3>2, <3>3
  <2>2. \A i, j \in DOMAIN rest : i < j => position[rest[i]] < position[rest[j]]
    BY <1>3, <1>5
  <2>3. \A g \in Queued \ accepted : (\A j \in DOMAIN rest : rest[j] # g) =>
             \A i \in DOMAIN rest : position[rest[i]] < position[g]
    <3>1. SUFFICES ASSUME NEW g \in Queued, g \notin accepted, \A j \in DOMAIN rest : rest[j] # g,
                          NEW i \in DOMAIN rest
                   PROVE  position[rest[i]] < position[g]
      OBVIOUS
    <3>2. \A j \in DOMAIN list : list[j] # g
      BY <1>3, <1>6, <3>1
    <3> QED
      BY <1>3, <1>5, <3>1, <3>2
  <2> QED
    BY <1>0, <1>4, <1>7, <2>1, <2>2, <2>3 DEF Pushes, Given
<1>12. Holds'
  BY <1>0, <1>4, <1>7 DEF Holds
<1>13. Whole'
  BY <1>0, <1>4, <1>7 DEF Whole
<1> QED
  BY <1>9, <1>10, <1>11, <1>12, <1>13 DEF AirInv

\* What happens beside the calls, and the end of startup's reset, touches no entry that
\* waits or is on.
LEMMA AirBeside ==
  ASSUME Undisturbed, TypeInv, PositionInv, AirInv,
         \/ \E h \in Handlers : StartupReset(h)
         \/ \E i \in Items : AssignItem(i) \/ RemoveItem(i)
         \/ CleanupPlayed
         \/ UNCHANGED vars
  PROVE  AirInv'
<1>0. /\ status \in [Entries -> Statuses] /\ pc \in [Handlers -> PCs] /\ OneAtATime
      /\ InOrder /\ OnAir /\ Flagged /\ Pushes /\ Holds /\ Whole /\ Told
  BY DEF TypeInv, TableOK, LocalsOK, AirInv, Undisturbed
<1>1. /\ UNCHANGED <<source, born, library, buffer, airing, accepted, events, row, slot, picks, todo>>
      /\ Queued' = Queued /\ Playing' = Playing /\ Live' = Live
      /\ \A e \in Live : position'[e] = position[e] /\ pushed'[e] = pushed[e]
  <2>1. CASE \E h \in Handlers : StartupReset(h)
    <3>1. PICK h \in Handlers : StartupReset(h)
      BY <2>1
    <3>2. Live = {}
      BY <1>0, <3>1 DEF StartupReset, Holds
    <3> QED
      BY <3>1, <3>2 DEF StartupReset, catalogue, engine, Queued, Playing, Live, WithStatus
  <2>2. CASE (\E i \in Items : AssignItem(i) \/ RemoveItem(i)) \/ UNCHANGED vars
    BY <2>2 DEF AssignItem, RemoveItem, vars, table, catalogue, engine, handlers, Queued, Playing,
                Live, WithStatus
  <2>3. CASE CleanupPlayed
    <3>1. PICK old \in SUBSET WithStatus({"played"}) : DeleteRows(old)
      BY <2>3 DEF CleanupPlayed
    <3>2. \A e \in Entries : e \in old => status[e] = "played"
      BY DEF WithStatus
    <3>3. \A e \in Entries : /\ status'[e] = IF e \in old THEN "absent" ELSE status[e]
                             /\ position'[e] = IF e \in old THEN 0 ELSE position[e]
                             /\ pushed'[e] = (pushed[e] /\ e \notin old)
      BY <3>1 DEF DeleteRows
    <3>4. Queued' = Queued /\ Playing' = Playing /\ Live' = Live
      BY <3>2, <3>3 DEF Queued, Playing, Live, WithStatus
    <3>5. \A e \in Live : e \in Entries /\ e \notin old
      BY <3>2 DEF Live, WithStatus
    <3>6. \A e \in Live : position'[e] = position[e]
      BY <3>3, <3>5
    <3>7. \A e \in Live : pushed'[e] = pushed[e]
      BY <3>3, <3>5 DEF TypeInv, TableOK
    <3> QED
      BY <2>3, <3>1, <3>4, <3>6, <3>7 DEF CleanupPlayed, DeleteRows, catalogue, engine, handlers
  <2> QED
    BY <2>1, <2>2, <2>3
<1>2. \A h \in Handlers : pc'[h] = pc[h] \/ (pc[h] = "reset" /\ pc'[h] = "fillDepth")
  <2>1. CASE \E h \in Handlers : StartupReset(h)
    BY <1>0, <2>1 DEF StartupReset, Goto
  <2>2. CASE UNCHANGED handlers
    BY <2>2 DEF handlers
  <2> QED
    BY <2>1, <2>2 DEF AssignItem, RemoveItem, CleanupPlayed, vars
<1>3. Posted' = Posted
  BY <1>1, <1>2 DEF Posted, Answering
<1>4. Queued \subseteq Live
  BY DEF Queued, Live, WithStatus
<1>5. InOrder' /\ OnAir' /\ Told'
  BY <1>0, <1>1, <1>3, <1>4, AirStays
<1>6. Flagged' /\ Pushes' /\ Whole'
  BY <1>0, <1>1, <1>2, CallsStay DEF Whole
<1>7. Holds'
  BY <1>0, <1>1, <1>2, <1>4 DEF Holds
<1> QED
  BY <1>5, <1>6, <1>7 DEF AirInv

LEMMA AirStep ==
  ASSUME Undisturbed, TypeInv, PositionInv, PushedInv, LifeInv, AirInv, [Next]_vars
  PROVE  AirInv'
<1>1. Holds /\ Faults = {} /\ Requests \subseteq {"append", "assign", "unassign"}
  BY DEF AirInv, Undisturbed
<1>2. ASSUME NEW h \in Handlers, TrackStarted(h) \/ Step(h) \/ Request(h) PROVE AirInv'
  <2>1. ~(SkipMark(h) \/ SkipEngine(h) \/ RemoveDelete(h))
    BY <1>1 DEF SkipMark, SkipEngine, RemoveDelete, Holds
  <2>2. /\ ~Skip(h)
        /\ \A i \in Items, p \in InsertPositions : ~InsertItemAt(h, i, p)
        /\ \A e \in Entries : ~RemoveLoad(h, e) /\ ~RemoveRefused(h, e)
    BY <1>1 DEF Skip, InsertItemAt, RemoveLoad, RemoveRefused
  <2>3. CASE TrackStarted(h) \/ EventMark(h) \/ PromotePick(h)
    BY <2>3, AirEvent
  <2>4. CASE \/ EventStats(h) \/ FillDepth(h) \/ FillPick(h) \/ FillMax(h)
             \/ \E i \in Items : AppendItem(h, i)
    BY <2>4, AirLooks
  <2>5. CASE PromoteSet(h)
    BY <2>5, AirPromote
  <2>6. CASE FillRows(h) \/ InsertRow(h)
    BY <2>6, AirInsert
  <2>7. CASE PushSelect(h)
    BY <2>7, AirSelect
  <2>8. CASE PushSend(h)
    BY <2>8, AirSend
  <2>9. CASE PushFlag(h)
    BY <2>9, AirFlag
  <2>10. CASE StartupReset(h)
    BY <2>10, AirBeside
  <2> QED
    BY <1>2, <2>1, <2>2, <2>3, <2>4, <2>5, <2>6, <2>7, <2>8, <2>9, <2>10 DEF Step, Request
<1>3. ASSUME NEW i \in Items, AssignItem(i) \/ RemoveItem(i) \/ DeleteItem(i) PROVE AirInv'
  BY <1>1, <1>3, AirBeside DEF DeleteItem
<1>4. CASE CleanupPlayed \/ UNCHANGED vars
  BY <1>4, AirBeside
<1>5. CASE EngineAdvance
  BY <1>5, AirAdvance
<1>6. ~(EngineRestart \/ LoseEvent \/ ApiRestart)
  BY <1>1 DEF EngineRestart, LoseEvent, ApiRestart
<1> QED
  BY <1>2, <1>3, <1>4, <1>5, <1>6 DEF Next

LEMMA AirBegins ==
  ASSUME Init PROVE AirInv
<1>1. Queued = {} /\ Playing = {} /\ Live = {} /\ Started = {}
  BY DEF Init, Queued, Playing, Live, WithStatus, Started
<1>2. \A h \in Handlers : pc[h] \in {"reset", "idle"}
  BY DEF Init
<1>3. Answering = {}
  BY <1>2 DEF Answering
<1>4. InOrder /\ OnAir /\ Flagged /\ Pushes /\ Holds /\ Whole
  BY <1>1, <1>2 DEF Init, InOrder, OnAir, Flagged, Pushes, Holds, Whole
<1>5. Told
  BY <1>1, <1>3, FS_EmptySet DEF Init, Told, Posted
<1> QED
  BY <1>4, <1>5 DEF AirInv

\* While calls do not overlap, nothing fails and entries are only ever added behind those
\* that wait, the entry that getChannelQueueStatus reports as now playing is the track that
\* airs, as soon as every event is handled: promoteNext and the prefetch keep the same order,
\* however far the engine is ahead of the events.
THEOREM ReportTracksAir ==
  ASSUME Undisturbed PROVE Spec => []NowPlayingTracksAir
<1>1. Init => TypeInv /\ PositionInv /\ PushedInv /\ LifeInv /\ AirInv
  <2> SUFFICES ASSUME Init PROVE TypeInv /\ PositionInv /\ PushedInv /\ LifeInv /\ AirInv
    OBVIOUS
  <2>1. TypeInv /\ AirInv
    BY TypeInit, AirBegins
  <2>2. PositionInv
    BY DEF Init, PositionInv, QueuedPositionsDistinct, Queued, WithStatus
  <2>3. PushedInv
    BY DEF Init, PushedInv, PushedWasAccepted, Entries
  <2>4. LifeInv
    BY DEF Init, LifeInv
  <2> QED
    BY <2>1, <2>2, <2>3, <2>4
<1>2. TypeInv /\ PositionInv /\ PushedInv /\ LifeInv /\ AirInv /\ [Next]_vars
        => (TypeInv /\ PositionInv /\ PushedInv /\ LifeInv /\ AirInv)'
  BY TypeStep, PositionStep, PushedStep, EveryLifeStep, AirStep DEF Undisturbed, LifeStep
<1>3. TypeInv /\ AirInv => NowPlayingTracksAir
  <2> SUFFICES ASSUME TypeInv, AirInv, events = 0, \A h \in Handlers : pc[h] = "idle",
                      airing # None
               PROVE  status[airing] = "playing"
    BY DEF NowPlayingTracksAir
  <2>1. Answering = {}
    BY DEF Answering
  <2>2. Cardinality(Started) = 0
    BY <2>1 DEF AirInv, Told, Posted
  <2>3. Started \subseteq Entries
    BY DEF Started, Queued, WithStatus
  <2>4. Started = {}
    BY <2>2, <2>3, StartedFinite, FS_EmptySet
  <2> QED
    BY <2>4 DEF AirInv, OnAir, Playing, WithStatus
<1> QED
  BY <1>1, <1>2, <1>3, PTL DEF Spec
=============================================================================
