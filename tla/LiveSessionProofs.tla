--------------------------- MODULE LiveSessionProofs ---------------------------
(***************************************************************************)
(* Theorems about LiveSession, for every value of its constants.           *)
(***************************************************************************)
EXTENDS LiveSession, FiniteSetTheorems, TLAPS

-----------------------------------------------------------------------------
(* Type correctness *)

Calls == [step : Steps, who : Clients \cup Keys \cup {None},
          session : Sessions \cup {None}, row : Rows \cup {None},
          dupes : SUBSET Rows]

\* A call that acts for a client, on a session or on a row has one.
CallOK(c) ==
    /\ c \in Calls
    /\ c.step \in {"openSession", "findChannel", "activate", "announce", "findRoom",
                   "makeRoom", "answer"} => c.who \in Clients
    /\ c.step \in {"findChannel", "activate", "closeSession"} => c.session \in Sessions
    /\ c.step \in {"announce", "findRoom", "makeRoom", "deactivate", "announceOff"}
          => c.row \in Rows

CallsOK == job \in [Handlers -> Calls] /\ \A h \in Handlers : CallOK(job[h])

TypeInv == TypeOK /\ CallsOK

\* A handler that goes on to a well-typed call leaves every call well typed.
LEMMA CallStep ==
  ASSUME CallsOK, NEW h \in Handlers, NEW c, CallOK(c),
         job' = [job EXCEPT ![h] = c]
  PROVE  CallsOK'
BY DEF CallsOK, CallOK

LEMMA IdleOK == CallOK(Idle)
BY DEF CallOK, Idle, Calls, Steps

\* A subset of the sessions has a size.
LEMMA CountSessions ==
  ASSUME NEW S \in SUBSET Sessions
  PROVE  Cardinality(S) \in Nat
<1>1. IsFiniteSet(Sessions)
  BY LiveAssumption, FS_Interval DEF Sessions
<1> QED
  BY <1>1, FS_Subset, FS_CardinalityType

\* Every step keeps every variable in its range.
LEMMA TypeStep == TypeInv /\ [Next]_vars => TypeInv'
<1> SUFFICES ASSUME TypeInv, [Next]_vars PROVE TypeInv'
  OBVIOUS
<1> USE DEF TypeInv, world, sessions, channels
<1>1. ASSUME NEW h \in Handlers, OpenSession(h) PROVE TypeInv'
  <2> DEFINE s == Cardinality({x \in Sessions : publisher[x] # None}) + 1
             c == [job[h] EXCEPT !.step = "findChannel", !.session = s]
  <2>1. s \in Sessions
    BY <1>1, CountSessions, LiveAssumption DEF OpenSession, Sessions
  <2>2. CallOK(c)
    BY <1>1, <2>1 DEF OpenSession, At, CallsOK, CallOK, Calls, Steps
  <2>3. CallsOK'
    BY <1>1, <2>2, CallStep DEF OpenSession
  <2> QED
    BY <1>1, <2>1, <2>3 DEF OpenSession, At, TypeOK, CallsOK, CallOK, Calls
<1>2. ASSUME NEW h \in Handlers, FindChannel(h) PROVE TypeInv'
  <2>1. PICK r \in Rows \cup {None} :
           job' = [job EXCEPT ![h].step = "activate", ![h].row = r]
    BY <1>2 DEF FindChannel, ChannelRows
  <2> DEFINE c == [job[h] EXCEPT !.step = "activate", !.row = r]
  <2>2. CallOK(c)
    BY <1>2 DEF FindChannel, At, CallsOK, CallOK, Calls, Steps
  <2>3. CallsOK'
    BY <2>1, <2>2, CallStep
  <2> QED
    BY <1>2, <2>3 DEF FindChannel, TypeOK, CallsOK, Calls
<1>3. ASSUME NEW h \in Handlers, Activate(h) PROVE TypeInv'
  <2> DEFINE n == StreamOf[job[h].who]
             r == IF job[h].row = None THEN made + 1 ELSE job[h].row
             c == [job[h] EXCEPT !.step = "announce", !.row = r]
             d == [job[h] EXCEPT !.step = "announce"]
             e == [job[h] EXCEPT !.step = "answer"]
  <2>1. r \in Rows /\ job[h].who \in Clients /\ job[h].session \in Sessions
    BY <1>3 DEF Activate, At, CallsOK, CallOK
  <2>2. n \in Names /\ n # None
    BY <2>1, LiveAssumption DEF Names, Streams
  <2>3. CallOK(c) /\ CallOK(e)
    BY <1>3, <2>1 DEF At, CallsOK, CallOK, Calls, Steps
  <2>4. CASE /\ name' = [name EXCEPT ![r] = n]
             /\ onAir' = [onAir EXCEPT ![r] = TRUE]
             /\ current' = [current EXCEPT ![r] = job[h].session]
             /\ made' = IF job[h].row = None THEN r ELSE made
             /\ job' = [job EXCEPT ![h].step = "announce", ![h].row = r]
    <3>1. CallsOK'
      BY <2>3, <2>4, CallStep
    <3>2. made' \in 0..MaxRows
      BY <2>1, <2>4, LiveAssumption DEF TypeOK, Rows
    <3> QED
      BY <1>3, <2>1, <2>2, <2>4, <3>1, <3>2, ZenonT(40) DEF Activate, TypeOK, CallsOK, Calls
  <2>5. CASE UNCHANGED channels /\ job' = [job EXCEPT ![h].step = "answer"]
    <3>1. CallsOK'
      BY <2>3, <2>5, CallStep
    <3> QED
      BY <1>3, <2>5, <3>1 DEF Activate, TypeOK, CallsOK, Calls
  <2>6. CASE job[h].row # None /\ UNCHANGED channels
             /\ job' = [job EXCEPT ![h].step = "announce"]
    <3>1. CallOK(d)
      BY <1>3, <2>1, <2>6 DEF At, CallsOK, CallOK, Calls, Steps
    <3>2. CallsOK'
      BY <2>6, <3>1, CallStep
    <3> QED
      BY <1>3, <2>6, <3>2 DEF Activate, TypeOK, CallsOK, Calls
  <2> QED
    BY <1>3, <2>4, <2>5, <2>6 DEF Activate
<1>4. ASSUME NEW h \in Handlers, Announce(h) PROVE TypeInv'
  <2> DEFINE c == [job[h] EXCEPT !.step = "findRoom"]
  <2>1. CallOK(c)
    BY <1>4 DEF Announce, At, CallsOK, CallOK, Calls, Steps
  <2>2. CallsOK'
    BY <1>4, <2>1, CallStep DEF Announce, Goto
  <2> QED
    BY <1>4, <2>2 DEF Announce, Goto, At, TypeOK, CallsOK, CallOK, Calls, ChannelRows
<1>5. ASSUME NEW h \in Handlers, FindRoom(h) PROVE TypeInv'
  <2> DEFINE c(t) == [job[h] EXCEPT !.step = t]
  <2>1. CallOK(c("makeRoom")) /\ CallOK(c("answer"))
    BY <1>5 DEF FindRoom, At, CallsOK, CallOK, Calls, Steps
  <2>2. CallsOK'
    BY <1>5, <2>1, CallStep DEF FindRoom, Goto
  <2> QED
    BY <1>5, <2>2 DEF FindRoom, Goto, At, TypeOK, CallsOK, CallOK, Calls, ChannelRows
<1>6. ASSUME NEW h \in Handlers, MakeRoom(h) PROVE TypeInv'
  <2> DEFINE c == [job[h] EXCEPT !.step = "answer"]
  <2>1. CallOK(c)
    BY <1>6 DEF MakeRoom, At, CallsOK, CallOK, Calls, Steps
  <2>2. CallsOK'
    BY <1>6, <2>1, CallStep DEF MakeRoom, Goto
  <2> QED
    BY <1>6, <2>2, SMTT(30) DEF MakeRoom, Goto, At, TypeOK, CallsOK, CallOK, Calls, ChannelRows
<1>7. ASSUME NEW h \in Handlers, Answer(h) PROVE TypeInv'
  <2>1. CallsOK'
    BY <1>7, IdleOK, CallStep DEF Answer, Done
  <2> QED
    BY <1>7, <2>1, LiveAssumption DEF Answer, Done, At, Reply, TypeOK, CallsOK, CallOK, Calls, Names, Rows
<1>8. ASSUME NEW h \in Handlers, CloseSession(h) PROVE TypeInv'
  <2> DEFINE c == [job[h] EXCEPT !.step = "lastSession", !.session = None]
  <2>1. CallOK(c)
    BY <1>8 DEF CloseSession, At, CallsOK, CallOK, Calls, Steps
  <2>2. CallsOK'
    BY <1>8, <2>1, CallStep DEF CloseSession
  <2> DEFINE n == Cardinality({s \in Sessions : ended[s] > 0})
  <2>3. n \in Nat
    BY CountSessions
  <2>4. ended' = [ended EXCEPT ![job[h].session] = 1 + n]
    BY <1>8 DEF CloseSession
  <2> HIDE DEF n
  <2>5. ended' \in [Sessions -> Nat]
    <3>1. ended \in [Sessions -> Nat] /\ 1 + n \in Nat
      BY <2>3 DEF TypeOK
    <3> QED
      BY <2>4, <3>1
  <2> QED
    BY <1>8, <2>2, <2>5 DEF CloseSession, TypeOK, CallsOK, Calls
<1>9. ASSUME NEW h \in Handlers, LastSession(h) PROVE TypeInv'
  <2>1. CASE job' = [job EXCEPT ![h] = Idle]
    BY <1>9, <2>1, IdleOK, CallStep DEF LastSession, Done, TypeOK, CallsOK, Calls
  <2>2. ASSUME NEW x \in Sessions,
               job' = [job EXCEPT ![h].step = "findOnAir", ![h].session = x]
        PROVE  CallsOK'
    <3> DEFINE c == [job[h] EXCEPT !.step = "findOnAir", !.session = x]
    <3>1. CallOK(c)
      BY DEF CallsOK, CallOK, Calls, Steps
    <3> QED
      BY <2>2, <3>1, CallStep
  <2>3. CallsOK'
    BY <1>9, <2>1, <2>2 DEF LastSession, Done, SessionsOf
  <2> QED
    BY <1>9, <2>3 DEF LastSession, Done, TypeOK, CallsOK, Calls
<1>10. ASSUME NEW h \in Handlers, FindOnAir(h) PROVE TypeInv'
  <2>1. CASE job' = [job EXCEPT ![h] = Idle]
    BY <1>10, <2>1, IdleOK, CallStep DEF FindOnAir, Done, TypeOK, CallsOK, Calls
  <2>2. ASSUME NEW x \in Rows,
               job' = [job EXCEPT ![h].step = "deactivate", ![h].row = x]
        PROVE  CallsOK'
    <3> DEFINE c == [job[h] EXCEPT !.step = "deactivate", !.row = x]
    <3>1. CallOK(c)
      BY DEF CallsOK, CallOK, Calls, Steps
    <3> QED
      BY <2>2, <3>1, CallStep
  <2>3. CallsOK'
    BY <1>10, <2>1, <2>2 DEF FindOnAir, Done, ChannelRows
  <2> QED
    BY <1>10, <2>3 DEF FindOnAir, Done, TypeOK, CallsOK, Calls
<1>11. ASSUME NEW h \in Handlers, Deactivate(h) PROVE TypeInv'
  <2> DEFINE c == [job[h] EXCEPT !.step = "announceOff"]
  <2>1. CallOK(c)
    BY <1>11 DEF Deactivate, At, CallsOK, CallOK, Calls, Steps
  <2>2. CallsOK'
    BY <1>11, <2>1, CallStep DEF Deactivate, Goto
  <2> QED
    BY <1>11, <2>2 DEF Deactivate, Goto, At, TypeOK, CallsOK, CallOK, Calls, ChannelRows
<1>12. ASSUME NEW h \in Handlers, AnnounceOff(h) PROVE TypeInv'
  <2>1. CallsOK'
    BY <1>12, IdleOK, CallStep DEF AnnounceOff, Done
  <2> QED
    BY <1>12, <2>1, LiveAssumption, SMTT(30) DEF AnnounceOff, Done, At, Reply, TypeOK, CallsOK, CallOK, Calls, Names, Rows
<1>13. ASSUME NEW h \in Handlers, FindRows(h) PROVE TypeInv'
  <2>1. CASE job' = [job EXCEPT ![h].step = "provision"]
    <3> DEFINE c == [job[h] EXCEPT !.step = "provision"]
    <3>1. CallOK(c)
      BY DEF CallsOK, CallOK, Calls, Steps
    <3> QED
      BY <1>13, <2>1, <3>1, CallStep DEF FindRows, Goto, TypeOK, CallsOK, Calls
  <2>2. ASSUME NEW D \in SUBSET Rows,
               job' = [job EXCEPT ![h].step = "dedupe", ![h].dupes = D]
        PROVE  CallsOK'
    <3> DEFINE c == [job[h] EXCEPT !.step = "dedupe", !.dupes = D]
    <3>1. CallOK(c)
      BY DEF CallsOK, CallOK, Calls, Steps
    <3> QED
      BY <2>2, <3>1, CallStep
  <2>3. CASE \E keep \in ChannelRows :
                job' = [job EXCEPT ![h].step = "dedupe",
                                   ![h].dupes = ChannelRows \ {keep}]
    <3>1. CallsOK'
      BY <2>2, <2>3 DEF ChannelRows
    <3> QED
      BY <1>13, <3>1 DEF FindRows, Goto, TypeOK, CallsOK, Calls
  <2> QED
    BY <1>13, <2>1, <2>3 DEF FindRows, Goto
<1>14. ASSUME NEW h \in Handlers, Provision(h) PROVE TypeInv'
  <2>1. CallsOK'
    BY <1>14, IdleOK, CallStep DEF Provision, Done
  <2>2. made + 1 \in Rows
    BY <1>14, LiveAssumption DEF Provision, TypeOK, Rows
  <2>3. Placeholder \in Names /\ Placeholder # None
    BY LiveAssumption DEF Names
  <2>4. made' \in 0..MaxRows /\ name' \in [Rows -> Names \cup {None}]
    <3>1. made \in 0..MaxRows /\ name \in [Rows -> Names \cup {None}]
      BY DEF TypeOK
    <3>2. \/ UNCHANGED <<made, name>>
          \/ made' = made + 1 /\ name' = [name EXCEPT ![made + 1] = Placeholder]
      BY <1>14 DEF Provision
    <3>3. made' \in 0..MaxRows
      BY <2>2, <3>1, <3>2, LiveAssumption DEF Rows
    <3> QED
      BY <2>3, <3>1, <3>2, <3>3
  <2>5. \A r \in Rows : name'[r] = None => name[r] = None
    BY <1>14, <2>2, <2>3 DEF Provision, TypeOK
  <2> QED
    BY <1>14, <2>1, <2>4, <2>5 DEF Provision, Done, TypeOK, CallsOK, Calls
<1>15. ASSUME NEW h \in Handlers, Dedupe(h) PROVE TypeInv'
  <2>1. CASE job' = [job EXCEPT ![h] = Idle] /\ UNCHANGED <<channels, rooms, announced>>
    BY <1>15, <2>1, IdleOK, CallStep DEF Dedupe, Done, TypeOK, CallsOK, Calls
  <2>2. ASSUME NEW r \in job[h].dupes,
               name' = [name EXCEPT ![r] = None],
               onAir' = [onAir EXCEPT ![r] = FALSE],
               current' = [current EXCEPT ![r] = None],
               rooms' = [rooms EXCEPT ![r] = 0],
               announced' = [announced EXCEPT ![r] = FALSE],
               job' = [job EXCEPT ![h].dupes = @ \ {r}]
        PROVE  TypeInv'
    <3> DEFINE c == [job[h] EXCEPT !.dupes = @ \ {r}]
    <3>1. CallOK(c)
      BY DEF CallsOK, CallOK, Calls, Steps
    <3>2. CallsOK'
      BY <2>2, <3>1, CallStep
    <3>3. job' \in [Handlers -> Calls]
      BY <3>2 DEF CallsOK
    <3>4. r \in Rows
      BY DEF TypeOK
    <3>5. \A q \in Rows : name'[q] = None =>
             ~onAir'[q] /\ current'[q] = None /\ rooms'[q] = 0 /\ ~announced'[q]
      BY <2>2, <3>4 DEF TypeOK
    <3>6. /\ name' \in [Rows -> Names \cup {None}] /\ onAir' \in [Rows -> BOOLEAN]
          /\ current' \in [Rows -> Sessions \cup {None}]
          /\ rooms' \in [Rows -> Nat] /\ announced' \in [Rows -> BOOLEAN]
      BY <2>2 DEF TypeOK
    <3>7. UNCHANGED <<world, keys, sessions, made, trouble>>
      BY <1>15, <2>2 DEF Dedupe, Done
    <3> QED
      BY <3>2, <3>3, <3>5, <3>6, <3>7 DEF TypeOK, Calls
  <2> QED
    BY <1>15, <2>1, <2>2 DEF Dedupe, Done
<1>16. ASSUME NEW h \in Handlers, NEW u \in Clients, OnPublish(h, u) PROVE TypeInv'
  <2> DEFINE c == [Idle EXCEPT !.step = "openSession", !.who = u]
  <2>1. CallOK(c)
    BY DEF CallOK, Calls, Idle, Steps
  <2>2. CallsOK'
    BY <1>16, <2>1, CallStep DEF OnPublish, Begin, CallsOK
  <2> QED
    BY <1>16, <2>2 DEF OnPublish, Begin, Reply, TypeOK, CallsOK, Calls
<1>17. ASSUME NEW h \in Handlers, NEW u \in Clients, OnUnpublish(h, u) PROVE TypeInv'
  <2> DEFINE c(s) == [Idle EXCEPT !.step = "closeSession", !.who = u, !.session = s]
             d == [Idle EXCEPT !.step = "lastSession", !.who = u]
  <2>1. CallOK(d) /\ \A s \in Sessions : CallOK(c(s))
    BY DEF CallOK, Calls, Idle, Steps
  <2>2. CallsOK'
    <3>1. CASE Begin(h, d)
      BY <2>1, <3>1, CallStep DEF Begin
    <3>2. ASSUME NEW s \in Sessions, Begin(h, c(s)) PROVE CallsOK'
      BY <2>1, <3>2, CallStep DEF Begin
    <3> QED
      BY <1>17, <3>1, <3>2 DEF OnUnpublish, Open
  <2> QED
    BY <1>17, <2>2 DEF OnUnpublish, Begin, TypeOK, CallsOK, Calls
<1>18. ASSUME NEW h \in Handlers, NEW k \in Keys, CreateStreamKey(h, k) PROVE TypeInv'
  <2> DEFINE c == [Idle EXCEPT !.step = "findRows", !.who = k]
  <2>1. CallOK(c)
    BY DEF CallOK, Calls, Idle, Steps
  <2>2. CallsOK'
    BY <1>18, <2>1, CallStep DEF CreateStreamKey, Begin
  <2> QED
    BY <1>18, <2>2 DEF CreateStreamKey, Begin, TypeOK, CallsOK, Calls
<1>19. ASSUME NEW k \in Keys, RevokeStreamKey(k) PROVE TypeInv'
  BY <1>19 DEF RevokeStreamKey, TypeOK, CallsOK
<1>20. ASSUME NEW u \in Clients, Connect(u) PROVE TypeInv'
  BY <1>20 DEF Connect, TypeOK, CallsOK
<1>21. ASSUME NEW u \in Clients, Disconnect(u) PROVE TypeInv'
  BY <1>21 DEF Disconnect, TypeOK, CallsOK
<1>22. ASSUME NEW u \in Clients, RetryPublish(u) PROVE TypeInv'
  BY <1>22 DEF RetryPublish, TypeOK, CallsOK
<1>23. ASSUME ApiRestart PROVE TypeInv'
  <2>1. CallsOK'
    BY <1>23, IdleOK DEF ApiRestart, CallsOK, CallOK
  <2>2. srs' \in [Clients -> {"new", "asking", "refused", "publishing", "stopped"}]
    BY <1>23 DEF ApiRestart, TypeOK
  <2> QED
    BY <1>23, <2>1, <2>2 DEF ApiRestart, TypeOK, CallsOK, Calls
<1>24. ASSUME UNCHANGED vars PROVE TypeInv'
  BY <1>24 DEF vars, TypeOK, CallsOK
<1> QED
  BY <1>1, <1>2, <1>3, <1>4, <1>5, <1>6, <1>7, <1>8, <1>9, <1>10, <1>11, <1>12,
     <1>13, <1>14, <1>15, <1>16, <1>17, <1>18, <1>19, <1>20, <1>21, <1>22, <1>23,
     <1>24 DEF Next, Step, Callback

\* The initial states are well typed.
LEMMA TypeInit == Init => TypeInv
<1> SUFFICES ASSUME Init PROVE TypeInv
  OBVIOUS
<1>1. CallsOK
  BY IdleOK DEF Init, CallsOK, CallOK
<1>2. TypeOK
  BY <1>1, LiveAssumption DEF Init, TypeOK, CallsOK, Calls, Rows, Names
<1> QED
  BY <1>1, <1>2 DEF TypeInv

\* Every variable stays in its range, a channel row that does not exist stays
\* blank, and each step of a call finds the client, session or row that the
\* statement in the code reads, however many calls overlap and whatever fails.
THEOREM TypeCorrect == Spec => []TypeOK
<1>1. TypeInv => TypeOK
  BY DEF TypeInv
<1> QED
  BY <1>1, TypeInit, TypeStep, PTL DEF Spec

-----------------------------------------------------------------------------
(* A creator who has a channel keeps one *)

\* Rows are numbered as they are made; nothing is to be deleted that was not
\* made yet; and the oldest row is not to be deleted by any call.
KeptInv ==
    /\ \A r \in ChannelRows : r <= made
    /\ \A h \in Handlers : \A r \in job[h].dupes : r <= made
    /\ ChannelRows # {} =>
        \E k \in ChannelRows : /\ \A r \in ChannelRows : k <= r
                               /\ \A h \in Handlers : k \notin job[h].dupes

\* A step that deletes no row and gives no call a row to delete.
Harmless ==
    /\ name' = name
    /\ made' = made
    /\ \A h \in Handlers : job'[h].dupes \subseteq job[h].dupes

LEMMA HarmlessKeeps == KeptInv /\ Harmless => KeptInv' /\ ChannelRows' = ChannelRows
BY DEF KeptInv, Harmless, ChannelRows

\* The row that an INSERT adds is the youngest: the oldest is what it was, or
\* the new row, which no call knows yet.
LEMMA InsertKeeps ==
  ASSUME TypeInv, KeptInv, made + 1 \in Rows, made' = made + 1,
         NEW n, n # None, name' = [name EXCEPT ![made + 1] = n],
         \A h \in Handlers : job'[h].dupes \subseteq job[h].dupes
  PROVE  KeptInv' /\ ChannelRows' = ChannelRows \cup {made + 1}
<1>1. made \in Nat /\ name \in [Rows -> Names \cup {None}] /\ Rows \subseteq Nat
  BY LiveAssumption DEF TypeInv, TypeOK, Rows
<1>2. ChannelRows' = ChannelRows \cup {made + 1}
  BY <1>1 DEF ChannelRows
<1>3. \A r \in ChannelRows' : r <= made'
  BY <1>1, <1>2 DEF KeptInv, ChannelRows
<1>4. \A h \in Handlers : \A r \in job'[h].dupes : r \in Nat /\ r <= made
  BY <1>1 DEF KeptInv, TypeInv, CallsOK, Calls
<1>5. \E k \in ChannelRows' : /\ \A r \in ChannelRows' : k <= r
                              /\ \A h \in Handlers : k \notin job'[h].dupes
  <2>1. CASE ChannelRows = {}
    BY <1>1, <1>2, <1>4, <2>1
  <2>2. CASE ChannelRows # {}
    <3>1. PICK k \in ChannelRows : /\ \A r \in ChannelRows : k <= r
                                   /\ \A h \in Handlers : k \notin job[h].dupes
      BY <2>2 DEF KeptInv
    <3>2. k \in Nat /\ k <= made
      BY <1>1 DEF KeptInv, ChannelRows
    <3> QED
      BY <1>1, <1>2, <3>1, <3>2
  <2> QED
    BY <2>1, <2>2
<1> QED
  BY <1>1, <1>2, <1>3, <1>4, <1>5 DEF KeptInv

\* Every step keeps the invariant, and deletes no row that is the last.
LEMMA KeptStep ==
  ASSUME TypeInv, KeptInv, [Next]_vars
  PROVE  KeptInv' /\ (ChannelRows # {} => ChannelRows' # {})
<1> DEFINE Goal == KeptInv' /\ (ChannelRows # {} => ChannelRows' # {})
<1> USE DEF world, sessions, channels
<1>0. job \in [Handlers -> Calls] /\ made \in Nat /\ Rows \subseteq Nat
  BY LiveAssumption DEF TypeInv, TypeOK, CallsOK, Rows
<1>1. ASSUME NEW h \in Handlers, Activate(h) PROVE Goal
  <2> DEFINE r == IF job[h].row = None THEN made + 1 ELSE job[h].row
             n == StreamOf[job[h].who]
  <2>1. n # None /\ r \in Rows
    BY <1>1, LiveAssumption
       DEF Activate, At, TypeInv, CallsOK, CallOK, Names, Streams
  <2>2. \A g \in Handlers : job'[g].dupes = job[g].dupes
    BY <1>0, <1>1 DEF Activate, Calls
  <2>3. CASE job[h].row = None /\ name' = [name EXCEPT ![r] = n] /\ made' = r
    BY <2>1, <2>2, <2>3, InsertKeeps
  <2>4. CASE r \in ChannelRows /\ name' = [name EXCEPT ![r] = n] /\ made' = made
    <3>1. ChannelRows' = ChannelRows
      BY <2>1, <2>4 DEF ChannelRows, TypeInv, TypeOK
    <3> QED
      BY <2>2, <2>4, <3>1 DEF KeptInv
  <2>5. CASE UNCHANGED <<name, made>>
    BY <2>2, <2>5, HarmlessKeeps DEF Harmless
  <2> QED
    BY <1>1, <2>3, <2>4, <2>5 DEF Activate
<1>2. ASSUME NEW h \in Handlers, FindRows(h) PROVE Goal
  <2>1. CASE job' = [job EXCEPT ![h].step = "provision"]
    <3>1. \A g \in Handlers : job'[g].dupes = job[g].dupes
      BY <1>0, <2>1 DEF Calls
    <3> QED
      BY <1>2, <3>1, HarmlessKeeps DEF FindRows, Harmless
  <2>2. ASSUME NEW keep \in ChannelRows, \A r \in ChannelRows : keep <= r,
               job' = [job EXCEPT ![h].step = "dedupe",
                                  ![h].dupes = ChannelRows \ {keep}]
        PROVE  Goal
    <3>1. job'[h].dupes = ChannelRows \ {keep}
      BY <1>0, <2>2 DEF Calls
    <3>2. \A g \in Handlers \ {h} : job'[g].dupes = job[g].dupes
      BY <1>0, <2>2 DEF Calls
    <3>3. ChannelRows' = ChannelRows /\ made' = made
      BY <1>2 DEF FindRows, ChannelRows
    <3>4. PICK k \in ChannelRows : /\ \A r \in ChannelRows : k <= r
                                   /\ \A g \in Handlers : k \notin job[g].dupes
      BY <2>2 DEF KeptInv
    <3>5. k = keep
      BY <1>0, <2>2, <3>4 DEF ChannelRows
    <3>6. \A g \in Handlers : k \notin job'[g].dupes
      BY <3>1, <3>2, <3>4, <3>5
    <3>7. \A g \in Handlers : \A r \in job'[g].dupes : r <= made'
      BY <3>1, <3>2, <3>3 DEF KeptInv
    <3> QED
      BY <3>3, <3>4, <3>6, <3>7 DEF KeptInv
  <2> QED
    BY <1>2, <2>1, <2>2 DEF FindRows, Goto
<1>3. ASSUME NEW h \in Handlers, Provision(h) PROVE Goal
  <2>1. \A g \in Handlers : job'[g].dupes \subseteq job[g].dupes
    BY <1>0, <1>3 DEF Provision, Done, Idle, Calls
  <2>2. CASE UNCHANGED <<made, name>>
    BY <2>1, <2>2, HarmlessKeeps DEF Harmless
  <2>3. CASE made' = made + 1 /\ name' = [name EXCEPT ![made + 1] = Placeholder]
    <3>1. Placeholder # None /\ made + 1 \in Rows
      BY <1>0, <1>3, LiveAssumption DEF Provision, Names, Rows
    <3> QED
      BY <2>1, <2>3, <3>1, InsertKeeps
  <2> QED
    BY <1>3, <2>2, <2>3 DEF Provision
<1>4. ASSUME NEW h \in Handlers, Dedupe(h) PROVE Goal
  <2>1. CASE job' = [job EXCEPT ![h] = Idle] /\ UNCHANGED channels
    <3>1. \A g \in Handlers : job'[g].dupes \subseteq job[g].dupes
      BY <1>0, <2>1 DEF Idle, Calls
    <3> QED
      BY <2>1, <3>1, HarmlessKeeps DEF Harmless
  <2>2. ASSUME NEW r \in job[h].dupes, name' = [name EXCEPT ![r] = None],
               made' = made, job' = [job EXCEPT ![h].dupes = @ \ {r}]
        PROVE  Goal
    <3>1. \A g \in Handlers : job'[g].dupes \subseteq job[g].dupes
      BY <1>0, <2>2 DEF Calls
    <3>2. ChannelRows' = ChannelRows \ {r}
      BY <2>2 DEF ChannelRows, TypeInv, TypeOK
    <3>3. CASE ChannelRows = {}
      BY <2>2, <3>1, <3>2, <3>3 DEF KeptInv
    <3>4. CASE ChannelRows # {}
      <4>1. PICK k \in ChannelRows : /\ \A q \in ChannelRows : k <= q
                                     /\ \A g \in Handlers : k \notin job[g].dupes
        BY <3>4 DEF KeptInv
      <4>2. k \in ChannelRows'
        BY <2>2, <3>2, <4>1
      <4> QED
        BY <2>2, <3>1, <3>2, <4>1, <4>2 DEF KeptInv
    <3> QED
      BY <3>3, <3>4
  <2> QED
    BY <1>4, <2>1, <2>2 DEF Dedupe, Done
<1>5. ASSUME Harmless PROVE Goal
  BY <1>5, HarmlessKeeps
<1>6. ASSUME NEW h \in Handlers, OpenSession(h) PROVE Harmless
  BY <1>0, <1>6 DEF OpenSession, Harmless, Calls
<1>7. ASSUME NEW h \in Handlers, FindChannel(h) PROVE Harmless
  BY <1>0, <1>7 DEF FindChannel, Harmless, Calls
<1>8. ASSUME NEW h \in Handlers, Announce(h) PROVE Harmless
  BY <1>0, <1>8 DEF Announce, Harmless, Calls, Goto
<1>9. ASSUME NEW h \in Handlers, FindRoom(h) PROVE Harmless
  BY <1>0, <1>9 DEF FindRoom, Harmless, Calls, Goto
<1>10. ASSUME NEW h \in Handlers, MakeRoom(h) PROVE Harmless
  BY <1>0, <1>10 DEF MakeRoom, Harmless, Calls, Goto
<1>11. ASSUME NEW h \in Handlers, Answer(h) PROVE Harmless
  BY <1>0, <1>11 DEF Answer, Harmless, Calls, Done, Idle
<1>12. ASSUME NEW h \in Handlers, CloseSession(h) PROVE Harmless
  BY <1>0, <1>12 DEF CloseSession, Harmless, Calls
<1>13. ASSUME NEW h \in Handlers, LastSession(h) PROVE Harmless
  BY <1>0, <1>13 DEF LastSession, Harmless, Calls, Done, Idle
<1>14. ASSUME NEW h \in Handlers, FindOnAir(h) PROVE Harmless
  BY <1>0, <1>14 DEF FindOnAir, Harmless, Calls, Done, Idle
<1>15. ASSUME NEW h \in Handlers, Deactivate(h) PROVE Harmless
  BY <1>0, <1>15 DEF Deactivate, Harmless, Calls, Goto
<1>16. ASSUME NEW h \in Handlers, AnnounceOff(h) PROVE Harmless
  BY <1>0, <1>16 DEF AnnounceOff, Harmless, Calls, Done, Idle
<1>17. ASSUME NEW h \in Handlers, NEW u \in Clients, OnPublish(h, u) PROVE Harmless
  BY <1>0, <1>17 DEF OnPublish, Begin, Idle, Harmless, Calls
<1>18. ASSUME NEW h \in Handlers, NEW u \in Clients, OnUnpublish(h, u) PROVE Harmless
  BY <1>0, <1>18 DEF OnUnpublish, Begin, Idle, Harmless, Calls
<1>19. ASSUME NEW h \in Handlers, NEW k \in Keys, CreateStreamKey(h, k) PROVE Harmless
  BY <1>0, <1>19 DEF CreateStreamKey, Begin, Idle, Harmless, Calls
<1>20. ASSUME NEW k \in Keys, RevokeStreamKey(k) PROVE Harmless
  BY <1>20 DEF RevokeStreamKey, Harmless
<1>21. ASSUME NEW u \in Clients, Connect(u) PROVE Harmless
  BY <1>21 DEF Connect, Harmless
<1>22. ASSUME NEW u \in Clients, Disconnect(u) PROVE Harmless
  BY <1>22 DEF Disconnect, Harmless
<1>23. ASSUME NEW u \in Clients, RetryPublish(u) PROVE Harmless
  BY <1>23 DEF RetryPublish, Harmless
<1>24. ASSUME ApiRestart PROVE Harmless
  BY <1>0, <1>24 DEF ApiRestart, Idle, Harmless, Calls
<1>25. ASSUME UNCHANGED vars PROVE Harmless
  BY <1>25 DEF vars, Harmless
<1> QED
  BY <1>1, <1>2, <1>3, <1>4, <1>5, <1>6, <1>7, <1>8, <1>9, <1>10, <1>11, <1>12,
     <1>13, <1>14, <1>15, <1>16, <1>17, <1>18, <1>19, <1>20, <1>21, <1>22, <1>23,
     <1>24, <1>25 DEF Next, Step, Callback

LEMMA KeptInit == Init => KeptInv
<1> SUFFICES ASSUME Init PROVE KeptInv
  OBVIOUS
<1>1. \A h \in Handlers : job[h].dupes = {}
  BY DEF Init, Idle
<1>2. ChannelRows = 1..made /\ made \in Nat
  BY LiveAssumption DEF Init, ChannelRows, Rows
<1>3. \A r \in ChannelRows : 1 <= r /\ r <= made
  BY <1>2
<1>4. ChannelRows # {} => 1 \in ChannelRows
  BY <1>2
<1> QED
  BY <1>1, <1>3, <1>4 DEF KeptInv

\* However many calls provision and dedupe at once, in whatever order their
\* statements run and whatever fails, a creator who has a channel keeps one.
THEOREM ChannelKept == Spec => NeverWithoutChannel
<1>1. Init => TypeInv /\ KeptInv
  BY TypeInit, KeptInit
<1>2. TypeInv /\ KeptInv /\ [Next]_vars => TypeInv' /\ KeptInv'
  BY TypeStep, KeptStep
<1>3. TypeInv /\ KeptInv /\ [Next]_vars => [ChannelRows # {} => ChannelRows' # {}]_vars
  BY KeptStep
<1> QED
  BY <1>1, <1>2, <1>3, PTL DEF Spec, NeverWithoutChannel

-----------------------------------------------------------------------------
(* Sessions follow their publishers *)

PublishSteps  == {"findChannel", "activate", "announce", "findRoom", "makeRoom", "answer"}
TeardownSteps == {"lastSession", "findOnAir", "deactivate", "announceOff"}
KeySteps      == {"findRows", "provision", "dedupe"}

HasOpen(u) == Open \cap SessionsOf(u) # {}

\* Sessions are numbered as they are opened, and one not opened has not ended.
Numbered ==
    \E n \in 0..MaxSessions : \A s \in Sessions :
        /\ publisher[s] # None <=> s <= n
        /\ publisher[s] = None => ended[s] = 0

\* Whom a call is about.  A teardown is about a client that has stopped, and a publish
\* past its first statement about one that has an open session, or has stopped since.
CallAbout(c) ==
    /\ c.step = "idle" => c.who = None
    /\ c.step \in KeySteps => c.who \in Keys
    /\ c.step \in {"openSession", "closeSession"} \cup PublishSteps \cup TeardownSteps
          => c.who \in Clients
    /\ c.step \in {"closeSession"} \cup TeardownSteps => srs[c.who] = "stopped"
    /\ c.step = "closeSession" => publisher[c.session] = c.who
    /\ c.step \in PublishSteps => srs[c.who] = "stopped" \/ HasOpen(c.who)

\* What a call is about has reached that far, while nothing fails.
StageOK(c) ==
    /\ c.step = "openSession" => srs[c.who] = "asking" /\ SessionsOf(c.who) = {}
    /\ c.step \in PublishSteps => srs[c.who] = "asking"
    /\ c.step \in TeardownSteps => ~HasOpen(c.who)

\* No call can be about the client: a callback of it waits, or it does not wait for one.
Untaken(u) == \/ <<"on_publish", u>> \in posts
              \/ <<"on_unpublish", u>> \in posts
              \/ srs[u] \notin {"asking", "stopped"}

\* A client while no callback is repeated and the API does not die: it has one session at
\* most, one callback that waits or one call under way at most, and if a session of it is
\* open it publishes, or one of the two is there.
ClientOK(u) ==
    /\ \A s, t \in SessionsOf(u) : s = t
    /\ \A g, h \in Handlers : job[g].who = u /\ job[h].who = u => g = h
    /\ <<"on_publish", u>> \in posts => srs[u] = "asking" /\ SessionsOf(u) = {}
    /\ srs[u] = "new" => SessionsOf(u) = {}
    /\ Untaken(u) => \A h \in Handlers : job[h].who # u
    /\ \A h \in Handlers : job[h].who = u => StageOK(job[h])
    /\ HasOpen(u) =>
          \/ srs[u] = "publishing"
          \/ <<"on_unpublish", u>> \in posts
          \/ \E h \in Handlers : job[h].who = u

FollowInv ==
    /\ Numbered
    /\ \A h \in Handlers : CallAbout(job[h])
    /\ \A u \in Clients : <<"on_unpublish", u>> \in posts => srs[u] = "stopped"
    /\ \A u \in Clients : srs[u] = "publishing" => HasOpen(u)
    /\ trouble \subseteq {"overlap"} => \A u \in Clients : ClientOK(u)

\* What no step does: give a session to another client, let one that has stopped go on, or
\* take the open session of one that has not.
Advance ==
    /\ \A s \in Sessions : publisher[s] # None => publisher'[s] = publisher[s]
    /\ \A w \in Clients : srs[w] = "stopped" => srs'[w] = "stopped"
    /\ \A w \in Clients : HasOpen(w) => HasOpen(w)' \/ srs'[w] = "stopped"

LEMMA FollowKeeps ==
  ASSUME TypeInv, FollowInv, Advance, Numbered',
         \A g \in Handlers : \A c : c = job'[g] => c = job[g] \/ CallAbout(c)',
         \A w \in Clients : <<"on_unpublish", w>> \in posts' => srs'[w] = "stopped",
         \A w \in Clients : srs'[w] = "publishing" => HasOpen(w)',
         trouble' \subseteq {"overlap"} => \A w \in Clients : ClientOK(w)'
  PROVE  FollowInv'
<1>1. ASSUME NEW g \in Handlers, NEW c, c = job'[g]  PROVE CallAbout(c)'
  <2>1. CASE CallAbout(c)'  BY <2>1
  <2>2. CASE c = job[g]
    <3>1. CallAbout(c)  BY <2>2 DEF FollowInv
    <3>2. c.step = "closeSession" => c.session \in Sessions /\ None \notin Clients
      BY <2>2, LiveAssumption DEF TypeInv, CallsOK, CallOK
    <3> QED
      BY <3>1, <3>2 DEF CallAbout, Advance
  <2> QED
    BY <1>1, <2>1, <2>2
<1>2. \A g \in Handlers : CallAbout(job[g])'
  BY <1>1 DEF CallAbout
<1> QED
  BY <1>2 DEF FollowInv

\* A client that a step is not about.
LEMMA Bystander ==
  ASSUME NEW w, ClientOK(w), srs'[w] = srs[w],
         \A e \in {"on_publish", "on_unpublish"} : <<e, w>> \in posts' <=> <<e, w>> \in posts,
         SessionsOf(w)' = SessionsOf(w), HasOpen(w)' = HasOpen(w),
         \A h \in Handlers : job[h].who = w \/ job'[h].who = w => job'[h] = job[h]
  PROVE  ClientOK(w)'
<1>1. \A h \in Handlers : job'[h].who = w <=> job[h].who = w
  OBVIOUS
<1>2. ASSUME NEW h \in Handlers, job'[h].who = w  PROVE StageOK(job[h])'
  <2>1. StageOK(job[h]) /\ job'[h] = job[h] /\ job[h].who = w  BY <1>2 DEF ClientOK
  <2> QED
    BY <2>1 DEF StageOK
<1>3. Untaken(w)' = Untaken(w)  BY DEF Untaken
<1> QED
  BY <1>1, <1>2, <1>3 DEF ClientOK

LEMMA SameSessions ==
  ASSUME UNCHANGED sessions
  PROVE  /\ Numbered' <=> Numbered
         /\ \A w : SessionsOf(w)' = SessionsOf(w) /\ HasOpen(w)' = HasOpen(w)
BY DEF sessions, Numbered, SessionsOf, HasOpen, Open

\* A call goes on within its part, or ends a part that leaves nothing open.
Onward(was, is) ==
    \/ is = Idle /\ was.step \in TeardownSteps \cup KeySteps
    \/ /\ is.who = was.who
       /\ \E S \in {PublishSteps, TeardownSteps, KeySteps} : was.step \in S /\ is.step \in S

LEMMA FollowOnward ==
  ASSUME TypeInv, FollowInv, UNCHANGED <<world, sessions>>, trouble' = trouble,
         NEW h \in Handlers, NEW c, job' = [job EXCEPT ![h] = c], Onward(job[h], c)
  PROVE  FollowInv'
<1>0. job \in [Handlers -> Calls]  BY DEF TypeInv, CallsOK
<1>1. \A w : SessionsOf(w)' = SessionsOf(w) /\ HasOpen(w)' = HasOpen(w)
  BY SameSessions
<1>2. srs' = srs /\ posts' = posts /\ publisher' = publisher
  BY DEF world, sessions
<1>3. Numbered' /\ Advance
  BY <1>1, <1>2, SameSessions DEF FollowInv, Advance
<1>4. CallAbout(job[h])  BY DEF FollowInv
<1>5. CallAbout(c)'
  <2>1. CallAbout(c)
    BY <1>4 DEF Onward, CallAbout, Idle, PublishSteps, TeardownSteps, KeySteps
  <2> QED
    BY <1>1, <1>2, <2>1 DEF CallAbout
<1>6. ASSUME trouble \subseteq {"overlap"}, NEW w \in Clients  PROVE ClientOK(w)'
  <2>0. ClientOK(w) /\ None # w /\ w \notin Keys  BY <1>6, LiveAssumption DEF FollowInv
  <2>1. CASE job[h].who # w
    <3>1. c.who # w  BY <2>0, <2>1 DEF Onward, Idle
    <3> QED
      BY <1>0, <1>1, <1>2, <2>0, <2>1, <3>1, Bystander
  <2>2. CASE job[h].who = w
    <3>1. StageOK(job[h]) /\ job[h].step \notin KeySteps
      BY <1>4, <2>0, <2>2 DEF ClientOK, CallAbout
    <3>2. c.who = w => StageOK(c)
      BY <2>0, <2>2, <3>1 DEF Onward, StageOK, Idle, PublishSteps, TeardownSteps, KeySteps
    <3>3. c.who = w => StageOK(c)'
      BY <1>1, <1>2, <3>2 DEF StageOK
    <3>4. c.who # w => ~HasOpen(w)
      BY <2>2, <3>1 DEF Onward, StageOK
    <3>5. \A g \in Handlers : job'[g] = IF g = h THEN c ELSE job[g]
      BY <1>0
    <3>6. \A g \in Handlers : job'[g].who = w => g = h /\ c.who = w
      BY <2>0, <2>2, <3>5 DEF ClientOK
    <3>7. \A g \in Handlers : job'[g].who = w => StageOK(job[g])'
      BY <3>3, <3>5, <3>6 DEF StageOK
    <3>8. \A g, k \in Handlers : job'[g].who = w /\ job'[k].who = w => g = k
      BY <3>6
    <3>9. HasOpen(w) => \E g \in Handlers : job'[g].who = w
      BY <3>4, <3>5
    <3>10. Untaken(w)' = Untaken(w) /\ ~Untaken(w)
      BY <1>2, <2>0, <2>2 DEF ClientOK, Untaken
    <3> QED
      BY <1>1, <1>2, <2>0, <3>7, <3>8, <3>9, <3>10 DEF ClientOK
  <2> QED
    BY <2>1, <2>2
<1>7. \A g \in Handlers : \A d : d = job'[g] => d = job[g] \/ CallAbout(d)'
  BY <1>0, <1>5
<1>8. \A w \in Clients : /\ <<"on_unpublish", w>> \in posts' => srs'[w] = "stopped"
                         /\ srs'[w] = "publishing" => HasOpen(w)'
  BY <1>1, <1>2 DEF FollowInv
<1> QED
  BY <1>3, <1>6, <1>7, <1>8, FollowKeeps

\* Everything but the callbacks and what the clients do; the calls that go on or begin
\* are about no client, or about one that the caller of this lemma looks at.
LEMMA FollowClients ==
  ASSUME TypeInv, FollowInv, UNCHANGED sessions,
         NEW u, NEW h \in Handlers, NEW c, job' = [job EXCEPT ![h] = c],
         c = job[h] \/ (job[h] = Idle /\ CallAbout(c)'),
         c.who = job[h].who \/ c.who \in Keys \cup {u},
         \A w \in Clients \ {u} : srs'[w] = srs[w]
             /\ \A e \in {"on_publish", "on_unpublish"} : <<e, w>> \in posts' <=> <<e, w>> \in posts,
         u \in Clients => /\ srs[u] = "stopped" => srs'[u] = "stopped"
                          /\ srs'[u] = "publishing" => srs[u] = "publishing"
                          /\ <<"on_unpublish", u>> \in posts' => srs'[u] = "stopped",
         trouble' \subseteq {"overlap"} =>
             trouble \subseteq {"overlap"} /\ (u \in Clients => ClientOK(u)')
  PROVE  FollowInv'
<1>0. job \in [Handlers -> Calls] /\ None \notin Clients /\ Clients \cap Keys = {}
  BY LiveAssumption DEF TypeInv, CallsOK
<1>1. \A w : SessionsOf(w)' = SessionsOf(w) /\ HasOpen(w)' = HasOpen(w)
  BY SameSessions
<1>2. \A w \in Clients : srs[w] = "stopped" => srs'[w] = "stopped"
  OBVIOUS
<1>3. Numbered' /\ Advance
  BY <1>1, <1>2, SameSessions DEF FollowInv, Advance, sessions
<1>4. \A g \in Handlers : \A d : d = job'[g] => d = job[g] \/ CallAbout(d)'
  BY <1>0
<1>5. \A w \in Clients : /\ <<"on_unpublish", w>> \in posts' => srs'[w] = "stopped"
                         /\ srs'[w] = "publishing" => HasOpen(w)'
  BY <1>1 DEF FollowInv
<1>6. ASSUME trouble' \subseteq {"overlap"}, NEW w \in Clients  PROVE ClientOK(w)'
  <2>1. CASE w = u  BY <1>6, <2>1
  <2>2. CASE w # u
    <3>1. ClientOK(w)  BY <1>6 DEF FollowInv
    <3>2. job[h].who = w => job[h] # Idle  BY <1>0 DEF Idle
    <3>3. \A g \in Handlers : job[g].who = w \/ job'[g].who = w => job'[g] = job[g]
      BY <1>0, <2>2, <3>2 DEF Idle
    <3> QED
      BY <1>1, <2>2, <3>1, <3>3, Bystander
  <2> QED
    BY <2>1, <2>2
<1> QED
  BY <1>3, <1>4, <1>5, <1>6, FollowKeeps

\* The history grows: what has gone wrong stays known.
LEMMA TroubleGrows ==
  ASSUME NEW h \in Handlers, NEW c, Begin(h, c)
  PROVE  /\ job' = [job EXCEPT ![h] = c] /\ job[h] = Idle
         /\ trouble' \subseteq {"overlap"} => trouble \subseteq {"overlap"}
BY DEF Begin

\* lookupCreatorByKeyHash: the client asks, and no other call is about it.
LEMMA FollowOnPublish ==
  ASSUME TypeInv, FollowInv, NEW h \in Handlers, NEW u \in Clients, OnPublish(h, u)
  PROVE  FollowInv'
<1>0. /\ job \in [Handlers -> Calls] /\ srs \in [Clients -> {"new", "asking", "refused", "publishing", "stopped"}]
      /\ None \notin Clients /\ Clients \cap Keys = {}
  BY LiveAssumption DEF TypeInv, CallsOK, TypeOK
<1>1. /\ <<"on_publish", u>> \in posts /\ posts' = posts \ {<<"on_publish", u>>}
      /\ UNCHANGED sessions
  BY DEF OnPublish
<1>2. \A w : SessionsOf(w)' = SessionsOf(w) /\ HasOpen(w)' = HasOpen(w)
  BY <1>1, SameSessions
<1>3. CASE srs' = srs /\ Begin(h, [Idle EXCEPT !.step = "openSession", !.who = u])
  <2> DEFINE c == [Idle EXCEPT !.step = "openSession", !.who = u]
  <2>1. c.step = "openSession" /\ c.who = u  BY DEF Idle
  <2> HIDE DEF c
  <2>2. /\ job' = [job EXCEPT ![h] = c] /\ job[h] = Idle
        /\ trouble' \subseteq {"overlap"} => trouble \subseteq {"overlap"}
    BY <1>3, TroubleGrows DEF c
  <2>3. CallAbout(c)'
    BY <2>1 DEF CallAbout, KeySteps, PublishSteps, TeardownSteps
  <2>4. ASSUME trouble \subseteq {"overlap"}  PROVE ClientOK(u)'
    <3>1. ClientOK(u)  BY <2>4 DEF FollowInv
    <3>2. srs[u] = "asking" /\ SessionsOf(u) = {} /\ \A g \in Handlers : job[g].who # u
      BY <1>1, <3>1 DEF ClientOK, Untaken
    <3>3. \A g \in Handlers : job'[g] = IF g = h THEN c ELSE job[g]  BY <1>0, <2>2
    <3>4. StageOK(c)'  BY <1>2, <1>3, <2>1, <3>2 DEF StageOK, PublishSteps, TeardownSteps
    <3>5. \A g \in Handlers : job'[g].who = u => StageOK(job[g])'
      BY <3>2, <3>3, <3>4 DEF StageOK
    <3>6. <<"on_unpublish", u>> \notin posts /\ ~HasOpen(u)
      BY <3>2 DEF FollowInv, HasOpen
    <3> QED
      BY <1>1, <1>2, <1>3, <2>1, <3>1, <3>2, <3>3, <3>5, <3>6 DEF ClientOK, Untaken
  <2> QED
    BY <1>1, <1>3, <2>1, <2>2, <2>3, <2>4, FollowClients DEF FollowInv
<1>4. CASE Reply(u, "refused") /\ UNCHANGED <<job, trouble>>
  <2> PICK c : c = job[h]  OBVIOUS
  <2>1. job' = [job EXCEPT ![h] = c]  BY <1>0, <1>4
  <2>2. srs' = [srs EXCEPT ![u] = IF srs[u] = "asking" THEN "refused" ELSE @]
    BY <1>0, <1>4 DEF Reply
  <2>3. ASSUME trouble \subseteq {"overlap"}  PROVE ClientOK(u)'
    <3>1. ClientOK(u)  BY <2>3 DEF FollowInv
    <3>2. srs[u] = "asking" /\ SessionsOf(u) = {} /\ \A g \in Handlers : job[g].who # u
      BY <1>1, <3>1 DEF ClientOK, Untaken
    <3>3. ~HasOpen(u)  BY <3>2 DEF HasOpen
    <3> QED
      BY <1>0, <1>1, <1>2, <1>4, <2>2, <3>2, <3>3 DEF ClientOK, Untaken
  <2> QED
    BY <1>0, <1>1, <1>4, <2>1, <2>2, <2>3, FollowClients DEF FollowInv
<1> QED
  BY <1>3, <1>4 DEF OnPublish

\* closeSession: the client has stopped, and the call takes its one session.
LEMMA FollowOnUnpublish ==
  ASSUME TypeInv, FollowInv, NEW h \in Handlers, NEW u \in Clients, OnUnpublish(h, u)
  PROVE  FollowInv'
<1>0. job \in [Handlers -> Calls] /\ None \notin Clients /\ Clients \cap Keys = {}
  BY LiveAssumption DEF TypeInv, CallsOK
<1>1. /\ <<"on_unpublish", u>> \in posts /\ posts' = posts \ {<<"on_unpublish", u>>}
      /\ UNCHANGED sessions /\ srs' = srs /\ srs[u] = "stopped"
  BY DEF OnUnpublish, FollowInv
<1>2. \A w : SessionsOf(w)' = SessionsOf(w) /\ HasOpen(w)' = HasOpen(w)
  BY <1>1, SameSessions
<1>3. PICK c : /\ Begin(h, c) /\ c.who = u
               /\ \/ c.step = "closeSession" /\ c.session \in SessionsOf(u)
                  \/ c.step = "lastSession" /\ ~HasOpen(u)
  <2>1. ASSUME NEW s \in Open \cap SessionsOf(u),
               Begin(h, [Idle EXCEPT !.step = "closeSession", !.who = u, !.session = s])
        PROVE  \E c : /\ Begin(h, c) /\ c.who = u
                      /\ c.step = "closeSession" /\ c.session \in SessionsOf(u)
    <3> DEFINE c == [Idle EXCEPT !.step = "closeSession", !.who = u, !.session = s]
    <3>1. c.step = "closeSession" /\ c.who = u /\ c.session = s  BY DEF Idle
    <3> HIDE DEF c
    <3>2. Begin(h, c)  BY <2>1 DEF c
    <3> QED
      BY <3>1, <3>2
  <2>2. ASSUME Begin(h, [Idle EXCEPT !.step = "lastSession", !.who = u])
        PROVE  \E c : Begin(h, c) /\ c.who = u /\ c.step = "lastSession"
    <3> DEFINE c == [Idle EXCEPT !.step = "lastSession", !.who = u]
    <3>1. c.step = "lastSession" /\ c.who = u  BY DEF Idle
    <3> HIDE DEF c
    <3>2. Begin(h, c)  BY <2>2 DEF c
    <3> QED
      BY <3>1, <3>2
  <2> QED
    BY <2>1, <2>2 DEF OnUnpublish, HasOpen
<1>4. /\ job' = [job EXCEPT ![h] = c] /\ job[h] = Idle
      /\ trouble' \subseteq {"overlap"} => trouble \subseteq {"overlap"}
  BY <1>3, TroubleGrows
<1>5. CallAbout(c)'
  BY <1>1, <1>3 DEF CallAbout, KeySteps, PublishSteps, TeardownSteps, SessionsOf, sessions
<1>6. ASSUME trouble \subseteq {"overlap"}  PROVE ClientOK(u)'
  <2>1. ClientOK(u)  BY <1>6 DEF FollowInv
  <2>2. \A g \in Handlers : job[g].who # u  BY <1>1, <2>1 DEF ClientOK, Untaken
  <2>3. \A g \in Handlers : job'[g] = IF g = h THEN c ELSE job[g]  BY <1>0, <1>4
  <2>4. StageOK(c)'
    BY <1>2, <1>3 DEF StageOK, PublishSteps, TeardownSteps
  <2>5. \A g \in Handlers : job'[g].who = u => StageOK(job[g])'
    BY <2>2, <2>3, <2>4 DEF StageOK
  <2>6. <<"on_publish", u>> \notin posts  BY <1>1, <2>1 DEF ClientOK, Untaken
  <2>7. \E g \in Handlers : job'[g].who = u  BY <1>3, <2>3
  <2> QED
    BY <1>1, <1>2, <2>1, <2>2, <2>3, <2>5, <2>6, <2>7 DEF ClientOK, Untaken
<1> QED
  BY <1>0, <1>1, <1>3, <1>4, <1>5, <1>6, FollowClients DEF FollowInv

\* What a client does, and what SRS posts again.
LEMMA FollowWorld ==
  ASSUME TypeInv, FollowInv, NEW u \in Clients, Connect(u) \/ Disconnect(u) \/ RetryPublish(u)
  PROVE  FollowInv'
<1>0. /\ job \in [Handlers -> Calls] /\ Handlers # {}
      /\ srs \in [Clients -> {"new", "asking", "refused", "publishing", "stopped"}]
  BY LiveAssumption DEF TypeInv, CallsOK, TypeOK
<1> PICK h \in Handlers : TRUE
  BY <1>0
<1> PICK c : c = job[h]
  OBVIOUS
<1>1. job' = [job EXCEPT ![h] = c] /\ UNCHANGED <<sessions, job>>
  BY <1>0 DEF Connect, Disconnect, RetryPublish
<1>2. \A w : SessionsOf(w)' = SessionsOf(w) /\ HasOpen(w)' = HasOpen(w)
  BY <1>1, SameSessions
<1>3. \A g \in Handlers : StageOK(job[g]) /\ job[g].who = u /\ srs'[u] = srs[u]
                             => StageOK(job[g])'
  BY <1>1, <1>2 DEF StageOK
<1>4. CASE Connect(u)
  <2>1. srs[u] = "new" /\ srs'[u] = "asking" /\ posts' = posts \cup {<<"on_publish", u>>}
        /\ trouble' = trouble /\ \A w \in Clients \ {u} : srs'[w] = srs[w]
    BY <1>0, <1>4 DEF Connect
  <2>2. ASSUME trouble \subseteq {"overlap"}  PROVE ClientOK(u)'
    <3>1. ClientOK(u)  BY <2>2 DEF FollowInv
    <3>2. SessionsOf(u) = {} /\ \A g \in Handlers : job[g].who # u
      BY <2>1, <3>1 DEF ClientOK, Untaken
    <3>3. ~HasOpen(u)  BY <3>2 DEF HasOpen
    <3> QED
      BY <1>1, <1>2, <2>1, <3>2, <3>3 DEF ClientOK, Untaken
  <2>3. \A w \in Clients \ {u} : \A e \in {"on_publish", "on_unpublish"} :
            <<e, w>> \in posts' <=> <<e, w>> \in posts
    BY <2>1
  <2>4. <<"on_unpublish", u>> \in posts' => srs'[u] = "stopped"
    BY <2>1 DEF FollowInv
  <2>5. UNCHANGED sessions /\ (trouble' \subseteq {"overlap"} =>
            trouble \subseteq {"overlap"} /\ (u \in Clients => ClientOK(u)'))
    BY <1>1, <2>1, <2>2
  <2>6. /\ \A w \in Clients \ {u} : srs'[w] = srs[w]
        /\ srs[u] = "stopped" => srs'[u] = "stopped"
        /\ srs'[u] = "publishing" => srs[u] = "publishing"
    BY <2>1
  <2> QED
    BY <1>1, <2>3, <2>4, <2>5, <2>6, FollowClients
<1>5. CASE Disconnect(u)
  <2>1. srs[u] = "publishing" /\ srs'[u] = "stopped" /\ posts' = posts \cup {<<"on_unpublish", u>>}
        /\ trouble' = trouble /\ \A w \in Clients \ {u} : srs'[w] = srs[w]
    BY <1>0, <1>5 DEF Disconnect
  <2>2. ASSUME trouble \subseteq {"overlap"}  PROVE ClientOK(u)'
    <3>1. ClientOK(u)  BY <2>2 DEF FollowInv
    <3>2. \A g \in Handlers : job[g].who # u
      BY <2>1, <3>1 DEF ClientOK, Untaken
    <3>3. <<"on_publish", u>> \notin posts'  BY <2>1, <3>1 DEF ClientOK
    <3> QED
      BY <1>1, <1>2, <2>1, <3>1, <3>2, <3>3 DEF ClientOK, Untaken
  <2>3. \A w \in Clients \ {u} : \A e \in {"on_publish", "on_unpublish"} :
            <<e, w>> \in posts' <=> <<e, w>> \in posts
    BY <2>1
  <2>4. <<"on_unpublish", u>> \in posts' => srs'[u] = "stopped"
    BY <2>1 DEF FollowInv
  <2>5. UNCHANGED sessions /\ (trouble' \subseteq {"overlap"} =>
            trouble \subseteq {"overlap"} /\ (u \in Clients => ClientOK(u)'))
    BY <1>1, <2>1, <2>2
  <2>6. /\ \A w \in Clients \ {u} : srs'[w] = srs[w]
        /\ srs[u] = "stopped" => srs'[u] = "stopped"
        /\ srs'[u] = "publishing" => srs[u] = "publishing"
    BY <2>1
  <2> QED
    BY <1>1, <2>3, <2>4, <2>5, <2>6, FollowClients
<1>6. CASE RetryPublish(u)
  <2>1. srs' = srs /\ posts' = posts \cup {<<"on_publish", u>>} /\ "retry" \in trouble'
    BY <1>6 DEF RetryPublish
  <2>2. \A w \in Clients \ {u} : \A e \in {"on_publish", "on_unpublish"} :
            <<e, w>> \in posts' <=> <<e, w>> \in posts
    BY <2>1
  <2>3. <<"on_unpublish", u>> \in posts' => srs'[u] = "stopped"
    BY <2>1 DEF FollowInv
  <2>4. UNCHANGED sessions /\ (trouble' \subseteq {"overlap"} =>
            trouble \subseteq {"overlap"} /\ (u \in Clients => ClientOK(u)'))
    BY <1>1, <2>1
  <2>5. /\ \A w \in Clients \ {u} : srs'[w] = srs[w]
        /\ srs[u] = "stopped" => srs'[u] = "stopped"
        /\ srs'[u] = "publishing" => srs[u] = "publishing"
    BY <2>1
  <2> QED
    BY <1>1, <2>2, <2>3, <2>4, <2>5, FollowClients
<1> QED
  BY <1>4, <1>5, <1>6

\* A step that is about no client.
LEMMA FollowNoClient ==
  ASSUME TypeInv, FollowInv, UNCHANGED <<srs, posts, sessions>>,
         NEW h \in Handlers, NEW c, job' = [job EXCEPT ![h] = c],
         c = job[h] \/ (job[h] = Idle /\ CallAbout(c)'),
         c.who = job[h].who \/ c.who \in Keys,
         trouble' \subseteq {"overlap"} => trouble \subseteq {"overlap"}
  PROVE  FollowInv'
<1> PICK u : u = None
  OBVIOUS
<1>1. u \notin Clients
  BY LiveAssumption
<1>2. trouble' \subseteq {"overlap"} =>
          trouble \subseteq {"overlap"} /\ (u \in Clients => ClientOK(u)')
  BY <1>1
<1>3. UNCHANGED sessions
  OBVIOUS
<1>4. \A w \in Clients \ {u} : srs'[w] = srs[w]
          /\ \A e \in {"on_publish", "on_unpublish"} : <<e, w>> \in posts' <=> <<e, w>> \in posts
  OBVIOUS
<1>5. c.who = job[h].who \/ c.who \in Keys \cup {u}
  OBVIOUS
<1> QED
  BY <1>1, <1>2, <1>3, <1>4, <1>5, FollowClients

LEMMA FollowStreamKeys ==
  ASSUME TypeInv, FollowInv,
         \/ \E k \in Keys : RevokeStreamKey(k)
         \/ \E h \in Handlers, k \in Keys : CreateStreamKey(h, k)
  PROVE  FollowInv'
<1>0. job \in [Handlers -> Calls] /\ Handlers # {}
  BY LiveAssumption DEF TypeInv, CallsOK
<1>1. ASSUME NEW k \in Keys, RevokeStreamKey(k)  PROVE FollowInv'
  <2> PICK h \in Handlers : TRUE
    BY <1>0
  <2> PICK c : c = job[h]
    OBVIOUS
  <2>1. job' = [job EXCEPT ![h] = c] /\ UNCHANGED <<srs, posts, sessions, trouble>>
    BY <1>0, <1>1 DEF RevokeStreamKey, world
  <2> QED
    BY <2>1, FollowNoClient
<1>2. ASSUME NEW h \in Handlers, NEW k \in Keys, CreateStreamKey(h, k)  PROVE FollowInv'
  <2> DEFINE c == [Idle EXCEPT !.step = "findRows", !.who = k]
  <2>1. c.step = "findRows" /\ c.who = k  BY DEF Idle
  <2>2. Begin(h, c) /\ UNCHANGED <<srs, posts, sessions>>  BY <1>2 DEF CreateStreamKey, world
  <2> HIDE DEF c
  <2>3. /\ job' = [job EXCEPT ![h] = c] /\ job[h] = Idle
        /\ trouble' \subseteq {"overlap"} => trouble \subseteq {"overlap"}
    BY <2>2, TroubleGrows
  <2>4. CallAbout(c)'
    BY <2>1 DEF CallAbout, KeySteps, PublishSteps, TeardownSteps
  <2> QED
    BY <2>1, <2>2, <2>3, <2>4, FollowNoClient
<1> QED
  BY <1>1, <1>2

\* The session that openSession inserts is the next one, and it is open.
LEMMA NextSession ==
  ASSUME TypeInv, FollowInv, NEW h \in Handlers, OpenSession(h)
  PROVE  \E s \in Sessions, c \in Calls :
            /\ publisher[s] = None /\ ended[s] = 0 /\ Open' = Open \cup {s} /\ Numbered'
            /\ job[h].step = "openSession" /\ job[h].who \in Clients
            /\ publisher' = [publisher EXCEPT ![s] = job[h].who]
            /\ \A x \in Sessions : publisher[x] # None => publisher'[x] # None
            /\ job' = [job EXCEPT ![h] = c]
            /\ c.step = "findChannel" /\ c.who = job[h].who /\ c.session = s
<1> DEFINE made0 == {x \in Sessions : publisher[x] # None}
<1> PICK u, s : u = job[h].who /\ s = Cardinality(made0) + 1
  OBVIOUS
<1> PICK c : c = [job[h] EXCEPT !.step = "findChannel", !.session = s]
  OBVIOUS
<1>0. /\ job \in [Handlers -> Calls] /\ None \notin Clients /\ Clients \cap Keys = {}
      /\ publisher \in [Sessions -> Clients \cup {None}] /\ MaxSessions \in Nat
  BY LiveAssumption DEF TypeInv, CallsOK, TypeOK
<1>1. /\ Cardinality(made0) < MaxSessions /\ job[h].step = "openSession"
      /\ publisher' = [publisher EXCEPT ![s] = u] /\ job' = [job EXCEPT ![h] = c]
      /\ UNCHANGED <<srs, posts, ended, trouble>>
  BY DEF OpenSession, At, world
<1>2. CallAbout(job[h])  BY DEF FollowInv
<1>3. PICK n \in 0..MaxSessions : \A x \in Sessions :
          /\ publisher[x] # None <=> x <= n
          /\ publisher[x] = None => ended[x] = 0
  BY DEF FollowInv, Numbered
<1>4. s = n + 1 /\ Cardinality(made0) = n
  <2>1. made0 = 1..n  BY <1>0, <1>3 DEF Sessions
  <2>2. Cardinality(1..n) = n  BY <1>0, FS_Interval
  <2> QED
    BY <2>1, <2>2
<1>5. s \in Sessions /\ publisher[s] = None /\ ended[s] = 0
  <2>1. n < MaxSessions  BY <1>1, <1>4
  <2> QED
    BY <1>0, <1>3, <1>4, <2>1 DEF Sessions
<1>6. c.step = "findChannel" /\ c.who = u /\ c.session = s /\ u \in Clients /\ u # None /\ c \in Calls
  <2>1. job[h] \in Calls  BY <1>0
  <2> QED
    BY <1>0, <1>1, <1>2, <1>5, <2>1 DEF CallAbout, Calls, Steps
<1>7. \A x \in Sessions : publisher'[x] = IF x = s THEN u ELSE publisher[x]
  BY <1>0, <1>1
<1>8. Numbered'
  <2>1. n + 1 \in 0..MaxSessions  BY <1>0, <1>4, <1>5 DEF Sessions
  <2>2. \A x \in Sessions : /\ publisher'[x] # None <=> x <= n + 1
                            /\ publisher'[x] = None => ended'[x] = 0
    BY <1>1, <1>3, <1>4, <1>6, <1>7 DEF Sessions
  <2> QED
    BY <2>1, <2>2 DEF Numbered
<1>9. Open' = Open \cup {s}
  BY <1>1, <1>5, <1>6, <1>7 DEF Open
<1>10. \A x \in Sessions : publisher[x] # None => publisher'[x] # None
  BY <1>6, <1>7
<1> QED
  BY <1>1, <1>5, <1>6, <1>8, <1>9, <1>10

\* openSession: the number of the session is the next one, and it is open.
LEMMA FollowOpenSession ==
  ASSUME TypeInv, FollowInv, NEW h \in Handlers, OpenSession(h)
  PROVE  FollowInv'
<1> PICK u : u = job[h].who
  OBVIOUS
<1>0. /\ job \in [Handlers -> Calls] /\ None \notin Clients /\ Clients \cap Keys = {}
      /\ publisher \in [Sessions -> Clients \cup {None}]
      /\ UNCHANGED <<srs, posts, ended, trouble>>
  BY LiveAssumption DEF TypeInv, CallsOK, TypeOK, OpenSession, world
<1>1. PICK s \in Sessions, c \in Calls :
          /\ publisher[s] = None /\ ended[s] = 0 /\ Open' = Open \cup {s} /\ Numbered'
          /\ job[h].step = "openSession" /\ u \in Clients
          /\ publisher' = [publisher EXCEPT ![s] = u] /\ job' = [job EXCEPT ![h] = c]
          /\ c.step = "findChannel" /\ c.who = u
  BY NextSession
<1>2. \A x \in Sessions : publisher'[x] = IF x = s THEN u ELSE publisher[x]
  BY <1>0, <1>1
<1>3. /\ \A w \in Clients \ {u} : SessionsOf(w)' = SessionsOf(w)
      /\ SessionsOf(u)' = SessionsOf(u) \cup {s}
  BY <1>0, <1>1, <1>2 DEF SessionsOf
<1>4. /\ \A w \in Clients \ {u} : HasOpen(w)' = HasOpen(w)
      /\ HasOpen(u)'
  <2>1. \A w \in Clients : s \notin SessionsOf(w)  BY <1>0, <1>1 DEF SessionsOf
  <2> QED
    BY <1>1, <1>3, <2>1 DEF HasOpen
<1>5. Advance
  BY <1>0, <1>1, <1>2, <1>4 DEF Advance
<1>6. CallAbout(c)'
  BY <1>0, <1>1, <1>4 DEF CallAbout, KeySteps, PublishSteps, TeardownSteps
<1>7. \A g \in Handlers : job'[g] = IF g = h THEN c ELSE job[g]
  BY <1>0, <1>1
<1>8. ASSUME trouble \subseteq {"overlap"}, NEW w \in Clients  PROVE ClientOK(w)'
  <2>1. ClientOK(w)  BY <1>8 DEF FollowInv
  <2>2. CASE w # u
    BY <1>0, <1>1, <1>3, <1>4, <1>7, <2>1, <2>2, Bystander
  <2>3. CASE w = u
    <3>1. srs[u] = "asking" /\ SessionsOf(u) = {}
      BY <1>1, <2>1, <2>3 DEF ClientOK, StageOK
    <3>2. \A g \in Handlers : job[g].who = u => g = h
      BY <2>1, <2>3 DEF ClientOK
    <3>3. SessionsOf(u)' = {s}  BY <1>3, <3>1
    <3>4. StageOK(c)'  BY <1>0, <1>1, <3>1 DEF StageOK, PublishSteps, TeardownSteps
    <3>5. \A g \in Handlers : job'[g].who = u => g = h /\ StageOK(job[g])'
      BY <1>7, <3>2, <3>4 DEF StageOK
    <3>6. ~Untaken(u) /\ job'[h].who = u  BY <1>1, <1>7, <2>1, <2>3 DEF ClientOK
    <3> QED
      BY <1>0, <1>1, <2>3, <3>1, <3>3, <3>5, <3>6 DEF ClientOK, Untaken
  <2> QED
    BY <2>2, <2>3
<1>9. /\ \A g \in Handlers : \A d : d = job'[g] => d = job[g] \/ CallAbout(d)'
      /\ \A w \in Clients : /\ <<"on_unpublish", w>> \in posts' => srs'[w] = "stopped"
                            /\ srs'[w] = "publishing" => HasOpen(w)'
  BY <1>0, <1>1, <1>4, <1>6, <1>7 DEF FollowInv
<1> QED
  BY <1>0, <1>1, <1>5, <1>8, <1>9, FollowKeeps

\* The answer makes a client publish that has an open session.
LEMMA FollowAnswer ==
  ASSUME TypeInv, FollowInv, NEW h \in Handlers, Answer(h)
  PROVE  FollowInv'
<1> PICK u : u = job[h].who
  OBVIOUS
<1>0. /\ job \in [Handlers -> Calls] /\ None \notin Clients
      /\ srs \in [Clients -> {"new", "asking", "refused", "publishing", "stopped"}]
  BY LiveAssumption DEF TypeInv, CallsOK, TypeOK
<1>1. /\ job[h].step = "answer" /\ job' = [job EXCEPT ![h] = Idle]
      /\ srs' = [srs EXCEPT ![u] = IF srs[u] = "asking" THEN "publishing" ELSE @]
      /\ UNCHANGED <<posts, sessions, trouble>>
  BY <1>0 DEF Answer, At, Reply, Done
<1>2. u \in Clients /\ (srs[u] = "stopped" \/ HasOpen(u))
  BY <1>1 DEF FollowInv, CallAbout, PublishSteps
<1>3. \A w : SessionsOf(w)' = SessionsOf(w) /\ HasOpen(w)' = HasOpen(w)
  BY <1>1, SameSessions
<1>4. \A w \in Clients : srs'[w] = IF w = u /\ srs[u] = "asking" THEN "publishing" ELSE srs[w]
  BY <1>0, <1>1
<1>5. Numbered' /\ Advance
  BY <1>1, <1>3, <1>4, SameSessions DEF FollowInv, Advance, sessions
<1>6. \A g \in Handlers : job'[g] = IF g = h THEN Idle ELSE job[g]
  BY <1>0, <1>1
<1>7. CallAbout(Idle)'
  BY DEF CallAbout, Idle, KeySteps, PublishSteps, TeardownSteps
<1>8. ASSUME trouble \subseteq {"overlap"}, NEW w \in Clients  PROVE ClientOK(w)'
  <2>1. ClientOK(w)  BY <1>8 DEF FollowInv
  <2>2. CASE w # u
    <3>1. Idle.who # w  BY <1>0 DEF Idle
    <3> QED
      BY <1>1, <1>3, <1>4, <1>6, <2>1, <2>2, <3>1, Bystander
  <2>3. CASE w = u
    <3>1. srs[u] = "asking" /\ srs'[u] = "publishing"
      BY <1>1, <1>2, <1>4, <2>1, <2>3 DEF ClientOK, StageOK, PublishSteps
    <3>2. ~Untaken(u)  BY <2>1, <2>3 DEF ClientOK
    <3>3. \A g \in Handlers : job'[g].who # u
      BY <1>0, <1>2, <1>6, <2>1, <2>3 DEF ClientOK, Idle
    <3> QED
      BY <1>1, <1>3, <2>1, <2>3, <3>1, <3>2, <3>3 DEF ClientOK, Untaken
  <2> QED
    BY <2>2, <2>3
<1>9. /\ \A g \in Handlers : \A d : d = job'[g] => d = job[g] \/ CallAbout(d)'
      /\ \A w \in Clients : /\ <<"on_unpublish", w>> \in posts' => srs'[w] = "stopped"
                            /\ srs'[w] = "publishing" => HasOpen(w)'
  BY <1>1, <1>2, <1>3, <1>4, <1>6, <1>7 DEF FollowInv
<1> QED
  BY <1>1, <1>5, <1>8, <1>9, FollowKeeps

\* The session that a call closes is of a client that has stopped; it was its only one.
LEMMA FollowCloseSession ==
  ASSUME TypeInv, FollowInv, NEW h \in Handlers, CloseSession(h)
  PROVE  FollowInv'
<1> PICK u, s, e : u = job[h].who /\ s = job[h].session
                   /\ e = 1 + Cardinality({x \in Sessions : ended[x] > 0})
  OBVIOUS
<1> PICK c : c = [job[h] EXCEPT !.step = "lastSession", !.session = None]
  OBVIOUS
<1>0. /\ job \in [Handlers -> Calls] /\ None \notin Clients
      /\ ended \in [Sessions -> Nat] /\ job[h] \in Calls /\ CallOK(job[h])
  BY LiveAssumption DEF TypeInv, CallsOK, TypeOK
<1>1. /\ job[h].step = "closeSession" /\ job' = [job EXCEPT ![h] = c]
      /\ ended' = [ended EXCEPT ![s] = e]
      /\ UNCHANGED <<srs, posts, publisher, trouble>>
  BY DEF CloseSession, At, world
<1>2. u \in Clients /\ srs[u] = "stopped" /\ s \in Sessions /\ publisher[s] = u
  BY <1>0, <1>1 DEF FollowInv, CallAbout, CallOK
<1>3. c.step = "lastSession" /\ c.who = u
  BY <1>0 DEF Calls
<1>4. e \in Nat /\ e # 0  BY CountSessions
<1>5. \A x \in Sessions : ended'[x] = IF x = s THEN e ELSE ended[x]
  BY <1>0, <1>1
<1>6. /\ \A w : SessionsOf(w)' = SessionsOf(w)
      /\ Open' = Open \ {s}
  BY <1>1, <1>4, <1>5 DEF SessionsOf, Open
<1>7. \A w \in Clients \ {u} : HasOpen(w)' = HasOpen(w)
  BY <1>2, <1>6 DEF HasOpen, SessionsOf
<1>8. Numbered'
  <2>1. PICK n \in 0..MaxSessions : \A x \in Sessions :
          /\ publisher[x] # None <=> x <= n
          /\ publisher[x] = None => ended[x] = 0
    BY DEF FollowInv, Numbered
  <2>2. \A x \in Sessions : /\ publisher'[x] # None <=> x <= n
                            /\ publisher'[x] = None => ended'[x] = 0
    BY <1>0, <1>1, <1>2, <1>5, <2>1
  <2> QED
    BY <2>2 DEF Numbered
<1>9. Advance
  BY <1>1, <1>2, <1>7 DEF Advance
<1>10. CallAbout(c)'
  BY <1>1, <1>2, <1>3 DEF CallAbout, KeySteps, PublishSteps, TeardownSteps
<1>11. \A g \in Handlers : job'[g] = IF g = h THEN c ELSE job[g]
  BY <1>0, <1>1
<1>12. ASSUME trouble \subseteq {"overlap"}, NEW w \in Clients  PROVE ClientOK(w)'
  <2>1. ClientOK(w)  BY <1>12 DEF FollowInv
  <2>2. CASE w # u
    BY <1>1, <1>3, <1>6, <1>7, <1>11, <2>1, <2>2, Bystander
  <2>3. CASE w = u
    <3>1. ~HasOpen(u)'
      BY <1>2, <1>6, <2>1, <2>3 DEF ClientOK, HasOpen, SessionsOf
    <3>2. \A g \in Handlers : job[g].who = u => g = h
      BY <2>1, <2>3 DEF ClientOK
    <3>3. StageOK(c)'  BY <1>3, <3>1 DEF StageOK, PublishSteps, TeardownSteps
    <3>4. \A g \in Handlers : job'[g].who = u => g = h /\ StageOK(job[g])'
      BY <1>11, <3>2, <3>3 DEF StageOK
    <3>5. ~Untaken(u)  BY <2>1, <2>3 DEF ClientOK
    <3>6. <<"on_publish", u>> \notin posts'  BY <1>1, <3>5 DEF Untaken
    <3> QED
      BY <1>1, <1>2, <1>6, <2>1, <2>3, <3>1, <3>4, <3>5, <3>6 DEF ClientOK, Untaken
  <2> QED
    BY <2>2, <2>3
<1>13. /\ \A g \in Handlers : \A d : d = job'[g] => d = job[g] \/ CallAbout(d)'
       /\ \A w \in Clients : /\ <<"on_unpublish", w>> \in posts' => srs'[w] = "stopped"
                             /\ srs'[w] = "publishing" => HasOpen(w)'
  BY <1>1, <1>2, <1>7, <1>10, <1>11 DEF FollowInv
<1> QED
  BY <1>1, <1>8, <1>9, <1>12, <1>13, FollowKeeps

\* The API dies: from then on the history says so.
LEMMA FollowRestart ==
  ASSUME TypeInv, FollowInv, ApiRestart
  PROVE  FollowInv'
<1>0. srs \in [Clients -> {"new", "asking", "refused", "publishing", "stopped"}]
  BY DEF TypeInv, TypeOK
<1>1. /\ srs' = [u \in Clients |-> IF srs[u] = "asking" THEN "refused" ELSE srs[u]]
      /\ job' = [h \in Handlers |-> Idle] /\ posts' = {} /\ "api" \in trouble'
      /\ UNCHANGED sessions
  BY DEF ApiRestart
<1>2. \A w : HasOpen(w)' = HasOpen(w)
  BY <1>1, SameSessions
<1>3. CallAbout(Idle)'
  BY DEF CallAbout, Idle, KeySteps, PublishSteps, TeardownSteps
<1>4. Numbered' /\ Advance
  BY <1>1, <1>2, SameSessions DEF FollowInv, Advance, sessions
<1>5. /\ \A g \in Handlers : \A d : d = job'[g] => d = job[g] \/ CallAbout(d)'
      /\ \A w \in Clients : /\ <<"on_unpublish", w>> \in posts' => srs'[w] = "stopped"
                            /\ srs'[w] = "publishing" => HasOpen(w)'
  BY <1>0, <1>1, <1>2, <1>3 DEF FollowInv
<1> QED
  BY <1>1, <1>4, <1>5, FollowKeeps

\* A step of a call that leaves the sessions and SRS alone.
LEMMA FollowSteps ==
  ASSUME TypeInv, FollowInv, NEW h \in Handlers, Step(h)
  PROVE  FollowInv'
<1> USE DEF At, Goto, Done
<1>0. job[h] \in Calls  BY DEF TypeInv, CallsOK
<1>1. CASE \/ FindChannel(h) \/ Activate(h) \/ Announce(h) \/ FindRoom(h) \/ MakeRoom(h)
           \/ LastSession(h) \/ FindOnAir(h) \/ Deactivate(h) \/ AnnounceOff(h)
           \/ FindRows(h) \/ Provision(h) \/ Dedupe(h)
  <2>1. UNCHANGED <<world, sessions>> /\ trouble' = trouble
    BY <1>1 DEF FindChannel, Activate, Announce, FindRoom, MakeRoom, LastSession, FindOnAir,
                Deactivate, AnnounceOff, FindRows, Provision, Dedupe
  <2>2. ASSUME NEW c, job' = [job EXCEPT ![h] = c], Onward(job[h], c)
        PROVE  FollowInv'
    BY <2>1, <2>2, FollowOnward
  <2>3. ASSUME NEW S \in {PublishSteps, TeardownSteps, KeySteps}, job[h].step \in S,
               NEW t \in S,
               \/ job' = [job EXCEPT ![h].step = t]
               \/ \E r : job' = [job EXCEPT ![h].step = t, ![h].row = r]
               \/ \E s : job' = [job EXCEPT ![h].step = t, ![h].session = s]
               \/ \E D : job' = [job EXCEPT ![h].step = t, ![h].dupes = D]
        PROVE  FollowInv'
    <3>1. ASSUME NEW c, c.step = t, c.who = job[h].who, job' = [job EXCEPT ![h] = c]
          PROVE  FollowInv'
      <4>1. Onward(job[h], c)  BY <2>3, <3>1 DEF Onward
      <4> QED
        BY <2>2, <3>1, <4>1
    <3>2. CASE job' = [job EXCEPT ![h].step = t]
      <4>1. [job[h] EXCEPT !.step = t].step = t /\ [job[h] EXCEPT !.step = t].who = job[h].who
        BY <1>0 DEF Calls
      <4> QED
        BY <3>1, <3>2, <4>1
    <3>3. ASSUME NEW r, job' = [job EXCEPT ![h].step = t, ![h].row = r]  PROVE FollowInv'
      <4> DEFINE c == [job[h] EXCEPT !.step = t, !.row = r]
      <4>1. c.step = t /\ c.who = job[h].who  BY <1>0 DEF Calls
      <4>2. job' = [job EXCEPT ![h] = c]  BY <3>3
      <4> HIDE DEF c
      <4> QED
        BY <3>1, <4>1, <4>2
    <3>4. ASSUME NEW s, job' = [job EXCEPT ![h].step = t, ![h].session = s]  PROVE FollowInv'
      <4> DEFINE c == [job[h] EXCEPT !.step = t, !.session = s]
      <4>1. c.step = t /\ c.who = job[h].who  BY <1>0 DEF Calls
      <4>2. job' = [job EXCEPT ![h] = c]  BY <3>4
      <4> HIDE DEF c
      <4> QED
        BY <3>1, <4>1, <4>2
    <3>5. ASSUME NEW D, job' = [job EXCEPT ![h].step = t, ![h].dupes = D]  PROVE FollowInv'
      <4> DEFINE c == [job[h] EXCEPT !.step = t, !.dupes = D]
      <4>1. c.step = t /\ c.who = job[h].who  BY <1>0 DEF Calls
      <4>2. job' = [job EXCEPT ![h] = c]  BY <3>5
      <4> HIDE DEF c
      <4> QED
        BY <3>1, <4>1, <4>2
    <3> QED
      BY <2>3, <3>2, <3>3, <3>4, <3>5
  <2>4. ASSUME job' = [job EXCEPT ![h] = Idle], job[h].step \in TeardownSteps \cup KeySteps
        PROVE  FollowInv'
    <3>1. Onward(job[h], Idle)  BY <2>4 DEF Onward
    <3> QED
      BY <2>2, <2>4, <3>1
  <2>5. ASSUME FindChannel(h) \/ Activate(h) \/ Announce(h) \/ FindRoom(h) \/ MakeRoom(h)
        PROVE  FollowInv'
    <3>1. CASE FindChannel(h)  BY <2>3, <3>1 DEF FindChannel, PublishSteps
    <3>2. CASE Activate(h)  BY <2>3, <3>2 DEF Activate, PublishSteps
    <3>3. CASE Announce(h)  BY <2>3, <3>3 DEF Announce, PublishSteps
    <3>4. CASE FindRoom(h)  BY <2>3, <3>4 DEF FindRoom, PublishSteps
    <3>5. CASE MakeRoom(h)  BY <2>3, <3>5 DEF MakeRoom, PublishSteps
    <3> QED  BY <2>5, <3>1, <3>2, <3>3, <3>4, <3>5
  <2>6. ASSUME LastSession(h) \/ FindOnAir(h) \/ Deactivate(h) \/ AnnounceOff(h)
        PROVE  FollowInv'
    BY <2>3, <2>4, <2>6 DEF LastSession, FindOnAir, Deactivate, AnnounceOff, TeardownSteps
  <2>7. ASSUME FindRows(h) \/ Provision(h)  PROVE FollowInv'
    BY <2>3, <2>4, <2>7 DEF FindRows, Provision, KeySteps
  <2>8. ASSUME Dedupe(h)  PROVE FollowInv'
    <3>1. CASE job' = [job EXCEPT ![h] = Idle]
      BY <2>4, <2>8, <3>1 DEF Dedupe, KeySteps
    <3>2. ASSUME NEW r, job' = [job EXCEPT ![h].dupes = @ \ {r}]  PROVE FollowInv'
      <4> PICK D : D = job[h].dupes \ {r}  OBVIOUS
      <4> DEFINE c == [job[h] EXCEPT !.dupes = D]
      <4>1. c.step = job[h].step /\ c.who = job[h].who  BY <1>0 DEF Calls
      <4>2. job' = [job EXCEPT ![h] = c]  BY <3>2
      <4> HIDE DEF c
      <4>3. Onward(job[h], c)  BY <2>8, <4>1 DEF Onward, Dedupe, KeySteps
      <4> QED
        BY <2>2, <4>2, <4>3
    <3> QED
      BY <2>8, <3>1, <3>2 DEF Dedupe
  <2> QED
    BY <1>1, <2>5, <2>6, <2>7, <2>8
<1> QED
  BY <1>1, FollowOpenSession, FollowAnswer, FollowCloseSession DEF Step

LEMMA FollowInit == Init => FollowInv
<1> SUFFICES ASSUME Init  PROVE FollowInv
  OBVIOUS
<1>1. /\ publisher = [s \in Sessions |-> None] /\ ended = [s \in Sessions |-> 0]
      /\ posts = {} /\ srs = [u \in Clients |-> "new"] /\ job = [h \in Handlers |-> Idle]
      /\ None \notin Clients /\ MaxSessions \in Nat
  BY LiveAssumption DEF Init
<1>2. Numbered
  <2>1. 0 \in 0..MaxSessions /\ \A s \in Sessions : ~(s <= 0)
    BY <1>1 DEF Sessions
  <2> QED
    BY <1>1, <2>1 DEF Numbered
<1>3. \A u \in Clients : SessionsOf(u) = {} /\ ~HasOpen(u)
  BY <1>1 DEF SessionsOf, HasOpen
<1>4. \A h \in Handlers : CallAbout(job[h])
  BY <1>1 DEF CallAbout, Idle, KeySteps, PublishSteps, TeardownSteps
<1>5. \A u \in Clients : ClientOK(u)
  BY <1>1, <1>3 DEF ClientOK, Idle
<1> QED
  BY <1>1, <1>2, <1>4, <1>5 DEF FollowInv

LEMMA FollowNext ==
  ASSUME TypeInv, FollowInv, [Next]_vars
  PROVE  FollowInv'
<1>1. CASE UNCHANGED vars
  <2>1. UNCHANGED <<srs, posts, job, trouble, publisher, ended>>
    BY <1>1 DEF vars, world, sessions
  <2> QED
    BY <2>1 DEF FollowInv, Numbered, CallAbout, ClientOK, StageOK, Untaken, HasOpen, Open, SessionsOf
<1> QED
  BY <1>1, FollowSteps, FollowOnPublish, FollowOnUnpublish, FollowWorld, FollowStreamKeys, FollowRestart
     DEF Next, Callback

\* handleSrsOnForward (streaming-callbacks.ts:203) looks for the open session of what publishes:
\* it has one, however calls overlap, callbacks are repeated and the API dies; and while
\* neither of the last two happens no session stays open that nobody is to close.
THEOREM SessionsFollow == Spec => []SessionsFollowPublishers
<1>1. TypeInv /\ FollowInv => SessionsFollowPublishers
  <2> SUFFICES ASSUME TypeInv, FollowInv  PROVE SessionsFollowPublishers
    OBVIOUS
  <2>1. \A u \in Clients : srs[u] = "publishing" => Open \cap SessionsOf(u) # {}
    BY DEF FollowInv, HasOpen
  <2>2. ASSUME trouble \subseteq {"overlap"}, NEW s \in Open
        PROVE  \/ srs[publisher[s]] = "publishing"
               \/ <<"on_unpublish", publisher[s]>> \in posts
               \/ \E h \in Handlers : job[h].who = publisher[s]
    <3>1. publisher[s] \in Clients /\ s \in SessionsOf(publisher[s])
      BY <2>2 DEF Open, TypeInv, TypeOK, SessionsOf
    <3> QED
      BY <2>2, <3>1 DEF FollowInv, ClientOK, HasOpen
  <2> QED
    BY <2>1, <2>2 DEF SessionsFollowPublishers
<1> QED
  BY <1>1, TypeInit, TypeStep, FollowInit, FollowNext, PTL DEF Spec

-----------------------------------------------------------------------------
(* One chat room for a channel *)

\* While calls do not overlap, one runs at most, and a call that is to make a room knows of
\* a channel that has none.
RoomInv ==
    "overlap" \notin trouble =>
        /\ \A g, h \in Handlers : job[g] # Idle /\ job[h] # Idle => g = h
        /\ \A r \in Rows : rooms[r] <= 1
        /\ \A h \in Handlers : At(h, "makeRoom") => rooms[job[h].row] = 0

\* A step of handler h that makes no room.
LEMMA RoomKeeps ==
  ASSUME TypeInv, TypeInv', RoomInv, NEW h \in Handlers,
         \A g \in Handlers \ {h} : job'[g] = job[g],
         \A r \in Rows : rooms'[r] <= rooms[r],
         "overlap" \notin trouble' =>
             /\ "overlap" \notin trouble
             /\ job[h] # Idle \/ job'[h] = Idle \/ \A g \in Handlers \ {h} : job[g] = Idle,
         job'[h].step = "makeRoom" => rooms'[job'[h].row] = 0
  PROVE  RoomInv'
<1> SUFFICES ASSUME "overlap" \notin trouble'
             PROVE  /\ \A g, k \in Handlers : job'[g] # Idle /\ job'[k] # Idle => g = k
                    /\ \A r \in Rows : rooms'[r] <= 1
                    /\ \A g \in Handlers : job'[g].step = "makeRoom" => rooms'[job'[g].row] = 0
  BY DEF RoomInv, At
<1>1. \A r \in Rows : rooms[r] \in Nat /\ rooms'[r] \in Nat
  BY DEF TypeInv, TypeOK
<1>2. /\ \A g, k \in Handlers : job[g] # Idle /\ job[k] # Idle => g = k
      /\ \A r \in Rows : rooms[r] <= 1
      /\ \A g \in Handlers : job[g].step = "makeRoom" => rooms[job[g].row] = 0
  BY DEF RoomInv, At
<1>3. \A r \in Rows : rooms'[r] <= 1
  BY <1>1, <1>2
<1>4. ASSUME NEW g \in Handlers, job'[g].step = "makeRoom"  PROVE rooms'[job'[g].row] = 0
  <2>1. CASE g = h  BY <1>4, <2>1
  <2>2. CASE g # h
    <3>1. job'[g] = job[g] /\ job[g].row \in Rows /\ rooms[job[g].row] = 0
      BY <1>2, <1>4, <2>2 DEF TypeInv, CallsOK, CallOK
    <3> QED
      BY <1>1, <3>1
  <2> QED
    BY <2>1, <2>2
<1>5. \A g, k \in Handlers : job'[g] # Idle /\ job'[k] # Idle => g = k
  BY <1>2
<1> QED
  BY <1>3, <1>4, <1>5

LEMMA RoomCall ==
  ASSUME TypeInv, TypeInv', RoomInv, NEW h \in Handlers, NEW c, Begin(h, c),
         c.step # "makeRoom", rooms' = rooms
  PROVE  RoomInv'
<1>1. \A g \in Handlers : job'[g] = IF g = h THEN c ELSE job[g]
  BY DEF Begin, TypeInv, CallsOK
<1>2. \A r \in Rows : rooms'[r] <= rooms[r]
  BY DEF TypeInv, TypeOK
<1>3. "overlap" \notin trouble' =>
         "overlap" \notin trouble /\ \A g \in Handlers \ {h} : job[g] = Idle
  BY DEF Begin
<1> QED
  BY <1>1, <1>2, <1>3, RoomKeeps

\* The steps of a call.
LEMMA RoomSteps ==
  ASSUME TypeInv, TypeInv', RoomInv, NEW h \in Handlers, Step(h)
  PROVE  RoomInv'
<1> USE DEF At, Goto, Done
<1>0. /\ job \in [Handlers -> Calls] /\ job[h] \in Calls /\ CallOK(job[h])
      /\ rooms \in [Rows -> Nat] /\ Idle.step = "idle" /\ \A r \in Rows : rooms[r] <= rooms[r]
  BY DEF TypeInv, CallsOK, TypeOK, Idle
<1>1. job[h] # Idle /\ trouble' = trouble
  BY <1>0 DEF Step, OpenSession, FindChannel, Activate, Announce, FindRoom, MakeRoom, Answer,
              CloseSession, LastSession, FindOnAir, Deactivate, AnnounceOff, FindRows, Provision,
              Dedupe
<1>2. \A g \in Handlers \ {h} : job'[g] = job[g]
  BY <1>0 DEF Step, OpenSession, FindChannel, Activate, Announce, FindRoom, MakeRoom, Answer,
              CloseSession, LastSession, FindOnAir, Deactivate, AnnounceOff, FindRows, Provision,
              Dedupe
<1>3. CASE MakeRoom(h)
  <2> PICK r \in Rows : r = job[h].row
    BY <1>0, <1>3 DEF MakeRoom, CallOK
  <2>1. \A q \in Rows : rooms'[q] = IF q = r /\ r \in ChannelRows THEN rooms[r] + 1 ELSE rooms[q]
    BY <1>0, <1>3 DEF MakeRoom
  <2>2. job'[h].step = "answer"
    BY <1>0, <1>3 DEF MakeRoom, Calls
  <2> SUFFICES ASSUME "overlap" \notin trouble  PROVE RoomInv'
    BY <1>1 DEF RoomInv
  <2>3. /\ \A g, k \in Handlers : job[g] # Idle /\ job[k] # Idle => g = k
        /\ \A q \in Rows : rooms[q] <= 1
        /\ rooms[r] = 0
    BY <1>3 DEF RoomInv, MakeRoom
  <2>4. \A q \in Rows : rooms'[q] <= 1
    BY <1>0, <2>1, <2>3
  <2>5. \A g \in Handlers : job'[g] # Idle => g = h
    BY <1>1, <1>2, <2>3
  <2>6. \A g \in Handlers : job'[g].step # "makeRoom"
    BY <1>0, <2>2, <2>5
  <2> QED
    BY <2>4, <2>5, <2>6 DEF RoomInv
<1>4. CASE FindRoom(h)
  <2>1. rooms' = rooms /\ job' = [job EXCEPT ![h].step = IF rooms[job[h].row] = 0
                                                        THEN "makeRoom" ELSE "answer"]
    BY <1>4 DEF FindRoom
  <2>2. job'[h].step = "makeRoom" => rooms'[job'[h].row] = 0
    BY <1>0, <2>1 DEF Calls
  <2> QED
    BY <1>0, <1>1, <1>2, <2>1, <2>2, RoomKeeps
<1>5. CASE Dedupe(h)
  <2>1. \A q \in Rows : rooms'[q] <= rooms[q]
    BY <1>0, <1>5 DEF Dedupe, channels
  <2>2. job'[h].step # "makeRoom"
    BY <1>0, <1>5 DEF Dedupe, Calls
  <2> QED
    BY <1>1, <1>2, <2>1, <2>2, RoomKeeps
<1>6. CASE \/ OpenSession(h) \/ FindChannel(h) \/ Activate(h) \/ Announce(h) \/ Answer(h)
           \/ CloseSession(h) \/ LastSession(h) \/ FindOnAir(h)
           \/ Deactivate(h) \/ AnnounceOff(h) \/ FindRows(h) \/ Provision(h)
  <2>1. rooms' = rooms
    BY <1>6 DEF OpenSession, FindChannel, Activate, Announce, Answer,
                CloseSession, LastSession, FindOnAir, Deactivate, AnnounceOff, FindRows, Provision
  <2>2. CASE Announce(h) \/ Answer(h) \/ Deactivate(h) \/ AnnounceOff(h) \/ Provision(h)
    <3>1. job'[h].step # "makeRoom"
      BY <1>0, <2>2 DEF Announce, Answer, Deactivate, AnnounceOff, Provision, Calls
    <3> QED
      BY <1>0, <1>1, <1>2, <2>1, <3>1, RoomKeeps
  <2>3. CASE OpenSession(h) \/ FindChannel(h) \/ Activate(h) \/ CloseSession(h)
    <3>1. job'[h].step # "makeRoom"
      BY <1>0, <2>3 DEF OpenSession, FindChannel, Activate, CloseSession, Calls
    <3> QED
      BY <1>0, <1>1, <1>2, <2>1, <3>1, RoomKeeps
  <2>4. CASE LastSession(h) \/ FindOnAir(h) \/ FindRows(h)
    <3>1. job'[h].step # "makeRoom"
      BY <1>0, <2>4 DEF LastSession, FindOnAir, FindRows, Calls
    <3> QED
      BY <1>0, <1>1, <1>2, <2>1, <3>1, RoomKeeps
  <2> QED
    BY <1>6, <2>2, <2>3, <2>4
<1> QED
  BY <1>3, <1>4, <1>5, <1>6 DEF Step

\* Callbacks and calls that begin, and what clients, keys and faults do.
LEMMA RoomNext ==
  ASSUME TypeInv, TypeInv', RoomInv, [Next]_vars
  PROVE  RoomInv'
<1>0. Idle.step = "idle" /\ Idle \in Calls /\ Handlers # {}
  BY IdleOK, LiveAssumption DEF CallOK, Idle
<1>1. ASSUME NEW h \in Handlers, NEW u \in Clients, OnPublish(h, u)  PROVE RoomInv'
  <2>1. CASE Begin(h, [Idle EXCEPT !.step = "openSession", !.who = u])
    <3> DEFINE c == [Idle EXCEPT !.step = "openSession", !.who = u]
    <3>1. c.step # "makeRoom"  BY <1>0 DEF Calls
    <3>2. Begin(h, c) /\ rooms' = rooms  BY <1>1, <2>1 DEF OnPublish
    <3> HIDE DEF c
    <3> QED
      BY <3>1, <3>2, RoomCall
  <2>2. CASE UNCHANGED <<job, trouble>>
    BY <1>1, <2>2 DEF OnPublish, RoomInv, At
  <2> QED
    BY <1>1, <2>1, <2>2 DEF OnPublish
<1>2. ASSUME NEW h \in Handlers, NEW u \in Clients, OnUnpublish(h, u)  PROVE RoomInv'
  <2>1. ASSUME NEW s, Begin(h, [Idle EXCEPT !.step = "closeSession", !.who = u, !.session = s])
        PROVE  RoomInv'
    <3> DEFINE c == [Idle EXCEPT !.step = "closeSession", !.who = u, !.session = s]
    <3>1. c.step # "makeRoom"  BY <1>0 DEF Calls
    <3>2. Begin(h, c) /\ rooms' = rooms  BY <1>2, <2>1 DEF OnUnpublish
    <3> HIDE DEF c
    <3> QED
      BY <3>1, <3>2, RoomCall
  <2>2. ASSUME Begin(h, [Idle EXCEPT !.step = "lastSession", !.who = u])  PROVE RoomInv'
    <3> DEFINE c == [Idle EXCEPT !.step = "lastSession", !.who = u]
    <3>1. c.step # "makeRoom"  BY <1>0 DEF Calls
    <3>2. Begin(h, c) /\ rooms' = rooms  BY <1>2, <2>2 DEF OnUnpublish
    <3> HIDE DEF c
    <3> QED
      BY <3>1, <3>2, RoomCall
  <2> QED
    BY <1>2, <2>1, <2>2 DEF OnUnpublish
<1>3. ASSUME NEW h \in Handlers, NEW k \in Keys, CreateStreamKey(h, k)  PROVE RoomInv'
  <2> DEFINE c == [Idle EXCEPT !.step = "findRows", !.who = k]
  <2>1. c.step # "makeRoom"  BY <1>0 DEF Calls
  <2>2. Begin(h, c) /\ rooms' = rooms  BY <1>3 DEF CreateStreamKey
  <2> HIDE DEF c
  <2> QED
    BY <2>1, <2>2, RoomCall
<1>4. ASSUME ApiRestart  PROVE RoomInv'
  <2>1. /\ \A h \in Handlers : job'[h] = Idle
        /\ rooms' = rooms
        /\ "overlap" \notin trouble' => "overlap" \notin trouble
    BY <1>4 DEF ApiRestart
  <2> QED
    BY <1>0, <2>1 DEF RoomInv, At
<1>5. ASSUME UNCHANGED <<job, rooms>>, trouble \subseteq trouble'  PROVE RoomInv'
  BY <1>5 DEF RoomInv, At
<1>6. ASSUME NEW u \in Clients, Connect(u) \/ Disconnect(u) \/ RetryPublish(u)
      PROVE  UNCHANGED <<job, rooms>> /\ trouble \subseteq trouble'
  BY <1>6 DEF Connect, Disconnect, RetryPublish
<1>7. ASSUME NEW k \in Keys, RevokeStreamKey(k)
      PROVE  UNCHANGED <<job, rooms>> /\ trouble \subseteq trouble'
  BY <1>7 DEF RevokeStreamKey
<1>8. UNCHANGED vars => UNCHANGED <<job, rooms>> /\ trouble \subseteq trouble'
  BY DEF vars
<1> QED
  BY <1>1, <1>2, <1>3, <1>4, <1>5, <1>6, <1>7, <1>8, RoomSteps DEF Next, Callback

LEMMA RoomInit == Init => RoomInv
BY DEF Init, RoomInv, At, Idle

\* ensureChannelRoom (chat.ts:210) looks for an open room before it makes one, in separate
\* statements: a channel has one room at most as long as calls do not overlap, whatever
\* callbacks are repeated and wherever the API dies.
THEOREM OneRoom == Spec => []RoomReused
<1>1. RoomInv => RoomReused
  BY DEF RoomInv, RoomReused
<1>2. TypeInv /\ RoomInv /\ [Next]_vars => TypeInv' /\ RoomInv'
  BY TypeStep, RoomNext
<1> QED
  BY <1>1, <1>2, TypeInit, RoomInit, PTL DEF Spec

-----------------------------------------------------------------------------
(* A channel follows the stream that is on it *)

\* The channel is on though its session has ended, and the call is on its way to it.
Stale(r, c) ==
    /\ onAir[r] /\ current[r] # None /\ current[r] \notin Open
    /\ \/ c.step = "lastSession" /\ publisher[current[r]] = c.who
       \/ c.step = "findOnAir" /\ current[r] = c.session
       \/ c.step = "deactivate" /\ c.row = r

\* A channel follows its stream and is announced so, but for what the call is about to do.
RowOK(r, c) ==
    /\ (onAir[r] <=> current[r] \in Open) \/ Stale(r, c)
    /\ (announced[r] <=> onAir[r]) \/ (c.step \in {"announce", "announceOff"} /\ c.row = r)

\* What a call found out is still so.
CallRows(c) ==
    /\ c.step \in {"findChannel", "activate"} =>
          c.session \in Open /\ \A r \in Rows : current[r] # c.session
    /\ c.step = "activate" => c.row \in ChannelRows \cup {None}
    /\ c.step = "announce" => c.row \in ChannelRows /\ onAir[c.row]
    /\ c.step = "findOnAir" => c.session \notin Open
    /\ c.step = "deactivate" => current[c.row] \notin Open
    /\ c.step = "announceOff" => ~onAir[c.row]

\* A session is on one channel at most, and was opened before.
Placed ==
    /\ \A r \in Rows : current[r] # None => publisher[current[r]] # None
    /\ \A q, r \in Rows : current[q] = current[r] /\ current[q] # None => q = r

OnlyCall(h) == \A g \in Handlers \ {h} : job[g] = Idle

ChannelInv ==
    trouble = {} =>
        /\ Placed
        /\ \A h \in Handlers : CallRows(job[h])
        /\ \A h \in Handlers : OnlyCall(h) => \A r \in ChannelRows : RowOK(r, job[h])

\* A step of the only call there is.
LEMMA ChannelKeeps ==
  ASSUME TypeInv, ChannelInv, NEW h \in Handlers, NEW c, job' = [job EXCEPT ![h] = c],
         trouble' = {} => trouble = {} /\ OnlyCall(h),
         trouble = {} /\ OnlyCall(h) =>
             /\ Placed' /\ CallRows(c)'
             /\ \A r \in Rows : r \in ChannelRows' => RowOK(r, c)'
  PROVE  ChannelInv'
<1>1. \A g \in Handlers : job'[g] = IF g = h THEN c ELSE job[g]
  BY DEF TypeInv, CallsOK
<1> SUFFICES ASSUME trouble' = {}
             PROVE  /\ Placed'
                    /\ \A g \in Handlers : CallRows(job[g])'
                    /\ \A g \in Handlers : OnlyCall(g)' =>
                          \A r \in ChannelRows' : RowOK(r, job[g])'
  BY DEF ChannelInv
<1>2. /\ Placed' /\ CallRows(c)' /\ OnlyCall(h)
      /\ \A r \in Rows : r \in ChannelRows' => RowOK(r, c)'
  OBVIOUS
<1>3. ChannelRows' \subseteq Rows /\ Idle.step = "idle"
  BY DEF ChannelRows, Idle
<1>4. ASSUME NEW g \in Handlers  PROVE CallRows(job[g])'
  <2>1. CASE g = h  BY <1>1, <1>2, <2>1 DEF CallRows
  <2>2. CASE g # h
    <3>1. job'[g] = Idle  BY <1>1, <1>2, <2>2 DEF OnlyCall
    <3> QED
      BY <1>3, <3>1 DEF CallRows
  <2> QED
    BY <2>1, <2>2
<1>5. ASSUME NEW g \in Handlers, OnlyCall(g)', NEW r \in ChannelRows'  PROVE RowOK(r, job[g])'
  <2>1. RowOK(r, c)'  BY <1>2, <1>3
  <2>2. job'[g] = c
    BY <1>1, <1>2, <1>5 DEF OnlyCall
  <2> QED
    BY <2>1, <2>2 DEF RowOK, Stale
<1> QED
  BY <1>2, <1>4, <1>5

\* A call that runs is the only one.
LEMMA Alone ==
  ASSUME RoomInv, trouble = {}, NEW h \in Handlers, job[h] # Idle
  PROVE  OnlyCall(h)
BY DEF RoomInv, OnlyCall

\* Nothing about the channels and the sessions changes.
LEMMA ChannelQuiet ==
  ASSUME TypeInv, ChannelInv, UNCHANGED <<publisher, ended, name, onAir, current, announced>>,
         NEW h \in Handlers, NEW c, job' = [job EXCEPT ![h] = c],
         trouble' = {} => trouble = {} /\ OnlyCall(h),
         trouble = {} /\ CallRows(job[h]) =>
             CallRows(c) /\ \A r \in ChannelRows : RowOK(r, job[h]) => RowOK(r, c)
  PROVE  ChannelInv'
<1>1. Open' = Open /\ ChannelRows' = ChannelRows
  BY DEF Open, ChannelRows
<1>2. CallRows(c)' <=> CallRows(c)
  BY <1>1 DEF CallRows
<1>3. \A r : RowOK(r, c)' <=> RowOK(r, c)
  BY <1>1 DEF RowOK, Stale
<1>4. Placed' <=> Placed
  BY DEF Placed
<1> QED
  BY <1>1, <1>2, <1>3, <1>4, ChannelKeeps DEF ChannelInv

\* Steps at which a call has not got hold of a channel, or has let go of it.
Loose == Steps \ {"findChannel", "activate", "announce", "lastSession", "findOnAir",
                  "deactivate", "announceOff"}

LEMMA LooseRows ==
  ASSUME NEW b, NEW c, b.step \in Loose, c.step \in Loose
  PROVE  CallRows(c) /\ \A r : RowOK(r, b) => RowOK(r, c)
BY DEF Loose, CallRows, RowOK, Stale

\* A call begins; it has got hold of nothing yet.
LEMMA ChannelBegins ==
  ASSUME TypeInv, ChannelInv, UNCHANGED <<publisher, ended, name, onAir, current, announced>>,
         NEW h \in Handlers, NEW c, Begin(h, c), c.step \in Loose \cup {"lastSession"}
  PROVE  ChannelInv'
<1>1. job' = [job EXCEPT ![h] = c] /\ job[h] = Idle
      /\ (trouble' = {} => trouble = {} /\ OnlyCall(h))
  BY DEF Begin, OnlyCall
<1>2. Idle.step \in Loose
  BY DEF Idle, Loose, Steps
<1>3. CallRows(c) /\ \A r : RowOK(r, job[h]) => RowOK(r, c)
  BY <1>1, <1>2 DEF Loose, CallRows, RowOK, Stale
<1> QED
  BY <1>1, <1>3, ChannelQuiet

\* A step of a call that runs, given what the invariant says of it.
LEMMA ChannelStep ==
  ASSUME TypeInv, RoomInv, ChannelInv, NEW h \in Handlers, job[h] # Idle, trouble' = trouble,
         NEW c, job' = [job EXCEPT ![h] = c],
         /\ trouble = {} /\ Placed /\ CallRows(job[h])
         /\ \A r \in Rows : r \in ChannelRows => RowOK(r, job[h])
         => /\ Placed' /\ CallRows(c)'
            /\ \A r \in Rows : r \in ChannelRows' => RowOK(r, c)'
  PROVE  ChannelInv'
<1>1. trouble = {} => OnlyCall(h)
  BY Alone
<1>2. trouble = {} /\ OnlyCall(h) =>
          /\ Placed /\ CallRows(job[h])
          /\ \A r \in Rows : r \in ChannelRows => RowOK(r, job[h])
  BY DEF ChannelInv
<1> QED
  BY <1>1, <1>2, ChannelKeeps

\* The steps that leave channels and sessions as they are, and neither get hold of a
\* channel nor let go of one.
LEMMA ChannelLoose ==
  ASSUME TypeInv, RoomInv, ChannelInv, NEW h \in Handlers, job[h].step \in Loose \ {"idle"},
         UNCHANGED <<publisher, ended, name, onAir, current, announced, trouble>>,
         NEW c, job' = [job EXCEPT ![h] = c], c.step \in Loose
  PROVE  ChannelInv'
<1>1. job[h] # Idle  BY DEF Idle
<1>2. trouble = {} => OnlyCall(h)  BY <1>1, Alone
<1>3. CallRows(c) /\ \A r : RowOK(r, job[h]) => RowOK(r, c)  BY LooseRows
<1> QED
  BY <1>2, <1>3, ChannelQuiet

\* openSession: no channel is on a session that was not opened before.
LEMMA ChannelOpenSession ==
  ASSUME TypeInv, FollowInv, RoomInv, ChannelInv, NEW h \in Handlers, OpenSession(h)
  PROVE  ChannelInv'
<1>1. PICK s \in Sessions, c \in Calls :
          /\ publisher[s] = None /\ Open' = Open \cup {s}
          /\ job' = [job EXCEPT ![h] = c] /\ c.step = "findChannel" /\ c.session = s
          /\ \A x \in Sessions : publisher[x] # None => publisher'[x] # None
          /\ job[h].step = "openSession"
  BY NextSession
<1>2. UNCHANGED <<name, onAir, current, announced, trouble>>
  BY DEF OpenSession, channels
<1>3. ChannelRows' = ChannelRows /\ job[h] # Idle /\ current \in [Rows -> Sessions \cup {None}]
  BY <1>1, <1>2 DEF ChannelRows, Idle, TypeInv, TypeOK
<1>4. ASSUME Placed, \A r \in Rows : r \in ChannelRows => RowOK(r, job[h])
      PROVE  /\ Placed' /\ CallRows(c)'
             /\ \A r \in Rows : r \in ChannelRows' => RowOK(r, c)'
  <2>1. \A r \in Rows : current[r] # s
    BY <1>1, <1>4, LiveAssumption DEF Placed
  <2>2. Placed'
    BY <1>1, <1>2, <1>3, <1>4 DEF Placed
  <2>3. CallRows(c)'
    BY <1>1, <1>2, <2>1 DEF CallRows
  <2>4. ASSUME NEW r \in Rows, r \in ChannelRows'  PROVE RowOK(r, c)'
    <3>1. RowOK(r, job[h])  BY <1>3, <1>4, <2>4
    <3> QED
      BY <1>1, <1>2, <2>1, <3>1 DEF RowOK, Stale
  <2> QED
    BY <2>2, <2>3, <2>4
<1> QED
  BY <1>1, <1>2, <1>3, <1>4, ChannelStep

\* activateLiveChannel: what it finds is still there when it updates.
LEMMA ChannelFindChannel ==
  ASSUME TypeInv, RoomInv, ChannelInv, NEW h \in Handlers, FindChannel(h)
  PROVE  ChannelInv'
<1>1. PICK r \in ChannelRows \cup {None} :
          job' = [job EXCEPT ![h].step = "activate", ![h].row = r]
  BY DEF FindChannel
<1> PICK c : c = [job[h] EXCEPT !.step = "activate", !.row = r]
  OBVIOUS
<1>2. /\ job[h].step = "findChannel" /\ job \in [Handlers -> Calls] /\ job[h] \in Calls
      /\ UNCHANGED <<publisher, ended, name, onAir, current, announced, trouble>>
  BY DEF FindChannel, At, sessions, channels, TypeInv, CallsOK
<1>3. job' = [job EXCEPT ![h] = c] /\ job[h] # Idle
  <2>1. job' = [job EXCEPT ![h] = c]  BY <1>1, <1>2
  <2>2. job[h] # Idle  BY <1>2 DEF Idle
  <2> QED
    BY <2>1, <2>2
<1>4. c.step = "activate" /\ c.row = r /\ c.session = job[h].session
  BY <1>2 DEF Calls
<1>5. trouble = {} => OnlyCall(h)  BY <1>3, Alone
<1>6. CallRows(job[h]) => CallRows(c) /\ \A q \in ChannelRows : RowOK(q, job[h]) => RowOK(q, c)
  BY <1>2, <1>4 DEF CallRows, RowOK, Stale
<1> QED
  BY <1>2, <1>3, <1>5, <1>6, ChannelQuiet

\* activateLiveChannel: the channel is on for the session, which is open.
LEMMA ChannelActivate ==
  ASSUME TypeInv, RoomInv, ChannelInv, NEW h \in Handlers, Activate(h)
  PROVE  ChannelInv'
<1> PICK s, r : s = job[h].session
                /\ r = IF job[h].row = None THEN made + 1 ELSE job[h].row
  OBVIOUS
<1>0. /\ job[h].step = "activate" /\ r \in Rows /\ s \in Sessions
      /\ job \in [Handlers -> Calls] /\ job[h] \in Calls /\ None \notin Sessions
      /\ onAir \in [Rows -> BOOLEAN] /\ current \in [Rows -> Sessions \cup {None}]
      /\ UNCHANGED <<publisher, ended, announced, trouble>>
  BY LiveAssumption DEF Activate, At, sessions, TypeInv, TypeOK, CallsOK, CallOK
<1>1. Open' = Open /\ job[h] # Idle
  BY <1>0 DEF Open, Idle
<1>2. CASE /\ name' = [name EXCEPT ![r] = StreamOf[job[h].who]]
           /\ onAir' = [onAir EXCEPT ![r] = TRUE]
           /\ current' = [current EXCEPT ![r] = s]
           /\ job' = [job EXCEPT ![h].step = "announce", ![h].row = r]
  <2> PICK c : c = [job[h] EXCEPT !.step = "announce", !.row = r]
    OBVIOUS
  <2>1. job' = [job EXCEPT ![h] = c]  BY <1>0, <1>2
  <2>2. c.step = "announce" /\ c.row = r  BY <1>0 DEF Calls
  <2>3. r \in ChannelRows' /\ ChannelRows' \subseteq ChannelRows \cup {r}
    <3>1. StreamOf[job[h].who] \in Names /\ None \notin Names /\ name \in [Rows -> Names \cup {None}]
      BY <1>0, LiveAssumption DEF Names, Streams, TypeInv, TypeOK, CallsOK, CallOK
    <3> QED
      BY <1>0, <1>2, <3>1 DEF ChannelRows
  <2>4. ASSUME Placed, CallRows(job[h]), \A q \in Rows : q \in ChannelRows => RowOK(q, job[h])
        PROVE  /\ Placed' /\ CallRows(c)'
               /\ \A q \in Rows : q \in ChannelRows' => RowOK(q, c)'
    <3>1. s \in Open /\ \A q \in Rows : current[q] # s
      BY <1>0, <2>4 DEF CallRows
    <3>2. \A q \in Rows : /\ current'[q] = IF q = r THEN s ELSE current[q]
                          /\ onAir'[q] = IF q = r THEN TRUE ELSE onAir[q]
      BY <1>0, <1>2
    <3>3. Placed'
      <4>1. ASSUME NEW q \in Rows, current'[q] # None  PROVE publisher'[current'[q]] # None
        BY <1>0, <2>4, <3>1, <3>2, <4>1 DEF Placed, Open
      <4>2. ASSUME NEW p \in Rows, NEW q \in Rows, current'[p] = current'[q], current'[q] # None
            PROVE  p = q
        BY <2>4, <3>1, <3>2, <4>2 DEF Placed
      <4> QED
        BY <4>1, <4>2 DEF Placed
    <3>4. CallRows(c)'
      BY <1>0, <2>2, <2>3, <3>2 DEF CallRows
    <3>5. ASSUME NEW q \in Rows, q \in ChannelRows'  PROVE RowOK(q, c)'
      <4>1. CASE q = r
        BY <1>0, <1>1, <2>2, <3>1, <3>2, <4>1 DEF RowOK
      <4>2. CASE q # r
        <5>1. RowOK(q, job[h])  BY <2>3, <2>4, <3>5, <4>2
        <5> QED
          BY <1>0, <1>1, <2>2, <3>2, <4>2, <5>1 DEF RowOK, Stale
      <4> QED
        BY <4>1, <4>2
    <3> QED
      BY <3>3, <3>4, <3>5
  <2> QED
    BY <1>0, <1>1, <2>1, <2>4, ChannelStep
<1>3. CASE job' = [job EXCEPT ![h].step = "answer"] /\ UNCHANGED channels
  <2> PICK c : c = [job[h] EXCEPT !.step = "answer"]
    OBVIOUS
  <2>1. job' = [job EXCEPT ![h] = c] /\ UNCHANGED <<name, onAir, current>>
    BY <1>0, <1>3 DEF channels
  <2>2. c.step = "answer"  BY <1>0 DEF Calls
  <2>3. trouble = {} => OnlyCall(h)  BY <1>1, Alone
  <2>4. CallRows(c) /\ \A q \in ChannelRows : RowOK(q, job[h]) => RowOK(q, c)
    BY <1>0, <2>2 DEF CallRows, RowOK, Stale
  <2> QED
    BY <1>0, <2>1, <2>3, <2>4, ChannelQuiet
<1>4. CASE /\ job[h].row # None /\ r \notin ChannelRows
           /\ job' = [job EXCEPT ![h].step = "announce"] /\ UNCHANGED channels
  <2> PICK c : c = [job[h] EXCEPT !.step = "announce"]
    OBVIOUS
  <2>1. job' = [job EXCEPT ![h] = c] /\ UNCHANGED <<name, onAir, current>>
    BY <1>0, <1>4 DEF channels
  <2>2. ~CallRows(job[h])  BY <1>0, <1>4 DEF CallRows
  <2>3. trouble = {} => OnlyCall(h)  BY <1>1, Alone
  <2> QED
    BY <1>0, <2>1, <2>2, <2>3, ChannelQuiet
<1> QED
  BY <1>2, <1>3, <1>4 DEF Activate

\* notifyChannelLiveState: the event says what the row says.
LEMMA ChannelAnnounce ==
  ASSUME TypeInv, RoomInv, ChannelInv, NEW h \in Handlers, Announce(h) \/ AnnounceOff(h)
  PROVE  ChannelInv'
<1> PICK r : r = job[h].row
  OBVIOUS
<1>0. /\ job[h].step \in {"announce", "announceOff"} /\ job \in [Handlers -> Calls]
      /\ job[h] \in Calls /\ job[h] # Idle /\ r \in Rows
      /\ announced \in [Rows -> BOOLEAN]
      /\ UNCHANGED <<publisher, ended, name, onAir, current, trouble>>
  BY DEF Announce, AnnounceOff, Goto, Done, At, sessions, channels, Idle,
         TypeInv, TypeOK, CallsOK, CallOK
<1>1. Open' = Open /\ ChannelRows' = ChannelRows
  BY <1>0 DEF Open, ChannelRows
<1>2. PICK c : job' = [job EXCEPT ![h] = c] /\ c.step \in {"findRoom", "idle"}
  <2>1. CASE Announce(h)
    <3>1. job' = [job EXCEPT ![h] = [job[h] EXCEPT !.step = "findRoom"]]
      BY <1>0, <2>1 DEF Announce, Goto
    <3>2. [job[h] EXCEPT !.step = "findRoom"].step = "findRoom"
      BY <1>0 DEF Calls
    <3> PICK c : c = [job[h] EXCEPT !.step = "findRoom"]
      OBVIOUS
    <3>3. job' = [job EXCEPT ![h] = c] /\ c.step \in {"findRoom", "idle"}
      BY <3>1, <3>2
    <3> QED
      BY <3>3
  <2>2. CASE AnnounceOff(h)
    <3>1. job' = [job EXCEPT ![h] = Idle]  BY <2>2 DEF AnnounceOff, Done
    <3>2. Idle.step = "idle"  BY DEF Idle
    <3> QED
      BY <3>1, <3>2
  <2> QED
    BY <2>1, <2>2
<1>3. \A q \in Rows : announced'[q] = IF q = r THEN job[h].step = "announce" /\ r \in ChannelRows
                                               ELSE announced[q]
  <2>1. CASE Announce(h)  BY <1>0, <2>1 DEF Announce, At
  <2>2. CASE AnnounceOff(h)  BY <1>0, <2>2 DEF AnnounceOff, At
  <2> QED
    BY <2>1, <2>2
<1>4. ASSUME Placed, CallRows(job[h]), \A q \in Rows : q \in ChannelRows => RowOK(q, job[h])
      PROVE  /\ Placed' /\ CallRows(c)'
             /\ \A q \in Rows : q \in ChannelRows' => RowOK(q, c)'
  <2>1. Placed'  BY <1>0, <1>4 DEF Placed
  <2>2. CallRows(c)'  BY <1>2 DEF CallRows
  <2>3. ASSUME NEW q \in Rows, q \in ChannelRows'  PROVE RowOK(q, c)'
    <3>1. RowOK(q, job[h])  BY <1>1, <1>4, <2>3
    <3>2. onAir'[q] <=> current'[q] \in Open'
      BY <1>0, <1>1, <3>1 DEF RowOK, Stale
    <3>3. q # r => (announced'[q] <=> onAir'[q])
      BY <1>0, <1>3, <3>1 DEF RowOK
    <3>4. q = r => (announced'[q] <=> onAir'[q])
      <4>1. job[h].step = "announce" => r \in ChannelRows /\ onAir[r]
        BY <1>4 DEF CallRows
      <4>2. job[h].step = "announceOff" => ~onAir[r]
        BY <1>4 DEF CallRows
      <4> QED
        BY <1>0, <1>3, <4>1, <4>2
    <3> QED
      BY <3>2, <3>3, <3>4 DEF RowOK
  <2> QED
    BY <2>1, <2>2, <2>3
<1> QED
  BY <1>0, <1>2, <1>4, ChannelStep

\* closeSession: the channel on the session that ends is stale until the call has seen to it.
LEMMA ChannelCloseSession ==
  ASSUME TypeInv, FollowInv, RoomInv, ChannelInv, NEW h \in Handlers, CloseSession(h)
  PROVE  ChannelInv'
<1> PICK s, e : s = job[h].session /\ e = 1 + Cardinality({x \in Sessions : ended[x] > 0})
  OBVIOUS
<1> PICK c : c = [job[h] EXCEPT !.step = "lastSession", !.session = None]
  OBVIOUS
<1>0. /\ job[h].step = "closeSession" /\ job \in [Handlers -> Calls] /\ job[h] \in Calls
      /\ s \in Sessions /\ ended \in [Sessions -> Nat]
      /\ job' = [job EXCEPT ![h] = c] /\ ended' = [ended EXCEPT ![s] = e]
      /\ UNCHANGED <<publisher, name, onAir, current, announced, trouble>>
  BY DEF CloseSession, At, channels, TypeInv, TypeOK, CallsOK, CallOK
<1>1. e \in Nat /\ e # 0  BY CountSessions
<1>2. Open' = Open \ {s} /\ ChannelRows' = ChannelRows
  BY <1>0, <1>1 DEF Open, ChannelRows
<1>3. c.step = "lastSession" /\ c.who = job[h].who /\ job[h] # Idle
  BY <1>0 DEF Calls, Idle
<1>4. publisher[s] = job[h].who /\ job[h].who # None /\ None \notin Sessions
  BY <1>0, LiveAssumption DEF FollowInv, CallAbout
<1>5. ASSUME Placed, \A q \in Rows : q \in ChannelRows => RowOK(q, job[h])
      PROVE  /\ Placed' /\ CallRows(c)'
             /\ \A q \in Rows : q \in ChannelRows' => RowOK(q, c)'
  <2>1. Placed'  BY <1>0, <1>5 DEF Placed
  <2>2. CallRows(c)'  BY <1>3 DEF CallRows
  <2>3. ASSUME NEW q \in Rows, q \in ChannelRows'  PROVE RowOK(q, c)'
    <3>1. RowOK(q, job[h])  BY <1>2, <1>5, <2>3
    <3>2. onAir[q] <=> current[q] \in Open
      BY <1>0, <3>1 DEF RowOK, Stale
    <3>3. announced'[q] <=> onAir'[q]
      BY <1>0, <3>1 DEF RowOK
    <3>4. CASE current[q] = s /\ onAir[q]
      <4>1. Stale(q, c)'
        BY <1>0, <1>2, <1>3, <1>4, <3>4 DEF Stale
      <4> QED
        BY <3>3, <4>1 DEF RowOK
    <3>5. CASE ~(current[q] = s /\ onAir[q])
      BY <1>0, <1>2, <3>2, <3>3, <3>5 DEF RowOK
    <3> QED
      BY <3>4, <3>5
  <2> QED
    BY <2>1, <2>2, <2>3
<1> QED
  BY <1>0, <1>3, <1>5, ChannelStep

\* teardownLiveChannel: a client has one session at most, which the query finds.
LEMMA ChannelLastSession ==
  ASSUME TypeInv, FollowInv, RoomInv, ChannelInv, NEW h \in Handlers, LastSession(h)
  PROVE  ChannelInv'
<1> PICK u : u = job[h].who
  OBVIOUS
<1>0. /\ job[h].step = "lastSession" /\ job \in [Handlers -> Calls] /\ job[h] \in Calls
      /\ current \in [Rows -> Sessions \cup {None}] /\ job[h] # Idle /\ None \notin Clients
      /\ UNCHANGED <<publisher, ended, name, onAir, current, announced, trouble>>
  BY LiveAssumption DEF LastSession, At, Done, sessions, channels, Idle, TypeInv, TypeOK, CallsOK
<1>1. trouble = {} => OnlyCall(h)  BY <1>0, Alone
<1>2. ASSUME trouble = {}
      PROVE  u \in Clients /\ ~HasOpen(u) /\ \A s, t \in SessionsOf(u) : s = t
  <2>1. u \in Clients /\ (trouble \subseteq {"overlap"} => ClientOK(u))
    BY <1>0 DEF FollowInv, CallAbout, TeardownSteps
  <2> QED
    BY <1>0, <1>2, <2>1 DEF ClientOK, StageOK, TeardownSteps
<1>3. ASSUME SessionsOf(u) = {}, Done(h)  PROVE ChannelInv'
  <2>1. job' = [job EXCEPT ![h] = Idle] /\ Idle.step = "idle"
    BY <1>3 DEF Done, Idle
  <2>2. ASSUME trouble = {}, NEW r \in ChannelRows, RowOK(r, job[h])  PROVE RowOK(r, Idle)
    <3>1. ~Stale(r, job[h])
      BY <1>0, <1>2, <1>3, <2>2 DEF Stale, SessionsOf, ChannelRows
    <3> QED
      BY <1>0, <2>2, <3>1 DEF RowOK
  <2>3. CallRows(Idle)  BY <2>1 DEF CallRows
  <2>4. trouble = {} /\ CallRows(job[h]) =>
            CallRows(Idle) /\ \A r \in ChannelRows : RowOK(r, job[h]) => RowOK(r, Idle)
    BY <2>2, <2>3
  <2> QED
    BY <1>0, <1>1, <2>1, <2>4, ChannelQuiet
<1>4. ASSUME NEW s \in SessionsOf(u),
             job' = [job EXCEPT ![h].step = "findOnAir", ![h].session = s]
      PROVE  ChannelInv'
  <2> PICK c : c = [job[h] EXCEPT !.step = "findOnAir", !.session = s]
    OBVIOUS
  <2>1. job' = [job EXCEPT ![h] = c]  BY <1>0, <1>4
  <2>2. c.step = "findOnAir" /\ c.session = s  BY <1>0 DEF Calls
  <2>3. ASSUME trouble = {}  PROVE CallRows(c)
    BY <1>2, <2>2, <2>3 DEF CallRows, HasOpen
  <2>4. ASSUME trouble = {}, NEW r \in ChannelRows, RowOK(r, job[h])  PROVE RowOK(r, c)
    <3>1. Stale(r, job[h]) => current[r] \in SessionsOf(u)
      BY <1>0 DEF Stale, SessionsOf, ChannelRows
    <3>2. Stale(r, job[h]) => Stale(r, c)
      BY <1>2, <2>2, <2>4, <3>1 DEF Stale
    <3> QED
      BY <1>0, <2>4, <3>2 DEF RowOK
  <2>5. trouble = {} /\ CallRows(job[h]) =>
            CallRows(c) /\ \A r \in ChannelRows : RowOK(r, job[h]) => RowOK(r, c)
    BY <2>3, <2>4
  <2> QED
    BY <1>0, <1>1, <2>1, <2>5, ChannelQuiet
<1> QED
  BY <1>3, <1>4 DEF LastSession

\* deactivateLiveChannel: one channel at most is on the session, and it is found.
LEMMA ChannelFindOnAir ==
  ASSUME TypeInv, RoomInv, ChannelInv, NEW h \in Handlers, FindOnAir(h)
  PROVE  ChannelInv'
<1> DEFINE mine == {r \in ChannelRows : onAir[r] /\ current[r] = job[h].session}
<1>0. /\ job[h].step = "findOnAir" /\ job \in [Handlers -> Calls] /\ job[h] \in Calls
      /\ job[h] # Idle /\ ChannelRows \subseteq Rows
      /\ UNCHANGED <<publisher, ended, name, onAir, current, announced, trouble>>
  BY DEF FindOnAir, At, Done, sessions, channels, Idle, TypeInv, CallsOK, ChannelRows
<1>1. trouble = {} => OnlyCall(h)  BY <1>0, Alone
<1>2. \A r \in ChannelRows : Stale(r, job[h]) => r \in mine
  BY <1>0 DEF Stale
<1>3. ASSUME mine = {}, Done(h)  PROVE ChannelInv'
  <2>1. job' = [job EXCEPT ![h] = Idle] /\ Idle.step = "idle"
    BY <1>3 DEF Done, Idle
  <2>2. ASSUME NEW r \in ChannelRows, RowOK(r, job[h])  PROVE RowOK(r, Idle)
    BY <1>0, <1>2, <1>3, <2>2 DEF RowOK
  <2>3. CallRows(Idle)  BY <2>1 DEF CallRows
  <2>4. trouble = {} /\ CallRows(job[h]) =>
            CallRows(Idle) /\ \A r \in ChannelRows : RowOK(r, job[h]) => RowOK(r, Idle)
    BY <2>2, <2>3
  <2> QED
    BY <1>0, <1>1, <2>1, <2>4, ChannelQuiet
<1>4. ASSUME NEW q \in mine, job' = [job EXCEPT ![h].step = "deactivate", ![h].row = q]
      PROVE  ChannelInv'
  <2> PICK c : c = [job[h] EXCEPT !.step = "deactivate", !.row = q]
    OBVIOUS
  <2>1. job' = [job EXCEPT ![h] = c]  BY <1>0, <1>4
  <2>2. c.step = "deactivate" /\ c.row = q  BY <1>0 DEF Calls
  <2>3. ASSUME CallRows(job[h])  PROVE CallRows(c)
    BY <1>0, <2>2, <2>3 DEF CallRows
  <2>4. ASSUME trouble = {}, NEW r \in ChannelRows, RowOK(r, job[h])  PROVE RowOK(r, c)
    <3>1. Placed  BY <2>4 DEF ChannelInv
    <3>2. Stale(r, job[h]) => r = q
      BY <1>0, <3>1 DEF Stale, Placed
    <3>3. Stale(r, job[h]) => Stale(r, c)
      BY <1>0, <2>2, <3>2 DEF Stale
    <3> QED
      BY <1>0, <2>4, <3>3 DEF RowOK
  <2>5. trouble = {} /\ CallRows(job[h]) =>
            CallRows(c) /\ \A r \in ChannelRows : RowOK(r, job[h]) => RowOK(r, c)
    BY <2>3, <2>4
  <2> QED
    BY <1>0, <1>1, <2>1, <2>5, ChannelQuiet
<1> QED
  BY <1>3, <1>4 DEF FindOnAir

\* The update by id: no publish came between, so that the session there is still the ended one.
LEMMA ChannelDeactivate ==
  ASSUME TypeInv, RoomInv, ChannelInv, NEW h \in Handlers, Deactivate(h)
  PROVE  ChannelInv'
<1> PICK r : r = job[h].row
  OBVIOUS
<1> PICK c : c = [job[h] EXCEPT !.step = "announceOff"]
  OBVIOUS
<1>0. /\ job[h].step = "deactivate" /\ job \in [Handlers -> Calls] /\ job[h] \in Calls
      /\ r \in Rows /\ onAir \in [Rows -> BOOLEAN] /\ onAir' = [onAir EXCEPT ![r] = FALSE]
      /\ UNCHANGED <<publisher, ended, name, current, announced, trouble>>
  BY DEF Deactivate, Goto, At, sessions, TypeInv, TypeOK, CallsOK, CallOK
<1>1. job' = [job EXCEPT ![h] = c]  BY DEF Deactivate, Goto
<1>2. c.step = "announceOff" /\ c.row = r /\ job[h] # Idle
  BY <1>0 DEF Calls, Idle
<1>3. Open' = Open /\ ChannelRows' = ChannelRows
      /\ \A q \in Rows : onAir'[q] = IF q = r THEN FALSE ELSE onAir[q]
  BY <1>0 DEF Open, ChannelRows
<1>4. ASSUME Placed, CallRows(job[h]), \A q \in Rows : q \in ChannelRows => RowOK(q, job[h])
      PROVE  /\ Placed' /\ CallRows(c)'
             /\ \A q \in Rows : q \in ChannelRows' => RowOK(q, c)'
  <2>1. Placed'  BY <1>0, <1>4 DEF Placed
  <2>2. CallRows(c)'  BY <1>0, <1>2, <1>3 DEF CallRows
  <2>3. ASSUME NEW q \in Rows, q \in ChannelRows'  PROVE RowOK(q, c)'
    <3>1. RowOK(q, job[h])  BY <1>3, <1>4, <2>3
    <3>2. current[r] \notin Open  BY <1>0, <1>4 DEF CallRows
    <3>3. CASE q = r
      BY <1>0, <1>2, <1>3, <3>2, <3>3 DEF RowOK
    <3>4. CASE q # r
      BY <1>0, <1>2, <1>3, <3>1, <3>4 DEF RowOK, Stale
    <3> QED
      BY <3>3, <3>4
  <2> QED
    BY <2>1, <2>2, <2>3
<1> QED
  BY <1>0, <1>1, <1>2, <1>4, ChannelStep

\* provisionChannel and the DELETEs of ensureCreatorChannel: a new row is off the air,
\* and what is deleted is no channel.
LEMMA ChannelProvision ==
  ASSUME TypeInv, RoomInv, ChannelInv, NEW h \in Handlers, Provision(h) \/ Dedupe(h)
  PROVE  ChannelInv'
<1>0. /\ job[h].step \in {"provision", "dedupe"} /\ job \in [Handlers -> Calls]
      /\ job[h] \in Calls /\ CallOK(job[h]) /\ job[h] # Idle
      /\ \A r \in Rows : name[r] = None => ~onAir[r] /\ current[r] = None /\ ~announced[r]
      /\ name \in [Rows -> Names \cup {None}] /\ onAir \in [Rows -> BOOLEAN]
      /\ current \in [Rows -> Sessions \cup {None}] /\ announced \in [Rows -> BOOLEAN]
      /\ None \notin Sessions /\ None \notin Names /\ Idle.step = "idle"
      /\ UNCHANGED <<publisher, ended, trouble>>
  BY LiveAssumption DEF Provision, Dedupe, Done, At, sessions, channels, Idle,
         TypeInv, TypeOK, CallsOK
<1>1. Open' = Open  BY <1>0 DEF Open
<1>2. ASSUME NEW c, job' = [job EXCEPT ![h] = c], c.step \in {"idle", "dedupe"},
             \A r \in Rows : \/ name'[r] = None /\ current'[r] = None
                             \/ /\ onAir'[r] = onAir[r] /\ current'[r] = current[r]
                                /\ announced'[r] = announced[r]
      PROVE  ChannelInv'
  <2>1. ASSUME Placed, \A q \in Rows : q \in ChannelRows => RowOK(q, job[h])
        PROVE  /\ Placed' /\ CallRows(c)'
               /\ \A q \in Rows : q \in ChannelRows' => RowOK(q, c)'
    <3>1. Placed'  BY <1>0, <1>2, <2>1 DEF Placed
    <3>2. CallRows(c)'  BY <1>2 DEF CallRows
    <3>3. ASSUME NEW q \in Rows, q \in ChannelRows'  PROVE RowOK(q, c)'
      <4>1. name'[q] # None  BY <3>3 DEF ChannelRows
      <4>2. CASE name[q] # None
        <5>1. RowOK(q, job[h])  BY <2>1, <4>2 DEF ChannelRows
        <5> QED
          BY <1>0, <1>1, <1>2, <4>1, <5>1 DEF RowOK, Stale
      <4>3. CASE name[q] = None
        <5>1. ~onAir'[q] /\ current'[q] = None /\ ~announced'[q]
          BY <1>0, <1>2, <4>1, <4>3
        <5> QED
          BY <1>0, <1>1, <5>1 DEF RowOK, Open
      <4> QED
        BY <4>2, <4>3
    <3> QED
      BY <3>1, <3>2, <3>3
  <2> QED
    BY <1>0, <1>2, <2>1, ChannelStep
<1>3. CASE Provision(h)
  <2>1. job' = [job EXCEPT ![h] = Idle] /\ UNCHANGED <<onAir, current, announced>>
    BY <1>3 DEF Provision, Done
  <2> QED
    BY <1>0, <1>2, <2>1
<1>4. CASE Dedupe(h) /\ Done(h)
  <2>1. job' = [job EXCEPT ![h] = Idle]
    BY <1>4 DEF Done
  <2>2. UNCHANGED <<onAir, current, announced>>
    <3>1. ASSUME NEW r, job' = [job EXCEPT ![h].dupes = @ \ {r}]  PROVE FALSE
      <4>1. job'[h] = [job[h] EXCEPT !.dupes = job[h].dupes \ {r}]  BY <1>0, <3>1
      <4>2. job'[h].step = "dedupe"  BY <1>0, <1>4, <4>1 DEF Dedupe, At, Calls
      <4> QED
        BY <1>0, <2>1, <4>2
    <3> QED
      BY <1>4, <3>1 DEF Dedupe, channels
  <2> QED
    BY <1>0, <1>2, <2>1, <2>2
<1>5. ASSUME Dedupe(h), NEW r \in job[h].dupes,
             name' = [name EXCEPT ![r] = None], current' = [current EXCEPT ![r] = None],
             onAir' = [onAir EXCEPT ![r] = FALSE], announced' = [announced EXCEPT ![r] = FALSE],
             job' = [job EXCEPT ![h].dupes = @ \ {r}]
      PROVE  ChannelInv'
  <2> PICK c : c = [job[h] EXCEPT !.dupes = @ \ {r}]
    OBVIOUS
  <2>1. job' = [job EXCEPT ![h] = c]  BY <1>0, <1>5
  <2>2. c.step = "dedupe"  BY <1>0, <1>5 DEF Dedupe, At, Calls
  <2>3. r \in Rows  BY <1>0 DEF Calls
  <2>4. \A q \in Rows : \/ name'[q] = None /\ current'[q] = None
                        \/ /\ onAir'[q] = onAir[q] /\ current'[q] = current[q]
                           /\ announced'[q] = announced[q]
    <3>1. ASSUME NEW q \in Rows, q # r
          PROVE  onAir'[q] = onAir[q] /\ current'[q] = current[q] /\ announced'[q] = announced[q]
      BY <1>0, <1>5, <3>1
    <3>2. name'[r] = None /\ current'[r] = None
      BY <1>0, <1>5, <2>3
    <3> QED
      BY <1>0, <3>1, <3>2
  <2> QED
    BY <1>2, <2>1, <2>2, <2>4
<1>6. ASSUME Dedupe(h), ~Done(h)
      PROVE  \E r \in job[h].dupes :
                /\ name' = [name EXCEPT ![r] = None] /\ current' = [current EXCEPT ![r] = None]
                /\ onAir' = [onAir EXCEPT ![r] = FALSE]
                /\ announced' = [announced EXCEPT ![r] = FALSE]
                /\ job' = [job EXCEPT ![h].dupes = @ \ {r}]
  BY <1>6 DEF Dedupe
<1> QED
  BY <1>3, <1>4, <1>5, <1>6

\* The steps of a call.
LEMMA ChannelSteps ==
  ASSUME TypeInv, FollowInv, RoomInv, ChannelInv, NEW h \in Handlers, Step(h)
  PROVE  ChannelInv'
<1>0. job \in [Handlers -> Calls] /\ job[h] \in Calls  BY DEF TypeInv, CallsOK
<1>1. CASE FindRoom(h) \/ MakeRoom(h)
  <2>1. PICK t \in {"makeRoom", "answer"} : job' = [job EXCEPT ![h].step = t]
    BY <1>1 DEF FindRoom, MakeRoom, Goto
  <2> PICK c : c = [job[h] EXCEPT !.step = t]
    OBVIOUS
  <2>2. job' = [job EXCEPT ![h] = c]  BY <1>0, <2>1
  <2>3. c.step \in Loose  BY <1>0, <2>1 DEF Calls, Loose, Steps
  <2>4. job[h].step \in Loose \ {"idle"}
    BY <1>1 DEF FindRoom, MakeRoom, At, Loose, Steps
  <2>5. UNCHANGED <<publisher, ended, name, onAir, current, announced, trouble>>
    BY <1>1 DEF FindRoom, MakeRoom, Goto, sessions, channels
  <2> QED
    BY <2>2, <2>3, <2>4, <2>5, ChannelLoose
<1>2. CASE Answer(h)
  <2>1. job' = [job EXCEPT ![h] = Idle] /\ Idle.step \in Loose
    BY <1>2 DEF Answer, Done, Idle, Loose, Steps
  <2>2. job[h].step \in Loose \ {"idle"}  BY <1>2 DEF Answer, At, Loose, Steps
  <2>3. UNCHANGED <<publisher, ended, name, onAir, current, announced, trouble>>
    BY <1>2 DEF Answer, Done, sessions, channels
  <2> QED
    BY <2>1, <2>2, <2>3, ChannelLoose
<1>3. CASE FindRows(h)
  <2>1. ASSUME NEW c, job' = [job EXCEPT ![h] = c], c.step \in Loose  PROVE ChannelInv'
    <3>1. job[h].step \in Loose \ {"idle"}  BY <1>3 DEF FindRows, At, Loose, Steps
    <3>2. UNCHANGED <<publisher, ended, name, onAir, current, announced, trouble>>
      BY <1>3 DEF FindRows, Goto, sessions, channels
    <3> QED
      BY <2>1, <3>1, <3>2, ChannelLoose
  <2>2. ASSUME Goto(h, "provision")  PROVE ChannelInv'
    <3> PICK c : c = [job[h] EXCEPT !.step = "provision"]
      OBVIOUS
    <3>1. job' = [job EXCEPT ![h] = c]  BY <1>0, <2>2 DEF Goto
    <3>2. c.step \in Loose  BY <1>0 DEF Calls, Loose, Steps
    <3> QED
      BY <2>1, <3>1, <3>2
  <2>3. ASSUME NEW D, job' = [job EXCEPT ![h].step = "dedupe", ![h].dupes = D]
        PROVE  ChannelInv'
    <3> PICK c : c = [job[h] EXCEPT !.step = "dedupe", !.dupes = D]
      OBVIOUS
    <3>1. job' = [job EXCEPT ![h] = c]  BY <1>0, <2>3
    <3>2. c.step \in Loose  BY <1>0 DEF Calls, Loose, Steps
    <3> QED
      BY <2>1, <3>1, <3>2
  <2> QED
    BY <1>3, <2>2, <2>3 DEF FindRows
<1> QED
  BY <1>1, <1>2, <1>3, ChannelOpenSession, ChannelFindChannel, ChannelActivate, ChannelAnnounce,
     ChannelCloseSession, ChannelLastSession, ChannelFindOnAir, ChannelDeactivate,
     ChannelProvision DEF Step

\* Callbacks and calls that begin, and what clients, keys and faults do.
LEMMA ChannelNext ==
  ASSUME TypeInv, FollowInv, RoomInv, ChannelInv, [Next]_vars
  PROVE  ChannelInv'
<1>1. ASSUME UNCHANGED <<publisher, ended, name, onAir, current, announced, job>>,
             trouble' = {} => trouble = {}
      PROVE  ChannelInv'
  <2>1. Open' = Open /\ ChannelRows' = ChannelRows
    BY <1>1 DEF Open, ChannelRows
  <2> QED
    BY <1>1, <2>1 DEF ChannelInv, Placed, CallRows, OnlyCall, RowOK, Stale
<1>2. ASSUME NEW h \in Handlers, NEW u \in Clients, OnPublish(h, u)  PROVE ChannelInv'
  <2>1. UNCHANGED <<publisher, ended, name, onAir, current, announced>>
    BY <1>2 DEF OnPublish, sessions, channels
  <2>2. CASE Begin(h, [Idle EXCEPT !.step = "openSession", !.who = u])
    <3> DEFINE c == [Idle EXCEPT !.step = "openSession", !.who = u]
    <3>1. c.step \in Loose  BY DEF Idle, Loose, Steps
    <3>2. Begin(h, c)  BY <2>2
    <3> HIDE DEF c
    <3> QED
      BY <2>1, <3>1, <3>2, ChannelBegins
  <2>3. CASE UNCHANGED <<job, trouble>>
    BY <1>1, <2>1, <2>3
  <2> QED
    BY <1>2, <2>2, <2>3 DEF OnPublish
<1>3. ASSUME NEW h \in Handlers, NEW u \in Clients, OnUnpublish(h, u)  PROVE ChannelInv'
  <2>1. UNCHANGED <<publisher, ended, name, onAir, current, announced>>
    BY <1>3 DEF OnUnpublish, sessions, channels
  <2>2. ASSUME NEW s, Begin(h, [Idle EXCEPT !.step = "closeSession", !.who = u, !.session = s])
        PROVE  ChannelInv'
    <3> DEFINE c == [Idle EXCEPT !.step = "closeSession", !.who = u, !.session = s]
    <3>1. c.step \in Loose  BY DEF Idle, Loose, Steps
    <3>2. Begin(h, c)  BY <2>2
    <3> HIDE DEF c
    <3> QED
      BY <2>1, <3>1, <3>2, ChannelBegins
  <2>3. ASSUME Begin(h, [Idle EXCEPT !.step = "lastSession", !.who = u])  PROVE ChannelInv'
    <3> DEFINE c == [Idle EXCEPT !.step = "lastSession", !.who = u]
    <3>1. c.step \in {"lastSession"}  BY DEF Idle
    <3>2. Begin(h, c)  BY <2>3
    <3> HIDE DEF c
    <3> QED
      BY <2>1, <3>1, <3>2, ChannelBegins
  <2> QED
    BY <1>3, <2>2, <2>3 DEF OnUnpublish
<1>4. ASSUME NEW h \in Handlers, NEW k \in Keys, CreateStreamKey(h, k)  PROVE ChannelInv'
  <2> DEFINE c == [Idle EXCEPT !.step = "findRows", !.who = k]
  <2>1. c.step \in Loose  BY DEF Idle, Loose, Steps
  <2>2. Begin(h, c) /\ UNCHANGED <<publisher, ended, name, onAir, current, announced>>
    BY <1>4 DEF CreateStreamKey, sessions, channels
  <2> HIDE DEF c
  <2> QED
    BY <2>1, <2>2, ChannelBegins
<1>5. ASSUME NEW u \in Clients, Connect(u) \/ Disconnect(u)  PROVE ChannelInv'
  BY <1>1, <1>5 DEF Connect, Disconnect, sessions, channels
<1>6. ASSUME NEW k \in Keys, RevokeStreamKey(k)  PROVE ChannelInv'
  BY <1>1, <1>6 DEF RevokeStreamKey, sessions, channels
<1>7. ASSUME trouble' # {}  PROVE ChannelInv'
  BY <1>7 DEF ChannelInv
<1>8. ApiRestart \/ (\E u \in Clients : RetryPublish(u)) => trouble' # {}
  BY DEF ApiRestart, RetryPublish
<1>9. UNCHANGED vars => ChannelInv'
  BY <1>1 DEF vars, sessions, channels
<1> QED
  BY <1>2, <1>3, <1>4, <1>5, <1>6, <1>7, <1>8, <1>9, ChannelSteps DEF Next, Callback

LEMMA ChannelInit == Init => ChannelInv
<1> SUFFICES ASSUME Init  PROVE ChannelInv
  OBVIOUS
<1>1. /\ current = [r \in Rows |-> None] /\ onAir = [r \in Rows |-> FALSE]
      /\ announced = [r \in Rows |-> FALSE] /\ job = [h \in Handlers |-> Idle]
      /\ None \notin Sessions /\ Idle.step = "idle"
  BY LiveAssumption DEF Init, Idle
<1>2. Placed  BY <1>1 DEF Placed
<1>3. \A h \in Handlers : CallRows(job[h])  BY <1>1 DEF CallRows
<1>4. ASSUME NEW h \in Handlers, NEW r \in ChannelRows  PROVE RowOK(r, job[h])
  BY <1>1 DEF RowOK, Open, ChannelRows
<1> QED
  BY <1>2, <1>3, <1>4 DEF ChannelInv

\* activateLiveChannel and deactivateLiveChannel keep a channel on exactly while the session
\* it was last switched on for is open, and say so in the event that follows each update:
\* while calls do not overlap, no callback is repeated and the API does not die.
THEOREM ChannelFollows == Spec => []ChannelFollowsStream
<1>1. ASSUME ChannelInv  PROVE ChannelFollowsStream
  <2> SUFFICES ASSUME trouble = {}, AtRest, NEW r \in ChannelRows
               PROVE  (onAir[r] <=> current[r] \in Open) /\ (announced[r] <=> onAir[r])
    BY DEF ChannelFollowsStream
  <2> PICK h \in Handlers : TRUE
    BY LiveAssumption
  <2>1. job[h] = Idle /\ OnlyCall(h)
    BY DEF AtRest, OnlyCall
  <2>2. RowOK(r, job[h])  BY <1>1, <2>1 DEF ChannelInv
  <2>3. job[h].step = "idle"  BY <2>1 DEF Idle
  <2> QED
    BY <2>2, <2>3 DEF RowOK, Stale
<1>2. TypeInv /\ FollowInv /\ RoomInv /\ ChannelInv /\ [Next]_vars
          => TypeInv' /\ FollowInv' /\ RoomInv' /\ ChannelInv'
  BY TypeStep, FollowNext, RoomNext, ChannelNext
<1> QED
  BY <1>1, <1>2, TypeInit, FollowInit, RoomInit, ChannelInit, PTL DEF Spec
=============================================================================
