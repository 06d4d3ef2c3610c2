----------------------------- MODULE PoolRotation ----------------------------
(***************************************************************************)
(* GET /channels/:id/pool/next: the engine asks for the next entry of a    *)
(* channel's pool when its queue is empty, and the pool turns by the time  *)
(* each entry was last played.  (resolvePoolNextUri in                     *)
(* services/editorial-control.ts, with the pool's other writers in         *)
(* playout/content-pool.ts and playout/queue-control.ts.)                  *)
(***************************************************************************)
EXTENDS ApiCalls, Naturals, Sequences, SequencesExt, FiniteSets

CONSTANTS
    PoolCalls,    \* slots for calls in flight
    PoolEntries,  \* channel_content rows, with the items they name
    ForeignOnes,  \* entries whose content is another creator's
    PoolOwner,    \* "creator" or "platform": who owns the channel
    PoolBatch,    \* rows read by one call
    MaxPlays      \* bound: entries played

ASSUME PoolAssumption ==
    /\ IsFiniteSet(PoolEntries) /\ ForeignOnes \subseteq PoolEntries
    /\ PoolOwner \in {"creator", "platform"}
    /\ {PoolBatch, MaxPlays} \subseteq Nat

VARIABLES
    lastPlayedAt,  \* of the entries in the pool; 0 is NULL
    keyed,         \* entries with a media key to serve
    removed,       \* entries whose content is soft-deleted
    plays,         \* the clock: entries played so far
    poolCall,
    since,         \* history: what was served since an entry was last played
    overtaken      \* history: entries another was served twice ahead of

poolVars == <<lastPlayedAt, keyed, removed, plays, poolCall, since, overtaken>>

IdleAsk == [step |-> "idle"]
InPool  == DOMAIN lastPlayedAt

-----------------------------------------------------------------------------
(* One call *)

\* A creator's pool is filtered when it is read.
Scope == IF PoolOwner = "creator" THEN InPool \ (ForeignOnes \cup removed) ELSE InPool

\* ORDER BY last_played_at: NULLS FIRST is only in the creator's query; plain
\* ascending order has NULL last in PostgreSQL.
Before(e, f) ==
    IF PoolOwner = "creator" \/ (lastPlayedAt[e] # 0 /\ lastPlayedAt[f] # 0)
    THEN lastPlayedAt[e] <= lastPlayedAt[f]
    ELSE lastPlayedAt[f] = 0

Batches ==
    {SubSeq(q, 1, IF Len(q) < PoolBatch THEN Len(q) ELSE PoolBatch) :
        q \in {p \in SetToSeqs(Scope) : \A i, j \in DOMAIN p : i < j => Before(p[i], p[j])}}

ReadPool(c) ==
    /\ poolCall[c].step = "idle"
    /\ plays < MaxPlays
    /\ \E rows \in Batches :
        /\ rows # <<>>
        /\ poolCall' = [poolCall EXCEPT ![c] = [step |-> "keys", rows |-> rows]]
    /\ UNCHANGED <<lastPlayedAt, keyed, removed, plays, since, overtaken>>

\* The items are read, and the first row with a key is taken, if any.
ReadKeys(c) ==
    LET rows == poolCall[c].rows
        good == {i \in DOMAIN rows : rows[i] \in keyed}
    IN  /\ poolCall[c].step = "keys"
        /\ \/ /\ good = {}
              /\ poolCall' = [poolCall EXCEPT ![c] = IdleAsk]
           \/ \E i \in good :
                /\ \A j \in good : i <= j
                /\ poolCall' = [poolCall EXCEPT ![c] = [step |-> "touch", entry |-> rows[i]]]
        /\ UNCHANGED <<lastPlayedAt, keyed, removed, plays, since, overtaken>>

Servable(e) == e \in Scope \cap keyed

\* What entry e, served, does to the history.
Offered(e) ==
    /\ overtaken' = overtaken \cup {f \in PoolEntries \ {e} : Servable(f) /\ e \in since[f]}
    /\ since' = [f \in PoolEntries |-> IF f = e THEN {} ELSE since[f] \cup {e}]

Stamped(e) == IF e \in InPool THEN [lastPlayedAt EXCEPT ![e] = plays + 1] ELSE lastPlayedAt

\* Mutated Touch: the row is left as it was.
TouchNothing(c) ==
    /\ poolCall[c].step = "touch"
    /\ plays' = plays + 1
    /\ poolCall' = [poolCall EXCEPT ![c] = IdleAsk]
    /\ Offered(poolCall[c].entry)
    /\ UNCHANGED <<lastPlayedAt, keyed, removed>>

\* The row is stamped, and its URI answered.
Touch(c) ==
    /\ poolCall[c].step = "touch"
    /\ plays' = plays + 1
    /\ lastPlayedAt' = Stamped(poolCall[c].entry)
    /\ poolCall' = [poolCall EXCEPT ![c] = IdleAsk]
    /\ Offered(poolCall[c].entry)
    /\ UNCHANGED <<keyed, removed>>

-----------------------------------------------------------------------------
(* The pool's other writers *)

Fresh(e) == since' = [since EXCEPT ![e] = {}]

\* onTrackStarted: an entry of the queue that is in the pool, too, was played.
QueuePlayed(e) ==
    /\ e \in InPool
    /\ plays < MaxPlays
    /\ plays' = plays + 1
    /\ lastPlayedAt' = Stamped(e)
    /\ Fresh(e)
    /\ UNCHANGED <<keyed, removed, poolCall, overtaken>>

Assign(e) ==
    /\ e \notin InPool /\ e \notin ForeignOnes /\ e \notin removed
    /\ lastPlayedAt' = [f \in InPool \cup {e} |-> IF f = e THEN 0 ELSE lastPlayedAt[f]]
    /\ since' = [f \in PoolEntries |-> IF f = e THEN {} ELSE since[f] \ {e}]
    /\ UNCHANGED <<keyed, removed, plays, poolCall, overtaken>>

Unassign(e) ==
    /\ e \in InPool
    /\ lastPlayedAt' = [f \in InPool \ {e} |-> lastPlayedAt[f]]
    /\ UNCHANGED <<keyed, removed, plays, poolCall, since, overtaken>>

\* The media of an entry is uploaded, or cleared.
ChangeMedia(e) ==
    /\ keyed' = IF e \in keyed THEN keyed \ {e} ELSE keyed \cup {e}
    /\ Fresh(e)
    /\ UNCHANGED <<lastPlayedAt, removed, plays, poolCall, overtaken>>

\* Content is soft-deleted; its row in the pool stays.
RemoveContent(e) ==
    /\ e \notin removed
    /\ removed' = removed \cup {e}
    /\ UNCHANGED <<lastPlayedAt, keyed, plays, poolCall, since, overtaken>>

-----------------------------------------------------------------------------
PoolInit ==
    /\ lastPlayedAt = [e \in PoolEntries |-> 0]
    /\ keyed = PoolEntries
    /\ removed = {} /\ plays = 0 /\ overtaken = {}
    /\ since = [e \in PoolEntries |-> {}]
    /\ poolCall = [c \in PoolCalls |-> IdleAsk]

PoolNext ==
    \/ \E c \in PoolCalls : ReadPool(c) \/ ReadKeys(c) \/ Touch(c)
    \/ \E e \in PoolEntries :
        \/ QueuePlayed(e) \/ Assign(e) \/ Unassign(e)
        \/ ChangeMedia(e) \/ RemoveContent(e)

PoolSpec == PoolInit /\ [][PoolNext]_poolVars

-----------------------------------------------------------------------------
(* Properties *)

\* editorial-control.ts: rows are served in least-recently-played order, those never
\* played first.  With one call at a time no entry that can be served is passed over
\* twice for the same other one.
PoolRotates == overtaken = {}
=============================================================================
