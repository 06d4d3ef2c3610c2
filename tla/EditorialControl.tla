--------------------------- MODULE EditorialControl --------------------------
(***************************************************************************)
(* What each channel airs when nobody queues: the editorial tiers and mode *)
(* in the database, the script rendered from them, and the engine that     *)
(* runs the script it was started with.  (services/editorial-config.ts,    *)
(* editorial-graph.ts, editorial-control.ts, playout-topology.ts,          *)
(* liquidsoap-render.ts, liquidsoap-config.ts.)                            *)
(* A script is modelled by what it lets each channel air, and when.        *)
(***************************************************************************)
EXTENDS ApiCalls, Naturals, Sequences, SequencesExt, FiniteSets

CONSTANTS
    EditCalls,   \* slots for calls in flight
    Playouts,    \* platform playout channels
    Broadcast,   \* the broadcast channel
    Default,     \* its default playout channel
    TierIds,
    Verbs,       \* subset of AllVerbs: the calls that are made
    MaxVerbs,    \* bound: calls made
    EditFaults   \* subset of {"signal", "crash"}

AllVerbs == {"mode", "manual", "arm", "take", "channel", "create", "update", "delete"}

ASSUME EditAssumption ==
    /\ IsFiniteSet(Playouts) /\ None \notin Playouts
    /\ Default \in Playouts /\ Broadcast \notin Playouts \cup {None}
    /\ Verbs \subseteq AllVerbs /\ EditFaults \subseteq {"signal", "crash"}
    /\ MaxVerbs \in Nat

Channels == Playouts \cup {Broadcast}

VARIABLES
    active,    \* playout channels with is_active
    settings,  \* channel_editorial_config: mode and pinned tier
    tier,      \* channel_editorial_tiers
    script,    \* playout.liq
    engine,    \* whether it runs, its script, and the queues it has armed
    editCall,
    verbs,     \* calls made so far
    due,       \* history: what is stored changed, or did not reach the engine, and
               \* no regeneration is under way for it
    renderedTogether,   \* history: two calls had rendered a script and not written it
    validatedTogether   \* history: two calls validated a tier at the same time

store == <<active, settings, tier>>
overlaps == <<renderedTogether, validatedTogether>>
editVars == <<store, script, engine, editCall, verbs, due, overlaps>>

Exists   == {t \in TierIds : tier[t] # None}
TiersOf(c) == {t \in Exists : tier[t].channel = c}
CarryTiers == {t \in Exists : tier[t].type = "carry"}

-----------------------------------------------------------------------------
(* The carry graph *)

Edge(t) == <<tier[t].channel, tier[t].source>>
CarryEdges == {Edge(t) : t \in CarryTiers}

Sources(c, edges) == {d \in Channels : <<c, d>> \in edges}

\* Mutated HasCycle: only a channel that carries itself.
HasLoop(edges) == \E c \in Channels : <<c, c>> \in edges

\* detectChannelSourceCycles: from some channel the walk along the edges never ends.
HasCycle(edges) ==
    LET walk[n \in 0..Cardinality(Channels)] ==
          IF n = 0 THEN Channels
          ELSE {c \in Channels : Sources(c, edges) \cap walk[n - 1] # {}}
    IN  walk[Cardinality(Channels)] # {}

\* The elements of S in ascending order of their ranks.
InOrder(S, rank) ==
    CHOOSE q \in [1..Cardinality(S) -> S] :
        \A i, j \in DOMAIN q : i < j => rank[q[i]] < rank[q[j]]

inputOrder(input) == [c \in ToSet(input) |-> CHOOSE i \in DOMAIN input : input[i] = c]

\* Mutated Unblocked: a channel follows the first of its sources.
UnblockedEarly(input, out, edges) ==
    InOrder({c \in ToSet(input) : Last(out) \in Sources(c, edges)}, inputOrder(input))

\* The channels that waited for nothing but the one just emitted.
Unblocked(input, out, edges) ==
    InOrder({c \in ToSet(input) : /\ Last(out) \in Sources(c, edges)
                                  /\ Sources(c, edges) \subseteq ToSet(out)},
            inputOrder(input))

\* The channels that carry none, which come first.
CarryNone(input, edges) ==
    InOrder({c \in ToSet(input) : Sources(c, edges) = {}}, inputOrder(input))

\* topoSort: the order in which the blocks of the channels are written.
TopoSort(input, edges) ==
    LET run[n \in 0..Len(input)] ==
          IF n = 0
          THEN [queue |-> CarryNone(input, edges), out |-> <<>>]
          ELSE LET was == run[n - 1]
                   out == Append(was.out, Head(was.queue))
               IN  IF was.queue = <<>> THEN was
                   ELSE [queue |-> Tail(was.queue) \o Unblocked(input, out, edges),
                         out |-> out]
    IN  run[Len(input)].out

-----------------------------------------------------------------------------
(* The script *)

rows == active \cup {Broadcast}

configured(c) == settings[c] # None /\ TiersOf(c) # {}

\* The enabled tiers, and those of them whose source has a block.
enabledTiers(c)  == {t \in TiersOf(c) : tier[t].enabled}
Known(t)         == tier[t].type = "carry" => tier[t].source \in rows
resolvedTiers(c) == {t \in enabledTiers(c) : Known(t)}

QueueOnly == <<[type |-> "queue", source |-> None]>>

\* Tiers come by priority; a live tier is rendered for the broadcast channel only.
renderedTiers(c) ==
    LET shown == {t \in resolvedTiers(c) : c = Broadcast \/ tier[t].type # "live"}
        aired == InOrder(shown, [t \in shown |-> tier[t].priority])
    IN  IF ~configured(c) \/ resolvedTiers(c) = {} THEN QueueOnly
        ELSE [i \in DOMAIN aired |-> [type |-> tier[aired[i]].type,
                                      source |-> tier[aired[i]].source]]

\* manualTierIndex counts the enabled tiers; the script looks it up in the rendered ones,
\* and past their end there is the blank.  The broadcast channel has no pin.
manualTierIndex(c) ==
    Cardinality({t \in enabledTiers(c) :
                    tier[t].priority <= tier[settings[c].manualTierId].priority})
pinnedSource(c) ==
    IF c = Broadcast \/ ~configured(c) THEN None
    ELSE IF settings[c].mode = "auto" \/ settings[c].manualTierId \notin enabledTiers(c) THEN None
    ELSE IF manualTierIndex(c) \in DOMAIN renderedTiers(c) THEN renderedTiers(c)[manualTierIndex(c)]
    ELSE [type |-> "blank", source |-> None]

\* generateLiquidsoapConfig, and the edges buildPlayoutTopology sorts by.
Rendered == [c \in rows |-> [sources |-> renderedTiers(c), pinned |-> pinnedSource(c)]]
carryEdges ==
    {Edge(t) : t \in {u \in CarryTiers : /\ tier[u].enabled /\ Known(u)
                                         /\ tier[u].channel \in rows
                                         /\ settings[tier[u].channel] # None}}

\* Armed when the engine starts: the playout channels that have a queue and nothing else.
initialArmed(text) == {c \in DOMAIN text \ {Broadcast} : text[c].sources = QueueOnly}

-----------------------------------------------------------------------------
(* Calls *)

IdleEdit == [step |-> "idle"]
SetCall(c, r)  == editCall' = [editCall EXCEPT ![c] = r]
Go(c, s)   == SetCall(c, [editCall[c] EXCEPT !.step = s])
Done(c)    == SetCall(c, IdleEdit)

BeginEdit(verb, c, r) ==
    /\ verb \in Verbs
    /\ verbs' = verbs + 1
    /\ SetCall(c, r)
    /\ UNCHANGED <<store, script, engine, due, overlaps>>

\* After the store is written: regenerate, for these calls; then maybe arm.
Regenerating(c, then) == SetCall(c, [step |-> "generate", then |-> then])

\* upsertEditorialConfig without a tier: the pin goes, too.
Settle(ch, mode, pin) ==
    settings' = [settings EXCEPT ![ch] = [mode |-> mode, manualTierId |-> pin]]

SetMode(c, ch, mode) == BeginEdit("mode", c, [step |-> "upsert", channel |-> ch, mode |-> mode,
                                              pin |-> None, then |-> None])

\* Mutated Upsert: the script is rendered from what was stored before.
UpsertAfter(c) ==
    LET r == editCall[c]
    IN  /\ r.step = "upsert"
        /\ Settle(r.channel, r.mode, r.pin)
        /\ SetCall(c, [step |-> "write", then |-> r.then, text |-> Rendered])
        /\ due' = FALSE
        /\ UNCHANGED <<active, tier, script, engine, verbs, overlaps>>

\* A pin to a tier that is gone fails on its foreign key.
Upsert(c) ==
    LET r == editCall[c]
    IN  /\ r.step = "upsert"
        /\ IF r.pin # None /\ r.pin \notin Exists
           THEN Done(c) /\ UNCHANGED settings
           ELSE Settle(r.channel, r.mode, r.pin) /\ Regenerating(c, r.then)
        /\ UNCHANGED <<active, tier, script, engine, verbs, due, overlaps>>

\* setManualTier: one of the channel's enabled tiers.
SetManualTier(c, ch, t) ==
    /\ t \in TiersOf(ch) /\ tier[t].enabled
    /\ BeginEdit("manual", c, [step |-> "upsert", channel |-> ch, mode |-> "manual",
                               pin |-> t, then |-> None])

\* armQueue: straight to the engine, which knows the verb for playout channels only.
Armed(ch, v) ==
    IF engine.up /\ ch \in DOMAIN engine.script \ {Broadcast}
    THEN [engine EXCEPT !.armed = IF v THEN @ \cup {ch} ELSE @ \ {ch}]
    ELSE engine

ArmQueue(ch, v) ==
    /\ "arm" \in Verbs /\ Armed(ch, v) # engine
    /\ engine' = Armed(ch, v)
    /\ UNCHANGED <<store, script, editCall, verbs, due, overlaps>>

\* takeQueue: by what the mode is now, either way arming at the end.
TakeQueue(c, ch) ==
    BeginEdit("take", c,
         IF settings[ch] = None \/ settings[ch].mode = "auto"
         THEN [step |-> "arm", channel |-> ch]
         ELSE [step |-> "upsert", channel |-> ch, mode |-> "auto", pin |-> None,
               then |-> ch])

TakeArms(c) ==
    /\ editCall[c].step = "arm"
    /\ engine' = Armed(editCall[c].channel, TRUE)
    /\ Done(c)
    /\ UNCHANGED <<store, script, verbs, due, overlaps>>

\* A playout channel is created, or deactivated.
SetChannel(c, ch) == BeginEdit("channel", c, [step |-> "channel", channel |-> ch])

WriteChannel(c) ==
    LET ch == editCall[c].channel
    IN  /\ editCall[c].step = "channel"
        /\ active' = IF ch \in active THEN active \ {ch} ELSE active \cup {ch}
        /\ Regenerating(c, None)
        /\ UNCHANGED <<settings, tier, script, engine, verbs, due, overlaps>>

-----------------------------------------------------------------------------
(* regenerateAndRestart, and writeConfigOnly *)

Writing == {c \in EditCalls : editCall[c].step = "write"}

\* The rows are read and the script is rendered; a cycle throws.
Generate(c) ==
    /\ editCall[c].step = "generate"
    /\ renderedTogether' = (renderedTogether \/ Writing # {})
    /\ IF HasCycle(carryEdges)
       THEN Done(c) /\ due' = TRUE
       ELSE /\ SetCall(c, [step |-> "write", then |-> editCall[c].then, text |-> Rendered])
            /\ due' = FALSE
    /\ UNCHANGED <<store, script, engine, verbs, validatedTogether>>

\* The file; at boot nothing more.
WriteScript(c) ==
    LET r == editCall[c]
    IN  /\ r.step = "write"
        /\ script' = r.text
        /\ IF r.then = "boot"
           THEN Done(c) /\ due' = (due \/ engine.script # r.text)
           ELSE Go(c, "signal") /\ UNCHANGED due
        /\ UNCHANGED <<store, engine, verbs, overlaps>>

\* The shutdown is signalled; a call that fails, or waits in vain, ends with an error.  A
\* refusal with a status, a connection refused and no URL at all pass for a restart.
Signal(c) ==
    LET r == editCall[c]
    IN  /\ r.step = "signal"
        /\ \/ /\ engine' = [engine EXCEPT !.up = FALSE, !.armed = {}]
              /\ IF r.then = None THEN Done(c)
                 ELSE SetCall(c, [step |-> "arm", channel |-> r.then])
              /\ UNCHANGED due
           \/ /\ "signal" \in EditFaults
              /\ \/ Done(c)
                 \/ r.then # None /\ SetCall(c, [step |-> "arm", channel |-> r.then])
              /\ due' = TRUE
              /\ UNCHANGED engine
        /\ UNCHANGED <<store, script, verbs, overlaps>>

\* The engine starts again, from the file.
EngineStart ==
    /\ ~engine.up
    /\ engine' = [up |-> TRUE, script |-> script, armed |-> initialArmed(script)]
    /\ UNCHANGED <<store, script, editCall, verbs, due, overlaps>>

-----------------------------------------------------------------------------
(* Tiers.  Their writes do not regenerate. *)

Validating == {c \in EditCalls : editCall[c].step \in {"graph", "insert", "change"}}

Fits(ch, type, others) ==
    \/ ch = Broadcast
    \/ /\ type = "live" => "carry" \notin others
       /\ type = "carry" => "live" \notin others

TypesOf(ts) == {tier[t].type : t \in ts}

\* createEditorialTier: the channel's tiers are read, then for a carry tier the graph.
CreateTier(c, ch, new) ==
    /\ Fits(ch, new.type, TypesOf(TiersOf(ch)))
    /\ BeginEdit("create", c, [step |-> IF new.type = "carry" THEN "graph" ELSE "insert",
                               channel |-> ch, new |-> new, old |-> {}, todo |-> <<>>])

\* What createEditorialTier does next in ensureBroadcastEditorialConfig's loop.
NextTier(c, todo) ==
    IF todo = <<>> THEN SetCall(c, [step |-> "generate", then |-> "boot"])
    ELSE SetCall(c, [step |-> IF Head(todo).type = "carry" THEN "graph" ELSE "insert",
                 channel |-> Broadcast, new |-> Head(todo), old |-> {}, todo |-> todo])

Refused(c) ==
    IF editCall[c].todo = <<>> THEN Done(c)
    ELSE SetCall(c, [step |-> "generate", then |-> "boot"])

\* The cycle check of a create, or of an update, which leaves out the tier's old edge
\* and every other tier's that equals it.
CheckGraph(c) ==
    LET r == editCall[c]
        edges == CarryEdges \ r.old
    IN  /\ r.step = "graph"
        /\ IF HasCycle(edges \cup {<<r.channel, r.new.source>>}) THEN Refused(c)
           ELSE Go(c, IF r.old = {} THEN "insert" ELSE "change")
        /\ UNCHANGED <<store, script, engine, verbs, due, overlaps>>

Unused == {t \in TierIds : tier[t] = None
                           /\ \A d \in EditCalls : editCall[d].step # "idle" =>
                                 t \notin {editCall[d][f] : f \in DOMAIN editCall[d]}}

Race(c) == validatedTogether' = (validatedTogether \/ Validating # {c})

\* The INSERT, or the conflict with another tier of that priority.
InsertTier(c) ==
    LET r == editCall[c]
        taken == \E t \in TiersOf(r.channel) : tier[t].priority = r.new.priority
    IN  /\ r.step = "insert"
        /\ \/ /\ taken
              /\ Refused(c)
              /\ UNCHANGED <<tier, due, validatedTogether>>
           \/ /\ ~taken
              /\ Unused # {}
              /\ tier' = [tier EXCEPT ![CHOOSE t \in Unused : TRUE] =
                            [channel |-> r.channel, type |-> r.new.type, enabled |-> TRUE,
                             source |-> r.new.source, priority |-> r.new.priority]]
              /\ IF r.todo = <<>> THEN Done(c) ELSE NextTier(c, Tail(r.todo))
              /\ due' = TRUE
              /\ Race(c)
        /\ UNCHANGED <<active, settings, script, engine, verbs, renderedTogether>>

\* updateEditorialTier: another type, another source, or whether it is enabled.  A new
\* priority is left out.  The channels are the platform's: a creator's may not carry.
UpdateTier(c, t, new) ==
    LET old == tier[t]
    IN  /\ new.type # old.type => Fits(old.channel, new.type, TypesOf(TiersOf(old.channel) \ {t}))
        /\ BeginEdit("update", c,
                [step |-> IF new.type = "carry" /\ new.source # old.source
                          THEN "graph" ELSE "change",
                 channel |-> old.channel, id |-> t, was |-> old, new |-> new,
                 old |-> {<<old.channel, old.source>>}, todo |-> <<>>])

ChangeTier(c) ==
    LET r == editCall[c]
    IN  /\ r.step = "change"
        /\ tier' = IF r.id \notin Exists THEN tier
                   ELSE [tier EXCEPT ![r.id] = [f \in DOMAIN @ |->
                            IF f \in DOMAIN r.new /\ r.new[f] # r.was[f]
                            THEN r.new[f] ELSE @[f]]]
        /\ Done(c)
        /\ due' = TRUE
        /\ Race(c)
        /\ UNCHANGED <<active, settings, script, engine, verbs, renderedTogether>>

\* deleteEditorialTier; the foreign key unpins it.
DeleteTier(t) ==
    /\ "delete" \in Verbs
    /\ t \in Exists
    /\ tier' = [tier EXCEPT ![t] = None]
    /\ settings' = [c \in Channels |->
                      IF settings[c] # None /\ settings[c].manualTierId = t
                      THEN [settings[c] EXCEPT !.manualTierId = None] ELSE settings[c]]
    /\ due' = TRUE
    /\ UNCHANGED <<active, script, engine, editCall, verbs, overlaps>>

-----------------------------------------------------------------------------
(* Boot *)

\* The process dies and comes back; the engine goes on.
Crash(c) ==
    /\ "crash" \in EditFaults
    /\ verbs < MaxVerbs /\ verbs' = verbs + 1
    /\ editCall' = [d \in EditCalls |-> IF d = c THEN [step |-> "ensure"] ELSE IdleEdit]
    /\ due' = TRUE
    /\ UNCHANGED <<store, script, engine, overlaps>>

\* ensureBroadcastEditorialConfig: mode auto, whatever it was ...
EnsureConfig(c) ==
    /\ editCall[c].step = "ensure"
    /\ Settle(Broadcast, "auto", None)
    /\ Go(c, "tiers")
    /\ UNCHANGED <<active, tier, script, engine, verbs, due, overlaps>>

\* ... and the three tiers, if there is none; a partial set is left alone.
EnsureTiers(c) ==
    /\ editCall[c].step = "tiers"
    /\ NextTier(c, IF TiersOf(Broadcast) # {} THEN <<>>
                   ELSE <<[type |-> "live", priority |-> 0, source |-> None],
                          [type |-> "queue", priority |-> 1, source |-> None],
                          [type |-> "carry", priority |-> 2, source |-> Default]>>)
    /\ UNCHANGED <<store, script, engine, verbs, due, overlaps>>

-----------------------------------------------------------------------------
NewTiers == [type : {"live", "queue"}, source : {None}, priority : {0, 1}]
            \cup [type : {"carry"}, source : Channels, priority : {0, 1}]

NewForms == [type : {"live", "queue"}, source : {None}, enabled : BOOLEAN]
            \cup [type : {"carry"}, source : Channels, enabled : BOOLEAN]

EditInit ==
    /\ active = Playouts
    /\ \/ settings = [c \in Channels |-> None]
       \/ settings = [c \in Channels |-> [mode |-> "auto", manualTierId |-> None]]
    /\ tier = [t \in TierIds |-> None]
    /\ script = Rendered
    /\ engine = [up |-> TRUE, script |-> script, armed |-> initialArmed(script)]
    /\ editCall = [c \in EditCalls |-> IdleEdit]
    /\ verbs = 0 /\ due = FALSE /\ renderedTogether = FALSE /\ validatedTogether = FALSE

EditStep(c) ==
    \/ Upsert(c) \/ TakeArms(c) \/ WriteChannel(c)
    \/ Generate(c) \/ WriteScript(c) \/ Signal(c)
    \/ CheckGraph(c) \/ InsertTier(c) \/ ChangeTier(c)
    \/ EnsureConfig(c) \/ EnsureTiers(c)

EditRequest(c) ==
    /\ editCall[c] = IdleEdit /\ verbs < MaxVerbs
    /\ \/ \E ch \in Playouts : SetChannel(c, ch)
       \/ \E ch \in Channels :
            \/ \E mode \in {"auto", "manual"} : SetMode(c, ch, mode)
            \/ \E t \in TierIds : SetManualTier(c, ch, t)
            \/ \E new \in NewTiers : CreateTier(c, ch, new)
            \/ TakeQueue(c, ch)
       \/ \E t \in Exists, new \in NewForms : UpdateTier(c, t, new)

EditGoesOn ==
    \/ EngineStart
    \/ \E ch \in Playouts, v \in BOOLEAN : ArmQueue(ch, v)
    \/ \E t \in TierIds : DeleteTier(t)
    \/ \E c \in EditCalls : EditStep(c)

EditNext == EditGoesOn \/ \E c \in EditCalls : EditRequest(c) \/ Crash(c)

EditSpec == EditInit /\ [][EditNext]_editVars

-----------------------------------------------------------------------------
(* Properties *)

\* editorial-control.ts: mode, pin and the set of channels apply by regenerating and
\* restarting.  When the calls are done, unless two had rendered at the same time or one
\* did not get through, the engine runs what is stored.
EngineFollowsStore ==
    (/\ verbs > 0 /\ \A c \in EditCalls : editCall[c] = IdleEdit
     /\ engine.up /\ ~due /\ ~renderedTogether)
    => engine.script = Rendered

\* editorial-config.ts: unless two tiers are validated at the same time, there is no
\* cycle to carry around and no playout channel both has a live tier and carries.
TiersLegal ==
    LET edges == CarryEdges
    IN  ~validatedTogether =>
            /\ \A S \in (SUBSET {e[1] : e \in edges}) \ {{}} :
                  \E c \in S : Sources(c, edges) \cap S = {}
            /\ \A c \in Playouts : ~({"live", "carry"} \subseteq TypesOf(TiersOf(c)))

\* playout-topology.ts: in whatever order the rows come, every channel has one block,
\* after those of the channels it carries.
CarriedFirst ==
    LET edges == carryEdges
    IN  CarryTiers = {} \/ HasCycle(edges) \/
        \A input \in SetToSeqs(rows) :
            LET out == TopoSort(input, edges)
            IN  /\ Len(out) = Len(input) /\ ToSet(out) = rows
                /\ \A i, j \in DOMAIN out : <<out[i], out[j]>> \in edges => j < i
=============================================================================
