------------------------------- MODULE FanMemory -------------------------------
(***************************************************************************)
(* What is remembered about one fan: the facts of one contradiction key,   *)
(* written by the extraction thread and deactivated by the operator        *)
(* (brain2_repository.py, brain2_memory.py, brain2_memory_async.py); the   *)
(* callback to a subject the fan has mentioned; and V3's relationship      *)
(* state, one transition row per field (intelligence_v3/repository.py,     *)
(* state.py, service.py).                                                  *)
(*                                                                         *)
(* Which facts a model reads out of a message, which fields a message      *)
(* moves and whether V3 takes up the callback are choices.  A reply worker *)
(* answers one message of the fan at a time (ReplyPipeline).               *)
(***************************************************************************)
EXTENDS Naturals, Sequences, FiniteSets

CONSTANTS
    Facts,         \* stored under the same contradiction key
    TypeOf,        \* their memory_type
    Fields,        \* of the relationship state
    Messages,      \* the fan's, by provider_created_at
    Mentions,      \* those that name the subject
    Sensitive,     \* those of them that name it as a sensitive one
    Delay, Cooldown,     \* earliest reuse after a mention, after a use; by sensitivity
    MaxNow, MaxWrites, MaxFaults    \* bounds

ASSUME FanMemoryAssumption ==
    /\ TypeOf \in [Facts -> {"personal_fact", "correction", "boundary"}]
    /\ Messages \subseteq Nat \ {0}
    /\ Sensitive \subseteq Mentions /\ Mentions \subseteq Messages
    /\ Delay \in [BOOLEAN -> Nat] /\ Cooldown \in [BOOLEAN -> Nat]
    /\ MaxNow \in Nat /\ MaxWrites \in Nat /\ MaxFaults \in Nat

VARIABLES
    fact,       \* fan_memories_v2: the status of each fact
    extracting, \* the facts the extraction thread has yet to write, and whether it is busy
    said,       \* the fact remembered last, and whether it was known before
    field,      \* fan_state_transitions: the newest row of each field
    callback,   \* fan_callbacks: the subject's row
    turn,       \* the message being answered
    answered,   \* the messages whose reply was delivered
    now, writes, faults

facts == <<fact, extracting, said>>
bounds == <<writes, faults>>
vars == <<facts, field, callback, turn, answered, now, bounds>>

NoFact == [of |-> 0, known |-> FALSE]
Free == [busy |-> FALSE, todo |-> <<>>]
NoTurn == [pc |-> "idle", of |-> 0, left |-> {}, version |-> 0, offered |-> FALSE]
NoCallback == [known |-> FALSE, sensitive |-> FALSE, safeAt |-> 0, usedAt |-> 0, mentionedAt |-> 0]

TypeOK ==
    /\ fact \in [Facts -> {"none", "active", "superseded", "inactive"}]
    /\ extracting \in [busy : BOOLEAN, todo : Seq(Facts)]
    /\ said \in [of : Facts \cup {0}, known : BOOLEAN]
    /\ field \in [Fields -> [source : Messages \cup {0}, version : Nat]]
    /\ callback \in [known : BOOLEAN, sensitive : BOOLEAN, safeAt : Nat, usedAt : Nat,
                     mentionedAt : Nat]
    /\ turn \in [pc : {"idle", "record", "offer", "deliver"}, of : Messages \cup {0},
                 left : SUBSET Fields, version : Nat, offered : BOOLEAN]
    /\ answered \subseteq Messages
    /\ now \in 0..MaxNow /\ writes \in 0..MaxWrites /\ faults \in 0..MaxFaults

Init ==
    /\ fact = [f \in Facts |-> "none"] /\ extracting = Free /\ said = NoFact
    /\ field = [d \in Fields |-> [source |-> 0, version |-> 0]]
    /\ callback = NoCallback /\ turn = NoTurn /\ answered = {}
    /\ now = 0 /\ writes = 0 /\ faults = 0

-----------------------------------------------------------------------------
(* Facts.                                                                  *)

\* The facts a remembered one pushes out: those of its type, and for a
\* correction every one but the boundaries.
Rivals(f) ==
    {g \in Facts \ {f} : IF TypeOf[f] = "correction" THEN TypeOf[g] # "boundary"
                                                     ELSE TypeOf[g] = TypeOf[f]}

\* Mutant: the facts of the type are superseded after the new one is stored.
RememberedThenSuperseded(f) ==
    [g \in Facts |->
        CASE g = f /\ fact[f] = "none" -> "superseded"
          [] g \in Rivals(f) /\ fact[g] = "active" -> "superseded"
          [] OTHER -> fact[g]]

\* remember: a stored fact is confirmed again and keeps its status.
Remembered(f) ==
    [g \in Facts |->
        CASE g = f /\ fact[f] = "none" -> "active"
          [] g \in Rivals(f) /\ fact[g] = "active" -> "superseded"
          [] OTHER -> fact[g]]

\* MemoryExtractionService.submit: one batch of a fan at a time, a further one
\* is dropped.  What the model finds in it, in the order of its answer.
Extract(found) ==
    /\ ~extracting.busy /\ writes + Len(found) <= MaxWrites
    /\ extracting' = [busy |-> TRUE, todo |-> found]
    /\ writes' = writes + Len(found)
    /\ UNCHANGED <<fact, said, field, callback, turn, answered, now, faults>>

Write ==
    /\ extracting.busy /\ extracting.todo # <<>>
    /\ LET f == Head(extracting.todo) IN
          /\ fact' = Remembered(f)
          /\ said' = [of |-> f, known |-> fact[f] \in {"superseded", "inactive"}]
    /\ extracting' = [extracting EXCEPT !.todo = Tail(extracting.todo)]
    /\ UNCHANGED <<field, callback, turn, answered, now, bounds>>

\* _complete; also after an exception, or when the process stops.
Extracted ==
    /\ extracting.busy
    /\ extracting.todo # <<>> => faults < MaxFaults
    /\ faults' = IF extracting.todo # <<>> THEN faults + 1 ELSE faults
    /\ extracting' = Free
    /\ UNCHANGED <<fact, said, field, callback, turn, answered, now, writes>>

\* deactivate
Deactivate(f) ==
    /\ fact[f] = "active" /\ writes < MaxWrites
    /\ fact' = [fact EXCEPT ![f] = "inactive"]
    /\ writes' = writes + 1
    /\ said' = IF said.of = f THEN NoFact ELSE said
    /\ UNCHANGED <<extracting, field, callback, turn, answered, now, faults>>

-----------------------------------------------------------------------------
(* V3's evaluation of a message and the reply to it.                       *)

\* overlay_state: the newest source among the fields, and the highest version.
Newest(values) == CHOOSE n \in values \cup {0} : \A k \in values : k <= n
LastSource == Newest({field[d].source : d \in Fields})
Version == Newest({field[d].version : d \in Fields})

\* Mutant: evidence counts whatever its age.
EvaluateAny(m, moved) ==
    /\ turn.pc = "idle" /\ m <= now /\ m \notin answered
    /\ turn' = [pc |-> "record", of |-> m, left |-> moved, version |-> Version + 1,
                offered |-> FALSE]
    /\ UNCHANGED <<facts, field, callback, answered, now, bounds>>

\* _evaluate up to the reducer: evidence that is not newer than the last is
\* stale and moves nothing; the fields that differ get a row each.
Evaluate(m, moved) ==
    /\ turn.pc = "idle" /\ m <= now /\ m \notin answered
    /\ turn' = IF m > LastSource
               THEN [pc |-> "record", of |-> m, left |-> moved, version |-> Version + 1,
                     offered |-> FALSE]
               ELSE [pc |-> "offer", of |-> m, left |-> {}, version |-> 0, offered |-> FALSE]
    /\ UNCHANGED <<facts, field, callback, answered, now, bounds>>

\* record_transition
Record(d) ==
    /\ turn.pc = "record" /\ d \in turn.left
    /\ field' = [field EXCEPT ![d] = [source |-> turn.of, version |-> turn.version]]
    /\ turn' = [turn EXCEPT !.left = turn.left \ {d}]
    /\ UNCHANGED <<facts, callback, answered, now, bounds>>

\* infer_callback and upsert_callback: the row of the subject is replaced.
Mentioned(m) ==
    LET sensitive == m \in Sensitive IN
    [callback EXCEPT !.known = TRUE, !.sensitive = sensitive,
                     !.safeAt = m + Delay[sensitive], !.mentionedAt = now]

Recorded ==
    /\ turn.pc = "record" /\ turn.left = {}
    /\ callback' = IF turn.of \in Mentions THEN Mentioned(turn.of) ELSE callback
    /\ turn' = [turn EXCEPT !.pc = "offer"]
    /\ UNCHANGED <<facts, field, answered, now, bounds>>

\* relevant_callbacks offers the subject to the planner, which may take it up.
Offered == callback.known /\ callback.safeAt <= now

Draft(takeUp) ==
    /\ turn.pc = "offer"
    /\ takeUp => Offered
    /\ turn' = [turn EXCEPT !.pc = "deliver", !.offered = takeUp]
    /\ UNCHANGED <<facts, field, callback, answered, now, bounds>>

\* Mutant: the use is noted, and the subject may be taken up at once.
UsedOnly == [callback EXCEPT !.usedAt = now]

\* mark_callback_used, by the sensitivity of its last mention.
Used == [callback EXCEPT !.usedAt = now, !.safeAt = now + Cooldown[callback.sensitive]]

Deliver ==
    /\ turn.pc = "deliver"
    /\ callback' = IF turn.offered THEN Used ELSE callback
    /\ turn' = NoTurn
    /\ answered' = answered \cup {turn.of}
    /\ UNCHANGED <<facts, field, now, bounds>>

\* An exception, a refused text or a stop: the message is answered again, or
\* never; a delivery without an answer (ReplyPipeline) marks nothing.
Abandon ==
    /\ turn.pc # "idle" /\ faults < MaxFaults
    /\ faults' = faults + 1
    /\ turn' = NoTurn
    /\ UNCHANGED <<facts, field, callback, answered, now, writes>>

Tick ==
    /\ now < MaxNow /\ now' = now + 1
    /\ UNCHANGED <<facts, field, callback, turn, answered, bounds>>

Batches == {<<f>> : f \in Facts} \cup {<<f, g>> : f, g \in Facts}

Next ==
    \/ \E found \in Batches : Extract(found)
    \/ Write \/ Extracted \/ \E f \in Facts : Deactivate(f)
    \/ \E m \in Messages, moved \in SUBSET Fields : Evaluate(m, moved)
    \/ \E d \in Fields : Record(d)
    \/ Recorded \/ \E takeUp \in BOOLEAN : Draft(takeUp)
    \/ Deliver \/ Abandon \/ Tick

Spec == Init /\ [][Next]_vars

-----------------------------------------------------------------------------
\* Facts of one type under one key never contradict each other: at most one is
\* active (remember, whatever the order of the answers and the corrections).
OneActivePerType ==
    \A f, g \in Facts : fact[f] = "active" /\ fact[g] = "active" /\ TypeOf[f] = TypeOf[g] => f = g

\* What the fan said last is what is remembered, unless it was said before and
\* superseded or deactivated since: such a fact stays out and pushes its rivals
\* out too (remember does not touch the status of a stored fact).
SaidIsActive == said.of # 0 /\ ~said.known => fact[said.of] = "active"

\* "Deactivation immediately removes a fact from future retrieval": no
\* extraction brings it back.
DeactivatedStaysOut ==
    [][\A f \in Facts : fact[f] = "inactive" => fact'[f] = "inactive"]_vars

\* Evidence only grows: a field never goes back to an older message, although a
\* retry may come between the rows of one evaluation (reduce, record_transition).
StateNeverStale ==
    [][\A d \in Fields : field'[d].source >= field[d].source
                         /\ field'[d].version >= field[d].version]_vars

\* A subject whose use was confirmed is taken up again before its cooldown has
\* run out only after the fan has named it again (upsert_callback).
CooldownUnlessMentioned ==
    [][turn'.offered /\ ~turn.offered /\ callback.usedAt > 0 =>
          \/ now >= callback.usedAt + Cooldown[callback.sensitive]
          \/ callback.mentionedAt >= callback.usedAt]_vars
=============================================================================
