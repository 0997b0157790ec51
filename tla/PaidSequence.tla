----------------------------- MODULE PaidSequence -----------------------------
(***************************************************************************)
(* Paid messages of one fan: sequences/ chooses the next step, bot.py      *)
(* prepares, persists and delivers it, persistence/pipeline.py records the *)
(* delivery, persistence/purchases.py applies the provider's purchase, and *)
(* the dashboard edits the sequences meanwhile.  The worker and the web    *)
(* thread share the tables; the fan's session is in the worker's memory.   *)
(*                                                                         *)
(* Whether a message is a refusal, shows engagement or makes the fan ready *)
(* is read off its words: a choice here.  A step's id is new whenever its  *)
(* sequence is saved: it is named by that edition and its position.        *)
(***************************************************************************)
EXTENDS Naturals, Sequences, FiniteSets

CONSTANTS
    Ladders,      \* ppv_sequences, numbered in the order of creation
    Bonus,        \* what the trigger adds to the score
    OfferStage,   \* the ladders whose funnel_stage is "offer"
    Lengths,      \* numbers of steps at the start
    MaxLength, MaxRows, MaxVersion, MaxEdits, MaxStops    \* bounds

ASSUME LaddersAssumption ==
    /\ Ladders \subseteq Nat \ {0} /\ IsFiniteSet(Ladders) /\ OfferStage \subseteq Ladders
    /\ Bonus \in [Ladders -> {0, 3, 5, 8}]
    /\ Lengths \in [Ladders -> 1..MaxLength]
ASSUME BoundsAssumption ==
    /\ MaxLength \in Nat /\ MaxRows \in Nat /\ MaxVersion \in Nat
    /\ MaxEdits \in Nat /\ MaxStops \in Nat

VARIABLES
    ladder,     \* exists, active, edition and number of steps
    progress,   \* fan_sequence_progress, status "none" without a row
    outbox,     \* the fan's PPV rows in the order of their ids
    state,      \* fan_runtime_states; version 0 without a row
    session,    \* the FanSession in memory, and the version it knows
    worker,     \* what the worker does, and the step it has chosen
    paid,       \* per row: what became of the fan's purchase
    purchases,  \* fan_notes.purchase_count
    edits, stops

vars == <<ladder, progress, outbox, state, session, worker, paid, purchases, edits, stops>>

Phases == {"rapport", "tease", "offer", "handle", "close", "aftercare"}

NoProgress == [step |-> 0, status |-> "none"]
NoDraft == [ladder |-> 0, edition |-> 0, position |-> 0]
Idle == [pc |-> "idle", draft |-> NoDraft, row |-> 0]
NewSession == [loaded |-> FALSE, phase |-> "rapport", bought |-> 0, rejections |-> 0,
               cooldown |-> FALSE, known |-> 0]

Rows == 1..MaxRows
Steps == [ladder : Ladders, edition : 0..MaxEdits, position : 1..MaxLength]

TypeOK ==
    /\ ladder \in [Ladders -> [exists : BOOLEAN, active : BOOLEAN, edition : 0..MaxEdits,
                               length : 1..MaxLength]]
    /\ progress \in [Ladders -> [step : 0..MaxLength + 1,
                                 status : {"none", "pending", "sent", "bought"}]]
    /\ outbox \in Seq([step : Steps, accepted : BOOLEAN,
                       status : {"pending", "sending", "sent", "unknown"}])
    /\ Len(outbox) <= MaxRows
    /\ state \in [phase : Phases, bought : Nat, rejections : Nat, cooldown : BOOLEAN,
                  version : Nat]
    /\ session \in [loaded : BOOLEAN, phase : Phases, bought : Nat, rejections : Nat,
                    cooldown : BOOLEAN, known : Nat]
    /\ worker \in [pc : {"idle", "load", "save", "enqueue", "claim", "send", "complete"},
                   draft : Steps \cup {NoDraft}, row : 0..MaxRows]
    /\ paid \in [Rows -> {"no", "ordered", "applied", "refused"}]
    /\ purchases \in Nat
    /\ edits \in 0..MaxEdits /\ stops \in 0..MaxStops

Init ==
    /\ ladder = [l \in Ladders |-> [exists |-> TRUE, active |-> TRUE, edition |-> 0,
                                    length |-> Lengths[l]]]
    /\ progress = [l \in Ladders |-> NoProgress]
    /\ outbox = <<>>
    /\ state = [phase |-> "rapport", bought |-> 0, rejections |-> 0, cooldown |-> FALSE,
                version |-> 0]
    /\ session = NewSession
    /\ worker = Idle
    /\ paid = [r \in Rows |-> "no"]
    /\ purchases = 0
    /\ edits = 0 /\ stops = 0

-----------------------------------------------------------------------------
(* SequenceEngine.get_next_ppv and SequenceRepository.                     *)

\* get_active_sequences_for_fan
ActiveLadders ==
    {l \in Ladders : ladder[l].exists /\ ladder[l].active /\ progress[l].status # "bought"}

\* Those of the offer stage, or any when there is none.
Matching == IF ActiveLadders \cap OfferStage # {} THEN ActiveLadders \cap OfferStage
                                                  ELSE ActiveLadders

Score(l) == (IF progress[l].status = "none" THEN 10 ELSE 0) + Bonus[l]
            + (IF ladder[l].length < 5 THEN ladder[l].length ELSE 5)

\* The highest score, the newest sequence among equals.
Better(l, k) == Score(l) > Score(k) \/ (Score(l) = Score(k) /\ l > k)
BestLadder == CHOOSE l \in Matching : \A k \in Matching \ {l} : Better(l, k)

\* Mutant: a step whose purchase is not known is offered again.
LastPosition(l) == IF progress[l].step < 2 THEN 1
                   ELSE IF progress[l].status = "sent" THEN progress[l].step - 1
                   ELSE progress[l].step

NextPosition(l) == IF progress[l].status = "none" THEN 1 ELSE progress[l].step

HasStep(l, position) == position \in 1..ladder[l].length

\* The step to offer, NoDraft when get_next_ppv returns None.
NextPPV ==
    IF Matching # {} /\ HasStep(BestLadder, NextPosition(BestLadder))
    THEN [ladder |-> BestLadder, edition |-> ladder[BestLadder].edition,
          position |-> NextPosition(BestLadder)]
    ELSE NoDraft

\* A step's row in ppv_steps is still there.
StepExists(s) == /\ ladder[s.ladder].exists
                 /\ ladder[s.ladder].edition = s.edition
                 /\ s.position <= ladder[s.ladder].length

-----------------------------------------------------------------------------
(* SpiralStateMachine: the transitions and the cooldown.                   *)

AllowedTransitions ==
    {<<"rapport", "tease">>, <<"tease", "offer">>, <<"tease", "rapport">>,
     <<"offer", "handle">>, <<"offer", "tease">>, <<"handle", "close">>,
     <<"handle", "offer">>, <<"close", "aftercare">>, <<"aftercare", "rapport">>}

\* transition: refused unless allowed; the loop back ends a cooldown.
Transition(s, phase) ==
    IF <<s.phase, phase>> \in AllowedTransitions
    THEN [s EXCEPT !.phase = phase, !.cooldown = @ /\ phase # "rapport"]
    ELSE s

RecordRejection(s) ==
    [s EXCEPT !.rejections = @ + 1, !.cooldown = @ \/ s.rejections + 1 >= 2]

Selling(s) == s.phase \in {"offer", "handle"}

\* What _prepare_message does to the session before it chooses a reply.
Heard(s, refusal, engaged) ==
    LET told == IF Selling(s) /\ refusal THEN RecordRejection(s) ELSE s IN
    IF ~told.cooldown THEN told
    ELSE IF engaged THEN [told EXCEPT !.cooldown = FALSE]
    ELSE IF Selling(told) THEN Transition(told, "rapport")
    ELSE told

\* _generate_reply: a ready fan moves from rapport to tease to offer.
Advanced(s, ready) ==
    IF ~ready THEN s
    ELSE IF s.phase = "rapport" THEN Transition(s, "tease")
    ELSE IF s.phase = "tease" THEN Transition(s, "offer")
    ELSE s

Loaded == IF session.loaded THEN session
          ELSE [loaded |-> TRUE, phase |-> state.phase, bought |-> state.bought,
                rejections |-> state.rejections, cooldown |-> state.cooldown,
                known |-> state.version]

-----------------------------------------------------------------------------
(* The worker.  A row that is pending belongs to an inbound message that   *)
(* is older than any new one, and is resumed first.                        *)

Pending == {r \in DOMAIN outbox : outbox[r].status = "pending"}
Work(pc, draft, row) == worker' = [pc |-> pc, draft |-> draft, row |-> row]

Prepare(refusal, engaged, ready) ==
    LET heard == Heard(Loaded, refusal, engaged) IN
    /\ worker.pc = "idle" /\ Pending = {}
    /\ state.version < MaxVersion
    /\ session' = Advanced(heard, ready)
    /\ Work("load", IF heard.phase = "offer" /\ Len(outbox) < MaxRows
                    THEN NextPPV ELSE NoDraft, 0)
    /\ UNCHANGED <<ladder, progress, outbox, state, paid, purchases, edits, stops>>

\* _persist_runtime_state, the read: a version the session does not know
\* carries purchases, which are merged.
PersistLoad ==
    /\ worker.pc = "load"
    /\ session' =
          IF state.version = 0 \/ state.version = session.known
          THEN session
          ELSE [session EXCEPT !.bought = IF @ > state.bought THEN @ ELSE state.bought,
                               !.rejections = state.rejections,
                               !.known = state.version]
    /\ worker' = [worker EXCEPT !.pc = "save"]
    /\ UNCHANGED <<ladder, progress, outbox, state, paid, purchases, edits, stops>>

\* Mutant: the version is not compared before the session is written.
SaveUnconditionally ==
    /\ worker.pc = "save"
    /\ state' = [phase |-> session.phase, bought |-> session.bought,
                 rejections |-> session.rejections, cooldown |-> session.cooldown,
                 version |-> state.version + 1]
    /\ session' = [session EXCEPT !.known = state.version + 1]
    /\ worker' = IF worker.draft = NoDraft THEN Idle ELSE [worker EXCEPT !.pc = "enqueue"]
    /\ UNCHANGED <<ladder, progress, outbox, paid, purchases, edits, stops>>

\* The write, compared and set by version; its failure is only logged.
PersistSave ==
    /\ worker.pc = "save"
    /\ IF state.version = session.known
       THEN /\ state' = [phase |-> session.phase, bought |-> session.bought,
                         rejections |-> session.rejections, cooldown |-> session.cooldown,
                         version |-> state.version + 1]
            /\ session' = [session EXCEPT !.known = state.version + 1]
       ELSE UNCHANGED <<state, session>>
    /\ worker' = IF worker.draft = NoDraft THEN Idle ELSE [worker EXCEPT !.pc = "enqueue"]
    /\ UNCHANGED <<ladder, progress, outbox, paid, purchases, edits, stops>>

Enqueue ==
    /\ worker.pc = "enqueue"
    /\ outbox' = Append(outbox, [step |-> worker.draft, accepted |-> FALSE,
                                 status |-> "pending"])
    /\ Work("claim", NoDraft, Len(outbox) + 1)
    /\ UNCHANGED <<ladder, progress, state, session, paid, purchases, edits, stops>>

Resume(r) ==
    /\ worker.pc = "idle"
    /\ r \in Pending
    /\ Work("claim", NoDraft, r)
    /\ UNCHANGED <<ladder, progress, outbox, state, session, paid, purchases, edits, stops>>

Claim ==
    /\ worker.pc = "claim"
    /\ outbox' = [outbox EXCEPT ![worker.row].status = "sending"]
    /\ worker' = [worker EXCEPT !.pc = "send"]
    /\ UNCHANGED <<ladder, progress, state, session, paid, purchases, edits, stops>>

\* The provider confirms the message and its purchase reference.
SendConfirmed ==
    /\ worker.pc = "send"
    /\ outbox' = [outbox EXCEPT ![worker.row].accepted = TRUE]
    /\ worker' = [worker EXCEPT !.pc = "complete"]
    /\ UNCHANGED <<ladder, progress, state, session, paid, purchases, edits, stops>>

\* No answer, or one without a message id or a purchase reference.
SendUnknown(accepted) ==
    /\ worker.pc = "send"
    /\ outbox' = [outbox EXCEPT ![worker.row].accepted = accepted,
                                ![worker.row].status = "unknown"]
    /\ worker' = Idle
    /\ UNCHANGED <<ladder, progress, state, session, paid, purchases, edits, stops>>

\* complete_delivery: raises when the step is gone, and the row stays sending.
Complete ==
    LET s == outbox[worker.row].step IN
    /\ worker.pc = "complete"
    /\ IF StepExists(s)
       THEN /\ outbox' = [outbox EXCEPT ![worker.row].status = "sent"]
            /\ progress' = [progress EXCEPT ![s.ladder] =
                               [step |-> s.position + 1, status |-> "sent"]]
            /\ Work("load", NoDraft, 0)
       ELSE /\ worker' = Idle
            /\ UNCHANGED <<outbox, progress>>
    /\ UNCHANGED <<ladder, state, session, paid, purchases, edits, stops>>

\* The process stops; recover_interrupted settles what it was sending.
Restart ==
    /\ stops < MaxStops
    /\ stops' = stops + 1
    /\ session' = NewSession
    /\ worker' = Idle
    /\ outbox' = [r \in DOMAIN outbox |->
                    IF outbox[r].status = "sending"
                    THEN [outbox[r] EXCEPT !.status = "unknown"] ELSE outbox[r]]
    /\ UNCHANGED <<ladder, progress, state, paid, purchases, edits>>

-----------------------------------------------------------------------------
(* The web thread.                                                         *)

\* The fan buys a message the provider has; each message sells once.
Buy(r) ==
    /\ r \in DOMAIN outbox
    /\ outbox[r].accepted
    /\ paid[r] = "no"
    /\ paid' = [paid EXCEPT ![r] = "ordered"]
    /\ UNCHANGED <<ladder, progress, outbox, state, session, worker, purchases, edits, stops>>

\* record_attributed_purchase finds the sent row by its purchase reference and
\* the fan waiting at the step after it.
Attributable(r) ==
    LET s == outbox[r].step IN
    /\ outbox[r].status = "sent"
    /\ StepExists(s)
    /\ progress[s.ladder] = [step |-> s.position + 1, status |-> "sent"]
    /\ state.version > 0

Apply(r) ==
    LET s == outbox[r].step IN
    /\ r \in DOMAIN outbox
    /\ paid[r] \in {"ordered", "refused"}
    /\ Attributable(r)
    /\ paid' = [paid EXCEPT ![r] = "applied"]
    /\ progress' = [progress EXCEPT ![s.ladder] =
          IF HasStep(s.ladder, s.position + 1)
          THEN [step |-> s.position + 1, status |-> "pending"]
          ELSE [step |-> 0, status |-> "bought"]]
    /\ purchases' = purchases + 1
    /\ state' = [state EXCEPT !.bought = @ + 1, !.rejections = 0, !.version = @ + 1]
    /\ UNCHANGED <<ladder, outbox, session, worker, edits, stops>>

\* ValueError: the webhook is answered 409.
Refuse(r) ==
    /\ r \in DOMAIN outbox
    /\ paid[r] = "ordered"
    /\ ~Attributable(r)
    /\ paid' = [paid EXCEPT ![r] = "refused"]
    /\ UNCHANGED <<ladder, progress, outbox, state, session, worker, purchases, edits, stops>>

\* save_sequence_with_steps: every step is deleted and inserted again.
Edit(l, length, active) ==
    /\ edits < MaxEdits
    /\ ladder[l].exists
    /\ edits' = edits + 1
    /\ ladder' = [ladder EXCEPT ![l] = [exists |-> TRUE, active |-> active,
                                        edition |-> edits + 1, length |-> length]]
    /\ UNCHANGED <<progress, outbox, state, session, worker, paid, purchases, stops>>

\* delete_sequence takes the steps and the progress with it.
Delete(l) ==
    /\ edits < MaxEdits
    /\ ladder[l].exists
    /\ edits' = edits + 1
    /\ ladder' = [ladder EXCEPT ![l] = [ladder[l] EXCEPT !.exists = FALSE]]
    /\ progress' = [progress EXCEPT ![l] = NoProgress]
    /\ UNCHANGED <<outbox, state, session, worker, paid, purchases, stops>>

Worker ==
    \/ \E refusal, engaged, ready \in BOOLEAN : Prepare(refusal, engaged, ready)
    \/ PersistLoad \/ PersistSave \/ Enqueue \/ Claim
    \/ SendConfirmed \/ \E accepted \in BOOLEAN : SendUnknown(accepted)
    \/ Complete \/ Restart
    \/ \E r \in Rows : Resume(r)

Web ==
    \/ \E r \in Rows : Buy(r) \/ Apply(r) \/ Refuse(r)
    \/ \E l \in Ladders : \/ \E n \in 1..MaxLength, active \in BOOLEAN : Edit(l, n, active)
                          \/ Delete(l)

Next == Worker \/ Web

Spec == Init /\ [][Next]_vars

-----------------------------------------------------------------------------
\* Every purchase counts once in the fan's note and once in the runtime state,
\* whatever a stale session writes back (record_attributed_purchase,
\* _persist_runtime_state, save_state).
CountedOnce ==
    LET applied == Cardinality({r \in Rows : paid[r] = "applied"}) IN
    purchases = applied /\ state.bought = applied

\* A step that reached the fan is offered again only after a delivery whose
\* outcome is unknown, or when the sequence was saved anew (_mark_ppv_sent).
NotOfferedTwice ==
    \A r, q \in DOMAIN outbox :
        r < q /\ outbox[r].step = outbox[q].step => outbox[r].status # "sent"

=============================================================================
