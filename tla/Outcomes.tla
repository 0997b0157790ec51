------------------------------- MODULE Outcomes -------------------------------
(***************************************************************************)
(* Which reply each delivered turn is credited with, for one fan.  The     *)
(* reply worker delivers a turn and then writes its outcome row; a message *)
(* of the fan is stored, then sweeps the creator's old rows shut, then is  *)
(* credited to a row, in three transactions.  The automatic rollback       *)
(* judges the live brain by the rows that are shut.                        *)
(***************************************************************************)
EXTENDS Integers, FiniteSets, FiniteSetsExt

Nobody == "nobody"

CONSTANTS
    Turns,      \* the turns sent to the fan, in order: 1..n
    Replies,    \* the fan's messages, which may arrive in any order
    Rude,       \* those with a marker such as "leave me alone"
    Window,     \* outcome_window_hours
    MaxNow      \* the bound on the clock

ASSUME OutcomesAssumption ==
    /\ IsFiniteSet(Turns) /\ Turns \subseteq Int
    /\ IsFiniteSet(Replies) /\ Nobody \notin Replies
    /\ Window \in Nat /\ MaxNow \in Nat

VARIABLES
    clock,
    sent,       \* outbox_messages.sent_at of a turn, 0 before it is delivered
    row,        \* conversation_outcomes, by turn
    at,         \* provider_created_at of an inbound row, 0 before it is stored
    step,       \* where the attribution of a message stands
    unseen      \* turns without a row when a message swept (history)

outcomeVars == <<clock, sent, row, at, step, unseen>>

OutcomesInit ==
    /\ clock = 1
    /\ sent = [t \in Turns |-> 0]
    /\ row = [t \in Turns |-> [status |-> "none", reply |-> Nobody, turns |-> 0, rude |-> FALSE]]
    /\ at = [r \in Replies |-> 0]
    /\ step = [r \in Replies |-> "none"]
    /\ unseen = [r \in Replies |-> {}]

Tick ==
    /\ clock < MaxNow
    /\ clock' = clock + 1
    /\ UNCHANGED <<sent, row, at, step, unseen>>

-----------------------------------------------------------------------------
\* The reply worker.  complete_delivery commits before the row is written.
Deliver(t) ==
    /\ sent[t] = 0
    /\ \A u \in Turns : u < t => sent[u] < clock /\ row[u].status # "none"
    /\ sent' = [sent EXCEPT ![t] = clock]
    /\ UNCHANGED <<clock, row, at, step, unseen>>

\* The row is written, or a stop or a database error leaves the turn without one for good.
Record(t, status) ==
    /\ sent[t] > 0
    /\ row[t].status = "none"
    /\ status \in {"open", "lost"}
    /\ row' = [row EXCEPT ![t].status = status]
    /\ UNCHANGED <<clock, sent, at, step, unseen>>

-----------------------------------------------------------------------------
\* A message is stored by a webhook, a poll or the backlog, at the provider's time of it.
Store(r, when) ==
    /\ step[r] = "none"
    /\ when \in 1..clock
    /\ at' = [at EXCEPT ![r] = when]
    /\ step' = [step EXCEPT ![r] = "stored"]
    /\ UNCHANGED <<clock, sent, row, unseen>>

Expired(t, when) == row[t].status = "open" /\ sent[t] <= when - Window

Sweep(r) ==
    /\ step[r] = "stored"
    /\ row' = [t \in Turns |-> IF Expired(t, at[r]) THEN [row[t] EXCEPT !.status = "closed"] ELSE row[t]]
    /\ step' = [step EXCEPT ![r] = "swept"]
    /\ unseen' = [unseen EXCEPT ![r] = {t \in Turns : row[t].status = "none"}]
    /\ UNCHANGED <<clock, sent, at>>

\* The newest turn nobody answered yet, or else the newest one that was answered.
Eligible(r) == {t \in Turns : row[t].status = "open" /\ sent[t] <= at[r]}
Unanswered(r) == {t \in Eligible(r) : row[t].reply = Nobody}
\* Mutant: Any open row is taken, answered or not.
ChosenAsAnswered(r) == Min(Eligible(r))
Chosen(r) == Max(IF Unanswered(r) # {} THEN Unanswered(r) ELSE Eligible(r))

\* Messages of the fan after the turn and up to this one, stored by now.
DurableTurns(t, r) == Cardinality({q \in Replies : at[q] > sent[t] /\ at[q] <= at[r]})

Credit(r) ==
    /\ step[r] = "swept"
    /\ step' = [step EXCEPT ![r] = "done"]
    /\ IF Eligible(r) = {}
       THEN row' = row
       ELSE LET t == Chosen(r)
                first == row[t].reply = Nobody
            IN row' = [row EXCEPT ![t] =
                   [status |-> "open",
                    reply |-> IF first THEN r ELSE row[t].reply,
                    turns |-> Max({DurableTurns(t, r), IF first THEN 1 ELSE row[t].turns}),
                    rude |-> row[t].rude \/ r \in Rude]]
    /\ UNCHANGED <<clock, sent, at, unseen>>

\* An error or a stop: the message is not new when it comes again.
Abandon(r) ==
    /\ step[r] \in {"stored", "swept"}
    /\ step' = [step EXCEPT ![r] = "lost"]
    /\ UNCHANGED <<clock, sent, row, at, unseen>>

\* A message of another fan of the creator sweeps these rows too.
SweptByOther(when) ==
    /\ when \in 1..clock
    /\ \E t \in Turns : Expired(t, when)
    /\ row' = [t \in Turns |-> IF Expired(t, when) THEN [row[t] EXCEPT !.status = "closed"] ELSE row[t]]
    /\ UNCHANGED <<clock, sent, at, step, unseen>>

OutcomesNext ==
    \/ Tick
    \/ \E t \in Turns : Deliver(t) \/ \E status \in {"open", "lost"} : Record(t, status)
    \/ \E r \in Replies, when \in 1..MaxNow : Store(r, when)
    \/ \E r \in Replies : Sweep(r) \/ Credit(r) \/ Abandon(r)
    \/ \E when \in 1..MaxNow : SweptByOther(when)

OutcomesSpec == OutcomesInit /\ [][OutcomesNext]_outcomeVars

-----------------------------------------------------------------------------
Answered(t) == row[t].reply # Nobody

\* A reply is credited to a turn inside the window, and to an older turn only when every
\* newer turn it may answer is answered already, shut, or had no row yet; and no turn counts
\* more messages than the fan sent after it (attribute_inbound_reply after close_expired),
\* with messages that come late, out of order, or while the row is being written.
CreditsJustified ==
    /\ \A t \in Turns, r \in Replies : row[t].reply = r =>
        /\ sent[t] <= at[r]
        /\ at[r] - sent[t] >= Window => t \in unseen[r]
        /\ \A u \in Turns :
              u > t /\ sent[u] > 0 /\ sent[u] <= at[r] /\ u \notin unseen[r] =>
                  Answered(u) \/ row[u].status # "open"
    /\ \A t \in Turns :
          row[t].turns <= Max({1, Cardinality({q \in Replies : at[q] > sent[t]})})
=============================================================================
