------------------------------- MODULE FanTurns -------------------------------
(***************************************************************************)
(* human_delivery: webhook messages of a fan are grouped into turns, a     *)
(* shadow worker plans an answer to a turn that went quiet, and a new      *)
(* message, a creator's own send or the kill switch cancels open work.     *)
(* The shadow worker is not started yet: only tests call close_ready and   *)
(* plan_shadow.  It is modelled as one thread per planner that calls them. *)
(*                                                                         *)
(* The web server handles webhooks and dashboard requests on one thread    *)
(* (main.py:731), so a receiver is a process; every transaction of a       *)
(* request is an action of its own, because a stop, an exception (swallowed*)
(* by bot.py) or the shadow worker may come between two of them.           *)
(* A turn is named by the message that opened it (turn_key).               *)
(***************************************************************************)
EXTENDS Integers, FiniteSets, FiniteSetsExt

CONSTANTS
    Messages,     \* webhook messages of allowed fans, numbered in row order
    Sends,        \* creator sends (observe_creator_send) and deletions
    FanOf,        \* the fan, and so the chat, of a message or a send
    At,           \* provider_created_at of a message
    Debounce, Window, MaxMessages,     \* 4 s, 12 s and 8 by default
    Receivers, Planners,
    MaxNow, MaxStops, MaxSwitches      \* bounds of the checked instance

Events == Messages \cup Sends

ASSUME EventsAssumption ==
    /\ Messages \subseteq Nat \ {0} /\ Messages \cap Sends = {} /\ 0 \notin Sends
    /\ DOMAIN FanOf = Events
    /\ At \in [Messages -> Nat]
    /\ Receivers \cap Planners = {}
ASSUME SettingsAssumption ==
    /\ Debounce \in 1..15 /\ Window \in Debounce..30 /\ MaxMessages \in 1..20
    /\ MaxNow \in Nat /\ MaxStops \in Nat /\ MaxSwitches \in Nat

VARIABLES
    stored,     \* events whose ledger row (and inbound row) is committed
    turn,       \* fan_turns
    link,       \* fan_turn_inbound_links: the turn of a message, 0 for none
    plan,       \* human_response_plans, and their bubbles, by turn
    observing,  \* settings.observation_enabled
    receiver,   \* what the request thread of each process is doing
    planner,    \* the turn whose model call is running, 0 for none
    now,
    missed,     \* events whose observation was skipped or interrupted
    basis,      \* events stored when the plan of a turn was saved
    stops, switches

rows == <<stored, turn, link, plan>>
vars == <<rows, observing, receiver, planner, now, missed, basis, stops, switches>>

Open == {"collecting", "ready", "planned"}
NoTurn == [status |-> "none", started |-> 0, latest |-> 0, closes |-> 0, quiet |-> 0]
Idle == [pc |-> "idle", event |-> 0]
Members(t) == {m \in Messages : link[m] = t}
TurnsOf(fan) == {t \in Messages : FanOf[t] = fan}

TypeOK ==
    /\ stored \subseteq Events
    /\ turn \in [Messages -> [status : Open \cup {"none", "cancelled"},
                              started : Nat, latest : Nat, closes : Nat, quiet : Nat]]
    /\ link \in [Messages -> Messages \cup {0}]
    /\ plan \in [Messages -> {"none", "shadow", "cancelled"}]
    /\ observing \in BOOLEAN
    /\ receiver \in [Receivers -> [pc : {"idle", "plans", "turns", "allPlans", "allTurns"},
                                   event : Events \cup {0}]]
    /\ planner \in [Planners -> Messages \cup {0}]
    /\ now \in Nat /\ stops \in Nat /\ switches \in Nat
    /\ missed \subseteq stored
    /\ basis \in [Messages -> SUBSET Events]
    /\ \A t \in Messages : (turn[t].status = "none") = (Members(t) = {})
    /\ \A m \in Messages : link[m] # 0 => m \in stored

Init ==
    /\ stored = {}
    /\ turn = [t \in Messages |-> NoTurn]
    /\ link = [m \in Messages |-> 0]
    /\ plan = [t \in Messages |-> "none"]
    /\ observing = TRUE
    /\ receiver = [r \in Receivers |-> Idle]
    /\ planner = [p \in Planners |-> 0]
    /\ now = 0
    /\ missed = {}
    /\ basis = [t \in Messages |-> {}]
    /\ stops = 0 /\ switches = 0

-----------------------------------------------------------------------------
(* Receiving.  An event that is already stored is not `created`: its       *)
(* redelivery changes nothing, whatever became of the first delivery.      *)

Go(r, pc, e) == receiver' = [receiver EXCEPT ![r] = [pc |-> pc, event |-> e]]

Receive(r, e) ==
    /\ receiver[r] = Idle
    /\ e \notin stored
    /\ e \in Messages => At[e] <= now
    /\ stored' = stored \cup {e}
    /\ IF observing
       THEN Go(r, "plans", e) /\ UNCHANGED missed
       ELSE missed' = missed \cup {e} /\ UNCHANGED receiver
    /\ UNCHANGED <<turn, link, plan, observing, planner, now, basis, stops, switches>>

\* Mutant: only the plans of turns that still collect are cancelled.
CancelCollecting(turns) ==
    [t \in Messages |-> IF t \in turns /\ plan[t] = "shadow" /\ turn[t].status = "collecting"
                        THEN "cancelled" ELSE plan[t]]

\* HumanResponsePlanRepository.cancel_open_for_fan and cancel_all_open.
CancelledPlans(turns) ==
    [t \in Messages |-> IF t \in turns /\ plan[t] = "shadow" THEN "cancelled" ELSE plan[t]]

\* FanTurnRepository.cancel_open_for_fan and cancel_all_open.
CancelledTurns(turns) ==
    [t \in Messages |-> IF t \in turns /\ turn[t].status \in Open
                        THEN [turn[t] EXCEPT !.status = "cancelled"]
                        ELSE turn[t]]

CancelPlans(r) ==
    /\ receiver[r].pc = "plans"
    /\ plan' = CancelledPlans(TurnsOf(FanOf[receiver[r].event]))
    /\ Go(r, "turns", receiver[r].event)
    /\ UNCHANGED <<stored, turn, link, observing, planner, now, missed, basis, stops, switches>>

CancelTurns(r) ==
    /\ receiver[r].pc = "turns"
    /\ receiver[r].event \in Sends
    /\ turn' = CancelledTurns(TurnsOf(FanOf[receiver[r].event]))
    /\ receiver' = [receiver EXCEPT ![r] = Idle]
    /\ UNCHANGED <<stored, link, plan, observing, planner, now, missed, basis, stops, switches>>

-----------------------------------------------------------------------------
(* add_inbound: the open turn heard from last that the message still fits, *)
(* unless that one is full.                                                *)

Abs(n) == IF n < 0 THEN -n ELSE n

Fits(m, t) ==
    /\ FanOf[t] = FanOf[m]
    /\ turn[t].status = "collecting"
    /\ Abs(At[m] - turn[t].started) <= Window
    /\ At[m] <= turn[t].closes

Candidates(m) ==
    {t \in Messages : Fits(m, t) /\ \A u \in Messages : Fits(m, u) => turn[u].latest <= turn[t].latest}

QuietUntil(latest, closes) == Min({closes, latest + Debounce})

NewTurn(m) ==
    [status |-> "collecting", started |-> At[m], latest |-> At[m],
     closes |-> At[m] + Window, quiet |-> At[m] + Debounce]

Widened(m, t) ==
    LET started == Min({turn[t].started, At[m]})
        latest  == Max({turn[t].latest, At[m]})
        closes  == started + Window
    IN [status |-> "collecting", started |-> started, latest |-> latest,
        closes |-> closes, quiet |-> QuietUntil(latest, closes)]

Full(t) == Cardinality(Members(t)) >= MaxMessages

Join(m, t) ==
    /\ t \in Candidates(m)
    /\ ~Full(t)
    /\ turn' = [turn EXCEPT ![t] = Widened(m, t)]
    /\ link' = [link EXCEPT ![m] = t]

Start(m) ==
    /\ Candidates(m) = {} \/ \E t \in Candidates(m) : Full(t)
    /\ turn' = [turn EXCEPT ![m] = NewTurn(m)]
    /\ link' = [link EXCEPT ![m] = m]

\* Mutant: a message that meets a full turn is left out.
AddUnlessFull(r) ==
    LET m == receiver[r].event IN
    /\ receiver[r].pc = "turns"
    /\ m \in Messages
    /\ \/ Candidates(m) = {} /\ Start(m)
       \/ \E t \in Messages : Join(m, t)
       \/ (\E t \in Candidates(m) : Full(t)) /\ UNCHANGED <<turn, link>>
    /\ receiver' = [receiver EXCEPT ![r] = Idle]
    /\ UNCHANGED <<stored, plan, observing, planner, now, missed, basis, stops, switches>>

AddInbound(r) ==
    LET m == receiver[r].event IN
    /\ receiver[r].pc = "turns"
    /\ m \in Messages
    /\ Start(m) \/ \E t \in Messages : Join(m, t)
    /\ receiver' = [receiver EXCEPT ![r] = Idle]
    /\ UNCHANGED <<stored, plan, observing, planner, now, missed, basis, stops, switches>>

-----------------------------------------------------------------------------
(* The dashboard's switches, on the same thread.                           *)

\* bot.toggle(False), or a failed provider authentication: cancel_all.
Disable(r) ==
    /\ receiver[r] = Idle
    /\ observing /\ switches < MaxSwitches
    /\ Go(r, "allPlans", 0)
    /\ switches' = switches + 1
    /\ UNCHANGED <<rows, observing, planner, now, missed, basis, stops>>

CancelAllPlans(r) ==
    /\ receiver[r].pc = "allPlans"
    /\ plan' = CancelledPlans(Messages)
    /\ Go(r, "allTurns", 0)
    /\ UNCHANGED <<stored, turn, link, observing, planner, now, missed, basis, stops, switches>>

CancelAllTurns(r) ==
    /\ receiver[r].pc = "allTurns"
    /\ turn' = CancelledTurns(Messages)
    /\ receiver' = [receiver EXCEPT ![r] = Idle]
    /\ UNCHANGED <<stored, link, plan, observing, planner, now, missed, basis, stops, switches>>

\* HumanDeliveryControlService.save: no open work is cancelled.
SaveSettings(r) ==
    /\ receiver[r] = Idle
    /\ switches < MaxSwitches
    /\ observing' = ~observing
    /\ switches' = switches + 1
    /\ UNCHANGED <<rows, receiver, planner, now, missed, basis, stops>>

\* A process stops, or a transaction raises and bot.py logs it.
Interrupt(r) ==
    /\ receiver[r] # Idle
    /\ stops < MaxStops
    /\ stops' = stops + 1
    /\ missed' = missed \cup ({receiver[r].event} \cap Events)
    /\ receiver' = [receiver EXCEPT ![r] = Idle]
    /\ UNCHANGED <<rows, observing, planner, now, basis, switches>>

-----------------------------------------------------------------------------
(* The shadow worker: close_ready, then plan_shadow on a ready turn.       *)

\* Mutant: every turn that went quiet is made ready, cancelled ones too.
CloseQuiet ==
    LET due == {t \in Messages : turn[t].status \in {"collecting", "cancelled"}
                                 /\ turn[t].quiet <= now} IN
    /\ due # {}
    /\ turn' = [t \in Messages |-> IF t \in due THEN [turn[t] EXCEPT !.status = "ready"]
                                                ELSE turn[t]]
    /\ UNCHANGED <<stored, link, plan, observing, receiver, planner, now, missed, basis, stops, switches>>

CloseReady ==
    LET due == {t \in Messages : turn[t].status = "collecting" /\ turn[t].quiet <= now} IN
    /\ due # {}
    /\ turn' = [t \in Messages |-> IF t \in due THEN [turn[t] EXCEPT !.status = "ready"]
                                                ELSE turn[t]]
    /\ UNCHANGED <<stored, link, plan, observing, receiver, planner, now, missed, basis, stops, switches>>

PlanStart(p, t) ==
    /\ planner[p] = 0
    /\ observing
    /\ turn[t].status = "ready"
    /\ planner' = [planner EXCEPT ![p] = t]
    /\ UNCHANGED <<rows, observing, receiver, now, missed, basis, stops, switches>>

\* A turn that has a plan keeps it; a new plan marks the turn planned.
PlanSave(p) ==
    LET t == planner[p] IN
    /\ t # 0
    /\ IF plan[t] = "none"
       THEN /\ plan' = [plan EXCEPT ![t] = "shadow"]
            /\ turn' = [turn EXCEPT ![t] = [turn[t] EXCEPT !.status = "planned"]]
            /\ basis' = [basis EXCEPT ![t] = stored]
       ELSE UNCHANGED <<plan, turn, basis>>
    /\ planner' = [planner EXCEPT ![p] = 0]
    /\ UNCHANGED <<stored, link, observing, receiver, now, missed, stops, switches>>

\* The output is not a decision, repeats itself or asks a third question.
PlanFallback(p) ==
    /\ planner[p] # 0
    /\ planner' = [planner EXCEPT ![p] = 0]
    /\ UNCHANGED <<rows, observing, receiver, now, missed, basis, stops, switches>>

Tick ==
    /\ now < MaxNow
    /\ now' = now + 1
    /\ UNCHANGED <<rows, observing, receiver, planner, missed, basis, stops, switches>>

Next ==
    \/ \E r \in Receivers : \/ \E e \in Events : Receive(r, e)
                            \/ CancelPlans(r) \/ CancelTurns(r) \/ AddInbound(r)
                            \/ Disable(r) \/ CancelAllPlans(r) \/ CancelAllTurns(r)
                            \/ SaveSettings(r) \/ Interrupt(r)
    \/ \E p \in Planners : \/ \E t \in Messages : PlanStart(p, t)
                           \/ PlanSave(p) \/ PlanFallback(p)
    \/ CloseReady \/ Tick

Spec == Init /\ [][Next]_vars

-----------------------------------------------------------------------------
\* A turn's times are those of its messages, in whatever order they came,
\* and it never holds more than the limit (add_inbound).
TurnsMatchMembers ==
    \A t \in Messages : turn[t].status # "none" =>
        LET times == {At[m] : m \in Members(t)} IN
        /\ turn[t].started = Min(times)
        /\ turn[t].latest = Max(times)
        /\ turn[t].closes = turn[t].started + Window
        /\ turn[t].quiet <= turn[t].latest + Debounce
        /\ Cardinality(Members(t)) <= MaxMessages

\* When no request is running, an open plan was saved after every event of its
\* fan that was observed: what the fan or the creator said later has cancelled
\* it (observe_inbound, observe_creator_send).
OpenPlanIsCurrent ==
    \A t \in Messages :
        plan[t] = "shadow" /\ (\A r \in Receivers : receiver[r] = Idle) =>
            {e \in stored \ missed : FanOf[e] = FanOf[t]} \subseteq basis[t]

\* A cancelled turn is reopened only by a model call that was already running
\* and has no earlier plan (save_shadow_plan, which does not read the status).
ReopenedOnlyByRace ==
    [][\A t \in Messages :
          turn[t].status = "cancelled" /\ turn'[t].status # "cancelled" =>
              plan[t] = "none" /\ \E p \in Planners : planner[p] = t]_vars

\* A stored message belongs to a turn unless its observation was skipped or
\* interrupted; no later delivery repairs that (ingest_webhook_message).
MembersUnlessMissed ==
    \A m \in stored \cap Messages :
        link[m] # 0 \/ m \in missed \/ \E r \in Receivers : receiver[r].event = m
=============================================================================
