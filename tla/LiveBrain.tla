------------------------------ MODULE LiveBrain ------------------------------
(***************************************************************************)
(* Which brain writes a live reply.  A reply worker asks Conversation      *)
(* Intelligence V3 behind its circuit breaker and its daily ceiling, then  *)
(* Brain 2.0 when the settings grant it authority, then the current brain; *)
(* the final gates run, the authority is read again, the decision is       *)
(* saved, the automatic rollback is evaluated, and the text is delivered.  *)
(* bot._conversation_brain_reply, intelligence_v3/service.py, advanced.py, *)
(* authority.py, settings/brain.py, conversation/repository.py.            *)
(*                                                                         *)
(* What a model answers and what the gates say of a text are choices; a    *)
(* planner call that yields a plan costs one unit.  Every fan is sampled   *)
(* for both brains.  The length of a cooldown is left out: cooled says     *)
(* that it has passed.  The rollback's rates need a hundred attempts: that *)
(* they roll back is a choice.                                             *)
(***************************************************************************)
EXTENDS Naturals, FiniteSets

CONSTANTS
    Workers, Turns,
    Ceiling,      \* CONVERSATION_INTELLIGENCE_V3_MAX_DAILY_COST
    Threshold,    \* _live_failure_threshold
    MaxClaims, MaxEvents    \* bounds

ASSUME LiveBrainAssumption ==
    /\ Ceiling \in Nat \ {0} /\ Threshold \in Nat \ {0}
    /\ MaxClaims \in Nat /\ MaxEvents \in Nat
    /\ IsFiniteSet(Workers) /\ IsFiniteSet(Turns)
    /\ "nobody" \notin Workers

VARIABLES
    circuit,    \* the breaker, in the memory of the process
    run,        \* conversation_intelligence_runs, one live row per inbound
    decision,   \* conversation_decisions, one row per inbound
    mode,       \* brain.mode: "current", or "advanced" with live traffic
    w,          \* what each worker is doing
    owner,      \* who holds the inbound's lease, NoOne when it is queued
    queued,     \* whose text the outbox row holds, "none" without a row
    credited,   \* the authority the outcome of a delivered reply names
    taken,      \* some worker went on after another one was given its inbound
    claims,     \* how many times an inbound was claimed
    events      \* of the operator, the calendar and the process

store == <<run, decision, mode>>
lease == <<owner, queued, credited, taken>>
bounds == <<claims, events>>
vars == <<circuit, store, w, lease, bounds>>

NoOne == "nobody"
Authors == {"none", "v3", "advanced", "current"}

NoRun == [status |-> "none", cost |-> 0, today |-> FALSE]
NoDecision == [author |-> "none", fallback |-> FALSE, unsafe |-> FALSE]
Idle == [pc |-> "idle", turn |-> 0, author |-> "none", probe |-> FALSE, requested |-> "current",
         fallback |-> FALSE, unsafe |-> FALSE]
Closed == [state |-> "closed", probe |-> FALSE, fails |-> 0, cooled |-> FALSE]

TypeOK ==
    /\ circuit \in [state : {"closed", "open", "half_open"}, probe : BOOLEAN,
                    fails : 0..Threshold, cooled : BOOLEAN]
    /\ run \in [Turns -> [status : {"none", "complete", "linked", "failed"},
                          cost : {0, 1}, today : BOOLEAN]]
    /\ decision \in [Turns -> [author : Authors, fallback : BOOLEAN, unsafe : BOOLEAN]]
    /\ mode \in {"current", "advanced"}
    /\ w \in [Workers -> [pc : {"idle", "ask", "begin", "plan", "advanced", "current", "gate",
                                "save", "link", "return", "deliver"},
                          turn : Turns \cup {0}, author : Authors, probe : BOOLEAN,
                          requested : {"current", "advanced"}, fallback : BOOLEAN,
                          unsafe : BOOLEAN]]
    /\ owner \in [Turns -> Workers \cup {NoOne}]
    /\ queued \in [Turns -> Authors] /\ credited \in [Turns -> Authors]
    /\ taken \in [Turns -> BOOLEAN]
    /\ claims \in 0..MaxClaims /\ events \in 0..MaxEvents

Init ==
    /\ circuit = Closed
    /\ run = [t \in Turns |-> NoRun] /\ decision = [t \in Turns |-> NoDecision]
    /\ mode = "advanced"
    /\ w = [x \in Workers |-> Idle]
    /\ owner = [t \in Turns |-> NoOne] /\ queued = [t \in Turns |-> "none"]
    /\ credited = [t \in Turns |-> "none"] /\ taken = [t \in Turns |-> FALSE]
    /\ claims = 0 /\ events = 0

At(x, pc) == w[x].pc = pc
Goto(x, pc) == w' = [w EXCEPT ![x].pc = pc]

-----------------------------------------------------------------------------
(* The circuit.                                                            *)

\* _circuit_available_locked
Available ==
    \/ circuit.state = "closed"
    \/ circuit.state = "half_open" /\ ~circuit.probe
    \/ circuit.state = "open" /\ circuit.cooled

\* record_live_quality_failure
QualityFailed(c) ==
    IF c.state = "half_open" \/ (c.state = "open" /\ c.cooled)
    THEN Closed
    ELSE [c EXCEPT !.probe = FALSE]

\* record_live_failure; the count stops where it no longer matters.
InfrastructureFailed(c) ==
    LET fails == IF c.fails = Threshold THEN Threshold ELSE c.fails + 1
    IN  IF c.state = "half_open" \/ fails = Threshold
        THEN [state |-> "open", probe |-> FALSE, cooled |-> FALSE,
              fails |-> IF c.state = "half_open" THEN c.fails ELSE fails]
        ELSE [c EXCEPT !.fails = fails]

\* open_live_circuit
Opened(c) == [c EXCEPT !.state = "open", !.probe = FALSE, !.cooled = FALSE]

\* The cooldown since opened_at runs out.
Cools ==
    /\ circuit.state = "open" /\ ~circuit.cooled
    /\ circuit' = [circuit EXCEPT !.cooled = TRUE]
    /\ UNCHANGED <<store, w, lease, bounds>>

\* live_cost_since: the live rows created since midnight.
RecordedToday == Cardinality({t \in Turns : run[t].today /\ run[t].cost = 1})

\* Mutant: the ceiling is not looked at.
CircuitAlone(inFlight) ==
    Available \/ (inFlight /\ circuit.state = "half_open" /\ circuit.probe)

\* can_decide_live; a worker that has its answer may pass while a probe is out.
CanDecideLive(inFlight) ==
    /\ Available \/ (inFlight /\ circuit.state = "half_open" /\ circuit.probe)
    /\ RecordedToday < Ceiling

\* record_run: the row of the inbound is updated in place, its day stays.
Recorded(t, status, cost) ==
    [run EXCEPT ![t] = [status |-> status, cost |-> cost,
                        today |-> run[t].status = "none" \/ run[t].today]]

-----------------------------------------------------------------------------
(* Claiming the inbound, and what ends the work on it.                     *)

\* The inbound is claimed, also from a slow worker whose lease has expired; the
\* requested authority is read with the context.
Claim(x, t) ==
    /\ At(x, "idle") /\ owner[t] # x /\ queued[t] = "none"
    /\ claims < MaxClaims /\ claims' = claims + 1
    /\ owner' = [owner EXCEPT ![t] = x]
    /\ taken' = [taken EXCEPT ![t] = taken[t] \/ owner[t] # NoOne]
    /\ w' = [w EXCEPT ![x] = [Idle EXCEPT !.pc = "ask", !.turn = t, !.requested = mode]]
    /\ UNCHANGED <<circuit, store, queued, credited, events>>

\* No reply, or an exception: release_inbound by its holder.
GiveUp(x) ==
    /\ w' = [w EXCEPT ![x] = Idle]
    /\ owner' = [t \in Turns |-> IF owner[t] = x THEN NoOne ELSE owner[t]]

\* BrainAuthorityRouter.select
Routed(x) == IF w[x].requested = "advanced" THEN "advanced" ELSE "current"

-----------------------------------------------------------------------------
(* V3: decide_live.                                                        *)

Ask(x) ==
    /\ At(x, "ask")
    /\ Goto(x, IF CanDecideLive(FALSE) THEN "begin" ELSE Routed(x))
    /\ UNCHANGED <<circuit, store, lease, bounds>>

\* _begin_live_attempt
BeginAttempt(x) ==
    /\ At(x, "begin")
    /\ IF Available
       THEN /\ circuit' = IF circuit.state = "open"
                          THEN [circuit EXCEPT !.state = "half_open", !.probe = TRUE]
                          ELSE circuit
            /\ w' = [w EXCEPT ![x].pc = "plan", ![x].probe = circuit.state = "open"]
       ELSE circuit' = circuit /\ Goto(x, Routed(x))
    /\ UNCHANGED <<store, lease, bounds>>

\* _evaluate ends with a message to send.
PlanSelected(x) ==
    /\ At(x, "plan")
    /\ run' = Recorded(w[x].turn, "complete", 1)
    /\ w' = [w EXCEPT ![x].pc = "gate", ![x].author = "v3"]
    /\ UNCHANGED <<circuit, decision, mode, lease, bounds>>

\* _evaluate ends without one: the run is rejected or waits for a review.
PlanRejected(x) ==
    /\ At(x, "plan")
    /\ run' = Recorded(w[x].turn, "failed", 1)
    /\ circuit' = QualityFailed(circuit)
    /\ w' = [w EXCEPT ![x].pc = Routed(x), ![x].probe = FALSE]
    /\ UNCHANGED <<decision, mode, lease, bounds>>

\* V3PlannerError, the infrastructure's or the answer's, or any other exception:
\* _record_failure, which may fail too.
PlanFailed(x) ==
    /\ At(x, "plan")
    /\ circuit' \in {InfrastructureFailed(circuit), QualityFailed(circuit)}
    /\ run' \in {run, Recorded(w[x].turn, "failed", 0)}
    /\ w' = [w EXCEPT ![x].pc = Routed(x), ![x].probe = FALSE]
    /\ UNCHANGED <<decision, mode, lease, bounds>>

-----------------------------------------------------------------------------
(* Brain 2.0 and the current brain.                                        *)

\* AdvancedBrainDecisionService.decide: an answer counts while the authority
\* is what it was.
AdvancedDecides(x) ==
    /\ At(x, "advanced") /\ mode = w[x].requested
    /\ w' = [w EXCEPT ![x].pc = "gate", ![x].author = "advanced"]
    /\ UNCHANGED <<circuit, store, lease, bounds>>

FallsBack(x) ==
    \E unsafe \in BOOLEAN :
        w' = [w EXCEPT ![x].pc = "current", ![x].author = "none", ![x].fallback = TRUE,
                       ![x].unsafe = unsafe, ![x].probe = FALSE]

\* A cap, a timeout, a contract error, its own gate, or a stale authority.
AdvancedFails(x) ==
    /\ At(x, "advanced") /\ FallsBack(x)
    /\ UNCHANGED <<circuit, store, lease, bounds>>

\* chat_responder.decide, or the deterministic fallback.
CurrentDecides(x) ==
    /\ At(x, "current")
    /\ w' = [w EXCEPT ![x].pc = "gate", ![x].author = "current"]
    /\ UNCHANGED <<circuit, store, lease, bounds>>

-----------------------------------------------------------------------------
(* The final gates and the second look at the authority.                   *)

Authorised(x) ==
    CASE w[x].author = "v3"       -> CanDecideLive(TRUE)
      [] w[x].author = "advanced" -> mode = "advanced"
      [] OTHER                    -> TRUE

\* The text passes the gates; its author is looked at again.
GatePasses(x) ==
    /\ At(x, "gate")
    /\ w' = IF Authorised(x)
            THEN [w EXCEPT ![x].pc = "save"]
            ELSE [w EXCEPT ![x].pc = "current", ![x].author = "none", ![x].fallback = TRUE,
                           ![x].unsafe = FALSE, ![x].probe = FALSE]
    /\ UNCHANGED <<circuit, store, lease, bounds>>

\* A text of V3 or Brain 2.0 is refused: the current brain is asked instead.
GateRefusesCandidate(x) ==
    /\ At(x, "gate") /\ w[x].author \in {"v3", "advanced"} /\ FallsBack(x)
    /\ circuit' = IF w[x].author = "v3" THEN QualityFailed(circuit) ELSE circuit
    /\ UNCHANGED <<store, lease, bounds>>

\* The current brain says nothing, or its text is refused and beyond repair.
NoReply(x) ==
    /\ At(x, "current") \/ (At(x, "gate") /\ w[x].author = "current")
    /\ GiveUp(x)
    /\ UNCHANGED <<circuit, store, queued, credited, taken, bounds>>

-----------------------------------------------------------------------------
(* Saving the decision, and what follows.                                  *)

\* Mutant: the row of an earlier try at the inbound is kept.
SaveOnce(x) ==
    LET t == w[x].turn IN
    /\ At(x, "save")
    /\ decision' = IF decision[t].author = "none"
                   THEN [decision EXCEPT ![t] = [author |-> w[x].author, fallback |-> w[x].fallback,
                                                 unsafe |-> w[x].unsafe]]
                   ELSE decision
    /\ Goto(x, "link")
    /\ UNCHANGED <<circuit, run, mode, lease, bounds>>

\* ConversationDecisionRepository.save: the row of the inbound is replaced.
Save(x) ==
    /\ At(x, "save")
    /\ decision' = [decision EXCEPT ![w[x].turn] =
                      [author |-> w[x].author, fallback |-> w[x].fallback, unsafe |-> w[x].unsafe]]
    /\ Goto(x, "link")
    /\ UNCHANGED <<circuit, run, mode, lease, bounds>>

\* V3's metadata do not fit the row: the circuit is opened and the turn starts
\* again without V3.
SaveRefused(x) ==
    /\ At(x, "save") /\ w[x].author = "v3"
    /\ run' = IF run[w[x].turn].status = "linked" THEN run
              ELSE [run EXCEPT ![w[x].turn].status = "failed"]
    /\ circuit' = Opened(circuit)
    /\ w' = [w EXCEPT ![x] = [Idle EXCEPT !.pc = mode, !.turn = w[x].turn, !.requested = mode]]
    /\ UNCHANGED <<decision, mode, lease, bounds>>

\* The database is out of reach: the exception leaves the whole call.
Raises(x) ==
    /\ w[x].pc \in {"save", "link", "return"} /\ GiveUp(x)
    /\ UNCHANGED <<circuit, store, queued, credited, taken, bounds>>

\* link_run_decision: a run is never deleted, the row is there.  linked: it is
\* complete and names its decision.
Linked(x) ==
    IF w[x].author = "v3" THEN [run EXCEPT ![w[x].turn].status = "linked"] ELSE run

\* latest_execution_attempts and AutomaticRollbackEvaluator.evaluate
SafetyViolation ==
    \E t \in Turns : /\ decision[t].author = "advanced" \/ decision[t].fallback
                     /\ decision[t].unsafe

\* The modes after the evaluation: its rates, or its failure, roll back too.
RolledBack(x) ==
    IF w[x].requested = "current" THEN {mode}
    ELSE IF SafetyViolation THEN {"current"} ELSE {mode, "current"}

AfterSave(x) ==
    /\ At(x, "link") /\ Goto(x, "return")
    /\ run' = Linked(x) /\ mode' \in RolledBack(x)
    /\ UNCHANGED <<circuit, decision, lease, bounds>>

\* enqueue_outbox takes the text of the holder of the lease only.
Accepted(x) == owner[w[x].turn] = x /\ queued[w[x].turn] = "none"

\* The fan's state is updated, V3's success is recorded (record_live_success),
\* the reply is returned and queued.
Return(x) ==
    LET t == w[x].turn IN
    /\ At(x, "return")
    /\ circuit' = IF w[x].author = "v3" THEN Closed ELSE circuit
    /\ queued' = IF Accepted(x) THEN [queued EXCEPT ![t] = w[x].author] ELSE queued
    /\ w' = [w EXCEPT ![x] = IF Accepted(x) THEN [Idle EXCEPT !.pc = "deliver", !.turn = t]
                             ELSE Idle]
    /\ UNCHANGED <<store, owner, credited, taken, bounds>>

\* Delivered; the outcome copies the stored decision.  A callback that cannot be
\* cooled down opens the circuit.
Deliver(x) ==
    LET t == w[x].turn IN
    /\ At(x, "deliver")
    /\ credited' = [credited EXCEPT ![t] = decision[t].author]
    /\ circuit' \in IF decision[t].author = "v3" THEN {circuit, Opened(circuit)} ELSE {circuit}
    /\ w' = [w EXCEPT ![x] = Idle]
    /\ owner' = [owner EXCEPT ![t] = NoOne]
    /\ UNCHANGED <<store, queued, taken, bounds>>

-----------------------------------------------------------------------------
(* The operator, the calendar and the process.                             *)

\* BrainSettingsService.save grants live authority, .rollback withdraws it.
Switch ==
    /\ events < MaxEvents /\ events' = events + 1
    /\ mode' = IF mode = "current" THEN "advanced" ELSE "current"
    /\ UNCHANGED <<circuit, run, decision, w, lease, claims>>

Midnight ==
    /\ \E t \in Turns : run[t].today
    /\ events < MaxEvents /\ events' = events + 1
    /\ run' = [t \in Turns |-> [run[t] EXCEPT !.today = FALSE]]
    /\ UNCHANGED <<circuit, decision, mode, w, lease, claims>>

\* The process restarts: workers and circuit are new, the leases run out; a
\* queued text is delivered by whoever finds its row (ReplyPipeline).
Restart ==
    /\ events < MaxEvents /\ events' = events + 1
    /\ circuit' = Closed
    /\ w' = [x \in Workers |-> Idle] /\ owner' = [t \in Turns |-> NoOne]
    /\ UNCHANGED <<store, queued, credited, taken, claims>>

Work(x) ==
    \/ \E t \in Turns : Claim(x, t)
    \/ Ask(x) \/ BeginAttempt(x) \/ PlanSelected(x) \/ PlanRejected(x) \/ PlanFailed(x)
    \/ AdvancedDecides(x) \/ AdvancedFails(x) \/ CurrentDecides(x)
    \/ GatePasses(x) \/ GateRefusesCandidate(x) \/ NoReply(x)
    \/ Save(x) \/ SaveRefused(x) \/ Raises(x) \/ AfterSave(x)
    \/ Return(x) \/ Deliver(x)

Next == (\E x \in Workers : Work(x)) \/ Cools \/ Switch \/ Midnight \/ Restart

Spec == Init /\ [][Next]_vars

-----------------------------------------------------------------------------
(* Properties *)

\* However the workers overlap, the day's recorded costs and the calls in flight
\* pass the ceiling by less than one call per worker: the check of can_decide_live
\* and the recording of the run are a model call apart.
OverrunBounded ==
    RecordedToday + Cardinality({x \in Workers : w[x].pc \in {"begin", "plan"}})
        < Ceiling + Cardinality(Workers)

\* The brain credited with a delivered reply is the one that wrote its text,
\* through retries, fallbacks and refused rows, while no worker went on after its
\* inbound was given to another one.
CreditedToAuthor == \A t \in Turns : credited[t] # "none" /\ ~taken[t] => credited[t] = queued[t]
=============================================================================
