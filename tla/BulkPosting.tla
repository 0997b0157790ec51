------------------------------ MODULE BulkPosting ------------------------------
(***************************************************************************)
(* bulk_posting/service.py: posts that an operator schedules and that a    *)
(* background thread repeats.  Dashboard threads run schedule, scheduler   *)
(* threads (one per process with the scheduler role) run run_due; both     *)
(* submit occurrences through _submit_one, and they share nothing but the  *)
(* tables bulk_post_rules and bulk_post_occurrences.                       *)
(*                                                                         *)
(* The k-th occurrence of a rule is the first one moved by k periods       *)
(* (_next_occurrence), k = 0 for the one schedule itself submits.          *)
(***************************************************************************)
EXTENDS Naturals, FiniteSets

CONSTANTS
    Rules,        \* rows of bulk_post_rules
    Recurring,    \* the rules that recur; the others are one_time
    Period,       \* days between two occurrences of a rule
    PostsOf,      \* posts of one occurrence: one, or one per media item
    Schedulers, Dashboards,
    Horizon,      \* submit_horizon
    Limit,        \* rules read by one call of run_due: 20
    MaxTries,     \* ApifanslyConfig.max_retries: requests per create_post
    MaxPosts,     \* bounds of the checked instance: posts per occurrence,
    MaxRepeats,   \* occurrences per rule, days, interrupted threads
    MaxNow,
    MaxStops

Threads == Schedulers \cup Dashboards
Occurrences == [rule : Rules, k : 0..MaxRepeats, post : 1..MaxPosts]

ASSUME RulesAssumption ==
    /\ 0 \notin Rules
    /\ Recurring \subseteq Rules
    /\ Period \in [Rules -> Nat \ {0}]
    /\ PostsOf \in [Rules -> 1..MaxPosts]
ASSUME ThreadsAssumption == Schedulers \cap Dashboards = {}
ASSUME LimitsAssumption ==
    /\ Horizon \in Nat /\ Limit \in Nat \ {0} /\ MaxTries \in Nat \ {0}
    /\ MaxPosts \in Nat \ {0} /\ MaxRepeats \in Nat
    /\ MaxNow \in Nat /\ MaxStops \in Nat

VARIABLES
    status,   \* bulk_post_rules.status, "absent" before the row exists
    first,    \* first_scheduled_for
    next,     \* next_scheduled_for, as k; 0 for NULL
    occ,      \* bulk_post_occurrences.status, "none" before the row exists
    thread,   \* what each thread is doing
    posted,   \* requests the provider turned into a scheduled post
    now,
    stops

ruleVars == <<status, first, next>>
vars == <<ruleVars, occ, thread, posted, now, stops>>

RuleStatus == {"absent", "scheduled", "recurring", "attention_required"}
OccStatus  == {"none", "submitting", "submitted", "failed", "delivery_unknown"}
Steps == {"idle", "insert", "post", "answer", "advance"}
Rows  == [rule : Rules, k : 0..MaxRepeats]

Idle == [pc |-> "idle", rule |-> 0, k |-> 0, post |-> 0, tries |-> 0,
         got |-> FALSE, todo |-> {}]

TypeOK ==
    /\ status \in [Rules -> RuleStatus]
    /\ first \in [Rules -> Nat]
    /\ next \in [Rules -> Nat]
    /\ occ \in [Occurrences -> OccStatus]
    /\ thread \in [Threads -> [pc : Steps, rule : Rules \cup {0},
                               k : 0..MaxRepeats, post : 0..MaxPosts,
                               tries : 0..MaxTries, got : BOOLEAN,
                               todo : SUBSET Rows]]
    /\ \A t \in Threads :
          /\ (thread[t].pc = "idle") = (thread[t].rule = 0)
          /\ thread[t].rule # 0 => thread[t].post \in 1..PostsOf[thread[t].rule]
          /\ t \in Dashboards => thread[t].pc # "advance" /\ thread[t].todo = {}
    /\ posted \in SUBSET [of : Occurrences, try : 1..MaxTries]
    /\ now \in Nat
    /\ stops \in Nat

Init ==
    /\ status = [r \in Rules |-> "absent"]
    /\ first = [r \in Rules |-> 0]
    /\ next = [r \in Rules |-> 0]
    /\ occ = [o \in Occurrences |-> "none"]
    /\ thread = [t \in Threads |-> Idle]
    /\ posted = {}
    /\ now = 0
    /\ stops = 0

Job(t) == [rule |-> thread[t].rule, k |-> thread[t].k, post |-> thread[t].post]
ScheduledFor(r, k) == first[r] + k * Period[r]

\* A thread starts on the posts of an occurrence.
Start(t, r, k, todo) ==
    thread' = [thread EXCEPT ![t] =
                  [pc |-> "insert", rule |-> r, k |-> k, post |-> 1,
                   tries |-> 0, got |-> FALSE, todo |-> todo]]

\* It takes the earliest row that is left; without one run_due is over and
\* schedule has answered the operator.
Proceed(t, todo) ==
    \/ /\ todo = {}
       /\ thread' = [thread EXCEPT ![t] = Idle]
    \/ \E row \in todo :
          /\ \A other \in todo :
                ScheduledFor(row.rule, row.k) <= ScheduledFor(other.rule, other.k)
          /\ Start(t, row.rule, row.k, todo \ {row})

Leave(t) == Proceed(t, thread[t].todo)

\* Mutant: one post more than there are.
NextPostBeyond(t) ==
    IF thread[t].post <= PostsOf[thread[t].rule]
    THEN thread' = [thread EXCEPT ![t] = [thread[t] EXCEPT !.pc = "insert",
                        !.post = @ + 1]]
    ELSE Leave(t)

\* On to the next post, or, after the last, to the rule.
NextPost(t) ==
    IF thread[t].post < PostsOf[thread[t].rule]
    THEN thread' = [thread EXCEPT ![t] = [thread[t] EXCEPT !.pc = "insert",
                        !.post = @ + 1, !.tries = 0, !.got = FALSE]]
    ELSE IF t \in Schedulers
    THEN thread' = [thread EXCEPT ![t].pc = "advance"]
    ELSE Leave(t)

-----------------------------------------------------------------------------
(* schedule and run_due.                                                   *)

\* The rule row commits before its first occurrence is submitted.
Schedule(d, r) ==
    /\ d \in Dashboards
    /\ thread[d].pc = "idle"
    /\ status[r] = "absent"
    /\ \E at \in now..MaxNow : first' = [first EXCEPT ![r] = at]
    /\ status' = [status EXCEPT ![r] =
                      IF r \in Recurring THEN "recurring" ELSE "scheduled"]
    /\ next' = [next EXCEPT ![r] = IF r \in Recurring THEN 1 ELSE 0]
    /\ Start(d, r, 0, {})
    /\ UNCHANGED <<occ, posted, now, stops>>

Due(r) ==
    /\ status[r] = "recurring"
    /\ next[r] <= MaxRepeats
    /\ ScheduledFor(r, next[r]) <= now + Horizon

DueRules == {r \in Rules : Due(r)}

\* ORDER BY next_scheduled_for LIMIT n, read once at the start of a sweep.
FirstRules(batch) ==
    /\ \A r \in batch, q \in DueRules \ batch :
          ScheduledFor(r, next[r]) <= ScheduledFor(q, next[q])
    /\ Cardinality(batch) <= Limit
    /\ batch # DueRules => Cardinality(batch) = Limit

Sweep(s) ==
    /\ s \in Schedulers
    /\ thread[s].pc = "idle"
    /\ DueRules # {}
    /\ \E batch \in SUBSET DueRules :
          /\ FirstRules(batch)
          /\ Proceed(s, {[rule |-> r, k |-> next[r]] : r \in batch})
    /\ UNCHANGED <<ruleVars, occ, posted, now, stops>>

\* Mutant: the rule is not moved on.
AdvanceNothing(s) ==
    /\ thread[s].pc = "advance"
    /\ Leave(s)
    /\ UNCHANGED <<ruleVars, occ, posted, now, stops>>

\* The rule moves on if next_scheduled_for is still what the sweep has read.
Advance(s) ==
    /\ thread[s].pc = "advance"
    /\ next' = [next EXCEPT ![thread[s].rule] = IF @ = thread[s].k THEN @ + 1 ELSE @]
    /\ Leave(s)
    /\ UNCHANGED <<status, first, occ, posted, now, stops>>

-----------------------------------------------------------------------------
(* _submit_one.                                                            *)

\* uq_bulk_post_rule_occurrence admits one row per rule, time and post.
InsertOccurrence(t) ==
    /\ thread[t].pc = "insert"
    /\ occ[Job(t)] = "none"
    /\ occ' = [occ EXCEPT ![Job(t)] = "submitting"]
    /\ thread' = [thread EXCEPT ![t].pc = "post"]
    /\ UNCHANGED <<ruleVars, posted, now, stops>>

\* Mutant: an occurrence that is already there counts as submitted.
CountDuplicate(t) ==
    /\ thread[t].pc = "insert"
    /\ occ[Job(t)] # "none"
    /\ NextPost(t)
    /\ UNCHANGED <<ruleVars, occ, posted, now, stops>>

\* IntegrityError: the rule is left as it is.
Duplicate(t) ==
    /\ thread[t].pc = "insert"
    /\ occ[Job(t)] # "none"
    /\ Leave(t)
    /\ UNCHANGED <<ruleVars, occ, posted, now, stops>>

\* ApifanslyClient._request: a timeout, a 429 or a 5xx repeats the request.
SendRequest(t) ==
    /\ \/ thread[t].pc = "post"
       \/ thread[t].pc = "answer" /\ thread[t].tries < MaxTries
    /\ \E accepted \in BOOLEAN :
          /\ thread' = [thread EXCEPT ![t].pc = "answer", ![t].tries = @ + 1,
                                      ![t].got = accepted]
          /\ posted' = IF accepted
                       THEN posted \cup {[of |-> Job(t), try |-> thread[t].tries + 1]}
                       ELSE posted
    /\ UNCHANGED <<ruleVars, occ, now, stops>>

Submitted(t) ==
    /\ thread[t].pc = "answer"
    /\ thread[t].got
    /\ occ' = [occ EXCEPT ![Job(t)] = "submitted"]
    /\ NextPost(t)
    /\ UNCHANGED <<ruleVars, posted, now, stops>>

Settle(t, outcome) ==
    /\ occ' = [occ EXCEPT ![Job(t)] = outcome]
    /\ status' = [status EXCEPT ![thread[t].rule] = "attention_required"]
    /\ Leave(t)
    /\ UNCHANGED <<first, next, posted, now, stops>>

\* Missing credentials before the first request, or a 4xx to the last one.
Rejected(t) ==
    /\ thread[t].pc = "post" \/ (thread[t].pc = "answer" /\ ~thread[t].got)
    /\ Settle(t, "failed")

\* Mutants of Unconfirmed: the occurrence is taken for submitted; the rule goes
\* on recurring.
AssumeSubmitted(t) ==
    /\ thread[t].pc = "answer"
    /\ Settle(t, "submitted")

LeaveRecurring(t) ==
    /\ thread[t].pc = "answer"
    /\ occ' = [occ EXCEPT ![Job(t)] = "delivery_unknown"]
    /\ Leave(t)
    /\ UNCHANGED <<ruleVars, posted, now, stops>>

\* Any other exception, whatever the provider did with the requests.
Unconfirmed(t) ==
    /\ thread[t].pc = "answer"
    /\ Settle(t, "delivery_unknown")

-----------------------------------------------------------------------------
(* The process stops, or an error of the database ends the call: the thread *)
(* forgets where it was.  No start-up code looks at either table.          *)
Stop(t) ==
    /\ thread[t].pc # "idle"
    /\ stops < MaxStops
    /\ stops' = stops + 1
    /\ thread' = [thread EXCEPT ![t] = Idle]
    /\ UNCHANGED <<ruleVars, occ, posted, now>>

Tick ==
    /\ now < MaxNow
    /\ now' = now + 1
    /\ UNCHANGED <<ruleVars, occ, thread, posted, stops>>

Submit(t) ==
    \/ InsertOccurrence(t) \/ Duplicate(t) \/ SendRequest(t)
    \/ Submitted(t) \/ Rejected(t) \/ Unconfirmed(t)

RunDue(s) == Sweep(s) \/ Advance(s) \/ Submit(s)

Next ==
    \/ \E d \in Dashboards : Submit(d) \/ \E r \in Rules : Schedule(d, r)
    \/ \E s \in Schedulers : RunDue(s)
    \/ \E t \in Threads : Stop(t)
    \/ Tick

Spec == Init /\ [][Next]_vars

\* run_bulk_posting_worker calls run_due for ever and a client call returns.
FairSpec == Spec /\ \A s \in Schedulers : WF_vars(RunDue(s))

-----------------------------------------------------------------------------
(* Properties.                                                             *)

Submitting(t) == thread[t].pc \in {"post", "answer"}

\* No two threads, of one process or of several, submit the same occurrence,
\* and the row that says so is there before the provider is asked: the unique
\* constraint is the only lock between overlapping sweeps.
OneSubmitter ==
    /\ \A t, u \in Threads :
          Submitting(t) /\ Submitting(u) /\ Job(t) = Job(u) => t = u
    /\ \A t \in Threads : Submitting(t) => occ[Job(t)] = "submitting"
    /\ \A p \in posted : occ[p.of] # "none"

\* A rule moves past a recurrence only when each of its posts was submitted, and
\* nothing of a later recurrence is submitted before: a sweep that overlaps
\* another, works on a stale read or is cut short skips and reorders nothing.
InOrder ==
    \A o \in Occurrences :
        /\ o.k \in 1..(next[o.rule] - 1) /\ o.post <= PostsOf[o.rule] =>
              occ[o] = "submitted"
        /\ o.k > next[o.rule] => occ[o] = "none"

\* A rule asks for attention exactly when one of its posts was refused or is in
\* doubt, although threads that have read it as recurring go on.
AttentionExplained ==
    \A r \in Rules :
        status[r] = "attention_required" <=>
            \E o \in Occurrences :
                o.rule = r /\ occ[o] \in {"failed", "delivery_unknown"}

\* A thread was cut short and left a recurrence with a row and no thread.
Abandoned(r) ==
    /\ stops # 0
    /\ Due(r)
    /\ occ[[rule |-> r, k |-> next[r], post |-> 1]] # "none"
    /\ \A t \in Threads :
          thread[t].rule = r /\ thread[t].k = next[r] =>
              thread[t].pc = "insert" /\ thread[t].post = 1

\* A due recurrence is submitted or its rule asks for attention, unless a thread
\* was cut short on this or on an earlier one, which takes its place in every
\* later sweep.
DueIsSettled ==
    \A r \in Rules, k \in 1..MaxRepeats :
        Due(r) /\ next[r] = k ~>
            \/ next[r] # k
            \/ status[r] = "attention_required"
            \/ \E q \in Rules :
                  Abandoned(q) /\ ScheduledFor(q, next[q]) <= ScheduledFor(r, k)

-----------------------------------------------------------------------------
(* An occurrence is an item of the ledger.                                 *)

Standing(s) ==
    CASE s = "none"             -> "open"
      [] s = "submitting"       -> "attempting"
      [] s = "submitted"        -> "delivered"
      [] s = "failed"           -> "refused"
      [] s = "delivery_unknown" -> "uncertain"

LedgerState  == [o \in Occurrences |-> Standing(occ[o])]
LedgerCopies ==
    [o \in Occurrences |-> {t \in 1..MaxTries : [of |-> o, try |-> t] \in posted}]

Ledger == INSTANCE DeliveryLedger
              WITH Items <- Occurrences, Tries <- 1..MaxTries,
                   Batches <- {{o} : o \in Occurrences},
                   state <- LedgerState, copies <- LedgerCopies

\* Every step of the service is a step of the ledger or leaves it unchanged.
ImplementsLedger == Ledger!Spec
=============================================================================
