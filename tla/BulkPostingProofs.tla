--------------------------- MODULE BulkPostingProofs ---------------------------
(***************************************************************************)
(* Proofs about BulkPosting for any rules, threads and bounds: its         *)
(* invariants, and that it implements the delivery ledger.                 *)
(***************************************************************************)
EXTENDS BulkPosting, TLAPS

\* A recurrence of a rule that exists and has got as far.
Reached(rule, k) == status[rule] # "absent" /\ k <= next[rule]

\* What a thread has behind it: the posts before its own are submitted, and the
\* recurrences it knows of are none that its rule has not reached.
ThreadOK(t) ==
    LET x == thread[t] IN
    /\ x.pc \in {"idle", "insert", "post"} => x.tries = 0
    /\ x.pc = "answer" /\ x.got =>
          \E try \in 1..MaxTries : [of |-> Job(t), try |-> try] \in posted
    /\ x.rule # 0 =>
          /\ Reached(x.rule, x.k)
          /\ \A post \in 1..MaxPosts :
                post < x.post \/ (x.pc = "advance" /\ post <= PostsOf[x.rule]) =>
                    occ[[rule |-> x.rule, k |-> x.k, post |-> post]] = "submitted"
    /\ \A row \in x.todo : Reached(row.rule, row.k)

Progress ==
    /\ \A t \in Threads : ThreadOK(t)
    /\ \A r \in Rules : status[r] = "absent" => next[r] = 0

\* The inductive invariant.
IInv == TypeOK /\ OneSubmitter /\ InOrder /\ AttentionExplained /\ Progress

USE RulesAssumption, ThreadsAssumption, LimitsAssumption

ThreadRecord == [pc : Steps, rule : Rules \cup {0}, k : 0..MaxRepeats,
                 post : 0..MaxPosts, tries : 0..MaxTries, got : BOOLEAN,
                 todo : SUBSET Rows]

\* The part of TypeOK about one thread.
RecordOK(t, x) ==
    /\ x \in ThreadRecord
    /\ (x.pc = "idle") = (x.rule = 0)
    /\ x.rule # 0 => x.post \in 1..PostsOf[x.rule]
    /\ t \in Dashboards => x.pc # "advance" /\ x.todo = {}

\* The thread t moves on to the record x.
Moves(t, x) == thread' = [thread EXCEPT ![t] = x]

\* What a thread is after Proceed: idle, or at the first post of a row of todo.
FreshFrom(x, todo) ==
    \/ x = Idle
    \/ \E row \in todo, rest \in SUBSET todo :
          x = [pc |-> "insert", rule |-> row.rule, k |-> row.k, post |-> 1,
               tries |-> 0, got |-> FALSE, todo |-> rest]

-----------------------------------------------------------------------------
\* TypeOK says of every thread what RecordOK says.
LEMMA RecordsOK ==
    TypeOK => \A t \in Threads : RecordOK(t, thread[t])
BY DEF TypeOK, RecordOK, ThreadRecord

\* A busy thread works on an occurrence.
LEMMA JobTyped ==
    ASSUME TypeOK, NEW t \in Threads, thread[t].pc # "idle"
    PROVE  /\ thread[t].rule \in Rules
           /\ Job(t) \in Occurrences
           /\ thread[t].post \in 1..PostsOf[thread[t].rule]
           /\ PostsOf[thread[t].rule] \in 1..MaxPosts
<1>1. RecordOK(t, thread[t])
  BY RecordsOK
<1>2. thread[t].rule \in Rules /\ thread[t].k \in 0..MaxRepeats
  BY <1>1 DEF RecordOK, ThreadRecord
<1>3. PostsOf[thread[t].rule] \in 1..MaxPosts
  BY <1>2
<1>4. thread[t].post \in 1..PostsOf[thread[t].rule]
  BY <1>1, <1>2 DEF RecordOK
<1>5. thread[t].post \in 1..MaxPosts
  BY <1>3, <1>4
<1> QED
  BY <1>2, <1>3, <1>4, <1>5 DEF Job, Occurrences

\* A thread that starts on a row of its list is at the first post of the row.
LEMMA ProceedFresh ==
    ASSUME NEW t \in Threads, NEW todo, Proceed(t, todo)
    PROVE  \E x : FreshFrom(x, todo) /\ Moves(t, x)
<1>1. CASE todo = {} /\ thread' = [thread EXCEPT ![t] = Idle]
  BY <1>1 DEF FreshFrom, Moves
<1>2. ASSUME NEW row \in todo, Start(t, row.rule, row.k, todo \ {row})
      PROVE  \E x : FreshFrom(x, todo) /\ Moves(t, x)
  <2> DEFINE x == [pc |-> "insert", rule |-> row.rule, k |-> row.k, post |-> 1,
                   tries |-> 0, got |-> FALSE, todo |-> todo \ {row}]
  <2>1. Moves(t, x)
    BY <1>2 DEF Start, Moves
  <2>2. FreshFrom(x, todo)
    BY DEF FreshFrom
  <2> QED
    BY <2>1, <2>2
<1> QED
  BY <1>1, <1>2 DEF Proceed

\* Such a record is well typed.
LEMMA FreshTyped ==
    ASSUME NEW t \in Threads, NEW todo \in SUBSET Rows, NEW x,
           FreshFrom(x, todo), t \in Dashboards => x.todo = {}
    PROVE  RecordOK(t, x)
<1>1. CASE x = Idle
  BY <1>1 DEF RecordOK, ThreadRecord, Idle, Steps
<1>2. ASSUME NEW row \in todo, NEW rest \in SUBSET todo,
             x = [pc |-> "insert", rule |-> row.rule, k |-> row.k, post |-> 1,
                  tries |-> 0, got |-> FALSE, todo |-> rest]
      PROVE  RecordOK(t, x)
  <2>1. row.rule \in Rules /\ row.k \in 0..MaxRepeats /\ rest \in SUBSET Rows
    BY <1>2 DEF Rows
  <2>2. PostsOf[row.rule] \in 1..MaxPosts
    BY <2>1
  <2>3. x \in ThreadRecord
    BY <1>2, <2>1 DEF ThreadRecord, Steps
  <2>4. 1 \in 1..PostsOf[row.rule]
    BY <2>2
  <2> QED
    BY <1>2, <2>1, <2>3, <2>4 DEF RecordOK
<1> QED
  BY <1>1, <1>2 DEF FreshFrom

\* A step that moves one thread keeps the threads well typed.
LEMMA MoveTyped ==
    ASSUME TypeOK, NEW t \in Threads, NEW x, RecordOK(t, x), Moves(t, x)
    PROVE  /\ thread' \in [Threads -> ThreadRecord]
           /\ \A u \in Threads : RecordOK(u, thread'[u])
           /\ thread'[t] = x
           /\ \A u \in Threads : u # t => thread'[u] = thread[u]
<1>1. thread \in [Threads -> ThreadRecord]
  BY DEF TypeOK, ThreadRecord
<1>2. x \in ThreadRecord
  BY DEF RecordOK
<1>3. thread'[t] = x /\ \A u \in Threads : u # t => thread'[u] = thread[u]
  BY <1>1 DEF Moves
<1>4. thread' \in [Threads -> ThreadRecord]
  BY <1>1, <1>2 DEF Moves
<1> QED
  BY <1>3, <1>4, RecordsOK

\* With the other variables typed, TypeOK holds after the step.
LEMMA TypeAfterMove ==
    ASSUME TypeOK, NEW t \in Threads, NEW x, RecordOK(t, x), Moves(t, x),
           status' \in [Rules -> RuleStatus], first' \in [Rules -> Nat],
           next' \in [Rules -> Nat], occ' \in [Occurrences -> OccStatus],
           posted' \in SUBSET [of : Occurrences, try : 1..MaxTries],
           now' \in Nat, stops' \in Nat
    PROVE  TypeOK'
BY MoveTyped DEF TypeOK, RecordOK, ThreadRecord

-----------------------------------------------------------------------------
\* What a step of the thread t does to the occurrences, but for a new row.
OccMoved(t) ==
    \/ occ' = occ
    \/ /\ Submitting(t)
       /\ \E outcome \in OccStatus \ {"none"} :
             occ' = [occ EXCEPT ![Job(t)] = outcome]

\* It touches no other row than its own, which is being submitted.
LEMMA RowsStable ==
    ASSUME TypeOK, OneSubmitter, NEW t \in Threads, OccMoved(t)
    PROVE  /\ occ' \in [Occurrences -> OccStatus]
           /\ \A o \in Occurrences : (occ'[o] = "none") = (occ[o] = "none")
           /\ \A o \in Occurrences : occ[o] = "submitted" => occ'[o] = "submitted"
           /\ \A u \in Threads :
                 u # t /\ Submitting(u) => occ'[Job(u)] = "submitting"
<1>1. CASE occ' = occ
  BY <1>1 DEF TypeOK, OneSubmitter
<1>2. ASSUME Submitting(t), NEW outcome \in OccStatus \ {"none"},
             occ' = [occ EXCEPT ![Job(t)] = outcome]
      PROVE  /\ occ' \in [Occurrences -> OccStatus]
             /\ \A o \in Occurrences : (occ'[o] = "none") = (occ[o] = "none")
             /\ \A o \in Occurrences : occ[o] = "submitted" => occ'[o] = "submitted"
             /\ \A u \in Threads :
                   u # t /\ Submitting(u) => occ'[Job(u)] = "submitting"
  <2>1. occ \in [Occurrences -> OccStatus] /\ Job(t) \in Occurrences
    BY <1>2, JobTyped DEF TypeOK, Submitting
  <2>2. occ[Job(t)] = "submitting"
    BY <1>2 DEF OneSubmitter
  <2>3. ASSUME NEW u \in Threads, u # t, Submitting(u)
        PROVE  occ'[Job(u)] = "submitting"
    <3>1. Job(u) # Job(t) /\ occ[Job(u)] = "submitting" /\ Job(u) \in Occurrences
      BY <1>2, <2>3, JobTyped DEF OneSubmitter, Submitting
    <3> QED
      BY <1>2, <2>1, <3>1
  <2>4. \A o \in Occurrences : o # Job(t) => occ'[o] = occ[o]
    BY <1>2, <2>1
  <2>5. occ' \in [Occurrences -> OccStatus] /\ occ'[Job(t)] # "none"
    BY <1>2, <2>1
  <2> QED
    BY <2>2, <2>3, <2>4, <2>5
<1> QED
  BY <1>1, <1>2 DEF OccMoved

\* A thread that leaves its post keeps OneSubmitter.
LEMMA LeavesOneSubmitter ==
    ASSUME TypeOK, OneSubmitter, NEW t \in Threads, NEW x, RecordOK(t, x),
           Moves(t, x), x.pc \notin {"post", "answer"}, OccMoved(t),
           posted' = posted
    PROVE  OneSubmitter'
<1>1. /\ thread'[t] = x
      /\ \A u \in Threads : u # t => thread'[u] = thread[u]
  BY MoveTyped
<1>2. \A u \in Threads : Submitting(u)' => u # t /\ Submitting(u) /\ Job(u)' = Job(u)
  BY <1>1 DEF Submitting, Job
<1>3. \A u \in Threads : Submitting(u)' => (occ[Job(u)] = "submitting")'
  BY <1>2, RowsStable
<1>4. \A p \in posted' : occ'[p.of] # "none"
  BY RowsStable DEF TypeOK, OneSubmitter
<1> QED
  BY <1>2, <1>3, <1>4 DEF OneSubmitter

\* The other threads keep what they have behind them.
LEMMA OthersOK ==
    ASSUME TypeOK, NEW t \in Threads, NEW x, RecordOK(t, x), Moves(t, x),
           \A u \in Threads : ThreadOK(u),
           \A o \in Occurrences : occ[o] = "submitted" => occ'[o] = "submitted",
           posted \subseteq posted', next' \in [Rules -> Nat],
           \A r \in Rules : next[r] <= next'[r],
           \A r \in Rules : status'[r] = "absent" => status[r] = "absent",
           ThreadOK(t)'
    PROVE  \A u \in Threads : ThreadOK(u)'
<1> SUFFICES ASSUME NEW u \in Threads, u # t
             PROVE  ThreadOK(u)'
  OBVIOUS
<1>1. thread'[u] = thread[u]
  BY MoveTyped
<1>2. RecordOK(u, thread[u]) /\ ThreadOK(u)
  BY RecordsOK
<1>3. thread[u].k \in Nat /\ thread[u].todo \subseteq Rows
  BY <1>2 DEF RecordOK, ThreadRecord
<1>4. \A row \in Rows : row.rule \in Rules /\ row.k \in Nat
  BY DEF Rows
<1>5. next \in [Rules -> Nat]
  BY DEF TypeOK
<1>6. \A row \in thread[u].todo : Reached(row.rule, row.k)'
  BY <1>2, <1>3, <1>4, <1>5 DEF ThreadOK, Reached
<1>7. ASSUME thread[u].rule # 0
      PROVE  /\ Reached(thread[u].rule, thread[u].k)'
             /\ \A post \in 1..MaxPosts :
                   \/ post < thread[u].post
                   \/ thread[u].pc = "advance" /\ post <= PostsOf[thread[u].rule]
                   => occ'[[rule |-> thread[u].rule, k |-> thread[u].k,
                            post |-> post]] = "submitted"
  <2>1. thread[u].rule \in Rules /\ thread[u].k \in 0..MaxRepeats
    BY <1>2, <1>7 DEF RecordOK, ThreadRecord
  <2>2. Reached(thread[u].rule, thread[u].k)'
    BY <1>1, <1>2, <1>3, <1>5, <1>7, <2>1 DEF ThreadOK, Reached
  <2>3. \A post \in 1..MaxPosts :
           [rule |-> thread[u].rule, k |-> thread[u].k, post |-> post] \in Occurrences
    BY <2>1 DEF Occurrences
  <2> QED
    BY <1>2, <1>7, <2>2, <2>3 DEF ThreadOK
<1>8. Job(u)' = Job(u)
  BY <1>1 DEF Job
<1> QED
  BY <1>1, <1>2, <1>6, <1>7, <1>8 DEF ThreadOK

\* A thread that starts or goes idle has nothing behind it.
LEMMA FreshOK ==
    ASSUME TypeOK, NEW t \in Threads, NEW todo \in SUBSET Rows, NEW x,
           FreshFrom(x, todo), RecordOK(t, x), Moves(t, x),
           \A row \in todo : Reached(row.rule, row.k)'
    PROVE  ThreadOK(t)'
<1>1. thread'[t] = x
  BY MoveTyped
<1>2. CASE x = Idle
  BY <1>1, <1>2 DEF ThreadOK, Idle
<1>3. ASSUME NEW row \in todo, NEW rest \in SUBSET todo,
             x = [pc |-> "insert", rule |-> row.rule, k |-> row.k, post |-> 1,
                  tries |-> 0, got |-> FALSE, todo |-> rest]
      PROVE  ThreadOK(t)'
  BY <1>1, <1>3 DEF ThreadOK
<1> QED
  BY <1>2, <1>3 DEF FreshFrom

\* Rows that keep their standing keep the order, as long as no rule moves.
LEMMA InOrderKept ==
    ASSUME InOrder, next' = next,
           \A o \in Occurrences : (occ'[o] = "none") = (occ[o] = "none"),
           \A o \in Occurrences : occ[o] = "submitted" => occ'[o] = "submitted"
    PROVE  InOrder'
BY DEF InOrder

-----------------------------------------------------------------------------
\* The initial state.
LEMMA InitOK == Init => IInv
<1> SUFFICES ASSUME Init PROVE IInv
  OBVIOUS
<1> USE DEF Init
<1>1. TypeOK
  <2>1. \A t \in Threads : RecordOK(t, Idle)
    BY DEF RecordOK, ThreadRecord, Idle, Steps
  <2>2. thread \in [Threads -> ThreadRecord]
    BY <2>1 DEF RecordOK
  <2> QED
    BY <2>1, <2>2 DEF TypeOK, RecordOK, ThreadRecord, RuleStatus, OccStatus
<1>2. OneSubmitter
  BY DEF OneSubmitter, Submitting, Idle
<1>3. InOrder
  <2>1. \A o \in Occurrences : occ[o] = "none" /\ o.rule \in Rules
    BY DEF Occurrences
  <2> QED
    BY <2>1 DEF InOrder
<1>4. AttentionExplained
  BY DEF AttentionExplained
<1>5. Progress
  BY DEF Progress, ThreadOK, Idle
<1> QED
  BY <1>1, <1>2, <1>3, <1>4, <1>5 DEF IInv

\* A thread whose rows settle and that leaves for the rest of its list: what the
\* steps that end with Leave or Proceed have in common.
LEMMA LeaveOK ==
    ASSUME IInv, NEW t \in Threads, NEW todo \in SUBSET Rows, NEW x,
           FreshFrom(x, todo), t \in Dashboards => x.todo = {},
           Moves(t, x), OccMoved(t),
           \A row \in todo : Reached(row.rule, row.k)',
           status' \in [Rules -> RuleStatus], first' \in [Rules -> Nat],
           next' \in [Rules -> Nat], now' \in Nat, stops' \in Nat,
           \A r \in Rules : next[r] <= next'[r],
           \A r \in Rules : status'[r] = "absent" => status[r] = "absent" /\ next'[r] = 0,
           posted' = posted
    PROVE  TypeOK' /\ OneSubmitter' /\ Progress'
<1> USE DEF IInv
<1>1. RecordOK(t, x)
  BY FreshTyped
<1>2. occ' \in [Occurrences -> OccStatus]
  BY RowsStable
<1>3. TypeOK'
  BY <1>1, <1>2, TypeAfterMove DEF TypeOK
<1>4. x.pc \notin {"post", "answer"}
  BY DEF FreshFrom, Idle
<1>5. OneSubmitter'
  BY <1>1, <1>4, LeavesOneSubmitter
<1>6. ThreadOK(t)'
  BY <1>1, FreshOK
<1>7. \A o \in Occurrences : occ[o] = "submitted" => occ'[o] = "submitted"
  BY RowsStable
<1>8. \A u \in Threads : ThreadOK(u)'
  BY <1>1, <1>6, <1>7, OthersOK DEF Progress
<1> QED
  BY <1>3, <1>5, <1>8 DEF Progress

\* The rest of a list is a list the rules have reached.
LEMMA TodoOK ==
    ASSUME IInv, NEW t \in Threads
    PROVE  /\ thread[t].todo \in SUBSET Rows
           /\ \A row \in thread[t].todo : Reached(row.rule, row.k)
           /\ t \in Dashboards => thread[t].todo = {}
BY RecordsOK DEF IInv, Progress, ThreadOK, RecordOK, ThreadRecord

\* Leave takes up a row of the list or none.
LEMMA LeaveFresh ==
    ASSUME IInv, NEW t \in Threads, Leave(t)
    PROVE  \E x : /\ FreshFrom(x, thread[t].todo) /\ Moves(t, x)
                  /\ t \in Dashboards => x.todo = {}
<1>1. PICK x : FreshFrom(x, thread[t].todo) /\ Moves(t, x)
  BY ProceedFresh DEF Leave
<1>2. t \in Dashboards => x.todo = {}
  BY <1>1, TodoOK DEF FreshFrom, Idle
<1> QED
  BY <1>1, <1>2

\* schedule.
LEMMA ScheduleOK ==
    ASSUME IInv, NEW d \in Dashboards, NEW r \in Rules, Schedule(d, r)
    PROVE  IInv'
<1> USE DEF IInv
<1> DEFINE row == [rule |-> r, k |-> 0]
           x == [pc |-> "insert", rule |-> r, k |-> 0, post |-> 1,
                 tries |-> 0, got |-> FALSE, todo |-> {}]
<1>1. d \in Threads /\ row \in Rows /\ {row} \in SUBSET Rows
  BY DEF Threads, Rows
<1>2. Moves(d, x) /\ FreshFrom(x, {row}) /\ x.todo = {}
  BY DEF Schedule, Start, Moves, FreshFrom
<1>3. /\ status[r] = "absent" /\ next[r] = 0
      /\ status \in [Rules -> RuleStatus] /\ next \in [Rules -> Nat]
      /\ first \in [Rules -> Nat] /\ now \in Nat
  BY DEF Schedule, Progress, TypeOK
<1>4. /\ status' = [status EXCEPT ![r] =
                        IF r \in Recurring THEN "recurring" ELSE "scheduled"]
      /\ next' = [next EXCEPT ![r] = IF r \in Recurring THEN 1 ELSE 0]
      /\ first' \in [Rules -> Nat]
      /\ occ' = occ /\ posted' = posted /\ now' = now /\ stops' = stops
  BY <1>3 DEF Schedule
<1>5. /\ status' \in [Rules -> RuleStatus] /\ next' \in [Rules -> Nat]
      /\ status'[r] \notin {"absent", "attention_required"}
      /\ next'[r] \in {0, 1}
      /\ \A q \in Rules \ {r} : status'[q] = status[q] /\ next'[q] = next[q]
  BY <1>3, <1>4 DEF RuleStatus
<1>6. \A q \in Rules : next[q] <= next'[q]
  BY <1>3, <1>5
<1>7. \A q \in Rules : status'[q] = "absent" => status[q] = "absent" /\ next'[q] = 0
  BY <1>5 DEF Progress
<1>8. TypeOK' /\ OneSubmitter' /\ Progress'
  <2> HIDE DEF x
  <2>1. \A w \in {row} : Reached(w.rule, w.k)'
    BY <1>5 DEF Reached
  <2>2. now' \in Nat /\ stops' \in Nat
    BY <1>4 DEF TypeOK
  <2>3. OccMoved(d)
    BY <1>4 DEF OccMoved
  <2> QED
    BY <1>1, <1>2, <1>4, <1>5, <1>6, <1>7, <2>1, <2>2, <2>3, LeaveOK
<1>9. InOrder'
  <2> SUFFICES ASSUME NEW o \in Occurrences
               PROVE  /\ o.k \in 1..(next'[o.rule] - 1) /\ o.post <= PostsOf[o.rule]
                            => occ[o] = "submitted"
                      /\ o.k > next'[o.rule] => occ[o] = "none"
    BY <1>4 DEF InOrder
  <2>1. o.rule \in Rules /\ o.k \in Nat
    BY DEF Occurrences
  <2> QED
    BY <1>3, <1>5, <2>1 DEF InOrder
<1>10. AttentionExplained'
  BY <1>3, <1>4, <1>5 DEF AttentionExplained
<1> QED
  BY <1>8, <1>9, <1>10

\* The read that starts a sweep.
LEMMA SweepOK ==
    ASSUME IInv, NEW s \in Schedulers, Sweep(s)
    PROVE  IInv'
<1> USE DEF IInv
<1>1. UNCHANGED <<ruleVars, occ, posted, now, stops>> /\ s \in Threads /\ s \notin Dashboards
  BY DEF Sweep, Threads
<1>2. PICK batch \in SUBSET DueRules :
         Proceed(s, {[rule |-> r, k |-> next[r]] : r \in batch})
  BY DEF Sweep
<1> DEFINE todo == {[rule |-> r, k |-> next[r]] : r \in batch}
<1>3. todo \in SUBSET Rows
  <2>1. \A r \in batch : r \in Rules /\ next[r] \in Nat /\ next[r] <= MaxRepeats
    BY DEF DueRules, Due, TypeOK
  <2>2. \A r \in batch : next[r] \in 0..MaxRepeats
    BY <2>1
  <2> QED
    BY <2>1, <2>2 DEF Rows
<1>4. \A row \in todo : Reached(row.rule, row.k)'
  <2>1. \A r \in batch : next[r] <= next'[r] /\ status'[r] # "absent"
    BY <1>1 DEF DueRules, Due, TypeOK, ruleVars
  <2> QED
    BY <1>1, <2>1 DEF Reached, ruleVars
<1>5. PICK x : FreshFrom(x, todo) /\ Moves(s, x)
  BY <1>1, <1>2, ProceedFresh
<1>6. TypeOK' /\ OneSubmitter' /\ Progress'
  <2> HIDE DEF todo
  <2>1. /\ status' \in [Rules -> RuleStatus] /\ first' \in [Rules -> Nat]
        /\ next' \in [Rules -> Nat] /\ now' \in Nat /\ stops' \in Nat
    BY <1>1 DEF TypeOK, ruleVars
  <2>2. \A r \in Rules : next[r] <= next'[r]
    BY <1>1 DEF TypeOK, ruleVars
  <2>3. \A r \in Rules : status'[r] = "absent" => status[r] = "absent" /\ next'[r] = 0
    BY <1>1 DEF Progress, ruleVars
  <2>4. OccMoved(s)
    BY <1>1 DEF OccMoved
  <2> QED
    BY <1>1, <1>3, <1>4, <1>5, <2>1, <2>2, <2>3, <2>4, LeaveOK
<1>7. InOrder' /\ AttentionExplained'
  BY <1>1 DEF InOrder, AttentionExplained, ruleVars
<1> QED
  BY <1>6, <1>7

\* Moving the rule on: every post of the recurrence it leaves is submitted.
LEMMA AdvanceOK ==
    ASSUME IInv, NEW s \in Schedulers, Advance(s)
    PROVE  IInv'
<1> USE DEF IInv
<1> DEFINE r == thread[s].rule
           k == thread[s].k
<1>1. s \in Threads /\ r \in Rules /\ k \in Nat
  <2>1. s \in Threads
    BY DEF Threads
  <2> QED
    BY <2>1, JobTyped, RecordsOK DEF Advance, RecordOK, ThreadRecord
<1>2. UNCHANGED <<status, first, occ, posted, now, stops>>
  BY DEF Advance
<1>3. /\ next \in [Rules -> Nat] /\ next' \in [Rules -> Nat]
      /\ next'[r] = IF next[r] = k THEN k + 1 ELSE next[r]
      /\ \A q \in Rules : q # r => next'[q] = next[q]
  BY <1>1 DEF Advance, TypeOK
<1>4. \A q \in Rules : next[q] <= next'[q]
  BY <1>1, <1>3
<1>5. PICK x : /\ FreshFrom(x, thread[s].todo) /\ Moves(s, x)
               /\ s \in Dashboards => x.todo = {}
  BY <1>1, LeaveFresh DEF Advance
<1>6. /\ Reached(r, k)
      /\ \A post \in 1..MaxPosts : post <= PostsOf[r] =>
            occ[[rule |-> r, k |-> k, post |-> post]] = "submitted"
  <2>1. ThreadOK(s) /\ thread[s].pc = "advance" /\ r # 0
    BY <1>1 DEF Progress, Advance
  <2> QED
    BY <2>1 DEF ThreadOK
<1>7. TypeOK' /\ OneSubmitter' /\ Progress'
  <2>1. \A row \in thread[s].todo : Reached(row.rule, row.k)'
    <3>1. \A row \in thread[s].todo : row.rule \in Rules /\ row.k \in Nat
      BY <1>1, TodoOK DEF Rows
    <3> QED
      BY <1>1, <1>2, <1>3, <1>4, <3>1, TodoOK DEF Reached
  <2>2. \A q \in Rules : status'[q] = "absent" => status[q] = "absent" /\ next'[q] = 0
    BY <1>2, <1>3, <1>6 DEF Progress, Reached
  <2>3. OccMoved(s)
    BY <1>2 DEF OccMoved
  <2>4. /\ status' \in [Rules -> RuleStatus] /\ first' \in [Rules -> Nat]
        /\ now' \in Nat /\ stops' \in Nat
    BY <1>2 DEF TypeOK
  <2> QED
    BY <1>1, <1>2, <1>3, <1>4, <1>5, <2>1, <2>2, <2>3, <2>4, TodoOK, LeaveOK
<1>8. InOrder'
  <2> SUFFICES ASSUME NEW o \in Occurrences
               PROVE  /\ o.k \in 1..(next'[o.rule] - 1) /\ o.post <= PostsOf[o.rule]
                            => occ[o] = "submitted"
                      /\ o.k > next'[o.rule] => occ[o] = "none"
    BY <1>2 DEF InOrder
  <2>1. /\ o.rule \in Rules /\ o.k \in Nat /\ o.post \in 1..MaxPosts
        /\ o = [rule |-> o.rule, k |-> o.k, post |-> o.post]
    BY DEF Occurrences
  <2>2. next[o.rule] \in Nat /\ next'[o.rule] \in Nat
    BY <1>3, <2>1
  <2>3. o.k > next'[o.rule] => occ[o] = "none"
    BY <1>4, <2>1, <2>2 DEF InOrder
  <2>4. ASSUME o.rule = r, o.k = k, o.post <= PostsOf[r]
        PROVE  occ[o] = "submitted"
    BY <1>6, <2>1, <2>4
  <2>5. o.k \in 1..(next'[o.rule] - 1) /\ ~(o.rule = r /\ o.k = k)
           => o.k \in 1..(next[o.rule] - 1)
    BY <1>1, <1>3, <2>1, <2>2
  <2> QED
    BY <2>3, <2>4, <2>5 DEF InOrder
<1>9. AttentionExplained'
  BY <1>2 DEF AttentionExplained
<1> QED
  BY <1>7, <1>8, <1>9

\* A step that changes neither a rule nor its time keeps what LeaveOK asks of both.
LEMMA RulesKept ==
    ASSUME IInv, next' = next,
           status' \in [Rules -> RuleStatus],
           \A r \in Rules : status'[r] = "absent" => status[r] = "absent"
    PROVE  /\ next' \in [Rules -> Nat]
           /\ \A r \in Rules : next[r] <= next'[r]
           /\ \A r \in Rules : status'[r] = "absent" => status[r] = "absent" /\ next'[r] = 0
           /\ \A t \in Threads : \A row \in thread[t].todo : Reached(row.rule, row.k)'
<1> USE DEF IInv
<1>1. next \in [Rules -> Nat] /\ \A r \in Rules : next[r] <= next[r]
  BY DEF TypeOK
<1>2. \A row \in Rows : Reached(row.rule, row.k) => Reached(row.rule, row.k)'
  BY DEF Reached, Rows
<1> QED
  BY <1>1, <1>2, TodoOK DEF Progress

\* Where rules stand still, what is reached stays reached.
LEMMA StillReached ==
    ASSUME NEW rule, NEW k, Reached(rule, k), status' = status, next' = next
    PROVE  status'[rule] # "absent" /\ k <= next'[rule]
BY DEF Reached

\* What it takes for a thread that is submitting to be as it should.
LEMMA SubmittingOK ==
    ASSUME NEW t \in Threads, NEW x, thread'[t] = x,
           (x.pc = "post" /\ x.tries = 0) \/ x.pc = "answer",
           x.pc = "answer" /\ x.got =>
              \E n \in 1..MaxTries : [of |-> Job(t)', try |-> n] \in posted',
           status'[x.rule] # "absent", x.k <= next'[x.rule],
           \A post \in 1..MaxPosts : post < x.post =>
              occ'[[rule |-> x.rule, k |-> x.k, post |-> post]] = "submitted",
           \A row \in x.todo : status'[row.rule] # "absent" /\ row.k <= next'[row.rule]
    PROVE  ThreadOK(t)'
<1>1. (\A row \in thread[t].todo : Reached(row.rule, row.k))'
  BY DEF Reached
<1>2. Reached(thread[t].rule, thread[t].k)'
  BY DEF Reached
<1> QED
  BY <1>1, <1>2 DEF ThreadOK

\* What a duplicate row and a thread that is cut short have in common.
LEMMA QuietOK ==
    ASSUME IInv, NEW t \in Threads, NEW todo \in SUBSET thread[t].todo, NEW x,
           FreshFrom(x, todo), Moves(t, x),
           UNCHANGED <<status, first, next, occ, posted, now>>, stops' \in Nat
    PROVE  IInv'
<1> USE DEF IInv
<1>1. /\ todo \in SUBSET Rows
      /\ \A row \in todo : Reached(row.rule, row.k)'
      /\ t \in Dashboards => x.todo = {}
  BY TodoOK, RulesKept DEF TypeOK, FreshFrom, Idle
<1>2. OccMoved(t) /\ status' \in [Rules -> RuleStatus] /\ first' \in [Rules -> Nat]
      /\ now' \in Nat
  BY DEF OccMoved, TypeOK
<1>3. TypeOK' /\ OneSubmitter' /\ Progress'
  BY <1>1, <1>2, RulesKept, LeaveOK
<1>4. InOrder' /\ AttentionExplained'
  BY DEF InOrder, AttentionExplained
<1> QED
  BY <1>3, <1>4

\* The IntegrityError of a second row leaves everything as it was.
LEMMA DuplicateOK ==
    ASSUME IInv, NEW t \in Threads, Duplicate(t)
    PROVE  IInv'
<1>1. PICK x : FreshFrom(x, thread[t].todo) /\ Moves(t, x)
  BY LeaveFresh DEF Duplicate
<1>2. UNCHANGED <<status, first, next, occ, posted, now>> /\ stops' \in Nat
  BY DEF Duplicate, ruleVars, IInv, TypeOK
<1> QED
  BY <1>1, <1>2, QuietOK

\* A thread that is cut short leaves everything as it was.
LEMMA StopOK ==
    ASSUME IInv, NEW t \in Threads, Stop(t)
    PROVE  IInv'
<1>1. FreshFrom(Idle, {}) /\ Moves(t, Idle)
  BY DEF FreshFrom, Moves, Stop
<1>2. UNCHANGED <<status, first, next, occ, posted, now>> /\ stops' \in Nat
  BY DEF Stop, ruleVars, IInv, TypeOK
<1> QED
  BY <1>1, <1>2, QuietOK

\* A refused post and one in doubt.
LEMMA SettleOK ==
    ASSUME IInv, NEW t \in Threads, Submitting(t),
           NEW outcome \in {"failed", "delivery_unknown"}, Settle(t, outcome)
    PROVE  IInv'
<1> USE DEF IInv
<1>1. PICK x : /\ FreshFrom(x, thread[t].todo) /\ Moves(t, x)
               /\ t \in Dashboards => x.todo = {}
  BY LeaveFresh DEF Settle
<1>2. /\ thread[t].rule \in Rules /\ Job(t) \in Occurrences
      /\ Job(t).rule = thread[t].rule
  BY JobTyped DEF Submitting, Job
<1>3. /\ occ' = [occ EXCEPT ![Job(t)] = outcome]
      /\ status' = [status EXCEPT ![thread[t].rule] = "attention_required"]
      /\ UNCHANGED <<first, next, posted, now, stops>>
  BY DEF Settle
<1>4. OccMoved(t)
  BY <1>3 DEF OccMoved, OccStatus
<1>5. /\ status' \in [Rules -> RuleStatus]
      /\ \A r \in Rules : status'[r] = "absent" => status[r] = "absent"
  BY <1>2, <1>3 DEF TypeOK, RuleStatus
<1>6. TypeOK' /\ OneSubmitter' /\ Progress'
  <2>1. first' \in [Rules -> Nat] /\ now' \in Nat /\ stops' \in Nat
    BY <1>3 DEF TypeOK
  <2> QED
    BY <1>1, <1>3, <1>4, <1>5, <2>1, RulesKept, TodoOK, LeaveOK
<1>7. InOrder'
  BY <1>3, <1>4, RowsStable, InOrderKept
<1>8. AttentionExplained'
  <2>1. occ[Job(t)] = "submitting"
    BY DEF OneSubmitter
  <2>2. /\ occ'[Job(t)] = outcome
        /\ \A o \in Occurrences : o # Job(t) => occ'[o] = occ[o]
    BY <1>2, <1>3 DEF TypeOK
  <2>3. /\ status'[thread[t].rule] = "attention_required"
        /\ \A r \in Rules : r # thread[t].rule => status'[r] = status[r]
    BY <1>2, <1>3 DEF TypeOK
  <2> QED
    BY <1>2, <2>1, <2>2, <2>3 DEF AttentionExplained
<1> QED
  BY <1>6, <1>7, <1>8

\* The row of an occurrence: nobody submits it, for it would have a row.
LEMMA InsertOccurrenceOK ==
    ASSUME IInv, NEW t \in Threads, InsertOccurrence(t)
    PROVE  IInv'
<1> USE DEF IInv
<1> DEFINE x == [thread[t] EXCEPT !.pc = "post"]
           o == Job(t)
<1>1. /\ o \in Occurrences /\ occ[o] = "none" /\ thread[t].rule \in Rules
      /\ thread[t].pc = "insert"
      /\ o.rule = thread[t].rule /\ o.k = thread[t].k
  BY JobTyped DEF InsertOccurrence, Job
<1>2. /\ occ' \in [Occurrences -> OccStatus] /\ occ'[o] = "submitting"
      /\ \A other \in Occurrences : other # o => occ'[other] = occ[other]
  BY <1>1 DEF InsertOccurrence, TypeOK, OccStatus
<1>3. UNCHANGED <<status, first, next, posted, now, stops>>
  BY DEF InsertOccurrence, ruleVars
<1>4. /\ RecordOK(t, x) /\ Moves(t, x) /\ x.pc = "post"
      /\ x.rule = thread[t].rule /\ x.k = thread[t].k /\ x.post = thread[t].post
      /\ x.todo = thread[t].todo /\ x.tries = thread[t].tries
  BY <1>1, RecordsOK DEF InsertOccurrence, Moves, RecordOK, ThreadRecord, Steps
<1> HIDE DEF x, o
<1>5. /\ thread'[t] = x
      /\ \A u \in Threads : u # t => thread'[u] = thread[u]
  BY <1>4, MoveTyped
<1>6. TypeOK'
  <2>1. /\ status' \in [Rules -> RuleStatus] /\ first' \in [Rules -> Nat]
        /\ next' \in [Rules -> Nat] /\ now' \in Nat /\ stops' \in Nat
        /\ posted' \in SUBSET [of : Occurrences, try : 1..MaxTries]
    BY <1>3 DEF TypeOK
  <2> QED
    BY <1>2, <1>4, <2>1, TypeAfterMove
<1>7. OneSubmitter'
  <2>1. Job(t)' = o
    BY <1>4, <1>5 DEF Job, o
  <2>2. ASSUME NEW u \in Threads, u # t, Submitting(u)'
        PROVE  Job(u)' # o /\ (occ[Job(u)] = "submitting")' /\ Job(u)' = Job(u) /\ Submitting(u)
    <3>1. Submitting(u) /\ Job(u)' = Job(u)
      BY <1>5, <2>2 DEF Submitting, Job
    <3>2. Job(u) \in Occurrences /\ occ[Job(u)] = "submitting"
      BY <3>1, JobTyped DEF OneSubmitter, Submitting
    <3> QED
      BY <1>1, <1>2, <3>1, <3>2
  <2>3. \A p \in posted' : occ'[p.of] # "none"
    BY <1>2, <1>3 DEF OneSubmitter, TypeOK
  <2> QED
    BY <1>2, <2>1, <2>2, <2>3 DEF OneSubmitter
<1>8. InOrder'
  <2>1. o.k <= next[o.rule] /\ o.k \in Nat /\ next[o.rule] \in Nat
    <3>1. ThreadOK(t) /\ thread[t].rule # 0
      BY <1>1 DEF Progress
    <3> QED
      BY <1>1, <3>1 DEF ThreadOK, Reached, Occurrences, TypeOK
  <2> QED
    BY <1>1, <1>2, <1>3, <2>1 DEF InOrder
<1>9. AttentionExplained'
  BY <1>1, <1>2, <1>3 DEF AttentionExplained
<1>10. Progress'
  <2>1. ThreadOK(t) /\ x.pc \notin {"answer", "advance"} /\ thread[t].tries = 0
    BY <1>1, <1>4 DEF Progress, ThreadOK
  <2>2. thread[t].k \in 0..MaxRepeats
    BY RecordsOK DEF RecordOK, ThreadRecord
  <2>3. \A post \in 1..MaxPosts :
           [rule |-> thread[t].rule, k |-> thread[t].k, post |-> post] \in Occurrences
    BY <1>1, <2>2 DEF Occurrences
  <2>4. \A other \in Occurrences : occ[other] = "submitted" => occ'[other] = "submitted"
    BY <1>1, <1>2
  <2>5. \A post \in 1..MaxPosts : post < thread[t].post =>
           occ'[[rule |-> x.rule, k |-> x.k, post |-> post]] = "submitted"
    BY <1>1, <1>4, <2>1, <2>3, <2>4 DEF ThreadOK
  <2>6. /\ status'[x.rule] # "absent" /\ x.k <= next'[x.rule]
        /\ \A row \in x.todo : status'[row.rule] # "absent" /\ row.k <= next'[row.rule]
    <3>1. Reached(thread[t].rule, thread[t].k)
      BY <1>1, <2>1 DEF ThreadOK
    <3>2. \A row \in thread[t].todo : Reached(row.rule, row.k)
      BY <2>1 DEF ThreadOK
    <3> QED
      BY <1>3, <1>4, <3>1, <3>2, StillReached
  <2>7. ThreadOK(t)'
    BY <1>4, <1>5, <2>1, <2>5, <2>6, SubmittingOK
  <2>8. next' \in [Rules -> Nat] /\ (\A r \in Rules : next[r] <= next'[r])
        /\ \A r \in Rules : status'[r] = "absent" => status[r] = "absent"
    BY <1>3 DEF TypeOK
  <2>9. \A u \in Threads : ThreadOK(u)'
    BY <1>3, <1>4, <2>4, <2>7, <2>8, OthersOK DEF Progress
  <2> QED
    BY <1>3, <2>9 DEF Progress
<1> QED
  BY <1>6, <1>7, <1>8, <1>9, <1>10

\* A request, sent once or again.
LEMMA SendRequestOK ==
    ASSUME IInv, NEW t \in Threads, SendRequest(t)
    PROVE  IInv'
<1> USE DEF IInv
<1> DEFINE try == thread[t].tries + 1
<1>1. PICK accepted \in BOOLEAN :
         /\ thread' = [thread EXCEPT ![t].pc = "answer", ![t].tries = @ + 1,
                                     ![t].got = accepted]
         /\ posted' = IF accepted THEN posted \cup {[of |-> Job(t), try |-> try]}
                      ELSE posted
  BY DEF SendRequest
<1>2. UNCHANGED <<status, first, next, occ, now, stops>>
  BY DEF SendRequest, ruleVars
<1>3. /\ Submitting(t) /\ Job(t) \in Occurrences /\ thread[t].rule \in Rules
      /\ occ[Job(t)] = "submitting"
  BY JobTyped DEF SendRequest, Submitting, OneSubmitter
<1>4. try \in 1..MaxTries
  <2>1. thread[t].tries \in 0..MaxTries
    BY RecordsOK DEF RecordOK, ThreadRecord
  <2>2. thread[t].tries < MaxTries
    BY <2>1 DEF SendRequest, Progress, ThreadOK
  <2> QED
    BY <2>1, <2>2
<1> DEFINE x == [thread[t] EXCEPT !.pc = "answer", !.tries = try, !.got = accepted]
<1>5. thread[t] \in ThreadRecord /\ RecordOK(t, thread[t])
  BY RecordsOK DEF RecordOK
<1>6. /\ x \in ThreadRecord /\ x.pc = "answer" /\ x.tries = try /\ x.got = accepted
      /\ x.rule = thread[t].rule /\ x.k = thread[t].k /\ x.post = thread[t].post
      /\ x.todo = thread[t].todo
  <2> DEFINE y == thread[t]
  <2>1. /\ y \in ThreadRecord /\ "answer" \in Steps /\ try \in 0..MaxTries
    BY <1>4, <1>5 DEF Steps
  <2> HIDE DEF y, try
  <2>2. [y EXCEPT !.pc = "answer"] \in ThreadRecord
    BY <2>1 DEF ThreadRecord
  <2> QED
    BY <2>1 DEF ThreadRecord, y
<1>7. Moves(t, x)
  BY <1>1, <1>5 DEF Moves, TypeOK
<1> HIDE DEF x
<1>8. RecordOK(t, x)
  BY <1>3, <1>5, <1>6 DEF RecordOK, Submitting
<1>9. /\ thread'[t] = x
      /\ \A u \in Threads : u # t => thread'[u] = thread[u]
  BY <1>7, <1>8, MoveTyped
<1>10. /\ posted \subseteq posted'
       /\ posted' \in SUBSET [of : Occurrences, try : 1..MaxTries]
       /\ accepted => [of |-> Job(t), try |-> try] \in posted'
       /\ \A p \in posted' : p \in posted \/ p.of = Job(t)
  BY <1>1, <1>3, <1>4 DEF TypeOK
<1>11. Job(t)' = Job(t) /\ \A u \in Threads : u # t => Job(u)' = Job(u)
  BY <1>6, <1>9 DEF Job
<1>12. TypeOK'
  <2>1. /\ status' \in [Rules -> RuleStatus] /\ first' \in [Rules -> Nat]
        /\ next' \in [Rules -> Nat] /\ now' \in Nat /\ stops' \in Nat
        /\ occ' \in [Occurrences -> OccStatus]
    BY <1>2 DEF TypeOK
  <2> QED
    BY <1>7, <1>8, <1>10, <2>1, TypeAfterMove
<1>13. OneSubmitter'
  <2>1. \A u \in Threads : Submitting(u)' => Submitting(u) /\ Job(u)' = Job(u)
    BY <1>3, <1>9, <1>11 DEF Submitting
  <2>2. \A p \in posted' : occ'[p.of] # "none"
    BY <1>2, <1>3, <1>10 DEF OneSubmitter
  <2> QED
    BY <1>2, <2>1, <2>2 DEF OneSubmitter
<1>14. InOrder' /\ AttentionExplained'
  BY <1>2 DEF InOrder, AttentionExplained
<1>15. Progress'
  <2>1. ThreadOK(t) /\ thread[t].rule # 0 /\ thread[t].pc # "advance"
    BY <1>3 DEF Progress, Submitting
  <2>2. /\ status'[x.rule] # "absent" /\ x.k <= next'[x.rule]
        /\ \A row \in x.todo : status'[row.rule] # "absent" /\ row.k <= next'[row.rule]
    <3>1. Reached(thread[t].rule, thread[t].k)
      BY <2>1 DEF ThreadOK
    <3>2. \A row \in thread[t].todo : Reached(row.rule, row.k)
      BY <2>1 DEF ThreadOK
    <3> QED
      BY <1>2, <1>6, <3>1, <3>2, StillReached
  <2>3. \A post \in 1..MaxPosts : post < x.post =>
           occ'[[rule |-> x.rule, k |-> x.k, post |-> post]] = "submitted"
    BY <1>2, <1>6, <2>1 DEF ThreadOK
  <2>4. x.got => \E n \in 1..MaxTries : [of |-> Job(t)', try |-> n] \in posted'
    BY <1>4, <1>6, <1>10, <1>11
  <2>5. ThreadOK(t)'
    BY <1>6, <1>9, <2>2, <2>3, <2>4, SubmittingOK
  <2>6. next' \in [Rules -> Nat] /\ (\A r \in Rules : next[r] <= next'[r])
        /\ \A r \in Rules : status'[r] = "absent" => status[r] = "absent"
    BY <1>2 DEF TypeOK
  <2>7. \A u \in Threads : ThreadOK(u)'
    BY <1>2, <1>7, <1>8, <1>10, <2>5, <2>6, OthersOK DEF Progress
  <2> QED
    BY <1>2, <2>7 DEF Progress
<1> QED
  BY <1>12, <1>13, <1>14, <1>15

\* What a thread has behind it once its post is submitted.
LEMMA PostsBehind ==
    ASSUME IInv, NEW t \in Threads, Submitted(t)
    PROVE  /\ OccMoved(t)
           /\ occ'[Job(t)] = "submitted"
           /\ \A post \in 1..MaxPosts : post <= thread[t].post =>
                 occ'[[rule |-> thread[t].rule, k |-> thread[t].k,
                       post |-> post]] = "submitted"
<1> USE DEF IInv
<1>1. OccMoved(t)
  BY DEF Submitted, Submitting, OccMoved, OccStatus
<1>2. /\ thread[t].rule \in Rules /\ Job(t) \in Occurrences
      /\ thread[t].post \in 1..PostsOf[thread[t].rule]
      /\ PostsOf[thread[t].rule] \in 1..MaxPosts
      /\ thread[t].k \in 0..MaxRepeats
  BY JobTyped, RecordsOK DEF Submitted, RecordOK, ThreadRecord
<1>3. occ'[Job(t)] = "submitted"
  BY <1>2 DEF Submitted, TypeOK
<1>4. \A post \in 1..MaxPosts : post < thread[t].post =>
         occ[[rule |-> thread[t].rule, k |-> thread[t].k, post |-> post]] = "submitted"
  BY <1>2 DEF Progress, ThreadOK
<1>5. \A post \in 1..MaxPosts :
         [rule |-> thread[t].rule, k |-> thread[t].k, post |-> post] \in Occurrences
  BY <1>2 DEF Occurrences
<1>6. \A post \in 1..MaxPosts : post < thread[t].post =>
         occ'[[rule |-> thread[t].rule, k |-> thread[t].k, post |-> post]] = "submitted"
  BY <1>1, <1>4, <1>5, RowsStable
<1>7. \A post \in 1..MaxPosts : post <= thread[t].post =>
         post < thread[t].post \/ post = thread[t].post
  BY <1>2
<1> QED
  BY <1>1, <1>3, <1>6, <1>7 DEF Job

\* A thread that goes on to the next post, or from the last one to the rule.
LEMMA GoesOnOK ==
    ASSUME IInv, NEW t \in Threads, Submitted(t), NEW x,
           RecordOK(t, x), Moves(t, x),
           x.rule = thread[t].rule, x.k = thread[t].k, x.todo = thread[t].todo,
           \/ x.pc = "insert" /\ x.tries = 0 /\ x.post = thread[t].post + 1
           \/ /\ x.pc = "advance" /\ x.post = thread[t].post
              /\ thread[t].post = PostsOf[thread[t].rule]
    PROVE  TypeOK' /\ OneSubmitter' /\ Progress'
<1> USE DEF IInv
<1>1. UNCHANGED <<status, first, next, posted, now, stops>>
  BY DEF Submitted, ruleVars
<1>2. OccMoved(t) /\ occ' \in [Occurrences -> OccStatus]
  BY PostsBehind, RowsStable
<1>3. TypeOK'
  <2>1. /\ status' \in [Rules -> RuleStatus] /\ first' \in [Rules -> Nat]
        /\ next' \in [Rules -> Nat] /\ now' \in Nat /\ stops' \in Nat
        /\ posted' \in SUBSET [of : Occurrences, try : 1..MaxTries]
    BY <1>1 DEF TypeOK
  <2> QED
    BY <1>2, <2>1, TypeAfterMove
<1>4. OneSubmitter'
  BY <1>1, <1>2, LeavesOneSubmitter
<1>5. thread'[t] = x
  BY MoveTyped
<1>6. /\ thread[t].rule \in Rules
      /\ thread[t].post \in 1..PostsOf[thread[t].rule]
      /\ PostsOf[thread[t].rule] \in 1..MaxPosts
  BY JobTyped DEF Submitted
<1>7. Reached(x.rule, x.k)' /\ \A row \in x.todo : Reached(row.rule, row.k)'
  <2>1. ThreadOK(t) /\ thread[t].rule # 0
    BY <1>6 DEF Progress
  <2>2. Reached(thread[t].rule, thread[t].k)
    BY <2>1 DEF ThreadOK
  <2>3. \A row \in thread[t].todo : Reached(row.rule, row.k)
    BY <2>1 DEF ThreadOK
  <2>4. /\ status'[x.rule] # "absent" /\ x.k <= next'[x.rule]
        /\ \A row \in x.todo : status'[row.rule] # "absent" /\ row.k <= next'[row.rule]
    BY <1>1, <2>2, <2>3, StillReached
  <2> QED
    BY <2>4 DEF Reached
<1>8. \A post \in 1..MaxPosts :
         post < x.post \/ (x.pc = "advance" /\ post <= PostsOf[x.rule]) =>
            occ'[[rule |-> x.rule, k |-> x.k, post |-> post]] = "submitted"
  <2>1. \A post \in 1..MaxPosts :
           post < x.post \/ (x.pc = "advance" /\ post <= PostsOf[x.rule]) =>
              post <= thread[t].post
    BY <1>6
  <2> QED
    BY <2>1, PostsBehind
<1>9. ThreadOK(t)'
  <2>1. x.pc # "answer" /\ (x.pc \in {"idle", "insert", "post"} => x.tries = 0)
    OBVIOUS
  <2>2. (\A row \in thread[t].todo : Reached(row.rule, row.k))'
    BY <1>5, <1>7
  <2>3. Reached(thread[t].rule, thread[t].k)'
    BY <1>5, <1>7
  <2> QED
    BY <1>5, <1>8, <2>1, <2>2, <2>3 DEF ThreadOK
<1>10. \A u \in Threads : ThreadOK(u)'
  <2>1. next' \in [Rules -> Nat] /\ (\A r \in Rules : next[r] <= next'[r])
        /\ \A r \in Rules : status'[r] = "absent" => status[r] = "absent"
    BY <1>1 DEF TypeOK
  <2>2. \A o \in Occurrences : occ[o] = "submitted" => occ'[o] = "submitted"
    BY <1>2, RowsStable
  <2> QED
    BY <1>1, <1>9, <2>1, <2>2, OthersOK DEF Progress
<1>11. Progress'
  BY <1>1, <1>10 DEF Progress
<1> QED
  BY <1>3, <1>4, <1>11

\* An accepted post.
LEMMA SubmittedOK ==
    ASSUME IInv, NEW t \in Threads, Submitted(t)
    PROVE  IInv'
<1> USE DEF IInv
<1>1. UNCHANGED <<status, first, next, posted, now, stops>>
  BY DEF Submitted, ruleVars
<1>2. OccMoved(t)
  BY PostsBehind
<1>3. /\ thread[t].rule \in Rules /\ Job(t) \in Occurrences
      /\ thread[t].post \in 1..PostsOf[thread[t].rule]
      /\ PostsOf[thread[t].rule] \in 1..MaxPosts
      /\ RecordOK(t, thread[t]) /\ thread[t] \in ThreadRecord
  BY JobTyped, RecordsOK DEF Submitted, RecordOK
<1>4. TypeOK' /\ OneSubmitter' /\ Progress'
  <2>1. CASE thread[t].post < PostsOf[thread[t].rule]
    <3> DEFINE y == thread[t]
               x == [y EXCEPT !.pc = "insert", !.post = @ + 1,
                              !.tries = 0, !.got = FALSE]
    <3>1. Moves(t, x)
      BY <2>1 DEF Submitted, NextPost, Moves
    <3>2. /\ y \in ThreadRecord /\ "insert" \in Steps /\ 0 \in 0..MaxTries
          /\ y.post + 1 \in 0..MaxPosts /\ y.post + 1 \in 1..PostsOf[y.rule]
      BY <1>3, <2>1 DEF Steps
    <3>3. y.rule # 0 /\ (t \in Dashboards => y.todo = {})
      BY <1>3 DEF RecordOK
    <3> HIDE DEF y
    <3>4. /\ x \in ThreadRecord /\ x.pc = "insert" /\ x.post = y.post + 1
          /\ x.tries = 0 /\ x.rule = y.rule /\ x.k = y.k /\ x.todo = y.todo
      BY <3>2 DEF ThreadRecord
    <3> HIDE DEF x
    <3>5. RecordOK(t, x)
      BY <3>2, <3>3, <3>4 DEF RecordOK
    <3> QED
      BY <3>1, <3>4, <3>5, GoesOnOK DEF y
  <2>2. CASE ~(thread[t].post < PostsOf[thread[t].rule]) /\ t \in Schedulers
    <3> DEFINE y == thread[t]
               x == [y EXCEPT !.pc = "advance"]
    <3>1. Moves(t, x)
      BY <2>2, <1>3 DEF Submitted, NextPost, Moves, TypeOK
    <3>2. y.rule # 0 /\ t \notin Dashboards /\ y.post = PostsOf[y.rule]
      BY <1>3, <2>2 DEF RecordOK
    <3>3. y \in ThreadRecord /\ "advance" \in Steps /\ y.post \in 1..PostsOf[y.rule]
      BY <1>3 DEF Steps
    <3> HIDE DEF y
    <3>4. /\ x \in ThreadRecord /\ x.pc = "advance" /\ x.post = y.post
          /\ x.rule = y.rule /\ x.k = y.k /\ x.todo = y.todo
      BY <3>3 DEF ThreadRecord
    <3> HIDE DEF x
    <3>5. RecordOK(t, x)
      BY <3>2, <3>3, <3>4 DEF RecordOK
    <3> QED
      BY <3>1, <3>2, <3>4, <3>5, GoesOnOK DEF y
  <2>3. CASE ~(thread[t].post < PostsOf[thread[t].rule]) /\ t \notin Schedulers
    <3>1. Leave(t)
      BY <2>3 DEF Submitted, NextPost
    <3>2. PICK x : /\ FreshFrom(x, thread[t].todo) /\ Moves(t, x)
                   /\ t \in Dashboards => x.todo = {}
      BY <3>1, LeaveFresh
    <3>3. /\ status' \in [Rules -> RuleStatus] /\ first' \in [Rules -> Nat]
          /\ now' \in Nat /\ stops' \in Nat
          /\ \A r \in Rules : status'[r] = "absent" => status[r] = "absent"
      BY <1>1 DEF TypeOK
    <3> QED
      BY <1>1, <1>2, <3>2, <3>3, RulesKept, TodoOK, LeaveOK
  <2> QED
    BY <2>1, <2>2, <2>3
<1>5. InOrder'
  BY <1>1, <1>2, RowsStable, InOrderKept
<1>6. AttentionExplained'
  <2>1. occ[Job(t)] = "submitting" /\ occ'[Job(t)] = "submitted"
    BY PostsBehind DEF OneSubmitter, Submitted, Submitting
  <2>2. \A o \in Occurrences : o # Job(t) => occ'[o] = occ[o]
    BY <1>3 DEF Submitted, TypeOK
  <2> QED
    BY <1>1, <2>1, <2>2 DEF AttentionExplained
<1> QED
  BY <1>4, <1>5, <1>6

\* Time passes.
LEMMA TickOK ==
    ASSUME IInv, Tick
    PROVE  IInv'
<1> USE DEF IInv
<1>1. UNCHANGED <<status, first, next, occ, thread, posted, stops>> /\ now' \in Nat
  BY DEF Tick, ruleVars, TypeOK
<1>2. TypeOK'
  BY <1>1 DEF TypeOK
<1>3. OneSubmitter' /\ InOrder' /\ AttentionExplained'
  BY <1>1 DEF OneSubmitter, Submitting, Job, InOrder, AttentionExplained
<1>4. Progress'
  BY <1>1 DEF Progress, ThreadOK, Reached, Job
<1> QED
  BY <1>2, <1>3, <1>4

\* Any step of _submit_one keeps the invariant.
LEMMA SubmitOK ==
    ASSUME IInv, NEW t \in Threads, Submit(t)
    PROVE  IInv'
<1>1. CASE InsertOccurrence(t)
  BY <1>1, InsertOccurrenceOK
<1>2. CASE Duplicate(t)
  BY <1>2, DuplicateOK
<1>3. CASE SendRequest(t)
  BY <1>3, SendRequestOK
<1>4. CASE Submitted(t)
  BY <1>4, SubmittedOK
<1>5. CASE Rejected(t)
  <2>1. Submitting(t) /\ Settle(t, "failed")
    BY <1>5 DEF Rejected, Submitting
  <2> QED
    BY <2>1, SettleOK
<1>6. CASE Unconfirmed(t)
  <2>1. Submitting(t) /\ Settle(t, "delivery_unknown")
    BY <1>6 DEF Unconfirmed, Submitting
  <2> QED
    BY <2>1, SettleOK
<1> QED
  BY <1>1, <1>2, <1>3, <1>4, <1>5, <1>6 DEF Submit

\* Every step keeps the invariant.
LEMMA NextOK == IInv /\ [Next]_vars => IInv'
<1> SUFFICES ASSUME IInv, [Next]_vars PROVE IInv'
  OBVIOUS
<1>1. ASSUME NEW t \in Threads, Submit(t) PROVE IInv'
  BY <1>1, SubmitOK
<1>2. ASSUME NEW d \in Dashboards, NEW r \in Rules, Schedule(d, r) PROVE IInv'
  BY <1>2, ScheduleOK
<1>3. ASSUME NEW s \in Schedulers, Sweep(s) \/ Advance(s) PROVE IInv'
  BY <1>3, SweepOK, AdvanceOK
<1>4. ASSUME NEW t \in Threads, Stop(t) PROVE IInv'
  BY <1>4, StopOK
<1>5. CASE Tick
  BY <1>5, TickOK
<1>6. CASE UNCHANGED vars
  BY <1>6 DEF vars, ruleVars, IInv, TypeOK, OneSubmitter, Submitting, Job,
              InOrder, AttentionExplained, Progress, ThreadOK, Reached
<1> QED
  BY <1>1, <1>2, <1>3, <1>4, <1>5, <1>6 DEF Next, RunDue, Threads

\* The invariant holds in every reachable state.
LEMMA Invariance == Spec => []IInv
BY InitOK, NextOK, PTL DEF Spec

-----------------------------------------------------------------------------
\* Every variable keeps its type, whatever the rules, threads and limits.
THEOREM BulkTypeCorrect == Spec => []TypeOK
<1>1. IInv => TypeOK
  BY DEF IInv
<1> QED
  BY <1>1, Invariance, PTL

\* However many schedulers sweep the table, one thread submits an occurrence, and
\* its row is there before the request.
THEOREM SubmittedByOne == Spec => []OneSubmitter
<1>1. IInv => OneSubmitter
  BY DEF IInv
<1> QED
  BY <1>1, Invariance, PTL

\* No sweep skips a recurrence or submits one out of turn.
THEOREM RecurrencesInOrder == Spec => []InOrder
<1>1. IInv => InOrder
  BY DEF IInv
<1> QED
  BY <1>1, Invariance, PTL

\* A rule asks for attention exactly when one of its posts went wrong.
THEOREM AttentionIsExplained == Spec => []AttentionExplained
<1>1. IInv => AttentionExplained
  BY DEF IInv
<1> QED
  BY <1>1, Invariance, PTL

-----------------------------------------------------------------------------
LedgerStep == [Ledger!Next]_(Ledger!vars)

\* A step that leaves the occurrences and the provider alone is none of the ledger.
LEMMA LedgerStutters ==
    ASSUME occ' = occ, posted' = posted
    PROVE  LedgerStep
BY DEF LedgerStep, Ledger!vars, LedgerState, LedgerCopies, Standing

\* A row that changes its status moves one item.
LEMMA LedgerMoves ==
    ASSUME TypeOK, NEW o \in Occurrences, NEW s \in OccStatus,
           occ' = [occ EXCEPT ![o] = s], posted' = posted
    PROVE  /\ LedgerState' = [LedgerState EXCEPT ![o] = Standing(s)]
           /\ LedgerCopies' = LedgerCopies
<1>1. occ'[o] = s /\ \A other \in Occurrences : other # o => occ'[other] = occ[other]
  BY DEF TypeOK
<1>2. LedgerCopies' = LedgerCopies
  BY DEF LedgerCopies
<1>3. LedgerState' = [other \in Occurrences |->
                         IF other = o THEN Standing(s) ELSE LedgerState[other]]
  BY <1>1 DEF LedgerState
<1>4. [LedgerState EXCEPT ![o] = Standing(s)]
         = [other \in Occurrences |->
               IF other = o THEN Standing(s) ELSE LedgerState[other]]
  BY DEF LedgerState
<1> QED
  BY <1>2, <1>3, <1>4

\* The steps of _submit_one are the ledger's.
LEMMA SubmitRefines ==
    ASSUME IInv, NEW t \in Threads, Submit(t)
    PROVE  LedgerStep
<1> USE DEF IInv
<1>1. thread[t].pc # "idle" /\ Job(t) \in Occurrences
  BY JobTyped DEF Submit, InsertOccurrence, Duplicate, SendRequest, Submitted,
                  Rejected, Unconfirmed
<1>2. CASE InsertOccurrence(t)
  <2>1. occ[Job(t)] = "none" /\ posted' = posted
        /\ occ' = [occ EXCEPT ![Job(t)] = "submitting"]
    BY <1>2 DEF InsertOccurrence
  <2>2. Ledger!Attempt(Job(t))
    BY <1>1, <2>1, LedgerMoves
       DEF Ledger!Attempt, Ledger!Move, LedgerState, Standing, OccStatus
  <2> QED
    BY <1>1, <2>2 DEF LedgerStep, Ledger!Next
<1>3. CASE Duplicate(t)
  BY <1>3, LedgerStutters DEF Duplicate
<1>4. CASE SendRequest(t)
  <2> DEFINE try == thread[t].tries + 1
  <2>1. Submitting(t) /\ occ[Job(t)] = "submitting" /\ try \in 1..MaxTries
    <3>1. thread[t].tries \in 0..MaxTries
      BY RecordsOK DEF RecordOK, ThreadRecord
    <3>2. thread[t].tries < MaxTries
      BY <1>4, <3>1 DEF SendRequest, Progress, ThreadOK
    <3> QED
      BY <1>4, <3>1, <3>2 DEF SendRequest, Submitting, OneSubmitter
  <2>2. occ' = occ /\ LedgerState' = LedgerState
    BY <1>4 DEF SendRequest, LedgerState, Standing
  <2>3. CASE posted' = posted
    BY <2>2, <2>3, LedgerStutters
  <2>4. CASE posted' = posted \cup {[of |-> Job(t), try |-> try]}
    <3>1. LedgerCopies' = [LedgerCopies EXCEPT ![Job(t)] = @ \cup {try}]
      <4>1. LedgerCopies' = [o \in Occurrences |->
               IF o = Job(t) THEN LedgerCopies[o] \cup {try} ELSE LedgerCopies[o]]
        <5>1. ASSUME NEW o \in Occurrences
              PROVE  {n \in 1..MaxTries : [of |-> o, try |-> n] \in posted'}
                        = IF o = Job(t) THEN LedgerCopies[o] \cup {try}
                          ELSE LedgerCopies[o]
          BY <1>1, <2>1, <2>4 DEF LedgerCopies
        <5> QED
          BY <5>1 DEF LedgerCopies
      <4> QED
        BY <1>1, <4>1 DEF LedgerCopies
    <3>2. Ledger!Accept(Job(t), try)
      BY <1>1, <2>1, <2>2, <3>1
         DEF Ledger!Accept, Ledger!Attempted, LedgerState, Standing
    <3> QED
      BY <1>1, <2>1, <3>2 DEF LedgerStep, Ledger!Next
  <2> QED
    BY <1>4, <2>3, <2>4 DEF SendRequest
<1>5. CASE Submitted(t)
  <2>1. /\ posted' = posted /\ occ[Job(t)] = "submitting"
        /\ occ' = [occ EXCEPT ![Job(t)] = "submitted"]
    BY <1>5 DEF Submitted, Submitting, OneSubmitter
  <2>2. LedgerCopies[Job(t)] # {}
    BY <1>1, <1>5 DEF Submitted, Progress, ThreadOK, LedgerCopies
  <2>3. Ledger!Confirm(Job(t))
    BY <1>1, <2>1, <2>2, LedgerMoves
       DEF Ledger!Confirm, Ledger!Move, LedgerState, Standing, OccStatus
  <2> QED
    BY <1>1, <2>3 DEF LedgerStep, Ledger!Next
<1>6. CASE Rejected(t)
  <2>1. /\ posted' = posted /\ occ[Job(t)] = "submitting"
        /\ occ' = [occ EXCEPT ![Job(t)] = "failed"]
    BY <1>6 DEF Rejected, Settle, Submitting, OneSubmitter
  <2>2. Ledger!Refuse(Job(t))
    BY <1>1, <2>1, LedgerMoves
       DEF Ledger!Refuse, Ledger!Move, LedgerState, Standing, OccStatus
  <2> QED
    BY <1>1, <2>2 DEF LedgerStep, Ledger!Next
<1>7. CASE Unconfirmed(t)
  <2>1. /\ posted' = posted /\ occ[Job(t)] = "submitting"
        /\ occ' = [occ EXCEPT ![Job(t)] = "delivery_unknown"]
    BY <1>7 DEF Unconfirmed, Settle, Submitting, OneSubmitter
  <2>2. Ledger!Doubt({Job(t)})
    <3>1. LedgerState' = [o \in Occurrences |->
             IF o \in {Job(t)} THEN "uncertain" ELSE LedgerState[o]]
      <4>1. LedgerState' = [LedgerState EXCEPT ![Job(t)] = "uncertain"]
        BY <1>1, <2>1, LedgerMoves DEF Standing, OccStatus
      <4>2. LedgerState = [o \in Occurrences |-> LedgerState[o]]
        BY DEF LedgerState
      <4> QED
        BY <1>1, <4>1, <4>2
    <3> QED
      BY <1>1, <2>1, <3>1, LedgerMoves
         DEF Ledger!Doubt, Ledger!Attempted, LedgerState, Standing, OccStatus
  <2> QED
    BY <1>1, <2>2 DEF LedgerStep, Ledger!Next
<1> QED
  BY <1>2, <1>3, <1>4, <1>5, <1>6, <1>7 DEF Submit

\* Every step of the service is a step of the ledger or leaves it unchanged.
LEMMA NextRefines == IInv /\ [Next]_vars => LedgerStep
<1> SUFFICES ASSUME IInv, [Next]_vars PROVE LedgerStep
  OBVIOUS
<1>1. ASSUME NEW t \in Threads, Submit(t) PROVE LedgerStep
  BY <1>1, SubmitRefines
<1>2. CASE \/ \E d \in Dashboards, r \in Rules : Schedule(d, r)
           \/ \E s \in Schedulers : Sweep(s) \/ Advance(s)
           \/ \E t \in Threads : Stop(t)
           \/ Tick \/ UNCHANGED vars
  <2>1. occ' = occ /\ posted' = posted
    BY <1>2 DEF Schedule, Sweep, Advance, Stop, Tick, vars
  <2> QED
    BY <2>1, LedgerStutters
<1> QED
  BY <1>1, <1>2 DEF Next, RunDue, Threads

\* The service implements the ledger: a post is attempted at most once, one that
\* is called submitted is at the provider, one whose outcome is unknown is never
\* tried again, for any number of schedulers, rules and interrupted threads.
THEOREM BulkImplementsLedger == Spec => ImplementsLedger
<1>1. Init => Ledger!Init
  BY DEF Init, Ledger!Init, LedgerState, LedgerCopies, Standing
<1>2. IInv /\ [Next]_vars => [Ledger!Next]_(Ledger!vars)
  BY NextRefines DEF LedgerStep
<1> QED
  BY <1>1, <1>2, Invariance, PTL DEF Spec, ImplementsLedger, Ledger!Spec
=============================================================================
