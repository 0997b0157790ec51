------------------------------ MODULE ModelCalls ------------------------------
(***************************************************************************)
(* Brain 2.0's requests to its model.  A job is one analysis of an inbound *)
(* message: a live one, whose caller waits for it with a timeout           *)
(* (advanced.py), or a shadow one, which settles a row of brain_shadow_runs*)
(* (shadow.py).  Either goes through up to three stages, each with at most *)
(* one retry or one repair, and reserves every request in the hourly, daily*)
(* and cost buckets (brain2_repository.py) before it is sent.              *)
(*                                                                         *)
(* A request reserves one unit of cost.  All hours are of one day.         *)
(***************************************************************************)
EXTENDS Totals

CONSTANTS
    Jobs,
    Threads,      \* of each of the two pools
    Settings,     \* the values the operator may save
    MaxHour, MaxChanges, MaxFaults    \* bounds

ASSUME ModelCallsAssumption ==
    /\ IsFiniteSet(Jobs)
    /\ Threads \in 1..4
    /\ Settings \subseteq [calls : 1..6, hour : Nat, day : Nat, cost : Nat \ {0}, repairs : {0, 1}]
    /\ Settings # {}
    /\ MaxHour \in Nat /\ MaxChanges \in Nat /\ MaxFaults \in Nat

VARIABLES
    setting,    \* BrainRuntimeSettings
    hour,
    usedHour,   \* brain_usage_buckets, kind hour: used_calls
    usedDay,    \* brain_usage_buckets, kind day: used_calls
    usedCost,   \* brain_cost_buckets: used_cost
    job,        \* what the thread of a job is doing
    row,        \* brain_shadow_runs of a shadow job, the caller of a live one
    posted,     \* requests sent for a job
    lost,       \* jobs whose process stopped, or whose row could not be written
    changes, faults

buckets == <<usedHour, usedDay, usedCost>>
callBounds == <<changes, faults>>
callVars == <<setting, hour, buckets, job, row, posted, lost, callBounds>>

Hours == 0..MaxHour
NoJob == [pc |-> "none", live |-> FALSE, route |-> "fast", stage |-> 1, mode |-> "first", left |-> 0,
          conf |-> CHOOSE s \in Settings : TRUE]
NoRow == [status |-> "none", attempts |-> 0]

CallsTypeOK ==
    /\ setting \in Settings
    /\ hour \in Hours
    /\ usedHour \in [Hours -> Nat] /\ usedDay \in Nat /\ usedCost \in Nat
    /\ job \in [Jobs -> [pc : {"none", "queued", "usage", "cost", "sent", "done"},
                         live : BOOLEAN, route : {"fast", "strategic"}, stage : 1..3,
                         mode : {"first", "retry", "repair"}, left : 0..6,
                         conf : Settings]]
    /\ row \in [Jobs -> [status : {"none", "queued", "completed", "capped", "failed", "timed_out"},
                         attempts : 0..6]]
    /\ posted \in [Jobs -> 0..6]
    /\ lost \subseteq Jobs
    /\ changes \in 0..MaxChanges /\ faults \in 0..MaxFaults

CallsInit ==
    /\ setting \in Settings /\ hour = 0
    /\ usedHour = [h \in Hours |-> 0] /\ usedDay = 0 /\ usedCost = 0
    /\ job = [j \in Jobs |-> NoJob] /\ row = [j \in Jobs |-> NoRow]
    /\ posted = [j \in Jobs |-> 0]
    /\ lost = {} /\ changes = 0 /\ faults = 0

-----------------------------------------------------------------------------
(* Handing a job to its pool.                                              *)

Busy(j) == {k \in Jobs : /\ job[k].live = job[j].live
                          /\ job[k].pc \notin {"none", "queued", "done"}}

\* BrainRouter.route, and the fast route when the calls do not do for three.
Downgraded(route, s) == IF route = "strategic" /\ s.calls < 3 THEN "fast" ELSE route

\* The job under the settings s.
Under(j, route, s) ==
    [job[j] EXCEPT !.route = Downgraded(route, s), !.left = s.calls, !.conf = s]

\* ShadowBrainService.submit writes the queued row.
SubmitShadow(j, route) ==
    /\ job[j].pc = "none"
    /\ job' = [job EXCEPT ![j].pc = "queued", ![j].route = route]
    /\ row' = [row EXCEPT ![j].status = "queued"]
    /\ UNCHANGED <<setting, hour, buckets, posted, lost, callBounds>>

\* decide reads the settings and begins to wait.
SubmitLive(j, route) ==
    /\ job[j].pc = "none"
    /\ job' = [job EXCEPT ![j] = [Under(j, route, setting) EXCEPT !.pc = "queued", !.live = TRUE]]
    /\ row' = [row EXCEPT ![j].status = "queued"]
    /\ UNCHANGED <<setting, hour, buckets, posted, lost, callBounds>>

\* A thread takes the job; a shadow job reads the settings here.
Start(j) ==
    /\ job[j].pc = "queued"
    /\ Cardinality(Busy(j)) < Threads
    /\ job' = [job EXCEPT ![j] = [(IF job[j].live THEN job[j] ELSE Under(j, job[j].route, setting))
                                    EXCEPT !.pc = "usage"]]
    /\ UNCHANGED <<setting, hour, buckets, row, posted, lost, callBounds>>

-----------------------------------------------------------------------------
(* How a job ends.                                                         *)

\* The row or the caller learns of it; a caller that has left does not.
Settled(j, status, attempts) ==
    [row EXCEPT ![j] = IF row[j].status = "queued"
                       THEN [status |-> status, attempts |-> attempts] ELSE row[j]]

End(j, status, attempts) ==
    /\ job' = [job EXCEPT ![j].pc = "done"]
    /\ row' = Settled(j, status, attempts)

\* mark_capped keeps no count of the requests.
Capped(j) == End(j, "capped", 0)
\* fail, with the telemetry of the analysis; decide drops it.
Failed(j) == End(j, "failed", IF job[j].live THEN 0 ELSE posted[j])

-----------------------------------------------------------------------------
(* request_once.                                                           *)

\* Mutant: a bucket that is full takes one more.
UsageNotPassed(c) == usedHour[hour] <= c.hour /\ usedDay <= c.day

\* StrategicUsageCapRepository.reserve
UsageAllows(c) == usedHour[hour] + 1 <= c.hour /\ usedDay + 1 <= c.day

\* The turn's own budget, then a place in the hour and in the day.
ReserveUsage(j) ==
    LET c == job[j].conf IN
    /\ job[j].pc = "usage"
    /\ job[j].left > 0 /\ UsageAllows(c)
    /\ usedHour' = [usedHour EXCEPT ![hour] = @ + 1]
    /\ usedDay' = usedDay + 1
    /\ job' = [job EXCEPT ![j].pc = "cost", ![j].left = @ - 1]
    /\ UNCHANGED <<setting, hour, usedCost, row, posted, lost, callBounds>>

\* Mutant: a turn that has used up its own budget is not refused.
BucketsRefuse(j) ==
    /\ job[j].pc = "usage"
    /\ ~UsageAllows(job[j].conf)
    /\ Capped(j)
    /\ UNCHANGED <<setting, hour, buckets, posted, lost, callBounds>>

UsageRefused(j) ==
    /\ job[j].pc = "usage"
    /\ job[j].left = 0 \/ ~UsageAllows(job[j].conf)
    /\ Capped(j)
    /\ UNCHANGED <<setting, hour, buckets, posted, lost, callBounds>>

\* BrainCostCapRepository.reserve; the request follows at once.
ReserveCost(j) ==
    /\ job[j].pc = "cost" /\ usedCost + 1 <= job[j].conf.cost
    /\ usedCost' = usedCost + 1
    /\ posted' = [posted EXCEPT ![j] = @ + 1]
    /\ job' = [job EXCEPT ![j].pc = "sent"]
    /\ UNCHANGED <<setting, hour, usedHour, usedDay, row, lost, callBounds>>

\* The place in the hour and in the day is not given back.
CostRefused(j) ==
    /\ job[j].pc = "cost" /\ usedCost + 1 > job[j].conf.cost
    /\ Capped(j)
    /\ UNCHANGED <<setting, hour, buckets, posted, lost, callBounds>>

-----------------------------------------------------------------------------
(* _json_call: what comes of an answer.                                    *)

Again(j, mode) == job' = [job EXCEPT ![j].pc = "usage", ![j].mode = mode]

\* Mutant: a retry and a repair are retried too.
RetryEvery(j) ==
    /\ job[j].pc = "sent"
    /\ Again(j, "retry") /\ UNCHANGED row
    /\ UNCHANGED <<setting, hour, buckets, posted, lost, callBounds>>

\* A timeout, a network error, 429, 5xx, a truncated or empty output.
Transient(j) ==
    /\ job[j].pc = "sent"
    /\ IF job[j].mode = "first" THEN Again(j, "retry") /\ UNCHANGED row ELSE Failed(j)
    /\ UNCHANGED <<setting, hour, buckets, posted, lost, callBounds>>

\* JSON that does not fit the contract of the stage.
SchemaInvalid(j) ==
    /\ job[j].pc = "sent"
    /\ IF job[j].mode = "first" /\ job[j].conf.repairs = 1
       THEN Again(j, "repair") /\ UNCHANGED row ELSE Failed(j)
    /\ UNCHANGED <<setting, hour, buckets, posted, lost, callBounds>>

\* Another HTTP error, filtered content, no JSON at all.
Terminal(j) ==
    /\ job[j].pc = "sent" /\ Failed(j)
    /\ UNCHANGED <<setting, hour, buckets, posted, lost, callBounds>>

LastStage(j) == job[j].stage = (IF job[j].route = "fast" THEN 1 ELSE 3)

Valid(j) ==
    /\ job[j].pc = "sent" /\ ~LastStage(j)
    /\ job' = [job EXCEPT ![j].pc = "usage", ![j].stage = @ + 1, ![j].mode = "first"]
    /\ UNCHANGED <<setting, hour, buckets, row, posted, lost, callBounds>>

\* The result of all stages: complete, or the value of the future.
Completed(j) ==
    /\ job[j].pc = "sent" /\ LastStage(j)
    /\ End(j, "completed", posted[j])
    /\ UNCHANGED <<setting, hour, buckets, posted, lost, callBounds>>

-----------------------------------------------------------------------------
(* Timeouts, faults and the operator.                                      *)

\* future.result times out: the caller falls back.  A job that has not started
\* is cancelled, one that has goes on.
CallerLeaves(j) ==
    /\ job[j].live /\ row[j].status = "queued"
    /\ row' = [row EXCEPT ![j].status = "timed_out"]
    /\ job' = IF job[j].pc = "queued" THEN [job EXCEPT ![j].pc = "done"] ELSE job
    /\ UNCHANGED <<setting, hour, buckets, posted, lost, callBounds>>

\* complete raises: the row is failed without its telemetry; or that raises too.
WriteFails(j) ==
    /\ ~job[j].live /\ job[j].pc = "sent" /\ LastStage(j)
    /\ faults < MaxFaults /\ faults' = faults + 1
    /\ lost' = lost \cup {j}
    /\ job' = [job EXCEPT ![j].pc = "done"]
    /\ row' \in {row, Settled(j, "failed", 0)}
    /\ UNCHANGED <<setting, hour, buckets, posted, changes>>

\* The process stops; nothing reads a queued row again.
Crash ==
    LET gone == {j \in Jobs : job[j].pc \notin {"none", "done"}} IN
    /\ gone # {}
    /\ faults < MaxFaults /\ faults' = faults + 1
    /\ lost' = lost \cup gone
    /\ job' = [j \in Jobs |-> IF j \in gone THEN [job[j] EXCEPT !.pc = "done"] ELSE job[j]]
    /\ UNCHANGED <<setting, hour, buckets, row, posted, changes>>

SaveSettings(s) ==
    /\ s # setting /\ changes < MaxChanges
    /\ setting' = s /\ changes' = changes + 1
    /\ UNCHANGED <<hour, buckets, job, row, posted, lost, faults>>

NextHour ==
    /\ hour < MaxHour /\ hour' = hour + 1
    /\ UNCHANGED <<setting, buckets, job, row, posted, lost, callBounds>>

Step(j) ==
    \/ Start(j) \/ ReserveUsage(j) \/ UsageRefused(j) \/ ReserveCost(j) \/ CostRefused(j)
    \/ Transient(j) \/ SchemaInvalid(j) \/ Terminal(j) \/ Valid(j) \/ Completed(j)
    \/ WriteFails(j)

CallsNext ==
    \/ \E j \in Jobs :
           Step(j) \/ CallerLeaves(j)
           \/ \E route \in {"fast", "strategic"} : SubmitShadow(j, route) \/ SubmitLive(j, route)
    \/ Crash \/ NextHour \/ \E s \in Settings : SaveSettings(s)

\* A request ends by its own timeout, and the pool runs what it was given.
CallsSpec == CallsInit /\ [][CallsNext]_callVars /\ \A j \in Jobs : WF_callVars(Step(j))

-----------------------------------------------------------------------------
\* No bucket passes the highest limit that was in force, and a request that has its
\* cost has its place in the hour and the day.
BucketsHeld ==
    /\ usedCost <= usedDay
    /\ \A h \in Hours : \E s \in Settings : usedHour[h] <= s.hour
    /\ \E s \in Settings : usedDay <= s.day
    /\ \E s \in Settings : usedCost <= s.cost

\* Every request sent was reserved first, in the hour, the day and the cost of the
\* day, and no bucket passes the highest limit that was in force: refused,
\* repaired, abandoned and lost requests included (request_once).
RequestsReserved ==
    /\ Count(posted, Jobs) <= usedCost
    /\ usedDay = Count(usedHour, Hours)
    /\ BucketsHeld

\* A job never sends more requests than its turn was given, nor more than two
\* for a stage: "One bounded retry or repair is allowed".
TurnBounded ==
    \A j \in Jobs : posted[j] <= job[j].conf.calls /\ posted[j] <= 2 * job[j].stage

\* A queued shadow row is settled, unless its process stopped or the database
\* refused it: whatever the answers and the caps, no job waits for another.
RowSettles == \A j \in Jobs : row[j].status = "queued" ~> row[j].status # "queued" \/ j \in lost
=============================================================================
