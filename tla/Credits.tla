-------------------------------- MODULE Credits --------------------------------
(***************************************************************************)
(* ProviderCreditGovernor (provider_credit.py): a paid call reserves its   *)
(* credits in the budget rows of its period before it is made and settles  *)
(* them afterwards, under a circuit breaker that only the operator closes. *)
(*                                                                         *)
(* reserve and finalize are one transaction each; the circuit is read in a *)
(* transaction before it.  A call of zero credits touches no row.  Calls   *)
(* are made by any of the worker threads; a process may stop between the   *)
(* two.  In this version main.py builds the governor for its dashboard     *)
(* routes and no client calls it.                                          *)
(***************************************************************************)
EXTENDS Totals

CONSTANTS
    Calls,
    ClassOf,            \* request_class: "read", "control", "send" or "emergency"
    Cost,               \* credits a call reserves
    MonthlyLimit, DailyReads, SendReserve, EmergencyReserve,  \* the reserves within the limit
    DaysPerMonth,
    Actuals,            \* credits a call may turn out to have used
    MaxDay              \* bound: the last day

ASSUME CreditsAssumption ==
    /\ IsFiniteSet(Calls)
    /\ ClassOf \in [Calls -> {"read", "control", "send", "emergency"}]
    /\ Cost \in [Calls -> Nat \ {0}] /\ Actuals \subseteq Nat
    /\ MonthlyLimit \in Nat /\ DailyReads \in Nat
    /\ SendReserve \in Nat /\ EmergencyReserve \in Nat
    /\ SendReserve + EmergencyReserve <= MonthlyLimit    \* __post_init__
    /\ DaysPerMonth \in Nat \ {0} /\ MaxDay \in Nat

VARIABLES
    call,       \* provider_credit_reservations: status, day reserved, day finalized, credits used
    used,       \* provider_credit_budgets.used_credits, by row
    reserved,   \* provider_credit_budgets.reserved_credits
    present,    \* the rows there are
    recorded,   \* provider_credit_events: the last one of each call
    breaker,    \* provider_circuit_breakers.is_open
    day

budgets == <<used, reserved, present>>
creditVars == <<call, budgets, recorded, breaker, day>>

Days == 0..MaxDay
Month(d) == d \div DaysPerMonth
AllRows == ({"month"} \X {Month(d) : d \in Days}) \cup ({"day"} \X Days)
NoCall == [status |-> "idle", made |-> 0, settled |-> 0, actual |-> 0]

CreditsInit ==
    /\ call = [c \in Calls |-> NoCall]
    /\ used = [r \in AllRows |-> 0] /\ reserved = [r \in AllRows |-> 0] /\ present = {}
    /\ recorded = [c \in Calls |-> "none"]
    /\ breaker = FALSE /\ day = 0

\* _budget_rows: what a call of the class may bring the month's total to; only reads
\* have a daily row as well.
Usable(class) ==
    MonthlyLimit - (IF class = "emergency" THEN 0 ELSE EmergencyReserve)
                 - (IF class \in {"send", "emergency"} THEN 0 ELSE SendReserve)
BudgetRows(class, d) ==
    {<<"month", Month(d)>>} \cup IF class = "read" THEN {<<"day", d>>} ELSE {}
Limit(r, class) == IF r[1] = "day" THEN DailyReads ELSE Usable(class)

\* Mutant: the credits of the calls still under way are not counted.
FundedByUsed(c) ==
    \A r \in BudgetRows(ClassOf[c], day) : used[r] + Cost[c] =< Limit(r, ClassOf[c])

Funded(c) ==
    \A r \in BudgetRows(ClassOf[c], day) : used[r] + reserved[r] + Cost[c] =< Limit(r, ClassOf[c])

-----------------------------------------------------------------------------
\* is_circuit_open, at the head of reserve; record_blocked.
Check(c) ==
    /\ call[c].status = "idle"
    /\ IF breaker
       THEN /\ call' = [call EXCEPT ![c].status = "blocked"]
            /\ recorded' = [recorded EXCEPT ![c] = "circuit_open"]
       ELSE /\ call' = [call EXCEPT ![c].status = "checked"]
            /\ UNCHANGED recorded
    /\ UNCHANGED <<budgets, breaker, day>>

\* A refusal raises inside the transaction: its event and new rows are rolled back.
Reserve(c) ==
    /\ call[c].status = "checked"
    /\ IF Funded(c)
       THEN LET rows == BudgetRows(ClassOf[c], day)
            IN  /\ call' = [call EXCEPT ![c] = [@ EXCEPT !.status = "reserved", !.made = day]]
                /\ present' = present \cup rows
                /\ reserved' = [r \in AllRows |-> IF r \in rows THEN reserved[r] + Cost[c]
                                                               ELSE reserved[r]]
       ELSE /\ call' = [call EXCEPT ![c].status = "blocked"]
            /\ UNCHANGED <<present, reserved>>
    /\ UNCHANGED <<used, recorded, breaker, day>>

\* finalize: the rows are those of now, not those of the reservation; one that is not
\* there is not made.
SettledRows(c) == BudgetRows(ClassOf[c], day) \cap present

Finalize(c, actual) ==
    /\ call[c].status = "reserved"
    /\ call' = [call EXCEPT ![c] = [@ EXCEPT !.status = "finalized", !.settled = day,
                                             !.actual = actual]]
    /\ reserved' = [r \in AllRows |-> IF r \in SettledRows(c) THEN reserved[r] - Cost[c] ELSE reserved[r]]
    /\ used' = [r \in AllRows |-> IF r \in SettledRows(c) THEN used[r] + actual ELSE used[r]]
    /\ recorded' = [recorded EXCEPT ![c] = "finalized"]
    /\ UNCHANGED <<present, breaker, day>>

\* The process stops before the answer is recorded: nothing releases the credits.
Stop(c) ==
    /\ call[c].status \in {"checked", "reserved"}
    /\ call' = [call EXCEPT ![c].status = IF @ = "reserved" THEN "lost" ELSE "blocked"]
    /\ UNCHANGED <<budgets, recorded, breaker, day>>

\* open_circuit, also by a failed authentication (Webhooks); reset_circuit.
Open == ~breaker /\ breaker' = TRUE /\ UNCHANGED <<call, budgets, recorded, day>>
Reset == breaker /\ breaker' = FALSE /\ UNCHANGED <<call, budgets, recorded, day>>

NextDay == day < MaxDay /\ day' = day + 1 /\ UNCHANGED <<call, budgets, recorded, breaker>>

CreditsNext ==
    \/ Open \/ Reset \/ NextDay
    \/ \E c \in Calls : \/ Check(c) \/ Reserve(c) \/ Stop(c)
                        \/ \E actual \in Actuals : Finalize(c, actual)

CreditsSpec == CreditsInit /\ [][CreditsNext]_creditVars

-----------------------------------------------------------------------------
\* Properties.

CreditsTypeOK ==
    /\ call \in [Calls -> [status : {"idle", "checked", "reserved", "finalized", "lost", "blocked"},
                           made : Days, settled : Days, actual : Actuals \cup {0}]]
    /\ used \in [AllRows -> Nat] /\ reserved \in [AllRows -> Int] /\ present \subseteq AllRows
    /\ recorded \in [Calls -> {"none", "circuit_open", "finalized"}]
    /\ breaker \in BOOLEAN /\ day \in Days

RowsOf(c) == BudgetRows(ClassOf[c], call[c].made)

\* A call settled the row on another day or month than it reserved it, or used more.
Crossed(r) ==
    \E c \in Calls : /\ call[c].status = "finalized"
                     /\ (r \in RowsOf(c)) # (r \in BudgetRows(ClassOf[c], call[c].settled))
Overspent(r) ==
    \E c \in Calls : call[c].status = "finalized" /\ r \in RowsOf(c) /\ call[c].actual > Cost[c]

\* What the calls of some classes hold of a month.
Held(c) ==
    CASE call[c].status \in {"reserved", "lost"} -> Cost[c]
      [] call[c].status = "finalized" -> IF call[c].actual < Cost[c] THEN call[c].actual ELSE Cost[c]
      [] OTHER -> 0
Taken(m, classes) ==
    Count([c \in Calls |-> Held(c)],
          {c \in Calls : ClassOf[c] \in classes /\ Month(call[c].made) = m})

\* A row holds the credits of its open calls, no day or month is overdrawn, whoever reserved
\* at once, and reads and controls leave a month what is set aside for sends and
\* emergencies, sends what is for emergencies; a call settled on another day than it was
\* reserved on, or dearer than it said, is the only way out (provider_credit.py:192-394,
\* 500-526).
BudgetHeld ==
    /\ \A r \in present : ~Crossed(r) =>
        LET open == {c \in Calls : call[c].status \in {"reserved", "lost"} /\ r \in RowsOf(c)}
        IN  /\ reserved[r] = Count(Cost, open)
            /\ ~Overspent(r) =>
                  used[r] + reserved[r] =< IF r[1] = "day" THEN DailyReads ELSE MonthlyLimit
    /\ \A m \in {Month(d) : d \in Days} : ~Crossed(<<"month", m>>) =>
        /\ Taken(m, {"read", "control"}) =< MonthlyLimit - SendReserve - EmergencyReserve
        /\ Taken(m, {"read", "control", "send"}) =< MonthlyLimit - EmergencyReserve

=============================================================================
