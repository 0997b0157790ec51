----------------------------- MODULE BudgetProofs -----------------------------
(***************************************************************************)
(* What is counted: the requests and the credits that replies cost, and    *)
(* the revenue of a creator.  Each part is about a module of its own.      *)
(*                                                                         *)
(* LiveBrain, for any finite sets of workers and inbounds, any ceiling and *)
(* threshold, and any number of claims and events: its types, how far the  *)
(* day's costs can pass the ceiling, and that a delivered reply is         *)
(* credited to the brain that wrote it.  OverrunBounded is inductive.      *)
(* CreditedToAuthor is not: it needs that an inbound which was never taken *)
(* over has one worker, the holder of its lease (Alone), and what that     *)
(* worker, the stored decision and the outbox row say of one another at    *)
(* each point (Agreed).                                                    *)
(*                                                                         *)
(* ReadCache, for any threads, services and ages: a kept read is paid for  *)
(* again for a reason.  What a service remembers is no older than its last *)
(* answer until it falls back to an older row (Remembered).                *)
(*                                                                         *)
(* ModelCalls, the requests of Brain 2.0, for any jobs and settings: how   *)
(* many requests a job may send, that no bucket is overdrawn, and that     *)
(* what is sent was reserved.                                              *)
(*                                                                         *)
(* Credits, for any calls, costs, limits and days: each row of the books   *)
(* is the sum over the calls that hold it (RowHeld), which is what the     *)
(* next reservation is compared with; a month's reserves follow from its   *)
(* row (TakenInRow).                                                       *)
(*                                                                         *)
(* Webhooks, for any events, copies and order: a fan's totals are the sums *)
(* over the references of the fan (TotalsHeld).                            *)
(***************************************************************************)
EXTENDS LiveBrain, ReadCache, ModelCalls, Credits, Webhooks, FiniteSetTheorems, SequenceTheorems,
        TLAPS

-----------------------------------------------------------------------------
\* Sums.

\* What f counts of the members of S: f is of no interest elsewhere.
LEMMA UnitsFinite ==
    ASSUME NEW S, IsFiniteSet(S), NEW f, \A s \in S : f[s] \in Int
    PROVE  IsFiniteSet(Units(f, S)) /\ Count(f, S) \in Nat
<1> DEFINE Of(s) == {s} \X (1..f[s])
           Each == {Of(s) : s \in S}
           g == [s \in S |-> Of(s)]
<1>1. ASSUME NEW s \in S PROVE IsFiniteSet(Of(s))
  <2>1. IsFiniteSet({s})
        BY FS_Singleton
  <2>2. IsFiniteSet(1..f[s])
        BY FS_Interval
  <2> QED
      BY <2>1, <2>2, FS_Product, Zenon
<1>2. g \in Surjection(S, Each)
      BY DEF Surjection
<1>3. IsFiniteSet(Each)
      BY <1>2, FS_Surjection
<1>4. IsFiniteSet(UNION Each)
      BY <1>1, <1>3, FS_UNION
<1>5. IsFiniteSet(Units(f, S))
      BY <1>4 DEF Units
<1> QED
    BY <1>5, FS_CardinalityType DEF Count

\* A count without one of its members.
LEMMA CountWithout ==
    ASSUME NEW S, IsFiniteSet(S), NEW f, \A s \in S : f[s] \in Int, NEW s \in S
    PROVE  /\ Count(f, S \ {s}) \in Nat
           /\ Count(f, S) = Count(f, S \ {s}) + (IF f[s] > 0 THEN f[s] ELSE 0)
<1> DEFINE Rest == Units(f, S \ {s})
           Mine == {s} \X (1..f[s])
<1>1. IsFiniteSet(Rest) /\ Cardinality(Rest) \in Nat /\ Count(f, S \ {s}) = Cardinality(Rest)
  <2>1. IsFiniteSet(S \ {s}) /\ \A t \in S \ {s} : f[t] \in Int
        BY FS_RemoveElement, Zenon
  <2> QED
      BY <2>1, UnitsFinite DEF Count
<1>2. IsFiniteSet(Mine) /\ Cardinality(Mine) = (IF f[s] > 0 THEN f[s] ELSE 0)
  <2>1. IsFiniteSet({s}) /\ Cardinality({s}) = 1
        BY FS_Singleton
  <2>2. IsFiniteSet(1..f[s]) /\ Cardinality(1..f[s]) = (IF f[s] > 0 THEN f[s] ELSE 0)
        BY FS_Interval
  <2>3. IsFiniteSet(Mine) /\ Cardinality(Mine) = Cardinality({s}) * Cardinality(1..f[s])
        BY <2>1, <2>2, FS_Product, Zenon
  <2> QED
      BY <2>1, <2>2, <2>3
<1>3. Units(f, S) = Rest \cup Mine
      BY DEF Units
<1>4. Rest \cap Mine = {}
      BY DEF Units
<1>5. Cardinality(Rest \cup Mine) = Cardinality(Rest) + Cardinality(Mine) - Cardinality(Rest \cap Mine)
      BY <1>1, <1>2, FS_Union, Zenon
<1>6. Cardinality({}) = 0
      BY FS_EmptySet
<1>7. Count(f, S) = Cardinality(Rest \cup Mine)
      BY <1>3 DEF Count
<1>8. Cardinality(Rest \cap Mine) = 0
      BY <1>4, <1>6
<1> HIDE DEF Rest, Mine
<1>9. Count(f, S) = Cardinality(Rest) + Cardinality(Mine)
  <2>1. Cardinality(Mine) \in Nat
        BY <1>2, FS_CardinalityType
  <2> QED
      BY <1>1, <1>5, <1>7, <1>8, <2>1
<1> QED
    BY <1>1, <1>2, <1>9

\* Where two functions agree, so do their counts.
LEMMA CountSame ==
    ASSUME NEW S, NEW f, NEW g, \A s \in S : f[s] = g[s]
    PROVE  Count(f, S) = Count(g, S)
<1>1. Units(f, S) = Units(g, S)
      BY DEF Units
<1> QED
    BY <1>1 DEF Count

LEMMA CountEmpty == ASSUME NEW f PROVE Count(f, {}) = 0
BY FS_EmptySet DEF Count, Units

\* A count that changes at one place only.
LEMMA CountChanges ==
    ASSUME NEW S, IsFiniteSet(S), NEW f, \A s \in S : f[s] \in Nat, NEW s \in S,
           NEW g, g[s] \in Nat, \A t \in S \ {s} : g[t] = f[t]
    PROVE  Count(g, S) = Count(f, S) + g[s] - f[s]
<1>1. \A t \in S : g[t] \in Int /\ f[t] \in Int
      OBVIOUS
<1>2. Count(g, S \ {s}) = Count(f, S \ {s})
      BY CountSame
<1>3. /\ Count(f, S \ {s}) \in Nat
      /\ Count(f, S) = Count(f, S \ {s}) + (IF f[s] > 0 THEN f[s] ELSE 0)
      BY <1>1, CountWithout
<1>4. Count(g, S) = Count(g, S \ {s}) + (IF g[s] > 0 THEN g[s] ELSE 0)
      BY <1>1, CountWithout
<1>5. f[s] \in Nat /\ g[s] \in Nat
      OBVIOUS
<1> QED
    BY <1>2, <1>3, <1>4, <1>5

LEMMA TotalSame ==
    ASSUME NEW S, NEW f, NEW g, \A s \in S : f[s] = g[s]
    PROVE  Total(f, S) = Total(g, S)
<1>1. Count(f, S) = Count(g, S)
      BY CountSame
<1>2. Count([s \in S |-> -f[s]], S) = Count([s \in S |-> -g[s]], S)
  <2>1. [s \in S |-> -f[s]] = [s \in S |-> -g[s]]
        OBVIOUS
  <2> QED
      BY <2>1
<1> QED
    BY <1>1, <1>2 DEF Total

\* A total without one of its members.
LEMMA TotalWithout ==
    ASSUME NEW S, IsFiniteSet(S), NEW f, \A s \in S : f[s] \in Int, NEW s \in S
    PROVE  /\ Total(f, S \ {s}) \in Int
           /\ Total(f, S) = Total(f, S \ {s}) + f[s]
<1> DEFINE Rest == S \ {s}
           neg == [t \in S |-> -f[t]]
           less == [t \in Rest |-> -f[t]]
<1>1. /\ Count(f, Rest) \in Nat
      /\ Count(f, S) = Count(f, Rest) + (IF f[s] > 0 THEN f[s] ELSE 0)
      BY CountWithout
<1>2. neg[s] = -f[s] /\ \A t \in S : neg[t] \in Int
      OBVIOUS
<1>3. \A t \in Rest : neg[t] = less[t]
      OBVIOUS
<1>4. Total(f, S) = Count(f, S) - Count(neg, S) /\ Total(f, Rest) = Count(f, Rest) - Count(less, Rest)
      BY DEF Total
<1>5. f[s] \in Int
      OBVIOUS
<1> HIDE DEF Rest, neg, less
<1>6. /\ Count(neg, Rest) \in Nat
      /\ Count(neg, S) = Count(neg, Rest) + (IF neg[s] > 0 THEN neg[s] ELSE 0)
      BY <1>2, CountWithout DEF Rest
<1>7. Count(neg, Rest) = Count(less, Rest)
      BY <1>3, CountSame
<1>8. Total(f, Rest) \in Int /\ Total(f, S) = Total(f, Rest) + f[s]
      BY <1>1, <1>2, <1>4, <1>5, <1>6, <1>7
<1> QED
    BY <1>8 DEF Rest

LEMMA TotalTyped ==
    ASSUME NEW S, IsFiniteSet(S), NEW f, \A s \in S : f[s] \in Int
    PROVE  Total(f, S) \in Int
<1> DEFINE neg == [s \in S |-> -f[s]]
<1>1. \A s \in S : neg[s] \in Int
      OBVIOUS
<1> HIDE DEF neg
<1>2. Count(neg, S) \in Nat /\ Count(f, S) \in Nat
      BY <1>1, UnitsFinite
<1> QED
    BY <1>2 DEF Total, neg

\* Y is X with the member s, or X itself, and g is f everywhere but at s.
Gains(S, X, Y, f, g, s) ==
    /\ IsFiniteSet(S) /\ X \subseteq S /\ Y \subseteq S /\ s \in S
    /\ \A t \in S : f[t] \in Int /\ g[t] \in Int
    /\ \A t \in S \ {s} : g[t] = f[t]
    /\ Y \ {s} = X \ {s}
    /\ s \in X => s \in Y /\ g[s] = f[s]

LEMMA TotalGains ==
    ASSUME NEW S, NEW X, NEW Y, NEW f, NEW g, NEW s, Gains(S, X, Y, f, g, s)
    PROVE  Total(g, Y) = Total(f, X) + (IF s \in Y /\ s \notin X THEN g[s] ELSE 0)
<1>1. /\ IsFiniteSet(S) /\ X \subseteq S /\ Y \subseteq S /\ s \in S
      /\ \A t \in S : f[t] \in Int /\ g[t] \in Int
      /\ \A t \in S \ {s} : g[t] = f[t]
      /\ Y \ {s} = X \ {s}
      /\ s \in X => s \in Y /\ g[s] = f[s]
      BY DEF Gains
<1>2. IsFiniteSet(X) /\ IsFiniteSet(Y)
      BY <1>1, FS_Subset
<1>3. Total(g, Y \ {s}) = Total(f, X \ {s})
  <2>1. \A t \in X \ {s} : g[t] = f[t]
        BY <1>1
  <2>2. Total(g, X \ {s}) = Total(f, X \ {s})
        BY <2>1, TotalSame
  <2> QED
      BY <1>1, <2>2
<1>4. Total(f, X) \in Int
      BY <1>1, <1>2, TotalTyped
<1>5. CASE s \in X
  <2>1. Total(f, X) = Total(f, X \ {s}) + f[s]
        BY <1>1, <1>2, <1>5, TotalWithout
  <2>2. Total(g, Y) = Total(g, Y \ {s}) + g[s]
        BY <1>1, <1>2, <1>5, TotalWithout
  <2> QED
      BY <1>1, <1>3, <1>4, <1>5, <2>1, <2>2
<1>6. CASE s \notin X
  <2>1. X \ {s} = X
        BY <1>6
  <2>2. CASE s \in Y
    <3>1. Total(g, Y) = Total(g, Y \ {s}) + g[s]
          BY <1>1, <1>2, <2>2, TotalWithout
    <3> QED
        BY <1>3, <1>6, <2>1, <2>2, <3>1
  <2>3. CASE s \notin Y
    <3>1. Y \ {s} = Y
          BY <2>3
    <3>2. Total(g, Y) = Total(f, X)
          BY <1>3, <2>1, <3>1
    <3> QED
        BY <1>4, <2>3, <3>2
  <2> QED
      BY <2>2, <2>3
<1> QED
    BY <1>5, <1>6

LEMMA SetGains ==
    ASSUME NEW S, NEW X, NEW Y, NEW s, IsFiniteSet(S), X \subseteq S, Y \subseteq S, s \in S,
           Y \ {s} = X \ {s}, s \in X => s \in Y
    PROVE  Cardinality(Y) = Cardinality(X) + (IF s \in Y /\ s \notin X THEN 1 ELSE 0)
<1>1. IsFiniteSet(X) /\ Cardinality(X) \in Nat
      BY FS_Subset, FS_CardinalityType
<1>2. CASE s \in Y /\ s \notin X
  <2>1. Y = X \cup {s}
        BY <1>2
  <2>2. Cardinality(X \cup {s}) = Cardinality(X) + 1
        BY <1>1, <1>2, FS_AddElement
  <2> QED
      BY <1>2, <2>1, <2>2
<1>3. CASE ~(s \in Y /\ s \notin X)
  <2>1. Y = X
        BY <1>3
  <2> QED
      BY <1>1, <1>3, <2>1
<1> QED
    BY <1>2, <1>3

-----------------------------------------------------------------------------
\* LiveBrain.

CircuitRecord == [state : {"closed", "open", "half_open"}, probe : BOOLEAN,
                  fails : 0..Threshold, cooled : BOOLEAN]
RunRecord == [status : {"none", "complete", "linked", "failed"}, cost : {0, 1}, today : BOOLEAN]
DecisionRecord == [author : Authors, fallback : BOOLEAN, unsafe : BOOLEAN]
WorkerRecord ==
    [pc : {"idle", "ask", "begin", "plan", "advanced", "current", "gate",
           "save", "link", "return", "deliver"},
     turn : Turns \cup {0}, author : Authors, probe : BOOLEAN,
     requested : {"current", "advanced"}, fallback : BOOLEAN, unsafe : BOOLEAN]

\* A worker's record that makes sense: it has an inbound, and from the gate on
\* a text with an author.
Sensible(r) ==
    /\ r \in WorkerRecord
    /\ r.pc # "idle" => r.turn \in Turns
    /\ r.pc \in {"gate", "save", "link", "return"} => r.author # "none"

Works(x, t) == w[x].pc # "idle" /\ w[x].turn = t

\* An inbound that was never taken over has one worker, its holder.
Alone == \A t \in Turns, x \in Workers : ~taken[t] /\ Works(x, t) => owner[t] = x

\* What is saved, queued and credited for such an inbound names one author.
Agreed ==
    \A t \in Turns :
        ~taken[t] =>
            /\ \A x \in Workers :
                  Works(x, t) =>
                      /\ w[x].pc \in {"link", "return"} => decision[t].author = w[x].author
                      /\ w[x].pc = "deliver" <=> queued[t] # "none"
            /\ queued[t] # "none" => decision[t].author = queued[t]
            /\ credited[t] # "none" => credited[t] = queued[t]

CircuitOK == circuit \in CircuitRecord
RunOK == run \in [Turns -> RunRecord]
LeaseOK ==
    /\ owner \in [Turns -> Workers \cup {NoOne}]
    /\ queued \in [Turns -> Authors] /\ credited \in [Turns -> Authors]
    /\ taken \in [Turns -> BOOLEAN]
RestOK ==
    /\ decision \in [Turns -> DecisionRecord] /\ mode \in {"current", "advanced"}
    /\ claims \in 0..MaxClaims /\ events \in 0..MaxEvents
WorkersOK == w \in [Workers -> WorkerRecord] /\ \A x \in Workers : Sensible(w[x])

TypesOK == CircuitOK /\ RunOK /\ LeaseOK /\ RestOK /\ WorkersOK
IInv == TypesOK /\ Alone /\ Agreed

LEMMA Parts == TypesOK => TypeOK
BY DEF TypesOK, TypeOK, CircuitOK, RunOK, LeaseOK, RestOK, WorkersOK, CircuitRecord, RunRecord,
       DecisionRecord, WorkerRecord

LEMMA Limits ==
    /\ Ceiling \in Nat /\ Ceiling > 0 /\ Threshold \in Nat /\ Threshold > 0
    /\ MaxClaims \in Nat /\ MaxEvents \in Nat /\ NoOne \notin Workers
BY LiveBrainAssumption DEF NoOne

LEMMA FiniteSets == IsFiniteSet(Workers) /\ IsFiniteSet(Turns)
BY LiveBrainAssumption

LEMMA IdleSensible == Sensible(Idle)
BY DEF Sensible, Idle, WorkerRecord, Authors

LEMMA InitOK == Init => IInv
<1> SUFFICES ASSUME Init PROVE IInv
    OBVIOUS
<1>1. CircuitOK
      BY Limits DEF Init, CircuitOK, Closed, CircuitRecord
<1>2. RunOK
      BY DEF Init, RunOK, NoRun, RunRecord
<1>3. LeaseOK
      BY DEF Init, LeaseOK, Authors
<1>4. RestOK
      BY Limits DEF Init, RestOK, NoDecision, DecisionRecord, Authors
<1>5. \A x \in Workers : w[x] = Idle
      BY DEF Init
<1>6. WorkersOK
  <2>1. w \in [Workers -> WorkerRecord]
        BY IdleSensible DEF Init, Sensible
  <2> QED
      BY <2>1, <1>5, IdleSensible DEF WorkersOK
<1>7. \A t \in Turns, x \in Workers : ~Works(x, t)
      BY <1>5 DEF Works, Idle
<1>8. Alone
      BY <1>7 DEF Alone
<1>9. Agreed
      BY <1>7 DEF Init, Agreed
<1> QED
    BY <1>1, <1>2, <1>3, <1>4, <1>6, <1>8, <1>9 DEF IInv, TypesOK

-----------------------------------------------------------------------------
(* The circuit and the runs.                                               *)

LEMMA ClosedOK == Closed \in CircuitRecord
BY Limits DEF Closed, CircuitRecord

LEMMA QualityFailedOK == ASSUME CircuitOK PROVE QualityFailed(circuit) \in CircuitRecord
BY ClosedOK DEF CircuitOK, QualityFailed, CircuitRecord

LEMMA InfrastructureFailedOK ==
    ASSUME CircuitOK PROVE InfrastructureFailed(circuit) \in CircuitRecord
<1> DEFINE fails == IF circuit.fails = Threshold THEN Threshold ELSE circuit.fails + 1
<1>1. fails \in 0..Threshold /\ circuit.fails \in 0..Threshold
      BY Limits DEF CircuitOK, CircuitRecord
<1>2. [circuit EXCEPT !.fails = fails] \in CircuitRecord
      BY <1>1 DEF CircuitOK, CircuitRecord
<1> QED
    BY <1>1, <1>2 DEF InfrastructureFailed, CircuitRecord

LEMMA OpenedOK == ASSUME CircuitOK PROVE Opened(circuit) \in CircuitRecord
BY DEF CircuitOK, CircuitRecord, Opened

LEMMA RecordedOK ==
    ASSUME RunOK, NEW t \in Turns, NEW status \in {"complete", "failed"}, NEW cost \in {0, 1}
    PROVE  Recorded(t, status, cost) \in [Turns -> RunRecord]
BY DEF RunOK, Recorded, RunRecord

-----------------------------------------------------------------------------
(* The workers.                                                            *)

\* One worker moves to a sensible record.
LEMMA MovedOK ==
    ASSUME WorkersOK, NEW x \in Workers, NEW r, Sensible(r), w' = [w EXCEPT ![x] = r]
    PROVE  /\ WorkersOK'
           /\ w'[x] = r /\ \A y \in Workers : y # x => w'[y] = w[y]
<1>1. w'[x] = r /\ \A y \in Workers : y # x => w'[y] = w[y]
      BY DEF WorkersOK
<1>2. w' \in [Workers -> WorkerRecord]
      BY DEF WorkersOK, Sensible
<1>3. \A y \in Workers : Sensible(w'[y])
      BY <1>1 DEF WorkersOK
<1>4. WorkersOK'
      BY <1>2, <1>3 DEF WorkersOK, Sensible
<1> QED
    BY <1>1, <1>4

\* It writes on, or leaves its inbound, before its text is saved or queued.
LEMMA WritesOn ==
    ASSUME IInv, NEW x \in Workers, NEW r, Sensible(r), w' = [w EXCEPT ![x] = r],
           w[x].pc \notin {"idle", "deliver"}, r.turn = w[x].turn \/ r.pc = "idle",
           r.pc \notin {"link", "return", "deliver"},
           UNCHANGED <<owner, queued, credited, taken, decision>>
    PROVE  WorkersOK' /\ Alone' /\ Agreed'
<1> WorkersOK /\ Alone /\ Agreed
    BY DEF IInv, TypesOK
<1>1. WorkersOK' /\ w'[x] = r /\ \A y \in Workers : y # x => w'[y] = w[y]
      BY MovedOK
<1>2. \A t \in Turns : Works(x, t)' => Works(x, t)
      BY <1>1 DEF Works
<1>3. \A t \in Turns, y \in Workers : y # x => (Works(y, t)' <=> Works(y, t))
      BY <1>1 DEF Works
<1>4. Alone'
      BY <1>2, <1>3 DEF Alone
<1>5. Agreed'
  <2> SUFFICES ASSUME NEW t \in Turns, ~taken[t]
               PROVE  /\ \A y \in Workers :
                            Works(y, t)' =>
                              /\ w'[y].pc \in {"link", "return"} => decision[t].author = w'[y].author
                              /\ w'[y].pc = "deliver" <=> queued[t] # "none"
                      /\ queued[t] # "none" => decision[t].author = queued[t]
                      /\ credited[t] # "none" => credited[t] = queued[t]
      BY DEF Agreed
  <2> QED
      BY <1>1, <1>2, <1>3 DEF Agreed
<1> QED
    BY <1>1, <1>4, <1>5

\* The places a worker goes to before a text is written.
Asking == {"ask", "begin", "plan", "advanced", "current"}

LEMMA RoutedPlace == ASSUME WorkersOK, NEW x \in Workers PROVE Routed(x) \in {"advanced", "current"}
BY DEF Routed

\* Worker x keeps its inbound and changes what it may change of the rest.
Goes(x, pc, author, probe, fallback, unsafe) ==
    w' = [w EXCEPT ![x] = [w[x] EXCEPT !.pc = pc, !.author = author, !.probe = probe,
                               !.fallback = fallback, !.unsafe = unsafe]]

LEMMA GoesKeeps ==
    ASSUME IInv, NEW x \in Workers, w[x].pc \notin {"idle", "deliver"},
           UNCHANGED <<owner, queued, credited, taken, decision>>,
           NEW pc \in Asking \cup {"gate", "save"}, NEW author \in Authors,
           pc \in Asking \/ author # "none",
           NEW probe \in BOOLEAN, NEW fallback \in BOOLEAN, NEW unsafe \in BOOLEAN,
           Goes(x, pc, author, probe, fallback, unsafe)
    PROVE  WorkersOK' /\ Alone' /\ Agreed'
<1> DEFINE r == [w[x] EXCEPT !.pc = pc, !.author = author, !.probe = probe,
                             !.fallback = fallback, !.unsafe = unsafe]
<1>1. WorkersOK /\ w[x].pc # "idle" /\ pc \notin {"link", "return", "deliver"}
      BY DEF IInv, TypesOK, Asking
<1>3. w' = [w EXCEPT ![x] = r]
      BY DEF Goes
<1>4. Sensible(r) /\ r.pc = pc /\ r.turn = w[x].turn
      BY ZenonT(30), <1>1 DEF WorkersOK, Sensible, WorkerRecord, Asking
<1> HIDE DEF r
<1> QED
    BY <1>1, <1>3, <1>4, WritesOn

\* A step of the worker that asks the brains, up to the second look at the
\* authority.
Asks(x) ==
    \/ Ask(x) \/ BeginAttempt(x) \/ PlanSelected(x) \/ PlanRejected(x) \/ PlanFailed(x)
    \/ AdvancedDecides(x) \/ AdvancedFails(x) \/ CurrentDecides(x)
    \/ GatePasses(x) \/ GateRefusesCandidate(x)

LEMMA AsksKeeps ==
    ASSUME IInv, NEW x \in Workers, Asks(x)
    PROVE  WorkersOK' /\ Alone' /\ Agreed'
<1> WorkersOK /\ Routed(x) \in Asking
    BY RoutedPlace DEF IInv, TypesOK, Asking
<1>1. /\ UNCHANGED <<owner, queued, credited, taken, decision>>
      /\ w[x].pc \notin {"idle", "deliver"}
      BY DEF Asks, At, Ask, BeginAttempt, PlanSelected, PlanRejected, PlanFailed, AdvancedDecides,
             AdvancedFails, CurrentDecides, GatePasses, GateRefusesCandidate, lease, store
<1>3. /\ w[x].author \in Authors /\ w[x].probe \in BOOLEAN /\ w[x].fallback \in BOOLEAN
      /\ w[x].unsafe \in BOOLEAN /\ (w[x].pc = "gate" => w[x].author # "none")
      BY DEF WorkersOK, Sensible, WorkerRecord
<1>4. /\ {"begin", "plan", "current"} \subseteq Asking
      /\ {"none", "v3", "advanced", "current"} \subseteq Authors
      BY DEF Asking, Authors
<1>a. CASE Ask(x)
  <2>1. PICK pc \in Asking : Goto(x, pc)
        BY <1>a, <1>4 DEF Ask
  <2>2. Goes(x, pc, w[x].author, w[x].probe, w[x].fallback, w[x].unsafe)
        BY <2>1 DEF Goes, Goto, WorkersOK, WorkerRecord
  <2> QED
      BY <1>1, <1>3, <2>2, GoesKeeps
<1>b. CASE BeginAttempt(x) /\ Available
  <2>1. PICK probe \in BOOLEAN : w' = [w EXCEPT ![x].pc = "plan", ![x].probe = probe]
        BY <1>b DEF BeginAttempt
  <2>2. Goes(x, "plan", w[x].author, probe, w[x].fallback, w[x].unsafe) /\ "plan" \in Asking
        BY <1>4, <2>1 DEF Goes, WorkersOK, WorkerRecord
  <2> QED
      BY <1>1, <1>3, <2>2, GoesKeeps
<1>c. CASE BeginAttempt(x) /\ ~Available
  <2>1. Goes(x, Routed(x), w[x].author, w[x].probe, w[x].fallback, w[x].unsafe)
        BY <1>c DEF BeginAttempt, Goto, Goes, WorkersOK, WorkerRecord
  <2> QED
      BY <1>1, <1>3, <2>1, GoesKeeps
<1>d. CASE PlanSelected(x)
  <2>1. Goes(x, "gate", "v3", w[x].probe, w[x].fallback, w[x].unsafe)
        BY <1>d DEF PlanSelected, Goes, WorkersOK, WorkerRecord
  <2> QED
      BY <1>1, <1>3, <1>4, <2>1, GoesKeeps
<1>e. CASE PlanRejected(x) \/ PlanFailed(x)
  <2>1. Goes(x, Routed(x), w[x].author, FALSE, w[x].fallback, w[x].unsafe)
        BY <1>e DEF PlanRejected, PlanFailed, Goes, WorkersOK, WorkerRecord
  <2> QED
      BY <1>1, <1>3, <2>1, GoesKeeps
<1>f. CASE AdvancedDecides(x)
  <2>1. Goes(x, "gate", "advanced", w[x].probe, w[x].fallback, w[x].unsafe)
        BY <1>f DEF AdvancedDecides, Goes, WorkersOK, WorkerRecord
  <2> QED
      BY <1>1, <1>3, <1>4, <2>1, GoesKeeps
<1>g. CASE AdvancedFails(x) \/ GateRefusesCandidate(x)
  <2>1. PICK unsafe \in BOOLEAN :
           w' = [w EXCEPT ![x].pc = "current", ![x].author = "none", ![x].fallback = TRUE,
                          ![x].unsafe = unsafe, ![x].probe = FALSE]
        BY <1>g DEF AdvancedFails, GateRefusesCandidate, FallsBack
  <2>2. [w[x] EXCEPT !.pc = "current", !.author = "none", !.fallback = TRUE, !.unsafe = unsafe,
                     !.probe = FALSE]
          = [w[x] EXCEPT !.pc = "current", !.author = "none", !.probe = FALSE, !.fallback = TRUE,
                         !.unsafe = unsafe]
        BY DEF WorkersOK, WorkerRecord
  <2>3. w' = [w EXCEPT ![x] = [w[x] EXCEPT !.pc = "current", !.author = "none", !.fallback = TRUE,
                                           !.unsafe = unsafe, !.probe = FALSE]]
        BY <2>1 DEF WorkersOK, WorkerRecord
  <2>4. Goes(x, "current", "none", FALSE, TRUE, unsafe)
        BY <2>2, <2>3 DEF Goes
  <2> QED
      BY <1>1, <1>4, <2>4, GoesKeeps
<1>h. CASE CurrentDecides(x)
  <2>1. Goes(x, "gate", "current", w[x].probe, w[x].fallback, w[x].unsafe)
        BY <1>h DEF CurrentDecides, Goes, WorkersOK, WorkerRecord
  <2> QED
      BY <1>1, <1>3, <1>4, <2>1, GoesKeeps
<1>i. CASE GatePasses(x) /\ Authorised(x)
  <2>1. Goes(x, "save", w[x].author, w[x].probe, w[x].fallback, w[x].unsafe) /\ w[x].pc = "gate"
        BY <1>i DEF GatePasses, At, Goes, WorkersOK, WorkerRecord
  <2> QED
      BY <1>1, <1>3, <2>1, GoesKeeps
<1>j. CASE GatePasses(x) /\ ~Authorised(x)
  <2>1. Goes(x, "current", "none", FALSE, TRUE, FALSE)
        BY <1>j DEF GatePasses, Goes, WorkersOK, WorkerRecord
  <2> QED
      BY <1>1, <1>4, <2>1, GoesKeeps
<1> QED
    BY <1>a, <1>b, <1>c, <1>d, <1>e, <1>f, <1>g, <1>h, <1>i, <1>j DEF Asks

LEMMA SaveRefusedKeeps ==
    ASSUME IInv, NEW x \in Workers, SaveRefused(x)
    PROVE  WorkersOK' /\ Alone' /\ Agreed'
<1> DEFINE r == [Idle EXCEPT !.pc = mode, !.turn = w[x].turn, !.requested = mode]
<1> WorkersOK /\ mode \in {"current", "advanced"}
    BY DEF IInv, TypesOK, RestOK
<1>1. w[x].turn \in Turns /\ w[x].pc = "save"
      BY DEF SaveRefused, At, WorkersOK, Sensible
<1>2. Sensible(r) /\ r.turn = w[x].turn /\ r.pc = mode
      BY <1>1 DEF Sensible, WorkerRecord, Idle, Authors
<1>3. /\ UNCHANGED <<owner, queued, credited, taken, decision>>
      /\ w' = [w EXCEPT ![x] = r]
      BY DEF SaveRefused, lease
<1> HIDE DEF r
<1> QED
    BY <1>1, <1>2, <1>3, WritesOn

\* A worker that gives up lets its leases go: no other one works under them.
LEMMA GiveUpKeeps ==
    ASSUME IInv, NEW x \in Workers, GiveUp(x), w[x].pc # "deliver",
           UNCHANGED <<queued, credited, taken, decision>>
    PROVE  WorkersOK' /\ Alone' /\ Agreed'
<1> WorkersOK /\ Alone /\ Agreed /\ LeaseOK
    BY DEF IInv, TypesOK
<1>1. WorkersOK' /\ w'[x] = Idle /\ \A y \in Workers : y # x => w'[y] = w[y]
      BY MovedOK, IdleSensible DEF GiveUp
<1>2. /\ \A t \in Turns : ~Works(x, t)'
      /\ \A t \in Turns, y \in Workers : y # x => (Works(y, t)' <=> Works(y, t))
      BY <1>1 DEF Works, Idle
<1>3. \A t \in Turns, y \in Workers : y # x /\ owner[t] = y => owner'[t] = y
      BY DEF GiveUp
<1>4. Alone'
      BY <1>2, <1>3 DEF Alone
<1>5. Agreed'
      BY <1>1, <1>2 DEF Agreed
<1> QED
    BY <1>1, <1>4, <1>5

LEMMA ClaimKeeps ==
    ASSUME IInv, NEW x \in Workers, NEW t \in Turns, Claim(x, t)
    PROVE  WorkersOK' /\ Alone' /\ Agreed' /\ LeaseOK'
<1> DEFINE r == [Idle EXCEPT !.pc = "ask", !.turn = t, !.requested = mode]
<1> WorkersOK /\ Alone /\ Agreed /\ LeaseOK /\ mode \in {"current", "advanced"}
    BY DEF IInv, TypesOK, RestOK
<1>1. Sensible(r) /\ r.turn = t /\ r.pc = "ask"
      BY DEF Sensible, WorkerRecord, Idle, Authors
<1>2. /\ w' = [w EXCEPT ![x] = r] /\ queued[t] = "none"
      /\ owner' = [owner EXCEPT ![t] = x]
      /\ taken' = [taken EXCEPT ![t] = taken[t] \/ owner[t] # NoOne]
      /\ UNCHANGED <<queued, credited, decision>> /\ w[x].pc = "idle"
      BY DEF Claim, At, store
<1> HIDE DEF r
<1>3. WorkersOK' /\ w'[x] = r /\ \A y \in Workers : y # x => w'[y] = w[y]
      BY <1>1, <1>2, MovedOK
<1>4. LeaseOK'
      BY <1>2 DEF LeaseOK
<1>5. ~taken'[t] => ~taken[t] /\ \A y \in Workers : ~Works(y, t)
      BY <1>2, Limits DEF LeaseOK, Alone
<1>6. /\ owner'[t] = x /\ \A u \in Turns \ {t} : owner'[u] = owner[u] /\ taken'[u] = taken[u]
      /\ \A u \in Turns : Works(x, u)' => u = t
      /\ \A u \in Turns, y \in Workers : y # x => (Works(y, u)' <=> Works(y, u))
      BY <1>1, <1>2, <1>3 DEF LeaseOK, Works
<1>7. Alone'
      BY <1>5, <1>6 DEF Alone
<1>8. Agreed'
  <2> SUFFICES ASSUME NEW u \in Turns, ~taken'[u]
               PROVE  /\ \A y \in Workers :
                            Works(y, u)' =>
                              /\ w'[y].pc \in {"link", "return"} => decision[u].author = w'[y].author
                              /\ w'[y].pc = "deliver" <=> queued[u] # "none"
                      /\ queued[u] # "none" => decision[u].author = queued[u]
                      /\ credited[u] # "none" => credited[u] = queued[u]
      BY <1>2 DEF Agreed
  <2>1. CASE u = t
        BY <1>1, <1>2, <1>3, <1>5, <1>6, <2>1 DEF Agreed
  <2>2. CASE u # t
        BY <1>3, <1>6, <2>2 DEF Agreed
  <2> QED
      BY <2>1, <2>2
<1> QED
    BY <1>3, <1>4, <1>7, <1>8

\* Save and what follows, up to the reply: the decision is the worker's own.
LEMMA SaveKeeps ==
    ASSUME IInv, NEW x \in Workers, Save(x)
    PROVE  WorkersOK' /\ Alone' /\ Agreed' /\ RestOK'
<1> DEFINE r == [w[x] EXCEPT !.pc = "link"]
           d == [author |-> w[x].author, fallback |-> w[x].fallback, unsafe |-> w[x].unsafe]
<1> WorkersOK /\ Alone /\ Agreed /\ RestOK
    BY DEF IInv, TypesOK
<1>1. /\ w[x].pc = "save" /\ w' = [w EXCEPT ![x] = r]
      /\ decision' = [decision EXCEPT ![w[x].turn] = d]
      /\ UNCHANGED <<owner, queued, credited, taken, mode, claims, events>>
      BY DEF Save, At, Goto, lease, bounds
<1>2. /\ Sensible(r) /\ r.turn = w[x].turn /\ r.pc = "link" /\ r.author = w[x].author
      /\ d \in DecisionRecord /\ d.author = w[x].author /\ w[x].turn \in Turns
      BY <1>1 DEF WorkersOK, Sensible, WorkerRecord, DecisionRecord
<1> HIDE DEF r, d
<1>3. WorkersOK' /\ w'[x] = r /\ \A y \in Workers : y # x => w'[y] = w[y]
      BY <1>1, <1>2, MovedOK
<1>4. /\ \A t \in Turns, y \in Workers : Works(y, t)' <=> Works(y, t)
      /\ Works(x, w[x].turn)
      BY <1>1, <1>2, <1>3 DEF Works
<1>5. RestOK' /\ decision'[w[x].turn] = d /\ \A t \in Turns \ {w[x].turn} : decision'[t] = decision[t]
      BY <1>1, <1>2 DEF RestOK
<1>6. Alone'
      BY <1>1, <1>4 DEF Alone
<1>7. Agreed'
  <2> SUFFICES ASSUME NEW t \in Turns, ~taken[t]
               PROVE  /\ \A y \in Workers :
                            Works(y, t)' =>
                              /\ w'[y].pc \in {"link", "return"} => decision'[t].author = w'[y].author
                              /\ w'[y].pc = "deliver" <=> queued[t] # "none"
                      /\ queued[t] # "none" => decision'[t].author = queued[t]
                      /\ credited[t] # "none" => credited[t] = queued[t]
      BY <1>1 DEF Agreed
  <2>1. CASE t = w[x].turn
    <3>1. \A y \in Workers : Works(y, t) => y = x
          BY <1>4, <2>1 DEF Alone
    <3>2. queued[t] = "none"
          BY <1>1, <1>4, <2>1 DEF Agreed
    <3> QED
        BY <1>2, <1>3, <1>4, <1>5, <2>1, <3>1, <3>2 DEF Agreed
  <2>2. CASE t # w[x].turn
    <3>1. ~Works(x, t)
          BY <2>2 DEF Works
    <3> QED
        BY <1>3, <1>4, <1>5, <2>2, <3>1 DEF Agreed
  <2> QED
      BY <2>1, <2>2
<1> QED
    BY <1>3, <1>5, <1>6, <1>7

LEMMA AfterSaveKeeps ==
    ASSUME IInv, NEW x \in Workers, AfterSave(x)
    PROVE  WorkersOK' /\ Alone' /\ Agreed' /\ RestOK'
<1> DEFINE r == [w[x] EXCEPT !.pc = "return"]
<1> WorkersOK /\ Alone /\ Agreed /\ RestOK
    BY DEF IInv, TypesOK
<1>1. /\ w[x].pc = "link" /\ w' = [w EXCEPT ![x] = r] /\ mode' \in RolledBack(x)
      /\ UNCHANGED <<owner, queued, credited, taken, decision, claims, events>>
      BY DEF AfterSave, At, Goto, lease, bounds
<1>2. Sensible(r) /\ r.turn = w[x].turn /\ r.pc = "return" /\ r.author = w[x].author
      BY <1>1 DEF WorkersOK, Sensible, WorkerRecord
<1> HIDE DEF r
<1>3. WorkersOK' /\ w'[x] = r /\ \A y \in Workers : y # x => w'[y] = w[y]
      BY <1>1, <1>2, MovedOK
<1>4. \A t \in Turns, y \in Workers : Works(y, t)' <=> Works(y, t)
      BY <1>1, <1>2, <1>3 DEF Works
<1>5. RestOK'
      BY <1>1 DEF RestOK, RolledBack
<1>6. Alone'
      BY <1>1, <1>4 DEF Alone
<1>7. Agreed'
      BY <1>1, <1>2, <1>3, <1>4 DEF Agreed
<1> QED
    BY <1>3, <1>5, <1>6, <1>7

\* A text that the outbox takes is that of the only worker on its inbound.
LEMMA ReturnKeeps ==
    ASSUME IInv, NEW x \in Workers, Return(x)
    PROVE  WorkersOK' /\ Alone' /\ Agreed' /\ LeaseOK'
<1> WorkersOK /\ Alone /\ Agreed /\ LeaseOK
    BY DEF IInv, TypesOK
<1> PICK t \in Turns : t = w[x].turn
    BY DEF Return, At, WorkersOK, Sensible
<1> DEFINE r == IF Accepted(x) THEN [Idle EXCEPT !.pc = "deliver", !.turn = t] ELSE Idle
<1>1. /\ w[x].pc = "return" /\ w' = [w EXCEPT ![x] = r]
      /\ queued' = IF Accepted(x) THEN [queued EXCEPT ![t] = w[x].author] ELSE queued
      /\ UNCHANGED <<owner, credited, taken, decision>>
      BY DEF Return, At, store
<1>2. t \in Turns /\ w[x].author \in Authors \ {"none"}
      BY <1>1 DEF WorkersOK, Sensible, WorkerRecord
<1>3. /\ Accepted(x) => r.pc = "deliver" /\ r.turn = t
      /\ ~Accepted(x) => r.pc = "idle"
      /\ Sensible(r)
      BY <1>2, IdleSensible DEF Sensible, WorkerRecord, Idle, Authors
<1> HIDE DEF r
<1>4. WorkersOK' /\ w'[x] = r /\ \A y \in Workers : y # x => w'[y] = w[y]
      BY <1>1, <1>3, MovedOK
<1>5. LeaseOK'
      BY <1>1, <1>2 DEF LeaseOK
<1>6. /\ Works(x, t)
      /\ \A u \in Turns : Works(x, u)' => u = t /\ Accepted(x)
      /\ \A u \in Turns, y \in Workers : y # x => (Works(y, u)' <=> Works(y, u))
      BY <1>1, <1>3, <1>4 DEF Works
<1>7. Alone'
      BY <1>1, <1>6 DEF Alone
<1>8. \A u \in Turns : u # t => queued'[u] = queued[u]
      BY <1>1, <1>2 DEF LeaseOK
<1>9. Agreed'
  <2> SUFFICES ASSUME NEW u \in Turns, ~taken[u]
               PROVE  /\ \A y \in Workers :
                            Works(y, u)' =>
                              /\ w'[y].pc \in {"link", "return"} => decision[u].author = w'[y].author
                              /\ w'[y].pc = "deliver" <=> queued'[u] # "none"
                      /\ queued'[u] # "none" => decision[u].author = queued'[u]
                      /\ credited[u] # "none" => credited[u] = queued'[u]
      BY <1>1 DEF Agreed
  <2>1. CASE u = t
    <3>1. \A y \in Workers : Works(y, t) => y = x
          BY <1>2, <1>6, <2>1 DEF Alone
    <3>2. /\ decision[t].author = w[x].author /\ queued[t] = "none"
          /\ credited[t] = "none"
          BY <1>1, <1>2, <1>6, <2>1 DEF Agreed
    <3>3. CASE Accepted(x)
      <4>1. queued'[t] = w[x].author
            BY <1>1, <1>2, <3>3 DEF LeaseOK
      <4> QED
          BY <1>2, <1>3, <1>4, <1>6, <2>1, <3>1, <3>2, <3>3, <4>1
    <3>4. CASE ~Accepted(x)
      <4>1. \A y \in Workers : ~Works(y, t)'
            BY <1>2, <1>6, <3>1, <3>4
      <4> QED
          BY <1>1, <2>1, <3>2, <3>4, <4>1
    <3> QED
        BY <3>3, <3>4
  <2>2. CASE u # t
        BY <1>4, <1>6, <1>8, <2>2 DEF Agreed
  <2> QED
      BY <2>1, <2>2
<1> QED
    BY <1>4, <1>5, <1>7, <1>9

\* The outcome copies the decision, which names the queued text's author.
LEMMA DeliverKeeps ==
    ASSUME IInv, NEW x \in Workers, Deliver(x)
    PROVE  WorkersOK' /\ Alone' /\ Agreed' /\ LeaseOK'
<1> WorkersOK /\ Alone /\ Agreed /\ LeaseOK /\ RestOK
    BY DEF IInv, TypesOK
<1> PICK t \in Turns : t = w[x].turn
    BY DEF Deliver, At, WorkersOK, Sensible
<1>1. /\ w[x].pc = "deliver" /\ w' = [w EXCEPT ![x] = Idle]
      /\ credited' = [credited EXCEPT ![t] = decision[t].author]
      /\ owner' = [owner EXCEPT ![t] = NoOne]
      /\ UNCHANGED <<queued, taken, decision>>
      BY DEF Deliver, At, store
<1>2. t \in Turns /\ Works(x, t)
      BY <1>1 DEF WorkersOK, Sensible, Works
<1>3. WorkersOK' /\ w'[x] = Idle /\ \A y \in Workers : y # x => w'[y] = w[y]
      BY <1>1, IdleSensible, MovedOK
<1>4. LeaseOK'
      BY <1>1, <1>2 DEF LeaseOK, RestOK, DecisionRecord
<1>5. /\ \A u \in Turns : ~Works(x, u)'
      /\ \A u \in Turns, y \in Workers : y # x => (Works(y, u)' <=> Works(y, u))
      BY <1>3 DEF Works, Idle
<1>6. ~taken[t] => \A y \in Workers : ~Works(y, t)'
      BY <1>2, <1>5 DEF Alone
<1>7. /\ credited'[t] = decision[t].author
      /\ \A u \in Turns : u # t => credited'[u] = credited[u] /\ owner'[u] = owner[u]
      BY <1>1, <1>2 DEF LeaseOK
<1>8. Alone'
      BY <1>1, <1>5, <1>6, <1>7 DEF Alone
<1>9. Agreed'
  <2> SUFFICES ASSUME NEW u \in Turns, ~taken[u]
               PROVE  /\ \A y \in Workers :
                            Works(y, u)' =>
                              /\ w'[y].pc \in {"link", "return"} => decision[u].author = w'[y].author
                              /\ w'[y].pc = "deliver" <=> queued[u] # "none"
                      /\ queued[u] # "none" => decision[u].author = queued[u]
                      /\ credited'[u] # "none" => credited'[u] = queued[u]
      BY <1>1 DEF Agreed
  <2>1. CASE u = t
        BY <1>1, <1>2, <1>6, <1>7, <2>1 DEF Agreed
  <2>2. CASE u # t
        BY <1>3, <1>5, <1>7, <2>2 DEF Agreed
  <2> QED
      BY <2>1, <2>2
<1> QED
    BY <1>3, <1>4, <1>8, <1>9

-----------------------------------------------------------------------------
(* The whole invariant.                                                    *)

\* The circuit and the runs keep their types through every step.
LEMMA CircuitKeeps == ASSUME IInv, Next PROVE CircuitOK' /\ RunOK'
<1> CircuitOK /\ RunOK /\ WorkersOK /\ LeaseOK /\ RestOK
    BY DEF IInv, TypesOK
<1> USE ClosedOK, QualityFailedOK, InfrastructureFailedOK, OpenedOK
<1>1. ASSUME NEW x \in Workers,
             \/ Ask(x) \/ BeginAttempt(x) \/ AdvancedDecides(x) \/ AdvancedFails(x)
             \/ CurrentDecides(x) \/ GatePasses(x) \/ GateRefusesCandidate(x) \/ NoReply(x)
             \/ Save(x) \/ Raises(x) \/ Return(x) \/ Deliver(x)
      PROVE  CircuitOK' /\ RunOK'
  <2>1. run' = run
        BY <1>1 DEF Ask, BeginAttempt, AdvancedDecides, AdvancedFails, CurrentDecides, GatePasses,
                    GateRefusesCandidate, NoReply, Save, Raises, Return, Deliver, store
  <2>2. circuit' \in CircuitRecord
    <3>1. [circuit EXCEPT !.state = "half_open", !.probe = TRUE] \in CircuitRecord
          BY DEF CircuitOK, CircuitRecord
    <3> QED
        BY <1>1, <3>1 DEF Ask, BeginAttempt, AdvancedDecides, AdvancedFails, CurrentDecides,
               GatePasses, GateRefusesCandidate, NoReply, Save, Raises, Return, Deliver, CircuitOK
  <2> QED
      BY <2>1, <2>2 DEF CircuitOK, RunOK
<1>2. ASSUME NEW x \in Workers, PlanSelected(x) \/ PlanRejected(x) \/ PlanFailed(x)
      PROVE  CircuitOK' /\ RunOK'
  <2>1. w[x].turn \in Turns
        BY <1>2 DEF PlanSelected, PlanRejected, PlanFailed, At, WorkersOK, Sensible
  <2>2. run' \in [Turns -> RunRecord]
        BY <1>2, <2>1, RecordedOK DEF PlanSelected, PlanRejected, PlanFailed, RunOK
  <2>3. circuit' \in CircuitRecord
        BY <1>2 DEF PlanSelected, PlanRejected, PlanFailed, CircuitOK
  <2> QED
      BY <2>2, <2>3 DEF CircuitOK, RunOK
<1>3. ASSUME NEW x \in Workers, SaveRefused(x) \/ AfterSave(x)
      PROVE  CircuitOK' /\ RunOK'
  <2>1. \A status \in {"linked", "failed"} :
           [run EXCEPT ![w[x].turn].status = status] \in [Turns -> RunRecord]
        BY DEF RunOK, RunRecord
  <2>2. run' \in [Turns -> RunRecord]
        BY <1>3, <2>1 DEF SaveRefused, AfterSave, Linked, RunOK
  <2>3. circuit' \in CircuitRecord
        BY <1>3 DEF SaveRefused, AfterSave, CircuitOK
  <2> QED
      BY <2>2, <2>3 DEF CircuitOK, RunOK
<1>4. ASSUME NEW x \in Workers, NEW t \in Turns, Claim(x, t) PROVE CircuitOK' /\ RunOK'
      BY <1>4 DEF Claim, store, CircuitOK, RunOK
<1>5. CASE Cools
      BY <1>5 DEF Cools, store, CircuitOK, CircuitRecord, RunOK
<1>6. CASE Switch \/ Restart
      BY <1>6 DEF Switch, Restart, store, CircuitOK, RunOK
<1>7. CASE Midnight
      BY ZenonT(30), <1>7 DEF Midnight, CircuitOK, RunOK, RunRecord
<1> QED
    BY <1>1, <1>2, <1>3, <1>4, <1>5, <1>6, <1>7 DEF Next, Work

\* The steps of the operator, the calendar and the process.
LEMMA OutsideKeeps ==
    ASSUME IInv, Cools \/ Switch \/ Midnight \/ Restart
    PROVE  WorkersOK' /\ Alone' /\ Agreed' /\ LeaseOK' /\ RestOK'
<1> WorkersOK /\ Alone /\ Agreed /\ LeaseOK /\ RestOK
    BY DEF IInv, TypesOK
<1>1. CASE Cools \/ Switch \/ Midnight
  <2>1. UNCHANGED <<w, owner, queued, credited, taken, decision>>
        BY <1>1 DEF Cools, Switch, Midnight, store, lease
  <2>2. RestOK'
        BY <1>1, Limits DEF Cools, Switch, Midnight, store, bounds, RestOK
  <2> QED
      BY <2>1, <2>2 DEF WorkersOK, Sensible, LeaseOK, Alone, Agreed, Works
<1>2. CASE Restart
  <2>1. /\ w' = [x \in Workers |-> Idle] /\ owner' = [t \in Turns |-> NoOne]
        /\ UNCHANGED <<queued, credited, taken, decision>>
        BY <1>2 DEF Restart, store
  <2>2. RestOK'
        BY <1>2, Limits DEF Restart, store, RestOK
  <2>3. LeaseOK'
        BY <2>1 DEF LeaseOK
  <2>4. WorkersOK' /\ \A x \in Workers, t \in Turns : ~Works(x, t)'
    <3>1. \A x \in Workers : w'[x] = Idle
          BY <2>1
    <3>2. w' \in [Workers -> WorkerRecord]
          BY <2>1, IdleSensible DEF Sensible
    <3>3. \A x \in Workers : Sensible(w[x])'
          BY <3>1, IdleSensible DEF Sensible
    <3> QED
        BY <3>1, <3>2, <3>3 DEF WorkersOK, Works, Idle
  <2>5. Alone'
        BY <2>4 DEF Alone
  <2>6. Agreed'
        BY <2>1, <2>4 DEF Agreed
  <2> QED
      BY <2>2, <2>3, <2>4, <2>5, <2>6
<1> QED
    BY <1>1, <1>2

LEMMA WorkKeeps ==
    ASSUME IInv, NEW x \in Workers, Work(x)
    PROVE  WorkersOK' /\ Alone' /\ Agreed' /\ LeaseOK' /\ RestOK'
<1> WorkersOK /\ LeaseOK /\ RestOK
    BY DEF IInv, TypesOK
<1>1. CASE Asks(x)
  <2>1. UNCHANGED <<owner, queued, credited, taken, decision, mode, claims, events>>
        BY <1>1 DEF Asks, Ask, BeginAttempt, PlanSelected, PlanRejected, PlanFailed,
               AdvancedDecides, AdvancedFails, CurrentDecides, GatePasses, GateRefusesCandidate,
               lease, store, bounds
  <2> QED
      BY <1>1, <2>1, AsksKeeps DEF LeaseOK, RestOK
<1>2. CASE SaveRefused(x)
  <2>1. UNCHANGED <<owner, queued, credited, taken, decision, mode, claims, events>>
        BY <1>2 DEF SaveRefused, lease, bounds
  <2> QED
      BY <1>2, <2>1, SaveRefusedKeeps DEF LeaseOK, RestOK
<1>3. CASE NoReply(x) \/ Raises(x)
  <2>1. /\ GiveUp(x) /\ w[x].pc # "deliver"
        /\ UNCHANGED <<queued, credited, taken, decision, mode, claims, events>>
        BY <1>3 DEF NoReply, Raises, At, store, bounds
  <2>2. LeaseOK'
        BY <2>1 DEF GiveUp, LeaseOK
  <2> QED
      BY <2>1, <2>2, GiveUpKeeps DEF RestOK
<1>4. CASE Save(x)
  <2>1. UNCHANGED <<owner, queued, credited, taken>>
        BY <1>4 DEF Save, lease
  <2> QED
      BY <1>4, <2>1, SaveKeeps DEF LeaseOK
<1>5. CASE AfterSave(x)
  <2>1. UNCHANGED <<owner, queued, credited, taken>>
        BY <1>5 DEF AfterSave, lease
  <2> QED
      BY <1>5, <2>1, AfterSaveKeeps DEF LeaseOK
<1>6. CASE Return(x)
  <2>1. UNCHANGED <<decision, mode, claims, events>>
        BY <1>6 DEF Return, store, bounds
  <2> QED
      BY <1>6, <2>1, ReturnKeeps DEF RestOK
<1>7. CASE Deliver(x)
  <2>1. UNCHANGED <<decision, mode, claims, events>>
        BY <1>7 DEF Deliver, store, bounds
  <2> QED
      BY <1>7, <2>1, DeliverKeeps DEF RestOK
<1>8. ASSUME NEW t \in Turns, Claim(x, t)
      PROVE  WorkersOK' /\ Alone' /\ Agreed' /\ LeaseOK' /\ RestOK'
  <2>1. RestOK'
        BY <1>8, Limits DEF Claim, store, RestOK
  <2> QED
      BY <1>8, <2>1, ClaimKeeps
<1> QED
    BY <1>1, <1>2, <1>3, <1>4, <1>5, <1>6, <1>7, <1>8 DEF Work, Asks

LEMMA NextOK == IInv /\ [Next]_vars => IInv'
<1> SUFFICES ASSUME IInv, [Next]_vars PROVE IInv'
    OBVIOUS
<1>1. CASE Next
  <2>1. CircuitOK' /\ RunOK'
        BY <1>1, CircuitKeeps
  <2>2. WorkersOK' /\ Alone' /\ Agreed' /\ LeaseOK' /\ RestOK'
        BY <1>1, OutsideKeeps, WorkKeeps DEF Next
  <2> QED
      BY <2>1, <2>2 DEF IInv, TypesOK
<1>2. CASE UNCHANGED vars
  <2>1. UNCHANGED <<circuit, run, decision, mode, w, owner, queued, credited, taken, claims, events>>
        BY <1>2 DEF vars, store, lease, bounds
  <2> QED
      BY <2>1 DEF IInv, TypesOK, CircuitOK, RunOK, LeaseOK, RestOK, WorkersOK, Sensible, Alone,
             Agreed, Works
<1> QED
    BY <1>1, <1>2

LEMMA Inductive == Spec => []IInv
<1> QED
    BY InitOK, NextOK, PTL DEF Spec

\* Every variable keeps its type, for any sets of workers and inbounds
\* (intelligence_v3/service.py, conversation/repository.py).
THEOREM BrainTypeCorrect == Spec => []TypeOK
<1>1. IInv => TypeOK
      BY Parts DEF IInv
<1> QED
    BY <1>1, Inductive, PTL

\* A delivered reply is credited to the brain that wrote its text, whatever the
\* retries, fallbacks and refused rows, as long as its inbound was never taken
\* over (bot._conversation_brain_reply, ConversationDecisionRepository.save).
THEOREM AuthorIsCredited == Spec => []CreditedToAuthor
<1>1. IInv => CreditedToAuthor
      BY DEF IInv, Agreed, CreditedToAuthor
<1> QED
    BY <1>1, Inductive, PTL

-----------------------------------------------------------------------------
(* The ceiling.                                                            *)

Charged == {t \in Turns : run[t].today /\ run[t].cost = 1}
InFlight == {x \in Workers : w[x].pc \in {"begin", "plan"}}

\* A part of a finite set, and such a part with one element more.
LEMMA PartCounts ==
    ASSUME NEW S, IsFiniteSet(S), NEW T, T \subseteq S
    PROVE  IsFiniteSet(T) /\ Cardinality(T) \in Nat /\ Cardinality(S) \in Nat
           /\ Cardinality(T) <= Cardinality(S)
BY FS_Subset, FS_CardinalityType

LEMMA Counts ==
    /\ Cardinality(Charged) \in Nat /\ Cardinality(InFlight) \in Nat
    /\ IsFiniteSet(Charged) /\ IsFiniteSet(InFlight)
    /\ Cardinality(Workers) \in Nat
<1> Charged \subseteq Turns /\ InFlight \subseteq Workers
    BY DEF Charged, InFlight
<1> QED
    BY PartCounts, FiniteSets

LEMMA CountsNext ==
    /\ Cardinality(Charged') \in Nat /\ Cardinality(InFlight') \in Nat
    /\ Cardinality(InFlight') <= Cardinality(Workers)
<1> Charged' \subseteq Turns /\ InFlight' \subseteq Workers
    BY DEF Charged, InFlight
<1> QED
    BY PartCounts, FiniteSets

\* No call in flight and no cost more.
LEMMA NoMoreCalls ==
    ASSUME OverrunBounded, Charged' \subseteq Charged, InFlight' \subseteq InFlight
    PROVE  OverrunBounded'
<1>1. /\ Cardinality(Charged') <= Cardinality(Charged)
      /\ Cardinality(InFlight') <= Cardinality(InFlight)
      BY Counts, PartCounts
<1> QED
    BY <1>1, Counts, CountsNext, Limits DEF OverrunBounded, RecordedToday, Charged, InFlight

\* The ceiling is looked at before a call is made.
LEMMA LookedAt ==
    ASSUME CanDecideLive(FALSE), Charged' \subseteq Charged
    PROVE  OverrunBounded'
<1>1. Cardinality(Charged) < Ceiling
      BY DEF CanDecideLive, RecordedToday, Charged
<1>2. Cardinality(Charged') <= Cardinality(Charged)
      BY Counts, PartCounts
<1>3. Cardinality(Charged') + Cardinality(InFlight') < Ceiling + Cardinality(Workers)
      BY <1>1, <1>2, Counts, CountsNext, Limits
<1> QED
    BY <1>3 DEF OverrunBounded, RecordedToday, Charged, InFlight

\* A call that ends is recorded once.
LEMMA CallEnds ==
    ASSUME OverrunBounded, NEW x \in InFlight, NEW t,
           Charged' \subseteq Charged \cup {t}, InFlight' \subseteq InFlight \ {x}
    PROVE  OverrunBounded'
<1>1. Cardinality(InFlight') <= Cardinality(InFlight) - 1
  <2>1. IsFiniteSet(InFlight \ {x}) /\ Cardinality(InFlight \ {x}) = Cardinality(InFlight) - 1
        BY Counts, FS_RemoveElement
  <2> QED
      BY <2>1, PartCounts
<1>2. Cardinality(Charged') <= Cardinality(Charged) + 1
  <2>1. IsFiniteSet(Charged \cup {t}) /\ Cardinality(Charged \cup {t}) <= Cardinality(Charged) + 1
    <3>1. /\ IsFiniteSet(Charged \cup {t})
          /\ Cardinality(Charged \cup {t})
                = IF t \in Charged THEN Cardinality(Charged) ELSE Cardinality(Charged) + 1
          BY Counts, FS_AddElement, Zenon
    <3> QED
        BY <3>1, Counts
  <2>2. Cardinality(Charged') <= Cardinality(Charged \cup {t}) /\ Cardinality(Charged \cup {t}) \in Nat
        BY <2>1, PartCounts
  <2> QED
      BY <2>1, <2>2, Counts, CountsNext
<1> QED
    BY <1>1, <1>2, Counts, CountsNext, Limits DEF OverrunBounded, RecordedToday, Charged, InFlight

LEMMA OverrunInit == Init => OverrunBounded
<1> SUFFICES ASSUME Init PROVE OverrunBounded
    OBVIOUS
<1>1. Charged = {} /\ InFlight = {}
      BY DEF Init, Charged, NoRun, InFlight, Idle
<1>2. Cardinality({}) = 0
      BY FS_EmptySet
<1>3. Cardinality(Charged) + Cardinality(InFlight) < Ceiling + Cardinality(Workers)
      BY <1>1, <1>2, Counts, Limits
<1> QED
    BY <1>3 DEF OverrunBounded, RecordedToday, Charged, InFlight

LEMMA OverrunKept == IInv /\ OverrunBounded /\ [Next]_vars => OverrunBounded'
<1> SUFFICES ASSUME IInv, OverrunBounded, [Next]_vars PROVE OverrunBounded'
    OBVIOUS
<1> WorkersOK /\ RunOK /\ mode \in {"current", "advanced"}
    BY DEF IInv, TypesOK, RestOK
<1>a. run' = run => Charged' = Charged
      BY DEF Charged
<1>b. w' = w => InFlight' = InFlight
      BY DEF InFlight
<1>1. ASSUME NEW x \in Workers, Ask(x) PROVE OverrunBounded'
  <2>1. CASE CanDecideLive(FALSE)
        BY <1>1, <1>a, <2>1, LookedAt DEF Ask, store
  <2>2. CASE ~CanDecideLive(FALSE)
    <3>1. InFlight' \subseteq InFlight \ {x}
          BY <1>1, <2>2 DEF Ask, Goto, Routed, WorkersOK, WorkerRecord, InFlight
    <3> QED
        BY <1>1, <1>a, <3>1, NoMoreCalls DEF Ask, store
  <2> QED
      BY <2>1, <2>2
<1>2. ASSUME NEW x \in Workers, BeginAttempt(x) PROVE OverrunBounded'
  <2>1. InFlight' \subseteq InFlight
        BY <1>2 DEF BeginAttempt, At, Goto, Routed, WorkersOK, WorkerRecord, InFlight
  <2> QED
      BY <1>2, <1>a, <2>1, NoMoreCalls DEF BeginAttempt, store
<1>3. ASSUME NEW x \in Workers, PlanSelected(x) \/ PlanRejected(x) \/ PlanFailed(x)
      PROVE  OverrunBounded'
  <2>1. x \in InFlight /\ InFlight' \subseteq InFlight \ {x}
        BY <1>3 DEF PlanSelected, PlanRejected, PlanFailed, At, Routed, WorkersOK, WorkerRecord,
               InFlight
  <2>2. Charged' \subseteq Charged \cup {w[x].turn}
        BY <1>3 DEF PlanSelected, PlanRejected, PlanFailed, Recorded, RunOK, Charged
  <2> QED
      BY <2>1, <2>2, CallEnds
<1>4. ASSUME NEW x \in Workers,
             \/ AdvancedDecides(x) \/ AdvancedFails(x) \/ CurrentDecides(x) \/ GatePasses(x)
             \/ GateRefusesCandidate(x) \/ NoReply(x) \/ Save(x) \/ Raises(x) \/ Return(x)
             \/ Deliver(x) \/ \E t \in Turns : Claim(x, t)
      PROVE  OverrunBounded'
  <2>1. InFlight' \subseteq InFlight
    <3>1. CASE AdvancedFails(x) \/ GateRefusesCandidate(x)
      <4>1. FallsBack(x)
            BY <3>1 DEF AdvancedFails, GateRefusesCandidate
      <4>2. PICK unsafe :
               w' = [w EXCEPT ![x].pc = "current", ![x].author = "none", ![x].fallback = TRUE,
                              ![x].unsafe = unsafe, ![x].probe = FALSE]
            BY <4>1 DEF FallsBack
      <4> QED
          BY <4>2 DEF WorkersOK, WorkerRecord, InFlight
    <3>2. CASE NoReply(x) \/ Raises(x) \/ Deliver(x)
          BY <3>2 DEF NoReply, Raises, GiveUp, Deliver, Idle, WorkersOK, WorkerRecord, InFlight
    <3>3. CASE AdvancedDecides(x) \/ CurrentDecides(x) \/ Save(x)
          BY <3>3 DEF AdvancedDecides, CurrentDecides, Save, Goto, WorkersOK, WorkerRecord, InFlight
    <3>4. CASE GatePasses(x)
          BY <3>4 DEF GatePasses, WorkersOK, WorkerRecord, InFlight
    <3>5. CASE Return(x)
          BY <3>5 DEF Return, Idle, InFlight
    <3>6. CASE \E t \in Turns : Claim(x, t)
          BY <3>6 DEF Claim, Idle, InFlight
    <3> QED
        BY <1>4, <3>1, <3>2, <3>3, <3>4, <3>5, <3>6
  <2>2. run' = run
        BY <1>4 DEF AdvancedDecides, AdvancedFails, CurrentDecides, GatePasses,
               GateRefusesCandidate, NoReply, Save, Raises, Return, Deliver, Claim, store
  <2> QED
      BY <1>a, <2>1, <2>2, NoMoreCalls
<1>5. ASSUME NEW x \in Workers, SaveRefused(x) \/ AfterSave(x) PROVE OverrunBounded'
  <2>1. InFlight' \subseteq InFlight
    <3>1. CASE SaveRefused(x)
          BY ZenonT(30), <3>1 DEF SaveRefused, Idle, WorkersOK, WorkerRecord, InFlight
    <3>2. CASE AfterSave(x)
          BY ZenonT(30), <3>2 DEF AfterSave, Goto, WorkersOK, WorkerRecord, InFlight
    <3> QED
        BY <1>5, <3>1, <3>2
  <2>2. Charged' \subseteq Charged
        BY <1>5 DEF SaveRefused, AfterSave, Linked, RunOK, RunRecord, Charged
  <2> QED
      BY <2>1, <2>2, NoMoreCalls
<1>6. CASE Cools \/ Switch
      BY <1>6, <1>a, <1>b, NoMoreCalls DEF Cools, Switch, store
<1>7. CASE Midnight
  <2>1. Charged' \subseteq Charged
        BY <1>7 DEF Midnight, Charged, RunOK, RunRecord
  <2> QED
      BY <1>7, <1>b, <2>1, NoMoreCalls DEF Midnight
<1>8. CASE Restart
  <2>1. InFlight' \subseteq InFlight
        BY <1>8 DEF Restart, InFlight, Idle
  <2> QED
      BY <1>8, <1>a, <2>1, NoMoreCalls DEF Restart, store
<1>9. CASE UNCHANGED vars
      BY <1>9, <1>a, <1>b, NoMoreCalls DEF vars, store
<1> QED
    BY <1>1, <1>2, <1>3, <1>4, <1>5, <1>6, <1>7, <1>8, <1>9 DEF Next, Work

\* However many workers overlap, the day's recorded costs and the calls in
\* flight pass the ceiling by less than one call per worker
\* (can_decide_live and record_run, a model call apart).
THEOREM OverrunIsBounded == Spec => []OverrunBounded
<1> QED
    BY OverrunInit, OverrunKept, Inductive, PTL DEF Spec
-----------------------------------------------------------------------------
(* The requests of Brain 2.0 (ModelCalls).                                 *)
(*                                                                         *)
(* TurnBounded is kept by TurnOK: what a job has sent and what is left of  *)
(* its budget never exceed the calls it was given, and what it may have    *)
(* sent by then follows from its stage and from whether it is at the first *)
(* request of the stage.                                                   *)

JobRecord ==
    [pc : {"none", "queued", "usage", "cost", "sent", "done"}, live : BOOLEAN,
     route : {"fast", "strategic"}, stage : 1..3, mode : {"first", "retry", "repair"},
     left : 0..6, conf : Settings]

\* What a job may have sent before the request it is at: a retry or a repair is
\* the second of its stage.
Before(b) == IF b.mode = "first" THEN 2 * (b.stage - 1) ELSE 2 * b.stage - 1

TurnOK(b, sent) ==
    /\ b.route = "fast" => b.stage = 1
    /\ b.pc \in {"none", "queued"} => b.stage = 1 /\ b.mode = "first" /\ sent = 0
    /\ b.pc = "none" => ~b.live
    /\ b.pc = "queued" /\ b.live => b.left = b.conf.calls
    /\ b.pc = "usage" => sent + b.left <= b.conf.calls /\ sent <= Before(b)
    /\ b.pc = "cost" => sent + b.left + 1 <= b.conf.calls /\ sent <= Before(b)
    /\ b.pc = "sent" => sent + b.left <= b.conf.calls /\ sent <= Before(b) + 1
    /\ sent <= b.conf.calls /\ sent <= 2 * b.stage

TurnsOK ==
    /\ job \in [Jobs -> JobRecord] /\ posted \in [Jobs -> Nat]
    /\ setting \in Settings
    /\ \A j \in Jobs : TurnOK(job[j], posted[j])

LEMMA SettingCalls ==
    ASSUME NEW s \in Settings
    PROVE  s.calls \in 1..6 /\ s.hour \in Nat /\ s.day \in Nat /\ s.cost \in Nat \ {0}
BY ModelCallsAssumption

LEMMA TurnsInit == ASSUME CallsInit PROVE TurnsOK
<1>1. PICK s \in Settings : s = CHOOSE x \in Settings : TRUE
      BY ModelCallsAssumption
<1>2. NoJob \in JobRecord /\ NoJob.conf \in Settings
      BY <1>1 DEF NoJob, JobRecord
<1>3. TurnOK(NoJob, 0)
      BY <1>2, SettingCalls DEF TurnOK, NoJob
<1> QED
    BY <1>2, <1>3 DEF CallsInit, TurnsOK

\* One job moves.
LEMMA TurnMoves ==
    ASSUME TurnsOK, NEW j \in Jobs, NEW b \in JobRecord, NEW sent \in Nat, TurnOK(b, sent),
           job' = [job EXCEPT ![j] = b], posted' = [posted EXCEPT ![j] = sent], setting' \in Settings
    PROVE  TurnsOK'
BY DEF TurnsOK

LEMMA TurnAt ==
    ASSUME TurnsOK, NEW j \in Jobs
    PROVE  /\ job[j] \in JobRecord /\ posted[j] \in Nat /\ TurnOK(job[j], posted[j])
           /\ job[j].conf \in Settings /\ job[j].stage \in 1..3 /\ job[j].left \in 0..6
           /\ posted = [posted EXCEPT ![j] = posted[j]]
BY DEF TurnsOK, JobRecord

\* A job that is over, whatever it was doing.
LEMMA TurnEnds ==
    ASSUME TurnsOK, NEW j \in Jobs, job' = [job EXCEPT ![j].pc = "done"],
           UNCHANGED <<posted, setting>>
    PROVE  TurnsOK'
<1> DEFINE b == [job[j] EXCEPT !.pc = "done"]
<1>1. b \in JobRecord /\ job' = [job EXCEPT ![j] = b]
      BY TurnAt DEF JobRecord
<1>2. TurnOK(b, posted[j])
      BY TurnAt DEF TurnOK, JobRecord
<1> HIDE DEF b
<1> QED
    BY <1>1, <1>2, TurnAt, TurnMoves DEF TurnsOK

LEMMA SubmitTurn ==
    ASSUME TurnsOK, NEW j \in Jobs, NEW route \in {"fast", "strategic"},
           SubmitShadow(j, route) \/ SubmitLive(j, route)
    PROVE  TurnsOK'
<1>1. /\ UNCHANGED <<posted, setting>> /\ job[j].pc = "none" /\ setting \in Settings
      /\ setting.calls \in 1..6
      BY SettingCalls DEF SubmitShadow, SubmitLive, TurnsOK
<1>2. CASE SubmitShadow(j, route)
  <2> DEFINE b == [job[j] EXCEPT !.pc = "queued", !.route = route]
  <2>1. b \in JobRecord /\ job' = [job EXCEPT ![j] = b]
    <3>1. job[j] \in JobRecord
          BY TurnAt
    <3>2. b \in JobRecord
          BY <3>1 DEF JobRecord
    <3>3. job' = [job EXCEPT ![j] = b]
          BY <1>2 DEF SubmitShadow, TurnsOK
    <3> QED
        BY <3>2, <3>3
  <2>2. TurnOK(b, posted[j])
        BY <1>1, TurnAt, SettingCalls DEF TurnOK, JobRecord
  <2> HIDE DEF b
  <2> QED
      BY <1>1, <2>1, <2>2, TurnAt, TurnMoves
<1>3. CASE SubmitLive(j, route)
  <2>1. PICK way \in {"fast", "strategic"}, given \in 0..6 :
           way = Downgraded(route, setting) /\ given = setting.calls
        BY <1>1 DEF Downgraded
  <2> DEFINE b == [job[j] EXCEPT !.pc = "queued", !.live = TRUE, !.route = way,
                                 !.left = given, !.conf = setting]
  <2>2. b \in JobRecord
        BY ZenonT(30), <1>1, <2>1, TurnAt DEF JobRecord
  <2>3. job' = [job EXCEPT ![j] = b]
        BY <1>3, <2>1, TurnAt DEF SubmitLive, Under, JobRecord
  <2>4. TurnOK(b, posted[j])
        BY <1>1, <2>1, TurnAt DEF TurnOK, JobRecord
  <2> HIDE DEF b
  <2> QED
      BY <1>1, <2>2, <2>3, <2>4, TurnAt, TurnMoves
<1> QED
    BY <1>2, <1>3

LEMMA StartTurn ==
    ASSUME TurnsOK, NEW j \in Jobs, Start(j)
    PROVE  TurnsOK'
<1>1. /\ UNCHANGED <<posted, setting>> /\ job[j].pc = "queued" /\ setting \in Settings
      /\ setting.calls \in 1..6 /\ job[j].conf.calls \in 1..6
      BY TurnAt, SettingCalls DEF Start, TurnsOK
<1>2. CASE job[j].live
  <2> DEFINE b == [job[j] EXCEPT !.pc = "usage"]
  <2>1. b \in JobRecord /\ job' = [job EXCEPT ![j] = b]
        BY <1>2, TurnAt DEF Start, JobRecord
  <2>2. TurnOK(b, posted[j])
        BY <1>1, <1>2, TurnAt DEF TurnOK, JobRecord, Before
  <2> HIDE DEF b
  <2> QED
      BY <1>1, <2>1, <2>2, TurnAt, TurnMoves
<1>3. CASE ~job[j].live
  <2>1. PICK way \in {"fast", "strategic"}, given \in 0..6 :
           way = Downgraded(job[j].route, setting) /\ given = setting.calls
        BY <1>1, TurnAt DEF Downgraded, JobRecord
  <2> DEFINE b == [job[j] EXCEPT !.pc = "usage", !.route = way, !.left = given,
                                 !.conf = setting]
  <2>2. b \in JobRecord
        BY ZenonT(30), <1>1, <2>1, TurnAt DEF JobRecord
  <2>3. job' = [job EXCEPT ![j] = b]
        BY <1>3, <2>1, TurnAt DEF Start, Under, JobRecord
  <2>4. TurnOK(b, posted[j])
        BY <1>1, <2>1, TurnAt DEF TurnOK, JobRecord, Before
  <2> HIDE DEF b
  <2> QED
      BY <1>1, <2>2, <2>3, <2>4, TurnAt, TurnMoves
<1> QED
    BY <1>2, <1>3

LEMMA RequestTurn ==
    ASSUME TurnsOK, NEW j \in Jobs,
           ReserveUsage(j) \/ ReserveCost(j)
    PROVE  TurnsOK'
<1>1. setting' = setting /\ job[j].conf.calls \in 1..6
      BY TurnAt, SettingCalls DEF ReserveUsage, ReserveCost
<1>2. CASE ReserveUsage(j)
  <2>1. PICK left \in 0..6 : left = job[j].left - 1
        BY <1>2, TurnAt DEF ReserveUsage
  <2> DEFINE b == [job[j] EXCEPT !.pc = "cost", !.left = left]
  <2>2. b \in JobRecord /\ job' = [job EXCEPT ![j] = b] /\ posted' = posted
        BY ZenonT(30), <1>2, <2>1, TurnAt DEF ReserveUsage, JobRecord
  <2>3. TurnOK(b, posted[j])
        BY <1>1, <1>2, <2>1, TurnAt DEF ReserveUsage, TurnOK, JobRecord, Before
  <2> HIDE DEF b
  <2> QED
      BY <1>1, <2>2, <2>3, TurnAt, TurnMoves DEF TurnsOK
<1>3. CASE ReserveCost(j)
  <2> DEFINE b == [job[j] EXCEPT !.pc = "sent"]
  <2>1. b \in JobRecord /\ job' = [job EXCEPT ![j] = b]
        BY <1>3, TurnAt DEF ReserveCost, JobRecord
  <2>2. posted' = [posted EXCEPT ![j] = posted[j] + 1]
        BY <1>3, TurnAt DEF ReserveCost
  <2>3. TurnOK(b, posted[j] + 1)
        BY <1>1, <1>3, TurnAt DEF ReserveCost, TurnOK, JobRecord, Before
  <2> HIDE DEF b
  <2> QED
      BY <1>1, <2>1, <2>2, <2>3, TurnAt, TurnMoves DEF TurnsOK
<1> QED
    BY <1>2, <1>3

\* The first request of a stage is answered: it is retried or repaired once, or
\* the next stage begins.
LEMMA AnswerTurn ==
    ASSUME TurnsOK, NEW j \in Jobs,
           Transient(j) \/ SchemaInvalid(j) \/ Valid(j)
    PROVE  TurnsOK'
<1>1. /\ UNCHANGED <<posted, setting>> /\ job[j].pc = "sent" /\ job[j].conf.calls \in 1..6
      BY TurnAt, SettingCalls DEF Transient, SchemaInvalid, Valid
<1>2. ASSUME NEW again \in {"retry", "repair"}, job[j].mode = "first", Again(j, again)
      PROVE  TurnsOK'
  <2> DEFINE b == [job[j] EXCEPT !.pc = "usage", !.mode = again]
  <2>1. b \in JobRecord /\ job' = [job EXCEPT ![j] = b]
        BY <1>2, TurnAt DEF Again, JobRecord
  <2>2. TurnOK(b, posted[j])
        BY <1>1, <1>2, TurnAt DEF TurnOK, JobRecord, Before
  <2> HIDE DEF b
  <2> QED
      BY <1>1, <2>1, <2>2, TurnAt, TurnMoves DEF TurnsOK
<1>3. CASE Valid(j)
  <2>1. PICK stage \in 2..3 : stage = job[j].stage + 1
        BY <1>3, TurnAt DEF Valid, LastStage, TurnOK, JobRecord
  <2> DEFINE b == [job[j] EXCEPT !.pc = "usage", !.stage = stage, !.mode = "first"]
  <2>2. b \in JobRecord /\ job' = [job EXCEPT ![j] = b]
    <3>1. stage \in 1..3 /\ job' = [job EXCEPT ![j].pc = "usage", ![j].stage = stage,
                                              ![j].mode = "first"]
          BY <1>3, <2>1 DEF Valid
    <3> QED
        BY <3>1, TurnAt DEF JobRecord
  <2>3. job[j].route = "strategic"
        BY <1>3, TurnAt DEF Valid, LastStage, TurnOK, JobRecord
  <2>4. TurnOK(b, posted[j])
        BY <1>1, <2>1, <2>3, TurnAt DEF TurnOK, JobRecord, Before
  <2> HIDE DEF b
  <2> QED
      BY <1>1, <2>2, <2>4, TurnAt, TurnMoves DEF TurnsOK
<1>4. CASE job' = [job EXCEPT ![j].pc = "done"]
      BY <1>1, <1>4, TurnEnds
<1> QED
    BY <1>2, <1>3, <1>4 DEF Transient, SchemaInvalid, Failed, End

\* All jobs at work stop at once.
LEMMA CrashTurns == ASSUME TurnsOK, Crash PROVE TurnsOK'
<1>1. PICK gone \in SUBSET Jobs :
         job' = [j \in Jobs |-> IF j \in gone THEN [job[j] EXCEPT !.pc = "done"] ELSE job[j]]
      BY DEF Crash
<1>2. UNCHANGED <<posted, setting>>
      BY DEF Crash
<1>3. ASSUME NEW j \in Jobs PROVE job'[j] \in JobRecord /\ TurnOK(job'[j], posted[j])
  <2>1. CASE j \in gone
    <3> DEFINE b == [job[j] EXCEPT !.pc = "done"]
    <3>1. b \in JobRecord /\ TurnOK(b, posted[j])
          BY TurnAt DEF TurnOK, JobRecord
    <3>2. job'[j] = b
          BY <1>1, <2>1
    <3> HIDE DEF b
    <3> QED
        BY <3>1, <3>2
  <2>2. CASE j \notin gone
        BY <1>1, <2>2, TurnAt
  <2> QED
      BY <2>1, <2>2
<1>4. job' \in [Jobs -> JobRecord]
  <2>1. DOMAIN job' = Jobs /\ job' = [j \in Jobs |-> job'[j]]
        BY <1>1
  <2> QED
      BY <1>3, <2>1
<1> QED
    BY <1>2, <1>3, <1>4 DEF TurnsOK

LEMMA TurnsNext ==
    ASSUME TurnsOK, [CallsNext]_callVars
    PROVE  TurnsOK'
<1>1. CASE UNCHANGED <<job, posted>> /\ setting' \in Settings
      BY <1>1 DEF TurnsOK
<1>2. ASSUME NEW j \in Jobs, UsageRefused(j) \/ CostRefused(j) \/ Terminal(j)
                                 \/ Completed(j) \/ WriteFails(j)
      PROVE  TurnsOK'
  <2>1. job' = [job EXCEPT ![j].pc = "done"] /\ UNCHANGED <<posted, setting>>
        BY <1>2 DEF UsageRefused, CostRefused, Terminal, Completed,
               WriteFails, Capped, Failed, End
  <2> QED
      BY <2>1, TurnEnds
<1>3. ASSUME NEW j \in Jobs, CallerLeaves(j) PROVE TurnsOK'
  <2>1. CASE job[j].pc = "queued"
        BY <1>3, <2>1, TurnEnds DEF CallerLeaves
  <2>2. CASE job[j].pc # "queued"
        BY <1>1, <1>3, <2>2 DEF CallerLeaves, TurnsOK
  <2> QED
      BY <2>1, <2>2
<1>4. CASE NextHour \/ (\E s \in Settings : SaveSettings(s)) \/ UNCHANGED callVars
  <2>1. UNCHANGED <<job, posted>> /\ setting' \in Settings
        BY <1>4 DEF NextHour, SaveSettings, callVars, TurnsOK
  <2> QED
      BY <1>1, <2>1
<1> QED
    BY <1>2, <1>3, <1>4, SubmitTurn, StartTurn, RequestTurn, AnswerTurn, CrashTurns
    DEF CallsNext, Step

\* A job never sends more requests than its turn was given, nor more than two
\* for a stage (request_once, _json_call).
THEOREM TurnIsBounded ==
    CallsSpec => []TurnBounded
<1>1. TurnsOK => TurnBounded
      BY DEF TurnsOK, TurnOK, TurnBounded
<1> QED
    BY <1>1, TurnsInit, TurnsNext, PTL DEF CallsSpec

\* The jobs that have their place in the hour and the day and not yet their cost.
Owing == {j \in Jobs : job[j].pc = "cost"}

CountersOK ==
    /\ usedHour \in [Hours -> Nat] /\ hour \in Hours
    /\ usedDay \in Nat /\ usedCost \in Nat
    /\ usedCost + Cardinality(Owing) <= usedDay

BucketsOK == CountersOK /\ BucketsHeld

LEMMA OwingFinite ==
    IsFiniteSet(Owing) /\ Cardinality(Owing) \in Nat
<1>1. IsFiniteSet(Jobs)
      BY ModelCallsAssumption
<1>2. Owing \subseteq Jobs
      BY DEF Owing
<1>3. IsFiniteSet(Owing)
      BY <1>1, <1>2, FS_Subset
<1> QED
    BY <1>3, FS_CardinalityType

\* A step that reserves nothing leaves no more jobs owing.
LEMMA NothingReserved ==
    ASSUME BucketsOK, UNCHANGED <<usedHour, usedDay, usedCost>>,
           hour' \in Hours, Owing' \subseteq Owing
    PROVE  BucketsOK'
<1>1. Cardinality(Owing') <= Cardinality(Owing) /\ Cardinality(Owing') \in Nat
      BY OwingFinite, FS_Subset, FS_CardinalityType
<1>2. CountersOK'
      BY <1>1, OwingFinite DEF BucketsOK, CountersOK, Hours
<1>3. BucketsHeld'
      BY DEF BucketsOK, BucketsHeld, Hours
<1> QED
    BY <1>2, <1>3 DEF BucketsOK

LEMMA ReserveUsageHeld ==
    ASSUME TurnsOK, BucketsOK, NEW j \in Jobs, ReserveUsage(j)
    PROVE  BucketsOK'
<1>1. /\ job[j].pc = "usage" /\ UsageAllows(job[j].conf) /\ hour' = hour
      /\ usedHour' = [usedHour EXCEPT ![hour] = @ + 1] /\ usedDay' = usedDay + 1
      /\ usedCost' = usedCost
      /\ job' = [job EXCEPT ![j].pc = "cost", ![j].left = @ - 1]
      BY DEF ReserveUsage
<1>2. PICK c \in Settings : c = job[j].conf /\ c.hour \in Nat /\ c.day \in Nat /\ c.cost \in Nat
      BY TurnAt, SettingCalls
<1>3. /\ usedHour \in [Hours -> Nat] /\ hour \in Hours
      /\ usedDay \in Nat /\ usedCost \in Nat
      /\ usedCost + Cardinality(Owing) <= usedDay
      BY DEF BucketsOK, CountersOK
<1>4. Owing' = Owing \cup {j} /\ j \notin Owing
      BY <1>1, TurnAt DEF Owing, TurnsOK, JobRecord
<1>5. Cardinality(Owing') = Cardinality(Owing) + 1
      BY <1>4, OwingFinite, FS_AddElement, Zenon
<1>6. CountersOK'
  <2>1. usedHour' \in [Hours -> Nat]
        BY <1>1, <1>3
  <2>2. usedCost' + Cardinality(Owing') <= usedDay'
        BY <1>1, <1>3, <1>5, OwingFinite
  <2> QED
      BY <1>1, <1>3, <2>1, <2>2 DEF CountersOK, Hours
<1>7. BucketsHeld'
  <2>1. usedHour[hour] + 1 <= c.hour /\ usedDay + 1 <= c.day
        BY <1>1, <1>2 DEF UsageAllows
  <2>2. \A h \in Hours : \E s \in Settings : usedHour'[h] <= s.hour
        BY <1>1, <1>2, <1>3, <2>1 DEF BucketsOK, BucketsHeld
  <2>3. \E s \in Settings : usedDay' <= s.day
        BY <1>1, <1>2, <2>1
  <2>4. usedCost' <= usedDay'
        BY <1>1, <1>3, OwingFinite
  <2> QED
      BY <1>1, <2>2, <2>3, <2>4 DEF BucketsOK, BucketsHeld, Hours
<1> QED
    BY <1>6, <1>7 DEF BucketsOK

LEMMA ReserveCostHeld ==
    ASSUME TurnsOK, BucketsOK, NEW j \in Jobs, ReserveCost(j)
    PROVE  BucketsOK'
<1>1. /\ job[j].pc = "cost" /\ usedCost + 1 <= job[j].conf.cost
      /\ UNCHANGED <<hour, usedHour, usedDay>> /\ usedCost' = usedCost + 1
      /\ job' = [job EXCEPT ![j].pc = "sent"]
      BY DEF ReserveCost
<1>2. PICK c \in Settings : c = job[j].conf
      BY TurnAt
<1>3. /\ usedHour \in [Hours -> Nat] /\ hour \in Hours
      /\ usedDay \in Nat /\ usedCost \in Nat
      /\ usedCost + Cardinality(Owing) <= usedDay
      BY DEF BucketsOK, CountersOK
<1>4. Owing' = Owing \ {j} /\ j \in Owing
      BY <1>1, TurnAt DEF Owing, TurnsOK, JobRecord
<1>5. Cardinality(Owing') = Cardinality(Owing) - 1
      BY <1>4, OwingFinite, FS_RemoveElement, Zenon
<1>6. Cardinality(Owing') \in Nat
      BY <1>4, OwingFinite, FS_RemoveElement, FS_CardinalityType
<1>7. CountersOK'
  <2>1. usedCost' + Cardinality(Owing') <= usedDay'
        BY <1>1, <1>3, <1>5, OwingFinite
  <2> QED
      BY <1>1, <1>3, <2>1 DEF CountersOK, Hours
<1>8. BucketsHeld'
  <2>1. usedCost' <= usedDay'
        BY <1>1, <1>3, <1>5, <1>6, OwingFinite
  <2>2. \E s \in Settings : usedCost' <= s.cost
        BY <1>1, <1>2
  <2> QED
      BY <1>1, <2>1, <2>2 DEF BucketsOK, BucketsHeld, Hours
<1> QED
    BY <1>7, <1>8 DEF BucketsOK

LEMMA BucketsInit == ASSUME CallsInit PROVE BucketsOK
<1>1. Owing = {}
      BY DEF CallsInit, NoJob, Owing
<1>2. 0 \in Hours
      BY ModelCallsAssumption DEF Hours
<1>3. Cardinality(Owing) = 0
      BY <1>1, FS_EmptySet
<1>4. CountersOK
      BY <1>2, <1>3 DEF CallsInit, CountersOK
<1>5. \E s \in Settings : 0 <= s.hour /\ 0 <= s.day /\ 0 <= s.cost
      BY SettingCalls, ModelCallsAssumption
<1>6. BucketsHeld
      BY <1>5 DEF CallsInit, BucketsHeld
<1> QED
    BY <1>4, <1>6 DEF BucketsOK

LEMMA BucketsNext ==
    ASSUME TurnsOK, BucketsOK, [CallsNext]_callVars
    PROVE  BucketsOK'
<1> DEFINE Idles == UNCHANGED <<usedHour, usedDay, usedCost>> /\ hour' \in Hours
                    /\ Owing' \subseteq Owing
<1>1. hour \in Hours
      BY DEF BucketsOK, CountersOK
<1>2. ASSUME NEW j \in Jobs, NEW b, b.pc # "cost", job' = [job EXCEPT ![j] = b]
      PROVE  Owing' \subseteq Owing
      BY <1>2 DEF Owing, TurnsOK
<1>3. ASSUME NEW j \in Jobs, NEW pc, pc # "cost", job' = [job EXCEPT ![j].pc = pc]
      PROVE  Owing' \subseteq Owing
      BY <1>3, TurnAt DEF Owing, TurnsOK, JobRecord
<1>4. ASSUME NEW j \in Jobs,
             Step(j) \/ CallerLeaves(j)
                \/ \E route \in {"fast", "strategic"} : SubmitShadow(j, route) \/ SubmitLive(j, route),
             ~ReserveUsage(j), ~ReserveCost(j)
      PROVE  Idles
  <2>1. UNCHANGED <<hour, usedHour, usedDay, usedCost>>
        BY <1>4 DEF Step, CallerLeaves, SubmitShadow, SubmitLive, Start,
               UsageRefused, CostRefused, Transient, SchemaInvalid,
               Terminal, Valid, Completed, WriteFails, buckets
  <2> SUFFICES Owing' \subseteq Owing
      BY <1>1, <2>1
  <2>2. CASE Start(j) \/ \E route \in {"fast", "strategic"} : SubmitLive(j, route)
    <3>1. PICK b : job' = [job EXCEPT ![j] = b] /\ b.pc # "cost"
      <4>1. CASE Start(j)
        <5>1. CASE job[j].live
          <6> DEFINE b == [job[j] EXCEPT !.pc = "usage"]
          <6>1. job' = [job EXCEPT ![j] = b] /\ b.pc # "cost"
                BY <4>1, <5>1, TurnAt DEF Start, JobRecord
          <6> QED
              BY <6>1
        <5>2. CASE ~job[j].live
          <6> DEFINE b == [Under(j, job[j].route, setting) EXCEPT !.pc = "usage"]
          <6>1. job' = [job EXCEPT ![j] = b] /\ b.pc # "cost"
                BY <4>1, <5>2, TurnAt DEF Start, Under, JobRecord
          <6> QED
              BY <6>1
        <5> QED
            BY <5>1, <5>2
      <4>2. CASE \E route \in {"fast", "strategic"} : SubmitLive(j, route)
        <5>1. PICK route : SubmitLive(j, route)
              BY <4>2
        <5> DEFINE b == [Under(j, route, setting) EXCEPT !.pc = "queued", !.live = TRUE]
        <5>2. job' = [job EXCEPT ![j] = b] /\ b.pc # "cost"
              BY <5>1, TurnAt DEF SubmitLive, Under, JobRecord
        <5> QED
            BY <5>2
      <4> QED
          BY <2>2, <4>1, <4>2
    <3> QED
        BY <1>2, <3>1
  <2>3. CASE Valid(j)
    <3>1. job' = [job EXCEPT ![j].pc = "usage", ![j].stage = @ + 1, ![j].mode = "first"]
          BY <2>3 DEF Valid
    <3> QED
        BY <3>1, TurnAt DEF Owing, TurnsOK, JobRecord
  <2>4. CASE Transient(j) \/ SchemaInvalid(j)
    <3>1. (\E again \in {"retry", "repair"} : Again(j, again)) \/ job' = [job EXCEPT ![j].pc = "done"]
          BY <2>4 DEF Transient, SchemaInvalid, Failed, End
    <3>2. ASSUME NEW again, Again(j, again) PROVE Owing' \subseteq Owing
      <4>1. job' = [job EXCEPT ![j].pc = "usage", ![j].mode = again]
            BY <3>2 DEF Again
      <4> QED
          BY <4>1, TurnAt DEF Owing, TurnsOK, JobRecord
    <3> QED
        BY <1>3, <3>1, <3>2
  <2>5. CASE \E route \in {"fast", "strategic"} : SubmitShadow(j, route)
    <3>1. PICK route : job' = [job EXCEPT ![j].pc = "queued", ![j].route = route]
          BY <2>5 DEF SubmitShadow
    <3> QED
        BY <3>1, TurnAt DEF Owing, TurnsOK, JobRecord
  <2>6. CASE UsageRefused(j) \/ CostRefused(j) \/ Terminal(j)
                \/ Completed(j) \/ WriteFails(j)
    <3>1. job' = [job EXCEPT ![j].pc = "done"]
          BY <2>6 DEF UsageRefused, CostRefused, Terminal, Completed,
                 WriteFails, Capped, Failed, End
    <3> QED
        BY <1>3, <3>1
  <2>7. CASE CallerLeaves(j)
    <3>1. job' = [job EXCEPT ![j].pc = "done"] \/ job' = job
          BY <2>7 DEF CallerLeaves
    <3> QED
        BY <1>3, <3>1 DEF Owing
  <2> QED
      BY <1>1, <1>4, <2>1, <2>2, <2>3, <2>4, <2>5, <2>6, <2>7 DEF Step
<1>5. CASE Crash \/ NextHour \/ (\E s \in Settings : SaveSettings(s))
           \/ UNCHANGED callVars
  <2>1. UNCHANGED <<usedHour, usedDay, usedCost>>
        BY <1>5 DEF Crash, NextHour, SaveSettings, callVars, buckets
  <2>2. hour' \in Hours
        BY <1>1, <1>5, ModelCallsAssumption DEF Crash, NextHour, SaveSettings,
           callVars, Hours
  <2>3. CASE Crash
    <3>1. PICK gone : job' = [j \in Jobs |-> IF j \in gone THEN [job[j] EXCEPT !.pc = "done"]
                                           ELSE job[j]]
          BY <2>3 DEF Crash
    <3>2. ASSUME NEW j \in Jobs, job'[j].pc = "cost" PROVE job[j].pc = "cost"
      <4>1. CASE j \in gone
            BY <3>1, <3>2, <4>1, TurnAt DEF JobRecord
      <4>2. CASE j \notin gone
            BY <3>1, <3>2, <4>2
      <4> QED
          BY <4>1, <4>2
    <3>3. Owing' \subseteq Owing
          BY <3>2 DEF Owing
    <3> QED
        BY <2>1, <2>2, <3>3, NothingReserved
  <2>4. CASE job' = job
        BY <2>1, <2>2, <2>4, NothingReserved DEF Owing
  <2> QED
      BY <1>5, <2>3, <2>4 DEF NextHour, SaveSettings, callVars
<1> QED
    BY <1>4, <1>5, NothingReserved, ReserveUsageHeld, ReserveCostHeld DEF CallsNext

\* No bucket passes the highest limit that was in force, and no request has its
\* cost without a place in the day (StrategicUsageCapRepository.reserve,
\* BrainCostCapRepository.reserve).
THEOREM BucketsAreHeld ==
    CallsSpec => []BucketsHeld
BY TurnsInit, TurnsNext, BucketsInit, BucketsNext, PTL DEF CallsSpec, BucketsOK

\* What was sent and what the hours hold, against the day's buckets.
BooksOK == Count(posted, Jobs) <= usedCost /\ usedDay = Count(usedHour, Hours)

LEMMA BooksInit == ASSUME CallsInit PROVE BooksOK
<1>1. ASSUME NEW S, NEW f, \A s \in S : f[s] = 0 PROVE Count(f, S) = 0
  <2>1. Units(f, S) = {}
        BY <1>1 DEF Units
  <2> QED
      BY <2>1, FS_EmptySet DEF Count
<1>2. Count(posted, Jobs) = 0 /\ Count(usedHour, Hours) = 0
      BY <1>1 DEF CallsInit
<1> QED
    BY <1>2 DEF CallsInit, BooksOK

LEMMA BooksNext ==
    ASSUME TurnsOK, BucketsOK, BooksOK, [CallsNext]_callVars
    PROVE  BooksOK'
<1> DEFINE Kept == UNCHANGED <<posted, usedHour, usedDay, usedCost>>
<1>1. IsFiniteSet(Jobs) /\ IsFiniteSet(Hours)
      BY ModelCallsAssumption, FS_Interval DEF Hours
<1>2. /\ \A j \in Jobs : posted[j] \in Nat
      /\ \A h \in Hours : usedHour[h] \in Nat
      /\ hour \in Hours /\ usedCost \in Nat /\ usedDay \in Nat
      BY DEF TurnsOK, BucketsOK, CountersOK
<1>3. Count(posted, Jobs) \in Nat /\ Count(usedHour, Hours) \in Nat
      BY <1>1, <1>2, UnitsFinite
<1>4. ASSUME Kept PROVE BooksOK'
  <2>1. Count(posted, Jobs)' = Count(posted, Jobs) /\ Count(usedHour, Hours)' = Count(usedHour, Hours)
        BY <1>4 DEF Count, Units, Hours
  <2> QED
      BY <1>4, <2>1 DEF BooksOK
<1>5. ASSUME NEW j \in Jobs, ReserveUsage(j) PROVE BooksOK'
  <2>1. PICK n \in Nat : n = usedHour[hour]
        BY <1>2
  <2>2. /\ usedHour' = [usedHour EXCEPT ![hour] = n + 1]
        /\ usedDay' = usedDay + 1 /\ UNCHANGED <<posted, usedCost>>
        BY <1>5, <2>1 DEF ReserveUsage
  <2>3. usedHour'[hour] = n + 1 /\ \A h \in Hours \ {hour} : usedHour'[h] = usedHour[h]
        BY <1>2, <2>2 DEF BucketsOK, CountersOK
  <2>4. Count(usedHour', Hours) = Count(usedHour, Hours) + usedHour'[hour] - usedHour[hour]
        BY <1>1, <1>2, <2>3, CountChanges
  <2>5. Count(usedHour', Hours) = usedDay'
        BY <1>2, <1>3, <2>1, <2>2, <2>3, <2>4 DEF BooksOK
  <2> QED
      BY <2>2, <2>5 DEF BooksOK, Hours
<1>6. ASSUME NEW j \in Jobs, ReserveCost(j) PROVE BooksOK'
  <2>1. PICK n \in Nat : n = posted[j]
        BY <1>2
  <2>2. /\ posted' = [posted EXCEPT ![j] = n + 1]
        /\ usedCost' = usedCost + 1 /\ UNCHANGED <<usedHour, usedDay>>
        BY <1>6, <2>1 DEF ReserveCost
  <2>3. posted'[j] = n + 1 /\ \A k \in Jobs \ {j} : posted'[k] = posted[k]
        BY <2>2 DEF TurnsOK
  <2>4. Count(posted', Jobs) = Count(posted, Jobs) + posted'[j] - posted[j]
        BY <1>1, <1>2, <2>3, CountChanges
  <2>5. Count(posted', Jobs) <= usedCost'
        BY <1>2, <1>3, <2>1, <2>2, <2>3, <2>4 DEF BooksOK
  <2> QED
      BY <2>2, <2>5 DEF BooksOK, Hours
<1>7. ASSUME NEW j \in Jobs,
             Step(j) \/ CallerLeaves(j)
                \/ \E route \in {"fast", "strategic"} : SubmitShadow(j, route) \/ SubmitLive(j, route)
      PROVE  BooksOK'
  <2>1. Kept \/ ReserveUsage(j) \/ ReserveCost(j)
        BY <1>7 DEF Step, CallerLeaves, SubmitShadow, SubmitLive, Start,
               UsageRefused, CostRefused, Transient, SchemaInvalid,
               Terminal, Valid, Completed, WriteFails, buckets
  <2> QED
      BY <1>4, <1>5, <1>6, <2>1
<1>8. CASE Crash \/ NextHour \/ (\E s \in Settings : SaveSettings(s)) \/ UNCHANGED callVars
  <2>1. Kept
        BY <1>8 DEF Crash, NextHour, SaveSettings, callVars, buckets
  <2> QED
      BY <1>4, <2>1
<1> QED
    BY <1>7, <1>8 DEF CallsNext

\* Every request sent was reserved before, in the hour, the day and the cost of
\* the day, and no bucket is overdrawn (request_once).
THEOREM RequestsAreReserved == CallsSpec => []RequestsReserved
<1>1. BucketsOK /\ BooksOK => RequestsReserved
      BY DEF BucketsOK, BooksOK, RequestsReserved
<1> QED
    BY <1>1, TurnsInit, TurnsNext, BucketsInit, BucketsNext, BooksInit, BooksNext, PTL DEF CallsSpec

-----------------------------------------------------------------------------
\* Credits.

CallRecord == [status : {"idle", "checked", "reserved", "finalized", "lost", "blocked"},
               made : Days, settled : Days, actual : Actuals \cup {0}]
Months == {Month(d) : d \in Days}

\* What the properties say of the calls, for any calls k.
RowsIn(k, c) == BudgetRows(ClassOf[c], k[c].made)
OpenIn(k, r) == {c \in Calls : k[c].status \in {"reserved", "lost"} /\ r \in RowsIn(k, c)}
DoneIn(k, r) == {c \in Calls : k[c].status = "finalized" /\ r \in RowsIn(k, c)}
SpentIn(k) == [c \in Calls |-> k[c].actual]
CrossedIn(k, r) ==
    \E c \in Calls : /\ k[c].status = "finalized"
                     /\ (r \in RowsIn(k, c)) # (r \in BudgetRows(ClassOf[c], k[c].settled))
OverspentIn(k, r) == \E c \in DoneIn(k, r) : k[c].actual > Cost[c]
HeldIn(k, c) ==
    CASE k[c].status \in {"reserved", "lost"} -> Cost[c]
      [] k[c].status = "finalized" -> IF k[c].actual < Cost[c] THEN k[c].actual ELSE Cost[c]
      [] OTHER -> 0
HoldersIn(k, m, classes) == {c \in Calls : ClassOf[c] \in classes /\ Month(k[c].made) = m}
TakenIn(k, m, classes) == Count([c \in Calls |-> HeldIn(k, c)], HoldersIn(k, m, classes))

Whole(r) == IF r[1] = "day" THEN DailyReads ELSE MonthlyLimit
Reads == {"read", "control"}
Sends == {"read", "control", "send"}

\* A row u, v of the books is what the calls k make it.
RowHeld(k, u, v, r) ==
    ~CrossedIn(k, r) => /\ v[r] = Count(Cost, OpenIn(k, r))
                        /\ u[r] = Count(SpentIn(k), DoneIn(k, r))
                        /\ ~OverspentIn(k, r) => u[r] + v[r] =< Whole(r)
MonthHeld(k, m) ==
    ~CrossedIn(k, <<"month", m>>) =>
        /\ TakenIn(k, m, Reads) =< MonthlyLimit - SendReserve - EmergencyReserve
        /\ TakenIn(k, m, Sends) =< MonthlyLimit - EmergencyReserve

CreditsInv ==
    /\ call \in [Calls -> CallRecord]
    /\ used \in [AllRows -> Nat] /\ reserved \in [AllRows -> Int]
    /\ present \subseteq AllRows /\ day \in Days
    /\ \A c \in Calls : call[c].status \in {"reserved", "lost", "finalized"} => RowsIn(call, c) \subseteq present
    /\ \A r \in AllRows : RowHeld(call, used, reserved, r)
    /\ \A m \in Months : MonthHeld(call, m)

\* The books are over whole numbers, finitely many.
LEMMA CreditsTyped ==
    /\ IsFiniteSet(Calls) /\ \A S \in SUBSET Calls : IsFiniteSet(S)
    /\ \A c \in Calls : Cost[c] \in Nat /\ Cost[c] > 0
    /\ \A a \in Actuals \cup {0} : a \in Nat
    /\ MonthlyLimit \in Nat /\ DailyReads \in Nat /\ SendReserve \in Nat /\ EmergencyReserve \in Nat
    /\ SendReserve + EmergencyReserve <= MonthlyLimit
<1>1. IsFiniteSet(Calls)
      BY CreditsAssumption
<1>2. \A S \in SUBSET Calls : IsFiniteSet(S)
      BY <1>1, FS_Subset
<1> QED
    BY <1>1, <1>2, CreditsAssumption

LEMMA CountsTyped ==
    ASSUME NEW k \in [Calls -> CallRecord], NEW S \in SUBSET Calls
    PROVE  /\ Count(Cost, S) \in Nat /\ Count(SpentIn(k), S) \in Nat
           /\ Count([c \in Calls |-> HeldIn(k, c)], S) \in Nat
<1>1. IsFiniteSet(S) /\ \A c \in S : Cost[c] \in Int /\ k[c].actual \in Nat
      BY CreditsTyped DEF CallRecord
<1>2. \A c \in S : SpentIn(k)[c] \in Int
      BY <1>1 DEF SpentIn
<1>3. \A c \in S : HeldIn(k, c) \in Int
      BY <1>1 DEF HeldIn
<1> DEFINE held == [c \in Calls |-> HeldIn(k, c)]
<1>4. \A c \in S : held[c] \in Int
      BY <1>3
<1> HIDE DEF held
<1>5. Count(held, S) \in Nat
      BY <1>1, <1>4, UnitsFinite
<1>6. Count(Cost, S) \in Nat /\ Count(SpentIn(k), S) \in Nat
      BY <1>1, <1>2, UnitsFinite
<1> QED
    BY <1>5, <1>6 DEF held

\* What some classes hold of a month is in its row.
LEMMA TakenInRow ==
    ASSUME NEW k \in [Calls -> CallRecord], NEW m, NEW classes
    PROVE  TakenIn(k, m, classes) =< Count(Cost, OpenIn(k, <<"month", m>>))
                                        + Count(SpentIn(k), DoneIn(k, <<"month", m>>))
<1> DEFINE r == <<"month", m>>
           held == [c \in Calls |-> HeldIn(k, c)]
           H == HoldersIn(k, m, classes)
           A == Units(Cost, OpenIn(k, r))
           B == Units(SpentIn(k), DoneIn(k, r))
<1>1. Units(held, H) \subseteq A \cup B
  <2>1. ASSUME NEW c \in H, NEW i \in 1..held[c] PROVE <<c, i>> \in A \cup B
    <3>1. /\ c \in Calls /\ r \in RowsIn(k, c)
          BY DEF HoldersIn, RowsIn, BudgetRows
    <3>2. k[c].actual \in Nat /\ Cost[c] \in Nat
          BY <3>1, CreditsTyped DEF CallRecord
    <3>3. i \in 1..HeldIn(k, c)
          BY <3>1
    <3>4. CASE k[c].status \in {"reserved", "lost"}
      <4>1. c \in OpenIn(k, r) /\ HeldIn(k, c) = Cost[c]
            BY <3>1, <3>4 DEF OpenIn, HeldIn
      <4> QED
          BY <3>3, <4>1 DEF Units
    <3>5. CASE k[c].status = "finalized"
      <4>1. c \in DoneIn(k, r) /\ i \in 1..k[c].actual
            BY <3>1, <3>2, <3>3, <3>5 DEF DoneIn, HeldIn
      <4>2. i \in 1..SpentIn(k)[c]
            BY <3>1, <4>1 DEF SpentIn
      <4> QED
          BY <4>1, <4>2 DEF Units
    <3>6. CASE k[c].status \notin {"reserved", "lost", "finalized"}
          BY <3>3, <3>6 DEF HeldIn
    <3> QED
        BY <3>4, <3>5, <3>6
  <2> HIDE DEF A, B, held, H
  <2> QED
      BY <2>1 DEF Units
<1>2. OpenIn(k, r) \in SUBSET Calls /\ DoneIn(k, r) \in SUBSET Calls /\ H \in SUBSET Calls
      BY DEF OpenIn, DoneIn, HoldersIn
<1>3. IsFiniteSet(A) /\ IsFiniteSet(B)
  <2>1. \A c \in Calls : Cost[c] \in Int /\ SpentIn(k)[c] \in Int
        BY CreditsTyped DEF SpentIn, CallRecord
  <2> QED
      BY <1>2, <2>1, CreditsTyped, UnitsFinite
<1> HIDE DEF A, B, held, H
<1>4. /\ IsFiniteSet(A \cup B)
      /\ Cardinality(A \cup B) = Cardinality(A) + Cardinality(B) - Cardinality(A \cap B)
      BY <1>3, FS_Union, Zenon
<1>5. Cardinality(A \cap B) \in Nat /\ Cardinality(A) \in Nat /\ Cardinality(B) \in Nat
      BY <1>3, FS_Intersection, FS_CardinalityType
<1>6. Cardinality(Units(held, H)) <= Cardinality(A \cup B) /\ Cardinality(Units(held, H)) \in Nat
      BY <1>1, <1>4, FS_Subset, FS_CardinalityType
<1>7. Cardinality(Units(held, H)) <= Cardinality(A) + Cardinality(B)
      BY <1>4, <1>5, <1>6
<1> QED
    BY <1>7 DEF A, B, held, H, TakenIn, Count

\* What is held of a month falls when no call comes to hold more of it.
LEMMA TakenFalls ==
    ASSUME NEW k \in [Calls -> CallRecord], NEW l \in [Calls -> CallRecord], NEW m, NEW classes,
           \A c \in HoldersIn(l, m, classes) :
               HeldIn(l, c) > 0 => Month(k[c].made) = m /\ HeldIn(l, c) =< HeldIn(k, c)
    PROVE  TakenIn(l, m, classes) =< TakenIn(k, m, classes)
<1> DEFINE before == [c \in Calls |-> HeldIn(k, c)]
           after == [c \in Calls |-> HeldIn(l, c)]
           K == HoldersIn(k, m, classes)
           L == HoldersIn(l, m, classes)
<1>1. K \in SUBSET Calls /\ L \in SUBSET Calls
      BY DEF HoldersIn
<1>2. \A c \in Calls : HeldIn(k, c) \in Nat /\ HeldIn(l, c) \in Nat
      BY CreditsTyped DEF HeldIn, CallRecord
<1>3. ASSUME NEW c \in L, NEW i \in 1..after[c] PROVE c \in K /\ i \in 1..before[c]
      BY <1>1, <1>2 DEF HoldersIn
<1>4. IsFiniteSet(K) /\ \A c \in K : before[c] \in Int
      BY <1>1, <1>2, CreditsTyped
<1> HIDE DEF before, after, K, L
<1>5. Units(after, L) \subseteq Units(before, K)
      BY <1>3 DEF Units
<1>6. IsFiniteSet(Units(before, K))
      BY <1>4, UnitsFinite
<1>7. Cardinality(Units(after, L)) <= Cardinality(Units(before, K))
      BY <1>5, <1>6, FS_Subset
<1> QED
    BY <1>7 DEF before, after, K, L, TakenIn, Count

\* Calls that differ in nothing the books record.
Alike(x, y) ==
    /\ x.made = y.made /\ x.settled = y.settled /\ x.actual = y.actual
    /\ x.status \in {"reserved", "lost"} <=> y.status \in {"reserved", "lost"}
    /\ x.status = "finalized" <=> y.status = "finalized"

LEMMA AlikeHeld ==
    ASSUME NEW k, NEW l, \A c \in Calls : Alike(k[c], l[c])
    PROVE  /\ \A u, v, r : RowHeld(k, u, v, r) => RowHeld(l, u, v, r)
           /\ \A m : MonthHeld(k, m) => MonthHeld(l, m)
<1>1. \A c \in Calls : RowsIn(k, c) = RowsIn(l, c)
      BY DEF Alike, RowsIn
<1>2. \A r : OpenIn(k, r) = OpenIn(l, r) /\ DoneIn(k, r) = DoneIn(l, r)
      BY <1>1 DEF Alike, OpenIn, DoneIn
<1>3. \A r : CrossedIn(k, r) <=> CrossedIn(l, r)
      BY <1>1 DEF Alike, CrossedIn
<1>4. \A r : OverspentIn(k, r) <=> OverspentIn(l, r)
      BY <1>2 DEF Alike, OverspentIn, DoneIn
<1>5. SpentIn(k) = SpentIn(l)
      BY DEF Alike, SpentIn
<1>6. \A c \in Calls : HeldIn(k, c) = HeldIn(l, c)
  <2>1. SUFFICES ASSUME NEW c \in Calls PROVE HeldIn(k, c) = HeldIn(l, c)
        OBVIOUS
  <2>2. Alike(k[c], l[c])
        OBVIOUS
  <2> QED
      BY <2>2 DEF Alike, HeldIn
<1>7. [c \in Calls |-> HeldIn(k, c)] = [c \in Calls |-> HeldIn(l, c)]
      BY <1>6
<1>8. \A m, classes : HoldersIn(k, m, classes) = HoldersIn(l, m, classes)
      BY DEF Alike, HoldersIn
<1>9. \A m, classes : TakenIn(k, m, classes) = TakenIn(l, m, classes)
      BY <1>7, <1>8 DEF TakenIn
<1>10. ASSUME NEW u, NEW v, NEW r, RowHeld(k, u, v, r) PROVE RowHeld(l, u, v, r)
       BY <1>2, <1>3, <1>4, <1>5, <1>10 DEF RowHeld
<1>11. ASSUME NEW m, MonthHeld(k, m) PROVE MonthHeld(l, m)
       BY <1>3, <1>9, <1>11 DEF MonthHeld
<1> QED
    BY <1>10, <1>11

\* The rows of a budget.
LEMMA RowsTyped ==
    ASSUME NEW d \in Days, NEW class
    PROVE  /\ BudgetRows(class, d) \subseteq AllRows
           /\ <<"month", Month(d)>> \in BudgetRows(class, d)
           /\ \A m : <<"month", m>> \in BudgetRows(class, d) => m = Month(d)
BY DEF BudgetRows, AllRows, Months

\* What Reserve writes of its call, and Finalize.
ReservedAt(k, c, d) == [k EXCEPT ![c] = [@ EXCEPT !.status = "reserved", !.made = d]]
FinalizedAt(k, c, d, a) ==
    [k EXCEPT ![c] = [@ EXCEPT !.status = "finalized", !.settled = d, !.actual = a]]

LEMMA CallReserved ==
    ASSUME NEW k \in [Calls -> CallRecord], NEW c \in Calls, NEW d \in Days, NEW l,
           l = ReservedAt(k, c, d)
    PROVE  /\ l \in [Calls -> CallRecord] /\ l[c].status = "reserved" /\ l[c].made = d
           /\ \A x \in Calls \ {c} : l[x] = k[x]
BY DEF ReservedAt, CallRecord

LEMMA CallFinalized ==
    ASSUME NEW k \in [Calls -> CallRecord], NEW c \in Calls, NEW d \in Days, NEW a \in Actuals,
           NEW l, l = FinalizedAt(k, c, d, a)
    PROVE  /\ l \in [Calls -> CallRecord] /\ l[c].status = "finalized" /\ l[c].made = k[c].made
           /\ l[c].settled = d /\ l[c].actual = a
           /\ \A x \in Calls \ {c} : l[x] = k[x]
BY DEF FinalizedAt, CallRecord

\* A call reserves what its rows can bear.
LEMMA ReserveHeld ==
    ASSUME NEW k \in [Calls -> CallRecord], NEW c \in Calls, k[c].status = "checked",
           NEW d \in Days, NEW l, l = ReservedAt(k, c, d),
           NEW u \in [AllRows -> Nat], NEW v \in [AllRows -> Int], NEW z \in [AllRows -> Int],
           \A r \in AllRows : z[r] = IF r \in BudgetRows(ClassOf[c], d) THEN v[r] + Cost[c] ELSE v[r],
           \A r \in BudgetRows(ClassOf[c], d) : u[r] + v[r] + Cost[c] =< Limit(r, ClassOf[c]),
           \A r \in AllRows : RowHeld(k, u, v, r), \A m \in Months : MonthHeld(k, m)
    PROVE  /\ \A r \in AllRows : RowHeld(l, u, z, r)
           /\ \A m \in Months : MonthHeld(l, m)
<1> DEFINE Mine == BudgetRows(ClassOf[c], d)
<1>1. /\ l \in [Calls -> CallRecord] /\ l[c].status = "reserved" /\ l[c].made = d
      /\ \A x \in Calls \ {c} : l[x] = k[x]
      BY CallReserved
<1>2. /\ \A x \in Calls \ {c} : RowsIn(l, x) = RowsIn(k, x)
      /\ RowsIn(l, c) = Mine
      BY <1>1 DEF RowsIn
<1>3. ASSUME NEW r PROVE /\ DoneIn(l, r) = DoneIn(k, r)
                         /\ OpenIn(l, r) \ {c} = OpenIn(k, r)
                         /\ c \in OpenIn(l, r) <=> r \in Mine
                         /\ OpenIn(l, r) \subseteq Calls /\ DoneIn(k, r) \subseteq Calls /\ c \notin DoneIn(k, r)
      BY <1>1, <1>2 DEF OpenIn, DoneIn
<1>4. \A r : CrossedIn(l, r) <=> CrossedIn(k, r)
      BY <1>1, <1>2 DEF CrossedIn
<1>5. \A r : OverspentIn(l, r) <=> OverspentIn(k, r)
      BY <1>1, <1>3 DEF OverspentIn
<1>6. \A r : Count(SpentIn(l), DoneIn(l, r)) = Count(SpentIn(k), DoneIn(k, r))
  <2>1. SUFFICES ASSUME NEW r PROVE Count(SpentIn(l), DoneIn(k, r)) = Count(SpentIn(k), DoneIn(k, r))
        BY <1>3
  <2>2. \A x \in DoneIn(k, r) : SpentIn(l)[x] = SpentIn(k)[x]
        BY <1>1, <1>3 DEF SpentIn
  <2> QED
      BY <2>2, CountSame
<1>7. Cost[c] \in Nat /\ Cost[c] > 0
      BY CreditsTyped
<1>8. ASSUME NEW r
      PROVE  Count(Cost, OpenIn(l, r)) = Count(Cost, OpenIn(k, r)) + (IF r \in Mine THEN Cost[c] ELSE 0)
  <2>1. Count(Cost, OpenIn(k, r)) \in Nat
        BY CountsTyped DEF OpenIn
  <2>2. CASE r \notin Mine
    <3>1. c \notin OpenIn(l, r) /\ OpenIn(l, r) \ {c} = OpenIn(k, r)
          BY <1>3, <2>2
    <3>2. OpenIn(l, r) = OpenIn(k, r)
          BY <3>1
    <3> QED
        BY <2>1, <2>2, <3>2
  <2>3. CASE r \in Mine
    <3>1. c \in OpenIn(l, r) /\ IsFiniteSet(OpenIn(l, r)) /\ \A x \in OpenIn(l, r) : Cost[x] \in Int
          BY <1>3, <2>3, CreditsTyped
    <3>2. Count(Cost, OpenIn(l, r)) = Count(Cost, OpenIn(l, r) \ {c}) + (IF Cost[c] > 0 THEN Cost[c] ELSE 0)
          BY <3>1, CountWithout
    <3> QED
        BY <1>3, <1>7, <2>3, <3>2
  <2> QED
      BY <2>2, <2>3
<1>9. Mine \subseteq AllRows
      BY RowsTyped
<1>10. \A r \in AllRows : Whole(r) \in Int /\ Limit(r, ClassOf[c]) \in Int /\ Limit(r, ClassOf[c]) =< Whole(r)
       BY CreditsTyped DEF Limit, Whole, Usable
<1>11. ASSUME NEW r \in AllRows PROVE RowHeld(l, u, z, r)
  <2>1. SUFFICES ASSUME ~CrossedIn(l, r)
                 PROVE  /\ z[r] = Count(Cost, OpenIn(l, r))
                        /\ u[r] = Count(SpentIn(l), DoneIn(l, r))
                        /\ ~OverspentIn(l, r) => u[r] + z[r] =< Whole(r)
        BY DEF RowHeld
  <2>2. /\ v[r] = Count(Cost, OpenIn(k, r)) /\ u[r] = Count(SpentIn(k), DoneIn(k, r))
        /\ ~OverspentIn(l, r) => u[r] + v[r] =< Whole(r)
        BY <1>4, <1>5, <2>1 DEF RowHeld
  <2>3. u[r] \in Int /\ v[r] \in Int /\ z[r] \in Int
        OBVIOUS
  <2>4. z[r] = IF r \in Mine THEN v[r] + Cost[c] ELSE v[r]
        OBVIOUS
  <2>5. r \in Mine => u[r] + v[r] + Cost[c] =< Limit(r, ClassOf[c])
        OBVIOUS
  <2>6. z[r] = Count(Cost, OpenIn(l, r))
        BY <1>7, <1>8, <2>2, <2>3, <2>4
  <2>7. ~OverspentIn(l, r) => u[r] + z[r] =< Whole(r)
        BY <1>7, <1>10, <2>2, <2>3, <2>4, <2>5
  <2> QED
      BY <1>6, <2>2, <2>6, <2>7
<1>12. ASSUME NEW m, NEW classes,
              ~(ClassOf[c] \in classes /\ m = Month(d))
       PROVE  TakenIn(l, m, classes) =< TakenIn(k, m, classes)
  <2>1. c \notin HoldersIn(l, m, classes)
        BY <1>1, <1>12 DEF HoldersIn
  <2>2. \A x \in HoldersIn(l, m, classes) : x \in Calls \ {c} /\ Month(l[x].made) = m
        BY <2>1 DEF HoldersIn
  <2>3. \A x \in Calls \ {c} : HeldIn(l, x) = HeldIn(k, x) /\ HeldIn(k, x) \in Int
    <3>1. SUFFICES ASSUME NEW x \in Calls \ {c} PROVE HeldIn(l, x) = HeldIn(k, x) /\ HeldIn(k, x) \in Int
          OBVIOUS
    <3>2. l[x] = k[x] /\ k[x].actual \in Int /\ Cost[x] \in Int
          BY <1>1, CreditsTyped DEF CallRecord
    <3> QED
        BY <3>2 DEF HeldIn
  <2>4. \A x \in HoldersIn(l, m, classes) :
            HeldIn(l, x) > 0 => Month(k[x].made) = m /\ HeldIn(l, x) =< HeldIn(k, x)
        BY <1>1, <2>2, <2>3
  <2> QED
      BY <1>1, <2>4, TakenFalls
<1>13. ASSUME NEW m, NEW classes, m = Month(d), ~CrossedIn(l, <<"month", m>>)
       PROVE  TakenIn(l, m, classes) =< Usable(ClassOf[c])
  <2> DEFINE r == <<"month", m>>
  <2>1. r \in Mine /\ r \in AllRows
        BY <1>9, <1>13, RowsTyped
  <2>2. u[r] + v[r] + Cost[c] =< Usable(ClassOf[c]) /\ z[r] = v[r] + Cost[c]
    <3>1. Limit(r, ClassOf[c]) = Usable(ClassOf[c])
          BY DEF Limit
    <3> QED
        BY <2>1, <3>1
  <2>3. z[r] = Count(Cost, OpenIn(l, r)) /\ u[r] = Count(SpentIn(l), DoneIn(l, r))
        BY <1>11, <1>13, <2>1 DEF RowHeld
  <2>4. TakenIn(l, m, classes) =< Count(Cost, OpenIn(l, r)) + Count(SpentIn(l), DoneIn(l, r))
        BY <1>1, TakenInRow
  <2>5. u[r] \in Int /\ v[r] \in Int /\ z[r] \in Int
        BY <2>1
  <2>6. TakenIn(l, m, classes) \in Nat
        BY <1>1, CountsTyped DEF TakenIn, HoldersIn
  <2>7. Usable(ClassOf[c]) \in Int
        BY CreditsTyped DEF Usable
  <2> HIDE DEF r
  <2> QED
      BY <1>7, <2>2, <2>3, <2>4, <2>5, <2>6, <2>7
<1>14. ASSUME NEW m \in Months PROVE MonthHeld(l, m)
  <2>1. SUFFICES ASSUME ~CrossedIn(l, <<"month", m>>)
                 PROVE  /\ TakenIn(l, m, Reads) =< MonthlyLimit - SendReserve - EmergencyReserve
                        /\ TakenIn(l, m, Sends) =< MonthlyLimit - EmergencyReserve
        BY DEF MonthHeld
  <2>2. /\ TakenIn(k, m, Reads) =< MonthlyLimit - SendReserve - EmergencyReserve
        /\ TakenIn(k, m, Sends) =< MonthlyLimit - EmergencyReserve
        BY <1>4, <2>1 DEF MonthHeld
  <2>3. /\ TakenIn(k, m, Reads) \in Nat /\ TakenIn(l, m, Reads) \in Nat
        /\ TakenIn(k, m, Sends) \in Nat /\ TakenIn(l, m, Sends) \in Nat
        BY <1>1, CountsTyped DEF TakenIn, HoldersIn
  <2>4. TakenIn(l, m, Reads) =< MonthlyLimit - SendReserve - EmergencyReserve
    <3>1. CASE ClassOf[c] \in Reads /\ m = Month(d)
      <4>1. Usable(ClassOf[c]) = MonthlyLimit - EmergencyReserve - SendReserve
            BY <3>1 DEF Usable, Reads
      <4> QED
          BY <1>13, <2>1, <3>1, <4>1, CreditsTyped
    <3>2. CASE ~(ClassOf[c] \in Reads /\ m = Month(d))
          BY <1>12, <2>2, <2>3, <3>2, CreditsTyped
    <3> QED
        BY <3>1, <3>2
  <2>5. TakenIn(l, m, Sends) =< MonthlyLimit - EmergencyReserve
    <3>1. CASE ClassOf[c] \in Sends /\ m = Month(d)
      <4>1. Usable(ClassOf[c]) \in Int /\ Usable(ClassOf[c]) =< MonthlyLimit - EmergencyReserve
            BY <3>1, CreditsTyped DEF Usable, Sends
      <4> QED
          BY <1>13, <2>1, <2>3, <3>1, <4>1, CreditsTyped
    <3>2. CASE ~(ClassOf[c] \in Sends /\ m = Month(d))
          BY <1>12, <2>2, <2>3, <3>2, CreditsTyped
    <3> QED
        BY <3>1, <3>2
  <2> QED
      BY <2>4, <2>5
<1> QED
    BY <1>11, <1>14

\* Calls k become l, and books u, v become t, z, as a call settles its rows.
SettledIn(k, l, c, d, a, rows, u, v, t, z) ==
    /\ k \in [Calls -> CallRecord] /\ k[c].status = "reserved" /\ l = FinalizedAt(k, c, d, a)
    /\ rows \subseteq BudgetRows(ClassOf[c], d)
    /\ \A r \in RowsIn(k, c) : r \in rows <=> r \in BudgetRows(ClassOf[c], d)
    /\ u \in [AllRows -> Nat] /\ v \in [AllRows -> Int]
    /\ t \in [AllRows -> Nat] /\ z \in [AllRows -> Int]
    /\ \A r \in AllRows : z[r] = IF r \in rows THEN v[r] - Cost[c] ELSE v[r]
    /\ \A r \in AllRows : t[r] = IF r \in rows THEN u[r] + a ELSE u[r]

\* A call settles what it reserved, in a row that is of its day still.
LEMMA FinalizeHeld ==
    ASSUME NEW k, NEW l, NEW c \in Calls, NEW d \in Days, NEW a \in Actuals, NEW rows,
           NEW u, NEW v, NEW t, NEW z, SettledIn(k, l, c, d, a, rows, u, v, t, z),
           \A r \in AllRows : RowHeld(k, u, v, r), \A m \in Months : MonthHeld(k, m)
    PROVE  /\ \A r \in AllRows : RowHeld(l, t, z, r)
           /\ \A m \in Months : MonthHeld(l, m)
<1>0. /\ k \in [Calls -> CallRecord] /\ k[c].status = "reserved" /\ l = FinalizedAt(k, c, d, a)
      /\ rows \subseteq BudgetRows(ClassOf[c], d)
      /\ \A r \in RowsIn(k, c) : r \in rows <=> r \in BudgetRows(ClassOf[c], d)
      /\ u \in [AllRows -> Nat] /\ v \in [AllRows -> Int]
      /\ t \in [AllRows -> Nat] /\ z \in [AllRows -> Int]
      /\ \A r \in AllRows : z[r] = IF r \in rows THEN v[r] - Cost[c] ELSE v[r]
      /\ \A r \in AllRows : t[r] = IF r \in rows THEN u[r] + a ELSE u[r]
      BY DEF SettledIn
<1> DEFINE Mine == RowsIn(k, c)
<1>1. /\ l \in [Calls -> CallRecord] /\ l[c].status = "finalized" /\ l[c].made = k[c].made
      /\ l[c].settled = d /\ l[c].actual = a
      /\ \A x \in Calls \ {c} : l[x] = k[x]
      BY <1>0, CallFinalized
<1>2. \A x \in Calls : RowsIn(l, x) = RowsIn(k, x)
      BY <1>1 DEF RowsIn
<1>3. ASSUME NEW r PROVE /\ OpenIn(k, r) \ {c} = OpenIn(l, r)
                         /\ c \in OpenIn(k, r) <=> r \in Mine
                         /\ OpenIn(k, r) \subseteq Calls /\ OpenIn(l, r) \subseteq Calls
      BY <1>0, <1>1, <1>2 DEF OpenIn
<1>4. ASSUME NEW r PROVE /\ DoneIn(l, r) \ {c} = DoneIn(k, r)
                         /\ c \in DoneIn(l, r) <=> r \in Mine
                         /\ DoneIn(l, r) \subseteq Calls /\ DoneIn(k, r) \subseteq Calls
      BY <1>0, <1>1, <1>2 DEF DoneIn
<1>5. ASSUME NEW r, ~CrossedIn(l, r)
      PROVE  ~CrossedIn(k, r) /\ (r \in Mine <=> r \in BudgetRows(ClassOf[c], d))
  <2>1. r \in RowsIn(l, c) <=> r \in BudgetRows(ClassOf[c], d)
        BY <1>1, <1>5 DEF CrossedIn
  <2>2. ~CrossedIn(k, r)
        BY <1>0, <1>1, <1>2, <1>5 DEF CrossedIn
  <2> QED
      BY <1>2, <2>1, <2>2
<1>6. a \in Nat /\ Cost[c] \in Nat /\ Cost[c] > 0
      BY CreditsTyped
<1>7. ASSUME NEW r, ~OverspentIn(l, r) PROVE ~OverspentIn(k, r) /\ (r \in Mine => a =< Cost[c])
  <2>1. ~OverspentIn(k, r)
        BY <1>1, <1>4, <1>7 DEF OverspentIn
  <2>2. r \in Mine => ~(a > Cost[c])
        BY <1>1, <1>4, <1>7 DEF OverspentIn
  <2> QED
      BY <1>6, <2>1, <2>2
<1>8. ASSUME NEW r
      PROVE  Count(Cost, OpenIn(k, r)) = Count(Cost, OpenIn(l, r)) + (IF r \in Mine THEN Cost[c] ELSE 0)
  <2>1. Count(Cost, OpenIn(l, r)) \in Nat
        BY <1>0, <1>1, CountsTyped DEF OpenIn
  <2>2. CASE r \notin Mine
    <3>1. c \notin OpenIn(k, r) /\ OpenIn(k, r) \ {c} = OpenIn(l, r)
          BY <1>3, <2>2
    <3>2. OpenIn(k, r) = OpenIn(l, r)
          BY <3>1
    <3> QED
        BY <2>1, <2>2, <3>2
  <2>3. CASE r \in Mine
    <3>1. c \in OpenIn(k, r) /\ IsFiniteSet(OpenIn(k, r)) /\ \A x \in OpenIn(k, r) : Cost[x] \in Int
          BY <1>3, <2>3, CreditsTyped
    <3>2. Count(Cost, OpenIn(k, r)) = Count(Cost, OpenIn(k, r) \ {c}) + (IF Cost[c] > 0 THEN Cost[c] ELSE 0)
          BY <3>1, CountWithout
    <3> QED
        BY <1>3, <1>6, <2>3, <3>2
  <2> QED
      BY <2>2, <2>3
<1>9. ASSUME NEW r
      PROVE  Count(SpentIn(l), DoneIn(l, r)) = Count(SpentIn(k), DoneIn(k, r)) + (IF r \in Mine THEN a ELSE 0)
  <2>1. Count(SpentIn(l), DoneIn(k, r)) = Count(SpentIn(k), DoneIn(k, r))
    <3>1. \A x \in DoneIn(k, r) : x \in Calls \ {c}
          BY <1>4
    <3>2. \A x \in DoneIn(k, r) : SpentIn(l)[x] = SpentIn(k)[x]
          BY <1>1, <3>1 DEF SpentIn
    <3> QED
        BY <3>2, CountSame
  <2>2. Count(SpentIn(k), DoneIn(k, r)) \in Nat
        BY <1>0, CountsTyped DEF DoneIn
  <2>3. CASE r \notin Mine
    <3>1. c \notin DoneIn(l, r) /\ DoneIn(l, r) \ {c} = DoneIn(k, r)
          BY <1>4, <2>3
    <3>2. DoneIn(l, r) = DoneIn(k, r)
          BY <3>1
    <3> QED
        BY <2>1, <2>2, <2>3, <3>2
  <2>4. CASE r \in Mine
    <3>1. SpentIn(l)[c] = a
          BY <1>1 DEF SpentIn
    <3>2. \A x \in Calls : SpentIn(l)[x] \in Int
          BY <1>1, CreditsTyped DEF SpentIn, CallRecord
    <3>3. c \in DoneIn(l, r) /\ IsFiniteSet(DoneIn(l, r)) /\ \A x \in DoneIn(l, r) : SpentIn(l)[x] \in Int
          BY <1>4, <2>4, <3>2, CreditsTyped
    <3>4. Count(SpentIn(l), DoneIn(l, r)) =
              Count(SpentIn(l), DoneIn(l, r) \ {c}) + (IF SpentIn(l)[c] > 0 THEN SpentIn(l)[c] ELSE 0)
          BY <3>3, CountWithout
    <3>5. DoneIn(l, r) \ {c} = DoneIn(k, r)
          BY <1>4
    <3>6. (IF SpentIn(l)[c] > 0 THEN SpentIn(l)[c] ELSE 0) = a
          BY <1>6, <3>1
    <3> QED
        BY <2>1, <2>4, <3>4, <3>5, <3>6
  <2> QED
      BY <2>3, <2>4
<1>10. ASSUME NEW r \in AllRows PROVE RowHeld(l, t, z, r)
  <2>1. SUFFICES ASSUME ~CrossedIn(l, r)
                 PROVE  /\ z[r] = Count(Cost, OpenIn(l, r))
                        /\ t[r] = Count(SpentIn(l), DoneIn(l, r))
                        /\ ~OverspentIn(l, r) => t[r] + z[r] =< Whole(r)
        BY DEF RowHeld
  <2>2. /\ v[r] = Count(Cost, OpenIn(k, r)) /\ u[r] = Count(SpentIn(k), DoneIn(k, r))
        /\ ~OverspentIn(k, r) => u[r] + v[r] =< Whole(r)
        BY <1>5, <2>1 DEF RowHeld
  <2>3. u[r] \in Int /\ v[r] \in Int /\ z[r] \in Int /\ t[r] \in Int
        BY <1>0
  <2>4. r \in rows <=> r \in Mine
        BY <1>0, <1>5, <2>1
  <2>5. /\ z[r] = IF r \in Mine THEN v[r] - Cost[c] ELSE v[r]
        /\ t[r] = IF r \in Mine THEN u[r] + a ELSE u[r]
        BY <1>0, <2>4
  <2>6. Count(Cost, OpenIn(l, r)) \in Nat
        BY <1>0, <1>1, CountsTyped DEF OpenIn
  <2>7. z[r] = Count(Cost, OpenIn(l, r))
        BY <1>6, <1>8, <2>2, <2>3, <2>5, <2>6
  <2>8. t[r] = Count(SpentIn(l), DoneIn(l, r))
        BY <1>6, <1>9, <2>2, <2>3, <2>5
  <2>9. Whole(r) \in Int
        BY CreditsTyped DEF Whole
  <2>10. ~OverspentIn(l, r) => t[r] + z[r] =< Whole(r)
         BY <1>6, <1>7, <2>2, <2>3, <2>5, <2>9
  <2> QED
      BY <2>7, <2>8, <2>10
<1>11. \A x \in Calls : HeldIn(l, x) \in Int /\ HeldIn(k, x) \in Int /\ HeldIn(l, x) =< HeldIn(k, x)
  <2>1. SUFFICES ASSUME NEW x \in Calls
                 PROVE  HeldIn(l, x) \in Int /\ HeldIn(k, x) \in Int /\ HeldIn(l, x) =< HeldIn(k, x)
        OBVIOUS
  <2>2. k[x].actual \in Int /\ Cost[x] \in Int
        BY <1>0, CreditsTyped DEF CallRecord
  <2>3. CASE x = c
        BY <1>0, <1>1, <1>6, <2>2, <2>3 DEF HeldIn
  <2>4. CASE x # c
    <3>1. l[x] = k[x]
          BY <1>1, <2>4
    <3> QED
        BY <2>2, <3>1 DEF HeldIn
  <2> QED
      BY <2>3, <2>4
<1>12. ASSUME NEW m, NEW classes PROVE TakenIn(l, m, classes) =< TakenIn(k, m, classes)
  <2>1. \A x \in HoldersIn(l, m, classes) : x \in Calls /\ Month(k[x].made) = m
        BY <1>1 DEF HoldersIn
  <2> QED
      BY <1>0, <1>1, <1>11, <2>1, TakenFalls
<1>13. ASSUME NEW m \in Months PROVE MonthHeld(l, m)
  <2>1. /\ TakenIn(k, m, Reads) \in Nat /\ TakenIn(l, m, Reads) \in Nat
        /\ TakenIn(k, m, Sends) \in Nat /\ TakenIn(l, m, Sends) \in Nat
        BY <1>0, <1>1, CountsTyped DEF TakenIn, HoldersIn
  <2>2. CrossedIn(k, <<"month", m>>) => CrossedIn(l, <<"month", m>>)
        BY <1>5
  <2> QED
      BY <1>12, <2>1, <2>2, CreditsTyped DEF MonthHeld
<1> QED
    BY <1>10, <1>13

LEMMA CreditsStart == CreditsInit => CreditsInv
<1> SUFFICES ASSUME CreditsInit PROVE CreditsInv
    OBVIOUS
<1>1. call = [c \in Calls |-> NoCall] /\ used = [r \in AllRows |-> 0]
      /\ reserved = [r \in AllRows |-> 0] /\ present = {} /\ day = 0
      BY DEF CreditsInit
<1>2. day \in Days /\ NoCall \in CallRecord
  <2>1. 0 \in Days
        BY CreditsAssumption DEF Days
  <2> QED
      BY <1>1, <2>1 DEF NoCall, CallRecord
<1>3. \A c \in Calls : call[c].status = "idle"
      BY <1>1 DEF NoCall
<1>4. \A r : OpenIn(call, r) = {} /\ DoneIn(call, r) = {}
      BY <1>3 DEF OpenIn, DoneIn
<1>5. \A r \in AllRows : RowHeld(call, used, reserved, r)
  <2>1. SUFFICES ASSUME NEW r \in AllRows PROVE RowHeld(call, used, reserved, r)
        OBVIOUS
  <2>2. Count(Cost, OpenIn(call, r)) = 0 /\ Count(SpentIn(call), DoneIn(call, r)) = 0
        BY <1>4, CountEmpty
  <2>3. 0 + 0 =< Whole(r)
        BY CreditsTyped DEF Whole
  <2> QED
      BY <1>1, <2>2, <2>3 DEF RowHeld
<1>6. \A m \in Months : MonthHeld(call, m)
  <2>1. SUFFICES ASSUME NEW m \in Months PROVE MonthHeld(call, m)
        OBVIOUS
  <2>2. \A classes : TakenIn(call, m, classes) =< 0
    <3>1. call \in [Calls -> CallRecord]
          BY <1>1, <1>2
    <3>2. ASSUME NEW classes PROVE TakenIn(call, m, classes) =< 0
      <4>1. TakenIn(call, m, classes) =< Count(Cost, {}) + Count(SpentIn(call), {})
            BY <1>4, <3>1, TakenInRow
      <4>2. Count(Cost, {}) = 0 /\ Count(SpentIn(call), {}) = 0
            BY CountEmpty
      <4> QED
          BY <4>1, <4>2
    <3> QED
        BY <3>2
  <2>3. \A classes : TakenIn(call, m, classes) \in Nat
        BY <1>1, <1>2, CountsTyped DEF TakenIn, HoldersIn
  <2> QED
      BY <2>2, <2>3, CreditsTyped DEF MonthHeld
<1> QED
    BY <1>1, <1>2, <1>3, <1>5, <1>6 DEF CreditsInv

\* The steps after which the books say what they said.
LEMMA CreditsKept ==
    ASSUME CreditsInv, UNCHANGED budgets, day' \in Days,
           call' \in [Calls -> CallRecord], \A c \in Calls : Alike(call[c], call'[c])
    PROVE  CreditsInv'
<1>1. /\ \A r \in AllRows : RowHeld(call', used, reserved, r)
      /\ \A m \in Months : MonthHeld(call', m)
      BY AlikeHeld DEF CreditsInv
<1>2. used' = used /\ reserved' = reserved /\ present' = present
      BY DEF budgets
<1>3. \A c \in Calls : call'[c].status \in {"reserved", "lost", "finalized"} => RowsIn(call', c) \subseteq present'
  <2>1. SUFFICES ASSUME NEW c \in Calls, call'[c].status \in {"reserved", "lost", "finalized"}
                 PROVE  RowsIn(call', c) \subseteq present
        BY <1>2
  <2>2. Alike(call[c], call'[c])
        OBVIOUS
  <2>3. call[c].status \in {"reserved", "lost", "finalized"} /\ RowsIn(call', c) = RowsIn(call, c)
        BY <2>1, <2>2 DEF Alike, RowsIn
  <2> QED
      BY <2>3 DEF CreditsInv
<1> QED
    BY <1>1, <1>2, <1>3 DEF CreditsInv

LEMMA CreditsStep == CreditsInv /\ [CreditsNext]_creditVars => CreditsInv'
<1> SUFFICES ASSUME CreditsInv, [CreditsNext]_creditVars PROVE CreditsInv'
    OBVIOUS
<1>1. /\ call \in [Calls -> CallRecord] /\ used \in [AllRows -> Nat] /\ reserved \in [AllRows -> Int]
      /\ present \subseteq AllRows /\ day \in Days
      /\ \A c \in Calls : call[c].status \in {"reserved", "lost", "finalized"} => RowsIn(call, c) \subseteq present
      /\ \A r \in AllRows : RowHeld(call, used, reserved, r)
      /\ \A m \in Months : MonthHeld(call, m)
      BY DEF CreditsInv
<1>2. ASSUME NEW c \in Calls, NEW s \in {"blocked", "checked", "lost"},
             call' = [call EXCEPT ![c].status = s], UNCHANGED <<budgets, day>>,
             s = "lost" <=> call[c].status = "reserved", call[c].status \in {"idle", "checked", "reserved"}
      PROVE  CreditsInv'
  <2>1. call' \in [Calls -> CallRecord]
        BY <1>1, <1>2 DEF CallRecord
  <2>2. \A x \in Calls : Alike(call[x], call'[x])
    <3>1. SUFFICES ASSUME NEW x \in Calls PROVE Alike(call[x], call'[x])
          OBVIOUS
    <3>2. CASE x = c
          BY <1>1, <1>2, <3>2 DEF Alike, CallRecord
    <3>3. CASE x # c
      <4>1. call'[x] = call[x]
            BY <1>1, <1>2, <3>3
      <4> QED
          BY <4>1 DEF Alike
    <3> QED
        BY <3>2, <3>3
  <2>3. UNCHANGED budgets /\ day' \in Days
        BY <1>1, <1>2
  <2> QED
      BY <2>1, <2>2, <2>3, CreditsKept
<1>3. ASSUME UNCHANGED <<call, budgets>>, day' \in Days PROVE CreditsInv'
  <2>1. \A x \in Calls : Alike(call[x], call'[x])
        BY <1>3 DEF Alike
  <2> QED
      BY <1>1, <1>3, <2>1, CreditsKept
<1>4. CASE UNCHANGED creditVars
      BY <1>1, <1>3, <1>4 DEF creditVars
<1>5. CASE Open \/ Reset
      BY <1>1, <1>3, <1>5 DEF Open, Reset
<1>6. CASE NextDay
  <2>1. day' \in Days
        BY <1>1, <1>6, CreditsAssumption DEF NextDay, Days
  <2> QED
      BY <1>3, <1>6, <2>1 DEF NextDay
<1>7. ASSUME NEW c \in Calls, Check(c) PROVE CreditsInv'
      BY <1>2, <1>7 DEF Check
<1>8. ASSUME NEW c \in Calls, Stop(c) PROVE CreditsInv'
  <2>1. CASE call[c].status = "reserved"
    <3>1. call' = [call EXCEPT ![c].status = "lost"]
          BY <1>8, <2>1 DEF Stop
    <3> QED
        BY <1>2, <1>8, <2>1, <3>1 DEF Stop
  <2>2. CASE call[c].status = "checked"
    <3>1. call' = [call EXCEPT ![c].status = "blocked"]
          BY <1>8, <2>2 DEF Stop
    <3> QED
        BY <1>2, <1>8, <2>2, <3>1 DEF Stop
  <2> QED
      BY <1>8, <2>1, <2>2 DEF Stop
<1>9. ASSUME NEW c \in Calls, Reserve(c) PROVE CreditsInv'
  <2>1. CASE ~Funded(c)
        BY <1>2, <1>9, <2>1 DEF Reserve, budgets
  <2>2. CASE Funded(c)
    <3> DEFINE rows == BudgetRows(ClassOf[c], day)
    <3>1. /\ call[c].status = "checked" /\ call' = ReservedAt(call, c, day)
          /\ present' = present \cup rows /\ used' = used /\ day' = day
          /\ reserved' = [r \in AllRows |-> IF r \in rows THEN reserved[r] + Cost[c] ELSE reserved[r]]
          BY <1>9, <2>2 DEF Reserve, ReservedAt
    <3>2. rows \subseteq AllRows
          BY <1>1, RowsTyped
    <3>3. reserved' \in [AllRows -> Int]
          BY <1>1, <3>1, CreditsTyped
    <3>4. \A r \in AllRows : reserved'[r] = IF r \in rows THEN reserved[r] + Cost[c] ELSE reserved[r]
          BY <3>1
    <3>5. \A r \in rows : used[r] + reserved[r] + Cost[c] =< Limit(r, ClassOf[c])
          BY <2>2 DEF Funded
    <3>6. /\ call' \in [Calls -> CallRecord] /\ call'[c].made = day
          /\ \A x \in Calls \ {c} : call'[x] = call[x]
          BY <1>1, <3>1, CallReserved
    <3>7. /\ \A r \in AllRows : RowHeld(call', used, reserved', r)
          /\ \A m \in Months : MonthHeld(call', m)
      <4> HIDE DEF rows
      <4>1. rows = BudgetRows(ClassOf[c], day)
            BY DEF rows
      <4> QED
          BY <1>1, <3>1, <3>3, <3>4, <3>5, <4>1, ReserveHeld
    <3>8. \A x \in Calls : call'[x].status \in {"reserved", "lost", "finalized"} => RowsIn(call', x) \subseteq present'
      <4>1. RowsIn(call', c) = rows
            BY <3>6 DEF RowsIn
      <4>2. \A x \in Calls \ {c} : RowsIn(call', x) = RowsIn(call, x) /\ call'[x] = call[x]
            BY <3>6 DEF RowsIn
      <4> QED
          BY <1>1, <3>1, <4>1, <4>2
    <3> QED
        BY <1>1, <3>1, <3>2, <3>3, <3>6, <3>7, <3>8 DEF CreditsInv
  <2> QED
      BY <2>1, <2>2
<1>10. ASSUME NEW c \in Calls, NEW a \in Actuals, Finalize(c, a) PROVE CreditsInv'
  <2> DEFINE rows == BudgetRows(ClassOf[c], day) \cap present
  <2>1. /\ call[c].status = "reserved" /\ call' = FinalizedAt(call, c, day, a)
        /\ present' = present /\ day' = day
        /\ reserved' = [r \in AllRows |-> IF r \in rows THEN reserved[r] - Cost[c] ELSE reserved[r]]
        /\ used' = [r \in AllRows |-> IF r \in rows THEN used[r] + a ELSE used[r]]
        BY <1>10 DEF Finalize, FinalizedAt, SettledRows
  <2>2. reserved' \in [AllRows -> Int] /\ used' \in [AllRows -> Nat]
        BY <1>1, <2>1, CreditsTyped
  <2>3. /\ \A r \in AllRows : reserved'[r] = IF r \in rows THEN reserved[r] - Cost[c] ELSE reserved[r]
        /\ \A r \in AllRows : used'[r] = IF r \in rows THEN used[r] + a ELSE used[r]
        BY <2>1
  <2>4. RowsIn(call, c) \subseteq present
        BY <1>1, <2>1
  <2>5. /\ call' \in [Calls -> CallRecord] /\ call'[c].made = call[c].made
        /\ \A x \in Calls \ {c} : call'[x] = call[x]
        BY <1>1, <2>1, CallFinalized
  <2>6. /\ \A r \in AllRows : RowHeld(call', used', reserved', r)
        /\ \A m \in Months : MonthHeld(call', m)
    <3>1. /\ \A r \in RowsIn(call, c) : r \in rows <=> r \in BudgetRows(ClassOf[c], day)
          /\ rows \subseteq BudgetRows(ClassOf[c], day)
          BY <2>4
    <3> HIDE DEF rows
    <3>2. SettledIn(call, call', c, day, a, rows, used, reserved, used', reserved')
          BY <1>1, <2>1, <2>2, <2>3, <3>1 DEF SettledIn
    <3> QED
        BY <1>1, <3>2, FinalizeHeld
  <2>7. \A x \in Calls : call'[x].status \in {"reserved", "lost", "finalized"} => RowsIn(call', x) \subseteq present'
    <3>1. RowsIn(call', c) = RowsIn(call, c)
          BY <2>5 DEF RowsIn
    <3>2. \A x \in Calls \ {c} : RowsIn(call', x) = RowsIn(call, x) /\ call'[x] = call[x]
          BY <2>5 DEF RowsIn
    <3> QED
        BY <1>1, <2>1, <2>4, <3>1, <3>2
  <2> QED
      BY <1>1, <2>1, <2>2, <2>5, <2>6, <2>7 DEF CreditsInv
<1> QED
    BY <1>4, <1>5, <1>6, <1>7, <1>8, <1>9, <1>10 DEF CreditsNext

LEMMA CreditsHold == CreditsInv => BudgetHeld
<1> SUFFICES ASSUME CreditsInv PROVE BudgetHeld
    OBVIOUS
<1>1. \A c \in Calls : RowsOf(c) = RowsIn(call, c)
      BY DEF RowsOf, RowsIn
<1>2. \A r : Crossed(r) <=> CrossedIn(call, r)
      BY <1>1 DEF Crossed, CrossedIn
<1>3. \A r : Overspent(r) <=> OverspentIn(call, r)
      BY <1>1 DEF Overspent, OverspentIn, DoneIn
<1>4. \A c \in Calls : Held(c) = HeldIn(call, c)
      BY DEF Held, HeldIn
<1>5. \A m, classes : Taken(m, classes) = TakenIn(call, m, classes)
  <2>1. [c \in Calls |-> Held(c)] = [c \in Calls |-> HeldIn(call, c)]
        BY <1>4
  <2> QED
      BY <2>1 DEF Taken, TakenIn, HoldersIn
<1>6. ASSUME NEW r \in present, ~Crossed(r)
      PROVE  LET open == {c \in Calls : call[c].status \in {"reserved", "lost"} /\ r \in RowsOf(c)}
             IN  /\ reserved[r] = Count(Cost, open)
                 /\ ~Overspent(r) =>
                       used[r] + reserved[r] =< IF r[1] = "day" THEN DailyReads ELSE MonthlyLimit
  <2>1. RowHeld(call, used, reserved, r)
        BY DEF CreditsInv
  <2>2. OpenIn(call, r) = {c \in Calls : call[c].status \in {"reserved", "lost"} /\ r \in RowsOf(c)}
        BY <1>1 DEF OpenIn
  <2> QED
      BY <1>2, <1>3, <1>6, <2>1, <2>2 DEF RowHeld, Whole
<1>7. ASSUME NEW m \in {Month(d) : d \in Days}, ~Crossed(<<"month", m>>)
      PROVE  /\ Taken(m, {"read", "control"}) =< MonthlyLimit - SendReserve - EmergencyReserve
             /\ Taken(m, {"read", "control", "send"}) =< MonthlyLimit - EmergencyReserve
  <2>1. MonthHeld(call, m)
        BY DEF CreditsInv, Months
  <2> QED
      BY <1>2, <1>5, <1>7, <2>1 DEF MonthHeld, Reads, Sends
<1> QED
    BY <1>6, <1>7 DEF BudgetHeld

\* Whoever reserves at once, no day or month is overdrawn and what is set aside for sends
\* and emergencies is left to them.
THEOREM BudgetIsHeld == CreditsSpec => []BudgetHeld
<1>1. CreditsSpec => []CreditsInv
      BY CreditsStart, CreditsStep, PTL DEF CreditsSpec
<1> QED
    BY <1>1, CreditsHold, PTL

-----------------------------------------------------------------------------
\* Webhooks.

RevenueRecord == [known : BOOLEAN, amount : Int, fan : Fans \cup {NoFan},
                  ltv : BOOLEAN, tip : BOOLEAN, purchase : BOOLEAN]
Paying == {e \in Events : e.kind \in Paid}

\* What the references R make of a fan's totals T.
AmountsIn(R) == [r \in Refs |-> R[r].amount]
MineIn(R, f) == {r \in Refs : R[r].fan = f}
TippedIn(R, f) == {r \in Refs : R[r].fan = f /\ R[r].tip}
BoughtIn(R, f) == {r \in Refs : R[r].fan = f /\ R[r].purchase}
TotalsHeld(R, t, f) ==
    /\ t.ltv = Total(AmountsIn(R), MineIn(R, f))
    /\ t.tips = Total(AmountsIn(R), TippedIn(R, f))
    /\ t.purchases = Cardinality(BoughtIn(R, f))

\* The shares a reference has had taken.
ShareTaken(R, e) ==
    /\ e.fan # NoFan => R[e.ref].ltv
    /\ e.kind = "tip" => R[e.ref].tip
    /\ e.kind = "purchase" => R[e.ref].purchase
RefsHeld(R) ==
    \A r \in Refs : /\ R[r].ltv <=> R[r].fan # NoFan
                    /\ R[r].tip \/ R[r].purchase => R[r].ltv
                    /\ R[r].ltv => R[r].known

RevenueInv ==
    /\ revenue \in [Refs -> RevenueRecord]
    /\ totals \in [Fans -> [ltv : Int, tips : Int, purchases : Int]]
    /\ ledger \in [Events -> {"none", "accepted", "dead"}]
    /\ RefsHeld(revenue)
    /\ \A f \in Fans : TotalsHeld(revenue, totals[f], f)
    /\ \A e \in Paying : ledger[e] = "accepted" => ShareTaken(revenue, e)

LEMMA RevenueStart == WebhooksInit => RevenueInv
<1> SUFFICES ASSUME WebhooksInit PROVE RevenueInv
    OBVIOUS
<1>1. /\ revenue = [r \in Refs |-> Unpaid] /\ ledger = [e \in Events |-> "none"]
      /\ totals = [f \in Fans |-> [ltv |-> 0, tips |-> 0, purchases |-> 0]]
      BY DEF WebhooksInit
<1>2. \A r \in Refs : ~revenue[r].ltv /\ ~revenue[r].tip /\ ~revenue[r].purchase /\ revenue[r].fan = NoFan
      BY <1>1 DEF Unpaid
<1>3. \A f \in Fans : MineIn(revenue, f) = {} /\ TippedIn(revenue, f) = {} /\ BoughtIn(revenue, f) = {}
      BY <1>2, WebhooksAssumption DEF MineIn, TippedIn, BoughtIn
<1>4. \A g : Total(g, {}) = 0
  <2>1. SUFFICES ASSUME NEW g PROVE Total(g, {}) = 0
        OBVIOUS
  <2>2. Count(g, {}) = 0 /\ Count([s \in {} |-> -g[s]], {}) = 0
        BY CountEmpty
  <2> QED
      BY <2>2 DEF Total
<1>5. \A f \in Fans : TotalsHeld(revenue, totals[f], f)
  <2>1. SUFFICES ASSUME NEW f \in Fans PROVE TotalsHeld(revenue, totals[f], f)
        OBVIOUS
  <2>2. totals[f].ltv = 0 /\ totals[f].tips = 0 /\ totals[f].purchases = 0
        BY <1>1
  <2>3. Cardinality({}) = 0
        BY FS_EmptySet
  <2> QED
      BY <1>3, <1>4, <2>2, <2>3 DEF TotalsHeld
<1>6. revenue \in [Refs -> RevenueRecord] /\ totals \in [Fans -> [ltv : Int, tips : Int, purchases : Int]]
  <2>1. Unpaid \in RevenueRecord
        BY DEF Unpaid, RevenueRecord
  <2> QED
      BY <1>1, <2>1
<1>7. RefsHeld(revenue)
      BY <1>2 DEF RefsHeld
<1>8. ledger \in [Events -> {"none", "accepted", "dead"}] /\ \A e \in Paying : ledger[e] # "accepted"
      BY <1>1 DEF Paying
<1> QED
    BY <1>5, <1>6, <1>7, <1>8 DEF RevenueInv

\* An event that is not of a payment, or is refused, leaves the sums as they are.
LEMMA MoneyKept ==
    ASSUME RevenueInv, UNCHANGED money, ledger' \in [Events -> {"none", "accepted", "dead"}],
           \A e \in Paying : ledger'[e] = "accepted" => ledger[e] = "accepted"
    PROVE  RevenueInv'
<1>1. revenue' = revenue /\ totals' = totals
      BY DEF money
<1>2. /\ revenue' \in [Refs -> RevenueRecord] /\ totals' \in [Fans -> [ltv : Int, tips : Int, purchases : Int]]
      /\ RefsHeld(revenue') /\ \A f \in Fans : TotalsHeld(revenue', totals'[f], f)
      BY <1>1 DEF RevenueInv
<1>3. \A e \in Paying : ledger'[e] = "accepted" => ShareTaken(revenue', e)
      BY <1>1 DEF RevenueInv
<1> QED
    BY <1>2, <1>3 DEF RevenueInv

\* What one event of a payment does to the references, R becoming N.
PaysIn(R, N, e, new) ==
    /\ e \in Paying /\ Parsed(e)
    /\ R \in [Refs -> RevenueRecord] /\ RefsHeld(R)
    /\ R[e.ref].known => R[e.ref].amount = e.amount
    /\ new \in RevenueRecord
    /\ new.known /\ new.amount = e.amount
    /\ new.fan = IF R[e.ref].fan # NoFan THEN R[e.ref].fan ELSE e.fan
    /\ new.ltv <=> R[e.ref].ltv \/ new.fan # NoFan
    /\ new.tip <=> R[e.ref].tip \/ (new.fan # NoFan /\ e.kind = "tip")
    /\ new.purchase <=> R[e.ref].purchase \/ (new.fan # NoFan /\ e.kind = "purchase")
    /\ N = [R EXCEPT ![e.ref] = new]

\* The references still say what they are of, and no share once taken is given back.
LEMMA PaidRefs ==
    ASSUME NEW R, NEW N, NEW e, NEW new, PaysIn(R, N, e, new)
    PROVE  /\ e.ref \in Refs /\ e.amount \in Int /\ N \in [Refs -> RevenueRecord] /\ N[e.ref] = new
           /\ \A r \in Refs \ {e.ref} : N[r] = R[r]
           /\ RefsHeld(N)
           /\ \A x \in Paying : ShareTaken(R, x) => ShareTaken(N, x)
           /\ ShareTaken(N, e)
<1>1. /\ e \in Paying /\ Parsed(e)
      /\ R \in [Refs -> RevenueRecord] /\ RefsHeld(R)
      /\ new \in RevenueRecord
      /\ N = [R EXCEPT ![e.ref] = new]
      BY DEF PaysIn
<1>2. e.ref \in Refs /\ e.amount \in Int
      BY <1>1, WebhooksAssumption DEF Paying
<1>3. N \in [Refs -> RevenueRecord] /\ N[e.ref] = new /\ \A r \in Refs \ {e.ref} : N[r] = R[r]
      BY <1>1, <1>2
<1>4. /\ new.ltv <=> new.fan # NoFan
      /\ new.tip \/ new.purchase => new.ltv
      /\ new.known
      /\ R[e.ref].ltv => new.ltv
      /\ R[e.ref].tip => new.tip
      /\ R[e.ref].purchase => new.purchase
      BY <1>1, <1>2 DEF PaysIn, RefsHeld
<1>5. RefsHeld(N)
  <2>1. SUFFICES ASSUME NEW r \in Refs
                 PROVE  /\ N[r].ltv <=> N[r].fan # NoFan
                        /\ N[r].tip \/ N[r].purchase => N[r].ltv
                        /\ N[r].ltv => N[r].known
        BY DEF RefsHeld
  <2>2. CASE r = e.ref
        BY <1>3, <1>4, <2>2
  <2>3. CASE r # e.ref
    <3>1. N[r] = R[r]
          BY <1>3, <2>3
    <3> QED
        BY <1>1, <3>1 DEF RefsHeld
  <2> QED
      BY <2>2, <2>3
<1>6. ASSUME NEW x \in Paying, ShareTaken(R, x) PROVE ShareTaken(N, x)
  <2>1. x.ref \in Refs
        BY WebhooksAssumption DEF Paying
  <2>2. CASE x.ref = e.ref
        BY <1>3, <1>4, <1>6, <2>2 DEF ShareTaken
  <2>3. CASE x.ref # e.ref
    <3>1. N[x.ref] = R[x.ref]
          BY <1>3, <2>1, <2>3
    <3> QED
        BY <1>6, <3>1 DEF ShareTaken
  <2> QED
      BY <2>2, <2>3
<1>7. ShareTaken(N, e)
  <2>1. e.fan # NoFan => new.fan # NoFan
        BY DEF PaysIn
  <2>2. e.kind \in {"tip", "purchase"} => e.fan # NoFan
        BY <1>1 DEF Parsed
  <2>3. /\ new.fan # NoFan => new.ltv
        /\ new.fan # NoFan /\ e.kind = "tip" => new.tip
        /\ new.fan # NoFan /\ e.kind = "purchase" => new.purchase
        BY DEF PaysIn
  <2> QED
      BY <1>3, <2>1, <2>2, <2>3 DEF ShareTaken
<1> QED
    BY <1>2, <1>3, <1>5, <1>6, <1>7

\* The totals of the fan the payment is of gain its share, the others nothing.
LEMMA PaidTotals ==
    ASSUME NEW R, NEW N, NEW e, NEW new, PaysIn(R, N, e, new), NEW f \in Fans,
           NEW t \in [ltv : Int, tips : Int, purchases : Int], TotalsHeld(R, t, f),
           NEW u, u.ltv = t.ltv + (IF new.fan = f /\ new.ltv /\ ~R[e.ref].ltv THEN e.amount ELSE 0),
           u.tips = t.tips + (IF new.fan = f /\ new.tip /\ ~R[e.ref].tip THEN e.amount ELSE 0),
           u.purchases = t.purchases + (IF new.fan = f /\ new.purchase /\ ~R[e.ref].purchase THEN 1 ELSE 0)
    PROVE  TotalsHeld(N, u, f)
<1> DEFINE ref == e.ref
           a == AmountsIn(R)
           b == AmountsIn(N)
<1>1. /\ ref \in Refs /\ e.amount \in Int /\ N \in [Refs -> RevenueRecord] /\ N[ref] = new
      /\ \A r \in Refs \ {ref} : N[r] = R[r]
      BY PaidRefs
<1>2. R \in [Refs -> RevenueRecord] /\ new.amount = e.amount
      BY DEF PaysIn
<1>3. /\ \A r \in Refs : a[r] \in Int /\ b[r] \in Int
      /\ \A r \in Refs \ {ref} : b[r] = a[r]
      /\ a[ref] = R[ref].amount /\ b[ref] = e.amount
      BY <1>1, <1>2 DEF AmountsIn, RevenueRecord
<1>4. f # NoFan
      BY WebhooksAssumption
<1>5. R[ref].fan = f => new.fan = f /\ R[ref].ltv /\ a[ref] = b[ref]
      BY <1>1, <1>3, <1>4 DEF PaysIn, RefsHeld
<1>6. /\ R[ref].ltv => R[ref].fan # NoFan /\ new.fan = R[ref].fan
      /\ R[ref].tip \/ R[ref].purchase => R[ref].ltv
      /\ new.fan = f => new.ltv
      /\ R[ref].tip => new.tip
      /\ R[ref].purchase => new.purchase
      BY <1>1, <1>4 DEF PaysIn, RefsHeld
<1>7. IsFiniteSet(Refs)
      BY WebhooksAssumption
<1>8. Gains(Refs, MineIn(R, f), MineIn(N, f), a, b, ref)
  <2>1. MineIn(N, f) \ {ref} = MineIn(R, f) \ {ref}
        BY <1>1 DEF MineIn
  <2>2. ref \in MineIn(R, f) => ref \in MineIn(N, f) /\ b[ref] = a[ref]
        BY <1>1, <1>5 DEF MineIn
  <2>3. MineIn(R, f) \subseteq Refs /\ MineIn(N, f) \subseteq Refs
        BY DEF MineIn
  <2> HIDE DEF a, b
  <2> QED
      BY <1>1, <1>3, <1>7, <2>1, <2>2, <2>3 DEF Gains
<1>9. Gains(Refs, TippedIn(R, f), TippedIn(N, f), a, b, ref)
  <2>1. TippedIn(N, f) \ {ref} = TippedIn(R, f) \ {ref}
        BY <1>1 DEF TippedIn
  <2>2. ref \in TippedIn(R, f) => ref \in TippedIn(N, f) /\ b[ref] = a[ref]
        BY <1>1, <1>5, <1>6 DEF TippedIn
  <2>3. TippedIn(R, f) \subseteq Refs /\ TippedIn(N, f) \subseteq Refs
        BY DEF TippedIn
  <2> HIDE DEF a, b
  <2> QED
      BY <1>1, <1>3, <1>7, <2>1, <2>2, <2>3 DEF Gains
<1>10. Cardinality(BoughtIn(N, f)) = Cardinality(BoughtIn(R, f))
                                       + (IF ref \in BoughtIn(N, f) /\ ref \notin BoughtIn(R, f) THEN 1 ELSE 0)
  <2>1. BoughtIn(N, f) \ {ref} = BoughtIn(R, f) \ {ref}
        BY <1>1 DEF BoughtIn
  <2>2. ref \in BoughtIn(R, f) => ref \in BoughtIn(N, f)
        BY <1>1, <1>5, <1>6 DEF BoughtIn
  <2>3. BoughtIn(R, f) \subseteq Refs /\ BoughtIn(N, f) \subseteq Refs
        BY DEF BoughtIn
  <2> QED
      BY <1>1, <1>7, <2>1, <2>2, <2>3, SetGains
<1>11. ref \in MineIn(N, f) /\ ref \notin MineIn(R, f) <=> new.fan = f /\ new.ltv /\ ~R[ref].ltv
       BY <1>1, <1>4, <1>5, <1>6 DEF MineIn
<1>12. ref \in TippedIn(N, f) /\ ref \notin TippedIn(R, f) <=> new.fan = f /\ new.tip /\ ~R[ref].tip
       BY <1>1, <1>4, <1>5, <1>6 DEF TippedIn
<1>13. ref \in BoughtIn(N, f) /\ ref \notin BoughtIn(R, f) <=> new.fan = f /\ new.purchase /\ ~R[ref].purchase
       BY <1>1, <1>4, <1>5, <1>6 DEF BoughtIn
<1> HIDE DEF a, b, ref
<1>14. /\ Total(b, MineIn(N, f)) = Total(a, MineIn(R, f))
                + (IF ref \in MineIn(N, f) /\ ref \notin MineIn(R, f) THEN b[ref] ELSE 0)
       /\ Total(b, TippedIn(N, f)) = Total(a, TippedIn(R, f))
                + (IF ref \in TippedIn(N, f) /\ ref \notin TippedIn(R, f) THEN b[ref] ELSE 0)
       BY <1>8, <1>9, TotalGains
<1>15. /\ t.ltv = Total(a, MineIn(R, f)) /\ t.tips = Total(a, TippedIn(R, f))
       /\ t.purchases = Cardinality(BoughtIn(R, f))
       BY DEF TotalsHeld, a
<1>16. u.ltv = Total(b, MineIn(N, f))
       BY <1>3, <1>11, <1>14, <1>15 DEF ref
<1>17. u.tips = Total(b, TippedIn(N, f))
       BY <1>3, <1>12, <1>14, <1>15 DEF ref
<1>18. u.purchases = Cardinality(BoughtIn(N, f))
       BY <1>10, <1>13, <1>15 DEF ref
<1> QED
    BY <1>16, <1>17, <1>18 DEF TotalsHeld, b

LEMMA RevenueStep == RevenueInv /\ [WebhooksNext]_webhookVars => RevenueInv'
<1> SUFFICES ASSUME RevenueInv, [WebhooksNext]_webhookVars PROVE RevenueInv'
    OBVIOUS
<1>1. /\ revenue \in [Refs -> RevenueRecord]
      /\ totals \in [Fans -> [ltv : Int, tips : Int, purchases : Int]]
      /\ ledger \in [Events -> {"none", "accepted", "dead"}]
      /\ RefsHeld(revenue)
      /\ \A f \in Fans : TotalsHeld(revenue, totals[f], f)
      /\ \A e \in Paying : ledger[e] = "accepted" => ShareTaken(revenue, e)
      BY DEF RevenueInv
<1>2. ASSUME UNCHANGED <<ledger, money>> PROVE RevenueInv'
      BY <1>1, <1>2, MoneyKept
<1>3. ASSUME NEW e \in Events, NEW s \in {"none", "accepted", "dead"}, UNCHANGED money,
             ledger' = [ledger EXCEPT ![e] = s], e \in Paying => s # "accepted" \/ ledger[e] = s
      PROVE  RevenueInv'
  <2>1. ledger' \in [Events -> {"none", "accepted", "dead"}]
        BY <1>1, <1>3
  <2>2. \A x \in Paying : ledger'[x] = "accepted" => ledger[x] = "accepted"
        BY <1>1, <1>3 DEF Paying
  <2> QED
      BY <1>3, <2>1, <2>2, MoneyKept
<1>4. ASSUME NEW e \in Events, Project(e), e.kind \notin Paid PROVE RevenueInv'
  <2>1. UNCHANGED money
    <3>1. ~Revenue(e)
          BY <1>4 DEF Revenue
    <3> QED
        BY <1>4, <3>1 DEF Project, Received, Sent, Deleted, Read, Member, Connected, AccountFailed, money
  <2>2. e \notin Paying
        BY <1>4 DEF Paying
  <2>3. ledger' = [ledger EXCEPT ![e] = "accepted"] \/ ledger' = [ledger EXCEPT ![e] = "dead"]
    <3>1. ~Revenue(e)
          BY <1>4 DEF Revenue
    <3> QED
        BY <1>4, <3>1 DEF Project, Received, Sent, Deleted, Read, Member, Connected, AccountFailed
  <2> QED
      BY <1>3, <2>1, <2>2, <2>3
<1>5. ASSUME NEW e \in Events, Project(e), e.kind \in Paid PROVE RevenueInv'
  <2> DEFINE old == revenue[e.ref]
             new == Credited(e)
  <2>1. Revenue(e) /\ Parsed(e) /\ e \in Paying
        BY <1>5 DEF Project, Paying, Paid, Received, Sent, Deleted, Read, Member, Connected, AccountFailed
  <2>2. e.ref \in Refs /\ e.fan \in Fans \cup {NoFan} /\ e.amount \in Int
        BY <1>5, WebhooksAssumption
  <2>3. CASE old.known /\ old.amount # e.amount
    <3>1. ledger' = [ledger EXCEPT ![e] = "dead"] /\ UNCHANGED money
          BY <2>1, <2>3 DEF Revenue
    <3> QED
        BY <1>3, <3>1
  <2>4. CASE ~(old.known /\ old.amount # e.amount)
    <3>1. /\ ledger' = [ledger EXCEPT ![e] = "accepted"]
          /\ revenue' = [revenue EXCEPT ![e.ref] = new]
          /\ totals' = IF new.fan = NoFan THEN totals
                       ELSE [totals EXCEPT ![new.fan] =
                               [ltv |-> @.ltv + Share(new.ltv, old.ltv, e.amount),
                                tips |-> @.tips + Share(new.tip, old.tip, e.amount),
                                purchases |-> @.purchases + Share(new.purchase, old.purchase, 1)]]
          BY <2>1, <2>4 DEF Revenue
    <3>2. old \in RevenueRecord
          BY <1>1, <2>2
    <3>3. old.fan \in Fans \cup {NoFan} /\ old.ltv \in BOOLEAN /\ old.tip \in BOOLEAN /\ old.purchase \in BOOLEAN
          BY <3>2 DEF RevenueRecord
    <3>4. /\ new.known = TRUE /\ new.amount = e.amount
          /\ new.fan = IF old.fan # NoFan THEN old.fan ELSE e.fan
          /\ new.ltv = (old.ltv \/ new.fan # NoFan)
          /\ new.tip = (old.tip \/ (new.fan # NoFan /\ e.kind = "tip"))
          /\ new.purchase = (old.purchase \/ (new.fan # NoFan /\ e.kind = "purchase"))
          BY DEF Credited
    <3>5. new.fan \in Fans \cup {NoFan}
          BY <2>2, <3>3, <3>4
    <3>6. new \in RevenueRecord
      <4> DEFINE fan == IF old.fan # NoFan THEN old.fan ELSE e.fan
      <4>1. fan \in Fans \cup {NoFan}
            BY <2>2, <3>3
      <4> HIDE DEF fan
      <4>2. [known |-> TRUE, amount |-> e.amount, fan |-> fan,
             ltv |-> old.ltv \/ fan # NoFan,
             tip |-> old.tip \/ (fan # NoFan /\ e.kind = "tip"),
             purchase |-> old.purchase \/ (fan # NoFan /\ e.kind = "purchase")] \in RevenueRecord
            BY <2>2, <4>1 DEF RevenueRecord
      <4> QED
          BY <4>2 DEF Credited, fan
    <3> HIDE DEF new
    <3>7. PaysIn(revenue, revenue', e, new)
          BY <1>1, <2>1, <2>4, <3>1, <3>4, <3>6 DEF PaysIn
    <3>8. /\ revenue' \in [Refs -> RevenueRecord] /\ RefsHeld(revenue')
          /\ \A x \in Paying : ShareTaken(revenue, x) => ShareTaken(revenue', x)
          /\ ShareTaken(revenue', e)
          BY <3>7, PaidRefs
    <3>9. ledger' \in [Events -> {"none", "accepted", "dead"}]
          BY <1>1, <3>1
    <3>10. \A x \in Paying : ledger'[x] = "accepted" => ShareTaken(revenue', x)
      <4>1. \A x \in Paying : x # e => ledger'[x] = ledger[x]
            BY <1>1, <3>1 DEF Paying
      <4> QED
          BY <1>1, <3>8, <4>1
    <3>11. ASSUME NEW f \in Fans
           PROVE  /\ totals'[f] \in [ltv : Int, tips : Int, purchases : Int]
                  /\ totals'[f].ltv = totals[f].ltv + (IF new.fan = f /\ new.ltv /\ ~old.ltv THEN e.amount ELSE 0)
                  /\ totals'[f].tips = totals[f].tips + (IF new.fan = f /\ new.tip /\ ~old.tip THEN e.amount ELSE 0)
                  /\ totals'[f].purchases =
                        totals[f].purchases + (IF new.fan = f /\ new.purchase /\ ~old.purchase THEN 1 ELSE 0)
      <4>1. PICK x \in Int, y \in Int, z \in Int : totals[f] = [ltv |-> x, tips |-> y, purchases |-> z]
            BY <1>1
      <4>2. CASE new.fan # f
        <5>1. totals'[f] = totals[f]
              BY <1>1, <3>1, <4>2
        <5> QED
            BY <4>1, <4>2, <5>1
      <4>3. CASE new.fan = f
        <5>1. new.fan # NoFan
              BY <4>3, WebhooksAssumption
        <5>2. totals'[f] = [ltv |-> x + Share(new.ltv, old.ltv, e.amount),
                            tips |-> y + Share(new.tip, old.tip, e.amount),
                            purchases |-> z + Share(new.purchase, old.purchase, 1)]
              BY <1>1, <3>1, <4>1, <4>3, <5>1
        <5>3. /\ Share(new.ltv, old.ltv, e.amount) = (IF new.ltv /\ ~old.ltv THEN e.amount ELSE 0)
              /\ Share(new.tip, old.tip, e.amount) = (IF new.tip /\ ~old.tip THEN e.amount ELSE 0)
              /\ Share(new.purchase, old.purchase, 1) = (IF new.purchase /\ ~old.purchase THEN 1 ELSE 0)
              BY DEF Share
        <5> HIDE DEF old
        <5>4. /\ Share(new.ltv, old.ltv, e.amount) \in Int /\ Share(new.tip, old.tip, e.amount) \in Int
              /\ Share(new.purchase, old.purchase, 1) \in Int
              BY <2>2, <5>3
        <5>5. /\ totals'[f] \in [ltv : Int, tips : Int, purchases : Int]
              /\ totals'[f].ltv = totals[f].ltv + Share(new.ltv, old.ltv, e.amount)
              /\ totals'[f].tips = totals[f].tips + Share(new.tip, old.tip, e.amount)
              /\ totals'[f].purchases = totals[f].purchases + Share(new.purchase, old.purchase, 1)
              BY <4>1, <5>2, <5>4
        <5> QED
            BY <4>3, <5>3, <5>5
      <4> QED
          BY <4>2, <4>3
    <3>12. totals' \in [Fans -> [ltv : Int, tips : Int, purchases : Int]]
      <4>1. totals' = [f \in Fans |-> totals'[f]]
        <5>1. CASE new.fan = NoFan
              BY <1>1, <3>1, <5>1
        <5>2. CASE new.fan # NoFan
              BY <1>1, <3>1, <5>2
        <5> QED
            BY <5>1, <5>2
      <4> QED
          BY <3>11, <4>1
    <3>13. \A f \in Fans : TotalsHeld(revenue', totals'[f], f)
      <4>1. SUFFICES ASSUME NEW f \in Fans PROVE TotalsHeld(revenue', totals'[f], f)
            OBVIOUS
      <4>2. totals[f] \in [ltv : Int, tips : Int, purchases : Int] /\ TotalsHeld(revenue, totals[f], f)
            BY <1>1
      <4> QED
          BY <3>7, <3>11, <4>2, PaidTotals
    <3> QED
        BY <3>8, <3>9, <3>10, <3>12, <3>13 DEF RevenueInv
  <2> QED
      BY <2>3, <2>4
<1>6. ASSUME NEW e \in Events, Quarantine(e) PROVE RevenueInv'
  <2>1. PICK s \in {"none", "accepted", "dead"} :
            ledger' = [ledger EXCEPT ![e] = s] /\ (s = "dead" \/ s = ledger[e])
    <3>1. ledger[e] \in {"none", "accepted", "dead"}
          BY <1>1
    <3> QED
        BY <1>6, <3>1 DEF Quarantine
  <2> QED
      BY <1>3, <1>6, <2>1 DEF Quarantine
<1>7. ASSUME NEW e \in Events, Redeliver(e) PROVE RevenueInv'
      BY <1>2, <1>7 DEF Redeliver
<1>8. CASE SwitchBot \/ StartProcess \/ UNCHANGED webhookVars
      BY <1>2, <1>8 DEF SwitchBot, StartProcess, webhookVars
<1> QED
    BY <1>4, <1>5, <1>6, <1>7, <1>8 DEF WebhooksNext

LEMMA RevenueHolds == RevenueInv => RevenueCountedOnce
<1> SUFFICES ASSUME RevenueInv PROVE RevenueCountedOnce
    OBVIOUS
<1>1. ASSUME NEW f \in Fans
      PROVE  LET mine == {r \in Refs : revenue[r].fan = f}
                 amounts == [r \in Refs |-> revenue[r].amount]
             IN  /\ totals[f].ltv = Total(amounts, mine)
                 /\ totals[f].tips = Total(amounts, {r \in mine : revenue[r].tip})
                 /\ totals[f].purchases = Cardinality({r \in mine : revenue[r].purchase})
  <2>1. TotalsHeld(revenue, totals[f], f)
        BY DEF RevenueInv
  <2>2. /\ {r \in {r \in Refs : revenue[r].fan = f} : revenue[r].tip} = TippedIn(revenue, f)
        /\ {r \in {r \in Refs : revenue[r].fan = f} : revenue[r].purchase} = BoughtIn(revenue, f)
        BY DEF TippedIn, BoughtIn
  <2> QED
      BY <2>1, <2>2 DEF TotalsHeld, AmountsIn, MineIn
<1>2. ASSUME NEW e \in AcceptedOf(Paid)
      PROVE  /\ e.fan # NoFan => revenue[e.ref].ltv
             /\ e.kind = "tip" => revenue[e.ref].tip
             /\ e.kind = "purchase" => revenue[e.ref].purchase
      BY DEF RevenueInv, AcceptedOf, Paying, ShareTaken
<1> QED
    BY <1>1, <1>2 DEF RevenueCountedOnce

\* Whatever the order and the copies of the events, a payment is counted once.
THEOREM RevenueIsCountedOnce == WebhooksSpec => []RevenueCountedOnce
<1>1. WebhooksSpec => []RevenueInv
      BY RevenueStart, RevenueStep, PTL DEF WebhooksSpec
<1> QED
    BY <1>1, RevenueHolds, PTL

-----------------------------------------------------------------------------
\* ReadCache: when a kept read is paid for again.

ThreadRecord == [pc : {"idle", "make", "take", "lock", "request", "put"}, service : Services \cup {0},
                 at : Nat, force : BOOLEAN, seen : Int]
ReadRecord == [at : Nat, service : Services, seen : Int, limit : {Cooldown, TTL}, understood : BOOLEAN]

\* A thread works on a service that was made, and holds its lock while it asks; what it saw
\* was too old for it.
ThreadOK(t) ==
    /\ thread[t].pc = "take" => service # 0
    /\ thread[t].pc \in {"lock", "request", "put"} => Own(t) \in Services
    /\ thread[t].pc \in {"request", "put"} => lock[Own(t)] = t
    /\ thread[t].pc = "request" => ~Recent(t, memory[Own(t)]) /\ ~Recent(t, thread[t].seen)

\* A service that has not fallen back remembers its last answer.
Remembered ==
    \A i \in DOMAIN reads :
        reads[i].understood /\ reads[i].service \notin reverted => reads[i].at =< memory[reads[i].service]

ReadCacheTypes ==
    /\ clock \in Nat /\ made \in 0..MaxServices /\ service \in 0..made /\ cached \in Int
    /\ memory \in [Services -> Int] /\ lock \in [Services -> Readers \cup {0}]
    /\ thread \in [Readers -> ThreadRecord] /\ reads \in Seq(ReadRecord)

ReadCacheInv ==
    /\ ReadCacheTypes /\ Remembered /\ AskedAgainForAReason
    /\ \A t \in Readers : ThreadOK(t)

LEMMA LimitIs == ASSUME NEW f \in BOOLEAN PROVE AgeLimit(f) \in {Cooldown, TTL} /\ AgeLimit(f) \in Nat
BY ReadCacheAssumption DEF AgeLimit

LEMMA NoReadOK == NoRead \in ThreadRecord /\ Never \in Int
<1>1. Never \in Int
      BY ReadCacheAssumption DEF Never
<1> QED
    BY <1>1 DEF NoRead, ThreadRecord

LEMMA ReadCacheStart == ReadCacheInit => ReadCacheInv
<1> SUFFICES ASSUME ReadCacheInit PROVE ReadCacheInv
    OBVIOUS
<1>1. ReadCacheTypes
      BY NoReadOK, ReadCacheAssumption DEF ReadCacheInit, ReadCacheTypes
<1>2. Remembered /\ AskedAgainForAReason
      BY DEF ReadCacheInit, Remembered, AskedAgainForAReason
<1>3. \A t \in Readers : thread[t].pc = "idle"
      BY DEF ReadCacheInit, NoRead
<1> QED
    BY <1>1, <1>2, <1>3 DEF ReadCacheInv, ThreadOK

\* A thread moves: the others keep their locks, and the services they hold their memory.
LEMMA OthersKept ==
    ASSUME ReadCacheInv, NEW t \in Readers, NEW x \in ThreadRecord,
           thread' = [thread EXCEPT ![t] = x], service # 0 => service' # 0,
           \A s \in Services : lock[s] \notin {0, t} => lock'[s] = lock[s] /\ memory'[s] = memory[s]
    PROVE  /\ thread' \in [Readers -> ThreadRecord] /\ thread'[t] = x
           /\ \A u \in Readers \ {t} : ThreadOK(u)'
<1>1. thread \in [Readers -> ThreadRecord]
      BY DEF ReadCacheInv, ReadCacheTypes
<1>2. /\ thread' \in [Readers -> ThreadRecord] /\ thread'[t] = x
      /\ \A u \in Readers \ {t} : thread'[u] = thread[u]
      BY <1>1
<1>3. ASSUME NEW u \in Readers \ {t} PROVE ThreadOK(u)'
  <2>1. ThreadOK(u) /\ thread'[u] = thread[u] /\ u # 0
        BY <1>2, ReadCacheAssumption DEF ReadCacheInv
  <2>2. CASE thread[u].pc \in {"request", "put"}
    <3>1. lock'[Own(u)] = u /\ memory'[Own(u)] = memory[Own(u)]
          BY <2>1, <2>2 DEF ThreadOK
    <3>2. Own(u)' = Own(u)
          BY <2>1 DEF Own
    <3>3. thread[u].pc = "request" => ~Recent(u, memory[Own(u)])' /\ ~Recent(u, thread[u].seen)'
          BY <2>1, <3>1, <3>2 DEF ThreadOK, Recent
    <3> QED
        BY <2>1, <2>2, <3>1, <3>2, <3>3 DEF ThreadOK
  <2>3. CASE thread[u].pc \notin {"request", "put"}
        BY <2>1, <2>3 DEF ThreadOK, Own
  <2> QED
      BY <2>2, <2>3
<1> QED
    BY <1>2, <1>3

\* No answer comes, and a service forgets one only for an older row.
LEMMA AnswersKept ==
    ASSUME ReadCacheInv, reads' = reads, reverted \subseteq reverted', memory' \in [Services -> Int],
           \A s \in Services : s \notin reverted' => memory'[s] >= memory[s]
    PROVE  Remembered' /\ AskedAgainForAReason'
<1>1. reads \in Seq(ReadRecord) /\ memory \in [Services -> Int]
      BY DEF ReadCacheInv, ReadCacheTypes
<1>2. \A i \in DOMAIN reads : reads[i].at \in Nat /\ reads[i].service \in Services
  <2>1. \A i \in DOMAIN reads : reads[i] \in ReadRecord
        BY <1>1
  <2> QED
      BY <2>1 DEF ReadRecord
<1>3. Remembered'
  <2> SUFFICES ASSUME NEW i \in DOMAIN reads, reads[i].understood, reads[i].service \notin reverted'
               PROVE  reads[i].at =< memory'[reads[i].service]
      BY DEF Remembered
  <2>1. reads[i].at =< memory[reads[i].service]
        BY DEF ReadCacheInv, Remembered
  <2>2. reads[i].at \in Nat /\ reads[i].service \in Services
        BY <1>2
  <2> QED
      BY <1>1, <2>1, <2>2
<1>4. AskedAgainForAReason'
      BY DEF ReadCacheInv, AskedAgainForAReason
<1> QED
    BY <1>3, <1>4

\* A service that is not made, or is looked for, changes nothing that was read.
LEMMA ReadsFind == ASSUME ReadCacheInv, NEW t \in Readers, Find(t) PROVE ReadCacheInv'
<1>1. /\ thread' = [thread EXCEPT ![t].pc = IF service = 0 THEN "make" ELSE "take"]
      /\ UNCHANGED <<clock, service, made, memory, lock, cached, reads, reverted>>
      BY DEF Find
<1>2. ReadCacheTypes /\ memory \in [Services -> Int]
      BY DEF ReadCacheInv, ReadCacheTypes
<1>3. PICK r \in ThreadRecord : r = thread[t]
      BY DEF ReadCacheInv, ReadCacheTypes
<1>4. PICK x : x = [r EXCEPT !.pc = IF service = 0 THEN "make" ELSE "take"]
      OBVIOUS
<1>5. x \in ThreadRecord /\ x.pc \in {"make", "take"} /\ (x.pc = "take" => service # 0)
      BY <1>4 DEF ThreadRecord
<1>6. thread' = [thread EXCEPT ![t] = x]
      BY <1>1, <1>3, <1>4
<1>7. /\ thread' \in [Readers -> ThreadRecord] /\ thread'[t] = x
      /\ \A u \in Readers \ {t} : ThreadOK(u)'
      BY <1>1, <1>5, <1>6, OthersKept
<1>8. ThreadOK(t)'
      BY <1>1, <1>5, <1>7 DEF ThreadOK
<1>9. Remembered' /\ AskedAgainForAReason'
      BY <1>1, <1>2, AnswersKept
<1> QED
    BY <1>1, <1>2, <1>7, <1>8, <1>9 DEF ReadCacheInv, ReadCacheTypes

LEMMA ReadsMake == ASSUME ReadCacheInv, NEW t \in Readers, Make(t) PROVE ReadCacheInv'
<1>1. /\ made < MaxServices /\ made' = made + 1 /\ service' = made + 1
      /\ thread' = [thread EXCEPT ![t].pc = "take"]
      /\ UNCHANGED <<clock, memory, lock, cached, reads, reverted>>
      BY DEF Make
<1>2. ReadCacheTypes /\ memory \in [Services -> Int] /\ made \in 0..MaxServices /\ MaxServices \in Nat
      BY ReadCacheAssumption DEF ReadCacheInv, ReadCacheTypes
<1>3. PICK r \in ThreadRecord : r = thread[t]
      BY DEF ReadCacheInv, ReadCacheTypes
<1>4. PICK x : x = [r EXCEPT !.pc = "take"]
      OBVIOUS
<1>5. x \in ThreadRecord /\ x.pc = "take"
      BY <1>4 DEF ThreadRecord
<1>6. thread' = [thread EXCEPT ![t] = x] /\ service' # 0
      BY <1>1, <1>2, <1>3, <1>4
<1>7. /\ thread' \in [Readers -> ThreadRecord] /\ thread'[t] = x
      /\ \A u \in Readers \ {t} : ThreadOK(u)'
      BY <1>1, <1>5, <1>6, OthersKept
<1>8. ThreadOK(t)'
      BY <1>5, <1>6, <1>7 DEF ThreadOK
<1>9. Remembered' /\ AskedAgainForAReason'
      BY <1>1, <1>2, AnswersKept
<1>10. made' \in 0..MaxServices /\ service' \in 0..made'
       BY <1>1, <1>2
<1> QED
    BY <1>1, <1>2, <1>7, <1>8, <1>9, <1>10 DEF ReadCacheInv, ReadCacheTypes

LEMMA ReadsTake ==
    ASSUME ReadCacheInv, NEW t \in Readers, NEW force \in BOOLEAN, Take(t, force) PROVE ReadCacheInv'
<1> DEFINE x == [pc |-> "lock", service |-> service, at |-> clock, force |-> force, seen |-> Never]
<1>1. /\ thread[t].pc = "take" /\ thread' = [thread EXCEPT ![t] = x]
      /\ UNCHANGED <<clock, service, made, memory, lock, cached, reads, reverted>>
      BY DEF Take
<1>2. ReadCacheTypes /\ memory \in [Services -> Int]
      BY DEF ReadCacheInv, ReadCacheTypes
<1>3. service \in Services
  <2>1. service # 0 /\ service \in 0..made /\ made \in 0..MaxServices
        BY <1>1, <1>2 DEF ReadCacheInv, ThreadOK, ReadCacheTypes
  <2> QED
      BY <2>1, ReadCacheAssumption DEF Services
<1>4. x \in ThreadRecord /\ x.pc = "lock" /\ x.service = service
      BY <1>2, <1>3, NoReadOK DEF ThreadRecord, ReadCacheTypes
<1> HIDE DEF x
<1>5. /\ thread' \in [Readers -> ThreadRecord] /\ thread'[t] = x
      /\ \A u \in Readers \ {t} : ThreadOK(u)'
      BY <1>1, <1>4, OthersKept
<1>6. ThreadOK(t)'
      BY <1>1, <1>3, <1>4, <1>5 DEF ThreadOK, Own
<1>7. Remembered' /\ AskedAgainForAReason'
      BY <1>1, <1>2, AnswersKept
<1> QED
    BY <1>1, <1>2, <1>5, <1>6, <1>7 DEF ReadCacheInv, ReadCacheTypes

\* A row is taken into memory only when it is newer than what is there.
LEMMA ReadsLook == ASSUME ReadCacheInv, NEW t \in Readers, Look(t) PROVE ReadCacheInv'
<1>1. /\ thread[t].pc = "lock" /\ lock[Own(t)] = 0
      /\ UNCHANGED <<clock, service, made, cached, reads, reverted>>
      BY DEF Look
<1>2. /\ ReadCacheTypes /\ memory \in [Services -> Int] /\ lock \in [Services -> Readers \cup {0}]
      /\ cached \in Int /\ t # 0
      BY ReadCacheAssumption DEF ReadCacheInv, ReadCacheTypes
<1>3. PICK r \in ThreadRecord : r = thread[t]
      BY DEF ReadCacheInv, ReadCacheTypes
<1>4. PICK s \in Services : s = Own(t)
      BY <1>1 DEF ReadCacheInv, ThreadOK
<1>5. r.at \in Nat /\ r.service = s /\ r.force \in BOOLEAN
      BY <1>3, <1>4 DEF ThreadRecord, Own
<1>6. PICK l \in Nat : l = AgeLimit(r.force)
      BY <1>5, LimitIs
<1>7. \A a : Recent(t, a) <=> r.at - a < l
      BY <1>3, <1>6 DEF Recent
<1>8. PICK seen \in {cached, Never} :
        LET kept == memory[Own(t)]
            inMemory == Recent(t, kept) \/ (kind = "walls" /\ thread[t].at - kept = TTL)
        IN  IF inMemory \/ Recent(t, seen)
            THEN /\ memory' = [memory EXCEPT ![Own(t)] = IF inMemory THEN kept ELSE seen]
                 /\ Done(t)
                 /\ lock' = lock
            ELSE /\ thread' = [thread EXCEPT ![t] = [thread[t] EXCEPT !.pc = "request", !.seen = seen]]
                 /\ lock' = [lock EXCEPT ![Own(t)] = t]
                 /\ memory' = memory
      BY DEF Look
<1>9. PICK kept \in Int : kept = memory[s]
      BY <1>2
<1>10. seen \in Int
       BY <1>2, <1>8, NoReadOK
<1> DEFINE inMemory == Recent(t, kept) \/ (kind = "walls" /\ r.at - kept = TTL)
<1>11. CASE inMemory \/ Recent(t, seen)
  <2>1. /\ memory' = [memory EXCEPT ![s] = IF inMemory THEN kept ELSE seen]
        /\ thread' = [thread EXCEPT ![t] = NoRead] /\ lock' = lock
        BY <1>3, <1>4, <1>8, <1>9, <1>11 DEF Done
  <2>2. /\ memory' \in [Services -> Int] /\ memory'[s] = IF inMemory THEN kept ELSE seen
        /\ \A q \in Services \ {s} : memory'[q] = memory[q]
        BY <1>2, <1>10, <2>1
  <2>3. memory'[s] >= memory[s]
    <3>1. CASE inMemory
          BY <1>9, <2>2, <3>1
    <3>2. CASE ~inMemory
      <4>1. r.at - seen < l /\ ~(r.at - kept < l) /\ memory'[s] = seen
            BY <1>7, <1>11, <2>2, <3>2
      <4> QED
          BY <1>5, <1>9, <1>10, <4>1
    <3> QED
        BY <3>1, <3>2
  <2>4. \A q \in Services : memory'[q] >= memory[q]
        BY <1>2, <2>2, <2>3
  <2>5. Remembered' /\ AskedAgainForAReason'
        BY <1>1, <2>2, <2>4, AnswersKept
  <2>6. \A q \in Services : lock[q] \notin {0, t} => lock'[q] = lock[q] /\ memory'[q] = memory[q]
        BY <1>1, <1>4, <2>1, <2>2
  <2>7. /\ thread' \in [Readers -> ThreadRecord] /\ thread'[t] = NoRead
        /\ \A u \in Readers \ {t} : ThreadOK(u)'
        BY <1>1, <2>1, <2>6, NoReadOK, OthersKept
  <2>8. ThreadOK(t)'
        BY <2>7 DEF ThreadOK, NoRead
  <2> QED
      BY <1>1, <1>2, <2>1, <2>2, <2>5, <2>7, <2>8 DEF ReadCacheInv, ReadCacheTypes
<1>12. CASE ~(inMemory \/ Recent(t, seen))
  <2>1. PICK x : x = [r EXCEPT !.pc = "request", !.seen = seen]
        OBVIOUS
  <2>2. /\ x \in ThreadRecord /\ x.pc = "request" /\ x.seen = seen
        /\ x.service = s /\ x.at = r.at /\ x.force = r.force
        BY <1>5, <1>10, <2>1 DEF ThreadRecord
  <2>3. /\ thread' = [thread EXCEPT ![t] = x] /\ lock' = [lock EXCEPT ![s] = t] /\ memory' = memory
        BY <1>3, <1>4, <1>8, <1>9, <1>12, <2>1
  <2>4. /\ lock' \in [Services -> Readers \cup {0}] /\ lock'[s] = t
        /\ \A q \in Services \ {s} : lock'[q] = lock[q]
        BY <1>2, <2>3
  <2>5. \A q \in Services : lock[q] \notin {0, t} => lock'[q] = lock[q] /\ memory'[q] = memory[q]
        BY <1>1, <1>4, <2>3, <2>4
  <2>6. /\ thread' \in [Readers -> ThreadRecord] /\ thread'[t] = x
        /\ \A u \in Readers \ {t} : ThreadOK(u)'
        BY <1>1, <2>2, <2>3, <2>5, OthersKept
  <2>7. Own(t)' = s /\ thread'[t].seen = seen /\ thread'[t].pc = "request"
        BY <2>2, <2>6 DEF Own
  <2>8. ~(r.at - kept < l) /\ ~(r.at - seen < l)
        BY <1>7, <1>12
  <2>9. ~Recent(t, memory[Own(t)])' /\ ~Recent(t, thread[t].seen)'
        BY <1>6, <1>9, <2>2, <2>3, <2>6, <2>7, <2>8 DEF Recent
  <2>10. ThreadOK(t)'
         BY <2>4, <2>7, <2>9 DEF ThreadOK
  <2>11. Remembered' /\ AskedAgainForAReason'
         BY <1>1, <1>2, <2>3, AnswersKept
  <2> QED
      BY <1>1, <1>2, <2>3, <2>4, <2>6, <2>10, <2>11 DEF ReadCacheInv, ReadCacheTypes
<1> QED
    BY <1>11, <1>12

\* A thread that holds its lock gives it back.
LEMMA LetsGo ==
    ASSUME ReadCacheInv, NEW t \in Readers, lock[Own(t)] = t, Own(t) \in Services,
           lock' = Free(t), Done(t), service' = service,
           \A s \in Services \ {Own(t)} : memory'[s] = memory[s]
    PROVE  /\ lock' \in [Services -> Readers \cup {0}] /\ thread' \in [Readers -> ThreadRecord]
           /\ \A u \in Readers : ThreadOK(u)'
<1>1. lock \in [Services -> Readers \cup {0}]
      BY DEF ReadCacheInv, ReadCacheTypes
<1>2. /\ lock' \in [Services -> Readers \cup {0}]
      /\ \A s \in Services \ {Own(t)} : lock'[s] = lock[s]
      BY <1>1 DEF Free
<1>3. \A s \in Services : lock[s] \notin {0, t} => lock'[s] = lock[s] /\ memory'[s] = memory[s]
      BY <1>2
<1>4. /\ thread' \in [Readers -> ThreadRecord] /\ thread'[t] = NoRead
      /\ \A u \in Readers \ {t} : ThreadOK(u)'
      BY <1>3, NoReadOK, OthersKept DEF Done
<1>5. ThreadOK(t)'
      BY <1>4 DEF ThreadOK, NoRead
<1> QED
    BY <1>2, <1>4, <1>5

LEMMA ReadsRefused == ASSUME ReadCacheInv, NEW t \in Readers, Refused(t) PROVE ReadCacheInv'
<1>1. /\ thread[t].pc = "request" /\ lock' = Free(t) /\ Done(t)
      /\ UNCHANGED <<clock, service, made, cached, reads>>
      BY DEF Refused
<1>2. ReadCacheTypes /\ memory \in [Services -> Int] /\ thread[t].seen \in Int
      BY DEF ReadCacheInv, ReadCacheTypes, ThreadRecord
<1>3. PICK s \in Services : s = Own(t) /\ lock[s] = t
      BY <1>1 DEF ReadCacheInv, ThreadOK
<1>4. /\ memory' \in [Services -> Int] /\ reverted \subseteq reverted'
      /\ \A q \in Services \ {s} : memory'[q] = memory[q]
      /\ s \notin reverted' => memory'[s] >= memory[s]
  <2>1. CASE kind = "walls" /\ thread[t].at - thread[t].seen < Stale
    <3>1. /\ memory' = [memory EXCEPT ![s] = thread[t].seen]
          /\ reverted' = IF thread[t].seen < memory[s] THEN reverted \cup {s} ELSE reverted
          BY <1>3, <2>1 DEF Refused
    <3>2. /\ memory' \in [Services -> Int] /\ memory'[s] = thread[t].seen
          /\ \A q \in Services \ {s} : memory'[q] = memory[q]
          BY <1>2, <3>1
    <3> QED
        BY <1>2, <3>1, <3>2
  <2>2. CASE ~(kind = "walls" /\ thread[t].at - thread[t].seen < Stale)
        BY <1>2, <2>2 DEF Refused
  <2> QED
      BY <2>1, <2>2
<1>5. \A q \in Services : q \notin reverted' => memory'[q] >= memory[q]
      BY <1>2, <1>4
<1>6. Remembered' /\ AskedAgainForAReason'
      BY <1>1, <1>4, <1>5, AnswersKept
<1>7. /\ lock' \in [Services -> Readers \cup {0}] /\ thread' \in [Readers -> ThreadRecord]
      /\ \A u \in Readers : ThreadOK(u)'
      BY <1>1, <1>3, <1>4, LetsGo
<1> QED
    BY <1>1, <1>2, <1>4, <1>6, <1>7 DEF ReadCacheInv, ReadCacheTypes

LEMMA ReadsPut ==
    ASSUME ReadCacheInv, NEW t \in Readers, NEW saved \in BOOLEAN, Put(t, saved) PROVE ReadCacheInv'
<1>1. /\ thread[t].pc = "put" /\ cached' = (IF saved THEN thread[t].at ELSE cached)
      /\ lock' = Free(t) /\ Done(t)
      /\ UNCHANGED <<clock, service, made, memory, reads, reverted>>
      BY DEF Put
<1>2. ReadCacheTypes /\ memory \in [Services -> Int] /\ thread[t].at \in Int /\ cached \in Int
      BY DEF ReadCacheInv, ReadCacheTypes, ThreadRecord
<1>3. Own(t) \in Services /\ lock[Own(t)] = t
      BY <1>1 DEF ReadCacheInv, ThreadOK
<1>4. Remembered' /\ AskedAgainForAReason'
      BY <1>1, <1>2, AnswersKept
<1>5. /\ lock' \in [Services -> Readers \cup {0}] /\ thread' \in [Readers -> ThreadRecord]
      /\ \A u \in Readers : ThreadOK(u)'
      BY <1>1, <1>3, LetsGo
<1> QED
    BY <1>1, <1>2, <1>4, <1>5 DEF ReadCacheInv, ReadCacheTypes

\* An answer is newer than the last the service remembers by the age the request asked for.
LEMMA ReadsAnswered ==
    ASSUME ReadCacheInv, NEW t \in Readers, NEW understood \in BOOLEAN, Answered(t, understood)
    PROVE  ReadCacheInv'
<1>1. /\ thread[t].pc = "request" /\ UNCHANGED <<clock, service, made, cached, reverted>>
      BY DEF Answered
<1>2. /\ ReadCacheTypes /\ memory \in [Services -> Int] /\ reads \in Seq(ReadRecord)
      BY DEF ReadCacheInv, ReadCacheTypes
<1>3. PICK r \in ThreadRecord : r = thread[t]
      BY DEF ReadCacheInv, ReadCacheTypes
<1>4. PICK s \in Services : s = Own(t) /\ lock[s] = t
      BY <1>1 DEF ReadCacheInv, ThreadOK
<1>5. r.at \in Nat /\ r.service = s /\ r.force \in BOOLEAN /\ r.seen \in Int
      BY <1>3, <1>4 DEF ThreadRecord, Own
<1>6. PICK l \in Nat : l = AgeLimit(r.force) /\ l \in {Cooldown, TTL}
      BY <1>5, LimitIs
<1>7. PICK kept \in Int : kept = memory[s]
      BY <1>2
<1>8. ~(r.at - kept < l) /\ ~(r.at - r.seen < l)
      BY <1>1, <1>3, <1>4, <1>6, <1>7 DEF ReadCacheInv, ThreadOK, Recent
<1>9. PICK new \in ReadRecord :
          /\ reads' = Append(reads, new) /\ new.at = r.at /\ new.service = s
          /\ new.seen = r.seen /\ new.limit = l /\ new.understood = understood
  <2> DEFINE x == [at |-> r.at, service |-> s, seen |-> r.seen, limit |-> l, understood |-> understood]
  <2>1. reads' = Append(reads, x)
        BY <1>3, <1>4, <1>6 DEF Answered
  <2>2. x \in ReadRecord
        BY <1>5, <1>6 DEF ReadRecord
  <2> QED
      BY <2>1, <2>2
<1>10. PICK n \in Nat : n = Len(reads) /\ DOMAIN reads = 1..n
       BY <1>2
<1>11. /\ reads' \in Seq(ReadRecord) /\ DOMAIN reads' = 1..(n + 1) /\ reads'[n + 1] = new
       /\ \A i \in 1..n : reads'[i] = reads[i]
       BY <1>2, <1>9, <1>10
<1>12. \A i \in 1..n : /\ reads[i].at \in Nat /\ reads[i].service \in Services
                       /\ reads[i].understood /\ reads[i].service = s /\ s \notin reverted =>
                              reads[i].at =< kept
  <2>1. \A i \in 1..n : reads[i] \in ReadRecord
        BY <1>2, <1>10
  <2>2. \A i \in 1..n : reads[i].at \in Nat /\ reads[i].service \in Services
        BY <2>1 DEF ReadRecord
  <2> QED
      BY <1>7, <1>10, <2>2 DEF ReadCacheInv, Remembered
<1>13. AskedAgainForAReason'
  <2>1. ASSUME NEW i \in 1..n, reads[i].understood, r.at - reads[i].at < l
        PROVE  r.seen # reads[i].at /\ (reads[i].service # s \/ s \in reverted)
        BY <1>5, <1>8, <1>12, <2>1
  <2> SUFFICES ASSUME NEW i \in 1..(n + 1), NEW j \in 1..(n + 1), i < j, reads'[i].understood,
                      reads'[j].at - reads'[i].at < reads'[j].limit
               PROVE  /\ reads'[j].seen # reads'[i].at
                      /\ reads'[i].service # reads'[j].service \/ reads'[j].service \in reverted
      BY <1>1, <1>11 DEF AskedAgainForAReason
  <2>2. i \in 1..n
        BY <1>10
  <2>3. CASE j = n + 1
        BY <1>9, <1>11, <2>1, <2>2, <2>3
  <2>4. CASE j # n + 1
    <3>1. j \in 1..n
          BY <1>10, <2>4
    <3> QED
        BY <1>10, <1>11, <2>2, <3>1 DEF ReadCacheInv, AskedAgainForAReason
  <2> QED
      BY <2>3, <2>4
<1>14. CASE understood
  <2>1. PICK x : x = [r EXCEPT !.pc = "put"]
        OBVIOUS
  <2>2. x \in ThreadRecord /\ x.pc = "put" /\ x.service = s
        BY <1>5, <2>1 DEF ThreadRecord
  <2>3. memory' = [memory EXCEPT ![s] = r.at] /\ thread' = [thread EXCEPT ![t] = x] /\ lock' = lock
        BY <1>3, <1>4, <1>14, <2>1 DEF Answered
  <2>4. /\ memory' \in [Services -> Int] /\ memory'[s] = r.at
        /\ \A q \in Services \ {s} : memory'[q] = memory[q]
        BY <1>2, <1>5, <2>3
  <2>5. \A q \in Services : lock[q] \notin {0, t} => lock'[q] = lock[q] /\ memory'[q] = memory[q]
        BY <1>4, <2>3, <2>4
  <2>6. /\ thread' \in [Readers -> ThreadRecord] /\ thread'[t] = x
        /\ \A u \in Readers \ {t} : ThreadOK(u)'
        BY <1>1, <2>2, <2>3, <2>5, OthersKept
  <2>7. ThreadOK(t)'
        BY <1>4, <2>2, <2>3, <2>6 DEF ThreadOK, Own
  <2>8. Remembered'
    <3> SUFFICES ASSUME NEW i \in 1..(n + 1), reads'[i].understood, reads'[i].service \notin reverted
                 PROVE  reads'[i].at =< memory'[reads'[i].service]
        BY <1>1, <1>11 DEF Remembered
    <3>1. CASE i = n + 1
          BY <1>5, <1>9, <1>11, <2>4, <3>1
    <3>2. CASE i # n + 1
      <4>1. i \in 1..n /\ reads'[i] = reads[i]
            BY <1>10, <1>11, <3>2
      <4>2. CASE reads[i].service = s
            BY <1>5, <1>8, <1>12, <2>4, <4>1, <4>2
      <4>3. CASE reads[i].service # s
            BY <1>10, <1>12, <2>4, <4>1, <4>3 DEF ReadCacheInv, Remembered
      <4> QED
          BY <4>2, <4>3
    <3> QED
        BY <3>1, <3>2
  <2>9. \A u \in Readers : ThreadOK(u)'
        BY <2>6, <2>7
  <2>10. ReadCacheTypes'
         BY <1>1, <1>2, <1>11, <2>3, <2>4, <2>6 DEF ReadCacheTypes
  <2> QED
      BY <1>13, <2>8, <2>9, <2>10 DEF ReadCacheInv
<1>15. CASE ~understood
  <2>1. memory' = memory /\ lock' = Free(t) /\ Done(t)
        BY <1>15 DEF Answered
  <2>2. /\ lock' \in [Services -> Readers \cup {0}] /\ thread' \in [Readers -> ThreadRecord]
        /\ \A u \in Readers : ThreadOK(u)'
        BY <1>1, <1>4, <2>1, LetsGo
  <2>3. Remembered'
    <3> SUFFICES ASSUME NEW i \in 1..(n + 1), reads'[i].understood, reads'[i].service \notin reverted
                 PROVE  reads'[i].at =< memory[reads'[i].service]
        BY <1>1, <1>11, <2>1 DEF Remembered
    <3>1. i \in 1..n
          BY <1>9, <1>10, <1>11, <1>15
    <3> QED
        BY <1>10, <1>11, <3>1 DEF ReadCacheInv, Remembered
  <2>4. ReadCacheTypes'
         BY <1>1, <1>2, <1>11, <2>1, <2>2 DEF ReadCacheTypes
  <2> QED
      BY <1>13, <2>2, <2>3, <2>4 DEF ReadCacheInv
<1> QED
    BY <1>14, <1>15

LEMMA ReadsStop == ReadCacheInv /\ ProcessRestarts => ReadCacheInv'
<1> SUFFICES ASSUME ReadCacheInv, ProcessRestarts PROVE ReadCacheInv'
    OBVIOUS
<1>1. /\ service' = 0 /\ lock' = [s \in Services |-> 0] /\ thread' = [t \in Readers |-> NoRead]
      /\ UNCHANGED <<clock, made, memory, cached, reads, reverted>>
      BY DEF ProcessRestarts
<1>2. ReadCacheTypes /\ memory \in [Services -> Int] /\ made \in 0..MaxServices
      BY DEF ReadCacheInv, ReadCacheTypes
<1>3. Remembered' /\ AskedAgainForAReason'
      BY <1>1, <1>2, AnswersKept
<1>4. \A t \in Readers : ThreadOK(t)'
      BY <1>1 DEF ThreadOK, NoRead
<1>5. 0 \in 0..made
      BY <1>2, ReadCacheAssumption
<1> QED
    BY <1>1, <1>2, <1>3, <1>4, <1>5, NoReadOK DEF ReadCacheInv, ReadCacheTypes

LEMMA ReadsRest ==
    ASSUME ReadCacheInv, TimePasses \/ UNCHANGED readVars PROVE ReadCacheInv'
<1>1. UNCHANGED <<service, made, memory, lock, cached, thread, reads, reverted>>
      BY DEF TimePasses, readVars
<1>2. ReadCacheTypes /\ memory \in [Services -> Int] /\ clock' \in Nat
      BY DEF ReadCacheInv, ReadCacheTypes, TimePasses, readVars
<1>3. Remembered' /\ AskedAgainForAReason'
      BY <1>1, <1>2, AnswersKept
<1>4. \A t \in Readers : ThreadOK(t)'
      BY <1>1 DEF ReadCacheInv, ThreadOK, Own, Recent
<1> QED
    BY <1>1, <1>2, <1>3, <1>4 DEF ReadCacheInv, ReadCacheTypes

LEMMA ReadCacheStep == ReadCacheInv /\ [ReadCacheNext]_readVars => ReadCacheInv'
BY ReadsFind, ReadsMake, ReadsTake, ReadsLook, ReadsRefused, ReadsPut, ReadsAnswered, ReadsStop,
   ReadsRest DEF ReadCacheNext

\* The provider is asked again early only for one of the reasons there are, for any threads,
\* services, ages and time (AskedAgainForAReason).
THEOREM ReadsAreKept == ReadCacheSpec => []AskedAgainForAReason
<1>1. ReadCacheSpec => []ReadCacheInv
      BY ReadCacheStart, ReadCacheStep, PTL DEF ReadCacheSpec
<1>2. ReadCacheInv => AskedAgainForAReason
      BY DEF ReadCacheInv
<1> QED
    BY <1>1, <1>2, PTL
=============================================================================
