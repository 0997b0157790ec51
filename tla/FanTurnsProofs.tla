---------------------------- MODULE FanTurnsProofs ----------------------------
(***************************************************************************)
(* Proofs about FanTurns for any messages, fans, receivers and planners:   *)
(* its types, that no observed message is left out of the turns, that an   *)
(* open plan is current, that turns hold what their times say, and that    *)
(* only a late plan reopens a cancelled turn.                              *)
(*                                                                         *)
(* About Connections, at the end, for any accounts, names and requests:    *)
(* whose account a workspace works with.  The two modules share nothing.   *)
(***************************************************************************)
EXTENDS FanTurns, Connections, FiniteSetTheorems, SequenceTheorems, TLAPS

USE EventsAssumption, SettingsAssumption

\* A request holds an event from the row it stored to the last transaction.
Holds(r, e) == receiver[r].pc \in {"plans", "turns"} /\ receiver[r].event = e

\* What a request works on is stored, and a message it holds is held by it
\* alone and has no turn yet.
Held ==
    /\ \A r \in Receivers :
          IF receiver[r].pc \in {"plans", "turns"} THEN receiver[r].event \in stored
                                                   ELSE receiver[r].event = 0
    /\ \A r, q \in Receivers :
          receiver[r].event = receiver[q].event /\ receiver[r].event # 0 => r = q
    /\ \A r \in Receivers, m \in Messages : receiver[r].event = m => link[m] = 0

\* A turn's first member is the message it is named by, and planners work on
\* turns.
Opened ==
    /\ \A t \in Messages : turn[t].status # "none" => link[t] = t
    /\ \A p \in Planners : planner[p] # 0 => turn[planner[p]].status # "none"

\* An open plan knows every observed event of its fan, but for those whose
\* request has not cancelled the plans yet.
Current ==
    \A t \in Messages, e \in stored \ missed :
        plan[t] = "shadow" /\ FanOf[e] = FanOf[t] =>
            e \in basis[t] \/ \E r \in Receivers : receiver[r].pc = "plans" /\ receiver[r].event = e

\* The times of a turn bound those of its members, and are times of members.
TimedTurn(t) ==
    turn[t].status # "none" =>
        /\ \E m \in Members(t) : turn[t].started = At[m]
        /\ \E m \in Members(t) : turn[t].latest = At[m]
        /\ \A m \in Members(t) : turn[t].started <= At[m] /\ At[m] <= turn[t].latest
        /\ turn[t].closes = turn[t].started + Window
        /\ turn[t].quiet <= turn[t].latest + Debounce
        /\ IsFiniteSet(Members(t)) /\ Cardinality(Members(t)) <= MaxMessages

Timed == \A t \in Messages : TimedTurn(t)

\* The inductive invariant.
IInv == TypeOK /\ Held /\ Opened /\ MembersUnlessMissed /\ Current /\ Timed

TurnRecord == [status : Open \cup {"none", "cancelled"},
               started : Nat, latest : Nat, closes : Nat, quiet : Nat]
ReceiverRecord == [pc : {"idle", "plans", "turns", "allPlans", "allTurns"},
                   event : Events \cup {0}]

-----------------------------------------------------------------------------
\* The least and the greatest of two numbers.
LEMMA MinOfTwo ==
    ASSUME NEW a \in Int, NEW b \in Int
    PROVE  /\ Min({a, b}) \in {a, b}
           /\ Min({a, b}) <= a /\ Min({a, b}) <= b
<1>1. \E x \in {a, b} : \A y \in {a, b} : x <= y
  <2>1. CASE a <= b
    BY <2>1
  <2>2. CASE b <= a
    BY <2>2
  <2> QED
    BY <2>1, <2>2
<1> QED
  BY <1>1 DEF Min

LEMMA MaxOfTwo ==
    ASSUME NEW a \in Int, NEW b \in Int
    PROVE  /\ Max({a, b}) \in {a, b}
           /\ a <= Max({a, b}) /\ b <= Max({a, b})
<1>1. \E x \in {a, b} : \A y \in {a, b} : x >= y
  <2>1. CASE a <= b
    BY <2>1
  <2>2. CASE b <= a
    BY <2>2
  <2> QED
    BY <2>1, <2>2
<1> QED
  BY <1>1 DEF Max

\* What is known of a least and of a greatest element names it.
LEMMA MinIs ==
    ASSUME NEW S \in SUBSET Int, NEW x \in S, \A y \in S : x <= y
    PROVE  Min(S) = x
<1>1. Min(S) \in S /\ \A y \in S : Min(S) <= y
  BY DEF Min
<1>2. Min(S) <= x /\ x <= Min(S) /\ Min(S) \in Int /\ x \in Int
  BY <1>1
<1> QED
  BY <1>2

LEMMA MaxIs ==
    ASSUME NEW S \in SUBSET Int, NEW x \in S, \A y \in S : y <= x
    PROVE  Max(S) = x
<1>1. Max(S) \in S /\ \A y \in S : Max(S) >= y
  BY DEF Max
<1>2. Max(S) >= x /\ x >= Max(S) /\ Max(S) \in Int /\ x \in Int
  BY <1>1
<1> QED
  BY <1>2

-----------------------------------------------------------------------------
LEMMA Initially == Init => IInv
<1> SUFFICES ASSUME Init PROVE IInv
  OBVIOUS
<1>1. TypeOK
  BY DEF Init, TypeOK, NoTurn, Idle, Open, Members, Events
<1>2. Held /\ Opened
  BY DEF Init, Held, Opened, NoTurn, Idle
<1>3. MembersUnlessMissed /\ Current /\ Timed
  BY DEF Init, MembersUnlessMissed, Current, Timed, TimedTurn, NoTurn
<1> QED
  BY <1>1, <1>2, <1>3 DEF IInv

\* A planner that takes up work takes up a turn.
PlannersOn ==
    \A p \in Planners : \/ planner'[p] \in {planner[p], 0}
                        \/ turn[planner'[p]].status # "none"

\* A step that leaves the turns and the links as they are keeps what is only
\* about them.
LEMMA TurnsAlone ==
    ASSUME IInv, UNCHANGED <<turn, link>>, PlannersOn
    PROVE  Opened' /\ Timed'
<1>1. \A t \in Messages : Members(t)' = Members(t)
  BY DEF Members
<1>2. Opened /\ Timed
  BY DEF IInv
<1>3. Opened'
  BY <1>2 DEF Opened, PlannersOn
<1>4. Timed'
  BY <1>1, <1>2 DEF Timed, TimedTurn
<1> QED
  BY <1>3, <1>4

-----------------------------------------------------------------------------
LEMMA ReceiveKeeps ==
    ASSUME IInv, NEW r \in Receivers, NEW e \in Events, Receive(r, e)
    PROVE  IInv'
<1>1. Opened' /\ Timed'
  BY TurnsAlone DEF PlannersOn, Receive
<1>2. receiver \in [Receivers -> ReceiverRecord]
  BY DEF IInv, TypeOK, ReceiverRecord
<1>3. CASE observing
  <2>1. receiver' = [receiver EXCEPT ![r] = [pc |-> "plans", event |-> e]]
    BY <1>3 DEF Receive, Go
  <2>2. /\ receiver'[r].pc = "plans" /\ receiver'[r].event = e
        /\ \A q \in Receivers \ {r} : receiver'[q] = receiver[q]
        /\ receiver' \in [Receivers -> ReceiverRecord]
    BY <1>2, <2>1 DEF ReceiverRecord
  <2>3. /\ stored' = stored \cup {e} /\ missed' = missed /\ e \notin stored
        /\ UNCHANGED <<turn, link, plan, observing, planner, now, basis, stops, switches>>
    BY <1>3 DEF Receive
  <2>4. TypeOK'
    BY <2>2, <2>3 DEF IInv, TypeOK, Members, ReceiverRecord
  <2>5. e # 0 /\ \A q \in Receivers : receiver[q].event # e
    BY <2>3 DEF IInv, Held, Events
  <2>6. Held'
    BY <2>2, <2>3, <2>5 DEF IInv, TypeOK, Held
  <2>7. MembersUnlessMissed'
    <3> SUFFICES ASSUME NEW m \in stored' \cap Messages
                 PROVE  (link[m] # 0 \/ m \in missed \/ \E q \in Receivers : receiver[q].event = m)'
      BY DEF MembersUnlessMissed
    <3>1. CASE m = e
      BY <2>2, <3>1
    <3>2. CASE m # e
      <4>1. link[m] # 0 \/ m \in missed \/ \E q \in Receivers : receiver[q].event = m
        BY <2>3, <3>2 DEF IInv, MembersUnlessMissed
      <4>2. receiver[r].event = 0
        BY DEF Receive, Idle
      <4> QED
        BY <2>2, <2>3, <4>1, <4>2
    <3> QED
      BY <3>1, <3>2
  <2>8. Current'
    <3> SUFFICES ASSUME NEW t \in Messages, NEW d \in (stored \ missed)',
                        plan'[t] = "shadow", FanOf[d] = FanOf[t]
                 PROVE  d \in basis'[t] \/ \E q \in Receivers : receiver'[q].pc = "plans"
                                                                /\ receiver'[q].event = d
      BY DEF Current
    <3>1. CASE d = e
      BY <2>2, <3>1
    <3>2. CASE d # e
      <4>1. d \in basis[t] \/ \E q \in Receivers : receiver[q].pc = "plans" /\ receiver[q].event = d
        BY <2>3, <3>2 DEF IInv, Current
      <4>2. receiver[r].pc # "plans"
        BY DEF Receive, Idle
      <4> QED
        BY <2>2, <2>3, <4>1, <4>2
    <3> QED
      BY <3>1, <3>2
  <2> QED
    BY <1>1, <2>4, <2>6, <2>7, <2>8 DEF IInv
<1>4. CASE ~observing
  <2>1. /\ stored' = stored \cup {e} /\ missed' = missed \cup {e}
        /\ UNCHANGED <<receiver, turn, link, plan, observing, planner, now, basis, stops, switches>>
    BY <1>4 DEF Receive
  <2>2. TypeOK'
    BY <2>1 DEF IInv, TypeOK, Members
  <2>3. Held' /\ MembersUnlessMissed' /\ Current'
    BY <2>1 DEF IInv, TypeOK, Held, MembersUnlessMissed, Current
  <2> QED
    BY <1>1, <2>2, <2>3 DEF IInv
<1> QED
  BY <1>3, <1>4

-----------------------------------------------------------------------------
\* A step that changes the status of turns and nothing else about them, and
\* takes up no work.
StatusOnly ==
    /\ turn' \in [Messages -> TurnRecord]
    /\ \A t \in Messages :
          /\ turn'[t].started = turn[t].started /\ turn'[t].latest = turn[t].latest
          /\ turn'[t].closes = turn[t].closes /\ turn'[t].quiet = turn[t].quiet
          /\ (turn'[t].status = "none") = (turn[t].status = "none")
    /\ link' = link
    /\ \A p \in Planners : planner'[p] \in {planner[p], 0}

LEMMA StatusKeeps ==
    ASSUME IInv, StatusOnly
    PROVE  /\ Opened' /\ Timed'
           /\ \A t \in Messages : (turn'[t].status = "none") = (Members(t)' = {})
<1>1. \A t \in Messages : Members(t)' = Members(t)
  BY DEF Members, StatusOnly
<1>2. Opened /\ Timed /\ TypeOK
  BY DEF IInv
<1>3. Opened'
  <2>1. \A p \in Planners : planner'[p] # 0 => planner'[p] \in Messages
                                               /\ turn[planner'[p]].status # "none"
    BY <1>2 DEF Opened, StatusOnly, TypeOK
  <2> QED
    BY <1>2, <2>1 DEF Opened, StatusOnly
<1>4. Timed'
  <2> SUFFICES ASSUME NEW t \in Messages PROVE TimedTurn(t)'
    BY DEF Timed
  <2>1. TimedTurn(t) /\ Members(t)' = Members(t)
    BY <1>1, <1>2 DEF Timed
  <2>2. /\ turn'[t].started = turn[t].started /\ turn'[t].latest = turn[t].latest
        /\ turn'[t].closes = turn[t].closes /\ turn'[t].quiet = turn[t].quiet
        /\ (turn'[t].status = "none") = (turn[t].status = "none")
    BY DEF StatusOnly
  <2> QED
    BY <2>1, <2>2 DEF TimedTurn
<1>5. \A t \in Messages : (turn'[t].status = "none") = (Members(t)' = {})
  BY <1>1, <1>2 DEF TypeOK, StatusOnly
<1> QED
  BY <1>3, <1>4, <1>5

\* A request that ends lets go of its event.
LEMMA LeaveKeeps ==
    ASSUME IInv, NEW r \in Receivers, receiver' = [receiver EXCEPT ![r] = Idle],
           UNCHANGED stored,
           \A m \in Messages : link'[m] # link[m] => receiver[r].event = m
    PROVE  /\ Held'
           /\ receiver' \in [Receivers -> ReceiverRecord]
           /\ \A q \in Receivers \ {r} : receiver'[q] = receiver[q]
<1>1. receiver \in [Receivers -> ReceiverRecord] /\ Held
  BY DEF IInv, TypeOK, ReceiverRecord
<1>2. /\ receiver'[r].pc = "idle" /\ receiver'[r].event = 0
      /\ \A q \in Receivers \ {r} : receiver'[q] = receiver[q]
      /\ receiver' \in [Receivers -> ReceiverRecord]
  BY <1>1 DEF Idle, ReceiverRecord
<1>3. \A q \in Receivers \ {r}, m \in Messages : receiver[q].event = m => link'[m] = 0
  <2> SUFFICES ASSUME NEW q \in Receivers \ {r}, NEW m \in Messages, receiver[q].event = m
               PROVE  link'[m] = 0
    OBVIOUS
  <2>1. receiver[r].event # m
    BY <1>1 DEF Held
  <2> QED
    BY <1>1, <2>1 DEF Held
<1>4. Held'
  BY <1>1, <1>2, <1>3 DEF Held
<1> QED
  BY <1>2, <1>4

\* A request that moves on keeps its event.
LEMMA MoveKeeps ==
    ASSUME IInv, NEW r \in Receivers, NEW pc, pc \in {"turns", "allPlans", "allTurns"},
           (pc = "turns") = (receiver[r].pc \in {"plans", "turns"}),
           Go(r, pc, receiver[r].event), UNCHANGED <<stored, link>>
    PROVE  /\ Held'
           /\ receiver' \in [Receivers -> ReceiverRecord]
           /\ \A q \in Receivers \ {r} : receiver'[q] = receiver[q]
           /\ receiver'[r].pc = pc /\ receiver'[r].event = receiver[r].event
<1>1. receiver \in [Receivers -> ReceiverRecord] /\ Held
  BY DEF IInv, TypeOK, ReceiverRecord
<1>2. /\ receiver'[r].pc = pc /\ receiver'[r].event = receiver[r].event
      /\ \A q \in Receivers \ {r} : receiver'[q] = receiver[q]
      /\ receiver' \in [Receivers -> ReceiverRecord]
  BY <1>1 DEF Go, ReceiverRecord
<1>3. Held'
  BY <1>1, <1>2 DEF Held
<1> QED
  BY <1>2, <1>3

\* Whoever cancels: times and links stay, and so does the absence of a turn.
LEMMA CancelledTyped ==
    ASSUME IInv, NEW T \in SUBSET Messages, turn' = CancelledTurns(T), UNCHANGED <<link, planner>>
    PROVE  StatusOnly
<1>1. turn \in [Messages -> TurnRecord]
  BY DEF IInv, TypeOK, TurnRecord
<1>2. \A t \in Messages :
         \/ turn'[t] = [turn[t] EXCEPT !.status = "cancelled"] /\ turn[t].status \in Open
         \/ turn'[t] = turn[t]
  BY DEF CancelledTurns
<1>3. turn' \in [Messages -> TurnRecord]
  BY <1>1, <1>2 DEF CancelledTurns, TurnRecord
<1> QED
  BY <1>1, <1>2, <1>3 DEF StatusOnly, TurnRecord, Open

-----------------------------------------------------------------------------
LEMMA CancelPlansKeeps ==
    ASSUME IInv, NEW r \in Receivers, CancelPlans(r)
    PROVE  IInv'
<1>1. Opened' /\ Timed'
  BY TurnsAlone DEF PlannersOn, CancelPlans
<1>2. /\ Held' /\ receiver' \in [Receivers -> ReceiverRecord]
      /\ \A q \in Receivers \ {r} : receiver'[q] = receiver[q]
      /\ receiver'[r].pc = "turns" /\ receiver'[r].event = receiver[r].event
  BY MoveKeeps DEF CancelPlans
<1>3. plan' \in [Messages -> {"none", "shadow", "cancelled"}]
  BY DEF CancelPlans, CancelledPlans, IInv, TypeOK
<1>4. TypeOK'
  BY <1>2, <1>3 DEF CancelPlans, IInv, TypeOK, Members, ReceiverRecord
<1>5. MembersUnlessMissed'
  BY <1>2 DEF CancelPlans, IInv, MembersUnlessMissed
<1>6. Current'
  <2> SUFFICES ASSUME NEW t \in Messages, NEW e \in stored \ missed,
                      plan'[t] = "shadow", FanOf[e] = FanOf[t]
               PROVE  e \in basis[t] \/ \E q \in Receivers : receiver'[q].pc = "plans"
                                                              /\ receiver'[q].event = e
    BY DEF Current, CancelPlans
  <2>1. plan[t] = "shadow" /\ t \notin TurnsOf(FanOf[receiver[r].event])
    BY DEF CancelPlans, CancelledPlans
  <2>2. receiver[r].event # e
    BY <2>1 DEF TurnsOf
  <2>3. e \in basis[t] \/ \E q \in Receivers : receiver[q].pc = "plans" /\ receiver[q].event = e
    BY <2>1 DEF IInv, Current
  <2> QED
    BY <1>2, <2>2, <2>3
<1> QED
  BY <1>1, <1>2, <1>4, <1>5, <1>6 DEF IInv

LEMMA CancelTurnsKeeps ==
    ASSUME IInv, NEW r \in Receivers, CancelTurns(r)
    PROVE  IInv'
<1>1. /\ Held' /\ receiver' \in [Receivers -> ReceiverRecord]
      /\ \A q \in Receivers \ {r} : receiver'[q] = receiver[q]
  BY LeaveKeeps DEF CancelTurns
<1>2. StatusOnly
  BY CancelledTyped DEF CancelTurns, TurnsOf
<1>3. TypeOK'
  BY <1>1, <1>2, StatusKeeps
     DEF CancelTurns, IInv, TypeOK, StatusOnly, ReceiverRecord, TurnRecord
<1>4. receiver[r].event \notin Messages /\ receiver[r].pc # "plans"
  BY DEF CancelTurns
<1>5. MembersUnlessMissed' /\ Current'
  BY <1>1, <1>4 DEF CancelTurns, IInv, MembersUnlessMissed, Current
<1> QED
  BY <1>1, <1>2, <1>3, <1>5, StatusKeeps DEF IInv

LEMMA DisableKeeps ==
    ASSUME IInv, NEW r \in Receivers, Disable(r)
    PROVE  IInv'
<1>1. Opened' /\ Timed'
  BY TurnsAlone DEF PlannersOn, Disable, rows
<1>2. receiver[r].event = 0 /\ receiver[r].pc = "idle"
  BY DEF Disable, Idle
<1>3. /\ Held' /\ receiver' \in [Receivers -> ReceiverRecord]
      /\ \A q \in Receivers \ {r} : receiver'[q] = receiver[q]
      /\ receiver'[r].pc = "allPlans" /\ receiver'[r].event = receiver[r].event
  BY <1>2, MoveKeeps DEF Disable, rows
<1>4. TypeOK'
  BY <1>3 DEF Disable, rows, IInv, TypeOK, Members, ReceiverRecord
<1>5. MembersUnlessMissed' /\ Current'
  BY <1>2, <1>3 DEF Disable, rows, IInv, MembersUnlessMissed, Current
<1> QED
  BY <1>1, <1>3, <1>4, <1>5 DEF IInv

LEMMA CancelAllPlansKeeps ==
    ASSUME IInv, NEW r \in Receivers, CancelAllPlans(r)
    PROVE  IInv'
<1>1. Opened' /\ Timed'
  BY TurnsAlone DEF PlannersOn, CancelAllPlans
<1>2. receiver[r].event = 0 /\ receiver[r].pc = "allPlans"
  BY DEF CancelAllPlans, IInv, Held
<1>3. /\ Held' /\ receiver' \in [Receivers -> ReceiverRecord]
      /\ \A q \in Receivers \ {r} : receiver'[q] = receiver[q]
      /\ receiver'[r].pc = "allTurns" /\ receiver'[r].event = receiver[r].event
  BY <1>2, MoveKeeps DEF CancelAllPlans
<1>4. plan' \in [Messages -> {"none", "shadow", "cancelled"}]
  BY DEF CancelAllPlans, CancelledPlans, IInv, TypeOK
<1>5. TypeOK'
  BY <1>3, <1>4 DEF CancelAllPlans, IInv, TypeOK, Members, ReceiverRecord
<1>6. MembersUnlessMissed'
  BY <1>2, <1>3 DEF CancelAllPlans, IInv, MembersUnlessMissed
<1>7. \A t \in Messages : plan'[t] # "shadow"
  BY DEF CancelAllPlans, CancelledPlans
<1>8. Current'
  BY <1>7 DEF Current
<1> QED
  BY <1>1, <1>3, <1>5, <1>6, <1>8 DEF IInv

LEMMA CancelAllTurnsKeeps ==
    ASSUME IInv, NEW r \in Receivers, CancelAllTurns(r)
    PROVE  IInv'
<1>1. /\ Held' /\ receiver' \in [Receivers -> ReceiverRecord]
      /\ \A q \in Receivers \ {r} : receiver'[q] = receiver[q]
  BY LeaveKeeps DEF CancelAllTurns
<1>2. StatusOnly
  BY CancelledTyped DEF CancelAllTurns
<1>3. TypeOK'
  BY <1>1, <1>2, StatusKeeps
     DEF CancelAllTurns, IInv, TypeOK, StatusOnly, ReceiverRecord, TurnRecord
<1>4. receiver[r].event \notin Messages /\ receiver[r].pc # "plans"
  BY DEF CancelAllTurns, IInv, Held
<1>5. MembersUnlessMissed' /\ Current'
  BY <1>1, <1>4 DEF CancelAllTurns, IInv, MembersUnlessMissed, Current
<1> QED
  BY <1>1, <1>2, <1>3, <1>5, StatusKeeps DEF IInv

LEMMA SaveSettingsKeeps ==
    ASSUME IInv, NEW r \in Receivers, SaveSettings(r)
    PROVE  IInv'
<1>1. Opened' /\ Timed'
  BY TurnsAlone DEF PlannersOn, SaveSettings, rows
<1>2. TypeOK'
  BY DEF SaveSettings, rows, IInv, TypeOK, Members
<1>3. Held' /\ MembersUnlessMissed' /\ Current'
  BY DEF SaveSettings, rows, IInv, Held, MembersUnlessMissed, Current
<1> QED
  BY <1>1, <1>2, <1>3 DEF IInv

LEMMA InterruptKeeps ==
    ASSUME IInv, NEW r \in Receivers, Interrupt(r)
    PROVE  IInv'
<1>1. Opened' /\ Timed'
  BY TurnsAlone DEF PlannersOn, Interrupt, rows
<1>2. /\ Held' /\ receiver' \in [Receivers -> ReceiverRecord]
      /\ \A q \in Receivers \ {r} : receiver'[q] = receiver[q]
  BY LeaveKeeps DEF Interrupt, rows
<1>3. {receiver[r].event} \cap Events \subseteq stored
  BY DEF IInv, Held, Events
<1>4. TypeOK'
  BY <1>2, <1>3 DEF Interrupt, rows, IInv, TypeOK, Members, ReceiverRecord
<1>5. MembersUnlessMissed'
  BY <1>2 DEF Interrupt, rows, IInv, MembersUnlessMissed, Events
<1>6. Current'
  <2> SUFFICES ASSUME NEW t \in Messages, NEW e \in stored \ missed', plan[t] = "shadow",
                      FanOf[e] = FanOf[t]
               PROVE  e \in basis[t] \/ \E q \in Receivers : receiver'[q].pc = "plans"
                                                              /\ receiver'[q].event = e
    BY DEF Current, Interrupt, rows
  <2>1. e \notin missed /\ e # receiver[r].event
    BY DEF Interrupt, IInv, TypeOK
  <2>2. e \in basis[t] \/ \E q \in Receivers : receiver[q].pc = "plans" /\ receiver[q].event = e
    BY <2>1 DEF IInv, Current
  <2> QED
    BY <1>2, <2>1, <2>2
<1> QED
  BY <1>1, <1>2, <1>4, <1>5, <1>6 DEF IInv

-----------------------------------------------------------------------------
LEMMA PlanStartKeeps ==
    ASSUME IInv, NEW p \in Planners, NEW t \in Messages, PlanStart(p, t)
    PROVE  IInv'
<1>1. Opened' /\ Timed'
  BY TurnsAlone DEF PlannersOn, PlanStart, rows
<1>2. TypeOK'
  BY DEF PlanStart, rows, IInv, TypeOK, Members
<1>3. Held' /\ MembersUnlessMissed' /\ Current'
  BY DEF PlanStart, rows, IInv, Held, MembersUnlessMissed, Current
<1> QED
  BY <1>1, <1>2, <1>3 DEF IInv

LEMMA PlanFallbackKeeps ==
    ASSUME IInv, NEW p \in Planners, PlanFallback(p)
    PROVE  IInv'
<1>1. Opened' /\ Timed'
  BY TurnsAlone DEF PlannersOn, PlanFallback, rows
<1>2. TypeOK'
  BY DEF PlanFallback, rows, IInv, TypeOK, Members
<1>3. Held' /\ MembersUnlessMissed' /\ Current'
  BY DEF PlanFallback, rows, IInv, Held, MembersUnlessMissed, Current
<1> QED
  BY <1>1, <1>2, <1>3 DEF IInv

LEMMA TickKeeps ==
    ASSUME IInv, Tick
    PROVE  IInv'
<1>1. Opened' /\ Timed'
  BY TurnsAlone DEF PlannersOn, Tick, rows
<1>2. TypeOK'
  BY DEF Tick, rows, IInv, TypeOK, Members
<1>3. Held' /\ MembersUnlessMissed' /\ Current'
  BY DEF Tick, rows, IInv, Held, MembersUnlessMissed, Current
<1> QED
  BY <1>1, <1>2, <1>3 DEF IInv

LEMMA CloseReadyKeeps ==
    ASSUME IInv, CloseReady
    PROVE  IInv'
<1>1. turn \in [Messages -> TurnRecord]
  BY DEF IInv, TypeOK, TurnRecord
<1>2. \A t \in Messages :
         \/ turn'[t] = [turn[t] EXCEPT !.status = "ready"] /\ turn[t].status = "collecting"
         \/ turn'[t] = turn[t]
  BY DEF CloseReady
<1>3. turn' \in [Messages -> TurnRecord]
  BY <1>1, <1>2 DEF CloseReady, TurnRecord, Open
<1>4. StatusOnly
  BY <1>1, <1>2, <1>3 DEF CloseReady, StatusOnly, TurnRecord
<1>5. TypeOK'
  BY <1>4, StatusKeeps DEF CloseReady, IInv, TypeOK, StatusOnly, TurnRecord
<1>6. Held' /\ MembersUnlessMissed' /\ Current'
  BY DEF CloseReady, IInv, Held, MembersUnlessMissed, Current
<1> QED
  BY <1>4, <1>5, <1>6, StatusKeeps DEF IInv

LEMMA PlanSaveKeeps ==
    ASSUME IInv, NEW p \in Planners, PlanSave(p)
    PROVE  IInv'
<1> DEFINE t == planner[p]
<1>1. t \in Messages /\ turn[t].status # "none"
  BY DEF PlanSave, IInv, TypeOK, Opened
<1>2. turn \in [Messages -> TurnRecord] /\ planner \in [Planners -> Messages \cup {0}]
  BY DEF IInv, TypeOK, TurnRecord
<1>3. \/ turn' = [turn EXCEPT ![t] = [turn[t] EXCEPT !.status = "planned"]]
      \/ turn' = turn
  BY DEF PlanSave
<1>4. turn' \in [Messages -> TurnRecord]
  BY <1>1, <1>2, <1>3 DEF TurnRecord, Open
<1>5. StatusOnly
  <2>1. \A u \in Messages : /\ turn'[u].started = turn[u].started
                             /\ turn'[u].latest = turn[u].latest
                             /\ turn'[u].closes = turn[u].closes
                             /\ turn'[u].quiet = turn[u].quiet
                             /\ (turn'[u].status = "none") = (turn[u].status = "none")
    BY <1>1, <1>2, <1>3 DEF TurnRecord
  <2>2. \A q \in Planners : planner'[q] \in {planner[q], 0}
    BY <1>2 DEF PlanSave
  <2>3. link' = link
    BY DEF PlanSave
  <2> QED
    BY <1>4, <2>1, <2>2, <2>3 DEF StatusOnly
<1>6. /\ plan' \in [Messages -> {"none", "shadow", "cancelled"}]
      /\ basis' \in [Messages -> SUBSET Events]
      /\ planner' \in [Planners -> Messages \cup {0}]
  <2>1. /\ plan \in [Messages -> {"none", "shadow", "cancelled"}]
        /\ basis \in [Messages -> SUBSET Events] /\ stored \subseteq Events
    BY DEF IInv, TypeOK
  <2>2. plan' = plan \/ plan' = [plan EXCEPT ![t] = "shadow"]
    BY DEF PlanSave
  <2>3. basis' = basis \/ basis' = [basis EXCEPT ![t] = stored]
    BY DEF PlanSave
  <2>4. planner' = [planner EXCEPT ![p] = 0]
    BY DEF PlanSave
  <2> HIDE DEF t
  <2>5. plan' \in [Messages -> {"none", "shadow", "cancelled"}]
    BY <2>1, <2>2
  <2>6. basis' \in [Messages -> SUBSET Events]
    BY <2>1, <2>3
  <2>7. planner' \in [Planners -> Messages \cup {0}]
    BY <1>2, <2>4
  <2> QED
    BY <2>5, <2>6, <2>7
<1>7. TypeOK'
  BY <1>4, <1>5, <1>6, StatusKeeps DEF PlanSave, IInv, TypeOK, StatusOnly, TurnRecord
<1>8. Held' /\ MembersUnlessMissed'
  BY DEF PlanSave, IInv, Held, MembersUnlessMissed
<1>9. Current'
  <2> SUFFICES ASSUME NEW u \in Messages, NEW e \in stored \ missed,
                      plan'[u] = "shadow", FanOf[e] = FanOf[u]
               PROVE  e \in basis'[u] \/ \E q \in Receivers : receiver[q].pc = "plans"
                                                               /\ receiver[q].event = e
    BY DEF Current, PlanSave
  <2>1. CASE u = t /\ plan[t] = "none"
    BY <1>1, <2>1 DEF PlanSave, IInv, TypeOK
  <2>2. CASE ~(u = t /\ plan[t] = "none")
    <3>1. plan[u] = "shadow" /\ basis'[u] = basis[u]
      BY <1>1, <2>2 DEF PlanSave, IInv, TypeOK
    <3> QED
      BY <3>1 DEF IInv, Current
  <2> QED
    BY <2>1, <2>2
<1> QED
  BY <1>5, <1>7, <1>8, <1>9, StatusKeeps DEF IInv

-----------------------------------------------------------------------------
(* add_inbound.                                                            *)

\* What one more message does to the members of the turns.
LEMMA MembersAdded ==
    ASSUME IInv, NEW m \in Messages, NEW t \in Messages, link[m] = 0,
           link' = [link EXCEPT ![m] = t]
    PROVE  /\ Members(t)' = Members(t) \cup {m} /\ m \notin Members(t)
           /\ \A u \in Messages \ {t} : Members(u)' = Members(u)
           /\ link' \in [Messages -> Messages \cup {0}] /\ link'[m] = t
           /\ \A k \in Messages \ {m} : link'[k] = link[k]
<1>1. link \in [Messages -> Messages \cup {0}]
  BY DEF IInv, TypeOK
<1>2. /\ link' \in [Messages -> Messages \cup {0}] /\ link'[m] = t
      /\ \A k \in Messages \ {m} : link'[k] = link[k]
  BY <1>1
<1>3. \A u \in Messages : link[m] # u
  OBVIOUS
<1>4. Members(t)' = Members(t) \cup {m} /\ m \notin Members(t)
  BY <1>2, <1>3 DEF Members
<1>5. \A u \in Messages \ {t} : Members(u)' = Members(u)
  BY <1>2, <1>3 DEF Members
<1> QED
  BY <1>2, <1>4, <1>5

\* What the type invariant asks of the turns and the links.
LinksTyped ==
    /\ turn \in [Messages -> TurnRecord]
    /\ link \in [Messages -> Messages \cup {0}]
    /\ \A t \in Messages : (turn[t].status = "none") = (Members(t) = {})

\* A message that joins a turn.
LEMMA JoinKeeps ==
    ASSUME IInv, NEW m \in Messages, NEW t \in Messages, link[m] = 0, Join(m, t),
           UNCHANGED planner
    PROVE  LinksTyped' /\ Opened' /\ Timed'
<1> DEFINE started == Min({turn[t].started, At[m]})
           latest  == Max({turn[t].latest, At[m]})
           closes  == started + Window
           quiet   == QuietUntil(latest, closes)
<1>1. turn \in [Messages -> TurnRecord] /\ Opened /\ Timed
  BY DEF IInv, TypeOK, TurnRecord
<1>2. turn[t].status = "collecting" /\ Cardinality(Members(t)) < MaxMessages
  <2>1. turn[t].status = "collecting" /\ ~(Cardinality(Members(t)) >= MaxMessages)
    BY DEF Join, Candidates, Fits, Full
  <2>2. IsFiniteSet(Members(t))
    BY <1>1, <2>1 DEF Timed, TimedTurn
  <2>3. Cardinality(Members(t)) \in Nat
    BY <2>2, FS_CardinalityType
  <2> QED
    BY <2>1, <2>3
<1>3. /\ started \in {turn[t].started, At[m]}
      /\ started <= turn[t].started /\ started <= At[m] /\ started \in Nat
  <2>1. turn[t].started \in Nat /\ At[m] \in Nat
    BY <1>1 DEF TurnRecord
  <2>2. turn[t].started \in Int /\ At[m] \in Int
    BY <2>1
  <2>3. started \in {turn[t].started, At[m]} /\ started <= turn[t].started /\ started <= At[m]
    BY <2>2, MinOfTwo
  <2> QED
    BY <2>1, <2>3
<1>4. /\ latest \in {turn[t].latest, At[m]}
      /\ turn[t].latest <= latest /\ At[m] <= latest /\ latest \in Nat
  <2>1. turn[t].latest \in Nat /\ At[m] \in Nat
    BY <1>1 DEF TurnRecord
  <2>2. turn[t].latest \in Int /\ At[m] \in Int
    BY <2>1
  <2>3. latest \in {turn[t].latest, At[m]} /\ turn[t].latest <= latest /\ At[m] <= latest
    BY <2>2, MaxOfTwo
  <2> QED
    BY <2>1, <2>3
<1>5. quiet \in Nat /\ quiet <= latest + Debounce /\ closes \in Nat
  <2> HIDE DEF started, latest
  <2>1. closes \in Int /\ latest + Debounce \in Int /\ closes \in Nat /\ latest + Debounce \in Nat
    BY <1>3, <1>4
  <2>2. /\ Min({closes, latest + Debounce}) \in {closes, latest + Debounce}
        /\ Min({closes, latest + Debounce}) <= latest + Debounce
    BY <2>1, MinOfTwo
  <2> QED
    BY <2>1, <2>2 DEF QuietUntil
<1>6. turn'[t] = [status |-> "collecting", started |-> started, latest |-> latest,
                  closes |-> closes, quiet |-> quiet]
  BY <1>1 DEF Join, Widened
<1>7. \A u \in Messages \ {t} : turn'[u] = turn[u]
  BY <1>1 DEF Join
<1> HIDE DEF started, latest, closes, quiet
<1>8. turn' \in [Messages -> TurnRecord]
  <2>1. turn'[t] \in TurnRecord
    BY <1>3, <1>4, <1>5, <1>6 DEF TurnRecord, Open
  <2>2. turn' = [turn EXCEPT ![t] = turn'[t]]
    BY <1>1 DEF Join
  <2> QED
    BY <1>1, <2>1, <2>2
<1>9. /\ Members(t)' = Members(t) \cup {m} /\ m \notin Members(t)
      /\ \A u \in Messages \ {t} : Members(u)' = Members(u)
      /\ link' \in [Messages -> Messages \cup {0}] /\ link'[m] = t
      /\ \A k \in Messages \ {m} : link'[k] = link[k]
  BY MembersAdded DEF Join
<1>10. LinksTyped'
  <2>1. \A u \in Messages : (turn[u].status = "none") = (Members(u) = {})
    BY DEF IInv, TypeOK
  <2> QED
    BY <1>6, <1>7, <1>8, <1>9, <2>1 DEF LinksTyped
<1>11. Opened'
  <2>1. \A u \in Messages : turn[u].status # "none" => u # m
    BY <1>1 DEF Opened
  <2>2. link[t] = t
    BY <1>1, <1>2 DEF Opened
  <2>3. planner \in [Planners -> Messages \cup {0}]
    BY DEF IInv, TypeOK
  <2>4. \A u \in Messages : turn'[u].status # "none" => link'[u] = u
    <3>1. CASE t = m
      BY <1>2, <2>1, <3>1
    <3>2. CASE t # m
      BY <1>1, <1>7, <1>9, <2>1, <2>2, <3>2 DEF Opened
    <3> QED
      BY <3>1, <3>2
  <2>5. \A p \in Planners : planner'[p] # 0 => turn'[planner'[p]].status # "none"
    <3> SUFFICES ASSUME NEW p \in Planners, planner[p] # 0
                 PROVE  turn'[planner[p]].status # "none"
      OBVIOUS
    <3>1. planner[p] \in Messages /\ turn[planner[p]].status # "none"
      BY <1>1, <2>3 DEF Opened
    <3>2. turn'[t].status = "collecting"
      BY <1>6
    <3> QED
      BY <1>7, <3>1, <3>2
  <2> QED
    BY <2>4, <2>5 DEF Opened
<1>12. IsFiniteSet(Members(t)') /\ Cardinality(Members(t)') <= MaxMessages
  <2>1. IsFiniteSet(Members(t))
    BY <1>1, <1>2 DEF Timed, TimedTurn
  <2>2. /\ IsFiniteSet(Members(t) \cup {m})
        /\ Cardinality(Members(t) \cup {m}) = Cardinality(Members(t)) + 1
    BY <1>9, <2>1, FS_AddElement
  <2>3. Cardinality(Members(t)) \in Nat
    BY <2>1, FS_CardinalityType
  <2> QED
    BY <1>2, <1>9, <2>2, <2>3
<1>13. TimedTurn(t)'
  <2>1. TimedTurn(t) /\ turn[t] \in TurnRecord
    BY <1>1 DEF Timed
  <2>2. /\ \E k \in Members(t) : turn[t].started = At[k]
        /\ \E k \in Members(t) : turn[t].latest = At[k]
        /\ \A k \in Members(t) : turn[t].started <= At[k] /\ At[k] <= turn[t].latest
    BY <1>2, <2>1 DEF TimedTurn
  <2>3. /\ \E k \in Members(t) \cup {m} : started = At[k]
        /\ \E k \in Members(t) \cup {m} : latest = At[k]
    BY <1>3, <1>4, <2>2
  <2>4. ASSUME NEW k \in Members(t) \cup {m}
        PROVE  started <= At[k] /\ At[k] <= latest
    <3>1. At[k] \in Nat /\ turn[t].started \in Nat /\ turn[t].latest \in Nat
      BY <2>1 DEF Members, TurnRecord
    <3>2. CASE k = m
      BY <1>3, <1>4, <3>2
    <3>3. CASE k \in Members(t)
      BY <1>3, <1>4, <2>2, <3>1, <3>3
    <3> QED
      BY <3>2, <3>3
  <2> QED
    BY <1>5, <1>6, <1>9, <1>12, <2>3, <2>4 DEF TimedTurn, closes
<1>14. \A u \in Messages \ {t} : TimedTurn(u)'
  BY <1>1, <1>7, <1>9 DEF Timed, TimedTurn
<1>15. Timed'
  BY <1>13, <1>14 DEF Timed
<1> QED
  BY <1>10, <1>11, <1>15

\* A message that opens a turn: there is none of its name.
LEMMA StartKeeps ==
    ASSUME IInv, NEW m \in Messages, link[m] = 0, Start(m), UNCHANGED planner
    PROVE  /\ LinksTyped' /\ Opened' /\ Timed'
           /\ turn[m].status = "none"
<1>1. turn \in [Messages -> TurnRecord] /\ Opened /\ Timed
  BY DEF IInv, TypeOK, TurnRecord
<1>2. turn[m].status = "none" /\ Members(m) = {}
  BY <1>1 DEF Opened, IInv, TypeOK
<1>3. turn'[m] = NewTurn(m) /\ \A u \in Messages \ {m} : turn'[u] = turn[u]
  BY <1>1 DEF Start
<1>4. NewTurn(m) \in TurnRecord
  BY DEF NewTurn, TurnRecord, Open
<1>5. turn' \in [Messages -> TurnRecord]
  BY <1>1, <1>4 DEF Start
<1>6. /\ Members(m)' = Members(m) \cup {m}
      /\ \A u \in Messages \ {m} : Members(u)' = Members(u)
      /\ link' \in [Messages -> Messages \cup {0}] /\ link'[m] = m
      /\ \A k \in Messages \ {m} : link'[k] = link[k]
  BY MembersAdded DEF Start
<1>7. LinksTyped'
  <2>1. \A u \in Messages : (turn[u].status = "none") = (Members(u) = {})
    BY DEF IInv, TypeOK
  <2> QED
    BY <1>3, <1>5, <1>6, <2>1 DEF LinksTyped, NewTurn
<1>8. Opened'
  <2>1. planner \in [Planners -> Messages \cup {0}]
    BY DEF IInv, TypeOK
  <2> QED
    BY <1>1, <1>2, <1>3, <1>6, <2>1 DEF Opened, NewTurn
<1>9. Members(m)' = {m}
  BY <1>2, <1>6
<1>10. IsFiniteSet({m}) /\ Cardinality({m}) = 1
  BY FS_Singleton
<1>11. TimedTurn(m)'
  <2>1. /\ turn'[m].started = At[m] /\ turn'[m].latest = At[m]
        /\ turn'[m].closes = At[m] + Window /\ turn'[m].quiet = At[m] + Debounce
    BY <1>3 DEF NewTurn
  <2>2. At[m] \in Nat /\ At[m] <= At[m]
    OBVIOUS
  <2>3. IsFiniteSet(Members(m)') /\ Cardinality(Members(m)') <= MaxMessages
    BY <1>9, <1>10
  <2> QED
    BY <1>9, <2>1, <2>2, <2>3 DEF TimedTurn
<1>12. \A u \in Messages \ {m} : TimedTurn(u)'
  BY <1>1, <1>3, <1>6 DEF Timed, TimedTurn
<1>13. Timed'
  BY <1>11, <1>12 DEF Timed
<1> QED
  BY <1>2, <1>7, <1>8, <1>13

LEMMA AddInboundKeeps ==
    ASSUME IInv, NEW r \in Receivers, AddInbound(r)
    PROVE  IInv'
<1> DEFINE m == receiver[r].event
<1>1. m \in Messages /\ link[m] = 0 /\ receiver[r].pc # "plans" /\ m # 0
  BY DEF AddInbound, IInv, Held
<1>2. LinksTyped' /\ Opened' /\ Timed'
  BY <1>1, JoinKeeps, StartKeeps DEF AddInbound
<1>3. \E t \in Messages : link' = [link EXCEPT ![m] = t]
  BY <1>1 DEF AddInbound, Join, Start
<1>4. link'[m] # 0 /\ \A k \in Messages \ {m} : link'[k] = link[k]
  BY <1>1, <1>3 DEF IInv, TypeOK
<1>5. /\ Held' /\ receiver' \in [Receivers -> ReceiverRecord]
      /\ \A q \in Receivers \ {r} : receiver'[q] = receiver[q]
  BY <1>4, LeaveKeeps DEF AddInbound
<1>6. m \in stored
  BY <1>1 DEF IInv, Held
<1>7. TypeOK'
  BY <1>2, <1>4, <1>5, <1>6
     DEF AddInbound, IInv, TypeOK, LinksTyped, ReceiverRecord, TurnRecord
<1>8. MembersUnlessMissed'
  <2> SUFFICES ASSUME NEW k \in stored \cap Messages
               PROVE  link'[k] # 0 \/ k \in missed \/ \E q \in Receivers : receiver'[q].event = k
    BY DEF MembersUnlessMissed, AddInbound
  <2>1. CASE k = m
    BY <1>4, <2>1
  <2>2. CASE k # m
    <3>1. link[k] # 0 \/ k \in missed \/ \E q \in Receivers : receiver[q].event = k
      BY DEF IInv, MembersUnlessMissed
    <3> QED
      BY <1>4, <1>5, <2>2, <3>1
  <2> QED
    BY <2>1, <2>2
<1>9. Current'
  BY <1>1, <1>5 DEF AddInbound, IInv, Current
<1> QED
  BY <1>2, <1>5, <1>7, <1>8, <1>9 DEF IInv

-----------------------------------------------------------------------------
LEMMA Stuttering ==
    ASSUME IInv, UNCHANGED vars
    PROVE  IInv'
<1>1. Opened' /\ Timed'
  BY TurnsAlone DEF PlannersOn, vars, rows
<1>2. TypeOK'
  BY DEF vars, rows, IInv, TypeOK, Members
<1>3. Held' /\ MembersUnlessMissed' /\ Current'
  BY DEF vars, rows, IInv, Held, MembersUnlessMissed, Current
<1> QED
  BY <1>1, <1>2, <1>3 DEF IInv

LEMMA NextKeeps == IInv /\ [Next]_vars => IInv'
<1> SUFFICES ASSUME IInv, [Next]_vars PROVE IInv'
  OBVIOUS
<1>1. ASSUME NEW r \in Receivers, NEW e \in Events, Receive(r, e) PROVE IInv'
  BY <1>1, ReceiveKeeps
<1>2. ASSUME NEW r \in Receivers,
             CancelPlans(r) \/ CancelTurns(r) \/ AddInbound(r) \/ Disable(r)
             \/ CancelAllPlans(r) \/ CancelAllTurns(r) \/ SaveSettings(r) \/ Interrupt(r)
      PROVE  IInv'
  BY <1>2, CancelPlansKeeps, CancelTurnsKeeps, AddInboundKeeps, DisableKeeps,
     CancelAllPlansKeeps, CancelAllTurnsKeeps, SaveSettingsKeeps, InterruptKeeps
<1>3. ASSUME NEW p \in Planners,
             (\E t \in Messages : PlanStart(p, t)) \/ PlanSave(p) \/ PlanFallback(p)
      PROVE  IInv'
  BY <1>3, PlanStartKeeps, PlanSaveKeeps, PlanFallbackKeeps
<1>4. ASSUME CloseReady \/ Tick PROVE IInv'
  BY <1>4, CloseReadyKeeps, TickKeeps
<1>5. ASSUME UNCHANGED vars PROVE IInv'
  BY <1>5, Stuttering
<1> QED
  BY <1>1, <1>2, <1>3, <1>4, <1>5 DEF Next

LEMMA Invariance == Spec => []IInv
BY Initially, NextKeeps, PTL DEF Spec

-----------------------------------------------------------------------------
\* Every variable keeps its type; a turn has members exactly when it was opened,
\* and only stored messages are linked (the three tables and the switches).
THEOREM TurnsTypeCorrect == Spec => []TypeOK
<1>1. IInv => TypeOK
  BY DEF IInv
<1> QED
  BY <1>1, Invariance, PTL

\* However many requests, stops and switches there are, an observed message ends
\* in a turn (ingest_webhook_message, add_inbound).
THEOREM NoMessageLeftOut == Spec => []MembersUnlessMissed
<1>1. IInv => MembersUnlessMissed
  BY DEF IInv
<1> QED
  BY <1>1, Invariance, PTL

\* Between requests an open plan was saved after all that was observed of its
\* fan (cancel_open_for_fan, save_shadow_plan).
THEOREM OpenPlansAreCurrent == Spec => []OpenPlanIsCurrent
<1>1. IInv => OpenPlanIsCurrent
  BY DEF IInv, Current, OpenPlanIsCurrent, Idle
<1> QED
  BY <1>1, Invariance, PTL

\* A turn's times are the least and the greatest of its messages', in whatever
\* order they came, and it never holds more than the limit (add_inbound).
THEOREM TurnsAreTheirMembers == Spec => []TurnsMatchMembers
<1>1. IInv => TurnsMatchMembers
  <2> SUFFICES ASSUME IInv, NEW t \in Messages, turn[t].status # "none"
               PROVE  LET times == {At[m] : m \in Members(t)} IN
                      /\ turn[t].started = Min(times)
                      /\ turn[t].latest = Max(times)
                      /\ turn[t].closes = turn[t].started + Window
                      /\ turn[t].quiet <= turn[t].latest + Debounce
                      /\ Cardinality(Members(t)) <= MaxMessages
    BY DEF TurnsMatchMembers
  <2> DEFINE times == {At[m] : m \in Members(t)}
  <2>1. times \in SUBSET Int
    <3>1. \A m \in Members(t) : m \in Messages
      BY DEF Members
    <3>2. ASSUME NEW m \in Members(t) PROVE At[m] \in Int
      <4>1. At[m] \in Nat
        BY <3>1
      <4> QED
        BY <4>1
    <3> QED
      BY <3>2
  <2>a. TimedTurn(t)
    BY DEF IInv, Timed
  <2>b. PICK m \in Members(t) : turn[t].started = At[m]
    BY <2>a DEF TimedTurn
  <2>c. PICK n \in Members(t) : turn[t].latest = At[n]
    BY <2>a DEF TimedTurn
  <2>2. turn[t].started \in times /\ turn[t].latest \in times
    BY <2>b, <2>c
  <2>3. \A y \in times : turn[t].started <= y /\ y <= turn[t].latest
    BY <2>a DEF TimedTurn
  <2> HIDE DEF times
  <2>4. Min(times) = turn[t].started
    BY <2>1, <2>2, <2>3, MinIs
  <2>5. Max(times) = turn[t].latest
    BY <2>1, <2>2, <2>3, MaxIs
  <2> QED
    BY <2>4, <2>5 DEF IInv, Timed, TimedTurn, times
<1> QED
  BY <1>1, Invariance, PTL

\* Only a model call that was running already, for a turn without a plan, reopens
\* a cancelled turn: no new message and no close_ready does (add_inbound takes
\* collecting turns only, and opens one under a new name).
THEOREM ReopenedByLatePlanOnly == Spec => ReopenedOnlyByRace
<1> DEFINE Late(t) == plan[t] = "none" /\ \E p \in Planners : planner[p] = t
<1>1. ASSUME IInv, [Next]_vars, NEW t \in Messages,
             turn[t].status = "cancelled", turn'[t].status # "cancelled"
      PROVE  Late(t)
  <2>1. turn \in [Messages -> TurnRecord]
    BY <1>1 DEF IInv, TypeOK, TurnRecord
  <2>2. turn' # turn
    BY <1>1
  <2>3. ASSUME NEW r \in Receivers, AddInbound(r) PROVE FALSE
    <3>1. receiver[r].event \in Messages /\ link[receiver[r].event] = 0
      BY <1>1, <2>3 DEF AddInbound, IInv, Held
    <3>2. ASSUME Start(receiver[r].event) PROVE FALSE
      BY <1>1, <2>1, <2>3, <3>1, <3>2, StartKeeps DEF Start, AddInbound
    <3>3. ASSUME NEW u \in Messages, Join(receiver[r].event, u) PROVE FALSE
      BY <1>1, <2>1, <3>3 DEF Join, Candidates, Fits
    <3> QED
      BY <2>3, <3>2, <3>3 DEF AddInbound
  <2>4. ASSUME NEW r \in Receivers, CancelTurns(r) \/ CancelAllTurns(r) PROVE FALSE
    <3>1. \E T \in SUBSET Messages : turn' = CancelledTurns(T)
      BY <2>4 DEF CancelTurns, CancelAllTurns, TurnsOf
    <3>2. turn'[t] = turn[t] \/ turn'[t] = [turn[t] EXCEPT !.status = "cancelled"]
      BY <3>1 DEF CancelledTurns
    <3> QED
      BY <1>1, <2>1, <3>2 DEF TurnRecord
  <2>5. ASSUME CloseReady PROVE FALSE
    BY <1>1, <2>1, <2>5 DEF CloseReady
  <2>6. ASSUME NEW p \in Planners, PlanSave(p) PROVE Late(t)
    BY <1>1, <2>1, <2>6 DEF PlanSave
  <2> QED
    BY <1>1, <2>2, <2>3, <2>4, <2>5, <2>6
       DEF Next, vars, rows, Receive, CancelPlans, Disable, CancelAllPlans, SaveSettings,
           Interrupt, PlanStart, PlanFallback, Tick
<1>2. IInv /\ [Next]_vars =>
         [\A t \in Messages :
             turn[t].status = "cancelled" /\ turn'[t].status # "cancelled" =>
                 plan[t] = "none" /\ \E p \in Planners : planner[p] = t]_vars
  BY <1>1
<1> QED
  BY <1>2, Invariance, PTL DEF Spec, ReopenedOnlyByRace

-----------------------------------------------------------------------------
\* Connections: whose account a workspace works with.

AccountOrNone == Accounts \cup {None}
RequestRecord == [pc : {"done", "linking", "verifying", "upsert", "cache", "lookup", "import"},
                  id : Ids \cup {Plain(None)}, account : AccountOrNone, free : BOOLEAN,
                  attempt : Attempts \cup {None}, todo : Seq(Accounts)]
AttemptRecord == [open : BOOLEAN, label : Labels \cup {None}, tries : 0..MaxTries, free : BOOLEAN]

\* A request stores over no account but one it found in a free name, or its own; a name with
\* an account in it is for that account.
RequestOK(r) ==
    /\ r.pc \in {"linking", "verifying", "upsert", "cache", "import"} => r.id \in Ids
    /\ r.pc \in {"linking", "verifying", "upsert", "import"} => r.free
    /\ r.pc \in {"linking", "verifying", "upsert"} => r.id[2] = None
    /\ r.pc \in {"upsert", "cache", "import"} => r.account \in Accounts
    /\ r.pc = "import" => r.id[2] \in {None, r.account}

RequestsOK == request \in [Requests -> RequestRecord] /\ \A t \in Requests : RequestOK(request[t])
AttemptOK(x) == x \in AttemptRecord /\ (x.open => x.free /\ x.label \in Labels)
AttemptsOK == /\ attempt \in [Attempts -> AttemptRecord]
              /\ \A n \in Attempts : AttemptOK(attempt[n])

\* The rows and what the dashboard made of them.
RowsOK(k, c) ==
    /\ k \subseteq Ids /\ Legacy.id \in k /\ c \in [Ids -> AccountOrNone]
    /\ \A i \in Ids : c[i] # None => i \in k
    /\ \A i, j \in Ids : c[i] = c[j] /\ c[i] # None => i = j
    /\ \A i \in Ids : i[2] # None => c[i] \in {None, i[2]}
ServicesOK(c, s, u) ==
    /\ s \in [Ids -> AccountOrNone] /\ u \in [Ids -> SUBSET AccountOrNone]
    /\ \A i \in Ids : s[i] \in {None, c[i]} \cup u[i]

ConnectionsInv ==
    /\ RowsOK(creators, connected) /\ ServicesOK(connected, services, superseded)
    /\ RequestsOK /\ AttemptsOK /\ linked \subseteq Accounts

LEMMA IdsAre ==
    /\ \A l \in Labels : Plain(l) \in Ids /\ Plain(l)[2] = None
    /\ \A a \in Accounts : /\ <<NameOf[a], a>> \in Ids /\ <<NameOf[a], a>>[2] = a /\ a # None
                           /\ Plain(NameOf[a]) \in Ids /\ Plain(NameOf[a])[2] = None
    /\ Legacy.id \in Ids /\ Legacy.id[2] = None
<1>1. \A a \in Accounts : NameOf[a] \in Labels /\ a # None
      BY ConnectionsAssumption
<1>2. \A l \in Labels : Plain(l) \in Ids /\ Plain(l)[2] = None
      BY DEF Ids, Plain
<1>3. \A a \in Accounts : <<NameOf[a], a>> \in Ids /\ <<NameOf[a], a>>[2] = a
      BY DEF Ids
<1> QED
    BY <1>1, <1>2, <1>3, ConnectionsAssumption

LEMMA NoRequestOK == NoRequest \in RequestRecord /\ RequestOK(NoRequest)
<1>1. <<>> \in Seq(Accounts)
      OBVIOUS
<1>2. NoRequest \in RequestRecord
      BY <1>1 DEF NoRequest, RequestRecord, AccountOrNone
<1> QED
    BY <1>2 DEF NoRequest, RequestOK

LEMMA NoAttemptOK == AttemptOK(NoAttempt)
BY ConnectionsAssumption DEF NoAttempt, AttemptOK, AttemptRecord

LEMMA MovesOn ==
    ASSUME RequestsOK, NEW t \in Requests, NEW r \in RequestRecord, RequestOK(r), Goto(t, r)
    PROVE  RequestsOK'
<1>1. request \in [Requests -> RequestRecord] /\ request' = [request EXCEPT ![t] = r]
      BY DEF RequestsOK, Goto
<1>2. \A x \in Requests : request'[x] = r \/ request'[x] = request[x]
      BY <1>1
<1>3. \A x \in Requests : RequestOK(request'[x])
      BY <1>2 DEF RequestsOK
<1> QED
    BY <1>1, <1>3 DEF RequestsOK

LEMMA Finishes == ASSUME RequestsOK, NEW t \in Requests, Finish(t) PROVE RequestsOK'
BY MovesOn, NoRequestOK DEF Finish

LEMMA AttemptSet ==
    ASSUME AttemptsOK, NEW n \in Attempts, NEW x, AttemptOK(x),
           attempt' = [attempt EXCEPT ![n] = x]
    PROVE  AttemptsOK'
<1>1. x \in AttemptRecord /\ attempt \in [Attempts -> AttemptRecord]
      BY DEF AttemptOK, AttemptsOK
<1>2. \A m \in Attempts : attempt'[m] = x \/ attempt'[m] = attempt[m]
      BY <1>1
<1>3. \A m \in Attempts : AttemptOK(attempt'[m])
      BY <1>2 DEF AttemptsOK
<1> QED
    BY <1>1, <1>3 DEF AttemptsOK

\* The account of the process is connected where nobody has it.
LEMMA LegacyKept ==
    ASSUME NEW k, NEW c, RowsOK(k, c)
    PROVE  RowsOK(k, WithLegacy(c))
<1>1. CASE c[Legacy.id] = None /\ \A i \in Ids : c[i] # Legacy.account
  <2> DEFINE b == [c EXCEPT ![Legacy.id] = Legacy.account]
  <2>1. WithLegacy(c) = b
        BY <1>1 DEF WithLegacy
  <2>2. /\ b \in [Ids -> AccountOrNone] /\ b[Legacy.id] = Legacy.account
        /\ \A i \in Ids \ {Legacy.id} : b[i] = c[i]
        BY IdsAre, ConnectionsAssumption DEF RowsOK, AccountOrNone
  <2> HIDE DEF b
  <2>3. RowsOK(k, b)
        BY <1>1, <2>2, IdsAre DEF RowsOK
  <2> QED
      BY <2>1, <2>3
<1>2. CASE ~(c[Legacy.id] = None /\ \A i \in Ids : c[i] # Legacy.account)
      BY <1>2 DEF WithLegacy
<1> QED
    BY <1>1, <1>2

LEMMA ConnectionsStart == ConnectionsInit => ConnectionsInv
<1> SUFFICES ASSUME ConnectionsInit PROVE ConnectionsInv
    OBVIOUS
<1> DEFINE none == [i \in Ids |-> None]
<1>1. RowsOK({Legacy.id}, none)
      BY IdsAre DEF RowsOK, AccountOrNone
<1>2. RowsOK(creators, connected)
      BY <1>1, LegacyKept DEF ConnectionsInit
<1>3. ServicesOK(connected, services, superseded)
      BY DEF ConnectionsInit, ServicesOK, AccountOrNone
<1>4. RequestsOK
      BY NoRequestOK DEF ConnectionsInit, RequestsOK
<1>5. AttemptsOK
      BY NoAttemptOK DEF ConnectionsInit, AttemptsOK, AttemptOK
<1>6. linked \subseteq Accounts
      BY ConnectionsAssumption DEF ConnectionsInit
<1> QED
    BY <1>2, <1>3, <1>4, <1>5, <1>6 DEF ConnectionsInv

LEMMA ConnectKeeps ==
    ASSUME ConnectionsInv, NEW t \in Requests, NEW l \in Labels, Connect(t, l) PROVE ConnectionsInv'
<1> DEFINE r == [NoRequest EXCEPT !.pc = "linking", !.id = Plain(l), !.free = connected[Plain(l)] = None]
<1>1. FreeLabel(Plain(l)) /\ Goto(t, r)
      /\ UNCHANGED <<creators, connected, linked, attempt, services, superseded>>
      BY DEF Connect, tables, inProcess
<1>2. r.pc = "linking" /\ r.id = Plain(l) /\ r.free /\ r \in RequestRecord
      BY <1>1, IdsAre, NoRequestOK DEF FreeLabel, RequestRecord
<1>3. RequestOK(r)
      BY <1>2, IdsAre DEF RequestOK
<1> HIDE DEF r
<1>4. RequestsOK'
      BY <1>1, <1>2, <1>3, MovesOn DEF ConnectionsInv
<1> QED
    BY <1>1, <1>4 DEF ConnectionsInv, AttemptsOK

\* Once the provider has answered, the account is stored under the name that was free.
LEMMA ToUpsert ==
    ASSUME NEW r \in RequestRecord, RequestOK(r), r.pc \in {"linking", "verifying"},
           NEW a \in Accounts, NEW n \in {r.attempt, None},
           NEW q, q = [r EXCEPT !.pc = "upsert", !.account = a, !.attempt = n]
    PROVE  q \in RequestRecord /\ RequestOK(q)
<1>1. q \in RequestRecord /\ q.pc = "upsert" /\ q.account = a /\ q.id = r.id /\ q.free = r.free
      BY DEF RequestRecord, AccountOrNone
<1> QED
    BY <1>1 DEF RequestOK

LEMMA LinkingKeeps ==
    ASSUME ConnectionsInv, NEW t \in Requests, Linking(t) PROVE ConnectionsInv'
<1>1. UNCHANGED <<creators, connected, services, superseded>>
      BY DEF Linking, tables
<1>2. PICK r \in RequestRecord : r = request[t] /\ RequestOK(r)
      BY DEF ConnectionsInv, RequestsOK
<1>3. CASE \E a \in Accounts :
             /\ linked' = linked \cup {a}
             /\ Goto(t, [request[t] EXCEPT !.pc = "upsert", !.account = a])
             /\ UNCHANGED attempt
  <2>1. PICK a \in Accounts : /\ linked' = linked \cup {a} /\ UNCHANGED attempt
                              /\ Goto(t, [request[t] EXCEPT !.pc = "upsert", !.account = a])
        BY <1>3
  <2>2. PICK q : q = [r EXCEPT !.pc = "upsert", !.account = a]
        OBVIOUS
  <2>3. q = [r EXCEPT !.pc = "upsert", !.account = a, !.attempt = r.attempt]
        BY <2>2 DEF RequestRecord
  <2>4. q \in RequestRecord /\ RequestOK(q)
        BY <1>2, <2>3, ToUpsert DEF Linking
  <2>5. Goto(t, q)
        BY <1>2, <2>1, <2>2
  <2>6. RequestsOK'
        BY <2>4, <2>5, MovesOn DEF ConnectionsInv
  <2> QED
      BY <1>1, <2>1, <2>6 DEF ConnectionsInv, AttemptsOK
<1>4. CASE \E n \in Attempts :
             /\ ~attempt[n].open
             /\ attempt' = [attempt EXCEPT ![n] = [open |-> TRUE, label |-> request[t].id[1],
                                                   tries |-> 0, free |-> request[t].free]]
             /\ Finish(t) /\ UNCHANGED linked
  <2>1. PICK n \in Attempts :
             /\ attempt' = [attempt EXCEPT ![n] = [open |-> TRUE, label |-> r.id[1],
                                                   tries |-> 0, free |-> r.free]]
             /\ Finish(t) /\ UNCHANGED linked
        BY <1>2, <1>4
  <2>2. r.id \in Ids /\ r.id[2] = None /\ r.free
        BY <1>2 DEF Linking, RequestOK
  <2>3. r.id[1] \in Labels
        BY <2>2, ConnectionsAssumption DEF Ids, Plain
  <2>4. AttemptOK([open |-> TRUE, label |-> r.id[1], tries |-> 0, free |-> r.free])
        BY <2>2, <2>3, ConnectionsAssumption DEF AttemptOK, AttemptRecord
  <2>5. AttemptsOK'
        BY <2>1, <2>4, AttemptSet DEF ConnectionsInv
  <2>6. RequestsOK'
        BY <2>1, Finishes DEF ConnectionsInv
  <2> QED
      BY <1>1, <2>1, <2>5, <2>6 DEF ConnectionsInv
<1>5. CASE Finish(t) /\ UNCHANGED <<linked, attempt>>
  <2>1. RequestsOK'
        BY <1>5, Finishes DEF ConnectionsInv
  <2> QED
      BY <1>1, <1>5, <2>1 DEF ConnectionsInv, AttemptsOK
<1> QED
    BY <1>3, <1>4, <1>5 DEF Linking

LEMMA VerifyKeeps ==
    ASSUME ConnectionsInv, NEW t \in Requests, NEW n \in Attempts, Verify(t, n) PROVE ConnectionsInv'
<1>1. UNCHANGED <<creators, connected, linked, services, superseded>>
      BY DEF Verify, tables
<1>2. PICK x \in AttemptRecord : x = attempt[n] /\ x.open /\ x.free /\ x.label \in Labels
      BY DEF Verify, ConnectionsInv, AttemptsOK, AttemptOK
<1>3. CASE attempt[n].tries < MaxTries
  <2> DEFINE r == [NoRequest EXCEPT !.pc = "verifying", !.id = Plain(x.label), !.free = x.free, !.attempt = n]
  <2>1. attempt' = [attempt EXCEPT ![n].tries = @ + 1] /\ Goto(t, r)
        BY <1>2, <1>3 DEF Verify
  <2>2. r.pc = "verifying" /\ r.id = Plain(x.label) /\ r.free /\ r \in RequestRecord
        BY <1>2, IdsAre, NoRequestOK DEF RequestRecord
  <2>3. RequestOK(r)
        BY <1>2, <2>2, IdsAre DEF RequestOK
  <2> HIDE DEF r
  <2>4. RequestsOK'
        BY <2>1, <2>2, <2>3, MovesOn DEF ConnectionsInv
  <2>5. PICK y : y = [x EXCEPT !.tries = x.tries + 1]
        OBVIOUS
  <2>6. x.tries \in 0..MaxTries /\ x.tries < MaxTries
        BY <1>2, <1>3 DEF AttemptRecord
  <2>7. AttemptOK(y)
        BY <1>2, <2>5, <2>6, ConnectionsAssumption DEF AttemptOK, AttemptRecord
  <2>8. attempt' = [attempt EXCEPT ![n] = y]
        BY <1>2, <2>1, <2>5
  <2>9. AttemptsOK'
        BY <2>7, <2>8, AttemptSet DEF ConnectionsInv
  <2> QED
      BY <1>1, <2>4, <2>9 DEF ConnectionsInv
<1>4. CASE ~(attempt[n].tries < MaxTries)
  <2>1. attempt' = [attempt EXCEPT ![n] = NoAttempt] /\ UNCHANGED request
        BY <1>4 DEF Verify
  <2>2. AttemptsOK'
        BY <2>1, NoAttemptOK, AttemptSet DEF ConnectionsInv
  <2> QED
      BY <1>1, <2>1, <2>2 DEF ConnectionsInv, RequestsOK
<1> QED
    BY <1>3, <1>4

LEMMA VerifyingKeeps ==
    ASSUME ConnectionsInv, NEW t \in Requests, Verifying(t) PROVE ConnectionsInv'
<1>1. UNCHANGED <<creators, connected, services, superseded>>
      BY DEF Verifying, tables
<1>2. PICK r \in RequestRecord : r = request[t] /\ RequestOK(r)
      BY DEF ConnectionsInv, RequestsOK
<1>3. CASE \E a \in Accounts :
             /\ linked' = linked \cup {a}
             /\ attempt' = [attempt EXCEPT ![request[t].attempt] = NoAttempt]
             /\ Goto(t, [request[t] EXCEPT !.pc = "upsert", !.account = a, !.attempt = None])
  <2>1. PICK a \in Accounts :
             /\ linked' = linked \cup {a}
             /\ attempt' = [attempt EXCEPT ![r.attempt] = NoAttempt]
             /\ Goto(t, [r EXCEPT !.pc = "upsert", !.account = a, !.attempt = None])
        BY <1>2, <1>3
  <2>2. PICK q : q = [r EXCEPT !.pc = "upsert", !.account = a, !.attempt = None]
        OBVIOUS
  <2>3. q \in RequestRecord /\ RequestOK(q)
        BY <1>2, <2>2, ToUpsert DEF Verifying
  <2>4. RequestsOK'
        BY <2>1, <2>2, <2>3, MovesOn DEF ConnectionsInv
  <2>5. AttemptsOK'
    <3>1. CASE r.attempt \in Attempts
          BY <2>1, <3>1, NoAttemptOK, AttemptSet DEF ConnectionsInv
    <3>2. CASE r.attempt \notin Attempts
      <4>1. attempt' = attempt
            BY <2>1, <3>2 DEF ConnectionsInv, AttemptsOK
      <4> QED
          BY <4>1 DEF ConnectionsInv, AttemptsOK
    <3> QED
        BY <3>1, <3>2
  <2> QED
      BY <1>1, <2>1, <2>4, <2>5 DEF ConnectionsInv
<1>4. CASE Finish(t) /\ UNCHANGED <<linked, attempt>>
  <2>1. RequestsOK'
        BY <1>4, Finishes DEF ConnectionsInv
  <2> QED
      BY <1>1, <1>4, <2>1 DEF ConnectionsInv, AttemptsOK
<1> QED
    BY <1>3, <1>4 DEF Verifying

LEMMA ExpireKeeps ==
    ASSUME ConnectionsInv, NEW n \in Attempts, Expire(n) PROVE ConnectionsInv'
<1>1. /\ UNCHANGED <<creators, connected, linked, services, superseded, request>>
      /\ attempt' = [attempt EXCEPT ![n] = NoAttempt]
      BY DEF Expire, tables
<1>2. AttemptsOK'
      BY <1>1, NoAttemptOK, AttemptSet DEF ConnectionsInv
<1> QED
    BY <1>1, <1>2 DEF ConnectionsInv, RequestsOK

\* An account that nobody else has is stored over the one there was, which is superseded.
LEMMA StoreKeeps ==
    ASSUME RowsOK(creators, connected), ServicesOK(connected, services, superseded),
           NEW t \in Requests, request[t].free, NEW id \in Ids, NEW a \in Accounts,
           id[2] \in {None, a}, ~Taken(id, a), Store(t, id, a), UNCHANGED services
    PROVE  RowsOK(creators', connected') /\ ServicesOK(connected', services', superseded')
<1>1. \A i \in Ids : connected[i] = a => i = id
      BY DEF Taken, Owner
<1>2. /\ creators' = creators \cup {id} /\ connected \in [Ids -> AccountOrNone]
      /\ connected' \in [Ids -> AccountOrNone]
      /\ connected'[id] = a /\ \A i \in Ids \ {id} : connected'[i] = connected[i]
      BY DEF RowsOK, Store, AccountOrNone
<1>3. RowsOK(creators', connected')
  <2>1. \A i, j \in Ids : connected'[i] = connected'[j] /\ connected'[i] # None => i = j
        BY <1>1, <1>2 DEF RowsOK
  <2>2. \A i \in Ids : i[2] # None => connected'[i] \in {None, i[2]}
        BY <1>2 DEF RowsOK
  <2>3. \A i \in Ids : connected'[i] # None => i \in creators'
        BY <1>2 DEF RowsOK
  <2> QED
      BY <1>2, <2>1, <2>2, <2>3 DEF RowsOK
<1>4. superseded \in [Ids -> SUBSET AccountOrNone]
      BY DEF ServicesOK
<1>5. CASE connected[id] \in {None, a}
  <2>1. superseded' = superseded
        BY <1>5 DEF Store
  <2>2. \A i \in Ids : services'[i] \in {None, connected'[i]} \cup superseded'[i]
        BY <1>2, <1>5, <2>1 DEF ServicesOK
  <2> QED
      BY <1>3, <2>1, <2>2 DEF ServicesOK
<1>6. CASE connected[id] \notin {None, a}
  <2>1. superseded' = [superseded EXCEPT ![id] = @ \cup {connected[id]}]
        BY <1>6 DEF Store
  <2>2. /\ superseded' \in [Ids -> SUBSET AccountOrNone]
        /\ superseded'[id] = superseded[id] \cup {connected[id]}
        /\ \A i \in Ids \ {id} : superseded'[i] = superseded[i]
        BY <1>2, <1>4, <2>1
  <2>3. \A i \in Ids : services'[i] \in {None, connected'[i]} \cup superseded'[i]
        BY <1>2, <2>2 DEF ServicesOK
  <2> QED
      BY <1>3, <2>2, <2>3 DEF ServicesOK
<1> QED
    BY <1>5, <1>6

\* What follows a row, or the refusal of it.
LEMMA UpsertKeeps ==
    ASSUME ConnectionsInv, NEW t \in Requests, Upsert(t) \/ Import(t) PROVE ConnectionsInv'
<1>1. PICK r \in RequestRecord : r = request[t] /\ RequestOK(r) /\ r.pc \in {"upsert", "import"}
      BY DEF ConnectionsInv, RequestsOK, Upsert, Import
<1>2. UNCHANGED <<linked, attempt, services>>
      BY DEF Upsert, Import, inProcess
<1>3. r.id \in Ids /\ r.account \in Accounts /\ r.free /\ r.id[2] \in {None, r.account}
      BY <1>1 DEF RequestOK
<1>4. CASE Taken(r.id, r.account)
  <2>1. Finish(t) /\ UNCHANGED <<creators, connected, superseded>>
        BY <1>1, <1>4 DEF Upsert, Import, tables
  <2>2. RequestsOK'
        BY <2>1, Finishes DEF ConnectionsInv
  <2> QED
      BY <1>2, <2>1, <2>2 DEF ConnectionsInv, AttemptsOK
<1>5. CASE ~Taken(r.id, r.account)
  <2>1. PICK pc \in {"cache", "lookup"} : Store(t, r.id, r.account) /\ Goto(t, [r EXCEPT !.pc = pc])
        BY <1>1, <1>5 DEF Upsert, Import
  <2>2. PICK q : q = [r EXCEPT !.pc = pc]
        OBVIOUS
  <2>3. q \in RequestRecord /\ q.pc = pc /\ q.id = r.id /\ q.account = r.account
        BY <2>2 DEF RequestRecord
  <2>4. RequestOK(q)
        BY <1>3, <2>3 DEF RequestOK
  <2>5. RequestsOK'
        BY <2>1, <2>2, <2>3, <2>4, MovesOn DEF ConnectionsInv
  <2>6. RowsOK(creators', connected') /\ ServicesOK(connected', services', superseded')
        BY <1>1, <1>2, <1>3, <1>5, <2>1, StoreKeeps DEF ConnectionsInv
  <2> QED
      BY <1>2, <2>5, <2>6 DEF ConnectionsInv, AttemptsOK
<1> QED
    BY <1>4, <1>5

LEMMA CacheKeeps ==
    ASSUME ConnectionsInv, NEW t \in Requests, Cache(t) PROVE ConnectionsInv'
<1>1. Finish(t) /\ UNCHANGED <<creators, connected, superseded, linked, attempt, services>>
      BY DEF Cache, tables
<1>2. RequestsOK'
      BY <1>1, Finishes DEF ConnectionsInv
<1> QED
    BY <1>1, <1>2 DEF ConnectionsInv, AttemptsOK

LEMMA SyncKeeps ==
    ASSUME ConnectionsInv, NEW t \in Requests, Sync(t) PROVE ConnectionsInv'
<1>1. UNCHANGED <<creators, connected, superseded, linked, attempt, services>>
      BY DEF Sync, tables, inProcess
<1>2. PICK todo \in SetToSeqs(linked) : Goto(t, [NoRequest EXCEPT !.pc = "lookup", !.todo = todo])
      BY DEF Sync
<1>3. linked \subseteq Accounts /\ IsFiniteSet(linked)
      BY ConnectionsAssumption, FS_Subset DEF ConnectionsInv
<1>4. Cardinality(linked) \in Nat
      BY <1>3, FS_CardinalityType
<1>5. todo \in [1..Cardinality(linked) -> Accounts]
      BY <1>2, <1>3 DEF SetToSeqs
<1>6. todo \in Seq(Accounts)
      BY <1>4, <1>5, SeqDef
<1>7. PICK q : q = [NoRequest EXCEPT !.pc = "lookup", !.todo = todo]
      OBVIOUS
<1>8. q \in RequestRecord /\ q.pc = "lookup"
      BY <1>6, <1>7, NoRequestOK DEF RequestRecord
<1>9. RequestOK(q)
      BY <1>8 DEF RequestOK
<1>10. RequestsOK'
       BY <1>2, <1>7, <1>8, <1>9, MovesOn DEF ConnectionsInv
<1> QED
    BY <1>1, <1>10 DEF ConnectionsInv, AttemptsOK

LEMMA LookupKeeps ==
    ASSUME ConnectionsInv, NEW t \in Requests, Lookup(t) PROVE ConnectionsInv'
<1>1. UNCHANGED <<creators, connected, superseded, linked, attempt, services>>
      BY DEF Lookup, tables, inProcess
<1>2. PICK r \in RequestRecord : r = request[t]
      BY DEF ConnectionsInv, RequestsOK
<1>3. CASE r.todo = <<>>
  <2>1. Finish(t)
        BY <1>2, <1>3 DEF Lookup
  <2>2. RequestsOK'
        BY <2>1, Finishes DEF ConnectionsInv
  <2> QED
      BY <1>1, <2>2 DEF ConnectionsInv, AttemptsOK
<1>4. CASE r.todo # <<>>
  <2> DEFINE a == Head(r.todo)
             id == IF Owner(a) # {} THEN CHOOSE i \in Owner(a) : TRUE ELSE Available(a)
             free == connected[id] \in {None, a}
  <2>1. Goto(t, [r EXCEPT !.pc = "import", !.id = id, !.account = a, !.free = free, !.todo = Tail(r.todo)])
        BY <1>2, <1>4 DEF Lookup
  <2>2. a \in Accounts /\ Tail(r.todo) \in Seq(Accounts)
        BY <1>4 DEF RequestRecord
  <2>3. id \in Ids /\ id[2] \in {None, a} /\ free
    <3>1. RowsOK(creators, connected)
          BY DEF ConnectionsInv
    <3> HIDE DEF a
    <3>2. CASE Owner(a) # {}
      <4>1. id \in Owner(a)
            BY <3>2
      <4>2. id \in Ids /\ connected[id] = a
            BY <4>1 DEF Owner
      <4> HIDE DEF id
      <4> QED
          BY <2>2, <3>1, <4>2, IdsAre DEF RowsOK
    <3>3. CASE Owner(a) = {} /\ Plain(NameOf[a]) \notin creators
      <4>1. id = Plain(NameOf[a])
            BY <3>3 DEF Available
      <4> HIDE DEF id
      <4> QED
          BY <2>2, <3>1, <3>3, <4>1, IdsAre DEF RowsOK
    <3>4. CASE Owner(a) = {} /\ Plain(NameOf[a]) \in creators
      <4>1. id = <<NameOf[a], a>>
            BY <3>4 DEF Available
      <4> HIDE DEF id
      <4> QED
          BY <2>2, <3>1, <4>1, IdsAre DEF RowsOK
    <3> QED
        BY <3>2, <3>3, <3>4
  <2> HIDE DEF a, id
  <2>4. PICK q : q = [r EXCEPT !.pc = "import", !.id = id, !.account = a, !.free = free, !.todo = Tail(r.todo)]
        OBVIOUS
  <2>5. q \in RequestRecord /\ q.pc = "import" /\ q.id = id /\ q.account = a /\ q.free
        BY <2>2, <2>3, <2>4 DEF RequestRecord, AccountOrNone
  <2>6. RequestOK(q)
        BY <2>2, <2>3, <2>5 DEF RequestOK
  <2>7. RequestsOK'
        BY <2>1, <2>4, <2>5, <2>6, MovesOn DEF ConnectionsInv
  <2> QED
      BY <1>1, <2>7 DEF ConnectionsInv, AttemptsOK
<1> QED
    BY <1>3, <1>4

\* A service is made of the account there is.
LEMMA WorkspaceKeeps ==
    ASSUME ConnectionsInv, NEW id \in Ids, OpenWorkspace(id) PROVE ConnectionsInv'
<1>1. /\ UNCHANGED <<creators, connected, superseded, linked, attempt, request>>
      /\ services' = [services EXCEPT ![id] = IF @ = None THEN connected[id] ELSE @]
      BY DEF OpenWorkspace, tables
<1>2. /\ services \in [Ids -> AccountOrNone] /\ connected \in [Ids -> AccountOrNone]
      BY DEF ConnectionsInv, RowsOK, ServicesOK
<1>3. /\ services' \in [Ids -> AccountOrNone]
      /\ services'[id] \in {services[id], connected[id]}
      /\ \A i \in Ids \ {id} : services'[i] = services[i]
      BY <1>1, <1>2
<1>4. \A i \in Ids : services'[i] \in {None, connected[i]} \cup superseded[i]
      BY <1>3 DEF ConnectionsInv, ServicesOK
<1>5. ServicesOK(connected', services', superseded')
      BY <1>1, <1>3, <1>4 DEF ConnectionsInv, ServicesOK
<1> QED
    BY <1>1, <1>5 DEF ConnectionsInv, AttemptsOK, RequestsOK

LEMMA DashboardStarts == ConnectionsInv /\ StartDashboard => ConnectionsInv'
<1> SUFFICES ASSUME ConnectionsInv, StartDashboard PROVE ConnectionsInv'
    OBVIOUS
<1>1. /\ UNCHANGED <<creators, superseded, linked>> /\ connected' = WithLegacy(connected)
      /\ attempt' = [n \in Attempts |-> NoAttempt] /\ services' = [i \in Ids |-> None]
      /\ request' = [t \in Requests |-> NoRequest]
      BY DEF StartDashboard
<1>2. RowsOK(creators', connected')
      BY <1>1, LegacyKept DEF ConnectionsInv
<1>3. ServicesOK(connected', services', superseded')
      BY <1>1 DEF ConnectionsInv, ServicesOK, AccountOrNone
<1>4. RequestsOK'
      BY <1>1, NoRequestOK DEF RequestsOK
<1>5. AttemptsOK'
      BY <1>1, NoAttemptOK DEF AttemptsOK, AttemptOK
<1> QED
    BY <1>1, <1>2, <1>3, <1>4, <1>5 DEF ConnectionsInv

LEMMA ConnectionsStep == ConnectionsInv /\ [ConnectionsNext]_connectionVars => ConnectionsInv'
<1> SUFFICES ASSUME ConnectionsInv, [ConnectionsNext]_connectionVars PROVE ConnectionsInv'
    OBVIOUS
<1>1. CASE ConnectionsNext
      BY <1>1, ConnectKeeps, VerifyKeeps, LinkingKeeps, VerifyingKeeps, UpsertKeeps, CacheKeeps,
         SyncKeeps, LookupKeeps, ExpireKeeps, WorkspaceKeeps, DashboardStarts DEF ConnectionsNext
<1>2. CASE UNCHANGED connectionVars
      BY <1>2 DEF connectionVars, tables, inProcess, ConnectionsInv, RequestsOK, AttemptsOK
<1> QED
    BY <1>1, <1>2

LEMMA ConnectionsHold == ConnectionsInv => WorkspaceIsCreators
<1> SUFFICES ASSUME ConnectionsInv PROVE WorkspaceIsCreators
    OBVIOUS
<1>1. ASSUME NEW a \in Accounts PROVE Cardinality(Owner(a)) <= 1
  <2>1. \A i, j \in Owner(a) : i = j
        BY <1>1, ConnectionsAssumption DEF ConnectionsInv, RowsOK, Owner
  <2>2. CASE Owner(a) = {}
        BY <2>2, FS_EmptySet
  <2>3. CASE Owner(a) # {}
    <3>1. PICK i : i \in Owner(a)
          BY <2>3
    <3>2. Owner(a) = {i}
          BY <2>1, <3>1, Zenon
    <3>3. Cardinality({i}) = 1
          BY FS_Singleton, Zenon
    <3> QED
        BY <3>2, <3>3
  <2> QED
      BY <2>2, <2>3
<1> QED
    BY <1>1 DEF WorkspaceIsCreators, ConnectionsInv, RowsOK, ServicesOK

\* A creator's workspace works with the creator's account or one a request replaced, an account
\* belongs to one creator, and every connection to a creator there is: for any accounts, names,
\* requests and restarts (WorkspaceIsCreators).
THEOREM WorkspaceHasItsAccount == ConnectionsSpec => []WorkspaceIsCreators
<1>1. ConnectionsSpec => []ConnectionsInv
      BY ConnectionsStart, ConnectionsStep, PTL DEF ConnectionsSpec
<1> QED
    BY <1>1, ConnectionsHold, PTL
=============================================================================
