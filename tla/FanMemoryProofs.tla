---------------------------- MODULE FanMemoryProofs ----------------------------
(***************************************************************************)
(* Proofs about FanMemory for any facts, fields, messages and delays: its  *)
(* types, which facts are in force, that V3's state never goes back to     *)
(* older evidence, and that a used subject waits out its cooldown.         *)
(*                                                                         *)
(* Then about Recovery, for any number of chats, messages, pages and       *)
(* errors: the poll passes over nobody without a reason.  Its invariant    *)
(* says what the stored head stands for: as long as it is still the newest *)
(* message of a chat that a poll would list first, nobody below it waits.  *)
(***************************************************************************)
EXTENDS FanMemory, Recovery, FiniteSetTheorems, SequenceTheorems, TLAPS

\* What the proofs use of the constants.
LEMMA MessageTimes == (\A m \in Messages \cup {0} : m \in Nat) /\ MaxNow \in Nat /\ MaxWrites \in Nat
BY FanMemoryAssumption

LEMMA Delays == \A s \in BOOLEAN : Delay[s] \in Nat /\ Cooldown[s] \in Nat
BY FanMemoryAssumption

\* The greatest of some numbers exists: Newest returns it.
HasNewest(values) == \E n \in values \cup {0} : \A k \in values : k <= n

\* A turn that goes on is about a message; the rows of the fields have a newest
\* source and a highest version, and the rows an evaluation has yet to write are
\* not older than any of them.
Ordered ==
    /\ turn.pc # "idle" => turn.of \in Messages
    /\ HasNewest({field[d].source : d \in Fields})
    /\ HasNewest({field[d].version : d \in Fields})
    /\ turn.pc = "record" =>
          \A d \in Fields : field[d].source <= turn.of /\ field[d].version <= turn.version

\* No time is ahead of the clock, and after a use the subject is safe only when
\* its cooldown has run out or the fan has named it again.
Waits ==
    /\ callback.usedAt <= now
    /\ callback.usedAt > 0 =>
          \/ callback.safeAt >= callback.usedAt + Cooldown[callback.sensitive]
          \/ callback.mentionedAt >= callback.usedAt

\* The inductive invariant.
IInv == TypeOK /\ OneActivePerType /\ SaidIsActive /\ Ordered /\ Waits

FactStatus == {"none", "active", "superseded", "inactive"}
FieldRow == [source : Messages \cup {0}, version : Nat]
CallbackRow == [known : BOOLEAN, sensitive : BOOLEAN, safeAt : Nat, usedAt : Nat,
                mentionedAt : Nat]
TurnRow == [pc : {"idle", "record", "offer", "deliver"}, of : Messages \cup {0},
            left : SUBSET Fields, version : Nat, offered : BOOLEAN]

\* The parts of the invariant by the variables they read.
FactsOK ==
    /\ fact \in [Facts -> FactStatus]
    /\ extracting \in [busy : BOOLEAN, todo : Seq(Facts)]
    /\ said \in [of : Facts \cup {0}, known : BOOLEAN]
    /\ OneActivePerType /\ SaidIsActive
StateOK ==
    /\ field \in [Fields -> FieldRow] /\ turn \in TurnRow
    /\ Ordered
CallbackOK == callback \in CallbackRow /\ Waits /\ now \in 0..MaxNow
CountsOK == answered \subseteq Messages /\ writes \in 0..MaxWrites /\ faults \in 0..MaxFaults

LEMMA Parts == IInv <=> FactsOK /\ StateOK /\ CallbackOK /\ CountsOK
BY DEF IInv, TypeOK, FactsOK, StateOK, CallbackOK, CountsOK, FactStatus, FieldRow,
       CallbackRow, TurnRow

LEMMA PartsNext == FactsOK' /\ StateOK' /\ CallbackOK' /\ CountsOK' => IInv'
BY DEF IInv, TypeOK, FactsOK, StateOK, CallbackOK, CountsOK, FactStatus, FieldRow,
       CallbackRow, TurnRow

-----------------------------------------------------------------------------
\* Newest returns the greatest of the values where there is one.
LEMMA NewestIsGreatest ==
    ASSUME NEW values \in SUBSET Nat, HasNewest(values)
    PROVE  Newest(values) \in Nat /\ \A k \in values : k <= Newest(values)
<1>1. Newest(values) \in values \cup {0} /\ \A k \in values : k <= Newest(values)
  BY DEF HasNewest, Newest
<1>2. \A n \in values \cup {0} : n \in Nat
  OBVIOUS
<1>3. Newest(values) \in Nat
  BY <1>1, <1>2
<1> QED
  BY <1>1, <1>3

LEMMA RowsAreNumbers ==
    ASSUME field \in [Fields -> FieldRow]
    PROVE  \A d \in Fields : field[d].source \in Nat /\ field[d].version \in Nat
<1> SUFFICES ASSUME NEW d \in Fields PROVE field[d].source \in Nat /\ field[d].version \in Nat
  OBVIOUS
<1>1. field[d] \in FieldRow
  OBVIOUS
<1>2. field[d].source \in Messages \cup {0} /\ field[d].version \in Nat
  BY <1>1 DEF FieldRow
<1> QED
  BY <1>2, MessageTimes

LEMMA TurnIsNumbers ==
    ASSUME turn \in TurnRow
    PROVE  turn.of \in Nat /\ turn.version \in Nat
<1>1. turn.of \in Messages \cup {0} /\ turn.version \in Nat
  BY DEF TurnRow
<1> QED
  BY <1>1, MessageTimes

LEMMA FactsUnchanged ==
    ASSUME FactsOK, UNCHANGED facts
    PROVE  FactsOK'
BY DEF FactsOK, facts, OneActivePerType, SaidIsActive

LEMMA StateUnchanged ==
    ASSUME StateOK, UNCHANGED <<field, turn>>
    PROVE  StateOK'
BY DEF StateOK, Ordered, HasNewest

\* A turn that does not record puts no condition on the fields.
LEMMA StateBesideTurn ==
    ASSUME StateOK, UNCHANGED field, turn' \in TurnRow, turn'.pc # "record",
           turn'.pc # "idle" => turn'.of \in Messages
    PROVE  StateOK'
BY DEF StateOK, Ordered, HasNewest

LEMMA CallbackUnchanged ==
    ASSUME CallbackOK, UNCHANGED <<callback, now>>
    PROVE  CallbackOK'
BY DEF CallbackOK, Waits

LEMMA Initially == Init => IInv
<1> SUFFICES ASSUME Init PROVE IInv
  OBVIOUS
<1>1. FactsOK
  BY DEF Init, FactsOK, FactStatus, Free, NoFact, OneActivePerType, SaidIsActive
<1>2. StateOK
  <2>1. field \in [Fields -> FieldRow] /\ turn \in TurnRow
    BY DEF Init, FieldRow, TurnRow, NoTurn
  <2>2. HasNewest({field[d].source : d \in Fields}) /\ HasNewest({field[d].version : d \in Fields})
    BY DEF Init, HasNewest
  <2>3. turn.pc = "idle"
    BY DEF Init, NoTurn
  <2> QED
    BY <2>1, <2>2, <2>3 DEF StateOK, Ordered
<1>3. CallbackOK
  BY MessageTimes DEF Init, CallbackOK, CallbackRow, NoCallback, Waits
<1>4. CountsOK
  BY FanMemoryAssumption DEF Init, CountsOK
<1> QED
  BY <1>1, <1>2, <1>3, <1>4, Parts

-----------------------------------------------------------------------------
(* Facts.                                                                  *)

\* Remembering a fact leaves one of its type active, itself unless it was known
\* and out of force before.
LEMMA RememberedKeeps ==
    ASSUME FactsOK, NEW f \in Facts
    PROVE  /\ Remembered(f) \in [Facts -> FactStatus]
           /\ \A g, h \in Facts : Remembered(f)[g] = "active" /\ Remembered(f)[h] = "active"
                                  /\ TypeOf[g] = TypeOf[h] => g = h
           /\ fact[f] \in {"none", "active"} => Remembered(f)[f] = "active"
<1>1. \A g \in Facts : fact[g] \in FactStatus
  BY DEF FactsOK
<1>2. Remembered(f) \in [Facts -> FactStatus]
  BY <1>1 DEF Remembered, FactStatus
<1>3. ASSUME NEW g \in Facts, Remembered(f)[g] = "active"
      PROVE  IF g = f THEN fact[f] \in {"none", "active"}
                      ELSE fact[g] = "active" /\ g \notin Rivals(f)
  BY <1>3, <1>1 DEF Remembered, Rivals, FactStatus
<1>4. ASSUME NEW g \in Facts, g # f, g \notin Rivals(f)
      PROVE  TypeOf[g] # TypeOf[f]
  BY <1>4 DEF Rivals
<1>5. ASSUME NEW g \in Facts, NEW h \in Facts, Remembered(f)[g] = "active",
             Remembered(f)[h] = "active", TypeOf[g] = TypeOf[h]
      PROVE  g = h
  <2>1. CASE g = f
    BY <2>1, <1>5, <1>3, <1>4
  <2>2. CASE h = f
    BY <2>2, <1>5, <1>3, <1>4
  <2>3. CASE g # f /\ h # f
    BY <2>3, <1>5, <1>3 DEF FactsOK, OneActivePerType
  <2> QED
    BY <2>1, <2>2, <2>3
<1>6. fact[f] \in {"none", "active"} => Remembered(f)[f] = "active"
  BY DEF Remembered, Rivals
<1> QED
  BY <1>2, <1>5, <1>6

LEMMA BatchesAreFacts == Batches \subseteq Seq(Facts)
<1> SUFFICES ASSUME NEW b \in Batches PROVE b \in Seq(Facts)
  OBVIOUS
<1>1. ASSUME NEW f \in Facts, b = <<f>> PROVE b \in Seq(Facts)
  BY <1>1
<1>2. ASSUME NEW f \in Facts, NEW g \in Facts, b = <<f, g>> PROVE b \in Seq(Facts)
  BY <1>2
<1> QED
  BY <1>1, <1>2 DEF Batches

LEMMA ExtractKeeps ==
    ASSUME IInv, NEW found \in Batches, Extract(found)
    PROVE  IInv'
<1> FactsOK /\ StateOK /\ CallbackOK /\ CountsOK
  BY Parts
<1>1. FactsOK'
  BY BatchesAreFacts DEF Extract, FactsOK, OneActivePerType, SaidIsActive
<1>2. CountsOK'
  <2>1. Len(found) \in Nat
    BY BatchesAreFacts
  <2> QED
    BY <2>1, MessageTimes DEF Extract, CountsOK
<1> QED
  BY <1>1, <1>2, StateUnchanged, CallbackUnchanged, PartsNext DEF Extract

LEMMA WriteKeeps ==
    ASSUME IInv, Write
    PROVE  IInv'
<1> FactsOK /\ StateOK /\ CallbackOK /\ CountsOK
  BY Parts
<1> DEFINE f == Head(extracting.todo)
<1>1. /\ extracting \in [busy : BOOLEAN, todo : Seq(Facts)]
      /\ extracting.todo \in Seq(Facts) /\ extracting.todo # <<>>
  BY DEF Write, FactsOK
<1>2. f \in Facts /\ Tail(extracting.todo) \in Seq(Facts)
  BY <1>1
<1>3. fact' = Remembered(f) /\ said' = [of |-> f, known |-> fact[f] \in {"superseded", "inactive"}]
  BY DEF Write
<1>4. extracting' \in [busy : BOOLEAN, todo : Seq(Facts)]
  BY <1>1, <1>2 DEF Write
<1>5. fact[f] \in FactStatus
  BY <1>2 DEF FactsOK
<1> HIDE DEF f
<1>6. fact' \in [Facts -> FactStatus] /\ OneActivePerType'
  BY <1>2, <1>3, RememberedKeeps DEF OneActivePerType
<1>7. said'.of = f /\ said'.known = (fact[f] \in {"superseded", "inactive"})
      /\ said' \in [of : Facts \cup {0}, known : BOOLEAN]
  BY <1>2, <1>3
<1>8. SaidIsActive'
  BY <1>2, <1>3, <1>5, <1>7, RememberedKeeps DEF SaidIsActive, FactStatus
<1>9. FactsOK'
  BY <1>4, <1>6, <1>7, <1>8 DEF FactsOK
<1>10. CountsOK'
  BY DEF Write, CountsOK, bounds
<1> QED
  BY <1>9, <1>10, StateUnchanged, CallbackUnchanged, PartsNext DEF Write

LEMMA ExtractedKeeps ==
    ASSUME IInv, Extracted
    PROVE  IInv'
<1> FactsOK /\ StateOK /\ CallbackOK /\ CountsOK
  BY Parts
<1>1. FactsOK'
  BY DEF Extracted, FactsOK, Free, OneActivePerType, SaidIsActive
<1>2. CountsOK'
  BY FanMemoryAssumption DEF Extracted, CountsOK
<1> QED
  BY <1>1, <1>2, StateUnchanged, CallbackUnchanged, PartsNext DEF Extracted

LEMMA DeactivateKeeps ==
    ASSUME IInv, NEW f \in Facts, Deactivate(f)
    PROVE  IInv'
<1> FactsOK /\ StateOK /\ CallbackOK /\ CountsOK
  BY Parts
<1>1. fact' = [fact EXCEPT ![f] = "inactive"] /\ said' = IF said.of = f THEN NoFact ELSE said
  BY DEF Deactivate
<1>2. fact \in [Facts -> FactStatus] /\ said \in [of : Facts \cup {0}, known : BOOLEAN]
  BY DEF FactsOK
<1>3. fact' \in [Facts -> FactStatus] /\ said' \in [of : Facts \cup {0}, known : BOOLEAN]
  BY <1>1, <1>2 DEF FactStatus, NoFact
<1>4. \A g \in Facts : fact'[g] = IF g = f THEN "inactive" ELSE fact[g]
  BY <1>1, <1>2
<1>5. OneActivePerType'
  BY <1>4 DEF FactsOK, OneActivePerType
<1>6. SaidIsActive'
  BY <1>1, <1>2, <1>4 DEF FactsOK, SaidIsActive, NoFact
<1>7. FactsOK'
  BY <1>3, <1>5, <1>6 DEF FactsOK, Deactivate
<1>8. CountsOK'
  BY MessageTimes DEF Deactivate, CountsOK
<1> QED
  BY <1>7, <1>8, StateUnchanged, CallbackUnchanged, PartsNext DEF Deactivate

-----------------------------------------------------------------------------
(* The state and the callback.                                             *)

LEMMA EvaluateKeeps ==
    ASSUME IInv, NEW m \in Messages, NEW moved \in SUBSET Fields, Evaluate(m, moved)
    PROVE  IInv'
<1> FactsOK /\ StateOK /\ CallbackOK /\ CountsOK
  BY Parts
<1> DEFINE sources == {field[d].source : d \in Fields}
           versions == {field[d].version : d \in Fields}
<1>1. \A d \in Fields : field[d].source \in Nat /\ field[d].version \in Nat
  BY RowsAreNumbers DEF StateOK
<1>2. sources \in SUBSET Nat /\ versions \in SUBSET Nat
  BY <1>1
<1>3. HasNewest(sources) /\ HasNewest(versions)
  BY DEF StateOK, Ordered
<1> HIDE DEF sources, versions
<1>4. LastSource \in Nat /\ \A k \in sources : k <= LastSource
  <2>1. Newest(sources) \in Nat /\ \A k \in sources : k <= Newest(sources)
    BY <1>2, <1>3, NewestIsGreatest
  <2>2. LastSource = Newest(sources)
    BY DEF LastSource, sources
  <2> QED
    BY <2>1, <2>2
<1>5. Version \in Nat /\ \A k \in versions : k <= Version
  <2>1. Newest(versions) \in Nat /\ \A k \in versions : k <= Newest(versions)
    BY <1>2, <1>3, NewestIsGreatest
  <2>2. Version = Newest(versions)
    BY DEF Version, versions
  <2> QED
    BY <2>1, <2>2
<1>6. \A d \in Fields : field[d].source <= LastSource /\ field[d].version <= Version
  BY <1>4, <1>5 DEF sources, versions
<1>7. StateOK'
  <2>1. CASE m > LastSource
    <3>1. turn' = [pc |-> "record", of |-> m, left |-> moved, version |-> Version + 1,
                   offered |-> FALSE]
      BY <2>1 DEF Evaluate
    <3>2. turn' \in TurnRow
      BY <3>1, <1>5 DEF TurnRow
    <3>3. turn'.of = m /\ turn'.version = Version + 1
      BY <3>1
    <3>4. ASSUME NEW d \in Fields
          PROVE  field[d].source <= m /\ field[d].version <= Version + 1
      BY <1>1, <1>4, <1>5, <1>6, <2>1, MessageTimes
    <3> QED
      BY ZenonT(30), <3>2, <3>3, <3>4 DEF StateOK, Ordered, HasNewest, Evaluate
  <2>2. CASE ~(m > LastSource)
    <3>1. turn' = [pc |-> "offer", of |-> m, left |-> {}, version |-> 0, offered |-> FALSE]
      BY <2>2 DEF Evaluate
    <3>2. turn' \in TurnRow /\ turn'.pc # "record" /\ turn'.of \in Messages
      BY <3>1 DEF TurnRow
    <3> QED
      BY <3>2, StateBesideTurn DEF Evaluate
  <2> QED
    BY <2>1, <2>2
<1>8. CountsOK'
  BY DEF Evaluate, CountsOK, bounds
<1> QED
  BY <1>7, <1>8, FactsUnchanged, CallbackUnchanged, PartsNext DEF Evaluate

\* A row that is not older than any becomes the newest.
LEMMA RecordKeeps ==
    ASSUME IInv, NEW d \in Fields, Record(d)
    PROVE  IInv'
<1> FactsOK /\ StateOK /\ CallbackOK /\ CountsOK
  BY Parts
<1> DEFINE row == [source |-> turn.of, version |-> turn.version]
<1>1. turn \in TurnRow /\ field \in [Fields -> FieldRow] /\ turn.pc = "record"
  BY DEF Record, StateOK
<1>2. row \in FieldRow
  BY <1>1 DEF TurnRow, FieldRow
<1>3. field' = [field EXCEPT ![d] = row]
  BY DEF Record
<1>4. field' \in [Fields -> FieldRow]
  BY <1>1, <1>2, <1>3
<1>5. turn' = [turn EXCEPT !.left = turn.left \ {d}]
  BY DEF Record
<1>6. turn' \in TurnRow /\ turn'.of = turn.of /\ turn'.version = turn.version
  BY <1>1, <1>5 DEF TurnRow
<1>7. \A e \in Fields : field'[e] = IF e = d THEN row ELSE field[e]
  BY <1>1, <1>3
<1>8. turn.of \in Nat /\ turn.version \in Nat
  BY <1>1, TurnIsNumbers
<1>9. \A e \in Fields : field'[e].source <= turn.of /\ field'[e].version <= turn.version
  BY <1>1, <1>7, <1>8 DEF StateOK, Ordered
<1>10. field'[d].source = turn.of /\ field'[d].version = turn.version
  BY <1>7
<1> HIDE DEF row
<1>11. HasNewest({field'[e].source : e \in Fields})
  BY <1>9, <1>10 DEF HasNewest
<1>12. HasNewest({field'[e].version : e \in Fields})
  BY <1>9, <1>10 DEF HasNewest
<1>13. Ordered'
  <2>1. turn'.of \in Messages
    BY <1>1, <1>6 DEF StateOK, Ordered
  <2> QED
    BY <2>1, <1>6, <1>9, <1>11, <1>12 DEF Ordered
<1>a. StateOK'
  BY <1>4, <1>6, <1>13 DEF StateOK
<1>14. CountsOK'
  BY DEF Record, CountsOK, bounds
<1> QED
  BY <1>a, <1>14, FactsUnchanged, CallbackUnchanged, PartsNext DEF Record

LEMMA RecordedKeeps ==
    ASSUME IInv, Recorded
    PROVE  IInv'
<1> FactsOK /\ StateOK /\ CallbackOK /\ CountsOK
  BY Parts
<1>1. turn \in TurnRow /\ turn' = [turn EXCEPT !.pc = "offer"]
  BY DEF Recorded, StateOK
<1>2. turn' \in TurnRow /\ turn'.pc # "record" /\ turn'.of = turn.of
  BY <1>1 DEF TurnRow
<1>3. turn.of \in Messages
  BY DEF Recorded, StateOK, Ordered
<1> StateOK'
  BY <1>2, <1>3, StateBesideTurn DEF Recorded
<1>4. CallbackOK'
  <2>1. CASE turn.of \in Mentions
    <3> DEFINE s == turn.of \in Sensitive
    <3>1. callback' = [callback EXCEPT !.known = TRUE, !.sensitive = s,
                                       !.safeAt = turn.of + Delay[s], !.mentionedAt = now]
      BY <2>1 DEF Recorded, Mentioned
    <3>a. s \in BOOLEAN
      OBVIOUS
    <3>2. s \in BOOLEAN /\ turn.of \in Nat /\ Delay[s] \in Nat
      BY <3>a, <1>3, MessageTimes, Delays
    <3>3. callback \in CallbackRow /\ now \in Nat /\ UNCHANGED now
      BY MessageTimes DEF CallbackOK, Recorded
    <3> HIDE DEF s
    <3>b. callback' = [known |-> TRUE, sensitive |-> s, safeAt |-> turn.of + Delay[s],
                       usedAt |-> callback.usedAt, mentionedAt |-> now]
      BY <3>1, <3>3 DEF CallbackRow
    <3>4. callback' \in CallbackRow
      BY <3>b, <3>2, <3>3 DEF CallbackRow
    <3>5. callback'.usedAt = callback.usedAt /\ callback'.mentionedAt = now
      BY <3>1, <3>3 DEF CallbackRow
    <3> QED
      BY <3>3, <3>4, <3>5 DEF CallbackOK, Waits
  <2>2. CASE turn.of \notin Mentions
    BY <2>2, CallbackUnchanged DEF Recorded
  <2> QED
    BY <2>1, <2>2
<1>5. CountsOK'
  BY DEF Recorded, CountsOK, bounds
<1> QED
  BY <1>4, <1>5, FactsUnchanged, PartsNext DEF Recorded

LEMMA DraftKeeps ==
    ASSUME IInv, NEW takeUp \in BOOLEAN, Draft(takeUp)
    PROVE  IInv'
<1> FactsOK /\ StateOK /\ CallbackOK /\ CountsOK
  BY Parts
<1>1. turn \in TurnRow /\ turn' = [turn EXCEPT !.pc = "deliver", !.offered = takeUp]
  BY DEF Draft, StateOK
<1>2. turn' \in TurnRow /\ turn'.pc # "record" /\ turn'.of = turn.of
  BY <1>1 DEF TurnRow
<1>3. CountsOK'
  BY DEF Draft, CountsOK, bounds
<1>4. turn.of \in Messages
  BY DEF Draft, StateOK, Ordered
<1> QED
  BY <1>2, <1>3, <1>4, StateBesideTurn, FactsUnchanged, CallbackUnchanged, PartsNext DEF Draft

LEMMA NoTurnIsTurn == NoTurn \in TurnRow /\ NoTurn.pc = "idle" /\ NoTurn.offered = FALSE
BY DEF NoTurn, TurnRow

LEMMA DeliverKeeps ==
    ASSUME IInv, Deliver
    PROVE  IInv'
<1> FactsOK /\ StateOK /\ CallbackOK /\ CountsOK
  BY Parts
<1>1. StateOK'
  BY NoTurnIsTurn, StateBesideTurn DEF Deliver
<1>2. CallbackOK'
  <2>1. CASE turn.offered
    <3>1. callback' = [callback EXCEPT !.usedAt = now,
                                       !.safeAt = now + Cooldown[callback.sensitive]]
      BY <2>1 DEF Deliver, Used
    <3>2. callback \in CallbackRow /\ now \in Nat /\ UNCHANGED now
      BY MessageTimes DEF CallbackOK, Deliver
    <3>3. callback.sensitive \in BOOLEAN
      BY <3>2 DEF CallbackRow
    <3>4. Cooldown[callback.sensitive] \in Nat
      BY <3>3, Delays
    <3>a. callback' = [known |-> callback.known, sensitive |-> callback.sensitive,
                       safeAt |-> now + Cooldown[callback.sensitive],
                       usedAt |-> now, mentionedAt |-> callback.mentionedAt]
      BY <3>1, <3>2 DEF CallbackRow
    <3>b. callback.known \in BOOLEAN /\ callback.mentionedAt \in Nat
      BY <3>2 DEF CallbackRow
    <3>5. callback' \in CallbackRow
      BY <3>a, <3>b, <3>2, <3>3, <3>4 DEF CallbackRow
    <3>6. /\ callback'.usedAt = now /\ callback'.sensitive = callback.sensitive
          /\ callback'.safeAt = now + Cooldown[callback.sensitive]
      BY <3>1, <3>2 DEF CallbackRow
    <3> QED
      BY <3>2, <3>4, <3>5, <3>6 DEF CallbackOK, Waits
  <2>2. CASE ~turn.offered
    BY <2>2, CallbackUnchanged DEF Deliver
  <2> QED
    BY <2>1, <2>2
<1>3. CountsOK'
  <2>1. turn.of \in Messages
    BY DEF Deliver, StateOK, Ordered
  <2> QED
    BY <2>1 DEF Deliver, CountsOK, bounds
<1> QED
  BY <1>1, <1>2, <1>3, FactsUnchanged, PartsNext DEF Deliver
LEMMA AbandonKeeps ==
    ASSUME IInv, Abandon
    PROVE  IInv'
<1> FactsOK /\ StateOK /\ CallbackOK /\ CountsOK
  BY Parts
<1>1. StateOK'
  BY NoTurnIsTurn, StateBesideTurn DEF Abandon
<1>2. CountsOK'
  BY FanMemoryAssumption DEF Abandon, CountsOK
<1> QED
  BY <1>1, <1>2, FactsUnchanged, CallbackUnchanged, PartsNext DEF Abandon

LEMMA TickKeeps ==
    ASSUME IInv, Tick
    PROVE  IInv'
<1> FactsOK /\ StateOK /\ CallbackOK /\ CountsOK
  BY Parts
<1>1. CallbackOK'
  <2>1. callback.usedAt \in Nat
    BY DEF CallbackOK, CallbackRow
  <2> QED
    BY <2>1, MessageTimes DEF Tick, CallbackOK, Waits
<1>2. CountsOK'
  BY DEF Tick, CountsOK, bounds
<1> QED
  BY <1>1, <1>2, FactsUnchanged, StateUnchanged, PartsNext DEF Tick

LEMMA Stuttering ==
    ASSUME IInv, UNCHANGED vars
    PROVE  IInv'
<1>1. CountsOK => CountsOK'
  BY DEF CountsOK, vars, bounds
<1> QED
  BY <1>1, FactsUnchanged, StateUnchanged, CallbackUnchanged, Parts, PartsNext DEF vars

LEMMA NextKeeps ==
    ASSUME IInv, [Next]_vars
    PROVE  IInv'
BY ExtractKeeps, WriteKeeps, ExtractedKeeps, DeactivateKeeps, EvaluateKeeps, RecordKeeps,
   RecordedKeeps, DraftKeeps, DeliverKeeps, AbandonKeeps, TickKeeps, Stuttering DEF Next

LEMMA Invariance == Spec => []IInv
BY Initially, NextKeeps, PTL DEF Spec

-----------------------------------------------------------------------------
\* Every variable keeps its type, for any number of writes, faults and messages
\* (the tables of brain2_repository.py and intelligence_v3/repository.py).
THEOREM MemoryTypeCorrect == Spec => []TypeOK
<1>1. IInv => TypeOK
  BY DEF IInv
<1> QED
  BY <1>1, Invariance, PTL

\* Under one contradiction key no two facts of a type are in force together
\* (remember supersedes before it inserts).
THEOREM OneFactOfAType == Spec => []OneActivePerType
<1>1. IInv => OneActivePerType
  BY DEF IInv
<1> QED
  BY <1>1, Invariance, PTL

\* A fact that is said and was not out of force before is the one in force, until
\* the operator deactivates it (remember, deactivate).
THEOREM WhatIsSaidIsInForce == Spec => []SaidIsActive
<1>1. IInv => SaidIsActive
  BY DEF IInv
<1> QED
  BY <1>1, Invariance, PTL

\* No extraction, correction or confirmation brings a deactivated fact back
\* (remember keeps the status of a stored row).
THEOREM DeactivatedForGood == Spec => DeactivatedStaysOut
<1> DEFINE A == \A f \in Facts : fact[f] = "inactive" => fact'[f] = "inactive"
<1>1. ASSUME IInv, [Next]_vars
      PROVE  A
  <2> SUFFICES ASSUME NEW f \in Facts, fact[f] = "inactive"
               PROVE  fact'[f] = "inactive"
    OBVIOUS
  <2>1. CASE Write
    BY <2>1 DEF Write, Remembered
  <2>2. ASSUME NEW g \in Facts, Deactivate(g)
        PROVE  fact'[f] = "inactive"
    <3>1. fact \in [Facts -> FactStatus]
      BY Parts, <1>1 DEF FactsOK
    <3> QED
      BY <2>2, <3>1 DEF Deactivate
  <2>3. CASE UNCHANGED fact
    BY <2>3
  <2> QED
    BY <1>1, <2>1, <2>2, <2>3
       DEF Next, Extract, Extracted, Evaluate, Record, Recorded, Draft, Deliver, Abandon, Tick,
           vars, facts
<1> QED
  BY <1>1, Invariance, PTL DEF Spec, DeactivatedStaysOut

\* However evaluations, stops and retries follow each other, no field goes back
\* to older evidence or to a lower version (overlay_state, record_transition).
THEOREM StateOnlyMovesOn == Spec => StateNeverStale
<1> DEFINE A == \A d \in Fields : field'[d].source >= field[d].source
                                  /\ field'[d].version >= field[d].version
<1>1. ASSUME IInv, [Next]_vars
      PROVE  A
  <2>1. field \in [Fields -> FieldRow]
    BY Parts, <1>1 DEF StateOK
  <2>2. \A d \in Fields : field[d].source \in Nat /\ field[d].version \in Nat
    BY <2>1, RowsAreNumbers
  <2>3. ASSUME NEW e \in Fields, Record(e)
        PROVE  A
    <3>1. field' = [field EXCEPT ![e] = [source |-> turn.of, version |-> turn.version]]
      BY <2>3 DEF Record
    <3>2. field[e].source <= turn.of /\ field[e].version <= turn.version
      BY Parts, <1>1, <2>3 DEF StateOK, Ordered, Record
    <3>3. turn \in TurnRow
      BY Parts, <1>1 DEF StateOK
    <3>4. turn.of \in Nat /\ turn.version \in Nat
      BY <3>3, TurnIsNumbers
    <3>5. SUFFICES ASSUME NEW d \in Fields
                   PROVE  field'[d].source >= field[d].source
                          /\ field'[d].version >= field[d].version
      OBVIOUS
    <3>6. CASE d = e
      BY <2>1, <2>2, <3>1, <3>2, <3>4, <3>6
    <3>7. CASE d # e
      BY <2>1, <2>2, <3>1, <3>7
    <3> QED
      BY <3>6, <3>7
  <2>4. CASE UNCHANGED field
    BY <2>2, <2>4
  <2> HIDE DEF A
  <2> QED
    BY <1>1, <2>3, <2>4
       DEF Next, Extract, Write, Extracted, Deactivate, Evaluate, Recorded, Draft, Deliver,
           Abandon, Tick, vars
<1> QED
  BY <1>1, Invariance, PTL DEF Spec, StateNeverStale

\* A used subject is not taken up again within the cooldown of its sensitivity,
\* unless the fan has named it since (mark_callback_used, relevant_callbacks).
THEOREM UsedSubjectsWait == Spec => CooldownUnlessMentioned
<1> DEFINE A == turn'.offered /\ ~turn.offered /\ callback.usedAt > 0 =>
                  \/ now >= callback.usedAt + Cooldown[callback.sensitive]
                  \/ callback.mentionedAt >= callback.usedAt
<1>1. ASSUME IInv, [Next]_vars
      PROVE  A
  <2> FactsOK /\ StateOK /\ CallbackOK /\ CountsOK
    BY Parts, <1>1
  <2>1. turn \in TurnRow /\ callback \in CallbackRow /\ now \in Nat
    BY MessageTimes DEF StateOK, CallbackOK
  <2>2. ASSUME NEW takeUp \in BOOLEAN, Draft(takeUp), turn'.offered
        PROVE  Offered
    BY <2>1, <2>2 DEF Draft, TurnRow
  <2>3. Offered => A
    <3>1. callback.sensitive \in BOOLEAN /\ callback.safeAt \in Nat /\ callback.usedAt \in Nat
      BY <2>1 DEF CallbackRow
    <3>2. Cooldown[callback.sensitive] \in Nat
      BY <3>1, Delays
    <3> QED
      BY <2>1, <3>1, <3>2 DEF Offered, CallbackOK, Waits
  <2>4. CASE \E takeUp \in BOOLEAN : Draft(takeUp)
    BY <2>2, <2>3, <2>4
  <2>5. ASSUME NEW m \in Messages, NEW moved \in SUBSET Fields, Evaluate(m, moved)
        PROVE  ~turn'.offered
    BY <2>5 DEF Evaluate
  <2>6. ASSUME NEW d \in Fields, Record(d)
        PROVE  turn'.offered = turn.offered
    BY <2>1, <2>6 DEF Record, TurnRow
  <2>7. Recorded => turn'.offered = turn.offered
    BY <2>1 DEF Recorded, TurnRow
  <2>8. Deliver \/ Abandon => ~turn'.offered
    BY NoTurnIsTurn DEF Deliver, Abandon
  <2>9. CASE UNCHANGED turn
    BY <2>9
  <2>10. CASE turn'.offered = turn.offered \/ ~turn'.offered
    BY <2>10
  <2> HIDE DEF A
  <2> QED
    BY <1>1, <2>4, <2>5, <2>6, <2>7, <2>8, <2>9, <2>10
       DEF Next, Extract, Write, Extracted, Deactivate, Tick, vars
<1> QED
  BY <1>1, Invariance, PTL DEF Spec, CooldownUnlessMentioned

-----------------------------------------------------------------------------
(* The recovery poll.                                                      *)

SeenRecord == [chat : Chats, last : Nat, unread : Nat]
PollRecord == [at : {"idle", "list", "ingest"}, offset : Nat, next : Nat, todo : Seq(SeenRecord), ok : BOOLEAN]
Message == [chat : Chats, fan : BOOLEAN]

RecoveryTypes ==
    /\ chatting \in BOOLEAN /\ quiet \in BOOLEAN
    /\ log \in Seq(Message) /\ read \in [Chats -> Nat]
    /\ checkpoint \in [Chats -> Nat] /\ head \in Nat /\ poll \in PollRecord
    /\ scan.on \in BOOLEAN
    /\ scan.on => scan.seen \in SeenRecord /\ scan.known \in Nat /\ scan.whole \in BOOLEAN

\* h is still the newest message of a chat that a poll lists before those that do not wait.
Stands(h) == \E x \in Written : Latest(x) = h /\ (chatting => Unread(x) > 0)

\* A chat waits when its newest message is unread and settled in no way; the poll still
\* comes to it when it is in the list taken so far, as it is now, or below the poll's place.
Waiting(d) == d \notin beyond /\ Unread(d) > 0 /\ ~Settled(Latest(d))
Listed(d) == \E i \in DOMAIN poll.todo : poll.todo[i].chat = d /\ poll.todo[i].last = Latest(d)
Pending(d) == Listed(d) \/ (poll.at = "list" /\ Place(d) > poll.offset)

\* The newest message of a chat is in it, what the creator wrote he has read, and no cursor
\* is ahead of the messages.
LogOK ==
    /\ \A c \in Written : Latest(c) \in MessagesOf(c) /\ \A n \in MessagesOf(c) : n =< Latest(c)
    /\ \A n \in DOMAIN log : ~log[n].fan => n =< read[log[n].chat]
    /\ head =< Len(log) /\ poll.next =< Len(log)
    /\ \A c \in Chats : checkpoint[c] =< Len(log)

\* A checkpoint passes over what is settled only.
Passed == \A n \in ByFan(DOMAIN log) : n =< checkpoint[log[n].chat] => Settled(n)

\* A scan is of the first chat of the list, and one that is whole has found every message
\* above the checkpoint it started from.
ScanOK ==
    scan.on =>
       /\ poll.at = "ingest" /\ poll.todo # <<>> /\ scan.seen = Head(poll.todo)
       /\ scan.known =< Len(log) /\ scan.unseen \subseteq MessagesOf(scan.seen.chat)
       /\ \A n \in ByFan(MessagesOf(scan.seen.chat)) :
             /\ n =< scan.known => Settled(n)
             /\ n =< scan.seen.last /\ scan.whole /\ scan.known # 0 /\ Within(n, scan.from) /\ n \notin scan.unseen
                  => n =< scan.known

\* A chat in the list that has a newer message now is above the old head and the new one, and
\* where chats are listed by activity alone none in the list is below the head.
SeenOK(seen) ==
    /\ seen.chat \in Written /\ seen.last =< Latest(seen.chat)
    /\ seen.last # Latest(seen.chat) => ~quiet /\ Latest(seen.chat) > head /\ Latest(seen.chat) > poll.next
    /\ ~chatting /\ Stands(head) => Latest(seen.chat) >= head
TodoOK == \A i \in DOMAIN poll.todo : SeenOK(poll.todo[i])

\* A poll that lists has not come to the head yet.
PollOK ==
    /\ poll.at = "idle" => poll.todo = <<>> /\ poll.next = 0
    /\ poll.at = "list" /\ poll.next = 0 => poll.todo = <<>> /\ poll.offset = 0
    /\ poll.at = "list" /\ ~chatting => \A y \in Written : Latest(y) = head => Place(y) > poll.offset

\* While the head stands, nobody waits at it or below.
HeadOK ==
    /\ Stands(head) => \A d \in Chats : Waiting(d) => Latest(d) > head
    /\ \A d \in Chats : Unread(d) > 0 /\ Latest(d) = head => Settled(head)

\* The same of the head that the poll will store, but for the chats it still comes to.
NextOK ==
    /\ poll.ok /\ Stands(poll.next) => \A d \in Chats : Waiting(d) /\ Latest(d) =< poll.next => Pending(d)
    /\ poll.ok => \A d \in Chats : Unread(d) > 0 /\ Latest(d) = poll.next => Settled(poll.next) \/ Listed(d)

\* In a quiet provider a poll without errors comes to everybody who waits.
QuietOK == poll.ok /\ quiet => \A d \in Chats : Waiting(d) => Pending(d)

RecoveryInv ==
    /\ RecoveryTypes /\ LogOK /\ Passed /\ ScanOK
    /\ TodoOK /\ PollOK /\ HeadOK /\ NextOK /\ QuietOK

-----------------------------------------------------------------------------
\* The list of chats.

LEMMA LogIs ==
    ASSUME RecoveryTypes
    PROVE  /\ Len(log) \in Nat /\ DOMAIN log = 1..Len(log)
           /\ \A n \in DOMAIN log : log[n].chat \in Chats /\ log[n].fan \in BOOLEAN
           /\ \A c : MessagesOf(c) \subseteq DOMAIN log /\ IsFiniteSet(MessagesOf(c))
           /\ IsFiniteSet(DOMAIN log) /\ IsFiniteSet(Written)
<1>1. Len(log) \in Nat /\ DOMAIN log = 1..Len(log)
      BY DEF RecoveryTypes
<1>2. \A n \in DOMAIN log : log[n].chat \in Chats /\ log[n].fan \in BOOLEAN
  <2>1. \A n \in DOMAIN log : log[n] \in Message
        BY DEF RecoveryTypes
  <2> QED
      BY <2>1 DEF Message
<1>3. IsFiniteSet(DOMAIN log)
      BY <1>1, FS_Interval
<1>4. \A c : MessagesOf(c) \subseteq DOMAIN log
      BY DEF MessagesOf
<1>5. Written \subseteq Chats
      BY DEF Written
<1> QED
    BY <1>1, <1>2, <1>3, <1>4, <1>5, FS_Subset, RecoveryAssumption

LEMMA UnreadIs ==
    ASSUME RecoveryTypes, NEW c \in Chats
    PROVE  /\ Unread(c) \in Nat
           /\ Unread(c) > 0 <=> \E n \in MessagesOf(c) : log[n].fan /\ n > read[c]
<1> DEFINE S == ByFan({n \in MessagesOf(c) : n > read[c]})
<1>1. S \subseteq MessagesOf(c)
      BY DEF ByFan
<1>2. IsFiniteSet(S)
      BY <1>1, LogIs, FS_Subset
<1>3. Cardinality(S) \in Nat /\ (Cardinality(S) = 0 <=> S = {})
      BY <1>2, FS_CardinalityType, FS_EmptySet
<1>4. S # {} <=> \E n \in MessagesOf(c) : log[n].fan /\ n > read[c]
      BY DEF ByFan
<1>5. Unread(c) = Cardinality(S)
      BY DEF Unread
<1> HIDE DEF S
<1> QED
    BY <1>3, <1>4, <1>5

\* A chat with unread messages is written, and its newest message is the fan's.
LEMMA UnreadLatest ==
    ASSUME RecoveryTypes, LogOK, NEW c \in Chats, Unread(c) > 0
    PROVE  c \in Written /\ Latest(c) \in ByFan(DOMAIN log) /\ log[Latest(c)].chat = c
<1>1. PICK n \in MessagesOf(c) : log[n].fan /\ n > read[c]
      BY UnreadIs
<1>2. c \in Written
      BY <1>1 DEF Written
<1>3. Latest(c) \in MessagesOf(c) /\ n =< Latest(c)
      BY <1>1, <1>2 DEF LogOK
<1>4. Latest(c) \in DOMAIN log /\ log[Latest(c)].chat = c
      BY <1>3 DEF MessagesOf
<1>5. n \in DOMAIN log
      BY <1>1 DEF MessagesOf
<1>6. read[c] \in Nat
      BY DEF RecoveryTypes
<1>7. Latest(c) > read[c]
      BY <1>1, <1>3, <1>4, <1>5, <1>6, LogIs
<1>8. log[Latest(c)].fan
      BY <1>4, <1>6, <1>7, LogIs DEF LogOK
<1> QED
    BY <1>2, <1>4, <1>8 DEF ByFan

LEMMA LatestIs ==
    ASSUME RecoveryTypes, LogOK, NEW c \in Written
    PROVE  Latest(c) \in 1..Len(log) /\ log[Latest(c)].chat = c /\ c \in Chats
BY LogIs DEF LogOK, MessagesOf, Written

LEMMA ListOrdered ==
    ASSUME RecoveryTypes, LogOK
    PROVE  /\ \A c, d \in Written : c # d => Latest(c) # Latest(d)
           /\ \A c, d \in Written : c # d => Before(c, d) \/ Before(d, c)
           /\ \A c, d, e \in Written : Before(c, d) /\ Before(d, e) => Before(c, e)
           /\ \A c \in Written : ~Before(c, c)
<1>1. \A c \in Written : Latest(c) \in Int /\ (Unread(c) > 0) \in BOOLEAN
      BY LatestIs, LogIs
<1>2. \A c, d \in Written : c # d => Latest(c) # Latest(d)
      BY LatestIs
<1> QED
    BY <1>1, <1>2 DEF Before

LEMMA ProperSubset ==
    ASSUME NEW S, IsFiniteSet(S), NEW T, T \subseteq S, T # S
    PROVE  Cardinality(T) < Cardinality(S)
<1>1. IsFiniteSet(T) /\ Cardinality(T) =< Cardinality(S) /\ Cardinality(S) # Cardinality(T)
      BY FS_Subset
<1>2. Cardinality(S) \in Nat /\ Cardinality(T) \in Nat
      BY <1>1, FS_CardinalityType
<1> QED
    BY <1>1, <1>2

LEMMA PlaceIs ==
    ASSUME RecoveryTypes, LogOK
    PROVE  /\ \A c \in Written : Place(c) \in 1..Cardinality(Written)
           /\ \A c, d \in Written : Place(c) < Place(d) => Before(c, d)
           /\ \A c, d \in Written : Place(c) = Place(d) => c = d
           /\ Cardinality(Written) \in Nat
<1> DEFINE Above(c) == {d \in Written : Before(d, c)}
<1>1. IsFiniteSet(Written)
      BY LogIs
<1>2. \A c : IsFiniteSet(Above(c)) /\ Above(c) \subseteq Written
      BY <1>1, FS_Subset
<1>3. \A c : Cardinality(Above(c)) \in Nat
      BY <1>2, FS_CardinalityType
<1>4. ASSUME NEW c \in Written PROVE Cardinality(Above(c)) < Cardinality(Written)
  <2>1. c \notin Above(c)
        BY ListOrdered
  <2>2. Above(c) # Written
        BY <2>1
  <2> QED
      BY <1>1, <1>2, <2>2, ProperSubset
<1>5. ASSUME NEW c \in Written, NEW d \in Written, Before(c, d)
      PROVE  Cardinality(Above(c)) < Cardinality(Above(d))
  <2>1. Above(c) \subseteq Above(d)
        BY <1>5, ListOrdered
  <2>2. c \in Above(d) /\ c \notin Above(c)
        BY <1>5, ListOrdered
  <2>3. Above(c) # Above(d)
        BY <2>2
  <2> QED
      BY <1>2, <2>1, <2>3, ProperSubset
<1>6. \A c : Place(c) = Cardinality(Above(c)) + 1
      BY DEF Place
<1>7. Cardinality(Written) \in Nat
      BY <1>1, FS_CardinalityType
<1> HIDE DEF Above
<1>8. \A c \in Written : Place(c) \in 1..Cardinality(Written)
      BY <1>3, <1>4, <1>6, <1>7
<1>9. ASSUME NEW c \in Written, NEW d \in Written, Place(c) =< Place(d), c # d
      PROVE  Before(c, d)
  <2>1. CASE Before(d, c)
    <3>1. Cardinality(Above(d)) < Cardinality(Above(c))
          BY <1>5, <2>1
    <3> QED
        BY <1>3, <1>6, <1>9, <3>1
  <2> QED
      BY <1>9, <2>1, ListOrdered
<1>10. ASSUME NEW c \in Written, NEW d \in Written, Place(c) = Place(d) PROVE c = d
  <2>1. CASE c # d
    <3>1. Before(c, d) /\ Before(d, c)
          BY <1>8, <1>9, <1>10, <2>1
    <3> QED
        BY <3>1, ListOrdered
  <2> QED
      BY <2>1
<1> QED
    BY <1>7, <1>8, <1>9, <1>10, ListOrdered

-----------------------------------------------------------------------------
\* What steps leave.

LEMMA SameList ==
    ASSUME UNCHANGED <<chatting, log, read>>
    PROVE  /\ Written' = Written
           /\ \A c : MessagesOf(c)' = MessagesOf(c) /\ Latest(c)' = Latest(c)
           /\ \A c : Unread(c)' = Unread(c) /\ Place(c)' = Place(c)
           /\ \A c, d : Before(c, d)' = Before(c, d)
           /\ \A h : Stands(h)' = Stands(h)
<1>1. \A c : MessagesOf(c)' = MessagesOf(c)
      BY DEF MessagesOf
<1>2. Written' = Written /\ \A c : Latest(c)' = Latest(c) /\ Unread(c)' = Unread(c)
      BY <1>1 DEF Written, Latest, Unread, ByFan
<1>3. \A c, d : Before(c, d)' = Before(c, d)
      BY <1>2 DEF Before
<1>4. \A c : Place(c)' = Place(c)
      BY <1>2, <1>3 DEF Place
<1>5. \A h : Stands(h)' = Stands(h)
      BY <1>2 DEF Stands
<1> QED
    BY <1>1, <1>2, <1>3, <1>4, <1>5

LEMMA LogGrows ==
    ASSUME RecoveryTypes, NEW m, log' = Append(log, m)
    PROVE  /\ Len(log') = Len(log) + 1 /\ DOMAIN log' = DOMAIN log \cup {Len(log) + 1}
           /\ \A n \in DOMAIN log : log'[n] = log[n]
           /\ log'[Len(log) + 1] = m
           /\ \A c : MessagesOf(c)' = IF m.chat = c THEN MessagesOf(c) \cup {Len(log) + 1} ELSE MessagesOf(c)
<1>1. /\ Len(log') = Len(log) + 1 /\ DOMAIN log' = DOMAIN log \cup {Len(log) + 1}
      /\ \A n \in DOMAIN log : log'[n] = log[n]
      /\ log'[Len(log) + 1] = m
      BY DEF RecoveryTypes
<1>2. ASSUME NEW c
      PROVE  MessagesOf(c)' = IF m.chat = c THEN MessagesOf(c) \cup {Len(log) + 1} ELSE MessagesOf(c)
  <2>1. MessagesOf(c)' = {n \in DOMAIN log' : log'[n].chat = c}
        BY DEF MessagesOf
  <2> QED
      BY <1>1, <2>1 DEF MessagesOf
<1> QED
    BY <1>1, <1>2

Explained == covered \cup excused \cup backlog

LEMMA SettledStays ==
    ASSUME RecoveryTypes, chatting' = chatting, Explained \subseteq Explained',
           log' = log \/ \E m : log' = Append(log, m)
    PROVE  \A n \in DOMAIN log : Settled(n) => Settled(n)'
<1> SUFFICES ASSUME NEW n \in DOMAIN log, Settled(n) PROVE Settled(n)'
    OBVIOUS
<1>1. CASE n \in Explained
      BY <1>1 DEF Settled, Explained
<1>2. CASE chatting /\ Answered(n)
  <2>1. PICK k \in MessagesOf(log[n].chat) : k > n /\ ~log[k].fan
        BY <1>2 DEF Answered
  <2>2. k \in DOMAIN log /\ log[k].chat = log[n].chat
        BY <2>1 DEF MessagesOf
  <2>3. /\ DOMAIN log \subseteq DOMAIN log'
        /\ \A i \in DOMAIN log : log'[i] = log[i]
    <3>1. CASE log' = log
          BY <3>1
    <3>2. CASE \E m : log' = Append(log, m)
          BY <3>2, LogGrows
    <3> QED
        BY <3>1, <3>2
  <2>4. k \in DOMAIN log' /\ log'[k] = log[k] /\ log'[n] = log[n]
        BY <2>2, <2>3
  <2>5. Answered(n)'
        BY <2>1, <2>2, <2>4 DEF Answered, MessagesOf
  <2> QED
      BY <1>2, <2>5 DEF Settled
<1> QED
    BY <1>1, <1>2 DEF Settled, Explained

\* A step that writes rows and nothing the poll goes by.
LEMMA Grown ==
    ASSUME RecoveryInv, Explained \subseteq Explained',
           UNCHANGED <<chatting, log, read, checkpoint, head, poll, scan, beyond, quiet>>
    PROVE  RecoveryInv'
<1>1. \A n \in DOMAIN log : Settled(n) => Settled(n)'
      BY SettledStays DEF RecoveryInv
<1>2. RecoveryTypes' /\ RecoveryTypes /\ LogOK
      BY DEF RecoveryInv, RecoveryTypes
<1>3. LogOK'
      BY SameList DEF RecoveryInv, LogOK
<1>4. Passed'
      BY <1>1 DEF RecoveryInv, Passed, ByFan
<1>5. ScanOK'
  <2> SUFFICES ASSUME scan.on PROVE ScanOK'
      BY DEF ScanOK
  <2>1. \A n \in ByFan(MessagesOf(scan.seen.chat)) : n \in DOMAIN log
        BY DEF ByFan, MessagesOf
  <2>2. ByFan(MessagesOf(scan.seen.chat))' = ByFan(MessagesOf(scan.seen.chat))
        BY DEF ByFan, MessagesOf
  <2>3. \A n : Within(n, scan.from)' = Within(n, scan.from)
        BY DEF Within
  <2> QED
      BY <1>1, <2>1, <2>2, <2>3, SameList DEF RecoveryInv, ScanOK
<1>6. TodoOK'
      BY SameList DEF RecoveryInv, TodoOK, SeenOK
<1>7. PollOK'
      BY SameList DEF RecoveryInv, PollOK
<1>8. \A d \in Chats : /\ Waiting(d)' => Waiting(d)
                       /\ Unread(d) > 0 => Latest(d) \in DOMAIN log
  <2>1. \A d \in Chats : Unread(d) > 0 => Latest(d) \in DOMAIN log
        BY <1>2, UnreadLatest DEF ByFan
  <2>2. ASSUME NEW d \in Chats, Waiting(d)' PROVE Waiting(d)
    <3>1. Unread(d) > 0 /\ d \notin beyond /\ ~Settled(Latest(d))'
          BY <2>2, SameList DEF Waiting
    <3>2. Latest(d)' = Latest(d)
          BY SameList
    <3> QED
        BY <1>1, <2>1, <3>1, <3>2 DEF Waiting
  <2> QED
      BY <2>1, <2>2
<1>9. \A d \in Chats : Listed(d)' = Listed(d) /\ Pending(d)' = Pending(d)
      BY SameList DEF Listed, Pending
<1>10. HeadOK'
       BY <1>1, <1>8, SameList DEF RecoveryInv, HeadOK
<1>11. NextOK'
       BY <1>1, <1>8, <1>9, SameList DEF RecoveryInv, NextOK
<1>12. QuietOK'
       BY <1>8, <1>9 DEF RecoveryInv, QuietOK
<1> QED
    BY <1>2, <1>3, <1>4, <1>5, <1>6, <1>7, <1>10, <1>11, <1>12 DEF RecoveryInv

LEMMA WaitsStill ==
    ASSUME RecoveryTypes, LogOK, UNCHANGED <<chatting, log, read>>, Explained \subseteq Explained'
    PROVE  /\ \A d \in Chats : Unread(d) > 0 => Latest(d) \in DOMAIN log
           /\ \A n \in DOMAIN log : Settled(n) => Settled(n)'
           /\ \A d \in Chats : Waiting(d)' =>
                 d \notin beyond' /\ Unread(d) > 0 /\ ~Settled(Latest(d)) /\ ~Settled(Latest(d))'
<1>1. \A n \in DOMAIN log : Settled(n) => Settled(n)'
      BY SettledStays
<1>2. \A d \in Chats : Unread(d) > 0 => Latest(d) \in DOMAIN log
      BY UnreadLatest DEF ByFan
<1>3. ASSUME NEW d \in Chats, Waiting(d)'
      PROVE  d \notin beyond' /\ Unread(d) > 0 /\ ~Settled(Latest(d)) /\ ~Settled(Latest(d))'
  <2>1. Unread(d) > 0 /\ d \notin beyond' /\ ~Settled(Latest(d))'
        BY <1>3, SameList DEF Waiting
  <2>2. Latest(d)' = Latest(d)
        BY SameList
  <2> QED
      BY <1>1, <1>2, <2>1, <2>2
<1> QED
    BY <1>1, <1>2, <1>3

LEMMA PassedStays ==
    ASSUME RecoveryTypes, Passed, UNCHANGED <<chatting, log, checkpoint>>, Explained \subseteq Explained'
    PROVE  Passed'
<1>1. \A n \in DOMAIN log : Settled(n) => Settled(n)'
      BY SettledStays
<1> QED
    BY <1>1 DEF Passed, ByFan

LEMMA HeadStays ==
    ASSUME RecoveryTypes, LogOK, HeadOK, UNCHANGED <<chatting, log, read, head>>,
           Explained \subseteq Explained',
           \A d \in beyond \ beyond' :
               Stands(head) /\ d \in Chats /\ Unread(d) > 0 => Latest(d) > head \/ Settled(Latest(d))'
    PROVE  HeadOK'
<1>1. ASSUME NEW d \in Chats, Stands(head)', Waiting(d)' PROVE Latest(d)' > head'
  <2>1. Stands(head) /\ Latest(d)' = Latest(d)
        BY <1>1, SameList
  <2>2. d \notin beyond' /\ Unread(d) > 0 /\ ~Settled(Latest(d)) /\ ~Settled(Latest(d))'
        BY <1>1, WaitsStill
  <2>3. CASE d \in beyond
        BY <2>1, <2>2, <2>3
  <2>4. CASE d \notin beyond
        BY <2>1, <2>2, <2>4 DEF HeadOK, Waiting
  <2> QED
      BY <2>3, <2>4
<1>2. ASSUME NEW d \in Chats, Unread(d)' > 0, Latest(d)' = head' PROVE Settled(head)'
  <2>1. Unread(d) > 0 /\ Latest(d) = head
        BY <1>2, SameList
  <2>2. Settled(head) /\ head \in DOMAIN log
        BY <2>1, WaitsStill DEF HeadOK
  <2> QED
      BY <2>2, WaitsStill
<1> QED
    BY <1>1, <1>2 DEF HeadOK

-----------------------------------------------------------------------------
\* The steps of a poll.

LEMMA BeginKeeps == ASSUME RecoveryInv, Begin PROVE RecoveryInv'
<1>1. /\ poll.at = "idle" /\ quiet' = TRUE
      /\ poll' = [at |-> "list", offset |-> 0, next |-> 0, todo |-> <<>>, ok |-> TRUE]
      /\ UNCHANGED <<chatting, log, read, checkpoint, head, scan, beyond, covered, excused, backlog>>
      BY DEF Begin, Idle, provider, marks, inbox
<1>2. RecoveryTypes /\ LogOK /\ Explained \subseteq Explained' /\ ~scan.on
      BY <1>1 DEF RecoveryInv, Explained, ScanOK, RecoveryTypes
<1>3. RecoveryTypes'
  <2>1. <<>> \in Seq(SeenRecord)
        OBVIOUS
  <2> QED
      BY <1>1, <1>2, <2>1 DEF RecoveryTypes, PollRecord
<1>4. LogOK'
      BY <1>1, <1>2, SameList, LogIs DEF LogOK
<1>5. Passed' /\ HeadOK'
      BY <1>1, <1>2, PassedStays, HeadStays DEF RecoveryInv
<1>6. ScanOK' /\ TodoOK'
      BY <1>1, <1>2 DEF ScanOK, TodoOK
<1>7. \A d \in Written : Place(d)' > 0
  <2>1. \A d \in Written : Place(d) > 0
        BY <1>2, PlaceIs
  <2> QED
      BY <1>1, <2>1, SameList
<1>8. PollOK'
  <2>1. \A d \in Written' : Place(d)' > poll'.offset
        BY <1>1, <1>7, SameList
  <2> QED
      BY <1>1, <2>1 DEF PollOK
<1>9. QuietOK'
  <2>1. ASSUME NEW d \in Chats, Waiting(d)' PROVE Pending(d)'
    <3>1. d \in Written
          BY <1>1, <1>2, <2>1, WaitsStill, UnreadLatest
    <3> QED
        BY <1>1, <1>7, <3>1 DEF Pending
  <2> QED
      BY <2>1 DEF QuietOK
<1>10. NextOK'
  <2>1. \A d \in Chats : Unread(d)' > 0 => Latest(d)' # 0
        BY <1>1, <1>2, WaitsStill, LogIs, SameList
  <2>2. \A d \in Chats : Waiting(d)' => Pending(d)'
        BY <1>1, <1>9 DEF QuietOK
  <2> QED
      BY <1>1, <2>1, <2>2 DEF NextOK
<1> QED
    BY <1>3, <1>4, <1>5, <1>6, <1>8, <1>9, <1>10 DEF RecoveryInv

LEMMA NoPageKeeps == ASSUME RecoveryInv, NoPage PROVE RecoveryInv'
<1>1. /\ poll.at = "list" /\ poll.offset >= Cardinality(Written)
      /\ poll' = [poll EXCEPT !.at = "ingest"]
      /\ UNCHANGED <<chatting, log, read, checkpoint, head, scan, beyond, covered, excused, backlog, quiet>>
      BY DEF NoPage, provider, marks, inbox
<1>2. RecoveryTypes /\ LogOK /\ Explained \subseteq Explained' /\ ~scan.on /\ beyond' = beyond
      BY <1>1 DEF RecoveryInv, Explained, ScanOK, RecoveryTypes
<1>3. /\ poll'.at = "ingest" /\ poll'.next = poll.next /\ poll'.todo = poll.todo /\ poll'.ok = poll.ok
      /\ poll' \in PollRecord
      BY <1>1, <1>2 DEF RecoveryTypes, PollRecord
<1>4. RecoveryTypes'
      BY <1>1, <1>2, <1>3 DEF RecoveryTypes
<1>5. LogOK'
      BY <1>1, <1>2, <1>3, SameList DEF LogOK
<1>6. Passed' /\ HeadOK'
      BY <1>1, <1>2, PassedStays, HeadStays DEF RecoveryInv
<1>7. ScanOK'
      BY <1>1, <1>2 DEF ScanOK
<1>8. TodoOK'
      BY <1>1, <1>3, SameList DEF RecoveryInv, TodoOK, SeenOK
<1>9. PollOK'
      BY <1>3 DEF PollOK
<1>10. ASSUME NEW d \in Chats, Waiting(d)' PROVE Waiting(d) /\ (Pending(d) => Pending(d)')
  <2>1. Waiting(d) /\ d \in Written
        BY <1>1, <1>2, <1>10, WaitsStill, UnreadLatest DEF Waiting
  <2>2. ~(Place(d) > poll.offset)
        BY <1>1, <1>2, <2>1, PlaceIs DEF RecoveryTypes, PollRecord
  <2>3. Listed(d) => Listed(d)'
        BY <1>1, <1>3, SameList DEF Listed
  <2> QED
      BY <2>1, <2>2, <2>3 DEF Pending
<1>11. QuietOK'
       BY <1>1, <1>3, <1>10 DEF RecoveryInv, QuietOK
<1>12. NextOK'
  <2>1. \A d \in Chats : Listed(d) => Listed(d)'
        BY <1>1, <1>3, SameList DEF Listed
  <2>2. \A d \in Chats : Unread(d) > 0 => Latest(d) \in DOMAIN log /\ (Settled(Latest(d)) => Settled(Latest(d))')
    <3> SUFFICES ASSUME NEW d \in Chats, Unread(d) > 0
                 PROVE  Latest(d) \in DOMAIN log /\ (Settled(Latest(d)) => Settled(Latest(d))')
        OBVIOUS
    <3>1. Latest(d) \in DOMAIN log /\ Latest(d)' = Latest(d)
          BY <1>1, <1>2, WaitsStill, SameList
    <3> QED
        BY <1>1, <1>2, <3>1, WaitsStill
  <2>3. ASSUME NEW d \in Chats, poll'.ok, Unread(d)' > 0, Latest(d)' = poll'.next
        PROVE  Settled(poll.next)' \/ Listed(d)'
    <3>1. Unread(d) > 0 /\ Latest(d) = poll.next /\ poll.ok
          BY <1>1, <1>3, <2>3, SameList
    <3>2. (Settled(poll.next) \/ Listed(d)) /\ poll.next \in DOMAIN log
          BY <2>2, <3>1 DEF RecoveryInv, NextOK
    <3>3. Settled(poll.next) => Settled(poll.next)'
          BY <1>1, <1>2, <3>2, WaitsStill, <1>3
    <3> QED
        BY <2>1, <3>2, <3>3
  <2> QED
      BY <1>1, <1>3, <1>10, <2>3, SameList DEF RecoveryInv, NextOK
<1> QED
    BY <1>4, <1>5, <1>6, <1>7, <1>8, <1>9, <1>11, <1>12 DEF RecoveryInv

LEMMA ListPageKeeps == ASSUME RecoveryInv, ListPage PROVE RecoveryInv'
<1> DEFINE reached(c) == head # 0 /\ Latest(c) = head
           done(c) == reached(c) \/ poll.offset + 1 \in {ChatPages, Cardinality(Written)}
           seen(c) == [chat |-> c, last |-> Latest(c), unread |-> Unread(c)]
<1>1. PICK c \in Written :
         /\ Place(c) = poll.offset + 1
         /\ poll' = [poll EXCEPT
                        !.at = IF done(c) THEN "ingest" ELSE "list",
                        !.offset = poll.offset + 1,
                        !.next = IF poll.next = 0 THEN Latest(c) ELSE poll.next,
                        !.todo = IF Wanted(c) THEN Append(poll.todo, seen(c)) ELSE poll.todo]
         /\ beyond' = IF done(c) /\ ~reached(c)
                      THEN beyond \cup {d \in Written : Place(d) > Place(c)}
                      ELSE beyond
      BY DEF ListPage
<1>2. /\ poll.at = "list"
      /\ UNCHANGED <<chatting, log, read, checkpoint, head, scan, covered, excused, backlog, quiet>>
      BY DEF ListPage, provider, marks, inbox
<1>3. /\ RecoveryTypes /\ LogOK /\ Explained \subseteq Explained' /\ ~scan.on /\ beyond \subseteq beyond'
      BY <1>1, <1>2 DEF RecoveryInv, Explained, ScanOK, RecoveryTypes
<1>4. c \in Chats /\ Latest(c) \in DOMAIN log /\ Latest(c) \in Nat \ {0} /\ Latest(c) =< Len(log)
      BY <1>3, LatestIs, LogIs
<1>5. seen(c) \in SeenRecord /\ poll.todo \in Seq(SeenRecord) /\ poll.offset \in Nat /\ poll.next \in Nat
      BY <1>3, <1>4, UnreadIs DEF SeenRecord, RecoveryTypes, PollRecord
<1>6. PICK later \in Seq(SeenRecord) :
         /\ later = IF Wanted(c) THEN Append(poll.todo, seen(c)) ELSE poll.todo
         /\ \A i \in DOMAIN poll.todo : i \in DOMAIN later /\ later[i] = poll.todo[i]
         /\ \A i \in DOMAIN later : later[i] = seen(c) \/ i \in DOMAIN poll.todo
         /\ Wanted(c) => \E i \in DOMAIN later : later[i] = seen(c)
  <2> HIDE DEF seen
  <2>1. CASE Wanted(c)
    <3>1. /\ Append(poll.todo, seen(c)) \in Seq(SeenRecord)
          /\ DOMAIN Append(poll.todo, seen(c)) = DOMAIN poll.todo \cup {Len(poll.todo) + 1}
          /\ \A i \in DOMAIN poll.todo : Append(poll.todo, seen(c))[i] = poll.todo[i]
          /\ Append(poll.todo, seen(c))[Len(poll.todo) + 1] = seen(c)
          BY <1>5
    <3> QED
        BY <2>1, <3>1
  <2>2. CASE ~Wanted(c)
        BY <1>5, <2>2
  <2> QED
      BY <2>1, <2>2
<1>7. /\ poll'.at = (IF done(c) THEN "ingest" ELSE "list") /\ poll'.offset = poll.offset + 1
      /\ poll'.next = (IF poll.next = 0 THEN Latest(c) ELSE poll.next)
      /\ poll'.todo = later /\ poll'.ok = poll.ok /\ poll' \in PollRecord
  <2>1. PICK at \in {"ingest", "list"} : at = IF done(c) THEN "ingest" ELSE "list"
        OBVIOUS
  <2>2. PICK next \in Nat : next = IF poll.next = 0 THEN Latest(c) ELSE poll.next
        BY <1>4, <1>5
  <2>3. poll' = [poll EXCEPT !.at = at, !.offset = poll.offset + 1, !.next = next, !.todo = later]
        BY <1>1, <1>6, <2>1, <2>2
  <2>4. poll \in PollRecord
        BY <1>3 DEF RecoveryTypes
  <2>5. poll'.at = at /\ poll'.offset = poll.offset + 1 /\ poll'.next = next /\ poll'.todo = later /\ poll'.ok = poll.ok
        BY <2>3, <2>4 DEF PollRecord
  <2>6. poll' = [at |-> at, offset |-> poll.offset + 1, next |-> next, todo |-> later, ok |-> poll.ok]
        BY <2>3, <2>4 DEF PollRecord
  <2>7. poll.ok \in BOOLEAN /\ at \in {"idle", "list", "ingest"} /\ poll.offset + 1 \in Nat
        BY <1>5, <2>4 DEF PollRecord
  <2>8. poll' \in PollRecord
        BY <2>6, <2>7 DEF PollRecord
  <2> QED
      BY <2>1, <2>2, <2>5, <2>8
<1>8. \A d \in Written : /\ Place(d) \in Nat /\ (Place(d) = poll.offset + 1 => d = c)
                         /\ Place(d) > poll.offset + 1 => Before(c, d) /\ d # c
  <2>1. ASSUME NEW d \in Written
        PROVE  /\ Place(d) \in Nat /\ (Place(d) = poll.offset + 1 => d = c)
               /\ Place(d) > poll.offset + 1 => Before(c, d) /\ d # c
        BY <1>1, <1>3, <1>5, PlaceIs
  <2> QED
      BY <2>1
<1>9. \A d \in Chats : Listed(d) => Listed(d)'
      BY <1>2, <1>6, <1>7, SameList DEF Listed
<1>10. Wanted(c) => Listed(c)'
       BY <1>2, <1>6, <1>7, SameList DEF Listed
<1>11. Unread(c) > 0 => Wanted(c) \/ Settled(Latest(c))
  <2>1. ASSUME Unread(c) > 0, ~Wanted(c) PROVE Settled(Latest(c))
    <3>1. chatting /\ checkpoint[c] = Latest(c)
          BY <1>3, <2>1 DEF Wanted, RecoveryTypes
    <3>2. Latest(c) \in ByFan(DOMAIN log) /\ log[Latest(c)].chat = c
          BY <1>3, <1>4, <2>1, UnreadLatest
    <3> QED
        BY <1>4, <3>1, <3>2 DEF RecoveryInv, Passed
  <2> QED
      BY <2>1
\* A chat that is still waited for is in the list, or behind this page.
<1>12. ASSUME NEW d \in Chats, Waiting(d)', Pending(d) PROVE Waiting(d) /\ (Pending(d)' \/ (reached(c) /\ Before(c, d)))
  <2>1. Waiting(d) /\ d \in Written /\ d \notin beyond'
        BY <1>2, <1>3, <1>12, WaitsStill, UnreadLatest DEF Waiting
  <2>2. CASE Listed(d)
        BY <1>9, <2>1, <2>2 DEF Pending
  <2>3. CASE Place(d) = poll.offset + 1
    <3>1. d = c /\ Unread(c) > 0 /\ ~Settled(Latest(c))
          BY <1>8, <2>1, <2>3 DEF Waiting
    <3> QED
        BY <1>10, <1>11, <2>1, <3>1 DEF Pending
  <2>4. CASE Place(d) > poll.offset + 1
    <3>1. Before(c, d) /\ Place(d)' = Place(d) /\ Place(d) > Place(c)
          BY <1>1, <1>2, <1>8, <2>1, <2>4, SameList
    <3>2. CASE done(c)
      <4>1. reached(c)
            BY <1>1, <2>1, <3>1, <3>2
      <4> QED
          BY <2>1, <3>1, <4>1
    <3>3. CASE ~done(c)
          BY <1>7, <2>1, <2>4, <3>1, <3>3 DEF Pending
    <3> QED
        BY <3>2, <3>3
  <2>5. Listed(d) \/ Place(d) > poll.offset
        BY <1>12 DEF Pending
  <2> QED
      BY <1>5, <1>8, <2>1, <2>2, <2>3, <2>4, <2>5
\* At the head of the last complete poll, nothing below is waited for.
<1>13. ASSUME NEW d \in Chats, Waiting(d), Before(c, d), reached(c) PROVE FALSE
  <2>1. d \in Written /\ Unread(d) > 0
        BY <1>3, <1>13, UnreadLatest DEF Waiting
  <2>2. Latest(c) > Latest(d) /\ (chatting => Unread(c) > 0)
        BY <1>3, <1>13, <2>1 DEF Before, RecoveryTypes
  <2>3. Stands(head)
        BY <1>13, <2>2 DEF Stands
  <2>4. Latest(d) > head
        BY <1>13, <2>3 DEF RecoveryInv, HeadOK
  <2> QED
      BY <1>3, <1>13, <2>1, <2>2, <2>4, LatestIs, LogIs
<1>14. RecoveryTypes' /\ LogOK'
  <2>1. RecoveryTypes'
        BY <1>2, <1>3, <1>7 DEF RecoveryTypes
  <2>2. LogOK'
        BY <1>2, <1>3, <1>4, <1>7, SameList DEF LogOK
  <2> QED
      BY <2>1, <2>2
<1>15. Passed' /\ HeadOK' /\ ScanOK'
       BY <1>2, <1>3, PassedStays, HeadStays DEF RecoveryInv, ScanOK
<1>16. Stands(head) /\ ~chatting => Latest(c) >= head
  <2>1. ASSUME Stands(head), ~chatting PROVE Latest(c) >= head
    <3>1. PICK y \in Written : Latest(y) = head
          BY <2>1 DEF Stands
    <3>2. Place(y) > poll.offset
          BY <1>2, <2>1, <3>1 DEF RecoveryInv, PollOK
    <3>3. y = c \/ Before(c, y)
          BY <1>5, <1>8, <3>1, <3>2
    <3> QED
        BY <1>3, <1>4, <2>1, <3>1, <3>3, LatestIs, LogIs DEF Before
  <2> QED
      BY <2>1
<1>17. TodoOK'
  <2>1. ASSUME NEW i \in DOMAIN later PROVE SeenOK(later[i])'
    <3>1. CASE later[i] = seen(c)
          BY <1>2, <1>3, <1>4, <1>16, <3>1, SameList DEF SeenOK
    <3>2. CASE i \in DOMAIN poll.todo
      <4>1. SeenOK(poll.todo[i]) /\ later[i] = poll.todo[i] /\ poll.next # 0
            BY <1>2, <1>6, <3>2 DEF RecoveryInv, TodoOK, PollOK
      <4> QED
          BY <1>2, <1>7, <4>1, SameList DEF SeenOK
    <3> QED
        BY <1>6, <2>1, <3>1, <3>2
  <2> QED
      BY <1>7, <2>1 DEF TodoOK
<1>18. PollOK'
  <2>1. ASSUME ~done(c), ~chatting, NEW y \in Written, Latest(y) = head PROVE Place(y) > poll.offset + 1
    <3>1. Place(y) > poll.offset
          BY <1>2, <2>1 DEF RecoveryInv, PollOK
    <3>2. y # c
      <4>1. CASE y = c
            BY <1>4, <2>1, <4>1
      <4> QED
          BY <4>1
    <3> QED
        BY <1>5, <1>8, <3>1, <3>2
  <2>2. poll'.next # 0
        BY <1>4, <1>7
  <2>3. poll'.at = "list" => ~done(c)
        BY <1>7
  <2>4. poll'.at \in {"list", "ingest"}
        BY <1>7
  <2> QED
      BY <1>2, <1>7, <2>1, <2>2, <2>3, <2>4, SameList DEF PollOK
<1>19. QuietOK'
  <2>1. ASSUME NEW d \in Chats, Waiting(d)', poll'.ok, quiet' PROVE Pending(d)'
    <3>1. Waiting(d)
          BY <1>2, <1>3, <2>1, WaitsStill DEF Waiting
    <3>2. Pending(d)
          BY <1>2, <1>7, <2>1, <3>1 DEF RecoveryInv, QuietOK
    <3> QED
        BY <1>12, <1>13, <2>1, <3>1, <3>2
  <2> QED
      BY <2>1 DEF QuietOK
<1>20. ASSUME NEW d \in Chats, poll'.ok, Stands(poll.next)', Waiting(d)', Latest(d)' =< poll'.next PROVE Pending(d)'
  <2>1. Waiting(d) /\ d \in Written
        BY <1>2, <1>3, <1>20, WaitsStill, UnreadLatest DEF Waiting
  <2>2. Pending(d)
    <3>1. CASE poll.next = 0
      <4>1. poll.offset = 0
            BY <1>2, <3>1 DEF RecoveryInv, PollOK
      <4> QED
          BY <1>2, <1>3, <2>1, <4>1, PlaceIs DEF Pending
    <3>2. CASE poll.next # 0
      <4>1. poll.ok /\ poll'.next = poll.next /\ Latest(d) =< poll.next
            BY <1>2, <1>7, <1>20, <3>2, SameList
      <4>2. \E x \in Written' : Latest(x)' = poll'.next /\ (chatting' => Unread(x)' > 0)
            BY <1>20 DEF Stands
      <4>3. Stands(poll.next)
            BY <1>2, <4>1, <4>2, SameList DEF Stands
      <4> QED
          BY <2>1, <4>1, <4>3 DEF RecoveryInv, NextOK
    <3> QED
        BY <3>1, <3>2
  <2> QED
      BY <1>12, <1>13, <1>20, <2>1, <2>2
<1>21. ASSUME NEW d \in Chats, poll'.ok, Unread(d)' > 0, Latest(d)' = poll'.next
       PROVE  Settled(Latest(d))' \/ Listed(d)'
  <2>1. Unread(d) > 0 /\ Latest(d) = poll'.next /\ poll.ok /\ d \in Written
        BY <1>2, <1>3, <1>7, <1>21, SameList, UnreadLatest
  <2>2. Latest(d)' = Latest(d) /\ (Settled(Latest(d)) => Settled(Latest(d))')
        BY <1>2, <1>3, <2>1, WaitsStill, SameList
  <2>3. Settled(Latest(d)) \/ Listed(d)'
    <3>1. CASE poll.next = 0
      <4>1. d = c
            BY <1>3, <1>7, <2>1, <3>1, ListOrdered
      <4> QED
          BY <1>10, <1>11, <2>1, <4>1
    <3>2. CASE poll.next # 0
          BY <1>7, <1>9, <2>1, <3>2 DEF RecoveryInv, NextOK
    <3> QED
        BY <3>1, <3>2
  <2> QED
      BY <1>21, <2>2, <2>3
<1>22. NextOK'
       BY <1>20, <1>21 DEF NextOK
<1> QED
    BY <1>14, <1>15, <1>17, <1>18, <1>19, <1>22 DEF RecoveryInv

\* Of messages that are not among the newest, all are older than those that are.
LEMMA NewestAreNewer ==
    ASSUME NEW S, S \subseteq Int, IsFiniteSet(S), NEW k \in Nat,
           NEW n \in S, n \notin NewestOf(S, k), NEW m \in NewestOf(S, k)
    PROVE  n < m
<1> DEFINE Newer(x) == {y \in S : y > x}
<1>1. \A x : IsFiniteSet(Newer(x)) /\ Cardinality(Newer(x)) \in Nat
  <2>1. \A x : Newer(x) \subseteq S
        OBVIOUS
  <2> QED
      BY <2>1, FS_Subset, FS_CardinalityType
<1>2. m \in S /\ Cardinality(Newer(m)) < k /\ ~(Cardinality(Newer(n)) < k)
      BY DEF NewestOf
<1>3. ASSUME m =< n PROVE FALSE
  <2>1. m \in Int /\ n \in Int /\ \A y \in S : y \in Int
        BY <1>2
  <2>2. \A y \in S : y > n => y > m
        BY <1>3, <2>1
  <2>3. Newer(n) \subseteq Newer(m)
        BY <2>2
  <2>4. Cardinality(Newer(n)) =< Cardinality(Newer(m))
        BY <1>1, <2>3, FS_Subset
  <2> QED
      BY <1>1, <1>2, <2>4
<1> QED
    BY <1>2, <1>3

LEMMA FetchKeeps == ASSUME RecoveryInv, Fetch PROVE RecoveryInv'
<1> DEFINE c == Head(poll.todo).chat
           all == {n \in MessagesOf(c) : Within(n, resume[c])}
           page(k) == NewestOf(all, k * PageSize)
           ends(k) == Ends(page(k), all, checkpoint[c], Head(poll.todo).unread)
<1>1. /\ poll.at = "ingest" /\ poll.todo # <<>> /\ ~scan.on
      /\ UNCHANGED <<chatting, log, read, checkpoint, head, poll, beyond, covered, excused, backlog, quiet>>
      BY DEF Fetch, provider, marks, inbox
<1>2. PICK last \in 1..MessagePages[chatting] :
         scan' = [on |-> TRUE, seen |-> Head(poll.todo), known |-> checkpoint[c], from |-> resume[c],
                  whole |-> ends(last), unseen |-> {n \in page(last) : n > checkpoint[c]}]
      BY DEF Fetch
<1>3. /\ RecoveryTypes /\ LogOK /\ Explained' = Explained
      BY <1>1 DEF RecoveryInv, Explained
<1>4. Head(poll.todo) \in SeenRecord /\ poll.todo[1] = Head(poll.todo) /\ 1 \in DOMAIN poll.todo
  <2>1. poll.todo \in Seq(SeenRecord)
        BY <1>3 DEF RecoveryTypes, PollRecord
  <2> QED
      BY <1>1, <2>1
<1>5. c \in Chats /\ checkpoint[c] \in Nat /\ checkpoint[c] =< Len(log)
      BY <1>3, <1>4 DEF SeenRecord, RecoveryTypes, LogOK
<1>6. page(last) \subseteq all /\ all \subseteq MessagesOf(c) /\ MessagesOf(c) \subseteq Int /\ IsFiniteSet(all)
  <2>1. all \subseteq MessagesOf(c) /\ page(last) \subseteq all
        BY DEF NewestOf
  <2> QED
      BY <1>3, <2>1, LogIs, FS_Subset
<1>7. last * PageSize \in Nat
      BY <1>3, RecoveryAssumption DEF RecoveryTypes
<1>8. ASSUME NEW n \in MessagesOf(c), ends(last), checkpoint[c] # 0, Within(n, resume[c]),
             n \notin page(last) \/ ~(n > checkpoint[c])
      PROVE  n =< checkpoint[c]
  <2>1. n \in all /\ n \in Int
        BY <1>6, <1>8
  <2>2. CASE n \in page(last)
        BY <1>5, <1>8, <2>1, <2>2
  <2>3. CASE n \notin page(last)
    <3>1. checkpoint[c] \in page(last)
          BY <1>8, <2>1, <2>3 DEF Ends
    <3> HIDE DEF all
    <3>2. n < checkpoint[c]
          BY <1>6, <1>7, <2>1, <2>3, <3>1, NewestAreNewer
    <3> QED
        BY <1>5, <2>1, <3>2
  <2> QED
      BY <2>2, <2>3
<1>9. ends(last) \in BOOLEAN
      BY DEF Ends
<1>10. /\ scan'.on = TRUE /\ scan'.seen = Head(poll.todo) /\ scan'.known = checkpoint[c] /\ scan'.from = resume[c]
       /\ scan'.whole = ends(last) /\ scan'.unseen = {n \in page(last) : n > checkpoint[c]}
  <2> HIDE DEF c, ends, page
  <2> QED
      BY <1>2
<1>11. RecoveryTypes'
       BY <1>1, <1>3, <1>4, <1>5, <1>9, <1>10 DEF RecoveryTypes
<1>12. \A n \in ByFan(MessagesOf(c)) : n \in MessagesOf(c) /\ (n =< checkpoint[c] => Settled(n)')
  <2>1. \A n \in ByFan(MessagesOf(c)) : n \in MessagesOf(c) /\ n \in ByFan(DOMAIN log) /\ log[n].chat = c
        BY DEF ByFan, MessagesOf
  <2>2. \A n \in DOMAIN log : Settled(n) => Settled(n)'
        BY <1>1, <1>3, SettledStays
  <2> QED
      BY <2>1, <2>2 DEF RecoveryInv, Passed, ByFan
<1>13. ScanOK'
  <2>1. /\ MessagesOf(c)' = MessagesOf(c) /\ ByFan(MessagesOf(c))' = ByFan(MessagesOf(c))
        BY <1>1, SameList DEF ByFan
  <2>2. scan'.seen.chat = c
        BY <1>10
  <2>3. \A n : Within(n, scan'.from) = Within(n, resume[c])
        BY <1>10 DEF Within
  <2>4. scan'.unseen \subseteq MessagesOf(c)
        BY <1>6, <1>10
  <2>5. ASSUME NEW n \in ByFan(MessagesOf(c)), scan'.whole, scan'.known # 0, Within(n, scan'.from), n \notin scan'.unseen
        PROVE  n =< scan'.known
    <3>1. n \in MessagesOf(c) /\ ends(last) /\ checkpoint[c] # 0 /\ Within(n, resume[c])
          BY <1>10, <1>12, <2>3, <2>5
    <3>2. n \notin page(last) \/ ~(n > checkpoint[c])
          BY <1>10, <2>5
    <3> QED
        BY <1>8, <1>10, <3>1, <3>2
  <2>6. \E x : x = MessagesOf(scan.seen.chat)' /\ x = MessagesOf(c)
        BY <1>1, <2>2 DEF MessagesOf
  <2>7. ByFan(MessagesOf(scan.seen.chat))' = ByFan(MessagesOf(c))
        BY <1>1, <2>2 DEF MessagesOf, ByFan
  <2>8. \A n : Within(n, scan.from)' = Within(n, scan'.from)
        BY DEF Within
  <2> HIDE DEF c, ends, page
  <2> QED
      BY <1>1, <1>5, <1>10, <1>12, <2>2, <2>4, <2>5, <2>6, <2>7, <2>8 DEF ScanOK
<1>14. LogOK' /\ TodoOK' /\ PollOK'
       BY <1>1, SameList DEF RecoveryInv, LogOK, TodoOK, SeenOK, PollOK
<1>15. Passed' /\ HeadOK'
       BY <1>1, <1>3, PassedStays, HeadStays DEF RecoveryInv
<1>16. \A d \in Chats : Waiting(d)' => Waiting(d)
       BY <1>1, <1>3, WaitsStill DEF Waiting
<1>17. \A d \in Chats : Listed(d)' = Listed(d) /\ Pending(d)' = Pending(d)
       BY <1>1, SameList DEF Listed, Pending
<1>18. QuietOK'
       BY <1>1, <1>16, <1>17 DEF RecoveryInv, QuietOK
<1>19. NextOK'
  <2>1. \A d \in Chats : Unread(d) > 0 /\ Settled(Latest(d)) => Settled(Latest(d))'
    <3> SUFFICES ASSUME NEW d \in Chats, Unread(d) > 0, Settled(Latest(d)) PROVE Settled(Latest(d))'
        OBVIOUS
    <3>1. Latest(d)' = Latest(d)
          BY <1>1, SameList
    <3> QED
        BY <1>1, <1>3, <3>1, WaitsStill
  <2>2. \A d \in Chats : Unread(d) > 0 /\ Latest(d) = poll.next /\ Settled(poll.next) => Settled(poll.next)'
    <3> SUFFICES ASSUME NEW d \in Chats, Unread(d) > 0, Latest(d) = poll.next, Settled(poll.next) PROVE Settled(poll.next)'
        OBVIOUS
    <3>1. Latest(d)' = poll'.next
          BY <1>1, SameList
    <3> QED
        BY <2>1, <3>1
  <2> QED
      BY <1>1, <1>16, <1>17, <2>2, SameList DEF RecoveryInv, NextOK
<1> QED
    BY <1>11, <1>13, <1>14, <1>15, <1>18, <1>19 DEF RecoveryInv

\* A poll that ends, at its end or before.
LEMMA StopKeeps == ASSUME RecoveryInv, Stop PROVE RecoveryInv'
<1>1. /\ poll' = [at |-> "idle", offset |-> 0, next |-> 0, todo |-> <<>>, ok |-> FALSE]
      /\ scan' = [on |-> FALSE]
      /\ UNCHANGED <<chatting, log, read, checkpoint, head, beyond, covered, excused, backlog, quiet>>
      BY DEF Stop, Idle, NoScan, provider, marks, inbox
<1>2. RecoveryTypes /\ LogOK /\ Explained' = Explained
      BY <1>1 DEF RecoveryInv, Explained
<1>3. RecoveryTypes'
  <2>1. <<>> \in Seq(SeenRecord)
        OBVIOUS
  <2> QED
      BY <1>1, <1>2, <2>1 DEF RecoveryTypes, PollRecord
<1>4. LogOK'
      BY <1>1, <1>2, SameList, LogIs DEF LogOK
<1>5. Passed' /\ HeadOK'
      BY <1>1, <1>2, PassedStays, HeadStays DEF RecoveryInv
<1>6. ScanOK' /\ TodoOK' /\ PollOK' /\ NextOK' /\ QuietOK'
      BY <1>1 DEF ScanOK, TodoOK, PollOK, NextOK, QuietOK
<1> QED
    BY <1>3, <1>4, <1>5, <1>6 DEF RecoveryInv

LEMMA FinishKeeps == ASSUME RecoveryInv, Finish PROVE RecoveryInv'
<1>1. /\ poll.at = "ingest" /\ poll.todo = <<>>
      /\ head' = IF poll.ok /\ poll.next # 0 THEN poll.next ELSE head
      /\ poll' = [at |-> "idle", offset |-> 0, next |-> 0, todo |-> <<>>, ok |-> poll.ok]
      /\ UNCHANGED <<chatting, log, read, checkpoint, scan, beyond, covered, excused, backlog, quiet>>
      BY DEF Finish, Idle, provider, marks, inbox
<1>2. RecoveryTypes /\ LogOK /\ Explained' = Explained /\ ~scan.on
      BY <1>1 DEF RecoveryInv, Explained, ScanOK, RecoveryTypes
<1>3. poll.ok \in BOOLEAN /\ poll.next \in Nat
      BY <1>2 DEF RecoveryTypes, PollRecord
<1>4. RecoveryTypes'
  <2>1. <<>> \in Seq(SeenRecord)
        OBVIOUS
  <2> QED
      BY <1>1, <1>2, <1>3, <2>1 DEF RecoveryTypes, PollRecord
<1>5. LogOK'
      BY <1>1, <1>2, SameList, LogIs DEF LogOK
<1>6. Passed'
      BY <1>1, <1>2, PassedStays DEF RecoveryInv
<1>7. ScanOK' /\ TodoOK' /\ PollOK'
      BY <1>1, <1>2 DEF ScanOK, TodoOK, PollOK
<1>8. \A d \in Chats : ~Pending(d) /\ ~Listed(d)
      BY <1>1 DEF Pending, Listed
<1>9. \A d \in Chats : Waiting(d)' => Waiting(d)
      BY <1>1, <1>2, WaitsStill DEF Waiting
<1>10. QuietOK'
       BY <1>1, <1>8, <1>9 DEF RecoveryInv, QuietOK
<1>11. NextOK'
  <2>1. \A d \in Chats : Unread(d)' > 0 => Latest(d)' # 0
        BY <1>1, <1>2, WaitsStill, LogIs, SameList
  <2>2. ~(\E x \in Written' : Latest(x)' = 0)
        BY <1>1, <1>2, LatestIs, LogIs, SameList
  <2> QED
      BY <1>1, <2>1, <2>2 DEF NextOK, Stands
<1>12. HeadOK'
  <2>1. CASE poll.ok /\ poll.next # 0
    <3>1. head' = poll.next
          BY <1>1, <2>1
    <3>2. ASSUME NEW d \in Chats, Stands(head)', Waiting(d)' PROVE Latest(d)' > head'
      <4>1. Waiting(d) /\ Latest(d)' = Latest(d) /\ Latest(d) \in Nat
            BY <1>1, <1>2, <1>9, <3>2, WaitsStill, LogIs, SameList DEF Waiting
      <4>2. \E x \in Written' : Latest(x)' = head' /\ (chatting' => Unread(x)' > 0)
            BY <3>2 DEF Stands
      <4>3. Stands(poll.next)
            BY <1>1, <3>1, <4>2, SameList DEF Stands
      <4>4. ~(Latest(d) =< poll.next)
            BY <1>8, <2>1, <4>1, <4>3 DEF RecoveryInv, NextOK
      <4> QED
          BY <1>3, <3>1, <4>1, <4>4
    <3>3. ASSUME NEW d \in Chats, Unread(d)' > 0, Latest(d)' = head' PROVE Settled(Latest(d))'
      <4>1. Unread(d) > 0 /\ Latest(d) = poll.next /\ Latest(d)' = Latest(d)
            BY <1>1, <3>1, <3>3, SameList
      <4>2. Settled(Latest(d))
            BY <1>8, <2>1, <4>1 DEF RecoveryInv, NextOK
      <4> QED
          BY <1>1, <1>2, <4>1, <4>2, WaitsStill
    <3>4. \A d \in Chats : Unread(d)' > 0 /\ Latest(d)' = head' => Settled(head)'
      <4> SUFFICES ASSUME NEW d \in Chats, Unread(d)' > 0, Latest(d)' = head' PROVE Settled(head)'
          OBVIOUS
      <4> QED
          BY <3>3
    <3> QED
        BY <3>2, <3>4 DEF HeadOK
  <2>2. CASE ~(poll.ok /\ poll.next # 0)
        BY <1>1, <1>2, <2>2, HeadStays DEF RecoveryInv
  <2> QED
      BY <2>1, <2>2
<1> QED
    BY <1>4, <1>5, <1>6, <1>7, <1>10, <1>11, <1>12 DEF RecoveryInv

-----------------------------------------------------------------------------
\* The checkpoints.

LEMMA TailIs ==
    ASSUME NEW S, NEW q \in Seq(S), q # <<>>
    PROVE  /\ Tail(q) \in Seq(S) /\ Head(q) = q[1] /\ Head(q) \in S /\ 1 \in DOMAIN q
           /\ \A i \in DOMAIN Tail(q) : i + 1 \in DOMAIN q /\ Tail(q)[i] = q[i + 1]
           /\ \A i \in DOMAIN q : i # 1 => i - 1 \in DOMAIN Tail(q) /\ Tail(q)[i - 1] = q[i]
OBVIOUS

LEMMA MarkKeeps == ASSUME RecoveryInv, NEW c \in Chats, Mark(c) PROVE RecoveryInv'
<1> DEFINE page == NewestOf(MessagesOf(c), PageSize)
<1>1. /\ chatting /\ backlog = {} /\ MessagesOf(c) # {}
      /\ checkpoint' = [checkpoint EXCEPT ![c] = Latest(c)]
      /\ backlog' = {n \in page : ~Answered(n) /\ log[n].fan}
      /\ excused' = excused \cup (ByFan(MessagesOf(c)) \ page)
      /\ beyond' = beyond \ {c}
      /\ UNCHANGED <<chatting, log, read, head, poll, scan, covered, quiet>>
      BY DEF Mark, provider, inbox
<1>2. /\ RecoveryTypes /\ LogOK /\ Explained \subseteq Explained'
      BY <1>1 DEF RecoveryInv, Explained
<1>3. c \in Written /\ Latest(c) \in Nat /\ Latest(c) =< Len(log)
  <2>1. c \in Written
        BY <1>1 DEF Written
  <2> QED
      BY <1>2, <2>1, LatestIs, LogIs
<1>4. ASSUME NEW n \in ByFan(MessagesOf(c)) PROVE Settled(n)'
  <2>1. n \in MessagesOf(c) /\ log[n].fan
        BY DEF ByFan
  <2>2. Answered(n)' = Answered(n)
        BY <1>1 DEF Answered, MessagesOf
  <2> HIDE DEF page
  <2> QED
      BY <1>1, <2>1, <2>2 DEF Settled
<1>5. \A n \in DOMAIN log : Settled(n) => Settled(n)'
      BY <1>1, <1>2, SettledStays
<1>6. Unread(c) > 0 => Settled(Latest(c))'
  <2> SUFFICES ASSUME Unread(c) > 0 PROVE Settled(Latest(c))'
      OBVIOUS
  <2>1. Latest(c) \in ByFan(MessagesOf(c)) /\ Latest(c)' = Latest(c)
        BY <1>1, <1>2, UnreadLatest, SameList DEF ByFan, MessagesOf
  <2> QED
      BY <1>4, <2>1
<1>7. RecoveryTypes' /\ LogOK'
  <2>1. checkpoint' \in [Chats -> Nat] /\ \A d \in Chats : checkpoint'[d] \in {checkpoint[d], Latest(c)}
        BY <1>1, <1>2, <1>3 DEF RecoveryTypes
  <2>2. RecoveryTypes'
        BY <1>1, <1>2, <2>1 DEF RecoveryTypes
  <2>3. LogOK'
        BY <1>1, <1>2, <1>3, <2>1, SameList DEF LogOK
  <2> QED
      BY <2>2, <2>3
<1>8. Passed'
  <2>1. ASSUME NEW n \in ByFan(DOMAIN log), n =< checkpoint'[log[n].chat] PROVE Settled(n)'
    <3>1. n \in DOMAIN log /\ log[n].fan /\ log[n].chat \in Chats
          BY <1>2, LogIs DEF ByFan
    <3>2. CASE log[n].chat = c
          BY <1>4, <3>1, <3>2 DEF ByFan, MessagesOf
    <3>3. CASE log[n].chat # c
      <4>1. checkpoint'[log[n].chat] = checkpoint[log[n].chat]
            BY <1>1, <1>2, <3>1, <3>3 DEF RecoveryTypes
      <4> QED
          BY <1>5, <2>1, <3>1, <4>1 DEF RecoveryInv, Passed
    <3> QED
        BY <3>2, <3>3
  <2> QED
      BY <1>1, <2>1 DEF Passed, ByFan
<1>9. HeadOK'
      BY <1>1, <1>2, <1>6, HeadStays DEF RecoveryInv
<1>10. ScanOK'
  <2> SUFFICES ASSUME scan.on PROVE ScanOK'
      BY <1>1 DEF ScanOK
  <2>1. \A n \in ByFan(MessagesOf(scan.seen.chat)) : n \in DOMAIN log
        BY DEF ByFan, MessagesOf
  <2>2. ByFan(MessagesOf(scan.seen.chat))' = ByFan(MessagesOf(scan.seen.chat))
        BY <1>1 DEF ByFan, MessagesOf
  <2>3. \A n : Within(n, scan.from)' = Within(n, scan.from)
        BY <1>1 DEF Within
  <2> QED
      BY <1>1, <1>5, <2>1, <2>2, <2>3, SameList DEF RecoveryInv, ScanOK
<1>11. TodoOK' /\ PollOK'
       BY <1>1, SameList DEF RecoveryInv, TodoOK, SeenOK, PollOK
<1>12. ASSUME NEW d \in Chats, Waiting(d)' PROVE Waiting(d)
  <2>1. d \notin beyond' /\ Unread(d) > 0 /\ ~Settled(Latest(d)) /\ ~Settled(Latest(d))'
        BY <1>1, <1>2, <1>12, WaitsStill
  <2> QED
      BY <1>1, <1>6, <2>1 DEF Waiting
<1>13. \A d \in Chats : Listed(d)' = Listed(d) /\ Pending(d)' = Pending(d)
       BY <1>1, SameList DEF Listed, Pending
<1>14. QuietOK'
       BY <1>1, <1>12, <1>13 DEF RecoveryInv, QuietOK
<1>15. NextOK'
  <2>1. ASSUME NEW d \in Chats, Unread(d) > 0, Latest(d) = poll.next, Settled(poll.next) PROVE Settled(poll.next)'
    <3>1. Latest(d)' = poll'.next /\ Latest(d)' = Latest(d)
          BY <1>1, <2>1, SameList
    <3>2. Settled(Latest(d))'
          BY <1>1, <1>2, <2>1, <3>1, WaitsStill
    <3> QED
        BY <3>1, <3>2
  <2> QED
      BY <1>1, <1>12, <1>13, <2>1, SameList DEF RecoveryInv, NextOK
<1> QED
    BY <1>7, <1>8, <1>9, <1>10, <1>11, <1>14, <1>15 DEF RecoveryInv

LEMMA IngestFailsKeeps == ASSUME RecoveryInv, IngestFails PROVE RecoveryInv'
<1>1. /\ scan.on /\ poll' = [poll EXCEPT !.todo = Tail(poll.todo), !.ok = FALSE] /\ scan' = [on |-> FALSE]
      /\ covered \subseteq covered'
      /\ UNCHANGED <<chatting, log, read, checkpoint, head, backlog, excused, beyond, quiet>>
      BY DEF IngestFails, NoScan, provider, marks
<1>2. /\ RecoveryTypes /\ LogOK /\ Explained \subseteq Explained' /\ poll.at = "ingest" /\ poll.todo # <<>>
      BY <1>1 DEF RecoveryInv, Explained, ScanOK
<1>3. poll \in PollRecord /\ poll.todo \in Seq(SeenRecord)
      BY <1>2 DEF RecoveryTypes, PollRecord
<1>4. PICK rest \in Seq(SeenRecord) : rest = Tail(poll.todo)
      BY <1>2, <1>3, TailIs
<1>5. /\ poll' \in PollRecord /\ poll'.at = "ingest" /\ poll'.next = poll.next /\ poll'.ok = FALSE
      /\ poll'.todo = rest
      BY <1>1, <1>2, <1>3, <1>4 DEF PollRecord
<1>6. RecoveryTypes' /\ LogOK'
      BY <1>1, <1>2, <1>5, SameList DEF RecoveryTypes, LogOK
<1>7. Passed' /\ HeadOK'
      BY <1>1, <1>2, PassedStays, HeadStays DEF RecoveryInv
<1>8. TodoOK'
  <2>1. ASSUME NEW i \in DOMAIN rest PROVE SeenOK(rest[i])'
    <3>1. i + 1 \in DOMAIN poll.todo /\ rest[i] = poll.todo[i + 1]
          BY <1>2, <1>3, <1>4, TailIs
    <3>2. SeenOK(rest[i])
          BY <3>1 DEF RecoveryInv, TodoOK
    <3> QED
        BY <1>1, <1>5, <3>2, SameList DEF SeenOK
  <2> QED
      BY <1>5, <2>1 DEF TodoOK
<1>9. ScanOK' /\ PollOK' /\ NextOK' /\ QuietOK'
      BY <1>1, <1>5 DEF ScanOK, PollOK, NextOK, QuietOK
<1> QED
    BY <1>6, <1>7, <1>8, <1>9 DEF RecoveryInv

\* Every message up to the checkpoint of a scan that is complete is in a row or has its reason.
LEMMA ScannedIsSettled ==
    ASSUME RecoveryInv, Ingest, Baseline \/ scan.whole \/ chatting,
           NEW n \in ByFan(MessagesOf(scan.seen.chat)), n =< scan.seen.last
    PROVE  Settled(n)'
<1>1. /\ scan.on /\ covered' = covered \cup Texts(ToInsert) /\ excused' = excused \cup Reasons
      /\ UNCHANGED <<chatting, log, backlog>>
      BY DEF Ingest, Checkpoint, provider
<1>2. RecoveryTypes /\ Explained \subseteq Explained' /\ n \in DOMAIN log /\ log[n].fan
      BY <1>1 DEF RecoveryInv, Explained, ByFan, MessagesOf
<1>3. n \in Reasons => Settled(n)'
      BY <1>1 DEF Settled
<1>4. CASE Baseline
      BY <1>3, <1>4 DEF Reasons, Baseline
<1>5. CASE ~Baseline /\ n \in Found
  <2>1. CASE ~chatting
    <3>1. n \in Texts(ToInsert)
          BY <1>5, <2>1 DEF ToInsert, Texts
    <3> QED
        BY <1>1, <3>1 DEF Settled
  <2>2. CASE chatting /\ ToInsert \subseteq rows
        BY <1>3, <1>5, <2>2 DEF Reasons
  <2>3. CASE chatting /\ ~(ToInsert \subseteq rows)
    <3>1. n \in Texts(ToInsert)
          BY <1>5, <2>3 DEF Texts
    <3> QED
        BY <1>1, <3>1 DEF Settled
  <2> QED
      BY <2>1, <2>2, <2>3
<1>6. CASE ~Baseline /\ n \notin Found
  <2>1. CASE n \in Reasons
        BY <1>3, <2>1
  <2>2. CASE n \notin Reasons
    <3>1. scan.known # 0 /\ Within(n, scan.from) /\ ~(chatting /\ ~scan.whole /\ n \notin scan.unseen)
          BY <1>6, <2>2 DEF Reasons
    <3>2. n \notin scan.unseen
          BY <1>2, <1>6, <3>1 DEF Found, ByFan
    <3>3. scan.whole
          BY <1>2, <1>6, <3>1, <3>2 DEF RecoveryTypes
    <3>4. n =< scan.known /\ (n =< scan.known => Settled(n))
          BY <1>1, <3>1, <3>2, <3>3 DEF RecoveryInv, ScanOK
    <3> QED
        BY <1>1, <1>2, <3>4, SettledStays
  <2> QED
      BY <2>1, <2>2
<1> QED
    BY <1>4, <1>5, <1>6

LEMMA IngestKeeps == ASSUME RecoveryInv, Ingest PROVE RecoveryInv'
<1>1. PICK full \in BOOLEAN : full <=> Baseline \/ scan.whole \/ chatting
      OBVIOUS
<1>2. PICK seen : seen = scan.seen
      OBVIOUS
<1>3. PICK c : c = seen.chat
      OBVIOUS
<1>4. /\ scan.on /\ scan' = [on |-> FALSE] /\ covered \subseteq covered' /\ excused \subseteq excused'
      /\ UNCHANGED <<chatting, log, read, head, backlog, quiet>>
      /\ beyond' = beyond \ {c}
      /\ checkpoint' = [checkpoint EXCEPT ![c] = IF full THEN seen.last ELSE scan.known]
      /\ poll' = [poll EXCEPT !.todo = Tail(poll.todo), !.ok = poll.ok /\ full]
      BY <1>1, <1>2, <1>3 DEF Ingest, Checkpoint, NoScan, provider
<1>5. /\ RecoveryTypes /\ LogOK /\ Explained \subseteq Explained' /\ poll.at = "ingest" /\ poll.todo # <<>>
      /\ seen = Head(poll.todo) /\ scan.known \in Nat /\ scan.known =< Len(log)
      BY <1>2, <1>4 DEF RecoveryInv, Explained, ScanOK, RecoveryTypes
<1>6. poll \in PollRecord /\ poll.todo \in Seq(SeenRecord) /\ poll.ok \in BOOLEAN
      BY <1>5 DEF RecoveryTypes, PollRecord
<1>7. seen = poll.todo[1] /\ 1 \in DOMAIN poll.todo /\ seen \in SeenRecord
      BY <1>5, <1>6, TailIs
<1>8. c \in Written /\ seen.last \in Nat /\ SeenOK(seen)
      BY <1>3, <1>7 DEF RecoveryInv, TodoOK, SeenOK, SeenRecord
<1>9. c \in Chats /\ Latest(c) \in Nat /\ seen.last =< Len(log)
      BY <1>3, <1>5, <1>8, LatestIs, LogIs DEF SeenOK
<1>10. PICK rest \in Seq(SeenRecord) : rest = Tail(poll.todo)
       BY <1>5, <1>6, TailIs
<1>11. /\ poll' \in PollRecord /\ poll'.at = "ingest" /\ poll'.next = poll.next /\ poll'.ok = (poll.ok /\ full)
       /\ poll'.todo = rest
  <2>1. PICK ok \in BOOLEAN : ok = (poll.ok /\ full)
        OBVIOUS
  <2>2. poll' = [poll EXCEPT !.todo = rest, !.ok = ok]
        BY <1>4, <1>10, <2>1
  <2>3. /\ poll' \in PollRecord /\ poll'.at = poll.at /\ poll'.next = poll.next /\ poll'.ok = ok /\ poll'.todo = rest
        BY <1>6, <2>2 DEF PollRecord
  <2> QED
      BY <1>5, <2>1, <2>3
<1>12. \A n \in DOMAIN log : Settled(n) => Settled(n)'
       BY <1>4, <1>5, SettledStays
<1>13. full => \A n \in ByFan(MessagesOf(c)) : n =< seen.last => Settled(n)'
       BY <1>1, <1>2, <1>3, ScannedIsSettled
<1>14. ASSUME NEW n \in ByFan(MessagesOf(c)), n =< scan.known PROVE Settled(n)'
  <2>1. n \in DOMAIN log /\ Settled(n)
        BY <1>2, <1>3, <1>4, <1>14 DEF RecoveryInv, ScanOK, ByFan, MessagesOf
  <2> QED
      BY <1>12, <2>1
<1>15. Latest(c)' = Latest(c) /\ (Unread(c) > 0 => Latest(c) \in ByFan(MessagesOf(c)))
       BY <1>4, <1>5, <1>9, SameList, UnreadLatest DEF ByFan, MessagesOf
<1>16. full /\ Unread(c) > 0 /\ seen.last = Latest(c) => Settled(Latest(c))'
  <2> SUFFICES ASSUME full, Unread(c) > 0, seen.last = Latest(c) PROVE Settled(Latest(c))'
      OBVIOUS
  <2>1. Latest(c)' \in ByFan(MessagesOf(c)) /\ Latest(c)' =< seen.last
        BY <1>9, <1>15
  <2> QED
      BY <1>13, <2>1
<1>17. RecoveryTypes' /\ LogOK'
  <2>1. /\ checkpoint' \in [Chats -> Nat]
        /\ \A d \in Chats : checkpoint'[d] \in {checkpoint[d], seen.last, scan.known}
        BY <1>4, <1>5, <1>8 DEF RecoveryTypes
  <2>2. RecoveryTypes'
        BY <1>4, <1>5, <1>11, <2>1 DEF RecoveryTypes
  <2>3. \A d \in Chats : checkpoint'[d] =< Len(log)
        BY <1>5, <1>9, <2>1 DEF LogOK
  <2>4. LogOK'
        BY <1>4, <1>5, <1>11, <2>3, SameList DEF LogOK
  <2> QED
      BY <2>2, <2>4
<1>18. Passed'
  <2>1. ASSUME NEW n \in ByFan(DOMAIN log), n =< checkpoint'[log[n].chat] PROVE Settled(n)'
    <3>1. n \in DOMAIN log /\ log[n].fan /\ log[n].chat \in Chats
          BY <1>5, LogIs DEF ByFan
    <3>2. CASE log[n].chat = c
      <4>1. n \in ByFan(MessagesOf(c))
            BY <3>1, <3>2 DEF ByFan, MessagesOf
      <4>2. checkpoint'[c] = IF full THEN seen.last ELSE scan.known
            BY <1>4, <1>5, <1>9 DEF RecoveryTypes
      <4> QED
          BY <1>13, <1>14, <2>1, <3>2, <4>1, <4>2
    <3>3. CASE log[n].chat # c
      <4>1. checkpoint'[log[n].chat] = checkpoint[log[n].chat]
            BY <1>4, <1>5, <3>1, <3>3 DEF RecoveryTypes
      <4> QED
          BY <1>12, <2>1, <3>1, <4>1 DEF RecoveryInv, Passed
    <3> QED
        BY <3>2, <3>3
  <2> QED
      BY <1>4, <2>1 DEF Passed, ByFan
<1>19. HeadOK'
  <2>1. ASSUME Stands(head), Unread(c) > 0 PROVE Latest(c) > head \/ Settled(Latest(c))'
    <3>1. CASE seen.last # Latest(c)
          BY <1>3, <1>8, <3>1 DEF SeenOK
    <3>2. CASE seen.last = Latest(c) /\ full
          BY <1>16, <2>1, <3>2
    <3>3. CASE seen.last = Latest(c) /\ ~full
      <4>1. Latest(c) >= head
            BY <1>1, <1>3, <1>8, <2>1, <3>3 DEF SeenOK
      <4>2. CASE Latest(c) = head
        <5>1. Settled(Latest(c)) /\ Latest(c) \in DOMAIN log
              BY <1>4, <1>5, <1>9, <2>1, <4>2, WaitsStill DEF RecoveryInv, HeadOK
        <5> QED
            BY <1>4, <1>5, <1>9, <1>15, <5>1, WaitsStill
      <4> QED
          BY <1>5, <1>9, <4>1, <4>2 DEF RecoveryTypes
    <3> QED
        BY <3>1, <3>2, <3>3
  <2> QED
      BY <1>4, <1>5, <2>1, HeadStays DEF RecoveryInv
<1>20. TodoOK'
  <2>1. ASSUME NEW i \in DOMAIN rest PROVE SeenOK(rest[i])'
    <3>1. i + 1 \in DOMAIN poll.todo /\ rest[i] = poll.todo[i + 1]
          BY <1>5, <1>6, <1>10, TailIs
    <3>2. SeenOK(rest[i])
          BY <3>1 DEF RecoveryInv, TodoOK
    <3> QED
        BY <1>4, <1>11, <3>2, SameList DEF SeenOK
  <2> QED
      BY <1>11, <2>1 DEF TodoOK
<1>21. ScanOK' /\ PollOK'
       BY <1>4, <1>11 DEF ScanOK, PollOK
<1>22. ASSUME NEW d \in Chats, Listed(d), d # c \/ seen.last # Latest(c) PROVE Listed(d)'
  <2>1. PICK i \in DOMAIN poll.todo : poll.todo[i].chat = d /\ poll.todo[i].last = Latest(d)
        BY <1>22 DEF Listed
  <2>2. i # 1
        BY <1>3, <1>7, <1>22, <2>1
  <2>3. i - 1 \in DOMAIN rest /\ rest[i - 1] = poll.todo[i]
        BY <1>5, <1>6, <1>10, <2>2, TailIs
  <2> QED
      BY <1>4, <1>11, <2>1, <2>3, SameList DEF Listed
<1>23. ASSUME NEW d \in Chats, Waiting(d)', full
       PROVE  (d = c => seen.last # Latest(c)) /\ (d # c => Waiting(d))
  <2>1. d \notin beyond' /\ Unread(d) > 0 /\ ~Settled(Latest(d)) /\ ~Settled(Latest(d))'
        BY <1>4, <1>5, <1>23, WaitsStill
  <2> QED
      BY <1>4, <1>16, <1>23, <2>1 DEF Waiting
<1>24. QuietOK'
  <2>1. ASSUME NEW d \in Chats, Waiting(d)', poll'.ok, quiet' PROVE Pending(d)'
    <3>1. full /\ poll.ok /\ quiet /\ seen.last = Latest(c)
          BY <1>3, <1>4, <1>6, <1>8, <1>11, <2>1 DEF SeenOK
    <3>2. Waiting(d) /\ d # c
          BY <1>23, <2>1, <3>1
    <3>3. Listed(d)
          BY <1>5, <3>1, <3>2 DEF RecoveryInv, QuietOK, Pending
    <3> QED
        BY <1>22, <3>2, <3>3 DEF Pending
  <2> QED
      BY <2>1 DEF QuietOK
<1>25. NextOK'
  <2>1. ASSUME NEW d \in Chats, poll'.ok, Stands(poll.next)', Waiting(d)', Latest(d)' =< poll'.next PROVE Pending(d)'
    <3>1. full /\ poll.ok /\ Latest(d) =< poll.next
          BY <1>4, <1>6, <1>11, <2>1, SameList
    <3>2. \E x \in Written' : Latest(x)' = poll'.next /\ (chatting' => Unread(x)' > 0)
          BY <2>1 DEF Stands
    <3>3. Stands(poll.next)
          BY <1>4, <1>11, <3>2, SameList DEF Stands
    <3>4. d # c
      <4>1. CASE d = c
        <5>1. seen.last # Latest(c)
              BY <1>23, <2>1, <3>1, <4>1
        <5>2. Latest(c) > poll.next /\ poll.next \in Nat
              BY <1>3, <1>6, <1>8, <5>1 DEF SeenOK, PollRecord
        <5> QED
            BY <1>9, <3>1, <4>1, <5>2
      <4> QED
          BY <4>1
    <3>5. Waiting(d)
          BY <1>23, <2>1, <3>1, <3>4
    <3>6. Listed(d)
          BY <1>5, <3>1, <3>3, <3>5 DEF RecoveryInv, NextOK, Pending
    <3> QED
        BY <1>22, <3>4, <3>6 DEF Pending
  <2>2. ASSUME NEW d \in Chats, poll'.ok, Unread(d)' > 0, Latest(d)' = poll'.next
        PROVE  Settled(Latest(d))' \/ Listed(d)'
    <3>1. full /\ poll.ok /\ Unread(d) > 0 /\ Latest(d) = poll.next /\ Latest(d)' = Latest(d)
          BY <1>4, <1>6, <1>11, <2>2, SameList
    <3>2. Settled(Latest(d)) \/ Listed(d)
          BY <3>1 DEF RecoveryInv, NextOK
    <3>3. CASE Settled(Latest(d))
          BY <1>4, <1>5, <3>1, <3>3, WaitsStill
    <3>4. CASE Listed(d) /\ (d # c \/ seen.last # Latest(c))
          BY <1>22, <3>4
    <3>5. CASE d = c /\ seen.last = Latest(c)
          BY <1>16, <3>1, <3>5
    <3> QED
        BY <3>2, <3>3, <3>4, <3>5
  <2> QED
      BY <2>1, <2>2 DEF NextOK
<1> QED
    BY <1>17, <1>18, <1>19, <1>20, <1>21, <1>24, <1>25 DEF RecoveryInv

-----------------------------------------------------------------------------
\* The provider moves in one chat: a message, or the creator reads it.

LEMMA OneChatMoves ==
    ASSUME RecoveryInv, NEW c \in Chats, Moves(c), quiet' = FALSE,
           UNCHANGED <<chatting, checkpoint, head, poll, scan>>,
           Written' = Written \cup {c}, Latest(c)' \in Nat,
           \A d \in Written \ {c} : Latest(d)' = Latest(d) /\ Unread(d)' = Unread(d),
           \A n \in DOMAIN log : Settled(n) => Settled(n)',
           Latest(c)' > Len(log) \/ (c \in Written /\ Latest(c)' = Latest(c) /\ ~(Unread(c)' > 0))
    PROVE  TodoOK' /\ PollOK' /\ HeadOK' /\ NextOK' /\ QuietOK'
<1>1. RecoveryTypes /\ LogOK /\ head \in Nat /\ poll \in PollRecord
      BY DEF RecoveryInv, RecoveryTypes
<1>2. /\ poll.todo \in Seq(SeenRecord) /\ poll.next \in Nat /\ poll.offset \in Nat
      /\ head =< Len(log) /\ poll.next =< Len(log) /\ Len(log) \in Nat
      BY <1>1, LogIs DEF PollRecord, LogOK
<1>3. \A d \in Written : Latest(d) \in 1..Len(log)
      BY <1>1, LatestIs
<1>4. \A d \in Written : Latest(d)' \in Nat /\ Latest(d)' >= Latest(d)
      BY <1>2, <1>3
<1>5. ASSUME NEW d \in Written', Latest(d)' =< Len(log)
      PROVE  /\ d \in Written /\ Latest(d)' = Latest(d)
             /\ Unread(d)' > 0 => d # c /\ Unread(d) > 0
      BY <1>2, <1>5
<1>6. ASSUME NEW h \in Nat, h =< Len(log), \E x \in Written' : Latest(x)' = h /\ (chatting => Unread(x)' > 0)
      PROVE  Stands(h)
      BY <1>5, <1>6 DEF Stands
<1>7. beyond \subseteq beyond'
      BY DEF Moves
<1>8. \A d \in Chats : Unread(d)' > 0 => d \in Written'
  <2>1. ASSUME NEW d \in Chats, Unread(d)' > 0, d # c, d \notin Written PROVE FALSE
    <3>1. MessagesOf(d)' = {}
          BY <2>1 DEF Written
    <3>2. ByFan({n \in MessagesOf(d) : n > read[d]})' = {}
          BY <3>1 DEF ByFan
    <3>3. Unread(d)' = 0
          BY <3>2, FS_EmptySet DEF Unread
    <3> QED
        BY <2>1, <3>3
  <2> QED
      BY <2>1
<1>9. ASSUME NEW d \in Chats, Waiting(d)', Latest(d)' =< Len(log)
      PROVE  d # c /\ d \in Written /\ Latest(d)' = Latest(d) /\ Waiting(d)
  <2>1. d \notin beyond' /\ Unread(d)' > 0 /\ ~Settled(Latest(d))'
        BY <1>9 DEF Waiting
  <2>2. d \in Written /\ Latest(d)' = Latest(d) /\ d # c /\ Unread(d) > 0
        BY <1>5, <1>8, <1>9, <2>1
  <2>3. Latest(d) \in DOMAIN log
        BY <1>1, <1>3, <2>2, LogIs
  <2>4. ~Settled(Latest(d))
    <3>1. Settled(Latest(d)) => Settled(Latest(d))'
      <4>1. PICK n \in DOMAIN log : n = Latest(d) /\ n = Latest(d)'
            BY <2>2, <2>3
      <4>2. Settled(n) => Settled(n)'
            BY <4>1
      <4> QED
          BY <4>1, <4>2
    <3> QED
        BY <2>1, <3>1
  <2> QED
      BY <1>7, <2>1, <2>2, <2>4 DEF Waiting
<1>10. ASSUME NEW d \in Chats, d \in Written, d # c, d \notin beyond', Latest(d)' = Latest(d), Pending(d)
       PROVE  Pending(d)'
  <2>1. CASE Listed(d)
        BY <1>10, <2>1 DEF Listed, Pending
  <2>2. CASE poll.at = "list" /\ Place(d) > poll.offset
    <3>1. ~(Place(d)' =< poll.offset)
          BY <1>10, <2>2 DEF Moves
    <3>2. Place(d)' \in Int
      <4>1. Written' \subseteq Chats
            BY DEF Written
      <4>2. {x \in Written' : Before(x, d)'} \subseteq Chats
            BY <4>1
      <4>3. Cardinality({x \in Written' : Before(x, d)'}) \in Nat
            BY <4>2, RecoveryAssumption, FS_Subset, FS_CardinalityType
      <4> QED
          BY <4>3 DEF Place
    <3> QED
        BY <1>2, <2>2, <3>1, <3>2 DEF Pending
  <2> QED
      BY <1>10, <2>1, <2>2 DEF Pending
<1>11. TodoOK'
  <2>1. ASSUME NEW i \in DOMAIN poll.todo PROVE SeenOK(poll.todo[i])'
    <3>1. PICK seen \in SeenRecord : seen = poll.todo[i]
          BY <1>2
    <3>2. SeenOK(seen)
          BY <3>1 DEF RecoveryInv, TodoOK
    <3>3. seen.chat \in Written /\ seen.last \in Nat /\ seen.last =< Latest(seen.chat)
          BY <3>1, <3>2 DEF SeenOK, SeenRecord
    <3>4. PICK l \in Nat : l = Latest(seen.chat)' /\ l >= Latest(seen.chat)
          BY <1>4, <3>3
    <3>5. l = Latest(seen.chat) \/ l > Len(log)
          BY <3>3, <3>4
    <3>6. seen.last =< l /\ (seen.last # l => l > head /\ l > poll.next)
      <4>1. PICK m \in Nat : m = Latest(seen.chat)
            BY <1>3, <3>3
      <4>2. seen.last =< m /\ (seen.last # m => m > head /\ m > poll.next)
            BY <3>2, <4>1 DEF SeenOK
      <4>3. l >= m /\ (l = m \/ l > Len(log))
            BY <3>4, <3>5, <4>1
      <4>4. CASE l = m
            BY <4>2, <4>4
      <4>5. CASE l > Len(log)
            BY <1>1, <1>2, <3>3, <4>1, <4>2, <4>3, <4>5
      <4> QED
          BY <4>3, <4>4, <4>5
    <3>7. ~chatting /\ Stands(head)' => l >= head
      <4> SUFFICES ASSUME ~chatting, Stands(head)' PROVE l >= head
          OBVIOUS
      <4>1. Stands(head)
            BY <1>1, <1>2, <1>6 DEF Stands
      <4> QED
          BY <1>1, <1>2, <1>3, <3>2, <3>3, <3>4, <4>1 DEF SeenOK
    <3>8. poll.todo'[i] = seen
          BY <3>1
    <3> QED
        BY <3>3, <3>4, <3>6, <3>7, <3>8 DEF SeenOK
  <2> QED
      BY <2>1 DEF TodoOK
<1>12. PollOK'
  <2>1. ASSUME poll.at = "list", ~chatting, NEW y \in Written', Latest(y)' = head PROVE Place(y)' > poll.offset
    <3>1. y \in Written /\ Latest(y)' = Latest(y)
          BY <1>2, <1>5, <2>1
    <3>2. Place(y) > poll.offset
          BY <2>1, <3>1 DEF RecoveryInv, PollOK
    <3>3. PICK S : S = {x \in Written' : Before(x, y)'}
          OBVIOUS
    <3>4. S \subseteq Chats
          BY <3>3 DEF Written
    <3>5. {x \in Written : Before(x, y)} \subseteq S
          BY <1>3, <1>4, <2>1, <3>1, <3>3 DEF Before
    <3>6. IsFiniteSet(S)
          BY <3>4, RecoveryAssumption, FS_Subset
    <3>7. /\ Cardinality(S) \in Nat /\ Cardinality({x \in Written : Before(x, y)}) \in Nat
          /\ Cardinality({x \in Written : Before(x, y)}) =< Cardinality(S)
          BY <3>5, <3>6, FS_Subset, FS_CardinalityType
    <3>8. Place(y)' = Cardinality(S) + 1
          BY <3>3 DEF Place
    <3> QED
        BY <1>2, <3>2, <3>7, <3>8 DEF Place
  <2> QED
      BY <2>1 DEF RecoveryInv, PollOK
<1>13. ASSUME NEW d \in Chats, Unread(d)' > 0, Latest(d)' =< Len(log)
       PROVE  Unread(d) > 0 /\ d \in Written /\ Latest(d)' = Latest(d) /\ Latest(d) \in DOMAIN log
       BY <1>1, <1>3, <1>5, <1>8, <1>13, LogIs
<1>14. HeadOK'
  <2>1. ASSUME Stands(head)', NEW d \in Chats, Waiting(d)' PROVE Latest(d)' > head
    <3>1. Stands(head)
          BY <1>1, <1>2, <1>6, <2>1 DEF Stands
    <3>2. d \in Written' /\ Latest(d)' \in Nat
          BY <1>4, <1>8, <2>1 DEF Waiting
    <3>3. PICK l \in Nat : l = Latest(d)'
          BY <3>2
    <3>4. CASE l =< Len(log)
          BY <1>9, <2>1, <3>1, <3>3, <3>4 DEF RecoveryInv, HeadOK
    <3>5. CASE l > Len(log)
      <4>1. l > head
            BY <1>1, <1>2, <3>5
      <4> QED
          BY <3>3, <4>1
    <3> QED
        BY <1>2, <3>3, <3>4, <3>5
  <2>2. ASSUME NEW d \in Chats, Unread(d)' > 0, Latest(d)' = head PROVE Settled(head)'
    <3>1. Unread(d) > 0 /\ Latest(d) = head /\ head \in DOMAIN log
          BY <1>2, <1>13, <2>2
    <3>2. Settled(head)
          BY <3>1 DEF RecoveryInv, HeadOK
    <3> QED
        BY <3>1, <3>2
  <2> QED
      BY <2>1, <2>2 DEF HeadOK
<1>15. NextOK'
  <2>1. ASSUME poll.ok, Stands(poll.next)', NEW d \in Chats, Waiting(d)', Latest(d)' =< poll.next PROVE Pending(d)'
    <3>1. \E x \in Written' : Latest(x)' = poll'.next /\ (chatting' => Unread(x)' > 0)
          BY <2>1 DEF Stands
    <3>2. Stands(poll.next)
          BY <1>2, <1>6, <3>1
    <3>3. d \in Written' /\ Latest(d)' \in Nat
          BY <1>4, <1>8, <2>1 DEF Waiting
    <3>4. d # c /\ d \in Written /\ Latest(d)' = Latest(d) /\ Waiting(d)
          BY <1>2, <1>9, <2>1, <3>3
    <3>5. Pending(d)
          BY <2>1, <3>2, <3>4 DEF RecoveryInv, NextOK
    <3> QED
        BY <1>10, <2>1, <3>4, <3>5 DEF Waiting
  <2>2. ASSUME poll.ok, NEW d \in Chats, Unread(d)' > 0, Latest(d)' = poll.next
        PROVE  Settled(poll.next)' \/ Listed(d)'
    <3>1. Unread(d) > 0 /\ Latest(d) = poll.next /\ Latest(d)' = Latest(d) /\ poll.next \in DOMAIN log
          BY <1>2, <1>13, <2>2
    <3>2. Settled(poll.next) \/ Listed(d)
          BY <2>2, <3>1 DEF RecoveryInv, NextOK
    <3>3. CASE Settled(poll.next)
      <4>1. PICK n \in DOMAIN log : n = poll.next
            BY <3>1
      <4>2. Settled(n)'
            BY <3>3, <4>1
      <4> QED
          BY <4>1, <4>2
    <3>4. CASE Listed(d)
          BY <3>1, <3>4 DEF Listed
    <3> QED
        BY <3>2, <3>3, <3>4
  <2> QED
      BY <2>1, <2>2 DEF NextOK
<1>16. QuietOK'
       BY DEF QuietOK
<1> QED
    BY <1>11, <1>12, <1>14, <1>15, <1>16

LEMMA OpenKeeps == ASSUME RecoveryInv, NEW c \in Chats, Open(c) PROVE RecoveryInv'
<1>1. /\ Unread(c) > 0 /\ read' = [read EXCEPT ![c] = Latest(c)] /\ quiet' = FALSE /\ Moves(c)
      /\ UNCHANGED <<chatting, log, rows, covered, checkpoint, head, poll, scan, backlog, excused>>
      BY DEF Open, inbox, marks
<1>2. RecoveryTypes /\ LogOK /\ Explained \subseteq Explained'
      BY <1>1 DEF RecoveryInv, Explained
<1>3. c \in Written /\ Latest(c) \in 1..Len(log) /\ Len(log) \in Nat
      BY <1>1, <1>2, UnreadLatest, LatestIs, LogIs
<1>4. read' \in [Chats -> Nat] /\ read'[c] = Latest(c) /\ \A d \in Chats \ {c} : read'[d] = read[d]
      BY <1>1, <1>2, <1>3 DEF RecoveryTypes
<1>5. \A d : MessagesOf(d)' = MessagesOf(d) /\ Latest(d)' = Latest(d)
  <2>1. \A d : MessagesOf(d)' = MessagesOf(d)
        BY <1>1 DEF MessagesOf
  <2> QED
      BY <2>1 DEF Latest
<1>6. Written' = Written
      BY <1>5 DEF Written
<1>7. \A d \in Written \ {c} : Unread(d)' = Unread(d)
  <2>1. ASSUME NEW d \in Written \ {c} PROVE Unread(d)' = Unread(d)
    <3>1. read'[d] = read[d]
          BY <1>4, <2>1 DEF Written
    <3> QED
        BY <1>1, <1>5, <3>1 DEF Unread, ByFan
  <2> QED
      BY <2>1
<1>8. ~(Unread(c)' > 0)
  <2>1. \A n \in MessagesOf(c) : n \in 1..Len(log) /\ n =< Latest(c)
        BY <1>2, <1>3, LogIs DEF LogOK
  <2>2. {n \in MessagesOf(c) : n > read[c]}' = {}
        BY <1>3, <1>4, <1>5, <2>1
  <2>3. Unread(c)' = Cardinality({})
        BY <2>2 DEF Unread, ByFan
  <2> QED
      BY <2>3, FS_EmptySet
<1>9. \A n \in DOMAIN log : Settled(n) => Settled(n)'
      BY <1>1, <1>2, SettledStays
<1>10. RecoveryTypes'
       BY <1>1, <1>2, <1>4 DEF RecoveryTypes
<1>11. LogOK'
  <2>1. ASSUME NEW n \in DOMAIN log, ~log[n].fan PROVE n =< read'[log[n].chat]
    <3>1. n =< read[log[n].chat] /\ log[n].chat \in Chats
          BY <1>2, <2>1, LogIs DEF LogOK
    <3>2. CASE log[n].chat = c
      <4>1. n \in MessagesOf(c)
            BY <3>2 DEF MessagesOf
      <4> QED
          BY <1>2, <1>3, <1>4, <3>2, <4>1 DEF LogOK
    <3> QED
        BY <1>4, <3>1, <3>2
  <2> QED
      BY <1>1, <1>2, <1>5, <1>6, <2>1 DEF LogOK
<1>12. Passed'
       BY <1>1, <1>2, PassedStays DEF RecoveryInv
<1>13. ScanOK'
  <2> SUFFICES ASSUME scan.on PROVE ScanOK'
      BY <1>1 DEF ScanOK
  <2>1. \A n \in ByFan(MessagesOf(scan.seen.chat)) : n \in DOMAIN log
        BY DEF ByFan, MessagesOf
  <2>2. ByFan(MessagesOf(scan.seen.chat))' = ByFan(MessagesOf(scan.seen.chat))
        BY <1>1 DEF ByFan, MessagesOf
  <2>3. \A n : Within(n, scan.from)' = Within(n, scan.from)
        BY <1>1 DEF Within
  <2> QED
      BY <1>1, <1>5, <1>9, <2>1, <2>2, <2>3 DEF RecoveryInv, ScanOK
<1>14. TodoOK' /\ PollOK' /\ HeadOK' /\ NextOK' /\ QuietOK'
  <2>1. Written' = Written \cup {c} /\ Latest(c)' \in Nat
        BY <1>3, <1>5, <1>6
  <2> QED
      BY <1>1, <1>3, <1>5, <1>7, <1>8, <1>9, <2>1, OneChatMoves
<1> QED
    BY <1>10, <1>11, <1>12, <1>13, <1>14 DEF RecoveryInv

LEMMA PostKeeps == ASSUME RecoveryInv, NEW c \in Chats, NEW fan \in BOOLEAN, Post(c, fan) PROVE RecoveryInv'
<1>1. PICK new \in Nat : new = Len(log) + 1
      BY LogIs DEF RecoveryInv
<1>2. PICK m : m = [chat |-> c, fan |-> fan]
      OBVIOUS
<1>3. /\ log' = Append(log, m) /\ quiet' = FALSE /\ Moves(c)
      /\ read' = IF fan THEN read ELSE [read EXCEPT ![c] = new]
      /\ UNCHANGED <<chatting, rows, covered, checkpoint, head, poll, scan, backlog, excused>>
      BY <1>1, <1>2 DEF Post, inbox, marks
<1>4. RecoveryTypes /\ LogOK /\ Explained \subseteq Explained'
      BY <1>3 DEF RecoveryInv, Explained
<1>5. Len(log) \in Nat /\ DOMAIN log = 1..Len(log) /\ new > Len(log) /\ m \in Message /\ m.chat = c /\ m.fan = fan
      BY <1>1, <1>2, <1>4, LogIs DEF Message
<1>6. /\ Len(log') = new /\ DOMAIN log' = DOMAIN log \cup {new}
      /\ \A n \in DOMAIN log : log'[n] = log[n]
      /\ log'[new] = m
      /\ \A d : MessagesOf(d)' = IF c = d THEN MessagesOf(d) \cup {new} ELSE MessagesOf(d)
      BY <1>1, <1>3, <1>4, <1>5, LogGrows
<1>7. \A d : \A n \in MessagesOf(d) : n \in DOMAIN log /\ n =< Len(log) /\ n < new
      BY <1>4, <1>5, LogIs
<1>8. Written' = Written \cup {c}
      BY <1>6 DEF Written
<1>9. new \in MessagesOf(c)' /\ \A n \in MessagesOf(c)' : n =< new /\ n \in Nat
      BY <1>5, <1>6, <1>7
<1>10. Latest(c)' = new
  <2>1. Latest(c)' = Max(MessagesOf(c)')
        BY DEF Latest
  <2>2. PICK S : S = MessagesOf(c)'
        OBVIOUS
  <2>3. new \in S /\ \A n \in S : n =< new /\ n \in Nat
        BY <1>9, <2>2
  <2>4. \A x \in S : (\A y \in S : x >= y) => x = new
        BY <2>3
  <2>5. Max(S) = new
        BY <2>3, <2>4 DEF Max
  <2> QED
      BY <2>1, <2>2, <2>5
<1>11. read' \in [Chats -> Nat] /\ \A d \in Chats \ {c} : read'[d] = read[d]
       BY <1>3, <1>4 DEF RecoveryTypes
<1>12. \A d \in Written \ {c} : MessagesOf(d)' = MessagesOf(d) /\ Latest(d)' = Latest(d) /\ Unread(d)' = Unread(d)
  <2>1. ASSUME NEW d \in Written \ {c}
        PROVE  MessagesOf(d)' = MessagesOf(d) /\ Latest(d)' = Latest(d) /\ Unread(d)' = Unread(d)
    <3>1. MessagesOf(d)' = MessagesOf(d)
          BY <1>6, <2>1
    <3>2. read'[d] = read[d] /\ MessagesOf(d) \subseteq DOMAIN log
          BY <1>7, <1>11, <2>1 DEF Written
    <3>3. ByFan({n \in MessagesOf(d) : n > read[d]})' = ByFan({n \in MessagesOf(d) : n > read[d]})
          BY <1>6, <3>1, <3>2 DEF ByFan
    <3> QED
        BY <3>1, <3>3 DEF Latest, Unread
  <2> QED
      BY <2>1
<1>13. \A n \in DOMAIN log : Settled(n) => Settled(n)'
       BY <1>3, <1>4, SettledStays
<1>14. RecoveryTypes'
  <2>1. log' \in Seq(Message)
    <3>1. log \in Seq(Message)
          BY <1>4 DEF RecoveryTypes
    <3> QED
        BY <1>3, <1>5, <3>1, AppendProperties
  <2>2. quiet' \in BOOLEAN
        BY <1>3
  <2> QED
      BY <1>3, <1>4, <1>11, <2>1, <2>2 DEF RecoveryTypes
<1>15. LogOK'
  <2>1. ASSUME NEW d \in Written' PROVE Latest(d)' \in MessagesOf(d)' /\ \A n \in MessagesOf(d)' : n =< Latest(d)'
    <3>1. CASE d = c
          BY <1>9, <1>10, <3>1
    <3>2. CASE d # c
          BY <1>4, <1>8, <1>12, <2>1, <3>2 DEF LogOK
    <3> QED
        BY <3>1, <3>2
  <2>2. ASSUME NEW n \in DOMAIN log', ~log'[n].fan PROVE n =< read'[log'[n].chat]
    <3>1. CASE n = new
          BY <1>3, <1>4, <1>5, <1>6, <2>2, <3>1 DEF RecoveryTypes
    <3>2. CASE n # new
      <4>1. n \in DOMAIN log /\ log'[n] = log[n]
            BY <1>6, <2>2, <3>2
      <4>2. n =< read[log[n].chat] /\ log[n].chat \in Chats /\ n < new /\ n \in Nat
            BY <1>4, <1>5, <2>2, <4>1, LogIs DEF LogOK
      <4> QED
          BY <1>3, <1>4, <4>1, <4>2 DEF RecoveryTypes
    <3> QED
        BY <3>1, <3>2
  <2>3. head =< new /\ poll.next =< new /\ \A d \in Chats : checkpoint[d] =< new
        BY <1>4, <1>5 DEF LogOK, RecoveryTypes, PollRecord
  <2> QED
      BY <1>3, <1>6, <2>1, <2>2, <2>3 DEF LogOK
<1>16. Passed'
  <2>1. ASSUME NEW n \in ByFan(DOMAIN log)', n =< checkpoint[log'[n].chat] PROVE Settled(n)'
    <3>1. n \in DOMAIN log' /\ log'[n].fan
          BY DEF ByFan
    <3>2. n # new
          BY <1>4, <1>5, <1>6, <2>1 DEF LogOK, RecoveryTypes
    <3>3. n \in DOMAIN log /\ log'[n] = log[n]
          BY <1>6, <3>1, <3>2
    <3> QED
        BY <1>13, <2>1, <3>1, <3>3 DEF RecoveryInv, Passed, ByFan
  <2> QED
      BY <1>3, <2>1 DEF Passed
<1>17. ScanOK'
  <2> SUFFICES ASSUME scan.on PROVE ScanOK'
      BY <1>3 DEF ScanOK
  <2>1. PICK seen : seen = scan.seen
        OBVIOUS
  <2>2. /\ poll.at = "ingest" /\ poll.todo # <<>> /\ seen = Head(poll.todo)
        /\ scan.known =< Len(log) /\ scan.known \in Nat /\ scan.unseen \subseteq MessagesOf(seen.chat)
        BY <1>4, <2>1 DEF RecoveryInv, ScanOK, RecoveryTypes
  <2>3. seen.chat \in Written /\ seen.last =< Latest(seen.chat) /\ seen.last \in Nat
    <3>1. poll.todo \in Seq(SeenRecord)
          BY <1>4 DEF RecoveryTypes, PollRecord
    <3>2. 1 \in DOMAIN poll.todo /\ seen = poll.todo[1] /\ seen \in SeenRecord
          BY <2>2, <3>1, TailIs
    <3> QED
        BY <3>2 DEF RecoveryInv, TodoOK, SeenOK, SeenRecord
  <2>4. seen.last < new /\ scan.known < new
        BY <1>4, <1>5, <2>2, <2>3, LatestIs
  <2>5. scan.unseen \subseteq MessagesOf(seen.chat)'
        BY <1>6, <2>2
  <2>6. ASSUME NEW n \in ByFan(MessagesOf(seen.chat))'
        PROVE  (n =< scan.known => Settled(n)')
               /\ (n =< seen.last /\ scan.whole /\ scan.known # 0 /\ Within(n, scan.from) /\ n \notin scan.unseen
                     => n =< scan.known)
    <3>1. n \in MessagesOf(seen.chat)' /\ log'[n].fan
          BY DEF ByFan
    <3>2. CASE n = new
          BY <1>5, <2>2, <2>3, <2>4, <3>2
    <3>3. CASE n # new
      <4>1. n \in MessagesOf(seen.chat)
            BY <1>6, <3>1, <3>3
      <4>2. n \in DOMAIN log /\ n \in ByFan(MessagesOf(seen.chat))
            BY <1>6, <1>7, <3>1, <4>1 DEF ByFan
      <4> QED
          BY <1>13, <2>1, <4>2 DEF RecoveryInv, ScanOK
    <3> QED
        BY <3>2, <3>3
  <2>7. \A n : Within(n, scan.from)' = Within(n, scan.from)
        BY <1>3 DEF Within
  <2> QED
      BY <1>3, <1>5, <1>6, <2>1, <2>2, <2>4, <2>5, <2>6, <2>7 DEF ScanOK
<1>18. TodoOK' /\ PollOK' /\ HeadOK' /\ NextOK' /\ QuietOK'
  <2>1. Latest(c)' \in Nat /\ Latest(c)' > Len(log)
        BY <1>5, <1>10
  <2> QED
      BY <1>3, <1>8, <1>12, <1>13, <2>1, OneChatMoves
<1> QED
    BY <1>14, <1>15, <1>16, <1>17, <1>18 DEF RecoveryInv

-----------------------------------------------------------------------------
LEMMA RecoveryStarts == RecoveryInit => RecoveryInv
<1> SUFFICES ASSUME RecoveryInit PROVE RecoveryInv
    OBVIOUS
<1> USE DEF RecoveryInit, Idle, NoScan
<1>1. RecoveryTypes /\ poll.at = "idle" /\ poll.todo = <<>> /\ poll.next = 0 /\ ~scan.on
  <2>1. poll \in PollRecord
        BY DEF PollRecord
  <2>2. log \in Seq(Message) /\ read \in [Chats -> Nat] /\ checkpoint \in [Chats -> Nat]
        OBVIOUS
  <2>3. poll.at = "idle" /\ poll.todo = <<>> /\ poll.next = 0 /\ scan.on = FALSE
        OBVIOUS
  <2>4. chatting \in BOOLEAN /\ quiet \in BOOLEAN /\ head \in Nat
        OBVIOUS
  <2> HIDE DEF RecoveryInit, Idle, NoScan
  <2> QED
      BY <2>1, <2>2, <2>3, <2>4 DEF RecoveryTypes
<1>2. Written = {} /\ DOMAIN log = {} /\ Len(log) = 0
      BY DEF Written, MessagesOf
<1>3. LogOK
      BY <1>1, <1>2 DEF LogOK
<1>4. \A d \in Chats : ~(Unread(d) > 0)
      BY <1>1, <1>2, <1>3, UnreadLatest
<1>5. \A h : ~Stands(h)
      BY <1>2 DEF Stands
<1>6. Passed /\ ScanOK /\ TodoOK /\ PollOK
      BY <1>1, <1>2 DEF Passed, ByFan, ScanOK, TodoOK, PollOK
<1>7. HeadOK /\ NextOK /\ QuietOK
      BY <1>4, <1>5 DEF HeadOK, NextOK, QuietOK, Waiting
<1> QED
    BY <1>1, <1>3, <1>6, <1>7 DEF RecoveryInv

LEMMA RecoveryKeeps == RecoveryInv /\ [RecoveryNext]_recoveryVars => RecoveryInv'
<1> SUFFICES ASSUME RecoveryInv, [RecoveryNext]_recoveryVars PROVE RecoveryInv'
    OBVIOUS
<1>1. CASE \E c \in Chats : Open(c)
      BY <1>1, OpenKeeps
<1>2. CASE \E c \in Chats : Mark(c)
      BY <1>2, MarkKeeps
<1>3. CASE \E c \in Chats, fan \in BOOLEAN : Post(c, fan)
      BY <1>3, PostKeeps
<1>4. CASE \E n \in DOMAIN log : ByWebhook(n)
  <2>1. /\ Explained \subseteq Explained'
        /\ UNCHANGED <<chatting, log, read, checkpoint, head, poll, scan, beyond, quiet>>
        BY <1>4 DEF ByWebhook, Explained, provider, marks
  <2> QED
      BY <2>1, Grown
<1>5. CASE Queue
  <2>1. /\ Explained \subseteq Explained'
        /\ UNCHANGED <<chatting, log, read, checkpoint, head, poll, scan, beyond, quiet>>
        BY <1>5 DEF Queue, Explained, provider, marks
  <2> QED
      BY <2>1, Grown
<1>6. CASE StopBacklog
  <2>1. /\ Explained \subseteq Explained'
        /\ UNCHANGED <<chatting, log, read, checkpoint, head, poll, scan, beyond, quiet>>
        BY <1>6 DEF StopBacklog, Explained, provider, inbox, marks
  <2> QED
      BY <2>1, Grown
<1>7. CASE UNCHANGED recoveryVars
  <2>1. /\ Explained \subseteq Explained'
        /\ UNCHANGED <<chatting, log, read, checkpoint, head, poll, scan, beyond, quiet>>
        BY <1>7 DEF recoveryVars, Explained, provider, inbox, marks
  <2> QED
      BY <2>1, Grown
<1> QED
    BY <1>1, <1>2, <1>3, <1>4, <1>5, <1>6, <1>7, BeginKeeps, NoPageKeeps, ListPageKeeps, FetchKeeps, IngestKeeps,
       IngestFailsKeeps, StopKeeps, FinishKeeps DEF RecoveryNext

\* In every poll of every list of chats: a checkpoint passes over no fan's message without a
\* reason, and after a poll without errors nobody listed waits (reconcile_provider).
THEOREM NobodyIsForgotten == RecoverySpec => []PassedForAReason
<1>1. RecoveryInv => PassedForAReason
  <2> SUFFICES ASSUME RecoveryInv PROVE PassedForAReason
      OBVIOUS
  <2>1. ASSUME poll.at = "idle", poll.ok, quiet, NEW c \in Chats \ beyond, Unread(c) > 0, ~Settled(Latest(c))
        PROVE  FALSE
    <3>1. Pending(c)
          BY <2>1 DEF RecoveryInv, QuietOK, Waiting
    <3>2. poll.todo = <<>>
          BY <2>1 DEF RecoveryInv, PollOK
    <3> QED
        BY <2>1, <3>1, <3>2 DEF Pending, Listed
  <2> QED
      BY <2>1 DEF PassedForAReason, RecoveryInv, Passed
<1> QED
    BY <1>1, RecoveryStarts, RecoveryKeeps, PTL DEF RecoverySpec
=============================================================================
