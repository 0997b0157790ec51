--------------------------- MODULE PaidSequenceProofs ---------------------------
(***************************************************************************)
(* Proofs about PaidSequence for any finite set of sequences, of any       *)
(* lengths, and any number of rows, edits and stops: its types, that every *)
(* purchase counts once in both places it is counted in, and that a step   *)
(* which reached the fan is not offered again in the same edition.         *)
(*                                                                         *)
(* About Outcomes, at the end, for any turns and messages in any order:    *)
(* which reply a turn is credited with.  The two modules share nothing.    *)
(***************************************************************************)
EXTENDS PaidSequence, Outcomes, FiniteSetTheorems, TLAPS

RowRecord == [step : Steps, accepted : BOOLEAN,
              status : {"pending", "sending", "sent", "unknown"}]
LadderRecord == [exists : BOOLEAN, active : BOOLEAN, edition : 0..MaxEdits,
                 length : 1..MaxLength]
ProgressRecord == [step : 0..MaxLength + 1, status : {"none", "pending", "sent", "bought"}]
StateRecord == [phase : Phases, bought : Nat, rejections : Nat, cooldown : BOOLEAN,
                version : Nat]
SessionRecord == [loaded : BOOLEAN, phase : Phases, bought : Nat, rejections : Nat,
                  cooldown : BOOLEAN, known : Nat]
WorkerRecord == [pc : {"idle", "load", "save", "enqueue", "claim", "send", "complete"},
                 draft : Steps \cup {NoDraft}, row : 0..MaxRows]

\* A session never knows more purchases than are stored, and one that knows the
\* stored version knows them all.
Merged ==
    /\ session.known <= state.version /\ session.bought <= state.bought
    /\ session.known = state.version => session.bought = state.bought
    /\ state.version = 0 => state.bought = 0

Applied == {r \in Rows : paid[r] = "applied"}

\* The counts and the session.
CountsOK ==
    /\ state \in StateRecord /\ session \in SessionRecord
    /\ paid \in [Rows -> {"no", "ordered", "applied", "refused"}]
    /\ purchases = Cardinality(Applied) /\ state.bought = Cardinality(Applied)
    /\ Merged

\* What the fan got of a step's edition lies before it.
Ahead(s) ==
    \A q \in DOMAIN outbox :
        /\ outbox[q].status = "sent"
        /\ outbox[q].step.ladder = s.ladder /\ outbox[q].step.edition = s.edition
        => outbox[q].step.position < s.position

\* The worker has one row at a time, the last, and a step it works on lies ahead.
WorkerHolds ==
    /\ Pending \subseteq {Len(outbox)}
    /\ worker.pc \notin {"idle", "claim"} => Pending = {}
    /\ worker.pc \in {"load", "save", "enqueue"} /\ worker.draft # NoDraft =>
          Len(outbox) < MaxRows /\ Ahead(worker.draft)
    /\ worker.pc = "enqueue" => worker.draft # NoDraft
    /\ worker.pc \in {"claim", "send", "complete"} =>
          /\ worker.row \in DOMAIN outbox /\ worker.row = Len(outbox)
          /\ outbox[worker.row].status # "sent" /\ Ahead(outbox[worker.row].step)
    /\ worker.pc \in {"send", "complete"} => outbox[worker.row].status = "sending"
    /\ \A r \in Pending : Ahead(outbox[r].step)

\* Progress is past what was sent of a sequence as it is now.
SentBehind ==
    \A q \in DOMAIN outbox :
        LET s == outbox[q].step IN
        outbox[q].status = "sent" /\ ladder[s.ladder].exists
        /\ s.edition = ladder[s.ladder].edition =>
            \/ progress[s.ladder].status = "bought"
            \/ progress[s.ladder].status # "none" /\ s.position < progress[s.ladder].step

\* Editions are numbered by the edits.
Editions ==
    /\ \A l \in Ladders : ladder[l].edition <= edits
    /\ \A q \in DOMAIN outbox : outbox[q].step.edition <= edits
    /\ worker.draft.edition <= edits

TablesOK ==
    /\ ladder \in [Ladders -> LadderRecord]
    /\ progress \in [Ladders -> ProgressRecord]
    /\ outbox \in Seq(RowRecord) /\ Len(outbox) <= MaxRows
    /\ worker \in WorkerRecord
    /\ edits \in 0..MaxEdits /\ stops \in 0..MaxStops

OffersOK == TablesOK /\ WorkerHolds /\ SentBehind /\ Editions /\ NotOfferedTwice

\* The inductive invariant.
IInv == CountsOK /\ OffersOK

-----------------------------------------------------------------------------
(* The sequence to sell from.                                              *)

LEMMA Bounds == MaxLength \in Nat /\ MaxRows \in Nat /\ MaxEdits \in Nat /\ MaxStops \in Nat
BY BoundsAssumption

LEMMA LadderIds == \A l \in Ladders : l \in Nat /\ Lengths[l] \in 1..MaxLength /\ Bonus[l] \in Nat
BY LaddersAssumption

LEMMA ScoreIsNumber ==
    ASSUME TablesOK, NEW l \in Ladders
    PROVE  Score(l) \in Nat
<1>1. ladder[l] \in LadderRecord
  BY DEF TablesOK
<1>2. ladder[l].length \in Nat
  BY <1>1, Bounds DEF LadderRecord
<1> QED
  BY <1>2, LadderIds DEF Score

\* Better orders the sequences.
LEMMA BetterIsTotal ==
    ASSUME TablesOK, NEW k \in Ladders, NEW l \in Ladders, k # l
    PROVE  Better(k, l) \/ Better(l, k)
BY ScoreIsNumber, LadderIds DEF Better

LEMMA BetterIsTransitive ==
    ASSUME TablesOK, NEW k \in Ladders, NEW l \in Ladders, NEW m \in Ladders,
           Better(k, l), Better(l, m)
    PROVE  Better(k, m)
BY ScoreIsNumber, LadderIds DEF Better

HasBest(some) == \E l \in some : \A k \in some \ {l} : Better(l, k)

\* Some sequences have a best one: a least set without one would lose none by
\* the removal of a member.
LEMMA BestExists ==
    ASSUME TablesOK, NEW some \in SUBSET Ladders, some # {}
    PROVE  HasBest(some)
<1> DEFINE Bad == {u \in FiniteSubsetsOf(Ladders) : u # {} /\ ~HasBest(u)}
<1>1. IsFiniteSet(some)
  BY LaddersAssumption, FS_Subset
<1>2. some \in FiniteSubsetsOf(Ladders)
  BY <1>1 DEF FiniteSubsetsOf
<1>3. ASSUME Bad # {} PROVE FALSE
  <2>1. Bad \subseteq FiniteSubsetsOf(Ladders)
    OBVIOUS
  <2>2. PICK u \in Bad : \A v \in Bad : <<v, u>> \notin StrictSubsetOrdering(Ladders)
    <3> HIDE DEF Bad
    <3> QED
      BY <1>3, <2>1, FS_StrictSubsetOrderingWellFounded, WFMin
  <2>3. u \in SUBSET Ladders /\ IsFiniteSet(u) /\ u # {} /\ ~HasBest(u)
    BY DEF FiniteSubsetsOf
  <2>4. PICK x : x \in u
    BY <2>3
  <2>5. CASE u = {x}
    BY <2>3, <2>5 DEF HasBest
  <2>6. CASE u # {x}
    <3>1. u \ {x} \in SUBSET Ladders /\ IsFiniteSet(u \ {x}) /\ u \ {x} # {}
      BY <2>3, <2>4, <2>6, FS_RemoveElement
    <3>2. <<u \ {x}, u>> \in StrictSubsetOrdering(Ladders)
      BY <2>3, <2>4, <3>1 DEF StrictSubsetOrdering
    <3>3. u \ {x} \notin Bad
      BY <2>2, <3>2
    <3>4. HasBest(u \ {x})
      BY <3>1, <3>3 DEF FiniteSubsetsOf
    <3>5. PICK b \in u \ {x} : \A k \in (u \ {x}) \ {b} : Better(b, k)
      BY <3>4 DEF HasBest
    <3>6. b \in Ladders /\ x \in Ladders /\ b # x
      BY <2>3, <2>4, <3>5
    <3>7. CASE Better(b, x)
      <4>1. \A k \in u \ {b} : Better(b, k)
        BY <3>5, <3>7
      <4> QED
        BY <2>3, <3>5, <4>1 DEF HasBest
    <3>8. CASE Better(x, b)
      <4>1. ASSUME NEW k \in u \ {x}
            PROVE  Better(x, k)
        <5>1. k \in Ladders
          BY <2>3
        <5>2. CASE k = b
          BY <3>8, <5>2
        <5>3. CASE k # b
          <6>1. Better(b, k)
            BY <3>5, <5>3
          <6> QED
            BY <3>6, <3>8, <5>1, <6>1, BetterIsTransitive
        <5> QED
          BY <5>2, <5>3
      <4> QED
        BY <2>3, <2>4, <4>1 DEF HasBest
    <3> QED
      BY <3>6, <3>7, <3>8, BetterIsTotal
  <2> QED
    BY <2>5, <2>6
<1> QED
  BY <1>2, <1>3

\* The step get_next_ppv returns is one of a sequence for sale, and none of that
\* edition was sent from there on.
LEMMA NextPPVIsAhead ==
    ASSUME TablesOK, SentBehind, Editions, NextPPV # NoDraft
    PROVE  NextPPV \in Steps /\ Ahead(NextPPV) /\ NextPPV.edition <= edits
<1> DEFINE l == BestLadder
           p == NextPosition(l)
<1>1. Matching # {} /\ HasStep(l, p) /\ NextPPV = [ladder |-> l, edition |-> ladder[l].edition, position |-> p]
  BY DEF NextPPV
<1>2. Matching \in SUBSET ActiveLadders /\ ActiveLadders \in SUBSET Ladders
  BY DEF Matching, ActiveLadders
<1>3. HasBest(Matching)
  BY <1>1, <1>2, BestExists
<1>4. l \in Matching
  BY <1>3 DEF HasBest, BestLadder
<1>5. l \in Ladders /\ ladder[l].exists /\ progress[l].status # "bought"
  BY <1>2, <1>4 DEF ActiveLadders
<1>6. ladder[l] \in LadderRecord
  BY <1>5 DEF TablesOK
<1>7. ladder[l].edition \in 0..MaxEdits /\ ladder[l].length \in 1..MaxLength
  BY <1>6 DEF LadderRecord
<1>8. p \in 1..MaxLength
  BY <1>1, <1>7, Bounds DEF HasStep
<1>9. NextPPV.ladder = l /\ NextPPV.edition = ladder[l].edition /\ NextPPV.position = p
  BY <1>1
<1> HIDE DEF l
<1>10. NextPPV \in Steps
  BY <1>1, <1>5, <1>7, <1>8 DEF Steps
<1>11. ASSUME NEW q \in DOMAIN outbox, outbox[q].status = "sent",
              outbox[q].step.ladder = l, outbox[q].step.edition = ladder[l].edition
       PROVE  outbox[q].step.position < p
  <2>1. progress[l].status # "none" /\ outbox[q].step.position < progress[l].step
    BY <1>5, <1>11 DEF SentBehind
  <2> QED
    BY <2>1 DEF NextPosition
<1>12. NextPPV.edition <= edits
  BY <1>5, <1>9 DEF Editions
<1> QED
  BY <1>9, <1>10, <1>11, <1>12 DEF Ahead
-----------------------------------------------------------------------------
(* The session.                                                            *)

\* What keeps the purchases a session knows.
SameBuyer(t, s) == t \in SessionRecord /\ t.bought = s.bought /\ t.known = s.known

LEMMA TransitionKeeps ==
    ASSUME NEW s \in SessionRecord, NEW phase \in Phases
    PROVE  SameBuyer(Transition(s, phase), s)
<1> DEFINE c == s.cooldown /\ phase # "rapport"
           t == [s EXCEPT !.phase = phase, !.cooldown = c]
<1>1. s.cooldown \in BOOLEAN
  BY DEF SessionRecord
<1>2. c \in BOOLEAN
  BY <1>1
<1> HIDE DEF c
<1>3. SameBuyer(t, s)
  BY <1>2 DEF SameBuyer, SessionRecord
<1>4. Transition(s, phase) \in {t, s}
  BY DEF Transition, c
<1> HIDE DEF t
<1> QED
  BY <1>3, <1>4 DEF SameBuyer

LEMMA RejectionKeeps ==
    ASSUME NEW s \in SessionRecord
    PROVE  SameBuyer(RecordRejection(s), s)
<1> DEFINE c == s.cooldown \/ s.rejections + 1 >= 2
<1>1. s.cooldown \in BOOLEAN /\ s.rejections + 1 \in Nat
  BY DEF SessionRecord
<1>2. c \in BOOLEAN
  OBVIOUS
<1>3. RecordRejection(s) = [s EXCEPT !.rejections = s.rejections + 1, !.cooldown = c]
  BY <1>1 DEF RecordRejection
<1> HIDE DEF c
<1> QED
  BY <1>1, <1>2, <1>3 DEF SameBuyer, SessionRecord

LEMMA HeardKeeps ==
    ASSUME NEW s \in SessionRecord, NEW refusal \in BOOLEAN, NEW engaged \in BOOLEAN
    PROVE  SameBuyer(Heard(s, refusal, engaged), s)
<1> DEFINE told == IF Selling(s) /\ refusal THEN RecordRejection(s) ELSE s
<1>1. SameBuyer(told, s)
  BY RejectionKeeps DEF SameBuyer
<1>2. told \in SessionRecord
  BY <1>1 DEF SameBuyer
<1>3. Heard(s, refusal, engaged) \in
          {told, [told EXCEPT !.cooldown = FALSE], Transition(told, "rapport")}
  BY DEF Heard
<1> HIDE DEF told
<1>4. SameBuyer([told EXCEPT !.cooldown = FALSE], s)
  BY <1>1, <1>2 DEF SameBuyer, SessionRecord
<1>5. SameBuyer(Transition(told, "rapport"), s)
  BY <1>1, <1>2, TransitionKeeps DEF SameBuyer, Phases
<1> QED
  BY <1>1, <1>3, <1>4, <1>5

LEMMA AdvancedKeeps ==
    ASSUME NEW s \in SessionRecord, NEW ready \in BOOLEAN
    PROVE  SameBuyer(Advanced(s, ready), s)
<1>1. Advanced(s, ready) \in {s, Transition(s, "tease"), Transition(s, "offer")}
  BY DEF Advanced
<1>2. SameBuyer(Transition(s, "tease"), s) /\ SameBuyer(Transition(s, "offer"), s)
  BY TransitionKeeps DEF Phases
<1> QED
  BY <1>1, <1>2 DEF SameBuyer

LEMMA LoadedIsMerged ==
    ASSUME CountsOK
    PROVE  /\ Loaded \in SessionRecord
           /\ Loaded.known <= state.version /\ Loaded.bought <= state.bought
           /\ Loaded.known = state.version => Loaded.bought = state.bought
<1>1. CASE session.loaded
  BY <1>1 DEF Loaded, CountsOK, Merged
<1>2. CASE ~session.loaded
  <2>1. state.bought \in Nat /\ state.version \in Nat
    BY DEF CountsOK, StateRecord
  <2>2. Loaded = [loaded |-> TRUE, phase |-> state.phase, bought |-> state.bought,
                  rejections |-> state.rejections, cooldown |-> state.cooldown,
                  known |-> state.version]
    BY <1>2 DEF Loaded
  <2>3. Loaded \in SessionRecord
    BY <2>2 DEF CountsOK, StateRecord, SessionRecord
  <2> QED
    BY <2>1, <2>2, <2>3
<1> QED
  BY <1>1, <1>2

-----------------------------------------------------------------------------
(* Purchases and the runtime state: the steps that count.                  *)

LEMMA CountsUnchanged ==
    ASSUME CountsOK, UNCHANGED <<state, session, paid, purchases>>
    PROVE  CountsOK'
BY DEF CountsOK, Merged, Applied

\* A session that knows no more than before.
LEMMA SessionKeeps ==
    ASSUME CountsOK, UNCHANGED <<state, paid, purchases>>, session' \in SessionRecord,
           session'.known <= state.version, session'.bought <= state.bought,
           session'.known = state.version => session'.bought = state.bought
    PROVE  CountsOK'
BY DEF CountsOK, Merged, Applied

LEMMA PrepareCounts ==
    ASSUME CountsOK, NEW refusal \in BOOLEAN, NEW engaged \in BOOLEAN, NEW ready \in BOOLEAN,
           Prepare(refusal, engaged, ready)
    PROVE  CountsOK'
<1> DEFINE heard == Heard(Loaded, refusal, engaged)
<1>1. SameBuyer(heard, Loaded)
  BY LoadedIsMerged, HeardKeeps
<1>2. heard \in SessionRecord
  BY <1>1 DEF SameBuyer
<1>3. session' = Advanced(heard, ready)
  BY DEF Prepare
<1> HIDE DEF heard
<1>4. SameBuyer(session', heard)
  BY <1>2, <1>3, AdvancedKeeps
<1>5. session' \in SessionRecord /\ session'.bought = Loaded.bought /\ session'.known = Loaded.known
  BY <1>1, <1>4 DEF SameBuyer
<1> QED
  BY <1>5, LoadedIsMerged, SessionKeeps DEF Prepare

LEMMA PersistLoadCounts ==
    ASSUME CountsOK, PersistLoad
    PROVE  CountsOK'
<1>1. state \in StateRecord /\ session \in SessionRecord
  BY DEF CountsOK
<1>2. state.bought \in Nat /\ state.version \in Nat /\ state.rejections \in Nat
      /\ session.bought \in Nat /\ session.known \in Nat
  BY <1>1 DEF StateRecord, SessionRecord
<1>3. CASE state.version = 0 \/ state.version = session.known
  BY <1>3, CountsUnchanged DEF PersistLoad
<1>4. CASE ~(state.version = 0 \/ state.version = session.known)
  <2> DEFINE most == IF session.bought > state.bought THEN session.bought ELSE state.bought
  <2>1. session' = [session EXCEPT !.bought = most, !.rejections = state.rejections,
                                   !.known = state.version]
    BY <1>4 DEF PersistLoad
  <2>2. most = state.bought
    BY <1>2 DEF CountsOK, Merged
  <2> HIDE DEF most
  <2>3. session' \in SessionRecord /\ session'.bought = state.bought /\ session'.known = state.version
    BY <1>1, <1>2, <2>1, <2>2 DEF SessionRecord
  <2> QED
    BY <1>2, <2>3, SessionKeeps DEF PersistLoad
<1> QED
  BY <1>3, <1>4

LEMMA PersistSaveCounts ==
    ASSUME CountsOK, PersistSave
    PROVE  CountsOK'
<1>1. state \in StateRecord /\ session \in SessionRecord
  BY DEF CountsOK
<1>2. state.version \in Nat /\ session.bought \in Nat
  BY <1>1 DEF StateRecord, SessionRecord
<1>3. CASE state.version = session.known
  <2>1. session.bought = state.bought
    BY <1>3 DEF CountsOK, Merged
  <2>2. state' = [phase |-> session.phase, bought |-> session.bought,
                  rejections |-> session.rejections, cooldown |-> session.cooldown,
                  version |-> state.version + 1]
    BY <1>3 DEF PersistSave
  <2>3. session' = [session EXCEPT !.known = state.version + 1]
    BY <1>3 DEF PersistSave
  <2>4. state' \in StateRecord /\ state'.bought = state.bought /\ state'.version = state.version + 1
    BY <1>1, <1>2, <2>1, <2>2 DEF StateRecord, SessionRecord
  <2>5. session' \in SessionRecord /\ session'.bought = state.bought
        /\ session'.known = state.version + 1
    BY <1>1, <1>2, <2>1, <2>3 DEF SessionRecord
  <2>6. UNCHANGED <<paid, purchases>>
    BY DEF PersistSave
  <2>7. Merged'
    BY <1>2, <2>1, <2>4, <2>5 DEF Merged
  <2> QED
    BY <2>4, <2>5, <2>6, <2>7 DEF CountsOK, Applied
<1>4. CASE state.version # session.known
  BY <1>4, CountsUnchanged DEF PersistSave
<1> QED
  BY <1>3, <1>4

\* One more purchase, in both places.
LEMMA ApplyCounts ==
    ASSUME CountsOK, NEW r \in Rows, Apply(r)
    PROVE  CountsOK'
<1>1. state \in StateRecord /\ session \in SessionRecord
      /\ paid \in [Rows -> {"no", "ordered", "applied", "refused"}]
  BY DEF CountsOK
<1>2. paid[r] # "applied" /\ paid' = [paid EXCEPT ![r] = "applied"]
  BY DEF Apply
<1>3. paid' \in [Rows -> {"no", "ordered", "applied", "refused"}]
  BY <1>1, <1>2
<1>4. Applied' = Applied \cup {r} /\ r \notin Applied
  BY <1>1, <1>2 DEF Applied
<1>5. IsFiniteSet(Applied)
  <2>1. IsFiniteSet(Rows)
    BY Bounds, FS_Interval DEF Rows
  <2> QED
    BY <2>1, FS_Subset DEF Applied
<1>6. Cardinality(Applied) \in Nat /\ Cardinality(Applied)' = Cardinality(Applied) + 1
  BY <1>4, <1>5, FS_CardinalityType, FS_AddElement
<1>7. state' = [state EXCEPT !.bought = @ + 1, !.rejections = 0, !.version = @ + 1]
  BY DEF Apply
<1>8. state.bought \in Nat /\ state.version \in Nat /\ session.bought \in Nat /\ session.known \in Nat
  BY <1>1 DEF StateRecord, SessionRecord
<1>a. state' = [phase |-> state.phase, bought |-> state.bought + 1, rejections |-> 0,
                cooldown |-> state.cooldown, version |-> state.version + 1]
  BY <1>1, <1>7 DEF StateRecord
<1>b. state.phase \in Phases /\ state.cooldown \in BOOLEAN
  BY <1>1 DEF StateRecord
<1>9. state' \in StateRecord /\ state'.bought = state.bought + 1 /\ state'.version = state.version + 1
  BY <1>8, <1>a, <1>b DEF StateRecord
<1>10. purchases' = purchases + 1 /\ UNCHANGED session
  BY DEF Apply
<1>11. Merged'
  BY <1>8, <1>9, <1>10 DEF Merged, CountsOK
<1> QED
  BY <1>1, <1>3, <1>6, <1>9, <1>10, <1>11 DEF CountsOK

\* A purchase that is ordered or refused does not count.
LEMMA PaidKeeps ==
    ASSUME CountsOK, NEW r \in Rows, NEW v \in {"ordered", "refused"}, paid[r] # "applied",
           paid' = [paid EXCEPT ![r] = v], UNCHANGED <<state, session, purchases>>
    PROVE  CountsOK'
<1>1. paid \in [Rows -> {"no", "ordered", "applied", "refused"}]
  BY DEF CountsOK
<1>2. paid' \in [Rows -> {"no", "ordered", "applied", "refused"}] /\ Applied' = Applied
  BY <1>1 DEF Applied
<1> QED
  BY <1>2 DEF CountsOK, Merged

LEMMA RestartCounts ==
    ASSUME CountsOK, Restart
    PROVE  CountsOK'
<1>1. session' = NewSession
  BY DEF Restart
<1>2. session' \in SessionRecord /\ session'.known = 0 /\ session'.bought = 0
  BY <1>1 DEF NewSession, SessionRecord, Phases
<1>3. state.bought \in Nat /\ state.version \in Nat
  BY DEF CountsOK, StateRecord
<1>4. 0 = state.version => 0 = state.bought
  BY DEF CountsOK, Merged
<1> QED
  BY <1>2, <1>3, <1>4, SessionKeeps DEF Restart

LEMMA NextCounts ==
    ASSUME CountsOK, Next
    PROVE  CountsOK'
<1>1. CASE \E r \in Rows : Buy(r) \/ Refuse(r)
  BY <1>1, PaidKeeps DEF Buy, Refuse
<1>2. CASE UNCHANGED <<state, session, paid, purchases>>
  BY <1>2, CountsUnchanged
<1> QED
  BY <1>1, <1>2, PrepareCounts, PersistLoadCounts, PersistSaveCounts, ApplyCounts, RestartCounts
     DEF Next, Worker, Web, Enqueue, Claim, SendConfirmed, SendUnknown, Complete, Resume, Edit,
         Delete
-----------------------------------------------------------------------------
(* Rows and steps: what the worker does.                                   *)

LEMMA RowTypes ==
    ASSUME TablesOK, NEW q \in DOMAIN outbox
    PROVE  /\ outbox[q] \in RowRecord /\ outbox[q].step \in Steps
           /\ outbox[q].step.ladder \in Ladders /\ outbox[q].step.edition \in 0..MaxEdits
           /\ outbox[q].step.position \in 1..MaxLength
           /\ q \in 1..Len(outbox) /\ q \in 1..MaxRows
<1>1. outbox[q] \in RowRecord /\ q \in 1..Len(outbox) /\ Len(outbox) \in Nat /\ Len(outbox) <= MaxRows
  BY DEF TablesOK
<1>2. outbox[q].step \in Steps
  BY <1>1 DEF RowRecord
<1>3. /\ outbox[q].step.ladder \in Ladders /\ outbox[q].step.edition \in 0..MaxEdits
      /\ outbox[q].step.position \in 1..MaxLength
  BY <1>2 DEF Steps
<1> QED
  BY <1>1, <1>2, <1>3, Bounds

\* A step that changes only what the worker does.
LEMMA WorkerMoves ==
    ASSUME OffersOK, UNCHANGED <<ladder, progress, outbox, edits, stops>>,
           worker' \in WorkerRecord, WorkerHolds', worker'.draft.edition <= edits
    PROVE  OffersOK'
BY DEF OffersOK, TablesOK, SentBehind, Editions, NotOfferedTwice

LEMMA NothingDrafted ==
    ASSUME TablesOK
    PROVE  NoDraft.edition <= edits /\ NoDraft \notin Steps
BY LadderIds, Bounds DEF TablesOK, NoDraft, Steps

LEMMA PrepareOffers ==
    ASSUME OffersOK, NEW refusal \in BOOLEAN, NEW engaged \in BOOLEAN, NEW ready \in BOOLEAN,
           Prepare(refusal, engaged, ready)
    PROVE  OffersOK'
<1> DEFINE d == IF Heard(Loaded, refusal, engaged).phase = "offer" /\ Len(outbox) < MaxRows
                THEN NextPPV ELSE NoDraft
<1>1. worker' = [pc |-> "load", draft |-> d, row |-> 0] /\ UNCHANGED outbox /\ Pending = {}
  BY DEF Prepare, Work
<1>2. d # NoDraft => Len(outbox) < MaxRows /\ d \in Steps /\ Ahead(d) /\ d.edition <= edits
  BY NextPPVIsAhead DEF OffersOK
<1> HIDE DEF d
<1>3. worker' \in WorkerRecord
  BY <1>1, <1>2, Bounds DEF WorkerRecord
<1>4. WorkerHolds'
  BY <1>1, <1>2 DEF WorkerHolds, Pending, Ahead
<1>5. worker'.draft.edition <= edits
  BY <1>1, <1>2, NothingDrafted DEF OffersOK
<1> QED
  BY <1>3, <1>4, <1>5, WorkerMoves DEF Prepare

LEMMA PersistLoadOffers ==
    ASSUME OffersOK, PersistLoad
    PROVE  OffersOK'
<1>1. worker \in WorkerRecord /\ worker.pc = "load" /\ worker' = [worker EXCEPT !.pc = "save"]
  BY DEF OffersOK, TablesOK, PersistLoad
<1>2. worker' \in WorkerRecord /\ worker'.pc = "save" /\ worker'.draft = worker.draft
  BY <1>1 DEF WorkerRecord
<1>3. UNCHANGED outbox
  BY DEF PersistLoad
<1>4. WorkerHolds'
  BY <1>1, <1>2, <1>3 DEF OffersOK, WorkerHolds, Pending, Ahead
<1> QED
  BY <1>2, <1>4, WorkerMoves DEF PersistLoad, OffersOK, Editions

LEMMA IdleHolds ==
    ASSUME OffersOK, worker' = Idle, UNCHANGED outbox
    PROVE  worker' \in WorkerRecord /\ WorkerHolds' /\ worker'.draft.edition <= edits
<1>1. Idle \in WorkerRecord /\ Idle.pc = "idle" /\ Idle.draft = NoDraft
  BY Bounds DEF Idle, WorkerRecord
<1>2. WorkerHolds'
  BY <1>1 DEF OffersOK, WorkerHolds, Pending, Ahead
<1> QED
  BY <1>1, <1>2, NothingDrafted DEF OffersOK

LEMMA PersistSaveOffers ==
    ASSUME OffersOK, PersistSave
    PROVE  OffersOK'
<1>1. worker \in WorkerRecord /\ worker.pc = "save" /\ UNCHANGED outbox
  BY DEF OffersOK, TablesOK, PersistSave
<1>2. CASE worker.draft = NoDraft
  BY <1>1, <1>2, IdleHolds, WorkerMoves DEF PersistSave
<1>3. CASE worker.draft # NoDraft
  <2>1. worker' = [worker EXCEPT !.pc = "enqueue"]
    BY <1>3 DEF PersistSave
  <2>2. worker' \in WorkerRecord /\ worker'.pc = "enqueue" /\ worker'.draft = worker.draft
    BY <1>1, <2>1 DEF WorkerRecord
  <2>3. WorkerHolds'
    BY <1>1, <1>3, <2>2 DEF OffersOK, WorkerHolds, Pending, Ahead
  <2> QED
    BY <2>2, <2>3, WorkerMoves DEF PersistSave, OffersOK, Editions
<1> QED
  BY <1>2, <1>3

LEMMA ResumeOffers ==
    ASSUME OffersOK, NEW r \in Rows, Resume(r)
    PROVE  OffersOK'
<1>1. r \in Pending /\ worker' = [pc |-> "claim", draft |-> NoDraft, row |-> r] /\ UNCHANGED outbox
  BY DEF Resume, Work
<1>2. worker' \in WorkerRecord
  BY <1>1, Bounds DEF WorkerRecord, Rows
<1>3. /\ r \in DOMAIN outbox /\ r = Len(outbox)
      /\ outbox[r].status # "sent" /\ Ahead(outbox[r].step)
  BY <1>1 DEF OffersOK, WorkerHolds, Pending
<1>4. WorkerHolds'
  BY <1>1, <1>3 DEF OffersOK, WorkerHolds, Pending, Ahead
<1> QED
  BY <1>1, <1>2, <1>4, WorkerMoves, NothingDrafted DEF Resume, OffersOK

\* A new row: the step is ahead of what was sent of its edition.
LEMMA EnqueueOffers ==
    ASSUME OffersOK, Enqueue
    PROVE  OffersOK'
<1> DEFINE n == Len(outbox) + 1
           new == [step |-> worker.draft, accepted |-> FALSE, status |-> "pending"]
<1> TablesOK /\ WorkerHolds /\ SentBehind /\ NotOfferedTwice
  BY DEF OffersOK
<1>1. /\ worker.pc = "enqueue" /\ outbox' = Append(outbox, new)
      /\ worker' = [pc |-> "claim", draft |-> NoDraft, row |-> n]
      /\ UNCHANGED <<ladder, progress, edits, stops>>
  BY DEF Enqueue, Work
<1>2. outbox \in Seq(RowRecord) /\ worker \in WorkerRecord
  BY DEF TablesOK
<1>3. worker.draft \in Steps /\ Ahead(worker.draft) /\ Len(outbox) < MaxRows /\ Pending = {}
  BY <1>1, <1>2 DEF WorkerHolds, WorkerRecord
<1>4. new \in RowRecord /\ new.step = worker.draft /\ new.status = "pending"
  BY <1>3 DEF RowRecord
<1> HIDE DEF new
<1>5. /\ outbox' \in Seq(RowRecord) /\ Len(outbox') = n
      /\ DOMAIN outbox' = (DOMAIN outbox) \cup {n} /\ n \notin DOMAIN outbox
      /\ \A q \in DOMAIN outbox : outbox'[q] = outbox[q]
      /\ outbox'[n] = new
  BY <1>1, <1>2, <1>4
<1>6. Len(outbox) \in Nat /\ n <= MaxRows /\ n \in 0..MaxRows
  BY <1>2, <1>3, Bounds
<1> HIDE DEF n
<1>7. TablesOK'
  BY <1>1, <1>5, <1>6 DEF TablesOK, WorkerRecord
<1>9. Editions'
  <2>1. worker'.draft.edition <= edits
    BY <1>1, NothingDrafted
  <2>2. new.step.edition <= edits
    BY <1>4 DEF OffersOK, Editions
  <2> QED
    BY <2>1, <2>2, <1>1, <1>5 DEF OffersOK, Editions
<1>8. Pending' = {n}
  BY <1>3, <1>4, <1>5 DEF Pending
<1>10. \A q \in DOMAIN outbox' :
          /\ outbox'[q].status = "sent"
          /\ outbox'[q].step.ladder = new.step.ladder /\ outbox'[q].step.edition = new.step.edition
          => outbox'[q].step.position < new.step.position
  BY <1>3, <1>4, <1>5 DEF Ahead
<1>11. WorkerHolds'
  <2>1. worker'.pc = "claim" /\ worker'.row = n
    BY <1>1
  <2> QED
    BY <2>1, <1>4, <1>5, <1>8, <1>10 DEF WorkerHolds, Ahead
<1>12. SentBehind'
  BY <1>1, <1>4, <1>5 DEF SentBehind
<1>13. NotOfferedTwice'
  <2> SUFFICES ASSUME NEW r \in DOMAIN outbox', NEW q \in DOMAIN outbox', r < q,
                      outbox'[r].step = outbox'[q].step, outbox'[r].status = "sent"
               PROVE  FALSE
    BY DEF NotOfferedTwice
  <2>1. r # n
    BY <1>4, <1>5
  <2>2. CASE q = n
    <3>1. outbox'[r].step.position < new.step.position
      BY <1>5, <1>10, <2>2
    <3>2. outbox'[r].step = new.step
      BY <1>5, <2>2
    <3>3. new.step \in Steps
      BY <1>3, <1>4
    <3>4. new.step.position \in Nat
      BY <3>3, Bounds DEF Steps
    <3> QED
      BY <3>1, <3>2, <3>4
  <2>3. CASE q # n
    BY <1>5, <2>1, <2>3 DEF NotOfferedTwice
  <2> QED
    BY <2>2, <2>3
<1> QED
  BY <1>7, <1>9, <1>11, <1>12, <1>13 DEF OffersOK

\* A row changes its status, to one other than sent.
LEMMA RowMoves ==
    ASSUME OffersOK, UNCHANGED <<ladder, progress, edits>>, stops' \in 0..MaxStops,
           worker' \in WorkerRecord, worker'.draft.edition <= edits,
           outbox' \in Seq(RowRecord), Len(outbox') = Len(outbox),
           \A q \in DOMAIN outbox :
               outbox'[q].step = outbox[q].step
               /\ (outbox'[q].status = "sent" <=> outbox[q].status = "sent")
    PROVE  /\ TablesOK' /\ SentBehind' /\ Editions' /\ NotOfferedTwice'
           /\ DOMAIN outbox' = DOMAIN outbox
<1>1. outbox \in Seq(RowRecord)
  BY DEF OffersOK, TablesOK
<1>2. DOMAIN outbox' = DOMAIN outbox
  BY <1>1
<1>3. TablesOK'
  BY DEF OffersOK, TablesOK
<1>4. SentBehind'
  BY <1>2 DEF OffersOK, SentBehind
<1>5. Editions'
  BY <1>2 DEF OffersOK, Editions
<1>6. NotOfferedTwice'
  BY <1>2 DEF OffersOK, NotOfferedTwice
<1> QED
  BY <1>2, <1>3, <1>4, <1>5, <1>6

LEMMA RowUpdated ==
    ASSUME TablesOK, NEW w \in DOMAIN outbox, NEW new \in RowRecord,
           outbox' = [outbox EXCEPT ![w] = new]
    PROVE  /\ outbox' \in Seq(RowRecord) /\ Len(outbox') = Len(outbox)
           /\ DOMAIN outbox' = DOMAIN outbox
           /\ \A q \in DOMAIN outbox : outbox'[q] = IF q = w THEN new ELSE outbox[q]
<1>1. outbox \in Seq(RowRecord)
  BY DEF TablesOK
<1> QED
  BY <1>1

\* The row of a worker that claims, sends or completes.
LEMMA BusyRow ==
    ASSUME OffersOK, worker.pc \in {"claim", "send", "complete"}
    PROVE  /\ worker.row \in DOMAIN outbox /\ worker.row = Len(outbox)
           /\ outbox[worker.row].status # "sent" /\ Ahead(outbox[worker.row].step)
           /\ outbox[worker.row] \in RowRecord /\ worker \in WorkerRecord
BY RowTypes DEF OffersOK, WorkerHolds, TablesOK

\* What claiming and sending do to it.
LEMMA BusyRowMoves ==
    ASSUME OffersOK, worker.pc \in {"claim", "send"}, NEW new \in RowRecord,
           new.step = outbox[worker.row].step, new.status \in {"sending", "unknown"},
           worker'.pc = "idle" \/ new.status = "sending",
           outbox' = [outbox EXCEPT ![worker.row] = new],
           UNCHANGED <<ladder, progress, edits, stops>>,
           worker' \in WorkerRecord, worker'.draft.edition <= edits,
           \/ worker'.pc \in {"send", "complete"} /\ worker'.row = worker.row
           \/ worker'.pc = "idle"
    PROVE  OffersOK'
<1> DEFINE w == worker.row
<1>1. /\ w \in DOMAIN outbox /\ w = Len(outbox) /\ outbox[w].status # "sent"
      /\ Ahead(outbox[w].step)
  BY BusyRow
<1>2. /\ outbox' \in Seq(RowRecord) /\ Len(outbox') = Len(outbox)
      /\ DOMAIN outbox' = DOMAIN outbox
      /\ \A q \in DOMAIN outbox : outbox'[q] = IF q = w THEN new ELSE outbox[q]
  BY <1>1, RowUpdated DEF OffersOK
<1> HIDE DEF w
<1>3. \A q \in DOMAIN outbox :
          outbox'[q].step = outbox[q].step
          /\ (outbox'[q].status = "sent" <=> outbox[q].status = "sent")
  BY <1>1, <1>2 DEF w
<1>4. TablesOK' /\ SentBehind' /\ Editions' /\ NotOfferedTwice'
  BY <1>2, <1>3, RowMoves DEF OffersOK, TablesOK
<1>5. Pending' = {}
  BY <1>1, <1>2 DEF OffersOK, WorkerHolds, Pending, w
<1>6. ASSUME worker'.pc # "idle"
      PROVE  /\ worker'.row \in DOMAIN outbox' /\ worker'.row = Len(outbox')
             /\ outbox'[worker'.row].status = "sending" /\ Ahead(outbox[worker.row].step)'
  <2>1. worker'.row = w /\ outbox'[w].step = outbox[w].step /\ outbox'[w].status = "sending"
    BY <1>1, <1>2, <1>3, <1>6 DEF w
  <2>2. Ahead(outbox[worker.row].step)'
    BY <1>1, <1>2, <1>3, <2>1 DEF Ahead
  <2> QED
    BY <1>1, <1>2, <2>1, <2>2
<1>7. WorkerHolds'
  BY <1>5, <1>6 DEF WorkerHolds
<1> QED
  BY <1>4, <1>7 DEF OffersOK

LEMMA ClaimOffers ==
    ASSUME OffersOK, Claim
    PROVE  OffersOK'
<1> DEFINE new == [outbox[worker.row] EXCEPT !.status = "sending"]
<1>1. /\ worker.pc = "claim" /\ outbox' = [outbox EXCEPT ![worker.row] = new]
      /\ worker' = [worker EXCEPT !.pc = "send"]
      /\ UNCHANGED <<ladder, progress, edits, stops>>
  BY DEF Claim
<1>2. outbox[worker.row] \in RowRecord /\ worker \in WorkerRecord
  BY <1>1, BusyRow
<1>3. new \in RowRecord /\ new.step = outbox[worker.row].step /\ new.status = "sending"
  BY <1>2 DEF RowRecord
<1>4. /\ worker' \in WorkerRecord /\ worker'.pc = "send" /\ worker'.draft = worker.draft
      /\ worker'.row = worker.row
  BY <1>1, <1>2 DEF WorkerRecord
<1> HIDE DEF new
<1> QED
  BY <1>1, <1>3, <1>4, BusyRowMoves DEF OffersOK, Editions

LEMMA SendConfirmedOffers ==
    ASSUME OffersOK, SendConfirmed
    PROVE  OffersOK'
<1> DEFINE new == [outbox[worker.row] EXCEPT !.accepted = TRUE]
<1>1. /\ worker.pc = "send" /\ outbox' = [outbox EXCEPT ![worker.row] = new]
      /\ worker' = [worker EXCEPT !.pc = "complete"]
      /\ UNCHANGED <<ladder, progress, edits, stops>>
  BY DEF SendConfirmed
<1>2. outbox[worker.row] \in RowRecord /\ worker \in WorkerRecord
  BY <1>1, BusyRow
<1>3. outbox[worker.row].status = "sending"
  BY <1>1, BusyRow DEF OffersOK, WorkerHolds
<1>4. new \in RowRecord /\ new.step = outbox[worker.row].step /\ new.status = "sending"
  BY <1>2, <1>3 DEF RowRecord
<1>5. /\ worker' \in WorkerRecord /\ worker'.pc = "complete" /\ worker'.draft = worker.draft
      /\ worker'.row = worker.row
  BY <1>1, <1>2 DEF WorkerRecord
<1> HIDE DEF new
<1> QED
  BY <1>1, <1>4, <1>5, BusyRowMoves DEF OffersOK, Editions

LEMMA SendUnknownOffers ==
    ASSUME OffersOK, NEW accepted \in BOOLEAN, SendUnknown(accepted)
    PROVE  OffersOK'
<1> DEFINE new == [outbox[worker.row] EXCEPT !.accepted = accepted, !.status = "unknown"]
<1>1. worker.pc = "send" /\ worker' = Idle /\ UNCHANGED <<ladder, progress, edits, stops>>
  BY DEF SendUnknown
<1>2. /\ outbox[worker.row] \in RowRecord /\ worker.row \in DOMAIN outbox
      /\ outbox \in Seq(RowRecord)
  BY <1>1, BusyRow DEF OffersOK, TablesOK
<1>3. outbox' = [outbox EXCEPT ![worker.row] = new]
  BY <1>2 DEF SendUnknown, RowRecord
<1>4. new \in RowRecord /\ new.step = outbox[worker.row].step /\ new.status = "unknown"
  BY <1>2 DEF RowRecord
<1>5. Idle \in WorkerRecord /\ Idle.pc = "idle" /\ Idle.draft = NoDraft
  BY Bounds DEF Idle, WorkerRecord
<1> HIDE DEF new
<1> QED
  BY <1>1, <1>3, <1>4, <1>5, BusyRowMoves, NothingDrafted DEF OffersOK

\* A delivered step moves the progress of its sequence past it.
LEMMA CompleteOffers ==
    ASSUME OffersOK, Complete
    PROVE  OffersOK'
<1> TablesOK /\ WorkerHolds /\ SentBehind /\ Editions /\ NotOfferedTwice
  BY DEF OffersOK
<1> DEFINE w == worker.row
           s == outbox[w].step
<1>1. /\ worker.pc = "complete" /\ UNCHANGED <<ladder, edits, stops>>
      /\ w \in DOMAIN outbox /\ w = Len(outbox) /\ outbox[w].status = "sending"
      /\ Ahead(s) /\ Pending = {} /\ outbox[w] \in RowRecord
  BY BusyRow DEF Complete, WorkerHolds
<1>2. CASE ~StepExists(s)
  <2>1. worker' = Idle /\ UNCHANGED <<outbox, progress>>
    BY <1>2 DEF Complete
  <2> QED
    BY <1>1, <2>1, IdleHolds, WorkerMoves
<1>3. CASE StepExists(s)
  <2> DEFINE new == [outbox[w] EXCEPT !.status = "sent"]
             now == [step |-> s.position + 1, status |-> "sent"]
  <2>1. /\ outbox' = [outbox EXCEPT ![w] = new]
        /\ progress' = [progress EXCEPT ![s.ladder] = now]
        /\ worker' = [pc |-> "load", draft |-> NoDraft, row |-> 0]
    BY <1>3 DEF Complete, Work
  <2>2. new \in RowRecord /\ new.step = s /\ new.status = "sent"
    BY <1>1 DEF RowRecord
  <2>3. s.ladder \in Ladders /\ s.position \in 1..MaxLength /\ s.edition = ladder[s.ladder].edition
    BY <1>1, <1>3, RowTypes DEF StepExists
  <2>4. now \in ProgressRecord /\ now.step = s.position + 1 /\ now.status = "sent"
    BY <2>3, Bounds DEF ProgressRecord
  <2> HIDE DEF new, now
  <2>5. /\ outbox' \in Seq(RowRecord) /\ Len(outbox') = Len(outbox)
        /\ DOMAIN outbox' = DOMAIN outbox
        /\ \A q \in DOMAIN outbox : outbox'[q] = IF q = w THEN new ELSE outbox[q]
    BY <1>1, <2>1, <2>2, RowUpdated
  <2>6. \A l \in Ladders : progress'[l] = IF l = s.ladder THEN now ELSE progress[l]
    BY <2>1 DEF TablesOK
  <2> HIDE DEF w, s
  <2>7. TablesOK'
    <3>1. progress' \in [Ladders -> ProgressRecord]
      BY <2>1, <2>4 DEF TablesOK
    <3>2. worker' \in WorkerRecord
      BY <2>1, Bounds DEF WorkerRecord
    <3> QED
      BY <1>1, <2>5, <3>1, <3>2 DEF TablesOK
  <2>8. \A q \in DOMAIN outbox : outbox'[q].step = outbox[q].step
    BY <2>2, <2>5 DEF s, w
  <2>9. WorkerHolds'
    <3>1. Pending' = {}
      BY <1>1, <2>2, <2>5 DEF Pending
    <3> QED
      BY <2>1, <3>1 DEF WorkerHolds
  <2>10. SentBehind'
    <3> SUFFICES ASSUME NEW q \in DOMAIN outbox, outbox'[q].status = "sent",
                        outbox[q].step.edition = ladder[outbox[q].step.ladder].edition,
                        ladder[outbox[q].step.ladder].exists
                 PROVE  \/ progress'[outbox[q].step.ladder].status = "bought"
                        \/ /\ progress'[outbox[q].step.ladder].status # "none"
                           /\ outbox[q].step.position < progress'[outbox[q].step.ladder].step
      BY <1>1, <2>5, <2>8 DEF SentBehind
    <3>1. outbox[q].step.ladder \in Ladders /\ outbox[q].step.position \in Nat /\ s.position \in Nat
      BY <2>3, RowTypes, Bounds
    <3>2. CASE q = w
      BY <2>3, <2>4, <2>6, <3>1, <3>2 DEF s
    <3>3. CASE q # w /\ outbox[q].step.ladder = s.ladder
      <4>1. outbox[q].step.position < s.position
        BY <1>1, <2>3, <2>5, <3>3 DEF Ahead
      <4> QED
        BY <2>4, <2>6, <3>1, <3>3, <4>1
    <3>4. CASE q # w /\ outbox[q].step.ladder # s.ladder
      BY <2>5, <2>6, <3>1, <3>4 DEF SentBehind
    <3> QED
      BY <3>2, <3>3, <3>4
  <2>11. Editions'
    BY <1>1, <2>1, <2>5, <2>8, NothingDrafted DEF Editions
  <2>12. NotOfferedTwice'
    <3> SUFFICES ASSUME NEW r \in DOMAIN outbox, NEW q \in DOMAIN outbox, r < q,
                        outbox[r].step = outbox[q].step, outbox'[r].status = "sent"
                 PROVE  FALSE
      BY <2>5, <2>8 DEF NotOfferedTwice
    <3>1. r \in Nat /\ q \in Nat /\ q <= Len(outbox) /\ Len(outbox) \in Nat
      BY RowTypes DEF TablesOK
    <3>2. r # w
      BY <1>1, <3>1
    <3> QED
      BY <2>5, <3>2 DEF NotOfferedTwice
  <2> QED
    BY <2>7, <2>9, <2>10, <2>11, <2>12 DEF OffersOK
<1> QED
  BY <1>2, <1>3

LEMMA RestartOffers ==
    ASSUME OffersOK, Restart
    PROVE  OffersOK'
<1>1. /\ worker' = Idle /\ UNCHANGED <<ladder, progress, edits>>
      /\ stops' \in 0..MaxStops
      /\ outbox' = [r \in DOMAIN outbox |->
                       IF outbox[r].status = "sending"
                       THEN [outbox[r] EXCEPT !.status = "unknown"] ELSE outbox[r]]
  BY Bounds DEF Restart, OffersOK, TablesOK
<1>2. outbox \in Seq(RowRecord)
  BY DEF OffersOK, TablesOK
<1>3. ASSUME NEW q \in DOMAIN outbox
      PROVE  /\ outbox'[q] \in RowRecord /\ outbox'[q].step = outbox[q].step
             /\ outbox'[q].status = "sent" <=> outbox[q].status = "sent"
             /\ outbox'[q].status = "pending" <=> outbox[q].status = "pending"
  <2>1. outbox[q] \in RowRecord
    BY <1>2
  <2> QED
    BY <1>1, <2>1 DEF RowRecord
<1>4. outbox' \in Seq(RowRecord) /\ Len(outbox') = Len(outbox) /\ DOMAIN outbox' = DOMAIN outbox
  <2>1. DOMAIN outbox = 1..Len(outbox) /\ Len(outbox) \in Nat
    BY <1>2
  <2>2. outbox' \in [1..Len(outbox) -> RowRecord]
    BY <1>1, <1>3, <2>1
  <2> QED
    BY <2>1, <2>2
<1>5. Idle \in WorkerRecord /\ Idle.pc = "idle" /\ Idle.draft = NoDraft
  BY Bounds DEF Idle, WorkerRecord
<1>6. TablesOK' /\ SentBehind' /\ Editions' /\ NotOfferedTwice'
  BY <1>1, <1>3, <1>4, <1>5, RowMoves, NothingDrafted DEF OffersOK
<1>7. Pending' = Pending
  BY <1>3, <1>4 DEF Pending
<1>8. ASSUME NEW r \in Pending
      PROVE  Ahead(outbox[r].step)'
  <2>1. Ahead(outbox[r].step) /\ r \in DOMAIN outbox
    BY DEF OffersOK, WorkerHolds, Pending
  <2> QED
    BY <1>3, <1>4, <2>1 DEF Ahead
<1>9. \A r \in Pending' : Ahead(outbox[r].step)'
  BY <1>7, <1>8
<1>10. WorkerHolds'
  BY <1>1, <1>4, <1>5, <1>7, <1>9 DEF OffersOK, WorkerHolds
<1> QED
  BY <1>6, <1>10 DEF OffersOK

-----------------------------------------------------------------------------
(* The fan and the operator.                                               *)

\* Whatever the web thread does to the sequences and their progress, the rows
\* and the worker are as they were.
LEMMA WebMoves ==
    ASSUME OffersOK, UNCHANGED <<outbox, worker, stops>>,
           ladder' \in [Ladders -> LadderRecord], progress' \in [Ladders -> ProgressRecord],
           edits' \in 0..MaxEdits, SentBehind', Editions'
    PROVE  OffersOK'
BY DEF OffersOK, TablesOK, WorkerHolds, Pending, Ahead, NotOfferedTwice

LEMMA ApplyOffers ==
    ASSUME OffersOK, NEW r \in Rows, Apply(r)
    PROVE  OffersOK'
<1> TablesOK /\ SentBehind /\ Editions
  BY DEF OffersOK
<1> DEFINE s == outbox[r].step
           new == IF HasStep(s.ladder, s.position + 1)
                  THEN [step |-> s.position + 1, status |-> "pending"]
                  ELSE [step |-> 0, status |-> "bought"]
<1>1. /\ r \in DOMAIN outbox /\ progress' = [progress EXCEPT ![s.ladder] = new]
      /\ progress[s.ladder] = [step |-> s.position + 1, status |-> "sent"]
      /\ UNCHANGED <<ladder, outbox, worker, edits, stops>>
  BY DEF Apply, Attributable
<1>2. s.ladder \in Ladders /\ s.position \in 1..MaxLength
  BY <1>1, RowTypes
<1>3. new \in ProgressRecord
  BY <1>2, Bounds DEF ProgressRecord
<1>4. new.status = "bought" \/ (new.status = "pending" /\ new.step = s.position + 1)
  OBVIOUS
<1> HIDE DEF new, s
<1>5. progress' \in [Ladders -> ProgressRecord]
  BY <1>1, <1>3 DEF TablesOK
<1>6. \A l \in Ladders : progress'[l] = IF l = s.ladder THEN new ELSE progress[l]
  BY <1>1 DEF TablesOK
<1>7. SentBehind'
  <2> SUFFICES ASSUME NEW q \in DOMAIN outbox, outbox[q].status = "sent",
                      outbox[q].step.edition = ladder[outbox[q].step.ladder].edition,
                      ladder[outbox[q].step.ladder].exists
               PROVE  \/ progress'[outbox[q].step.ladder].status = "bought"
                      \/ /\ progress'[outbox[q].step.ladder].status # "none"
                         /\ outbox[q].step.position < progress'[outbox[q].step.ladder].step
    BY <1>1 DEF SentBehind
  <2>1. outbox[q].step.ladder \in Ladders
    BY RowTypes
  <2>2. \/ progress[outbox[q].step.ladder].status = "bought"
        \/ /\ progress[outbox[q].step.ladder].status # "none"
           /\ outbox[q].step.position < progress[outbox[q].step.ladder].step
    BY DEF SentBehind
  <2> QED
    BY <1>1, <1>4, <1>6, <2>1, <2>2
<1>8. Editions'
  BY <1>1 DEF Editions
<1> QED
  BY <1>1, <1>5, <1>7, <1>8, WebMoves DEF TablesOK

LEMMA EditOffers ==
    ASSUME OffersOK, NEW l \in Ladders, NEW n \in 1..MaxLength, NEW active \in BOOLEAN,
           Edit(l, n, active)
    PROVE  OffersOK'
<1> TablesOK /\ SentBehind /\ Editions
  BY DEF OffersOK
<1> DEFINE new == [exists |-> TRUE, active |-> active, edition |-> edits + 1, length |-> n]
<1>1. /\ edits < MaxEdits /\ edits' = edits + 1 /\ ladder' = [ladder EXCEPT ![l] = new]
      /\ UNCHANGED <<progress, outbox, worker, stops>>
  BY DEF Edit
<1>2. edits \in 0..MaxEdits /\ edits' \in 0..MaxEdits /\ edits \in Nat
  BY <1>1, Bounds DEF TablesOK
<1>3. new \in LadderRecord /\ new.edition = edits + 1
  BY <1>1, <1>2, Bounds DEF LadderRecord
<1> HIDE DEF new
<1>4. ladder' \in [Ladders -> LadderRecord]
  BY <1>1, <1>3 DEF TablesOK
<1>5. \A k \in Ladders : ladder'[k] = IF k = l THEN new ELSE ladder[k]
  BY <1>1 DEF TablesOK
<1>6. \A k \in Ladders : ladder[k].edition \in Nat /\ ladder[k].edition <= edits
  <2> SUFFICES ASSUME NEW k \in Ladders PROVE ladder[k].edition \in Nat
    BY DEF Editions
  <2>1. ladder[k] \in LadderRecord
    BY DEF TablesOK
  <2> QED
    BY <2>1, Bounds DEF LadderRecord
<1>7. \A q \in DOMAIN outbox : /\ outbox[q].step.ladder \in Ladders
                              /\ outbox[q].step.edition \in Nat /\ outbox[q].step.edition <= edits
  BY RowTypes, Bounds DEF Editions
<1>8. SentBehind'
  <2> SUFFICES ASSUME NEW q \in DOMAIN outbox, outbox[q].status = "sent",
                      outbox[q].step.edition = ladder'[outbox[q].step.ladder].edition,
                      ladder'[outbox[q].step.ladder].exists
               PROVE  \/ progress[outbox[q].step.ladder].status = "bought"
                      \/ /\ progress[outbox[q].step.ladder].status # "none"
                         /\ outbox[q].step.position < progress[outbox[q].step.ladder].step
    BY <1>1 DEF SentBehind
  <2>1. outbox[q].step.ladder # l
    BY <1>2, <1>3, <1>5, <1>7
  <2> QED
    BY <1>5, <1>7, <2>1 DEF SentBehind
<1>9. Editions'
  <2>1. worker.draft.edition \in Nat
    <3>1. worker \in WorkerRecord
      BY DEF TablesOK
    <3>2. worker.draft \in Steps \/ worker.draft = NoDraft
      BY <3>1 DEF WorkerRecord
    <3> QED
      BY <3>2, Bounds DEF Steps, NoDraft
  <2> QED
    BY <1>1, <1>2, <1>3, <1>5, <1>6, <1>7, <2>1 DEF Editions
<1> QED
  BY <1>1, <1>2, <1>4, <1>8, <1>9, WebMoves DEF TablesOK

LEMMA DeleteOffers ==
    ASSUME OffersOK, NEW l \in Ladders, Delete(l)
    PROVE  OffersOK'
<1> TablesOK /\ SentBehind /\ Editions
  BY DEF OffersOK
<1> DEFINE new == [ladder[l] EXCEPT !.exists = FALSE]
<1>1. /\ edits < MaxEdits /\ edits' = edits + 1 /\ ladder' = [ladder EXCEPT ![l] = new]
      /\ progress' = [progress EXCEPT ![l] = NoProgress]
      /\ UNCHANGED <<outbox, worker, stops>>
  BY DEF Delete
<1>2. edits \in 0..MaxEdits /\ edits' \in 0..MaxEdits /\ edits \in Nat
  BY <1>1, Bounds DEF TablesOK
<1>3. ladder[l] \in LadderRecord
  BY DEF TablesOK
<1>4. new \in LadderRecord /\ new.edition = ladder[l].edition /\ ~new.exists
  BY <1>3 DEF LadderRecord
<1> HIDE DEF new
<1>5. /\ ladder' \in [Ladders -> LadderRecord]
      /\ \A k \in Ladders : ladder'[k] = IF k = l THEN new ELSE ladder[k]
  BY <1>1, <1>4 DEF TablesOK
<1>6. /\ progress' \in [Ladders -> ProgressRecord]
      /\ \A k \in Ladders : k # l => progress'[k] = progress[k]
  <2>1. NoProgress \in ProgressRecord
    BY Bounds DEF NoProgress, ProgressRecord
  <2> QED
    BY <1>1, <2>1 DEF TablesOK
<1>7. \A q \in DOMAIN outbox : /\ outbox[q].step.ladder \in Ladders
                              /\ outbox[q].step.edition \in Nat
  BY RowTypes, Bounds
<1>8. SentBehind'
  <2> SUFFICES ASSUME NEW q \in DOMAIN outbox, outbox[q].status = "sent",
                      outbox[q].step.edition = ladder'[outbox[q].step.ladder].edition,
                      ladder'[outbox[q].step.ladder].exists
               PROVE  \/ progress'[outbox[q].step.ladder].status = "bought"
                      \/ /\ progress'[outbox[q].step.ladder].status # "none"
                         /\ outbox[q].step.position < progress'[outbox[q].step.ladder].step
    BY <1>1 DEF SentBehind
  <2>1. outbox[q].step.ladder # l
    BY <1>4, <1>5
  <2> QED
    BY <1>5, <1>6, <1>7, <2>1 DEF SentBehind
<1>9. Editions'
  <2>1. worker.draft.edition \in Nat
    <3>1. worker \in WorkerRecord
      BY DEF TablesOK
    <3>2. worker.draft \in Steps \/ worker.draft = NoDraft
      BY <3>1 DEF WorkerRecord
    <3> QED
      BY <3>2, Bounds DEF Steps, NoDraft
  <2>2. \A k \in Ladders : ladder[k].edition \in Nat
    <3> SUFFICES ASSUME NEW k \in Ladders PROVE ladder[k].edition \in Nat
      OBVIOUS
    <3>1. ladder[k] \in LadderRecord
      BY DEF TablesOK
    <3> QED
      BY <3>1, Bounds DEF LadderRecord
  <2> QED
    BY <1>1, <1>2, <1>4, <1>5, <1>7, <2>1, <2>2 DEF Editions
<1> QED
  BY <1>1, <1>2, <1>5, <1>6, <1>8, <1>9, WebMoves DEF TablesOK

LEMMA NextOffers ==
    ASSUME OffersOK, Next
    PROVE  OffersOK'
<1>1. CASE Worker
  BY <1>1, PrepareOffers, PersistLoadOffers, PersistSaveOffers, EnqueueOffers, ClaimOffers,
     SendConfirmedOffers, SendUnknownOffers, CompleteOffers, RestartOffers, ResumeOffers DEF Worker
<1>2. CASE Web
  <2>1. CASE \E r \in Rows : Buy(r) \/ Refuse(r)
    <3>1. UNCHANGED <<ladder, progress, outbox, worker, edits, stops>>
      BY <2>1 DEF Buy, Refuse
    <3> QED
      BY <3>1, WorkerMoves DEF OffersOK, TablesOK, WorkerHolds, Pending, Ahead, Editions
  <2>2. CASE \E r \in Rows : Apply(r)
    BY <2>2, ApplyOffers
  <2>3. CASE \E l \in Ladders, n \in 1..MaxLength, active \in BOOLEAN : Edit(l, n, active)
    BY <2>3, EditOffers
  <2>4. CASE \E l \in Ladders : Delete(l)
    BY <2>4, DeleteOffers
  <2> QED
    BY <1>2, <2>1, <2>2, <2>3, <2>4 DEF Web
<1> QED
  BY <1>1, <1>2 DEF Next

-----------------------------------------------------------------------------
LEMMA Initially == Init => IInv
<1> SUFFICES ASSUME Init PROVE IInv
  OBVIOUS
<1>1. CountsOK
  <2>1. Applied = {}
    BY DEF Init, Applied
  <2>2. Cardinality(Applied) = 0
    BY <2>1, FS_EmptySet
  <2>3. state \in StateRecord /\ session \in SessionRecord
    BY DEF Init, NewSession, StateRecord, SessionRecord, Phases
  <2>4. paid \in [Rows -> {"no", "ordered", "applied", "refused"}] /\ Merged
    BY DEF Init, NewSession, Merged
  <2> QED
    BY <2>2, <2>3, <2>4 DEF Init, CountsOK
<1>2. TablesOK
  <2>1. ladder \in [Ladders -> LadderRecord]
    BY LadderIds, Bounds DEF Init, LadderRecord
  <2>2. progress \in [Ladders -> ProgressRecord]
    BY Bounds DEF Init, NoProgress, ProgressRecord
  <2>3. worker \in WorkerRecord
    BY Bounds DEF Init, Idle, WorkerRecord
  <2> QED
    BY <2>1, <2>2, <2>3, Bounds DEF Init, TablesOK
<1>3. outbox = <<>> /\ worker = Idle /\ edits = 0
  BY DEF Init
<1>4. DOMAIN outbox = {} /\ worker.pc = "idle" /\ worker.draft.edition = 0
  BY <1>3 DEF Idle, NoDraft
<1>5. Pending = {}
  BY <1>4 DEF Pending
<1>6. WorkerHolds /\ SentBehind /\ NotOfferedTwice
  BY <1>4, <1>5 DEF WorkerHolds, SentBehind, NotOfferedTwice
<1>7. Editions
  BY <1>3, <1>4 DEF Init, Editions
<1> QED
  BY <1>1, <1>2, <1>6, <1>7 DEF IInv, OffersOK

LEMMA NextKeeps ==
    ASSUME IInv, [Next]_vars
    PROVE  IInv'
<1>1. CASE Next
  BY <1>1, NextCounts, NextOffers DEF IInv
<1>2. CASE UNCHANGED vars
  BY <1>2, CountsUnchanged, WorkerMoves
     DEF IInv, vars, OffersOK, TablesOK, WorkerHolds, Pending, Ahead, Editions
<1> QED
  BY <1>1, <1>2

LEMMA Invariance == Spec => []IInv
BY Initially, NextKeeps, PTL DEF Spec

-----------------------------------------------------------------------------
\* Every table and the fan's session keep their types, for any sequences and
\* any number of edits, stops and purchases.
THEOREM SequenceTypeCorrect == Spec => []TypeOK
<1>1. IInv => TypeOK
  <2> SUFFICES ASSUME IInv PROVE TypeOK
    OBVIOUS
  <2>1. TablesOK /\ CountsOK
    BY DEF IInv, OffersOK
  <2>2. purchases \in Nat
    BY <2>1 DEF CountsOK, StateRecord
  <2> QED
    BY <2>1, <2>2
       DEF TypeOK, TablesOK, CountsOK, LadderRecord, ProgressRecord, RowRecord, StateRecord,
           SessionRecord, WorkerRecord
<1> QED
  BY <1>1, Invariance, PTL

\* However the worker's session and the purchases of the web thread overwrite
\* each other, each purchase counts once in the note and once in the runtime
\* state (_persist_runtime_state, record_attributed_purchase).
THEOREM PurchasesCountOnce == Spec => []CountedOnce
<1>1. IInv => CountedOnce
  BY DEF IInv, CountsOK, CountedOnce, Applied
<1> QED
  BY <1>1, Invariance, PTL

\* A step of one edition that reached the fan is not queued again, whatever is
\* bought, edited, deleted or restarted in between (get_next_ppv, _mark_ppv_sent).
THEOREM NoStepTwice == Spec => []NotOfferedTwice
<1>1. IInv => NotOfferedTwice
  BY DEF IInv, OffersOK
<1> QED
  BY <1>1, Invariance, PTL

-----------------------------------------------------------------------------
\* Outcomes: the reply a turn is credited with.

HasMax(S) == \E x \in S : \A y \in S : x >= y

\* A least set of numbers without a largest one would lose none by the removal of a member.
LEMMA MaxExists ==
    ASSUME NEW U, IsFiniteSet(U), U \subseteq Int, NEW some \in SUBSET U, some # {}
    PROVE  HasMax(some)
<1> DEFINE Bad == {u \in FiniteSubsetsOf(U) : u # {} /\ ~HasMax(u)}
<1>1. IsFiniteSet(some)
      BY FS_Subset
<1>2. some \in FiniteSubsetsOf(U)
      BY <1>1 DEF FiniteSubsetsOf
<1>3. ASSUME Bad # {} PROVE FALSE
  <2>1. Bad \subseteq FiniteSubsetsOf(U)
        OBVIOUS
  <2>2. PICK u \in Bad : \A v \in Bad : <<v, u>> \notin StrictSubsetOrdering(U)
    <3> HIDE DEF Bad
    <3> QED
        BY <1>3, <2>1, FS_StrictSubsetOrderingWellFounded, WFMin
  <2>3. u \in SUBSET U /\ IsFiniteSet(u) /\ u # {} /\ ~HasMax(u)
        BY DEF FiniteSubsetsOf
  <2>4. PICK x : x \in u /\ x \in Int
        BY <2>3
  <2>5. CASE u = {x}
        BY <2>3, <2>4, <2>5 DEF HasMax
  <2>6. CASE u # {x}
    <3>1. u \ {x} \in SUBSET U /\ IsFiniteSet(u \ {x}) /\ u \ {x} # {}
          BY <2>3, <2>4, <2>6, FS_RemoveElement
    <3>2. <<u \ {x}, u>> \in StrictSubsetOrdering(U)
          BY <2>3, <2>4, <3>1 DEF StrictSubsetOrdering
    <3>3. u \ {x} \notin Bad
          BY <2>2, <3>2
    <3>4. HasMax(u \ {x})
          BY <3>1, <3>3 DEF FiniteSubsetsOf
    <3>5. PICK b \in u \ {x} : \A k \in u \ {x} : b >= k
          BY <3>4 DEF HasMax
    <3>6. b \in Int /\ \A k \in u : k \in Int
          BY <2>3
    <3>7. CASE b >= x
          BY <2>3, <3>5, <3>7 DEF HasMax
    <3>8. CASE ~(b >= x)
          BY <2>3, <2>4, <3>5, <3>6, <3>8 DEF HasMax
    <3> QED
        BY <3>7, <3>8
  <2> QED
      BY <2>5, <2>6
<1> QED
    BY <1>2, <1>3

LEMMA MaxIsLargest ==
    ASSUME NEW U, IsFiniteSet(U), U \subseteq Int, NEW S \in SUBSET U, S # {}
    PROVE  Max(S) \in S /\ \A y \in S : Max(S) >= y
<1>1. \E x \in S : \A y \in S : x >= y
      BY MaxExists DEF HasMax
<1> QED
    BY <1>1 DEF Max

LEMMA MaxOfPair ==
    ASSUME NEW a \in Int, NEW b \in Int
    PROVE  Max({a, b}) \in {a, b} /\ Max({a, b}) >= a /\ Max({a, b}) >= b
<1>1. \E x \in {a, b} : \A y \in {a, b} : x >= y
      OBVIOUS
<1> QED
    BY <1>1 DEF Max

OutcomeRecord == [status : {"none", "open", "lost", "closed"}, reply : Replies \cup {Nobody},
                  turns : Nat, rude : BOOLEAN]
Stages == {"none", "stored", "swept", "done", "lost"}

OutcomeTypes ==
    /\ clock \in Nat \ {0}
    /\ sent \in [Turns -> Nat] /\ row \in [Turns -> OutcomeRecord]
    /\ at \in [Replies -> Nat] /\ step \in [Replies -> Stages] /\ unseen \in [Replies -> SUBSET Turns]
    /\ \A t \in Turns : /\ sent[t] = 0 => row[t].status = "none"
                        /\ row[t].status = "none" => row[t].reply = Nobody /\ row[t].turns = 0
    /\ \A r \in Replies : step[r] = "none" => at[r] = 0

\* What a turn that r answers, or may answer, is like.
Swept(r) ==
    step[r] \in {"swept", "done"} =>
        \A t \in Turns : /\ row[t].status = "none" => t \in unseen[r]
                         /\ row[t].status = "open" /\ at[r] - sent[t] >= Window => t \in unseen[r]
Justified(t, r) ==
    row[t].reply = r =>
        /\ step[r] = "done" /\ sent[t] > 0 /\ sent[t] =< at[r]
        /\ at[r] - sent[t] >= Window => t \in unseen[r]
        /\ \A u \in Turns :
              u > t /\ sent[u] > 0 /\ sent[u] =< at[r] /\ u \notin unseen[r] =>
                  row[u].reply # Nobody \/ row[u].status # "open"

LaterReplies(t) == {q \in Replies : at[q] > sent[t]}
Counted(t) == row[t].turns =< 1 \/ row[t].turns =< Cardinality(LaterReplies(t))

OutcomesInv ==
    /\ OutcomeTypes
    /\ \A r \in Replies : Swept(r)
    /\ \A t \in Turns : Counted(t) /\ \A r \in Replies : Justified(t, r)

LEMMA LaterTyped ==
    ASSUME NEW S \in SUBSET Replies
    PROVE  IsFiniteSet(S) /\ Cardinality(S) \in Nat
BY OutcomesAssumption, FS_Subset, FS_CardinalityType

LEMMA LaterMore ==
    ASSUME NEW S \in SUBSET Replies, NEW T \in SUBSET S
    PROVE  Cardinality(T) =< Cardinality(S)
BY OutcomesAssumption, FS_Subset, LaterTyped

LEMMA OutcomesStart == OutcomesInit => OutcomesInv
<1> SUFFICES ASSUME OutcomesInit PROVE OutcomesInv
    OBVIOUS
<1>1. /\ clock = 1 /\ sent = [t \in Turns |-> 0] /\ at = [r \in Replies |-> 0]
      /\ row = [t \in Turns |-> [status |-> "none", reply |-> Nobody, turns |-> 0, rude |-> FALSE]]
      /\ step = [r \in Replies |-> "none"] /\ unseen = [r \in Replies |-> {}]
      BY DEF OutcomesInit
<1>2. OutcomeTypes
      BY <1>1 DEF OutcomeTypes, OutcomeRecord, Stages
<1>3. \A r \in Replies : Swept(r)
      BY <1>1 DEF Swept
<1>4. \A t \in Turns : row[t].turns = 0 /\ row[t].reply = Nobody
      BY <1>1
<1>5. \A t \in Turns : Counted(t)
      BY <1>4 DEF Counted
<1>6. \A t \in Turns, r \in Replies : row[t].reply # r
      BY <1>4, OutcomesAssumption
<1>7. \A t \in Turns, r \in Replies : Justified(t, r)
      BY <1>6 DEF Justified
<1> QED
    BY <1>2, <1>3, <1>5, <1>7 DEF OutcomesInv

\* Rows are shut, or nothing happens to them.
LEMMA RowsShut ==
    ASSUME OutcomesInv, NEW shut \in SUBSET Turns, \A t \in shut : row[t].status = "open",
           row' = [t \in Turns |-> IF t \in shut THEN [row[t] EXCEPT !.status = "closed"] ELSE row[t]]
    PROVE  /\ row' \in [Turns -> OutcomeRecord]
           /\ \A t \in Turns : /\ row'[t].reply = row[t].reply /\ row'[t].turns = row[t].turns
                               /\ row'[t].status = row[t].status
                                     \/ (row[t].status = "open" /\ row'[t].status = "closed")
                               /\ t \in shut => row'[t].status = "closed"
                               /\ row'[t].status = "none" <=> row[t].status = "none"
                               /\ row'[t].status = "open" => row[t].status = "open"
<1>1. \A t \in Turns : row[t] \in OutcomeRecord
      BY DEF OutcomesInv, OutcomeTypes
<1>2. ASSUME NEW t \in Turns
      PROVE  /\ row'[t] \in OutcomeRecord
             /\ row'[t].reply = row[t].reply /\ row'[t].turns = row[t].turns
             /\ row'[t].status = row[t].status
                   \/ (row[t].status = "open" /\ row'[t].status = "closed")
             /\ t \in shut => row'[t].status = "closed"
             /\ row'[t].status = "none" <=> row[t].status = "none"
             /\ row'[t].status = "open" => row[t].status = "open"
  <2>1. CASE t \in shut
    <3>1. row[t] \in OutcomeRecord /\ row[t].status = "open" /\ row'[t] = [row[t] EXCEPT !.status = "closed"]
          BY <1>1, <2>1
    <3> QED
        BY <3>1 DEF OutcomeRecord
  <2>2. CASE t \notin shut
    <3>1. row[t] \in OutcomeRecord /\ row'[t] = row[t]
          BY <1>1, <2>2
    <3>2. row'[t].reply = row[t].reply /\ row'[t].turns = row[t].turns
          BY <3>1, Zenon
    <3>3. row'[t].status = row[t].status
          BY <3>1, Zenon
    <3>4. row'[t] \in OutcomeRecord
          BY <3>1, Zenon
    <3> QED
        BY <2>2, <3>2, <3>3, <3>4
  <2> QED
      BY <2>1, <2>2
<1>3. row' \in [Turns -> OutcomeRecord]
      BY <1>2
<1> QED
    BY <1>2, <1>3

\* What must hold of a step for the invariant to survive it, when the times and the rows say
\* the same of every turn but the one, if any, that the step is about.
LEMMA OutcomesKept ==
    ASSUME OutcomesInv, OutcomeTypes',
           sent' = sent, at' = at, unseen' = unseen,
           \A t \in Turns : /\ row'[t].reply = row[t].reply /\ row'[t].turns = row[t].turns
                            /\ row'[t].status = "none" => row[t].status = "none"
                            /\ row'[t].status = "open" => row[t].status = "open",
           \A r \in Replies : /\ step[r] = "done" => step'[r] = "done"
                              /\ step'[r] \in {"swept", "done"} => step[r] \in {"swept", "done"}
    PROVE  OutcomesInv'
<1>1. \A r \in Replies : Swept(r)'
  <2> SUFFICES ASSUME NEW r \in Replies PROVE Swept(r)'
      OBVIOUS
  <2> QED
      BY DEF OutcomesInv, Swept
<1>2. \A t \in Turns : Counted(t)'
      BY DEF OutcomesInv, Counted, LaterReplies
<1>3. ASSUME NEW t \in Turns, NEW r \in Replies PROVE Justified(t, r)'
      BY DEF OutcomesInv, Justified
<1> QED
    BY <1>1, <1>2, <1>3 DEF OutcomesInv

LEMMA OutcomesTick == OutcomesInv /\ Tick => OutcomesInv'
<1> SUFFICES ASSUME OutcomesInv, Tick PROVE OutcomesInv'
    OBVIOUS
<1>1. clock' = clock + 1 /\ UNCHANGED <<sent, row, at, step, unseen>>
      BY DEF Tick
<1>2. OutcomeTypes'
      BY <1>1 DEF OutcomesInv, OutcomeTypes
<1> QED
    BY <1>1, <1>2, OutcomesKept

\* No row is written for a turn before it is sent, so whoever swept has not seen it.
LEMMA OutcomesDeliver == ASSUME NEW t \in Turns PROVE OutcomesInv /\ Deliver(t) => OutcomesInv'
<1> SUFFICES ASSUME OutcomesInv, Deliver(t) PROVE OutcomesInv'
    OBVIOUS
<1>1. /\ sent[t] = 0 /\ sent' = [sent EXCEPT ![t] = clock]
      /\ UNCHANGED <<clock, row, at, step, unseen>>
      BY DEF Deliver
<1>2. OutcomeTypes /\ clock \in Nat \ {0} /\ sent \in [Turns -> Nat]
      BY DEF OutcomesInv, OutcomeTypes
<1>3. row[t].status = "none" /\ row[t].reply = Nobody /\ row[t].turns = 0
      BY <1>1, <1>2 DEF OutcomeTypes
<1>4. sent' \in [Turns -> Nat] /\ sent'[t] = clock /\ \A u \in Turns \ {t} : sent'[u] = sent[u]
      BY <1>1, <1>2
<1>5. OutcomeTypes'
  <2>1. \A u \in Turns : sent'[u] = 0 => row'[u].status = "none"
        BY <1>1, <1>2, <1>3, <1>4 DEF OutcomeTypes
  <2> QED
      BY <2>1, <1>1, <1>2, <1>4 DEF OutcomeTypes
<1>6. ASSUME NEW r \in Replies PROVE Swept(r)'
  <2>1. Swept(r)
        BY DEF OutcomesInv
  <2>2. \A u \in Turns : row[u].status = "open" => sent'[u] = sent[u]
        BY <1>3, <1>4
  <2> QED
      BY <2>1, <2>2, <1>1 DEF Swept
<1>7. ASSUME NEW u \in Turns PROVE Counted(u)'
  <2>1. Counted(u) /\ row'[u] = row[u]
        BY <1>1 DEF OutcomesInv
  <2>2. CASE u = t
        BY <1>3, <2>1, <2>2 DEF Counted
  <2>3. CASE u # t
        BY <1>1, <1>4, <2>1, <2>3 DEF Counted, LaterReplies
  <2> QED
      BY <2>2, <2>3
<1>8. ASSUME NEW u \in Turns, NEW r \in Replies, row[u].reply = r PROVE Justified(u, r)'
  <2>1. u # t
        BY <1>3, <1>8, OutcomesAssumption
  <2>2. Justified(u, r) /\ Swept(r) /\ sent'[u] = sent[u]
        BY <1>4, <2>1 DEF OutcomesInv
  <2>3. step[r] = "done" /\ t \in unseen[r]
        BY <1>3, <1>8, <2>2 DEF Justified, Swept
  <2> QED
      BY <1>1, <1>4, <1>8, <2>2, <2>3 DEF Justified
<1>9. \A u \in Turns, r \in Replies : Justified(u, r)'
      BY <1>1, <1>8 DEF Justified
<1> QED
    BY <1>5, <1>6, <1>7, <1>9 DEF OutcomesInv

LEMMA OutcomesRecorded ==
    ASSUME NEW t \in Turns, NEW status \in {"open", "lost"}
    PROVE  OutcomesInv /\ Record(t, status) => OutcomesInv'
<1> SUFFICES ASSUME OutcomesInv, Record(t, status) PROVE OutcomesInv'
    OBVIOUS
<1>1. /\ sent[t] > 0 /\ row[t].status = "none" /\ row' = [row EXCEPT ![t].status = status]
      /\ UNCHANGED <<clock, sent, at, step, unseen>>
      BY DEF Record
<1>2. OutcomeTypes /\ row \in [Turns -> OutcomeRecord] /\ sent \in [Turns -> Nat]
      BY DEF OutcomesInv, OutcomeTypes
<1>3. row[t] \in OutcomeRecord /\ row'[t] = [row[t] EXCEPT !.status = status]
      BY <1>1, <1>2
<1>4. \A u \in Turns \ {t} : row'[u] = row[u]
      BY <1>1, <1>2
<1>5. /\ row'[t] \in OutcomeRecord /\ row'[t].status = status
      /\ row'[t].reply = row[t].reply /\ row'[t].turns = row[t].turns
      BY <1>3 DEF OutcomeRecord
<1>6. row' \in [Turns -> OutcomeRecord]
      BY <1>1, <1>2, <1>5
<1>7. OutcomeTypes'
  <2>1. \A u \in Turns : sent[u] = 0 => row'[u].status = "none"
        BY <1>1, <1>2, <1>4 DEF OutcomeTypes
  <2>2. \A u \in Turns : row'[u].status = "none" => row'[u].reply = Nobody /\ row'[u].turns = 0
        BY <1>1, <1>2, <1>4, <1>5 DEF OutcomeTypes
  <2> QED
      BY <2>1, <2>2, <1>1, <1>2, <1>6 DEF OutcomeTypes
<1>8. ASSUME NEW r \in Replies PROVE Swept(r)'
  <2>1. Swept(r)
        BY DEF OutcomesInv
  <2>2. ASSUME NEW u \in Turns, step[r] \in {"swept", "done"}
        PROVE  /\ row'[u].status = "none" => u \in unseen[r]
               /\ row'[u].status = "open" /\ at[r] - sent[u] >= Window => u \in unseen[r]
        BY <1>1, <1>4, <2>1, <2>2 DEF Swept
  <2> QED
      BY <2>2, <1>1 DEF Swept
<1>9. ASSUME NEW u \in Turns PROVE Counted(u)'
  <2>1. Counted(u) /\ row'[u].turns = row[u].turns
        BY <1>4, <1>5 DEF OutcomesInv
  <2> QED
      BY <1>1, <2>1 DEF Counted, LaterReplies
<1>10. ASSUME NEW u \in Turns, NEW r \in Replies, row[u].reply = r PROVE Justified(u, r)'
  <2>1. Justified(u, r) /\ Swept(r)
        BY DEF OutcomesInv
  <2>2. step[r] = "done" /\ t \in unseen[r]
        BY <1>1, <1>10, <2>1 DEF Justified, Swept
  <2> QED
      BY <1>1, <1>4, <1>10, <2>1, <2>2 DEF Justified
<1>11. \A u \in Turns : row'[u].reply = row[u].reply
       BY <1>4, <1>5
<1>12. \A u \in Turns, r \in Replies : Justified(u, r)'
       BY <1>10, <1>11 DEF Justified
<1> QED
    BY <1>7, <1>8, <1>9, <1>12 DEF OutcomesInv

\* A stored message adds to what came after a turn.
LEMMA OutcomesStore ==
    ASSUME NEW r \in Replies, NEW when \in Int PROVE OutcomesInv /\ Store(r, when) => OutcomesInv'
<1> SUFFICES ASSUME OutcomesInv, Store(r, when) PROVE OutcomesInv'
    OBVIOUS
<1>1. /\ step[r] = "none" /\ when \in 1..clock /\ at' = [at EXCEPT ![r] = when]
      /\ step' = [step EXCEPT ![r] = "stored"] /\ UNCHANGED <<clock, sent, row, unseen>>
      BY DEF Store
<1>2. /\ OutcomeTypes /\ at \in [Replies -> Nat] /\ step \in [Replies -> Stages]
      /\ sent \in [Turns -> Nat] /\ row \in [Turns -> OutcomeRecord] /\ clock \in Nat
      BY DEF OutcomesInv, OutcomeTypes
<1>3. /\ at[r] = 0 /\ at'[r] = when /\ when \in Nat /\ step'[r] = "stored"
      /\ \A q \in Replies \ {r} : at'[q] = at[q] /\ step'[q] = step[q]
      BY <1>1, <1>2 DEF OutcomeTypes
<1>4. OutcomeTypes'
      BY <1>1, <1>2, <1>3 DEF OutcomeTypes, Stages
<1>5. ASSUME NEW q \in Replies PROVE Swept(q)'
  <2>1. Swept(q)
        BY DEF OutcomesInv
  <2>2. CASE q = r
        BY <1>3, <2>2 DEF Swept
  <2>3. CASE q # r
        BY <1>1, <1>3, <2>1, <2>3 DEF Swept
  <2> QED
      BY <2>2, <2>3
<1>6. ASSUME NEW t \in Turns PROVE Counted(t)'
  <2>1. Counted(t) /\ row' = row /\ sent' = sent
        BY <1>1 DEF OutcomesInv
  <2>2. LaterReplies(t)' \in SUBSET Replies /\ LaterReplies(t) \in SUBSET LaterReplies(t)'
    <3>1. \A q \in Replies : at[q] > sent[t] => at'[q] > sent[t]
          BY <1>2, <1>3
    <3> QED
        BY <2>1, <3>1 DEF LaterReplies
  <2>3. Cardinality(LaterReplies(t)) =< Cardinality(LaterReplies(t)')
        BY <2>2, LaterMore
  <2>4. Cardinality(LaterReplies(t)) \in Nat /\ Cardinality(LaterReplies(t)') \in Nat
        BY <2>2, LaterTyped
  <2>5. row[t].turns \in Nat
        BY <1>2 DEF OutcomeRecord
  <2>6. row'[t].turns = row[t].turns
        BY <2>1
  <2> QED
      BY <2>1, <2>3, <2>4, <2>5, <2>6 DEF Counted
<1>7. ASSUME NEW t \in Turns, NEW q \in Replies, row[t].reply = q PROVE Justified(t, q)'
  <2>1. Justified(t, q)
        BY DEF OutcomesInv
  <2>2. q # r
        BY <1>1, <1>7, <2>1 DEF Justified
  <2> QED
      BY <1>1, <1>3, <1>7, <2>1, <2>2 DEF Justified
<1>8. \A t \in Turns, q \in Replies : Justified(t, q)'
      BY <1>1, <1>7 DEF Justified
<1> QED
    BY <1>4, <1>5, <1>6, <1>8 DEF OutcomesInv

\* A sweep leaves no row open that is past the window, but for those not there yet.
LEMMA OutcomesSweep == ASSUME NEW r \in Replies PROVE OutcomesInv /\ Sweep(r) => OutcomesInv'
<1> SUFFICES ASSUME OutcomesInv, Sweep(r) PROVE OutcomesInv'
    OBVIOUS
<1> DEFINE shut == {t \in Turns : Expired(t, at[r])}
           fresh == {t \in Turns : row[t].status = "none"}
<1>1. /\ step[r] = "stored" /\ step' = [step EXCEPT ![r] = "swept"]
      /\ unseen' = [unseen EXCEPT ![r] = fresh] /\ UNCHANGED <<clock, sent, at>>
      BY DEF Sweep
<1>2. row' = [t \in Turns |-> IF t \in shut THEN [row[t] EXCEPT !.status = "closed"] ELSE row[t]]
      BY DEF Sweep
<1>3. shut \in SUBSET Turns /\ \A t \in shut : row[t].status = "open"
      BY DEF Expired
<1>4. \A t \in Turns \ shut : row[t].status = "open" => ~(sent[t] =< at[r] - Window)
      BY DEF Expired
<1>5. fresh \in SUBSET Turns /\ \A t \in Turns : row[t].status = "none" => t \in fresh
      OBVIOUS
<1> HIDE DEF shut, fresh
<1>6. /\ row' \in [Turns -> OutcomeRecord]
      /\ \A t \in Turns : /\ row'[t].reply = row[t].reply /\ row'[t].turns = row[t].turns
                          /\ t \in shut => row'[t].status = "closed"
                          /\ row'[t].status = "none" <=> row[t].status = "none"
                          /\ row'[t].status = "open" => row[t].status = "open"
      BY <1>2, <1>3, RowsShut
<1>7. /\ OutcomeTypes /\ at \in [Replies -> Nat] /\ step \in [Replies -> Stages]
      /\ sent \in [Turns -> Nat] /\ unseen \in [Replies -> SUBSET Turns] /\ Window \in Nat
      BY OutcomesAssumption DEF OutcomesInv, OutcomeTypes
<1>8. /\ step'[r] = "swept" /\ unseen'[r] = fresh
      /\ \A q \in Replies \ {r} : step'[q] = step[q] /\ unseen'[q] = unseen[q]
      BY <1>1, <1>7
<1>9. OutcomeTypes'
  <2>1. unseen' \in [Replies -> SUBSET Turns] /\ step' \in [Replies -> Stages]
        BY <1>1, <1>5, <1>7 DEF Stages
  <2> QED
      BY <2>1, <1>1, <1>6, <1>7, <1>8 DEF OutcomeTypes
<1>10. ASSUME NEW q \in Replies PROVE Swept(q)'
  <2>1. Swept(q)
        BY DEF OutcomesInv
  <2>2. CASE q = r
    <3>1. ASSUME NEW t \in Turns PROVE row'[t].status = "none" => t \in unseen'[r]
          BY <1>5, <1>6, <1>8
    <3>2. ASSUME NEW t \in Turns, row'[t].status = "open" PROVE ~(at[r] - sent[t] >= Window)
      <4>1. t \notin shut /\ row[t].status = "open"
            BY <1>6, <3>2
      <4>2. at[r] \in Int /\ sent[t] \in Int /\ Window \in Int
            BY <1>7
      <4> QED
          BY <1>4, <4>1, <4>2
    <3> QED
        BY <1>1, <2>2, <3>1, <3>2 DEF Swept
  <2>3. CASE q # r
        BY <1>1, <1>6, <1>8, <2>1, <2>3 DEF Swept
  <2> QED
      BY <2>2, <2>3
<1>11. \A t \in Turns : Counted(t)'
       BY <1>1, <1>6 DEF OutcomesInv, Counted, LaterReplies
<1>12. ASSUME NEW t \in Turns, NEW q \in Replies, row[t].reply = q PROVE Justified(t, q)'
  <2>1. Justified(t, q)
        BY DEF OutcomesInv
  <2>2. q # r
        BY <1>1, <1>12, <2>1 DEF Justified
  <2>3. unseen'[q] = unseen[q] /\ step'[q] = step[q]
        BY <1>8, <2>2
  <2> QED
      BY <1>1, <1>6, <1>12, <2>1, <2>3 DEF Justified
<1>13. \A t \in Turns, q \in Replies : Justified(t, q)'
       BY <1>6, <1>12 DEF Justified
<1> QED
    BY <1>9, <1>10, <1>11, <1>13 DEF OutcomesInv

LEMMA OutcomesOther ==
    ASSUME NEW when \in Int PROVE OutcomesInv /\ SweptByOther(when) => OutcomesInv'
<1> SUFFICES ASSUME OutcomesInv, SweptByOther(when) PROVE OutcomesInv'
    OBVIOUS
<1> DEFINE shut == {t \in Turns : Expired(t, when)}
<1>1. UNCHANGED <<clock, sent, at, step, unseen>>
      BY DEF SweptByOther
<1>2. row' = [t \in Turns |-> IF t \in shut THEN [row[t] EXCEPT !.status = "closed"] ELSE row[t]]
      BY DEF SweptByOther
<1>3. shut \in SUBSET Turns /\ \A t \in shut : row[t].status = "open"
      BY DEF Expired
<1> HIDE DEF shut
<1>4. /\ row' \in [Turns -> OutcomeRecord]
      /\ \A t \in Turns : /\ row'[t].reply = row[t].reply /\ row'[t].turns = row[t].turns
                          /\ row'[t].status = "none" <=> row[t].status = "none"
                          /\ row'[t].status = "open" => row[t].status = "open"
      BY <1>2, <1>3, RowsShut
<1>5. OutcomeTypes'
      BY <1>1, <1>4 DEF OutcomesInv, OutcomeTypes
<1> QED
    BY <1>1, <1>4, <1>5, OutcomesKept

LEMMA OutcomesAbandon == ASSUME NEW r \in Replies PROVE OutcomesInv /\ Abandon(r) => OutcomesInv'
<1> SUFFICES ASSUME OutcomesInv, Abandon(r) PROVE OutcomesInv'
    OBVIOUS
<1>1. /\ step[r] \in {"stored", "swept"} /\ step' = [step EXCEPT ![r] = "lost"]
      /\ UNCHANGED <<clock, sent, row, at, unseen>>
      BY DEF Abandon
<1>2. step \in [Replies -> Stages]
      BY DEF OutcomesInv, OutcomeTypes
<1>3. step'[r] = "lost" /\ \A q \in Replies \ {r} : step'[q] = step[q]
      BY <1>1, <1>2
<1>4. OutcomeTypes'
      BY <1>1, <1>2, <1>3 DEF OutcomesInv, OutcomeTypes, Stages
<1>5. \A q \in Replies : /\ step[q] = "done" => step'[q] = "done"
                         /\ step'[q] \in {"swept", "done"} => step[q] \in {"swept", "done"}
      BY <1>1, <1>3
<1>6. \A t \in Turns : row'[t] = row[t]
      BY <1>1
<1> QED
    BY <1>1, <1>4, <1>5, <1>6, OutcomesKept

\* The newest of the rows open to a message is credited with it.
LEMMA OutcomesCredit == ASSUME NEW r \in Replies PROVE OutcomesInv /\ Credit(r) => OutcomesInv'
<1> SUFFICES ASSUME OutcomesInv, Credit(r) PROVE OutcomesInv'
    OBVIOUS
<1>1. /\ step[r] = "swept" /\ step' = [step EXCEPT ![r] = "done"]
      /\ UNCHANGED <<clock, sent, at, unseen>>
      BY DEF Credit
<1>2. /\ OutcomeTypes /\ at \in [Replies -> Nat] /\ step \in [Replies -> Stages]
      /\ row \in [Turns -> OutcomeRecord] /\ sent \in [Turns -> Nat]
      BY DEF OutcomesInv, OutcomeTypes
<1>3. step'[r] = "done" /\ \A q \in Replies \ {r} : step'[q] = step[q]
      BY <1>1, <1>2
<1>4. step' \in [Replies -> Stages] /\ \A q \in Replies : step'[q] = "none" => step[q] = "none"
      BY <1>1, <1>2, <1>3 DEF Stages
<1>5. CASE Eligible(r) = {}
  <2>1. row' = row
        BY <1>5 DEF Credit
  <2>2. OutcomeTypes'
        BY <1>1, <1>2, <1>4, <2>1 DEF OutcomeTypes
  <2>3. \A q \in Replies : /\ step[q] = "done" => step'[q] = "done"
                           /\ step'[q] \in {"swept", "done"} => step[q] \in {"swept", "done"}
        BY <1>1, <1>3
  <2>4. \A t \in Turns : row'[t] = row[t]
        BY <2>1
  <2> QED
      BY <1>1, <2>2, <2>3, <2>4, OutcomesKept
<1>6. CASE Eligible(r) # {}
  <2>1. Eligible(r) \in SUBSET Turns /\ Unanswered(r) \in SUBSET Eligible(r)
        BY DEF Eligible, Unanswered
  <2>2. PICK t \in Turns :
            /\ t = Chosen(r) /\ t \in Eligible(r)
            /\ Unanswered(r) # {} => \A u \in Unanswered(r) : t >= u
            /\ row[t].reply = Nobody => t \in Unanswered(r)
    <3>1. CASE Unanswered(r) # {}
          BY <2>1, <3>1, OutcomesAssumption, MaxIsLargest DEF Chosen
    <3>2. CASE Unanswered(r) = {}
      <4>1. Chosen(r) \in Eligible(r)
            BY <1>6, <2>1, <3>2, OutcomesAssumption, MaxIsLargest DEF Chosen
      <4> QED
          BY <2>1, <3>2, <4>1 DEF Unanswered
    <3> QED
        BY <3>1, <3>2
  <2> DEFINE first == row[t].reply = Nobody
             author == IF first THEN r ELSE row[t].reply
             least == IF first THEN 1 ELSE row[t].turns
             turns == Max({DurableTurns(t, r), least})
             rude == row[t].rude \/ r \in Rude
  <2>2a. row' = [row EXCEPT ![t] = [status |-> "open", reply |-> author, turns |-> turns, rude |-> rude]]
        BY <1>6, <2>2 DEF Credit
  <2>3. row[t].status = "open" /\ sent[t] =< at[r] /\ sent[t] \in Nat /\ at[r] \in Nat
        BY <1>2, <2>2 DEF Eligible
  <2>4. sent[t] > 0 /\ row[t] \in OutcomeRecord
        BY <1>2, <2>2, <2>3 DEF OutcomeTypes
  <2>5. row[t].reply \in Replies \cup {Nobody} /\ row[t].turns \in Nat /\ row[t].rude \in BOOLEAN
        BY <2>4 DEF OutcomeRecord
  <2>6. DurableTurns(t, r) \in Nat /\ DurableTurns(t, r) =< Cardinality(LaterReplies(t))
    <3> DEFINE durable == {q \in Replies : at[q] > sent[t] /\ at[q] <= at[r]}
    <3>1. durable \in SUBSET LaterReplies(t) /\ LaterReplies(t) \in SUBSET Replies
          BY DEF LaterReplies
    <3>2. DurableTurns(t, r) = Cardinality(durable)
          BY DEF DurableTurns
    <3> HIDE DEF durable
    <3> QED
        BY <3>1, <3>2, LaterTyped, LaterMore
  <2>7. least \in Nat /\ (least = 1 \/ least = row[t].turns)
        BY <2>5
  <2>8. turns \in {DurableTurns(t, r), least}
    <3> HIDE DEF least
    <3>1. DurableTurns(t, r) \in Int /\ least \in Int
          BY <2>6, <2>7
    <3> QED
        BY <3>1, MaxOfPair, Zenon
  <2>9. author \in Replies /\ author # Nobody /\ (author = row[t].reply \/ (first /\ author = r))
    <3>1. CASE first
          BY <3>1, OutcomesAssumption
    <3>2. CASE ~first
          BY <2>5, <3>2
    <3> QED
        BY <3>1, <3>2
  <2>10. turns \in Nat /\ rude \in BOOLEAN
    <3>1. turns \in Nat
      <4> HIDE DEF turns, least
      <4> QED
          BY <2>6, <2>7, <2>8
    <3>2. rude \in BOOLEAN
          BY <2>5
    <3> QED
        BY <3>1, <3>2
  <2>11. turns =< Cardinality(LaterReplies(t)) \/ turns = 1 \/ turns = row[t].turns
    <3> HIDE DEF turns, least
    <3> QED
        BY <2>6, <2>7, <2>8
  <2> HIDE DEF author, turns, rude, least
  <2>12. /\ row' \in [Turns -> OutcomeRecord] /\ row'[t].status = "open"
         /\ row'[t].reply = author /\ row'[t].turns = turns
         /\ \A u \in Turns \ {t} : row'[u] = row[u]
    <3>1. [status |-> "open", reply |-> author, turns |-> turns, rude |-> rude] \in OutcomeRecord
          BY <2>9, <2>10 DEF OutcomeRecord
    <3> QED
        BY <1>2, <2>2a, <2>2, <3>1
  <2>13. OutcomeTypes'
    <3>1. \A u \in Turns : sent[u] = 0 => row'[u].status = "none"
          BY <1>2, <2>4, <2>12 DEF OutcomeTypes
    <3>2. \A u \in Turns : row'[u].status = "none" => row'[u].reply = Nobody /\ row'[u].turns = 0
          BY <1>2, <2>12 DEF OutcomeTypes
    <3> QED
        BY <1>1, <1>2, <1>4, <2>12, <3>1, <3>2 DEF OutcomeTypes
  <2>14. \A u \in Turns : row'[u].status = row[u].status
         BY <2>3, <2>12
  <2>15. ASSUME NEW q \in Replies PROVE Swept(q)'
    <3>1. Swept(q) /\ (step'[q] \in {"swept", "done"} => step[q] \in {"swept", "done"})
          BY <1>1, <1>3 DEF OutcomesInv
    <3> QED
        BY <1>1, <2>14, <3>1 DEF Swept
  <2>16. ASSUME NEW u \in Turns PROVE Counted(u)'
    <3>1. Counted(u) /\ LaterReplies(u)' = LaterReplies(u)
          BY <1>1 DEF OutcomesInv, LaterReplies
    <3>2. CASE u # t
          BY <2>12, <3>1, <3>2 DEF Counted
    <3>3. CASE u = t
          BY <2>11, <2>12, <3>1, <3>3 DEF Counted
    <3> QED
        BY <3>2, <3>3
  <2>17. ASSUME NEW u \in Turns, NEW q \in Replies,
                row[u].reply = q
         PROVE  Justified(u, q)'
    <3>1. Justified(u, q) /\ step'[q] = "done" /\ row[u].reply # Nobody
          BY <1>3, <2>17, OutcomesAssumption DEF OutcomesInv, Justified
    <3>2. \A x \in Turns : row[x].reply # Nobody => row'[x].reply # Nobody
          BY <2>9, <2>12
    <3> QED
        BY <1>1, <2>14, <2>17, <3>1, <3>2 DEF Justified
  <2>18. ASSUME first PROVE Justified(t, r)'
    <3>1. at[r] - sent[t] >= Window => t \in unseen[r]
          BY <1>1, <2>2, <2>3 DEF OutcomesInv, Swept
    <3>2. ASSUME NEW u \in Turns, u > t, sent[u] =< at[r], row[u].status = "open"
          PROVE  row'[u].reply # Nobody
      <4>1. u \in Eligible(r)
            BY <3>2 DEF Eligible
      <4>2. u # t /\ ~(t >= u)
            BY <2>2, <3>2, OutcomesAssumption
      <4>3. u \notin Unanswered(r)
            BY <2>2, <2>18, <4>2
      <4>4. row[u].reply # Nobody
            BY <4>1, <4>3 DEF Unanswered
      <4> QED
          BY <2>12, <4>2, <4>4
    <3>3. \A u \in Turns : u > t /\ sent[u] =< at[r] =>
             row'[u].reply # Nobody \/ row'[u].status # "open"
          BY <2>14, <3>2
    <3> QED
        BY <1>1, <1>3, <2>3, <2>4, <3>1, <3>3 DEF Justified
  <2>19. ASSUME NEW u \in Turns, NEW q \in Replies, row'[u].reply = q PROVE Justified(u, q)'
    <3>1. CASE u # t
          BY <2>12, <2>17, <2>19, <3>1
    <3>2. CASE u = t
      <4>1. q = author
            BY <2>12, <2>19, <3>2
      <4>2. CASE row[t].reply = q
            BY <2>17, <3>2, <4>2
      <4>3. CASE first /\ q = r
            BY <2>18, <3>2, <4>3
      <4> QED
          BY <2>9, <4>1, <4>2, <4>3
    <3> QED
        BY <3>1, <3>2
  <2>20. \A u \in Turns, q \in Replies : Justified(u, q)'
         BY <2>19 DEF Justified
  <2> QED
      BY <2>13, <2>15, <2>16, <2>20 DEF OutcomesInv
<1> QED
    BY <1>5, <1>6

LEMMA OutcomesStep == OutcomesInv /\ [OutcomesNext]_outcomeVars => OutcomesInv'
<1> SUFFICES ASSUME OutcomesInv, [OutcomesNext]_outcomeVars PROVE OutcomesInv'
    OBVIOUS
<1>1. CASE UNCHANGED outcomeVars
  <2>1. UNCHANGED <<clock, sent, row, at, step, unseen>>
        BY <1>1 DEF outcomeVars
  <2>2. OutcomeTypes'
        BY <2>1 DEF OutcomesInv, OutcomeTypes
  <2> QED
      BY <2>1, <2>2, OutcomesKept
<1>2. CASE OutcomesNext
  <2>1. 1..MaxNow \subseteq Int
        OBVIOUS
  <2> QED
      BY <1>2, <2>1, OutcomesTick, OutcomesDeliver, OutcomesRecorded, OutcomesStore, OutcomesSweep,
         OutcomesCredit, OutcomesAbandon, OutcomesOther DEF OutcomesNext
<1> QED
    BY <1>1, <1>2

LEMMA OutcomesHold == OutcomesInv => CreditsJustified
<1> SUFFICES ASSUME OutcomesInv PROVE CreditsJustified
    OBVIOUS
<1>1. /\ OutcomeTypes /\ sent \in [Turns -> Nat] /\ row \in [Turns -> OutcomeRecord]
      BY DEF OutcomesInv, OutcomeTypes
<1>2. \A t \in Turns, r \in Replies : row[t].reply = r =>
        /\ sent[t] <= at[r]
        /\ at[r] - sent[t] >= Window => t \in unseen[r]
        /\ \A u \in Turns :
              u > t /\ sent[u] > 0 /\ sent[u] <= at[r] /\ u \notin unseen[r] =>
                  Answered(u) \/ row[u].status # "open"
      BY DEF OutcomesInv, Justified, Answered
<1>3. ASSUME NEW t \in Turns
      PROVE  row[t].turns <= Max({1, Cardinality({q \in Replies : at[q] > sent[t]})})
  <2>1. Counted(t) /\ row[t].turns \in Nat
        BY <1>1 DEF OutcomesInv, OutcomeRecord
  <2>2. LaterReplies(t) \in SUBSET Replies /\ LaterReplies(t) = {q \in Replies : at[q] > sent[t]}
        BY DEF LaterReplies
  <2>3. Cardinality(LaterReplies(t)) \in Nat
        BY <2>2, LaterTyped
  <2>4. /\ Max({1, Cardinality(LaterReplies(t))}) \in {1, Cardinality(LaterReplies(t))}
        /\ Max({1, Cardinality(LaterReplies(t))}) >= 1
        /\ Max({1, Cardinality(LaterReplies(t))}) >= Cardinality(LaterReplies(t))
        BY <2>3, MaxOfPair
  <2>5. row[t].turns =< Max({1, Cardinality(LaterReplies(t))})
        BY <2>1, <2>3, <2>4 DEF Counted
  <2> QED
      BY <2>2, <2>5
<1> QED
    BY <1>2, <1>3 DEF CreditsJustified

\* A reply is credited inside the window and to the newest turn it may answer, and no turn counts
\* more messages than the fan sent after it, for every number of turns and messages and whatever
\* their order (CreditsJustified).
THEOREM RepliesAreCredited == OutcomesSpec => []CreditsJustified
<1>1. OutcomesInit => OutcomesInv
      BY OutcomesStart
<1>2. OutcomesInv /\ [OutcomesNext]_outcomeVars => OutcomesInv'
      BY OutcomesStep
<1>3. OutcomesInv => CreditsJustified
      BY OutcomesHold
<1> QED
    BY <1>1, <1>2, <1>3, PTL DEF OutcomesSpec
=============================================================================
