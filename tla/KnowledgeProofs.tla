---------------------------- MODULE KnowledgeProofs ----------------------------
(***************************************************************************)
(* Proofs about Knowledge for any texts, contradictions and releases: its  *)
(* types, that rules which were compared and contradict each other are not *)
(* both in force before their conflict is resolved, and that one release   *)
(* at most is read.                                                        *)
(*                                                                         *)
(* About Outreach, for any fans, windows, limits and bounds:               *)
(* its types, the cooldown between two proactive messages to a fan, and    *)
(* the caps.                                                               *)
(*                                                                         *)
(* About Documents, for any operators, types and bootstrap entries: one    *)
(* document of a type is in force unless two transactions raced, and a     *)
(* compiled prompt has the fan's newest turn.                              *)
(*                                                                         *)
(* About Planner, last, for any contexts, texts and answers: what is       *)
(* selected passed the gates.  What a recursive function computes is       *)
(* proved by the least number it would fail at (Least, Recursion).  The    *)
(* four modules share nothing.                                             *)
(***************************************************************************)
EXTENDS Knowledge, Outreach, Documents, Planner,
        FiniteSetTheorems, SequenceTheorems, WellFoundedInduction, TLAPS

\* The parts of the type invariant by the tables.
RulesOK ==
    /\ rules \in Seq(RuleType)
    /\ conflicts \in [open : SUBSET Pairs, resolved : SUBSET Pairs]
    /\ reviewed \subseteq Pairs
ExamplesOK == examples \in Rows /\ byHand \in 0..MaxByHand
ReleaseStatus == {"none", "shadow", "active", "archived"}
ReleaseOK == release \in [Releases -> ReleaseStatus]

\* Two rules that were compared and contradict each other have a conflict.
Registered ==
    \A pair \in reviewed :
        <<rules[pair[1]].body, rules[pair[2]].body>> \in Clash
            => pair \in conflicts.open \cup conflicts.resolved

\* While it is open one of the two is out of force.
Gated ==
    \A pair \in conflicts.open :
        rules[pair[1]].status # "active" \/ rules[pair[2]].status # "active"

\* A mode is held by one release.
OneHeld == \A r, s \in Releases : release[r] = "active" /\ release[s] = "active" => r = s

\* The inductive invariant.
ReviewInv == RulesOK /\ Registered /\ Gated
ReleaseInv == ReleaseOK /\ OneHeld
IInv == ReviewInv /\ ExamplesOK /\ ReleaseInv

-----------------------------------------------------------------------------
\* A member of Pairs is two rules.
LEMMA PairOfRules ==
    ASSUME NEW pair \in Pairs
    PROVE  pair[1] \in DOMAIN rules /\ pair[2] \in DOMAIN rules /\ pair = <<pair[1], pair[2]>>
BY DEF Pairs

LEMMA TextParts == \A text \in Texts : text[1] \in Keys /\ text[2] \in Bodies
BY DEF Keys, Bodies

LEMMA Initially == Init => IInv
<1> SUFFICES ASSUME Init PROVE IInv
  OBVIOUS
<1>1. ReviewInv
  BY DEF Init, ReviewInv, RulesOK, Registered, Gated, Pairs
<1>2. ExamplesOK
  BY KnowledgeAssumption DEF Init, ExamplesOK, Rows, NoRows
<1>3. ReleaseInv
  BY DEF Init, ReleaseInv, ReleaseOK, ReleaseStatus, OneHeld
<1> QED
  BY <1>1, <1>2, <1>3 DEF IInv

LEMMA ReviewUnchanged ==
    ASSUME ReviewInv, UNCHANGED <<rules, conflicts, reviewed>>
    PROVE  ReviewInv'
BY DEF ReviewInv, RulesOK, Registered, Gated, Pairs

LEMMA ExamplesUnchanged ==
    ASSUME ExamplesOK, UNCHANGED <<examples, byHand>>
    PROVE  ExamplesOK'
BY DEF ExamplesOK

LEMMA ReleaseUnchanged ==
    ASSUME ReleaseInv, UNCHANGED release
    PROVE  ReleaseInv'
BY DEF ReleaseInv, ReleaseOK, OneHeld

\* One more row in byHand.
LEMMA WritesKeeps ==
    ASSUME ExamplesOK, Writes, UNCHANGED examples
    PROVE  ExamplesOK'
BY KnowledgeAssumption DEF ExamplesOK, Writes

-----------------------------------------------------------------------------
(* Rules.                                                                  *)

\* The rules keep their place and their body when one is appended.
LEMMA AppendKeeps ==
    ASSUME ReviewInv, NEW new \in RuleType, rules' = Append(rules, new)
    PROVE  /\ rules' \in Seq(RuleType) /\ Len(rules') = Len(rules) + 1
           /\ DOMAIN rules' = (DOMAIN rules) \cup {Len(rules) + 1}
           /\ \A i \in DOMAIN rules : rules'[i] = rules[i]
           /\ rules'[Len(rules) + 1] = new
           /\ Pairs \subseteq Pairs'
<1>1. rules \in Seq(RuleType)
  BY DEF ReviewInv, RulesOK
<1>2. /\ rules' \in Seq(RuleType) /\ Len(rules') = Len(rules) + 1
      /\ \A i \in DOMAIN rules : rules'[i] = rules[i]
      /\ rules'[Len(rules) + 1] = new
  BY <1>1
<1>3. DOMAIN rules' = (DOMAIN rules) \cup {Len(rules) + 1}
  BY <1>1, <1>2
<1>4. Pairs \subseteq Pairs'
  BY <1>3 DEF Pairs
<1> QED
  BY <1>2, <1>3, <1>4

LEMMA CreateRuleKeeps ==
    ASSUME IInv, NEW text \in Texts, NEW status \in RuleStatus,
           CreateRule(text[1], text[2], status)
    PROVE  IInv'
<1> ReviewInv /\ ExamplesOK /\ ReleaseInv
  BY DEF IInv
<1> DEFINE id == Len(rules) + 1
           against == Contradicted(text[2])
           new == [key |-> text[1], body |-> text[2], origin |-> ByHand,
                   status |-> IF status = "active" /\ against # {} THEN "draft" ELSE status]
<1>1. new \in RuleType
  BY TextParts DEF RuleType, RuleStatus, Origins
<1>2. rules' = Append(rules, new)
  BY DEF CreateRule
<1>3. /\ conflicts' = [conflicts EXCEPT !.open = @ \cup (against \X {id})]
      /\ reviewed' = reviewed \cup (Peers \X {id})
  BY DEF CreateRule
<1>4. against # {} => new.status # "active"
  OBVIOUS
<1>5. new.body = text[2]
  OBVIOUS
<1>6. \A i \in Peers : i \in DOMAIN rules /\ (<<rules[i].body, new.body>> \in Clash => i \in against)
  BY <1>5 DEF Peers, Contradicted
<1>7. against \subseteq DOMAIN rules
  BY DEF Contradicted, Peers
<1> HIDE DEF new, against
<1>8. /\ rules' \in Seq(RuleType)
      /\ DOMAIN rules' = (DOMAIN rules) \cup {id}
      /\ \A i \in DOMAIN rules : rules'[i] = rules[i]
      /\ rules'[id] = new
      /\ Pairs \subseteq Pairs'
  BY <1>1, <1>2, AppendKeeps
<1> HIDE DEF id
<1>9. conflicts \in [open : SUBSET Pairs, resolved : SUBSET Pairs] /\ reviewed \subseteq Pairs
  BY DEF ReviewInv, RulesOK
<1>10. conflicts'.open = conflicts.open \cup (against \X {id}) /\ conflicts'.resolved = conflicts.resolved
  BY <1>3, <1>9
<1>11. against \X {id} \subseteq Pairs' /\ Peers \X {id} \subseteq Pairs'
  BY <1>6, <1>7, <1>8 DEF Pairs
<1>12. RulesOK'
  <2>1. conflicts' \in [open : SUBSET Pairs', resolved : SUBSET Pairs']
    BY <1>3, <1>8, <1>9, <1>11
  <2> QED
    BY <2>1, <1>3, <1>8, <1>9, <1>11 DEF RulesOK
<1>13. Registered'
  <2> SUFFICES ASSUME NEW pair \in reviewed',
                      <<rules'[pair[1]].body, rules'[pair[2]].body>> \in Clash
               PROVE  pair \in conflicts'.open \cup conflicts'.resolved
    BY DEF Registered
  <2>1. CASE pair \in reviewed
    <3>1. pair[1] \in DOMAIN rules /\ pair[2] \in DOMAIN rules
      BY <2>1, <1>9, PairOfRules
    <3> QED
      BY <2>1, <3>1, <1>8, <1>10 DEF ReviewInv, Registered
  <2>2. CASE pair \in Peers \X {id}
    BY <2>2, <1>6, <1>8, <1>10
  <2> QED
    BY <2>1, <2>2, <1>3
<1>14. Gated'
  <2> SUFFICES ASSUME NEW pair \in conflicts'.open
               PROVE  rules'[pair[1]].status # "active" \/ rules'[pair[2]].status # "active"
    BY DEF Gated
  <2>1. CASE pair \in conflicts.open
    <3>1. pair[1] \in DOMAIN rules /\ pair[2] \in DOMAIN rules
      BY <2>1, <1>9, PairOfRules
    <3> QED
      BY <2>1, <3>1, <1>8 DEF ReviewInv, Gated
  <2>2. CASE pair \in against \X {id}
    BY <2>2, <1>4, <1>8
  <2> QED
    BY <2>1, <2>2, <1>10
<1>15. ReviewInv'
  BY <1>12, <1>13, <1>14 DEF ReviewInv
<1> QED
  BY <1>15, WritesKeeps, ReleaseUnchanged DEF CreateRule, IInv

\* A change of the status of rules that brings no rule of an open conflict in
\* force keeps the review gate.
LEMMA StatusKeeps ==
    ASSUME ReviewInv, rules' \in Seq(RuleType), DOMAIN rules' = DOMAIN rules,
           UNCHANGED <<conflicts, reviewed>>,
           \A i \in DOMAIN rules : rules'[i].body = rules[i].body,
           \A i \in DOMAIN rules : rules'[i].status = "active" =>
               rules[i].status = "active" \/ ~OpenConflict(i)
    PROVE  ReviewInv'
<1>1. conflicts \in [open : SUBSET Pairs, resolved : SUBSET Pairs] /\ reviewed \subseteq Pairs
  BY DEF ReviewInv, RulesOK
<1>2. Pairs' = Pairs
  BY DEF Pairs
<1>3. RulesOK'
  BY <1>1, <1>2 DEF RulesOK
<1>4. Registered'
  <2> SUFFICES ASSUME NEW pair \in reviewed,
                      <<rules'[pair[1]].body, rules'[pair[2]].body>> \in Clash
               PROVE  pair \in conflicts.open \cup conflicts.resolved
    BY DEF Registered
  <2>1. pair[1] \in DOMAIN rules /\ pair[2] \in DOMAIN rules
    BY <1>1, PairOfRules
  <2> QED
    BY <2>1 DEF ReviewInv, Registered
<1>5. Gated'
  <2> SUFFICES ASSUME NEW pair \in conflicts.open
               PROVE  rules'[pair[1]].status # "active" \/ rules'[pair[2]].status # "active"
    BY DEF Gated
  <2>1. pair[1] \in DOMAIN rules /\ pair[2] \in DOMAIN rules
    BY <1>1, PairOfRules
  <2>2. OpenConflict(pair[1]) /\ OpenConflict(pair[2])
    BY DEF OpenConflict
  <2> QED
    BY <2>1, <2>2 DEF ReviewInv, Gated
<1> QED
  BY <1>3, <1>4, <1>5 DEF ReviewInv

LEMMA ActivateKeeps ==
    ASSUME IInv, NEW i \in DOMAIN rules, ActivateRule(i)
    PROVE  IInv'
<1> ReviewInv /\ ExamplesOK /\ ReleaseInv
  BY DEF IInv
<1>1. rules \in Seq(RuleType)
  BY DEF ReviewInv, RulesOK
<1>2. \A j \in DOMAIN rules : rules[j] \in RuleType
  BY <1>1
<1>3. rules' = [j \in DOMAIN rules |->
                    IF j = i THEN [rules[j] EXCEPT !.status = "active"]
                    ELSE IF rules[j].key = rules[i].key /\ rules[j].status = "active"
                         THEN [rules[j] EXCEPT !.status = "archived"]
                         ELSE rules[j]]
  BY DEF ActivateRule
<1>4. ASSUME NEW j \in DOMAIN rules
      PROVE  /\ rules'[j] \in RuleType /\ rules'[j].body = rules[j].body
             /\ rules'[j].status = "active" => rules[j].status = "active" \/ j = i
  BY <1>2, <1>3 DEF RuleType, RuleStatus
<1>5. DOMAIN rules' = DOMAIN rules /\ rules' \in Seq(RuleType)
  <2>1. rules' \in [1..Len(rules) -> RuleType] /\ Len(rules) \in Nat /\ DOMAIN rules = 1..Len(rules)
    BY <1>1, <1>3, <1>4
  <2> QED
    BY <2>1
<1>6. ~OpenConflict(i) /\ UNCHANGED <<conflicts, reviewed>>
  BY DEF ActivateRule
<1>7. ReviewInv'
  BY <1>4, <1>5, <1>6, StatusKeeps
<1> QED
  BY <1>7, ExamplesUnchanged, ReleaseUnchanged DEF ActivateRule, IInv

LEMMA SetRuleStatusKeeps ==
    ASSUME IInv, NEW i \in DOMAIN rules, NEW status \in RuleStatus, SetRuleStatus(i, status)
    PROVE  IInv'
<1> ReviewInv /\ ExamplesOK /\ ReleaseInv
  BY DEF IInv
<1>1. rules \in Seq(RuleType)
  BY DEF ReviewInv, RulesOK
<1>2. \A j \in DOMAIN rules : rules[j] \in RuleType
  BY <1>1
<1>3. rules' = [rules EXCEPT ![i].status = status] /\ status # "active"
  BY DEF SetRuleStatus
<1>4. DOMAIN rules' = DOMAIN rules
  BY <1>3
<1>5. ASSUME NEW j \in DOMAIN rules
      PROVE  /\ rules'[j] \in RuleType /\ rules'[j].body = rules[j].body
             /\ rules'[j].status = "active" => rules[j].status = "active"
  <2>1. CASE j = i
    <3>1. rules'[j] = [rules[j] EXCEPT !.status = status]
      BY <1>3, <2>1
    <3> QED
      BY <1>2, <1>3, <3>1 DEF RuleType
  <2>2. CASE j # i
    BY <1>2, <1>3, <2>2
  <2> QED
    BY <2>1, <2>2
<1>6. rules' \in Seq(RuleType)
  <2>1. rules' \in [1..Len(rules) -> RuleType] /\ Len(rules) \in Nat
    BY <1>1, <1>3, <1>4, <1>5
  <2> QED
    BY <2>1
<1>7. ReviewInv'
  BY <1>4, <1>5, <1>6, StatusKeeps DEF SetRuleStatus
<1> QED
  BY <1>7, ExamplesUnchanged, ReleaseUnchanged DEF SetRuleStatus, IInv

LEMMA ResolveKeeps ==
    ASSUME IInv, NEW pair \in conflicts.open, ResolveConflict(pair)
    PROVE  IInv'
<1> ReviewInv /\ ExamplesOK /\ ReleaseInv
  BY DEF IInv
<1>1. conflicts \in [open : SUBSET Pairs, resolved : SUBSET Pairs] /\ reviewed \subseteq Pairs
  BY DEF ReviewInv, RulesOK
<1>2. /\ conflicts' = [open |-> conflicts.open \ {pair},
                       resolved |-> conflicts.resolved \cup {pair}]
      /\ UNCHANGED <<rules, reviewed>>
  BY DEF ResolveConflict
<1>3. Pairs' = Pairs
  BY <1>2 DEF Pairs
<1>4. RulesOK'
  BY <1>1, <1>2, <1>3 DEF RulesOK, ReviewInv
<1>5. Registered'
  BY <1>1, <1>2 DEF ReviewInv, Registered
<1>6. Gated'
  BY <1>1, <1>2 DEF ReviewInv, Gated
<1> QED
  BY <1>4, <1>5, <1>6, ExamplesUnchanged, ReleaseUnchanged DEF ResolveConflict, IInv, ReviewInv

-----------------------------------------------------------------------------
(* Examples.                                                               *)

LEMMA AddedIsRows ==
    ASSUME examples \in Rows, NEW origin \in Origins, NEW status \in Status
    PROVE  Added(examples, origin, status) \in Rows
<1>1. \A o \in Origins : examples[o] \in [Status -> Nat]
  BY DEF Rows
<1>2. [examples[origin] EXCEPT ![status] = @ + 1] \in [Status -> Nat]
  BY <1>1
<1> QED
  BY <1>1, <1>2 DEF Added, Rows

LEMMA CreateExampleKeeps ==
    ASSUME IInv, NEW status \in Status, CreateExample(status)
    PROVE  IInv'
<1> ReviewInv /\ ExamplesOK /\ ReleaseInv
  BY DEF IInv
<1>1. examples' \in Rows
  BY AddedIsRows DEF CreateExample, ExamplesOK, Origins
<1>2. ExamplesOK'
  BY <1>1, KnowledgeAssumption DEF ExamplesOK, CreateExample, Writes
<1> QED
  BY <1>2, ReviewUnchanged, ReleaseUnchanged DEF CreateExample, IInv

LEMMA SetExampleKeeps ==
    ASSUME IInv, NEW origin \in Origins, NEW from \in Status, NEW to \in Status,
           SetExampleStatus(origin, from, to)
    PROVE  IInv'
<1> ReviewInv /\ ExamplesOK /\ ReleaseInv
  BY DEF IInv
<1>1. examples[origin] \in [Status -> Nat]
  BY DEF ExamplesOK, Rows
<1>2. examples[origin][from] - 1 \in Nat /\ examples[origin][to] + 1 \in Nat /\ from # to
  BY <1>1 DEF SetExampleStatus
<1>3. [examples[origin] EXCEPT ![from] = @ - 1, ![to] = @ + 1] \in [Status -> Nat]
  BY <1>1, <1>2
<1>4. examples' \in Rows
  <2>1. examples' = [examples EXCEPT ![origin][from] = @ - 1, ![origin][to] = @ + 1]
    BY DEF SetExampleStatus, Moved
  <2>2. \A o \in Origins : examples[o] \in [Status -> Nat]
    BY DEF ExamplesOK, Rows
  <2>3. \A o \in Origins : examples'[o] =
            IF o = origin THEN [examples[o] EXCEPT ![from] = @ - 1, ![to] = @ + 1]
                          ELSE examples[o]
    BY <2>1, <2>2, <1>2 DEF ExamplesOK, Rows
  <2>4. \A o \in Origins : examples'[o] \in [Status -> Nat]
    BY <2>2, <2>3, <1>3
  <2>5. examples' \in [Origins -> [Status -> Nat]]
    BY <2>1, <2>4 DEF ExamplesOK, Rows
  <2> QED
    BY <2>5 DEF Rows
<1>5. ExamplesOK'
  BY <1>4 DEF ExamplesOK, SetExampleStatus
<1> QED
  BY <1>5, ReviewUnchanged, ReleaseUnchanged DEF SetExampleStatus, IInv

-----------------------------------------------------------------------------
(* Releases.                                                               *)

LEMMA ShelvedKeeps ==
    ASSUME ReleaseInv, NEW r \in Releases, NEW mode \in {"shadow", "active"},
           release' = Shelved(r, mode)
    PROVE  ReleaseInv'
<1>1. release \in [Releases -> ReleaseStatus]
  BY DEF ReleaseInv, ReleaseOK
<1>2. \A s \in Releases : release'[s] = IF s = r THEN mode
                             ELSE IF release[s] = mode THEN "archived" ELSE release[s]
  BY DEF Shelved
<1>3. release' \in [Releases -> ReleaseStatus]
  BY <1>1 DEF Shelved, ReleaseStatus
<1>4. OneHeld'
  BY <1>2 DEF OneHeld, ReleaseInv
<1> QED
  BY <1>3, <1>4 DEF ReleaseInv, ReleaseOK

LEMMA IngestAgainKeeps ==
    ASSUME IInv, NEW r \in Releases, NEW mode \in {"shadow", "active"}, IngestAgain(r, mode)
    PROVE  IInv'
<1> ReviewInv /\ ExamplesOK /\ ReleaseInv
  BY DEF IInv
<1>1. ReleaseInv'
  BY ShelvedKeeps, ReleaseUnchanged DEF IngestAgain
<1> QED
  BY <1>1, ReviewUnchanged, ExamplesUnchanged DEF IngestAgain, IInv

LEMMA IngestKeeps ==
    ASSUME IInv, NEW r \in Releases, NEW mode \in {"shadow", "active"}, Ingest(r, mode)
    PROVE  IInv'
<1> ReviewInv /\ ExamplesOK /\ ReleaseInv
  BY DEF IInv
<1> DEFINE new == [key |-> RuleOf[r][1], body |-> RuleOf[r][2], origin |-> r,
                   status |-> "active"]
<1>1. ReleaseInv'
  BY ShelvedKeeps DEF Ingest
<1>2. examples' \in Rows
  BY AddedIsRows DEF Ingest, ExamplesOK, Origins, Status
<1>3. ExamplesOK'
  BY <1>2 DEF ExamplesOK, Ingest
<1>4. RuleOf[r] \in Texts
  BY KnowledgeAssumption
<1>5. new \in RuleType
  BY <1>4, TextParts DEF RuleType, RuleStatus, Origins
<1>6. rules' = Append(rules, new) /\ UNCHANGED <<conflicts, reviewed>>
  BY DEF Ingest
<1> HIDE DEF new
<1>7. /\ rules' \in Seq(RuleType)
      /\ \A i \in DOMAIN rules : rules'[i] = rules[i]
      /\ Pairs \subseteq Pairs'
  BY <1>5, <1>6, AppendKeeps
<1>8. conflicts \in [open : SUBSET Pairs, resolved : SUBSET Pairs] /\ reviewed \subseteq Pairs
  BY DEF ReviewInv, RulesOK
<1>9. RulesOK'
  BY <1>6, <1>7, <1>8 DEF RulesOK
<1>10. Registered'
  <2> SUFFICES ASSUME NEW pair \in reviewed,
                      <<rules'[pair[1]].body, rules'[pair[2]].body>> \in Clash
               PROVE  pair \in conflicts.open \cup conflicts.resolved
    BY <1>6 DEF Registered
  <2>1. pair[1] \in DOMAIN rules /\ pair[2] \in DOMAIN rules
    BY <1>8, PairOfRules
  <2> QED
    BY <2>1, <1>7 DEF ReviewInv, Registered
<1>11. Gated'
  <2> SUFFICES ASSUME NEW pair \in conflicts.open
               PROVE  rules'[pair[1]].status # "active" \/ rules'[pair[2]].status # "active"
    BY <1>6 DEF Gated
  <2>1. pair[1] \in DOMAIN rules /\ pair[2] \in DOMAIN rules
    BY <1>8, PairOfRules
  <2> QED
    BY <2>1, <1>7 DEF ReviewInv, Gated
<1> QED
  BY <1>1, <1>3, <1>9, <1>10, <1>11 DEF IInv, ReviewInv

-----------------------------------------------------------------------------
LEMMA NextKeeps ==
    ASSUME IInv, [Next]_vars
    PROVE  IInv'
<1>1. CASE UNCHANGED vars
  BY <1>1, ReviewUnchanged, ExamplesUnchanged, ReleaseUnchanged DEF vars, IInv
<1>2. CASE Next
  BY <1>2, CreateRuleKeeps, ActivateKeeps, SetRuleStatusKeeps, ResolveKeeps, CreateExampleKeeps,
     SetExampleKeeps, IngestAgainKeeps, IngestKeeps DEF Next
<1> QED
  BY <1>1, <1>2

LEMMA Invariance == Spec => []IInv
BY Initially, NextKeeps, PTL DEF Spec

\* Every table keeps its type, whatever the operator writes and ingests
\* (intelligence_v3/repository.py, corpus.py).
THEOREM KnowledgeTypeCorrect == Spec => []TypeOK
<1>1. IInv => TypeOK
  BY DEF IInv, ReviewInv, RulesOK, ExamplesOK, ReleaseInv, ReleaseOK, ReleaseStatus, TypeOK
<1> QED
  BY <1>1, Invariance, PTL

\* For any texts and any contradictions between them, two rules that were
\* compared are in force together only after their conflict was resolved
\* (create_rule, set_rule_status).
THEOREM GateHolds == Spec => []ContradictionsReviewed
<1>1. IInv => ContradictionsReviewed
  BY DEF IInv, ReviewInv, Registered, Gated, ContradictionsReviewed
<1> QED
  BY <1>1, Invariance, PTL

\* A live retrieval reads one release at most (_corpus_scope, CorpusIngestor.ingest).
THEOREM OneReleaseIsRead == Spec => []OneLiveRelease
<1>1. IInv => OneLiveRelease
  <2> SUFFICES ASSUME IInv PROVE OneLiveRelease
    OBVIOUS
  <2>1. ASSUME NEW o \in Releases, InScope(o)
        PROVE  release[o] = "active"
    BY <2>1, KnowledgeAssumption DEF InScope
  <2>2. \A o, p \in Releases : InScope(o) /\ InScope(p) => o = p
    BY <2>1 DEF IInv, ReleaseInv, OneHeld
  <2>3. \A i, j \in LiveRules : {rules[i].origin, rules[j].origin} \subseteq Releases
                                  => rules[i].origin = rules[j].origin
    BY <2>2 DEF LiveRules
  <2>4. \A o, p \in LiveExamples \cap Releases : o = p
    BY <2>2 DEF LiveExamples
  <2> QED
    BY <2>3, <2>4 DEF OneLiveRelease
<1> QED
  BY <1>1, Invariance, PTL

-----------------------------------------------------------------------------
(* Outreach: types.                                                        *)

RowRecord == [kind : Kinds \cup {"none"}, age : 0..(Day + 1),
              status : {"none", "pending", "processing", "sending"},
              current : BOOLEAN, blind : BOOLEAN]
PollRecord == [pc : {"idle", "look", "sent", "queued"}, kind : Kinds \cup {"none"},
               left : SUBSET Fans, fan : SUBSET Fans, hour : Nat, day : Nat, own : Nat,
               age : 0..Hour, raced : BOOLEAN]
LastRecord == [by : {"none", "fan", "creator"}, age : 0..Oldest]

\* The parts of OutreachTypeOK that other parts of the invariant lean on.
RowsTyped ==
    row \in [Fans -> RowRecord] /\ \A f \in Fans : row[f].status = "none" \/ row[f].kind \in Kinds
PollTyped == poller \in PollRecord /\ (poller.pc = "idle" \/ poller.kind \in Kinds)
SentTyped == sent \in [Fans -> Seq(Message)]
LastTyped == last \in [Fans -> LastRecord]
FlagsTyped ==
    /\ unread \subseteq Fans /\ optedOut \subseteq Fans /\ followed \subseteq Fans
    /\ unsaved \subseteq Fans /\ hidden \subseteq Fans
    /\ presence \in [Fans -> {"unknown", "offline", "online"}]
    /\ enabled \in [Kinds -> BOOLEAN] /\ polled \in [Kinds -> BOOLEAN]
    /\ events \in 0..MaxEvents

LEMMA OutTypes ==
    OutreachTypeOK <=> RowsTyped /\ PollTyped /\ SentTyped /\ LastTyped /\ FlagsTyped
BY DEF OutreachTypeOK, RowsTyped, PollTyped, SentTyped, LastTyped, FlagsTyped, RowRecord, PollRecord,
       LastRecord

\* Keep and Oldest are as large as what they are compared with.
LEMMA KeepLarge ==
    /\ Keep \in Nat /\ Keep >= Day /\ Keep \in Nat \ {0}
    /\ \A k \in Kinds : Cooldown[k] \in Nat \ {0} /\ Keep >= Cooldown[k]
    /\ Oldest \in Nat
<1> DEFINE a == Cooldown["online"]
           b == Cooldown["stalled"]
<1>1. Day \in Nat /\ a \in Nat \ {0} /\ b \in Nat \ {0} /\ StalledAfter \in Nat
      BY WindowsAssumption DEF Kinds
<1>2. Keep = CHOOSE n \in {Day, a, b} : n >= Day /\ n >= a /\ n >= b
      BY DEF Keep
<1> HIDE DEF a, b
<1>3. \E n \in {Day, a, b} : n >= Day /\ n >= a /\ n >= b
      BY <1>1
<1>4. Keep \in {Day, a, b} /\ Keep >= Day /\ Keep >= a /\ Keep >= b
      BY <1>2, <1>3
<1>5. Oldest \in Nat
      BY <1>1, <1>4 DEF Oldest
<1> QED
    BY <1>1, <1>4, <1>5 DEF a, b, Kinds

-----------------------------------------------------------------------------
(* What the queries count.                                                 *)

\* The proactive messages, by fan and number.
SentPairs == {p \in Fans \X (Nat \ {0}) : p[2] <= Len(sent[p[1]])}
SentFinite == IsFiniteSet(SentPairs)

LEMMA SentOf ==
    ASSUME SentTyped, NEW f \in Fans
    PROVE  /\ sent[f] \in Seq(Message) /\ Len(sent[f]) \in Nat
           /\ DOMAIN sent[f] = 1..Len(sent[f])
           /\ \A i \in DOMAIN sent[f] : /\ i \in Nat \ {0} /\ sent[f][i] \in Message
                                        /\ <<f, i>> \in SentPairs
BY DEF SentTyped, SentPairs

LEMMA SentWithinNat ==
    ASSUME SentTyped, SentFinite, NEW F \in SUBSET Fans, NEW w
    PROVE  SentWithin(F, w) \in Nat
<1> DEFINE S == UNION {{<<f, i>> : i \in {j \in DOMAIN sent[f] : sent[f][j].age <= w}} : f \in F}
<1>1. \A p \in S : p \in SentPairs
      BY SentOf
<1>2. S \in SUBSET SentPairs
      BY <1>1
<1> HIDE DEF S
<1>3. Cardinality(S) \in Nat
      BY <1>2, FS_Subset, FS_CardinalityType DEF SentFinite
<1> QED
    BY <1>3 DEF S, SentWithin

\* A poll that goes on with another fan, or ends.
LEMMA NextFanTyped ==
    ASSUME PollTyped, NEW f \in Fans, poller.pc # "idle"
    PROVE  /\ NextFan(f) \in PollRecord
           /\ NextFan(f).pc \in {"idle", "look"}
           /\ NextFan(f).pc = "idle" \/ NextFan(f).kind \in Kinds
<1>1. 0 \in 0..Hour
      BY WindowsAssumption
<1>2. CASE poller.left = {f}
      BY <1>1, <1>2 DEF NextFan, Resting, PollRecord
<1>3. CASE poller.left # {f}
  <2>1. NextFan(f) = [pc |-> "look", kind |-> poller.kind, left |-> poller.left \ {f},
                          fan |-> {}, hour |-> 0, day |-> 0, own |-> 0, age |-> 0, raced |-> FALSE]
        BY <1>3 DEF NextFan, Resting
  <2>2. poller.kind \in Kinds /\ poller.left \ {f} \in SUBSET Fans /\ {} \in SUBSET Fans
        BY DEF PollTyped, PollRecord
  <2> QED
      BY <1>1, <2>1, <2>2 DEF PollRecord
<1> QED
    BY <1>2, <1>3

\* A poll at rest has no fan and no count.
LEMMA RestingTyped ==
    Resting \in PollRecord /\ Resting.pc = "idle"
BY WindowsAssumption DEF Resting, PollRecord

LEMMA PollMoves ==
    ASSUME PollTyped, SentTyped, SentFinite, PollStep
    PROVE  PollTyped'
<1>1. poller \in PollRecord /\ (poller.pc # "idle" => poller.kind \in Kinds) /\ Hour \in Nat
      /\ OnlineWindow \in 0..Hour
      BY WindowsAssumption DEF PollTyped
<1>2. ASSUME NEW g \in Fans, NEW age \in 0..(OnlineWindow + 1), Observe(g, age)
      PROVE  PollTyped'
  <2>1. poller.pc = "look"
        BY <1>2 DEF Observe
  <2>2. CASE poller' = NextFan(g)
        BY <2>1, <2>2, NextFanTyped DEF PollTyped
  <2>3. CASE poller' # NextFan(g)
    <3>1. poller' = [poller EXCEPT !.pc = "sent", !.fan = {g}, !.age = age] /\ age <= OnlineWindow
          BY <1>2, <2>3 DEF Observe
    <3>2. age \in 0..Hour /\ {g} \in SUBSET Fans
          BY <1>1, <3>1
    <3>3. poller' \in PollRecord
          BY <1>1, <3>1, <3>2 DEF PollRecord
    <3>4. poller'.kind = poller.kind
          BY <1>1, <3>1 DEF PollRecord
    <3> QED
        BY <1>1, <2>1, <3>3, <3>4 DEF PollTyped
  <2> QED
      BY <2>2, <2>3
<1>3. ASSUME NEW g \in Fans, Consider(g)
      PROVE  PollTyped'
  <2>1. poller.pc = "look"
        BY <1>3 DEF Consider
  <2>2. CASE poller' = NextFan(g)
        BY <2>1, <2>2, NextFanTyped DEF PollTyped
  <2>3. CASE poller' = [poller EXCEPT !.pc = "sent", !.fan = {g}]
        BY <1>1, <2>1, <2>3 DEF PollTyped, PollRecord
  <2> QED
      BY <1>3, <2>2, <2>3 DEF Consider
<1>4. ASSUME NEW g \in Fans, CountSent(g)
      PROVE  PollTyped'
  <2>1. poller.pc = "sent"
        BY <1>4 DEF CountSent
  <2>2. CASE poller' = NextFan(g)
        BY <2>1, <2>2, NextFanTyped DEF PollTyped
  <2>3. CASE poller' # NextFan(g)
    <3>1. PICK hour \in Nat, day \in Nat, own \in Nat :
             poller' = [poller EXCEPT !.pc = "queued", !.hour = hour, !.day = day, !.own = own]
          BY <1>4, <2>3, SentWithinNat DEF CountSent
    <3> QED
        BY <1>1, <2>1, <3>1 DEF PollTyped, PollRecord
  <2> QED
      BY <2>2, <2>3
<1>5. ASSUME NEW g \in Fans, CountQueued(g)
      PROVE  PollTyped'
      BY <1>5, NextFanTyped DEF CountQueued, PollTyped
<1> QED
    BY <1>2, <1>3, <1>4, <1>5 DEF PollStep

-----------------------------------------------------------------------------
(* The messages a fan was sent.                                            *)

\* The oldest come first.
Ordered(s) == \A i, j \in DOMAIN s : i < j => s[i].age >= s[j].age
SentKept == SentTyped /\ SentFinite /\ \A f \in Fans : Ordered(sent[f])

\* What KeepLarge says of one message.
LEMMA MessageTyped ==
    ASSUME NEW m \in Message
    PROVE  m.age \in Nat /\ m.age <= Keep /\ m.apart \in Nat \ {0}
<1>1. m.age \in 0..Keep /\ (m.apart = 1 \/ \E k \in Kinds : m.apart = Cooldown[k])
      BY DEF Message
<1> QED
    BY <1>1, KeepLarge

\* A new message is the last one of its fan.
Appended(f, m) ==
    /\ SentTyped'
    /\ \A g \in Fans \ {f} : sent'[g] = sent[g]
    /\ Len(sent'[f]) = Len(sent[f]) + 1 /\ Len(sent[f]) \in Nat
    /\ DOMAIN sent'[f] = 1..(Len(sent[f]) + 1) /\ DOMAIN sent[f] = 1..Len(sent[f])
    /\ \A i \in 1..Len(sent[f]) : sent'[f][i] = sent[f][i]
    /\ sent'[f][Len(sent[f]) + 1] = m

LEMMA AppendedIs ==
    ASSUME SentTyped, NEW f \in Fans, NEW m \in Message,
           sent' = [sent EXCEPT ![f] = Append(@, m)]
    PROVE  Appended(f, m)
<1>1. sent[f] \in Seq(Message) /\ sent'[f] = Append(sent[f], m)
      BY DEF SentTyped
<1>2. sent'[f] \in Seq(Message)
      BY <1>1
<1>3. SentTyped'
      BY <1>2 DEF SentTyped
<1> QED
    BY <1>1, <1>2, <1>3 DEF SentTyped, Appended

LEMMA SendKeeps ==
    ASSUME SentKept, NEW f \in Fans, NEW m \in Message, m.age = 0,
           sent' = [sent EXCEPT ![f] = Append(@, m)]
    PROVE  SentKept'
<1> DEFINE n == Len(sent[f]) + 1
<1>0. Appended(f, m)
      BY AppendedIs DEF SentKept
<1>1. SentTyped' /\ n \in Nat \ {0}
      BY <1>0 DEF Appended
<1>2. SentPairs' = SentPairs \cup {<<f, n>>}
  <2>1. \A p \in Fans \X (Nat \ {0}) : p \in SentPairs' <=> p \in SentPairs \/ p = <<f, n>>
    <3>1. SUFFICES ASSUME NEW g \in Fans, NEW i \in Nat \ {0}
                   PROVE  i <= Len(sent'[g]) <=> i <= Len(sent[g]) \/ (g = f /\ i = n)
          BY DEF SentPairs
    <3>2. Len(sent[g]) \in Nat
          BY SentOf DEF SentKept
    <3> QED
        BY <1>0, <3>2 DEF Appended
  <2> QED
      BY <1>1, <2>1 DEF SentPairs
<1> HIDE DEF n
<1>3. SentFinite'
      BY <1>2, FS_AddElement DEF SentKept, SentFinite
<1>4. \A g \in Fans : Ordered(sent'[g])
  <2>1. ASSUME NEW g \in Fans \ {f} PROVE Ordered(sent'[g])
        BY <1>0, <2>1 DEF SentKept, Appended
  <2>2. ASSUME NEW i \in DOMAIN sent'[f], NEW j \in DOMAIN sent'[f], i < j
        PROVE  sent'[f][i].age >= sent'[f][j].age
    <3>1. i \in 1..Len(sent[f]) /\ Len(sent[f]) \in Nat /\ sent'[f][i] = sent[f][i]
          /\ sent[f][i].age \in Nat
      <4>1. i \in 1..Len(sent[f]) /\ Len(sent[f]) \in Nat
            BY <1>0, <2>2 DEF Appended
      <4>2. sent[f][i] \in Message
            BY <4>1, SentOf DEF SentKept
      <4> QED
          BY <1>0, <4>1, <4>2, MessageTyped DEF Appended
    <3>2. CASE j \in 1..Len(sent[f])
          BY <1>0, <2>2, <3>1, <3>2 DEF SentKept, Ordered, Appended
    <3>3. CASE j = Len(sent[f]) + 1
          BY <1>0, <3>1, <3>3 DEF Appended
    <3> QED
        BY <1>0, <2>2, <3>1, <3>2, <3>3 DEF Appended
  <2> QED
      BY <2>1, <2>2 DEF Ordered
<1> QED
    BY <1>1, <1>3, <1>4 DEF SentKept

\* Forget drops the first messages, and those are the ones it means.
Drops(s, n) ==
    /\ n \in 0..Len(s)
    /\ Forget(s) = [i \in 1..(Len(s) - n) |-> [s[i + n] EXCEPT !.age = @ + 1]]
    /\ \A i \in (n + 1)..Len(s) : s[i].age < Keep

LEMMA ForgetIs ==
    ASSUME NEW s \in Seq(Message), Ordered(s)
    PROVE  \E n \in Nat : Drops(s, n)
<1> DEFINE old == {i \in DOMAIN s : s[i].age >= Keep}
           gone == Cardinality(old)
<1>1. Len(s) \in Nat /\ DOMAIN s = 1..Len(s) /\ Keep \in Nat
      /\ \A i \in DOMAIN s : s[i].age \in Nat
      BY KeepLarge, MessageTyped
<1>2. IsFiniteSet(1..Len(s)) /\ Cardinality(1..Len(s)) = Len(s)
      BY <1>1, FS_Interval
<1>3. old \in SUBSET (1..Len(s))
      BY <1>1
<1>4. Forget(s) = [i \in 1..(Len(s) - gone) |-> [s[i + gone] EXCEPT !.age = @ + 1]]
      BY DEF Forget
<1>5. \A i \in DOMAIN s : i \in old <=> s[i].age >= Keep
      OBVIOUS
<1> HIDE DEF old
<1>6. IsFiniteSet(old) /\ gone \in Nat /\ gone <= Len(s)
      BY <1>2, <1>3, FS_Subset, FS_CardinalityType
<1>7. ASSUME NEW i \in (gone + 1)..Len(s), s[i].age >= Keep
      PROVE  FALSE
  <2>1. i \in 1..Len(s)
        BY <1>1, <1>6
  <2>2. \A k \in 1..i : k \in old
    <3>1. SUFFICES ASSUME NEW k \in 1..i PROVE k \in old
          OBVIOUS
    <3>2. k \in DOMAIN s /\ i \in DOMAIN s /\ (k = i \/ k < i)
          BY <1>1, <2>1
    <3>3. s[k].age >= s[i].age
          BY <1>1, <3>2 DEF Ordered
    <3> QED
        BY <1>1, <1>5, <1>7, <3>2, <3>3
  <2>3. Cardinality(1..i) = i /\ (1..i) \in SUBSET old
        BY <2>1, <2>2, FS_Interval
  <2> QED
      BY <1>6, <1>7, <2>1, <2>3, FS_Subset
<1> HIDE DEF gone
<1>8. \A i \in (gone + 1)..Len(s) : s[i].age < Keep
      BY <1>1, <1>6, <1>7
<1>9. gone \in 0..Len(s)
      BY <1>1, <1>6
<1> QED
    BY <1>4, <1>6, <1>8, <1>9 DEF Drops

\* A tick: what is left is what was there, one older and with a smaller number.
Forgotten(gone) ==
    \A f \in Fans :
        /\ gone[f] \in 0..Len(sent[f])
        /\ DOMAIN sent'[f] = 1..(Len(sent[f]) - gone[f])
        /\ Len(sent'[f]) = Len(sent[f]) - gone[f]
        /\ \A i \in DOMAIN sent'[f] :
              /\ i + gone[f] \in DOMAIN sent[f]
              /\ sent'[f][i] = [sent[f][i + gone[f]] EXCEPT !.age = @ + 1]
              /\ sent[f][i + gone[f]].age < Keep

LEMMA ForgottenSome ==
    ASSUME SentKept, sent' = [f \in Fans |-> Forget(sent[f])]
    PROVE  \E gone \in [Fans -> Nat] : Forgotten(gone)
<1> DEFINE gone == [f \in Fans |-> CHOOSE n \in Nat : Drops(sent[f], n)]
<1>1. ASSUME NEW f \in Fans
      PROVE  gone[f] \in Nat /\ Drops(sent[f], gone[f])
  <2>1. \E n \in Nat : Drops(sent[f], n)
        BY ForgetIs, SentOf DEF SentKept
  <2> QED
      BY <2>1
<1>2. gone \in [Fans -> Nat]
  <2>1. \A f \in Fans : (CHOOSE n \in Nat : Drops(sent[f], n)) \in Nat
        BY <1>1
  <2> QED
      BY <2>1
<1> HIDE DEF gone
<1>3. ASSUME NEW f \in Fans
      PROVE  /\ gone[f] \in 0..Len(sent[f])
             /\ DOMAIN sent'[f] = 1..(Len(sent[f]) - gone[f])
             /\ Len(sent'[f]) = Len(sent[f]) - gone[f]
             /\ \A i \in DOMAIN sent'[f] :
                   /\ i + gone[f] \in DOMAIN sent[f]
                   /\ sent'[f][i] = [sent[f][i + gone[f]] EXCEPT !.age = @ + 1]
                   /\ sent[f][i + gone[f]].age < Keep
  <2>1. Len(sent[f]) \in Nat /\ DOMAIN sent[f] = 1..Len(sent[f])
        BY SentOf DEF SentKept
  <2>2. PICK n \in Nat : n = gone[f] /\ Drops(sent[f], n)
        BY <1>1
  <2>3. n \in 0..Len(sent[f])
        /\ sent'[f] = [i \in 1..(Len(sent[f]) - n) |-> [sent[f][i + n] EXCEPT !.age = @ + 1]]
        /\ \A i \in (n + 1)..Len(sent[f]) : sent[f][i].age < Keep
        BY <2>2 DEF Drops
  <2>4. DOMAIN sent'[f] = 1..(Len(sent[f]) - n) /\ Len(sent[f]) - n \in Nat
        BY <2>1, <2>3
  <2>5. Len(sent'[f]) = Len(sent[f]) - n
        BY <2>3, <2>4
  <2>6. ASSUME NEW i \in DOMAIN sent'[f]
        PROVE  /\ i + n \in DOMAIN sent[f]
               /\ sent'[f][i] = [sent[f][i + n] EXCEPT !.age = @ + 1]
               /\ sent[f][i + n].age < Keep
    <3>1. i \in 1..(Len(sent[f]) - n)
          BY <2>4
    <3>2. i + n \in 1..Len(sent[f]) /\ i + n \in (n + 1)..Len(sent[f])
          BY <2>1, <2>2, <2>3, <3>1
    <3> QED
        BY <2>1, <2>3, <3>1, <3>2
  <2> QED
      BY <2>2, <2>3, <2>4, <2>5, <2>6
<1> QED
    BY <1>2, <1>3 DEF Forgotten

LEMMA OlderMessage ==
    ASSUME NEW m \in Message, m.age < Keep
    PROVE  /\ [m EXCEPT !.age = @ + 1] \in Message
           /\ [m EXCEPT !.age = @ + 1].age = m.age + 1
           /\ [m EXCEPT !.age = @ + 1].apart = m.apart
           /\ [m EXCEPT !.age = @ + 1].slip = m.slip
<1>1. m.age + 1 \in 0..Keep
      BY KeepLarge, MessageTyped
<1> QED
    BY <1>1 DEF Message

\* What a tick leaves of a message.
LEMMA ForgottenAt ==
    ASSUME SentTyped, NEW gone \in [Fans -> Nat], Forgotten(gone),
           NEW f \in Fans, NEW i \in DOMAIN sent'[f]
    PROVE  /\ i \in Nat \ {0} /\ i + gone[f] \in DOMAIN sent[f] /\ gone[f] \in Nat
           /\ sent[f][i + gone[f]] \in Message
           /\ sent'[f][i] \in Message
           /\ sent'[f][i].age = sent[f][i + gone[f]].age + 1
           /\ sent'[f][i].apart = sent[f][i + gone[f]].apart
           /\ sent'[f][i].slip = sent[f][i + gone[f]].slip
<1>1. /\ i + gone[f] \in DOMAIN sent[f] /\ gone[f] \in Nat
      /\ sent'[f][i] = [sent[f][i + gone[f]] EXCEPT !.age = @ + 1]
      /\ sent[f][i + gone[f]].age < Keep
      BY DEF Forgotten
<1>2. i \in Nat \ {0}
  <2>1. DOMAIN sent'[f] = 1..(Len(sent[f]) - gone[f]) /\ Len(sent[f]) \in Nat
        BY SentOf DEF Forgotten
  <2> QED
      BY <1>1, <2>1
<1>3. sent[f][i + gone[f]] \in Message
      BY <1>1, SentOf
<1> QED
    BY <1>1, <1>2, <1>3, OlderMessage

LEMMA ForgetKeeps ==
    ASSUME SentKept, sent' = [f \in Fans |-> Forget(sent[f])]
    PROVE  SentKept'
<1>1. PICK gone \in [Fans -> Nat] : Forgotten(gone)
      BY ForgottenSome
<1>2. SentTyped
      BY DEF SentKept
<1>3. ASSUME NEW f \in Fans PROVE sent'[f] \in Seq(Message)
  <2>1. PICK n \in Nat : DOMAIN sent'[f] = 1..n
        BY <1>1, <1>2, SentOf DEF Forgotten
  <2>2. \E k \in Nat : sent'[f] = [i \in 1..k |-> sent'[f][i]]
    <3>1. PICK m \in Nat : sent'[f] = [i \in 1..(Len(sent[f]) - m) |-> [sent[f][i + m] EXCEPT !.age = @ + 1]]
          BY ZenonT(30), ForgetIs, SentOf DEF SentKept, Drops
    <3> QED
        BY <2>1, <3>1
  <2>3. \A i \in 1..n : sent'[f][i] \in Message
        BY <1>1, <1>2, <2>1, ForgottenAt
  <2> QED
      BY <2>1, <2>2, <2>3
<1>4. SentTyped'
      BY <1>3 DEF SentTyped
<1>5. SentFinite'
  <2>1. SentPairs' \in SUBSET SentPairs
    <3>1. ASSUME NEW f \in Fans, NEW i \in Nat \ {0}, i <= Len(sent'[f])
          PROVE  i <= Len(sent[f])
      <4>1. Len(sent[f]) \in Nat /\ gone[f] \in Nat /\ Len(sent'[f]) = Len(sent[f]) - gone[f]
            BY <1>1, <1>2, SentOf DEF Forgotten
      <4> QED
          BY <3>1, <4>1
    <3> QED
        BY <3>1 DEF SentPairs
  <2> QED
      BY <2>1, FS_Subset DEF SentKept, SentFinite
<1>6. ASSUME NEW f \in Fans PROVE Ordered(sent'[f])
  <2>1. SUFFICES ASSUME NEW i \in DOMAIN sent'[f], NEW j \in DOMAIN sent'[f], i < j
                 PROVE  sent'[f][i].age >= sent'[f][j].age
        BY DEF Ordered
  <2>2. /\ i \in Nat /\ j \in Nat /\ gone[f] \in Nat
        /\ i + gone[f] \in DOMAIN sent[f] /\ j + gone[f] \in DOMAIN sent[f]
        /\ sent'[f][i].age = sent[f][i + gone[f]].age + 1
        /\ sent'[f][j].age = sent[f][j + gone[f]].age + 1
        /\ sent[f][i + gone[f]] \in Message /\ sent[f][j + gone[f]] \in Message
        BY <1>1, <1>2, ForgottenAt
  <2>3. i + gone[f] < j + gone[f]
        BY <2>1, <2>2
  <2>4. sent[f][i + gone[f]].age >= sent[f][j + gone[f]].age
        BY <2>2, <2>3 DEF SentKept, Ordered
  <2> QED
      BY <2>2, <2>4, MessageTyped
<1> QED
    BY <1>4, <1>5, <1>6 DEF SentKept

-----------------------------------------------------------------------------
(* Every step keeps the types.                                             *)

Typed == RowsTyped /\ PollTyped /\ SentKept /\ LastTyped /\ FlagsTyped

\* The row of one fan becomes r.
LEMMA RowMoves ==
    ASSUME RowsTyped, NEW f \in Fans, NEW r \in RowRecord,
           r.status = "none" \/ r.kind \in Kinds,
           row' = [row EXCEPT ![f] = r]
    PROVE  RowsTyped'
BY DEF RowsTyped

LEMMA RowOf ==
    ASSUME RowsTyped, NEW f \in Fans
    PROVE  /\ row[f] \in RowRecord /\ (row[f].status = "none" \/ row[f].kind \in Kinds)
           /\ NoRow \in RowRecord /\ NoRow.status = "none"
<1>1. 0 \in 0..(Day + 1)
      BY WindowsAssumption
<1> QED
    BY <1>1 DEF RowsTyped, RowRecord, NoRow

\* A row changes its status alone, or is over.
LEMMA RowSteps ==
    ASSUME RowsTyped, NEW f \in Fans, row[f].status # "none",
           NEW s \in {"pending", "processing", "sending"},
           row' \in {row, [row EXCEPT ![f] = NoRow], [row EXCEPT ![f].status = s]}
    PROVE  RowsTyped'
<1>1. CASE row' = row
      BY <1>1 DEF RowsTyped
<1>2. CASE row' = [row EXCEPT ![f] = NoRow]
      BY <1>2, RowOf, RowMoves
<1>3. CASE row' = [row EXCEPT ![f].status = s]
  <2> DEFINE r == [row[f] EXCEPT !.status = s]
  <2>1. r \in RowRecord /\ (r.status = "none" \/ r.kind \in Kinds)
        BY RowOf DEF RowRecord
  <2>2. row' = [row EXCEPT ![f] = r]
        BY <1>3
  <2> HIDE DEF r
  <2> QED
      BY <2>1, <2>2, RowMoves
<1> QED
    BY <1>1, <1>2, <1>3

LEMMA TypesStay ==
    ASSUME Typed
    PROVE  /\ row' = row => RowsTyped'
           /\ poller' = poller => PollTyped'
           /\ sent' = sent => SentKept'
           /\ last' = last => LastTyped'
BY DEF Typed, RowsTyped, PollTyped, SentKept, SentTyped, SentFinite, SentPairs, Ordered, LastTyped

\* A new message of a fan, by whoever writes it.
LEMMA LastMoves ==
    ASSUME LastTyped, NEW f \in Fans, NEW who \in {"fan", "creator"},
           last' = [last EXCEPT ![f] = [by |-> who, age |-> 0]]
    PROVE  LastTyped'
BY KeepLarge DEF LastTyped, LastRecord

LEMMA BeginPollTyped ==
    ASSUME Typed, NEW k \in Kinds, BeginPoll(k)
    PROVE  Typed'
<1>1. PICK B \in SUBSET Fans :
         poller' = IF B = {} THEN Resting
                   ELSE [Resting EXCEPT !.pc = "look", !.kind = k, !.left = B]
      BY DEF BeginPoll, PresenceBatches, StalledBatches
<1>2. PollTyped'
  <2>1. CASE B = {}
        BY <1>1, <2>1, RestingTyped DEF PollTyped
  <2>2. CASE B # {}
    <3>1. poller' = [pc |-> "look", kind |-> k, left |-> B, fan |-> {}, hour |-> 0, day |-> 0,
                     own |-> 0, age |-> 0, raced |-> FALSE]
          BY <1>1, <2>2 DEF Resting
    <3>2. 0 \in 0..Hour /\ {} \in SUBSET Fans
          BY WindowsAssumption
    <3> QED
        BY <3>1, <3>2 DEF PollTyped, PollRecord
  <2> QED
      BY <2>1, <2>2
<1>3. FlagsTyped'
      BY DEF BeginPoll, history, Typed, FlagsTyped
<1> QED
    BY <1>2, <1>3, TypesStay DEF BeginPoll, history, Typed

LEMMA PollStepTyped ==
    ASSUME Typed, PollStep
    PROVE  Typed'
<1>1. PollTyped' /\ UNCHANGED <<last, sent>>
      BY PollMoves DEF Typed, SentKept, PollStep, Observe, Consider, CountSent,
                       CountQueued, history
<1>2. RowsTyped' /\ FlagsTyped'
  <2>1. CASE \E f \in Fans : CountQueued(f) /\ row' # row
    <3>1. PICK f \in Fans : CountQueued(f) /\ row' = [row EXCEPT ![f] = NewRow(f)]
          BY <2>1 DEF CountQueued
    <3>2. NewRow(f) \in RowRecord /\ NewRow(f).kind \in Kinds
      <4>1. poller.kind \in Kinds /\ poller.age \in 0..(Day + 1) /\ poller.raced \in BOOLEAN
            BY <3>1, WindowsAssumption DEF CountQueued, Typed, PollTyped, PollRecord
      <4> QED
          BY <4>1 DEF NewRow, RowRecord
    <3>3. RowsTyped'
          BY <3>1, <3>2, RowMoves DEF Typed
    <3> QED
        BY <3>1, <3>3 DEF CountQueued, history, Typed, FlagsTyped
  <2>2. CASE row' = row
    <3>1. RowsTyped'
          BY <2>2, TypesStay
    <3>2. ASSUME NEW f \in Fans, CountQueued(f)
          PROVE  FlagsTyped'
          BY <3>2 DEF CountQueued, history, Typed, FlagsTyped
    <3>3. ASSUME NEW f \in Fans, Consider(f) \/ CountSent(f)
          PROVE  FlagsTyped'
          BY <3>3 DEF Consider, CountSent, history, Typed, FlagsTyped
    <3>4. ASSUME NEW f \in Fans, NEW age, Observe(f, age)
          PROVE  FlagsTyped'
          BY <3>4 DEF Observe, history, Typed, FlagsTyped
    <3> QED
        BY <3>1, <3>2, <3>3, <3>4 DEF PollStep
  <2> QED
      BY <2>1, <2>2 DEF PollStep, Observe, Consider, CountSent
<1> QED
    BY <1>1, <1>2, TypesStay DEF Typed

\* The message of a delivered row, and the one sent after the row was completed.
LEMMA DeliveredTyped ==
    ASSUME Typed, NEW f \in Fans
    PROVE  /\ row[f].status # "none" =>
                [age |-> 0, apart |-> Cooldown[row[f].kind], slip |-> SlipOf(f)] \in Message
           /\ [age |-> 0, apart |-> 1, slip |-> "hidden"] \in Message
<1>1. 0 \in 0..Keep
      BY KeepLarge
<1>2. SlipOf(f) \in Slips
      BY DEF SlipOf, Slips
<1>3. row[f].status = "none" \/ row[f].kind \in Kinds
      BY DEF Typed, RowsTyped
<1> QED
    BY <1>1, <1>2, <1>3 DEF Message, Slips

LEMMA WorkerTyped ==
    ASSUME Typed, NEW f \in Fans, Worker(f)
    PROVE  Typed'
<1>1. CASE Answer(f)
  <2>1. LastTyped'
        BY <1>1, LastMoves DEF Answer, Typed, LastTyped
  <2>2. FlagsTyped'
        BY <1>1 DEF Answer, Typed, FlagsTyped
  <2> QED
      BY <1>1, <2>1, <2>2, TypesStay DEF Answer, Typed
<1>2. CASE Claim(f)
  <2>1. RowsTyped'
        BY <1>2, RowSteps DEF Claim, Typed
  <2>2. FlagsTyped'
        BY <1>2 DEF Claim, history, Typed, FlagsTyped
  <2> QED
      BY <1>2, <2>1, <2>2, TypesStay DEF Claim, history, Typed
<1>3. CASE Generate(f)
  <2>1. RowsTyped'
        BY <1>3, RowSteps DEF Generate, Typed
  <2>2. FlagsTyped'
        BY <1>3 DEF Generate, history, Typed, FlagsTyped
  <2> QED
      BY <1>3, <2>1, <2>2, TypesStay DEF Generate, history, Typed
<1>4. CASE Deliver(f)
  <2>1. RowsTyped'
        BY <1>4, RowSteps DEF Deliver, Typed
  <2>2. SentKept'
    <3>1. CASE sent' = sent
          BY <3>1, TypesStay
    <3>2. CASE sent' # sent
      <4> DEFINE m == [age |-> 0, apart |-> Cooldown[row[f].kind], slip |-> SlipOf(f)]
      <4>1. sent' = [sent EXCEPT ![f] = Append(@, m)] /\ m \in Message /\ m.age = 0
            BY <1>4, <3>2, DeliveredTyped DEF Deliver
      <4> HIDE DEF m
      <4> QED
          BY <4>1, SendKeeps DEF Typed
    <3> QED
        BY <3>1, <3>2
  <2>3. PollTyped'
    <3>1. CASE poller' = [poller EXCEPT !.raced = TRUE]
      <4>1. poller \in PollRecord
            BY DEF Typed, PollTyped
      <4>2. poller' \in PollRecord /\ poller'.pc = poller.pc /\ poller'.kind = poller.kind
            BY <3>1, <4>1 DEF PollRecord
      <4> QED
          BY <4>2 DEF Typed, PollTyped
    <3> QED
        BY <1>4, <3>1, TypesStay DEF Deliver, Raced
  <2>4. FlagsTyped'
        BY <1>4, CapsAssumption DEF Deliver, Typed, FlagsTyped
  <2> QED
      BY <1>4, <2>1, <2>2, <2>3, <2>4, TypesStay DEF Deliver, Typed
<1>5. CASE DeliverHidden(f)
  <2>1. SentKept'
    <3> DEFINE m == [age |-> 0, apart |-> 1, slip |-> "hidden"]
    <3>1. sent' = [sent EXCEPT ![f] = Append(@, m)] /\ m \in Message /\ m.age = 0
          BY <1>5, DeliveredTyped DEF DeliverHidden
    <3> HIDE DEF m
    <3> QED
        BY <3>1, SendKeeps DEF Typed
  <2>2. FlagsTyped'
        BY <1>5 DEF DeliverHidden, Typed, FlagsTyped
  <2> QED
      BY <1>5, <2>1, <2>2, TypesStay DEF DeliverHidden, Typed
<1>6. CASE Save(f)
  <2>1. LastTyped'
        BY <1>6, LastMoves DEF Save, Typed
  <2>2. FlagsTyped'
        BY <1>6 DEF Save, Typed, FlagsTyped
  <2> QED
      BY <1>6, <2>1, <2>2, TypesStay DEF Save, Typed
<1> QED
    BY <1>1, <1>2, <1>3, <1>4, <1>5, <1>6 DEF Worker

LEMMA OlderTyped ==
    ASSUME NEW max \in Nat, NEW age \in 0..max
    PROVE  Older(age, max) \in 0..max /\ (Older(age, max) = age + 1 \/ Older(age, max) = max)
BY DEF Older

LEMMA EventsTyped ==
    ASSUME Typed, Event
    PROVE  events' \in 0..MaxEvents
BY CapsAssumption DEF Typed, FlagsTyped, Event

LEMMA OthersTyped ==
    ASSUME Typed,
           \/ \E f \in Fans : FanWrites(f) \/ CreatorWrites(f) \/ Release(f)
           \/ \E k \in Kinds : SaveSettings(k)
           \/ AbortPoll
    PROVE  Typed'
<1>1. events' \in 0..MaxEvents
      BY EventsTyped DEF FanWrites, CreatorWrites, Release, SaveSettings, AbortPoll
<1>2. ASSUME NEW f \in Fans, FanWrites(f) PROVE Typed'
  <2> DEFINE r == [row[f] EXCEPT !.current = FALSE]
  <2>1. r \in RowRecord /\ r.kind = row[f].kind /\ r.status = row[f].status
        BY RowOf DEF Typed, RowRecord
  <2>2. row' = [row EXCEPT ![f] = r]
        BY <1>2 DEF FanWrites
  <2> HIDE DEF r
  <2>3. RowsTyped'
        BY <2>1, <2>2, RowOf, RowMoves DEF Typed
  <2>4. LastTyped'
        BY <1>2, LastMoves DEF FanWrites, Typed
  <2>5. FlagsTyped'
        BY <1>1, <1>2 DEF FanWrites, Typed, FlagsTyped
  <2> QED
      BY <1>2, <2>3, <2>4, <2>5, TypesStay DEF FanWrites, Typed
<1>3. ASSUME NEW f \in Fans, CreatorWrites(f) PROVE Typed'
  <2>1. RowsTyped'
        BY <1>3, RowOf, RowMoves DEF CreatorWrites, Typed
  <2>2. LastTyped'
        BY <1>3, LastMoves DEF CreatorWrites, Typed
  <2>3. FlagsTyped'
        BY <1>1, <1>3 DEF CreatorWrites, Typed, FlagsTyped
  <2> QED
      BY <1>3, <2>1, <2>2, <2>3, TypesStay DEF CreatorWrites, Typed
<1>4. ASSUME NEW f \in Fans, Release(f) PROVE Typed'
  <2>1. RowsTyped'
        BY <1>4, RowSteps DEF Release, Typed
  <2>2. FlagsTyped'
        BY <1>1, <1>4 DEF Release, history, Typed, FlagsTyped
  <2> QED
      BY <1>4, <2>1, <2>2, TypesStay DEF Release, history, Typed
<1>5. ASSUME NEW k \in Kinds, SaveSettings(k) PROVE Typed'
  <2>1. FlagsTyped'
        BY <1>1, <1>5 DEF SaveSettings, history, Typed, FlagsTyped
  <2> QED
      BY <1>5, <2>1, TypesStay DEF SaveSettings, history, Typed
<1>6. CASE AbortPoll
  <2>1. FlagsTyped'
        BY <1>1, <1>6 DEF AbortPoll, history, Typed, FlagsTyped
  <2>2. PollTyped'
        BY <1>6, RestingTyped DEF AbortPoll, PollTyped
  <2> QED
      BY <1>6, <2>1, <2>2, TypesStay DEF AbortPoll, history, Typed
<1> QED
    BY <1>2, <1>3, <1>4, <1>5, <1>6

LEMMA RestartTyped == ASSUME Typed, Restart PROVE Typed'
<1>1. FlagsTyped'
      BY EventsTyped DEF Restart, Typed, FlagsTyped
<1>2. PollTyped'
      BY RestingTyped DEF Restart, PollTyped
<1>3. RowsTyped'
  <2>1. ASSUME NEW f \in Fans
        PROVE  row'[f] \in RowRecord /\ (row'[f].status = "none" \/ row'[f].kind \in Kinds)
    <3>1. row[f].status = "processing" =>
            /\ [row[f] EXCEPT !.status = "pending"] \in RowRecord
            /\ [row[f] EXCEPT !.status = "pending"].kind = row[f].kind
          BY RowOf DEF Typed, RowRecord
    <3>2. row'[f] = CASE row[f].status = "sending" -> NoRow
                      [] row[f].status = "processing" -> [row[f] EXCEPT !.status = "pending"]
                      [] OTHER -> row[f]
          BY DEF Restart
    <3>3. CASE row[f].status = "sending"
          BY <3>2, <3>3, RowOf DEF Typed
    <3>4. CASE row[f].status = "processing"
          BY <3>1, <3>2, <3>4, RowOf DEF Typed
    <3>5. CASE row[f].status \notin {"sending", "processing"}
          BY <3>2, <3>5, RowOf DEF Typed
    <3> QED
        BY <3>3, <3>4, <3>5
  <2>2. row' = [f \in Fans |-> row'[f]]
        BY DEF Restart
  <2> QED
      BY <2>1, <2>2 DEF RowsTyped
<1> QED
    BY <1>1, <1>2, <1>3, TypesStay DEF Restart, Typed

\* What a tick makes of a row.
LEMMA RowOlder ==
    ASSUME RowsTyped, Tick, NEW f \in Fans
    PROVE  /\ row'[f] \in RowRecord
           /\ row'[f].status = row[f].status
           /\ row[f].status # "none" =>
                /\ row'[f].kind = row[f].kind /\ row'[f].blind = row[f].blind
                /\ row'[f].age = row[f].age + 1 \/ row'[f].age = Day + 1
<1>1. Day + 1 \in Nat /\ row[f].age \in 0..(Day + 1)
      BY RowOf, WindowsAssumption DEF RowRecord
<1>2. row'[f] = IF row[f].status = "none" THEN NoRow
                ELSE [row[f] EXCEPT !.age = Older(@, Day + 1)]
      BY DEF Tick
<1>3. CASE row[f].status = "none"
      BY <1>2, <1>3, RowOf
<1>4. CASE row[f].status # "none"
  <2>1. PICK age \in 0..(Day + 1) : /\ age = row[f].age + 1 \/ age = Day + 1
                                    /\ row'[f] = [row[f] EXCEPT !.age = age]
        BY <1>1, <1>2, <1>4, OlderTyped
  <2> QED
      BY <1>4, <2>1, RowOf DEF RowRecord
<1> QED
    BY <1>3, <1>4

LEMMA TickTyped == ASSUME Typed, Tick PROVE Typed'
<1>1. FlagsTyped'
      BY DEF Tick, Typed, FlagsTyped
<1>2. SentKept'
      BY ForgetKeeps DEF Tick, Typed
<1>3. RowsTyped'
  <2>1. \A f \in Fans : row'[f] \in RowRecord /\ (row'[f].status = "none" \/ row'[f].kind \in Kinds)
        BY RowOlder, RowOf DEF Typed
  <2>2. row' = [f \in Fans |-> row'[f]]
        BY DEF Tick
  <2> QED
      BY <2>1, <2>2 DEF RowsTyped
<1>4. LastTyped'
  <2>1. ASSUME NEW f \in Fans
        PROVE  [last[f] EXCEPT !.age = IF last[f].by = "none" THEN 0 ELSE Older(@, Oldest)]
                  \in LastRecord
    <3>1. last[f] \in LastRecord /\ last[f].age \in 0..Oldest /\ Oldest \in Nat
          BY KeepLarge DEF Typed, LastTyped, LastRecord
    <3>2. PICK age \in 0..Oldest :
             age = IF last[f].by = "none" THEN 0 ELSE Older(last[f].age, Oldest)
          BY <3>1, OlderTyped
    <3>3. [last[f] EXCEPT !.age = age] \in LastRecord
          BY <3>1 DEF LastRecord
    <3> QED
        BY <3>2, <3>3
  <2> QED
      BY <2>1 DEF Tick, LastTyped
<1> QED
    BY <1>1, <1>2, <1>3, <1>4, TypesStay DEF Tick, Typed

LEMMA TypedInit == ASSUME OutreachInit PROVE Typed
<1>1. SentKept
  <2>1. \A f \in Fans : sent[f] = <<>> /\ Len(sent[f]) = 0 /\ DOMAIN sent[f] = {}
        BY DEF OutreachInit
  <2>2. SentPairs = {}
        BY <2>1 DEF SentPairs
  <2> QED
      BY <2>1, <2>2, FS_EmptySet DEF SentKept, SentTyped, SentFinite, Ordered, OutreachInit
<1>2. RowsTyped
  <2>1. 0 \in 0..(Day + 1)
        BY WindowsAssumption
  <2> QED
      BY <2>1 DEF RowsTyped, RowRecord, NoRow, OutreachInit
<1>3. PollTyped
      BY RestingTyped DEF PollTyped, OutreachInit
<1>4. LastTyped
      BY KeepLarge DEF LastTyped, LastRecord, OutreachInit
<1>5. FlagsTyped
      BY CapsAssumption DEF FlagsTyped, OutreachInit
<1> QED
    BY <1>1, <1>2, <1>3, <1>4, <1>5 DEF Typed

LEMMA TypedNext == ASSUME Typed, [OutreachNext]_outreachVars PROVE Typed'
<1>1. CASE OutreachNext
  <2>1. ASSUME NEW k \in Kinds, BeginPoll(k) PROVE Typed'
        BY <2>1, BeginPollTyped
  <2>2. ASSUME NEW f \in Fans, Worker(f) PROVE Typed'
        BY <2>2, WorkerTyped
  <2> QED
      BY <1>1, <2>1, <2>2, PollStepTyped, OthersTyped, RestartTyped, TickTyped DEF OutreachNext
<1>2. CASE UNCHANGED outreachVars
      BY <1>2, TypesStay DEF outreachVars, history, Typed, FlagsTyped
<1> QED
    BY <1>1, <1>2

-----------------------------------------------------------------------------
(* The cooldown.                                                           *)

\* The last message the fan was sent is a cooldown old.
Rested(f, k) == \A i \in DOMAIN sent[f] : sent[f][i].slip # "hidden" => sent[f][i].age >= Cooldown[k]

\* A row whose check missed nothing, and a check that has missed nothing yet.
RowsRested == \A f \in Fans : row[f].status # "none" /\ ~row[f].blind => Rested(f, row[f].kind)
PollRested ==
    poller.pc \in {"sent", "queued"} /\ ~poller.raced => \A f \in poller.fan : Rested(f, poller.kind)
CooldownInv == CooldownHeld /\ RowsRested /\ PollRested

\* Rows end, go on, or grow older, and no check begins or comes further.
RowsNarrow ==
    \A f \in Fans : \/ row'[f].status = "none"
                    \/ /\ row[f].status # "none" /\ row'[f].kind = row[f].kind
                       /\ row'[f].blind = row[f].blind /\ row'[f].age >= row[f].age
PollQuiet == poller' = poller \/ poller'.pc \notin {"sent", "queued"} \/ poller'.raced

LEMMA CooldownQuiet ==
    ASSUME CooldownInv, UNCHANGED sent, RowsNarrow, PollQuiet
    PROVE  CooldownInv'
<1>2. RowsRested'
      BY DEF CooldownInv, RowsRested, RowsNarrow, Rested
<1>3. PollRested'
  <2>1. CASE poller' = poller
        BY <2>1 DEF CooldownInv, PollRested, Rested
  <2>2. CASE poller' # poller
        BY <2>2 DEF PollQuiet, PollRested
  <2> QED
      BY <2>1, <2>2
<1> QED
    BY <1>2, <1>3 DEF CooldownInv, CooldownHeld

\* What a message of a fan who rested long enough leaves true.
LEMMA CooldownAppend ==
    ASSUME Typed, CooldownInv, NEW f \in Fans, NEW m \in Message, m.age = 0,
           sent' = [sent EXCEPT ![f] = Append(@, m)],
           \/ m.slip \in {"unseen", "hidden"}
           \/ \A i \in DOMAIN sent[f] : sent[f][i].slip # "hidden" => sent[f][i].age >= m.apart
    PROVE  CooldownHeld'
<1>1. Appended(f, m)
      BY AppendedIs DEF Typed, SentKept
<1>2. ASSUME NEW g \in Fans, NEW i \in DOMAIN sent'[g], NEW j \in DOMAIN sent'[g],
             i < j, sent'[g][i].slip # "hidden", sent'[g][j].slip \notin {"unseen", "hidden"}
      PROVE  sent'[g][i].age - sent'[g][j].age >= sent'[g][j].apart
  <2>1. CASE g # f
        BY <1>1, <1>2, <2>1 DEF Appended, CooldownInv, CooldownHeld
  <2>2. CASE g = f
    <3>1. i \in 1..Len(sent[f]) /\ Len(sent[f]) \in Nat /\ i \in DOMAIN sent[f]
          /\ sent'[f][i] = sent[f][i]
          BY <1>1, <1>2, <2>2 DEF Appended
    <3>2. CASE j \in 1..Len(sent[f])
          BY <1>1, <1>2, <2>2, <3>1, <3>2 DEF Appended, CooldownInv, CooldownHeld
    <3>3. CASE j = Len(sent[f]) + 1
      <4>1. sent'[f][j] = m /\ sent[f][i].slip # "hidden"
            BY <1>1, <1>2, <2>2, <3>1, <3>3 DEF Appended
      <4>2. sent[f][i].age >= m.apart /\ sent[f][i] \in Message
            BY <1>2, <2>2, <3>1, <4>1, SentOf DEF Typed, SentKept
      <4> QED
          BY <2>2, <3>1, <4>1, <4>2, MessageTyped
    <3> QED
        BY <1>1, <1>2, <2>2, <3>2, <3>3 DEF Appended
  <2> QED
      BY <2>1, <2>2
<1> QED
    BY <1>2 DEF CooldownHeld

\* The others rest as they did.
LEMMA RestedElsewhere ==
    ASSUME Typed, NEW f \in Fans, NEW m \in Message, sent' = [sent EXCEPT ![f] = Append(@, m)],
           NEW g \in Fans, NEW k, Rested(g, k), g # f \/ m.slip = "hidden"
    PROVE  Rested(g, k)'
<1>1. Appended(f, m)
      BY AppendedIs DEF Typed, SentKept
<1>2. CASE g # f
      BY <1>1, <1>2 DEF Appended, Rested
<1>3. CASE g = f /\ m.slip = "hidden"
      BY <1>1, <1>3 DEF Appended, Rested
<1> QED
    BY <1>2, <1>3

LEMMA DeliverCooldown ==
    ASSUME Typed, CooldownInv, NEW f \in Fans, Deliver(f)
    PROVE  CooldownInv'
<1> DEFINE m == [age |-> 0, apart |-> Cooldown[row[f].kind], slip |-> SlipOf(f)]
<1>1. row[f].status = "sending" /\ row' = [row EXCEPT ![f] = NoRow]
      BY DEF Deliver
<1>2. RowsNarrow
      BY <1>1, RowOf DEF Typed, RowsTyped, RowsNarrow, RowRecord
<1>3. CASE UNCHANGED <<sent, poller>>
      BY <1>2, <1>3, CooldownQuiet DEF PollQuiet
<1>4. CASE sent' = [sent EXCEPT ![f] = Append(@, m)] /\ poller' = Raced
  <2>1. m \in Message /\ m.age = 0 /\ m.apart = Cooldown[row[f].kind]
        BY <1>1, DeliveredTyped
  <2>2. row[f].blind => m.slip = "unseen"
    <3>1. m.slip = SlipOf(f)
          OBVIOUS
    <3> HIDE DEF m
    <3>2. row[f].blind => SlipOf(f) = "unseen"
          BY DEF SlipOf
    <3> QED
        BY <3>1, <3>2
  <2>3. ~row[f].blind => Rested(f, row[f].kind)
        BY <1>1 DEF CooldownInv, RowsRested
  <2> HIDE DEF m
  <2>4. CooldownHeld'
        BY <1>4, <2>1, <2>2, <2>3, CooldownAppend DEF Rested
  <2>5. RowsRested'
    <3>1. ASSUME NEW g \in Fans, row'[g].status # "none", ~row'[g].blind,
                 NEW i \in DOMAIN sent'[g], sent'[g][i].slip # "hidden"
          PROVE  sent'[g][i].age >= Cooldown[row'[g].kind]
      <4>1. g # f /\ row'[g] = row[g]
            BY <1>1, <3>1, RowOf DEF Typed, RowsTyped
      <4>2. PICK k : k = row[g].kind /\ Rested(g, k)
            BY <3>1, <4>1 DEF CooldownInv, RowsRested
      <4>3. Rested(g, k)'
            BY <1>4, <2>1, <4>1, <4>2, RestedElsewhere
      <4> QED
          BY <3>1, <4>1, <4>2, <4>3 DEF Rested
    <3> QED
        BY <3>1 DEF RowsRested, Rested
  <2>6. PollRested'
    <3>1. CASE poller.pc \in {"sent", "queued"}
          BY <1>4, <3>1 DEF Raced, PollRested, Typed, PollTyped, PollRecord
    <3>2. CASE poller.pc \notin {"sent", "queued"}
          BY <1>4, <3>2 DEF Raced, PollRested
    <3> QED
        BY <3>1, <3>2
  <2> QED
      BY <2>4, <2>5, <2>6 DEF CooldownInv
<1> QED
    BY <1>3, <1>4 DEF Deliver

LEMMA HiddenCooldown ==
    ASSUME Typed, CooldownInv, NEW f \in Fans, DeliverHidden(f)
    PROVE  CooldownInv'
<1> DEFINE m == [age |-> 0, apart |-> 1, slip |-> "hidden"]
<1>1. sent' = [sent EXCEPT ![f] = Append(@, m)] /\ UNCHANGED <<row, poller>>
      BY DEF DeliverHidden
<1>2. m \in Message /\ m.age = 0 /\ m.slip = "hidden"
      BY DeliveredTyped
<1> HIDE DEF m
<1>3. CooldownHeld'
      BY <1>1, <1>2, CooldownAppend
<1>4. \A g \in Fans : \A k : Rested(g, k) => \A i \in DOMAIN sent'[g] :
         sent'[g][i].slip # "hidden" => sent'[g][i].age >= Cooldown[k]
      BY <1>1, <1>2, RestedElsewhere DEF Rested
<1>5. RowsRested'
      BY <1>1, <1>4 DEF CooldownInv, RowsRested, Rested
<1>6. PollRested'
  <2>1. poller.fan \in SUBSET Fans
        BY DEF Typed, PollTyped, PollRecord
  <2> QED
      BY <1>1, <1>4, <2>1 DEF CooldownInv, PollRested, Rested
<1> QED
    BY <1>3, <1>5, <1>6 DEF CooldownInv

LEMMA TickCooldown ==
    ASSUME Typed, CooldownInv, Tick
    PROVE  CooldownInv'
<1>1. PICK gone \in [Fans -> Nat] : Forgotten(gone)
      BY ForgottenSome DEF Tick, Typed
<1>2. SentTyped
      BY DEF Typed, SentKept
<1>3. CooldownHeld'
  <2>1. SUFFICES ASSUME NEW f \in Fans, NEW i \in DOMAIN sent'[f], NEW j \in DOMAIN sent'[f],
                        i < j, sent'[f][i].slip # "hidden", sent'[f][j].slip \notin {"unseen", "hidden"}
                 PROVE  sent'[f][i].age - sent'[f][j].age >= sent'[f][j].apart
        BY DEF CooldownHeld
  <2>2. PICK a \in DOMAIN sent[f], b \in DOMAIN sent[f] :
          /\ a = i + gone[f] /\ b = j + gone[f] /\ a < b
          /\ sent[f][a] \in Message /\ sent[f][b] \in Message
          /\ sent'[f][i].age = sent[f][a].age + 1 /\ sent'[f][j].age = sent[f][b].age + 1
          /\ sent'[f][j].apart = sent[f][b].apart
          /\ sent'[f][i].slip = sent[f][a].slip /\ sent'[f][j].slip = sent[f][b].slip
    <3>1. i + gone[f] < j + gone[f]
          BY <1>1, <1>2, <2>1, ForgottenAt
    <3> QED
        BY <1>1, <1>2, <3>1, ForgottenAt
  <2>3. sent[f][a].age - sent[f][b].age >= sent[f][b].apart
        BY <2>1, <2>2 DEF CooldownInv, CooldownHeld
  <2> QED
      BY <2>2, <2>3, MessageTyped
<1>4. RowsRested'
  <2>1. SUFFICES ASSUME NEW f \in Fans, row'[f].status # "none", ~row'[f].blind,
                        NEW i \in DOMAIN sent'[f], sent'[f][i].slip # "hidden"
                 PROVE  sent'[f][i].age >= Cooldown[row'[f].kind]
        BY DEF RowsRested, Rested
  <2>2. row[f].status # "none" /\ ~row[f].blind /\ row'[f].kind = row[f].kind /\ row[f].kind \in Kinds
        BY <2>1, RowOlder DEF Typed, RowsTyped
  <2>3. PICK a \in DOMAIN sent[f] : /\ sent[f][a] \in Message
                                    /\ sent'[f][i].age = sent[f][a].age + 1
                                    /\ sent'[f][i].slip = sent[f][a].slip
        BY <1>1, <1>2, ForgottenAt
  <2>4. sent[f][a].age >= Cooldown[row[f].kind]
        BY <2>1, <2>2, <2>3 DEF CooldownInv, RowsRested, Rested
  <2> QED
      BY <2>2, <2>3, <2>4, MessageTyped, KeepLarge
<1>5. PollRested'
      BY DEF Tick, PollRested
<1> QED
    BY <1>3, <1>4, <1>5 DEF CooldownInv

\* A check begins with a fan who rested, and a row is written by a check.
LEMMA PollCooldown ==
    ASSUME Typed, CooldownInv, PollStep
    PROVE  CooldownInv'
<1>1. UNCHANGED sent
      BY DEF PollStep, Observe, Consider, CountSent, CountQueued, history
<1>2. CooldownHeld'
      BY <1>1 DEF CooldownInv, CooldownHeld
<1>3. \A f \in Fans : poller.pc # "idle" => NextFan(f).pc \in {"idle", "look"}
      BY NextFanTyped DEF Typed
<1>4. ASSUME NEW f \in Fans, ~Cooling(f, poller.kind), poller.kind \in Kinds
      PROVE  Rested(f, poller.kind)
      BY <1>4, SentOf, MessageTyped, KeepLarge DEF Cooling, Rested, Typed, SentKept
<1>5. CASE \E f \in Fans, age \in 0..(OnlineWindow + 1) : Observe(f, age)
  <2>1. PICK f \in Fans, age \in 0..(OnlineWindow + 1) : Observe(f, age)
        BY <1>5
  <2>2. UNCHANGED row /\ poller.pc = "look" /\ poller.kind = "online"
        BY <2>1 DEF Observe
  <2>3. RowsRested'
        BY <1>1, <2>2 DEF CooldownInv, RowsRested, Rested
  <2>4. CASE poller' = NextFan(f)
        BY <1>2, <1>3, <2>2, <2>3, <2>4 DEF CooldownInv, PollRested
  <2>5. CASE poller' = [poller EXCEPT !.pc = "sent", !.fan = {f}, !.age = age] /\ ~Refused(f, "online")
    <3>1. Rested(f, poller.kind)
          BY <1>4, <2>2, <2>5 DEF Refused, Kinds
    <3>2. poller'.fan = {f} /\ poller'.kind = poller.kind
          BY <2>5 DEF Typed, PollTyped, PollRecord
    <3> QED
        BY <1>1, <1>2, <2>3, <3>1, <3>2 DEF CooldownInv, PollRested, Rested
  <2> QED
      BY <2>1, <2>4, <2>5 DEF Observe
<1>6. CASE \E f \in Fans : Consider(f)
  <2>1. PICK f \in Fans : Consider(f)
        BY <1>6
  <2>2. UNCHANGED row /\ poller.pc = "look" /\ poller.kind = "stalled"
        BY <2>1 DEF Consider
  <2>3. RowsRested'
        BY <1>1, <2>2 DEF CooldownInv, RowsRested, Rested
  <2>4. CASE poller' = NextFan(f)
        BY <1>2, <1>3, <2>2, <2>3, <2>4 DEF CooldownInv, PollRested
  <2>5. CASE poller' = [poller EXCEPT !.pc = "sent", !.fan = {f}] /\ ~Refused(f, "stalled")
    <3>1. Rested(f, poller.kind)
          BY <1>4, <2>2, <2>5 DEF Refused, Kinds
    <3>2. poller'.fan = {f} /\ poller'.kind = poller.kind
          BY <2>5 DEF Typed, PollTyped, PollRecord
    <3> QED
        BY <1>1, <1>2, <2>3, <3>1, <3>2 DEF CooldownInv, PollRested, Rested
  <2> QED
      BY <2>1, <2>4, <2>5 DEF Consider
<1>7. CASE \E f \in Fans : CountSent(f)
  <2>1. PICK f \in Fans : CountSent(f)
        BY <1>7
  <2>2. UNCHANGED row /\ poller.pc = "sent" /\ poller.fan = {f}
        BY <2>1 DEF CountSent
  <2>3. RowsRested'
        BY <1>1, <2>2 DEF CooldownInv, RowsRested, Rested
  <2>4. CASE poller' = NextFan(f)
        BY <1>2, <1>3, <2>2, <2>3, <2>4 DEF CooldownInv, PollRested
  <2>5. CASE poller' # NextFan(f)
    <3>1. poller'.fan = poller.fan /\ poller'.kind = poller.kind /\ poller'.raced = poller.raced
          BY <2>1, <2>5 DEF CountSent, Typed, PollTyped, PollRecord
    <3> QED
        BY <1>1, <1>2, <2>2, <2>3, <3>1 DEF CooldownInv, PollRested, Rested
  <2> QED
      BY <2>4, <2>5
<1>8. CASE \E f \in Fans : CountQueued(f)
  <2>1. PICK f \in Fans : CountQueued(f)
        BY <1>8
  <2>2. poller.pc = "queued" /\ poller.fan = {f} /\ poller' = NextFan(f)
        BY <2>1 DEF CountQueued
  <2>3. PollRested'
        BY <1>3, <2>2 DEF PollRested
  <2>4. CASE row' = row
        BY <1>1, <1>2, <2>3, <2>4 DEF CooldownInv, RowsRested, Rested
  <2>5. CASE row' = [row EXCEPT ![f] = NewRow(f)]
    <3>1. \A g \in Fans : row'[g] = IF g = f THEN NewRow(f) ELSE row[g]
          BY <2>5 DEF Typed, RowsTyped
    <3>2. NewRow(f).kind = poller.kind /\ NewRow(f).blind = poller.raced
          BY DEF NewRow
    <3> QED
        BY <1>1, <1>2, <2>2, <2>3, <3>1, <3>2 DEF CooldownInv, RowsRested, PollRested, Rested
  <2> QED
      BY <2>1, <2>4, <2>5 DEF CountQueued
<1> QED
    BY <1>5, <1>6, <1>7, <1>8 DEF PollStep

\* The other steps.
LEMMA QuietSteps ==
    ASSUME Typed, OutreachNext
    PROVE  \/ UNCHANGED sent /\ RowsNarrow /\ PollQuiet
           \/ PollStep \/ Tick
           \/ \E f \in Fans : Deliver(f) \/ DeliverHidden(f)
<1>1. \A f \in Fans : /\ row[f] \in RowRecord /\ row[f].age \in Nat
                      /\ NoRow.status = "none"
      BY RowOf, WindowsAssumption DEF Typed, RowRecord
<1>2. row \in [Fans -> RowRecord]
      BY DEF Typed, RowsTyped
<1>3. row' = row => RowsNarrow
      BY <1>1 DEF RowsNarrow
<1>4. ASSUME NEW f \in Fans, NEW r, row' = [row EXCEPT ![f] = r],
             \/ r.status = "none"
             \/ /\ row[f].status # "none" /\ r.kind = row[f].kind
                /\ r.blind = row[f].blind /\ r.age = row[f].age
      PROVE  RowsNarrow
      BY <1>1, <1>2, <1>4 DEF RowsNarrow
<1>5. \A f \in Fans, s \in {"pending", "processing", "sending"} :
         /\ [row[f] EXCEPT !.status = s].kind = row[f].kind
         /\ [row[f] EXCEPT !.status = s].blind = row[f].blind
         /\ [row[f] EXCEPT !.status = s].age = row[f].age
      BY <1>1 DEF RowRecord
<1>6. ASSUME NEW k \in Kinds, BeginPoll(k)
      PROVE  UNCHANGED sent /\ RowsNarrow /\ PollQuiet
  <2>1. poller'.pc \in {"idle", "look"} /\ UNCHANGED <<sent, row>>
        BY <1>6 DEF BeginPoll, Resting, history
  <2> QED
      BY <1>3, <2>1 DEF PollQuiet
<1>7. ASSUME NEW k \in Kinds, SaveSettings(k)
      PROVE  UNCHANGED sent /\ RowsNarrow /\ PollQuiet
      BY <1>3, <1>7 DEF SaveSettings, history, PollQuiet
<1>8. ASSUME NEW f \in Fans, Answer(f) \/ Save(f)
      PROVE  UNCHANGED sent /\ RowsNarrow /\ PollQuiet
      BY <1>3, <1>8 DEF Answer, Save, PollQuiet
<1>9. ASSUME NEW f \in Fans, Claim(f) \/ Generate(f) \/ Release(f)
      PROVE  UNCHANGED sent /\ RowsNarrow /\ PollQuiet
  <2>1. UNCHANGED <<sent, poller>> /\ row[f].status # "none"
        BY <1>9 DEF Claim, Generate, Release, history
  <2>2. PICK s \in {"pending", "processing", "sending"} :
           row' \in {[row EXCEPT ![f] = NoRow], [row EXCEPT ![f] = [row[f] EXCEPT !.status = s]]}
        BY <1>9 DEF Claim, Generate, Release
  <2>3. CASE row' = [row EXCEPT ![f] = NoRow]
        BY <1>1, <1>4, <2>1, <2>3 DEF PollQuiet
  <2>4. CASE row' = [row EXCEPT ![f] = [row[f] EXCEPT !.status = s]]
        BY <1>4, <1>5, <2>1, <2>4 DEF PollQuiet
  <2> QED
      BY <2>2, <2>3, <2>4
<1>10. ASSUME NEW f \in Fans, FanWrites(f)
       PROVE  UNCHANGED sent /\ RowsNarrow /\ PollQuiet
  <2> DEFINE r == [row[f] EXCEPT !.current = FALSE]
  <2>1. row' = [row EXCEPT ![f] = r] /\ UNCHANGED <<sent, poller>>
        BY <1>10 DEF FanWrites
  <2>2. r.status = row[f].status /\ r.kind = row[f].kind /\ r.blind = row[f].blind /\ r.age = row[f].age
        BY <1>1 DEF RowRecord
  <2> HIDE DEF r
  <2> QED
      BY <1>4, <2>1, <2>2 DEF PollQuiet
<1>11. ASSUME NEW f \in Fans, CreatorWrites(f)
       PROVE  UNCHANGED sent /\ RowsNarrow /\ PollQuiet
  <2>1. row' = [row EXCEPT ![f] = NoRow] /\ UNCHANGED <<sent, poller>>
        BY <1>11 DEF CreatorWrites
  <2> QED
      BY <1>1, <1>4, <2>1 DEF PollQuiet
<1>12. CASE AbortPoll
  <2>1. poller'.pc = "idle" /\ UNCHANGED <<sent, row>>
        BY <1>12 DEF AbortPoll, Resting, history
  <2> QED
      BY <1>3, <2>1 DEF PollQuiet
<1>13. CASE Restart
  <2>1. poller'.pc = "idle" /\ UNCHANGED sent
        BY <1>13 DEF Restart, Resting
  <2>2. ASSUME NEW f \in Fans, row'[f].status # "none"
        PROVE  /\ row[f].status # "none" /\ row'[f].kind = row[f].kind
               /\ row'[f].blind = row[f].blind /\ row'[f].age >= row[f].age
    <3>1. row'[f] = CASE row[f].status = "sending" -> NoRow
                      [] row[f].status = "processing" -> [row[f] EXCEPT !.status = "pending"]
                      [] OTHER -> row[f]
          BY <1>13 DEF Restart
    <3>2. CASE row[f].status = "sending"
          BY <1>1, <2>2, <3>1, <3>2
    <3>3. CASE row[f].status = "processing"
      <4>1. PICK s \in {"pending"} : row'[f] = [row[f] EXCEPT !.status = s]
            BY <3>1, <3>3
      <4> QED
          BY <1>1, <1>5, <3>3, <4>1
    <3>4. CASE row[f].status \notin {"sending", "processing"}
      <4>1. row'[f] = row[f]
            BY <3>1, <3>4
      <4> QED
          BY <1>1, <2>2, <4>1
    <3> QED
        BY <3>2, <3>3, <3>4
  <2> QED
      BY <2>1, <2>2 DEF RowsNarrow, PollQuiet
<1> QED
    BY <1>6, <1>7, <1>8, <1>9, <1>10, <1>11, <1>12, <1>13 DEF OutreachNext, Worker

LEMMA CooldownNext ==
    ASSUME Typed, CooldownInv, [OutreachNext]_outreachVars
    PROVE  CooldownInv'
<1>1. CASE UNCHANGED outreachVars
  <2>1. UNCHANGED <<sent, row, poller>>
        BY <1>1 DEF outreachVars, history
  <2> QED
      BY <2>1 DEF CooldownInv, RowsRested, PollRested, Rested, CooldownHeld
<1>2. CASE OutreachNext
      BY <1>2, QuietSteps, CooldownQuiet, PollCooldown, TickCooldown, DeliverCooldown, HiddenCooldown
<1> QED
    BY <1>1, <1>2

LEMMA CooldownInit == ASSUME OutreachInit PROVE CooldownInv
BY DEF OutreachInit, Resting, NoRow, CooldownInv, RowsRested, PollRested, CooldownHeld

-----------------------------------------------------------------------------
(* The caps.                                                               *)

\* What the property counts, and the rows that may still add to it: a row whose
\* check missed nothing and whose date is within the window.
CountedIn(F, w) ==
    UNION {{<<f, i>> : i \in {j \in DOMAIN sent[f] :
                sent[f][j].age <= w /\ sent[f][j].slip = "none"}} : f \in F}
OpenIn(F, w) == {f \in F : row[f].status # "none" /\ ~row[f].blind /\ row[f].age <= w}
Load(F, w) == Cardinality(CountedIn(F, w)) + Cardinality(OpenIn(F, w))

CapHeld(limit, F, w) == (\E k \in Kinds : limit[k] = 0) \/ Load(F, w) <= Larger(limit)

\* What a check has read is not less than what was sent, if it has missed nothing.
PollCounted ==
    poller.pc = "queued" /\ ~poller.raced =>
        /\ poller.hour >= Cardinality(CountedIn(Fans, Hour))
        /\ poller.day >= Cardinality(CountedIn(Fans, Day))
        /\ \A f \in poller.fan : poller.own >= Cardinality(CountedIn({f}, Day))
CapsInv ==
    /\ CapHeld(PerHour, Fans, Hour) /\ CapHeld(PerDay, Fans, Day)
    /\ \A f \in Fans : CapHeld(PerFan, {f}, Day)
    /\ PollCounted

LEMMA CountedMember ==
    ASSUME NEW F, NEW w, NEW p
    PROVE  p \in CountedIn(F, w) <=>
              \E f \in F : \E i \in DOMAIN sent[f] :
                 p = <<f, i>> /\ sent[f][i].age <= w /\ sent[f][i].slip = "none"
BY DEF CountedIn

LEMMA LoadFinite ==
    ASSUME Typed, NEW F \in SUBSET Fans, NEW w
    PROVE  /\ IsFiniteSet(CountedIn(F, w)) /\ Cardinality(CountedIn(F, w)) \in Nat
           /\ IsFiniteSet(OpenIn(F, w)) /\ Cardinality(OpenIn(F, w)) \in Nat
           /\ Load(F, w) \in Nat
<1>1. CountedIn(F, w) \in SUBSET SentPairs
      BY CountedMember, SentOf DEF Typed, SentKept
<1>2. IsFiniteSet(CountedIn(F, w)) /\ Cardinality(CountedIn(F, w)) \in Nat
      BY <1>1, FS_Subset, FS_CardinalityType DEF Typed, SentKept, SentFinite
<1>3. IsFiniteSet(Fans) /\ OpenIn(F, w) \in SUBSET Fans
      BY CapsAssumption DEF OpenIn
<1>4. IsFiniteSet(OpenIn(F, w)) /\ Cardinality(OpenIn(F, w)) \in Nat
      BY <1>3, FS_Subset, FS_CardinalityType
<1> QED
    BY <1>2, <1>4 DEF Load

LEMMA LimitsTyped ==
    ASSUME NEW limit \in {PerHour, PerDay, PerFan}
    PROVE  /\ \A k \in Kinds : limit[k] \in Nat /\ limit[k] <= Larger(limit)
           /\ Larger(limit) \in Nat
           /\ Hour \in Nat /\ Day \in Nat /\ Day >= Hour
BY CapsAssumption, WindowsAssumption DEF Larger, Kinds

\* Nothing was sent that counts, and no row came to the open ones.
LEMMA LoadStays ==
    ASSUME Typed, Typed', NEW F \in SUBSET Fans, NEW w,
           NEW limit \in {PerHour, PerDay, PerFan},
           CapHeld(limit, F, w),
           Cardinality(CountedIn(F, w)') <= Cardinality(CountedIn(F, w)),
           OpenIn(F, w)' \subseteq OpenIn(F, w)
    PROVE  CapHeld(limit, F, w)'
<1>1. Cardinality(OpenIn(F, w)') <= Cardinality(OpenIn(F, w))
      BY LoadFinite, FS_Subset
<1>2. Cardinality(CountedIn(F, w)') \in Nat /\ Cardinality(OpenIn(F, w)') \in Nat
  <2>1. Cardinality(OpenIn(F, w)') \in Nat
        BY LoadFinite, FS_Subset, FS_CardinalityType
  <2>2. (/\ IsFiniteSet(CountedIn(F, w)) /\ Cardinality(CountedIn(F, w)) \in Nat)'
        BY LoadFinite, PTL
  <2> QED
      BY <2>1, <2>2
<1> QED
    BY <1>1, <1>2, LoadFinite, LimitsTyped DEF CapHeld, Load

\* A new message is one more, if its check missed nothing.
LEMMA AppendCounted ==
    ASSUME Typed, NEW F \in SUBSET Fans, NEW w, NEW f \in Fans, NEW m \in Message,
           sent' = [sent EXCEPT ![f] = Append(@, m)]
    PROVE  /\ CountedIn(F, w)' \subseteq CountedIn(F, w) \cup {<<f, Len(sent[f]) + 1>>}
           /\ m.slip # "none" \/ f \notin F => CountedIn(F, w)' \subseteq CountedIn(F, w)
<1>1. Appended(f, m)
      BY AppendedIs DEF Typed, SentKept
<1>2. \A p : p \in CountedIn(F, w)' =>
         \E g \in F : \E i \in DOMAIN sent'[g] :
            p = <<g, i>> /\ sent'[g][i].age <= w /\ sent'[g][i].slip = "none"
      BY DEF CountedIn
<1>3. ASSUME NEW g \in F, NEW i \in DOMAIN sent'[g],
             sent'[g][i].age <= w, sent'[g][i].slip = "none"
      PROVE  \/ i \in DOMAIN sent[g] /\ sent[g][i].age <= w /\ sent[g][i].slip = "none"
             \/ g = f /\ i = Len(sent[f]) + 1 /\ m.slip = "none"
  <2>1. CASE g # f
        BY <1>1, <1>3, <2>1 DEF Appended
  <2>2. CASE g = f
        BY <1>1, <1>3, <2>2 DEF Appended
  <2> QED
      BY <2>1, <2>2
<1> QED
    BY <1>2, <1>3, CountedMember

\* A tick makes the messages older and drops some.
LEMMA TickCounted ==
    ASSUME Typed, Tick, NEW F \in SUBSET Fans, NEW w \in Nat
    PROVE  Cardinality(CountedIn(F, w)') <= Cardinality(CountedIn(F, w))
<1>1. PICK gone \in [Fans -> Nat] : Forgotten(gone)
      BY ForgottenSome DEF Tick, Typed
<1>2. SentTyped
      BY DEF Typed, SentKept
<1> DEFINE S == CountedIn(F, w)'
           T == CountedIn(F, w)
           h == [p \in S |-> <<p[1], p[2] + gone[p[1]]>>]
<1>3. \A p \in S : \E f \in F : \E i \in DOMAIN sent'[f] :
            p = <<f, i>> /\ sent'[f][i].age <= w /\ sent'[f][i].slip = "none"
      BY DEF CountedIn
<1>4. \A p \in T : p \in T
      OBVIOUS
<1>5. ASSUME NEW p \in S
      PROVE  /\ p[1] \in Fans /\ p[2] \in Nat /\ gone[p[1]] \in Nat /\ p = <<p[1], p[2]>>
             /\ <<p[1], p[2] + gone[p[1]]>> \in T
  <2>0. PICK f \in F : \E i \in DOMAIN sent'[f] :
            p = <<f, i>> /\ sent'[f][i].age <= w /\ sent'[f][i].slip = "none"
        BY <1>3
  <2>1. PICK i \in DOMAIN sent'[f] :
            p = <<f, i>> /\ sent'[f][i].age <= w /\ sent'[f][i].slip = "none"
        BY <2>0
  <2>2. /\ i \in Nat /\ gone[f] \in Nat /\ i + gone[f] \in DOMAIN sent[f]
        /\ sent[f][i + gone[f]] \in Message
        /\ sent'[f][i].age = sent[f][i + gone[f]].age + 1
        /\ sent'[f][i].slip = sent[f][i + gone[f]].slip
        BY <1>1, <1>2, ForgottenAt
  <2>3. sent[f][i + gone[f]].age <= w /\ sent[f][i + gone[f]].slip = "none"
        BY <2>1, <2>2, MessageTyped
  <2>4. <<f, i + gone[f]>> \in T
        BY <2>2, <2>3, CountedMember
  <2> QED
      BY <2>1, <2>2, <2>4
<1>6. IsFiniteSet(T)
      BY LoadFinite
<1> HIDE DEF S, T
<1>7. h \in [S -> T]
      BY <1>5
<1>8. ASSUME NEW p \in S, NEW q \in S, h[p] = h[q]
      PROVE  p = q
  <2>1. <<p[1], p[2] + gone[p[1]]>> = <<q[1], q[2] + gone[q[1]]>>
        BY <1>8
  <2>2. p[1] = q[1] /\ p[2] + gone[p[1]] = q[2] + gone[q[1]]
        BY <2>1
  <2>3. p[2] = q[2]
    <3>1. PICK n \in Nat : n = gone[p[1]] /\ n = gone[q[1]]
          BY <1>5, <2>2
    <3>2. PICK i \in Nat, j \in Nat : i = p[2] /\ j = q[2]
          BY <1>5
    <3>3. i + n = j + n
          BY <2>2, <3>1, <3>2
    <3> QED
        BY <3>2, <3>3
  <2> QED
      BY <1>5, <2>2, <2>3
<1>9. h \in Injection(S, T)
  <2> DEFINE g == h
  <2>1. DOMAIN g = S /\ \A p, q \in S : g[p] = g[q] => p = q
        BY <1>8
  <2>2. g \in [S -> T]
        BY <1>7
  <2> HIDE DEF g
  <2>3. g \in Injection(S, T)
        BY <2>1, <2>2 DEF Injection, IsInjective
  <2> QED
      BY <2>3 DEF g
<1> HIDE DEF h
<1>10. Cardinality(S) <= Cardinality(T)
       BY <1>6, <1>9, FS_Injection
<1> QED
    BY <1>10 DEF S, T

LEMMA CountedSame ==
    ASSUME UNCHANGED sent, NEW F, NEW w
    PROVE  CountedIn(F, w)' = CountedIn(F, w)
BY DEF CountedIn

LEMMA NarrowOpen ==
    ASSUME Typed, Typed', RowsNarrow, NEW F \in SUBSET Fans, NEW w \in Nat
    PROVE  OpenIn(F, w)' \subseteq OpenIn(F, w)
<1>1. \A f \in Fans : row[f].age \in Nat /\ row'[f].age \in Nat
      BY WindowsAssumption DEF Typed, RowsTyped, RowRecord
<1> QED
    BY <1>1 DEF RowsNarrow, OpenIn

\* A row that is delivered was one of the open ones, if it counts.
LEMMA DeliverCap ==
    ASSUME Typed, Typed', NEW f \in Fans, Deliver(f),
           NEW F \in SUBSET Fans, NEW w \in {Hour, Day}, NEW limit \in {PerHour, PerDay, PerFan},
           CapHeld(limit, F, w)
    PROVE  CapHeld(limit, F, w)'
<1> DEFINE m == [age |-> 0, apart |-> Cooldown[row[f].kind], slip |-> SlipOf(f)]
<1>1. row[f].status = "sending" /\ row' = [row EXCEPT ![f] = NoRow] /\ w \in Nat /\ w >= Hour
      BY LimitsTyped DEF Deliver
<1>2. \A g \in Fans : row'[g] = IF g = f THEN NoRow ELSE row[g]
      BY <1>1 DEF Typed, RowsTyped
<1>3. NoRow.status = "none"
      BY DEF NoRow
<1>4. OpenIn(F, w)' \subseteq OpenIn(F, w) \ {f}
      BY <1>2, <1>3 DEF OpenIn
<1>5. CASE UNCHANGED sent
      BY <1>4, <1>5, CountedSame, LoadFinite, LoadStays
<1>6. CASE sent' = [sent EXCEPT ![f] = Append(@, m)]
  <2>1. m \in Message /\ m.slip = SlipOf(f)
        BY <1>1, DeliveredTyped
  <2> HIDE DEF m
  <2>2. CASE m.slip # "none" \/ f \notin F
    <3>1. CountedIn(F, w)' \subseteq CountedIn(F, w)
          BY <1>6, <2>1, <2>2, AppendCounted
    <3>2. Cardinality(CountedIn(F, w)') <= Cardinality(CountedIn(F, w))
          BY <3>1, LoadFinite, FS_Subset
    <3> QED
        BY <1>4, <3>2, LoadStays
  <2>3. CASE m.slip = "none" /\ f \in F
    <3> DEFINE x == <<f, Len(sent[f]) + 1>>
               C == CountedIn(F, w)
               O == OpenIn(F, w)
    <3>1. C' \subseteq C \cup {x}
          BY <1>6, <2>1, AppendCounted
    <3>2. f \in O
      <4>1. ~row[f].blind /\ ~(row[f].age > Hour)
            BY <2>1, <2>3 DEF SlipOf
      <4>2. row[f].age \in Nat
            BY RowOf, WindowsAssumption DEF Typed, RowRecord
      <4> QED
          BY <1>1, <2>3, <4>1, <4>2, LimitsTyped DEF OpenIn
    <3>3. /\ IsFiniteSet(C) /\ Cardinality(C) \in Nat /\ IsFiniteSet(O) /\ Cardinality(O) \in Nat
          BY LoadFinite
    <3>4. O' \subseteq O \ {f}
          BY <1>4
    <3> HIDE DEF C, O, x
    <3>5. IsFiniteSet(C \cup {x}) /\ Cardinality(C \cup {x}) <= Cardinality(C) + 1
      <4>1. /\ IsFiniteSet(C \cup {x})
            /\ Cardinality(C \cup {x}) = IF x \in C THEN Cardinality(C) ELSE Cardinality(C) + 1
            BY <3>3, FS_AddElement, Zenon
      <4> QED
          BY <3>3, <4>1
    <3>6. Cardinality(C') <= Cardinality(C) + 1 /\ Cardinality(C') \in Nat
          BY <3>1, <3>3, <3>5, FS_Subset, FS_CardinalityType
    <3>7. IsFiniteSet(O \ {f}) /\ Cardinality(O \ {f}) = Cardinality(O) - 1
      <4>1. /\ IsFiniteSet(O \ {f})
            /\ Cardinality(O \ {f}) = IF f \in O THEN Cardinality(O) - 1 ELSE Cardinality(O)
            BY <3>3, FS_RemoveElement, Zenon
      <4> QED
          BY <3>2, <4>1
    <3>8. Cardinality(O') <= Cardinality(O) - 1 /\ Cardinality(O') \in Nat
          BY <3>3, <3>4, <3>7, FS_Subset, FS_CardinalityType
    <3>9. Load(F, w)' <= Load(F, w)
          BY <3>3, <3>6, <3>8 DEF Load, C, O
    <3>10. Load(F, w)' \in Nat
          BY <3>6, <3>8 DEF Load, C, O
    <3> QED
        BY <3>9, <3>10, LoadFinite, LimitsTyped DEF CapHeld
  <2> QED
      BY <2>2, <2>3
<1> QED
    BY <1>5, <1>6 DEF Deliver

\* A step that sends nothing that counts.
LEMMA OtherCap ==
    ASSUME Typed, Typed', NEW F \in SUBSET Fans, NEW w \in {Hour, Day},
           NEW limit \in {PerHour, PerDay, PerFan}, CapHeld(limit, F, w),
           \/ UNCHANGED sent /\ RowsNarrow
           \/ \E f \in Fans : DeliverHidden(f)
           \/ Tick
    PROVE  CapHeld(limit, F, w)'
<1>1. w \in Nat
      BY LimitsTyped
<1>2. CASE UNCHANGED sent /\ RowsNarrow
      BY <1>1, <1>2, CountedSame, NarrowOpen, LoadFinite, LoadStays
<1>3. ASSUME NEW f \in Fans, DeliverHidden(f)
      PROVE  CapHeld(limit, F, w)'
  <2> DEFINE m == [age |-> 0, apart |-> 1, slip |-> "hidden"]
  <2>1. sent' = [sent EXCEPT ![f] = Append(@, m)] /\ UNCHANGED row
        BY <1>3 DEF DeliverHidden
  <2>2. m \in Message /\ m.slip # "none"
        BY DeliveredTyped
  <2> HIDE DEF m
  <2>3. CountedIn(F, w)' \subseteq CountedIn(F, w)
        BY <2>1, <2>2, AppendCounted
  <2>4. Cardinality(CountedIn(F, w)') <= Cardinality(CountedIn(F, w))
        BY <2>3, LoadFinite, FS_Subset
  <2>5. OpenIn(F, w)' \subseteq OpenIn(F, w)
        BY <2>1 DEF OpenIn
  <2> QED
      BY <2>4, <2>5, LoadStays
<1>4. CASE Tick
  <2>1. Cardinality(CountedIn(F, w)') <= Cardinality(CountedIn(F, w))
        BY <1>1, <1>4, TickCounted
  <2>2. OpenIn(F, w)' \subseteq OpenIn(F, w)
    <3>1. ASSUME NEW f \in Fans, row'[f].status # "none", ~row'[f].blind, row'[f].age <= w
          PROVE  row[f].status # "none" /\ ~row[f].blind /\ row[f].age <= w
      <4>1. row[f].status # "none" /\ row'[f].blind = row[f].blind
            /\ (row'[f].age = row[f].age + 1 \/ row'[f].age = Day + 1)
            BY <1>4, <3>1, RowOlder DEF Typed
      <4>2. row[f].age \in Nat /\ Day \in Nat /\ w <= Day
            BY RowOf, LimitsTyped DEF Typed, RowRecord
      <4> QED
          BY <1>1, <3>1, <4>1, <4>2
    <3> QED
        BY <3>1 DEF OpenIn
  <2> QED
      BY <2>1, <2>2, LoadStays
<1> QED
    BY <1>2, <1>3, <1>4

LEMMA Queued ==
    ASSUME NEW F \in SUBSET Fans, NEW w
    PROVE  QueuedWithin(F, w) \in Nat /\ Cardinality(OpenIn(F, w)) <= QueuedWithin(F, w)
<1> DEFINE Q == {f \in F : row[f].status # "none" /\ row[f].age <= w}
<1>1. IsFiniteSet(Fans) /\ Q \in SUBSET Fans /\ OpenIn(F, w) \in SUBSET Q
      BY CapsAssumption DEF OpenIn
<1>2. QueuedWithin(F, w) = Cardinality(Q)
      BY DEF QueuedWithin
<1> HIDE DEF Q
<1> QED
    BY <1>1, <1>2, FS_Subset, FS_CardinalityType

LEMMA SentCounted ==
    ASSUME Typed, NEW F \in SUBSET Fans, NEW w
    PROVE  SentWithin(F, w) >= Cardinality(CountedIn(F, w))
<1> DEFINE S == UNION {{<<f, i>> : i \in {j \in DOMAIN sent[f] : sent[f][j].age <= w}} : f \in F}
<1>1. \A p \in S : p \in SentPairs
      BY SentOf DEF Typed, SentKept
<1>2. S \in SUBSET SentPairs
      BY <1>1
<1>3. CountedIn(F, w) \in SUBSET S
      BY CountedMember
<1>4. SentWithin(F, w) = Cardinality(S)
      BY DEF SentWithin
<1> HIDE DEF S
<1> QED
    BY <1>2, <1>3, <1>4, FS_Subset, FS_CardinalityType DEF Typed, SentKept, SentFinite

\* A row is written: one more is open, and the check has left room for it.
LEMMA NewRowCap ==
    ASSUME Typed, Typed', NEW F \in SUBSET Fans, NEW w \in {Hour, Day},
           NEW limit \in {PerHour, PerDay, PerFan}, CapHeld(limit, F, w),
           NEW f \in Fans, UNCHANGED sent, row' = [row EXCEPT ![f] = NewRow(f)],
           poller.kind \in Kinds, NEW read \in Nat,
           \/ poller.raced \/ f \notin F
           \/ /\ read >= Cardinality(CountedIn(F, w))
              /\ ~Reached(read + QueuedWithin(F, w), limit[poller.kind])
    PROVE  CapHeld(limit, F, w)'
<1> DEFINE C == CountedIn(F, w)
           O == OpenIn(F, w)
<1>1. C' = C
      BY CountedSame
<1>2. \A g \in Fans : row'[g] = IF g = f THEN NewRow(f) ELSE row[g]
      BY DEF Typed, RowsTyped
<1>3. NewRow(f).blind = poller.raced
      BY DEF NewRow
<1>4. CASE poller.raced \/ f \notin F
  <2>1. O' \subseteq O
        BY <1>2, <1>3, <1>4 DEF OpenIn
  <2> QED
      BY <1>1, <2>1, LoadFinite, LoadStays
<1>5. CASE ~poller.raced /\ f \in F
  <2>1. O' \subseteq O \cup {f}
        BY <1>2 DEF OpenIn
  <2>2. /\ Cardinality(C) \in Nat /\ IsFiniteSet(O) /\ Cardinality(O) \in Nat
        BY LoadFinite
  <2>3. Cardinality(O) <= QueuedWithin(F, w) /\ QueuedWithin(F, w) \in Nat
        BY Queued
  <2>4. read >= Cardinality(C) /\ ~Reached(read + QueuedWithin(F, w), limit[poller.kind])
        BY <1>5
  <2>5. limit[poller.kind] = 0 \/ read + QueuedWithin(F, w) < limit[poller.kind]
        BY <2>3, <2>4, LimitsTyped DEF Reached
  <2>6. limit[poller.kind] \in Nat /\ limit[poller.kind] <= Larger(limit) /\ Larger(limit) \in Nat
        BY LimitsTyped
  <2> HIDE DEF C, O
  <2>7. IsFiniteSet(O \cup {f}) /\ Cardinality(O \cup {f}) <= Cardinality(O) + 1
    <3>1. /\ IsFiniteSet(O \cup {f})
          /\ Cardinality(O \cup {f}) = IF f \in O THEN Cardinality(O) ELSE Cardinality(O) + 1
          BY <2>2, FS_AddElement, Zenon
    <3> QED
        BY <2>2, <3>1
  <2>8. Cardinality(O') <= Cardinality(O) + 1 /\ Cardinality(O') \in Nat
        BY <2>1, <2>2, <2>7, FS_Subset, FS_CardinalityType
  <2>9. CASE limit[poller.kind] = 0
        BY <2>9 DEF CapHeld
  <2>10. CASE limit[poller.kind] # 0
    <3>1. Cardinality(C') + Cardinality(O') <= Larger(limit)
          BY <1>1, <2>2, <2>3, <2>4, <2>5, <2>6, <2>8, <2>10
    <3> QED
        BY <3>1 DEF CapHeld, Load, C, O
  <2> QED
      BY <2>9, <2>10
<1>6. poller.raced \in BOOLEAN
      BY DEF Typed, PollTyped, PollRecord
<1> QED
    BY <1>4, <1>5, <1>6

\* A poll keeps the caps: the row it writes was allowed by what it had read.
LEMMA PollCap ==
    ASSUME Typed, Typed', PollCounted, PollStep,
           NEW F \in SUBSET Fans, NEW w \in {Hour, Day}, NEW limit \in {PerHour, PerDay, PerFan},
           CapHeld(limit, F, w),
           \/ limit = PerHour /\ F = Fans /\ w = Hour
           \/ limit = PerDay /\ F = Fans /\ w = Day
           \/ \E g \in Fans : limit = PerFan /\ F = {g} /\ w = Day
    PROVE  CapHeld(limit, F, w)'
<1>1. UNCHANGED sent
      BY DEF PollStep, Observe, Consider, CountSent, CountQueued, history
<1>2. CASE row' = row
  <2>1. RowsNarrow
        BY <1>2, RowOf, WindowsAssumption DEF RowsNarrow, Typed, RowRecord
  <2> QED
      BY <1>1, <2>1, OtherCap
<1>3. CASE row' # row
  <2>1. PICK f \in Fans : CountQueued(f) /\ row' = [row EXCEPT ![f] = NewRow(f)] /\ Allowed(f)
        BY <1>3 DEF PollStep, Observe, Consider, CountSent, CountQueued
  <2>2. poller.pc = "queued" /\ poller.fan = {f} /\ poller.kind \in Kinds
        /\ poller.hour \in Nat /\ poller.day \in Nat /\ poller.own \in Nat
        BY <2>1 DEF CountQueued, Typed, PollTyped, PollRecord
  <2>3. \/ poller.raced
        \/ /\ poller.hour >= Cardinality(CountedIn(Fans, Hour))
           /\ poller.day >= Cardinality(CountedIn(Fans, Day))
           /\ poller.own >= Cardinality(CountedIn({f}, Day))
        BY <2>2 DEF PollCounted
  <2>4. CASE limit = PerHour /\ F = Fans /\ w = Hour
    <3>1. ~Reached(poller.hour + QueuedWithin(Fans, Hour), PerHour[poller.kind])
          BY <2>1 DEF Allowed
    <3> QED
        BY <1>1, <2>1, <2>2, <2>3, <2>4, <3>1, NewRowCap
  <2>5. CASE limit = PerDay /\ F = Fans /\ w = Day
    <3>1. ~Reached(poller.day + QueuedWithin(Fans, Day), PerDay[poller.kind])
          BY <2>1 DEF Allowed
    <3> QED
        BY <1>1, <2>1, <2>2, <2>3, <2>5, <3>1, NewRowCap
  <2>6. ASSUME NEW g \in Fans, limit = PerFan, F = {g}, w = Day
        PROVE  CapHeld(limit, F, w)'
    <3>1. ~Reached(poller.own + QueuedWithin({f}, Day), PerFan[poller.kind])
          BY <2>1 DEF Allowed
    <3>2. CASE g = f
          BY <1>1, <2>1, <2>2, <2>3, <2>6, <3>1, <3>2, NewRowCap
    <3>3. CASE g # f
      <4>1. f \notin F
            BY <2>6, <3>3
      <4> QED
          BY <1>1, <2>1, <2>2, <4>1, NewRowCap
    <3> QED
        BY <3>2, <3>3
  <2> QED
      BY <2>4, <2>5, <2>6
<1> QED
    BY <1>2, <1>3

LEMMA CapNext ==
    ASSUME Typed, Typed', PollCounted, OutreachNext,
           NEW F \in SUBSET Fans, NEW w \in {Hour, Day}, NEW limit \in {PerHour, PerDay, PerFan},
           CapHeld(limit, F, w),
           \/ limit = PerHour /\ F = Fans /\ w = Hour
           \/ limit = PerDay /\ F = Fans /\ w = Day
           \/ \E g \in Fans : limit = PerFan /\ F = {g} /\ w = Day
    PROVE  CapHeld(limit, F, w)'
BY QuietSteps, OtherCap, DeliverCap, PollCap

\* What a check has read stays as good, unless a send ends while it goes on.
LEMMA PollCountedNext ==
    ASSUME Typed, PollCounted, OutreachNext
    PROVE  PollCounted'
<1>1. CASE UNCHANGED sent /\ PollQuiet
  <2>1. \A f \in Fans : CountedIn({f}, Day)' = CountedIn({f}, Day)
        BY <1>1, CountedSame
  <2>2. CountedIn(Fans, Day)' = CountedIn(Fans, Day) /\ CountedIn(Fans, Hour)' = CountedIn(Fans, Hour)
        BY <1>1, CountedSame
  <2>3. poller.fan \in SUBSET Fans
        BY DEF Typed, PollTyped, PollRecord
  <2> QED
      BY <1>1, <2>1, <2>2, <2>3 DEF PollQuiet, PollCounted
<1>2. CASE Tick
      BY <1>2 DEF Tick, PollCounted
<1>3. ASSUME NEW f \in Fans, Deliver(f)
      PROVE  PollCounted'
  <2>1. CASE UNCHANGED <<sent, poller>>
        BY <1>1, <2>1 DEF PollQuiet
  <2>2. CASE poller' = Raced
    <3>1. CASE poller.pc \in {"sent", "queued"}
          BY <2>2, <3>1 DEF Raced, PollCounted, Typed, PollTyped, PollRecord
    <3>2. CASE poller.pc \notin {"sent", "queued"}
          BY <2>2, <3>2 DEF Raced, PollCounted
    <3> QED
        BY <3>1, <3>2
  <2> QED
      BY <1>3, <2>1, <2>2 DEF Deliver
<1>4. ASSUME NEW f \in Fans, DeliverHidden(f)
      PROVE  PollCounted'
  <2> DEFINE m == [age |-> 0, apart |-> 1, slip |-> "hidden"]
  <2>1. sent' = [sent EXCEPT ![f] = Append(@, m)] /\ UNCHANGED poller
        BY <1>4 DEF DeliverHidden
  <2>2. m \in Message /\ m.slip # "none"
        BY DeliveredTyped
  <2> HIDE DEF m
  <2>3. ASSUME NEW F \in SUBSET Fans, NEW w
        PROVE  Cardinality(CountedIn(F, w)') <= Cardinality(CountedIn(F, w))
               /\ Cardinality(CountedIn(F, w)') \in Nat /\ Cardinality(CountedIn(F, w)) \in Nat
    <3>1. CountedIn(F, w)' \in SUBSET CountedIn(F, w)
          BY <2>1, <2>2, AppendCounted
    <3> QED
        BY <3>1, LoadFinite, FS_Subset, FS_CardinalityType
  <2>4. /\ poller.fan \in SUBSET Fans /\ poller.hour \in Nat /\ poller.day \in Nat /\ poller.own \in Nat
        BY DEF Typed, PollTyped, PollRecord
  <2>5. CASE poller.pc = "queued" /\ ~poller.raced
    <3>1. poller.hour >= Cardinality(CountedIn(Fans, Hour)') /\ poller.day >= Cardinality(CountedIn(Fans, Day)')
          BY <2>3, <2>4, <2>5 DEF PollCounted
    <3>2. ASSUME NEW g \in poller.fan
          PROVE  poller.own >= Cardinality(CountedIn({g}, Day)')
      <4>1. poller.own >= Cardinality(CountedIn({g}, Day)) /\ {g} \in SUBSET Fans
            BY <2>4, <2>5 DEF PollCounted
      <4> QED
          BY <2>3, <2>4, <4>1
    <3> QED
        BY <2>1, <3>1, <3>2 DEF PollCounted
  <2> QED
      BY <2>1, <2>5 DEF PollCounted
<1>5. CASE PollStep
  <2>1. UNCHANGED sent
        BY <1>5 DEF PollStep, Observe, Consider, CountSent, CountQueued, history
  <2>2. CASE PollQuiet
        BY <1>1, <2>1, <2>2
  <2>3. CASE ~PollQuiet
    <3>1. poller'.pc \in {"sent", "queued"} /\ poller' # poller
          BY <2>3 DEF PollQuiet
    <3>2. CASE \E f \in Fans : CountSent(f)
      <4>1. PICK f \in Fans : CountSent(f)
            BY <3>2
      <4>2. poller.pc = "sent" /\ poller.fan = {f}
            BY <4>1 DEF CountSent
      <4>3. poller' # NextFan(f)
            BY <3>1, <4>2, NextFanTyped DEF Typed
      <4>4. poller' = [poller EXCEPT !.pc = "queued", !.hour = SentWithin(Fans, Hour),
                          !.day = SentWithin(Fans, Day), !.own = SentWithin({f}, Day)]
            BY <4>1, <4>3 DEF CountSent
      <4>5. /\ poller'.hour = SentWithin(Fans, Hour) /\ poller'.day = SentWithin(Fans, Day)
            /\ poller'.own = SentWithin({f}, Day) /\ poller'.fan = {f}
            BY <4>2, <4>4 DEF Typed, PollTyped, PollRecord
      <4>6. \A F \in SUBSET Fans : \A w : CountedIn(F, w)' = CountedIn(F, w)
            BY <2>1, CountedSame
      <4> QED
          BY <4>5, <4>6, SentCounted DEF PollCounted
    <3>3. ASSUME NEW f \in Fans, NEW age, Observe(f, age)
          PROVE  PollCounted'
      <4>1. poller.pc = "look"
            BY <3>3 DEF Observe
      <4>2. poller'.pc # "queued"
        <5>1. CASE poller' = NextFan(f)
              BY <4>1, <5>1, NextFanTyped DEF Typed
        <5>2. CASE poller' = [poller EXCEPT !.pc = "sent", !.fan = {f}, !.age = age]
              BY <5>2 DEF Typed, PollTyped, PollRecord
        <5> QED
            BY <3>3, <5>1, <5>2 DEF Observe
      <4> QED
          BY <4>2 DEF PollCounted
    <3>4. ASSUME NEW f \in Fans, Consider(f)
          PROVE  PollCounted'
      <4>1. poller.pc = "look"
            BY <3>4 DEF Consider
      <4>2. poller'.pc # "queued"
        <5>1. CASE poller' = NextFan(f)
              BY <4>1, <5>1, NextFanTyped DEF Typed
        <5>2. CASE poller' = [poller EXCEPT !.pc = "sent", !.fan = {f}]
              BY <5>2 DEF Typed, PollTyped, PollRecord
        <5> QED
            BY <3>4, <5>1, <5>2 DEF Consider
      <4> QED
          BY <4>2 DEF PollCounted
    <3>5. ASSUME NEW f \in Fans, CountQueued(f)
          PROVE  PollCounted'
      <4>1. poller'.pc # "queued"
            BY <3>5, NextFanTyped DEF CountQueued, Typed
      <4> QED
          BY <4>1 DEF PollCounted
    <3> QED
        BY <1>5, <3>2, <3>3, <3>4, <3>5 DEF PollStep
  <2> QED
      BY <2>2, <2>3
<1> QED
    BY <1>1, <1>2, <1>3, <1>4, <1>5, QuietSteps

LEMMA CapsNext ==
    ASSUME Typed, Typed', CapsInv, [OutreachNext]_outreachVars
    PROVE  CapsInv'
<1>1. CASE UNCHANGED outreachVars
  <2>1. UNCHANGED <<sent, row, poller>>
        BY <1>1 DEF outreachVars, history
  <2> QED
      BY <2>1 DEF CapsInv, CapHeld, Load, CountedIn, OpenIn, PollCounted
<1>2. CASE OutreachNext
  <2>1. CapHeld(PerHour, Fans, Hour)'
        BY <1>2, CapNext DEF CapsInv
  <2>2. CapHeld(PerDay, Fans, Day)'
        BY <1>2, CapNext DEF CapsInv
  <2>3. ASSUME NEW f \in Fans PROVE CapHeld(PerFan, {f}, Day)'
        BY <1>2, CapNext DEF CapsInv
  <2> QED
      BY <1>2, <2>1, <2>2, <2>3, PollCountedNext DEF CapsInv
<1> QED
    BY <1>1, <1>2

LEMMA CapsInit == ASSUME OutreachInit PROVE CapsInv
<1>1. \A F \in SUBSET Fans : \A w : CountedIn(F, w) = {} /\ OpenIn(F, w) = {}
      BY DEF OutreachInit, NoRow, CountedIn, OpenIn
<1>2. \A limit \in {PerHour, PerDay, PerFan} : Larger(limit) \in Nat
      BY LimitsTyped
<1>3. Cardinality({}) = 0
      BY FS_EmptySet
<1>4. \A F \in SUBSET Fans : \A w : Load(F, w) = 0
      BY SMTT(30), <1>1, <1>3 DEF Load
<1>5. \A F \in SUBSET Fans : \A w : \A limit \in {PerHour, PerDay, PerFan} : CapHeld(limit, F, w)
      BY <1>2, <1>4 DEF CapHeld
<1>6. PollCounted
      BY DEF OutreachInit, Resting, PollCounted
<1> QED
    BY <1>5, <1>6 DEF CapsInv

LEMMA CapsKept == ASSUME Typed, CapsInv PROVE CapsUnlessSlipped
<1>1. \A F \in SUBSET Fans : \A w : Counted(F, w) = Cardinality(CountedIn(F, w))
      BY DEF Counted, CountedIn
<1>2. ASSUME NEW F \in SUBSET Fans, NEW w, NEW limit \in {PerHour, PerDay, PerFan}, CapHeld(limit, F, w)
      PROVE  Within(limit, F, w)
  <2>1. Cardinality(CountedIn(F, w)) \in Nat /\ Cardinality(OpenIn(F, w)) \in Nat
        /\ Larger(limit) \in Nat
        BY LoadFinite, LimitsTyped
  <2> QED
      BY <1>1, <1>2, <2>1 DEF CapHeld, Load, Within
<1> QED
    BY <1>2 DEF CapsInv, CapsUnlessSlipped

-----------------------------------------------------------------------------
(* The theorems.                                                           *)

\* Every variable keeps its type, for any fans, windows, limits and bounds.
THEOREM OutreachTypeCorrect == OutreachSpec => []OutreachTypeOK
<1>1. OutreachInit => Typed
      BY TypedInit
<1>2. Typed /\ [OutreachNext]_outreachVars => Typed'
      BY TypedNext
<1>3. Typed => OutreachTypeOK
      BY OutTypes DEF Typed, SentKept
<1> QED
    BY <1>1, <1>2, <1>3, PTL DEF OutreachSpec

\* Two proactive messages to one fan are a cooldown apart, unless a send that ended
\* between two reads of the check, or one whose row was already completed, was not
\* seen (presence.py:291-316).
THEOREM CooldownIsHeld == OutreachSpec => []CooldownHeld
<1>1. OutreachInit => Typed /\ CooldownInv
      BY TypedInit, CooldownInit
<1>2. Typed /\ CooldownInv /\ [OutreachNext]_outreachVars => (Typed /\ CooldownInv)'
      BY TypedNext, CooldownNext
<1>3. CooldownInv => CooldownHeld
      BY DEF CooldownInv
<1> QED
    BY <1>1, <1>2, <1>3, PTL DEF OutreachSpec

\* Within any hour and any day no more proactive messages go out, to all fans or to
\* one, than the larger of the two kinds' limits, but for the sends that slip
\* (presence.py:358-395).
THEOREM CapsAreHeld == OutreachSpec => []CapsUnlessSlipped
<1>1. OutreachInit => Typed /\ CapsInv
      BY TypedInit, CapsInit
<1>2. Typed /\ CapsInv /\ [OutreachNext]_outreachVars => (Typed /\ CapsInv)'
      BY TypedNext, CapsNext
<1>3. Typed /\ CapsInv => CapsUnlessSlipped
      BY CapsKept
<1> QED
    BY <1>1, <1>2, <1>3, PTL DEF OutreachSpec

-----------------------------------------------------------------------------
\* Documents: one document of a type is in force.

TxRecord == [pc : {"none", "selected", "archiving"}, doc : Nat, sees : SUBSET Nat,
             holds : SUBSET Nat, overtaken : BOOLEAN]
ActiveIn(k, type) == {d \in DOMAIN k : k[d].type = type /\ k[d].status = "active"}

\* A transaction that nothing has overtaken sees all that is active of its type.
TxOK(k, x) ==
    /\ x.pc # "none" => x.doc \in DOMAIN k
    /\ x.pc = "archiving" =>
          /\ \A d \in x.sees : d \in DOMAIN k /\ k[d].type = k[x.doc].type
          /\ ~x.overtaken => ActiveIn(k, k[x.doc].type) \subseteq x.sees

\* What bootstrap has created.
Booted(k, n) ==
    n > 0 => /\ Len(k) = n
             /\ \A i \in 1..n : k[i].type = Bootstrap[i].type /\ k[i].status = Bootstrap[i].status

OneIn(k, gone) == \A type : type \notin gone => \A d, e \in ActiveIn(k, type) : d = e

DocsInv ==
    /\ \E S : docs \in Seq(S)
    /\ boot \in Int /\ -1 =< boot /\ boot =< Len(Bootstrap)
    /\ Booted(docs, boot)
    /\ tx \in [Operators -> TxRecord]
    /\ \A o \in Operators : TxOK(docs, tx[o]) /\ (boot >= 0 => tx[o].pc = "none")
    /\ OneIn(docs, raced)

LEMMA DocAppended ==
    ASSUME NEW S, NEW k \in Seq(S), NEW x
    PROVE  /\ Append(k, x) \in Seq(S \cup {x})
           /\ Len(Append(k, x)) = Len(k) + 1 /\ Len(k) \in Nat
           /\ DOMAIN k = 1..Len(k) /\ DOMAIN Append(k, x) = 1..(Len(k) + 1)
           /\ \A i \in 1..Len(k) : Append(k, x)[i] = k[i]
           /\ Append(k, x)[Len(k) + 1] = x
<1>1. k \in Seq(S \cup {x})
      BY SeqDef
<1> QED
    BY <1>1

\* A document is added, of which nothing else of its type may be active if it is.
LEMMA DocAdded ==
    ASSUME DocsInv, NEW type, NEW status, status \in {"active", "draft"},
           docs' = Append(docs, New(type, status)), UNCHANGED <<tx, raced>>,
           status = "active" => boot >= 0 /\ ActiveIn(docs, type) = {}
    PROVE  /\ \E S : docs' \in Seq(S)
           /\ \A o \in Operators : TxOK(docs', tx'[o])
           /\ OneIn(docs', raced')
<1> DEFINE x == New(type, status)
           n == Len(docs)
<1>1. PICK S : docs \in Seq(S)
      BY DEF DocsInv
<1>2. x.type = type /\ x.status = status
      BY DEF New
<1> HIDE DEF x
<1>3. /\ docs' \in Seq(S \cup {x})
      /\ n \in Nat /\ DOMAIN docs = 1..n /\ DOMAIN docs' = 1..(n + 1)
      /\ \A i \in 1..n : docs'[i] = docs[i]
      /\ docs'[n + 1] = x
      BY <1>1, DocAppended DEF x
<1>4. \A t : ActiveIn(docs', t) = ActiveIn(docs, t) \cup (IF status = "active" /\ t = type THEN {n + 1} ELSE {})
      BY <1>2, <1>3 DEF ActiveIn
<1>5. OneIn(docs', raced')
      BY <1>4 DEF OneIn, DocsInv
<1>6. ASSUME NEW o \in Operators PROVE TxOK(docs', tx'[o])
  <2>1. TxOK(docs, tx[o]) /\ (status = "active" => tx[o].pc = "none")
        BY DEF DocsInv
  <2>2. ASSUME NEW d \in DOMAIN docs PROVE d \in DOMAIN docs' /\ docs'[d].type = docs[d].type
        BY <1>3
  <2>3. status # "active" => \A t : ActiveIn(docs', t) = ActiveIn(docs, t)
        BY <1>4
  <2>4. CASE tx[o].pc = "none"
        BY <2>4 DEF TxOK
  <2>5. CASE tx[o].pc # "none"
    <3>1. tx[o].doc \in DOMAIN docs'
          BY <2>1, <2>2, <2>5 DEF TxOK
    <3>2. docs'[tx[o].doc].type = docs[tx[o].doc].type
          BY <2>1, <2>2, <2>5 DEF TxOK
    <3>3. ASSUME tx[o].pc = "archiving" PROVE \A d \in tx[o].sees : d \in DOMAIN docs' /\ docs'[d].type = docs'[tx[o].doc].type
          BY <2>1, <2>2, <3>2, <3>3 DEF TxOK
    <3>4. ASSUME tx[o].pc = "archiving", ~tx[o].overtaken PROVE ActiveIn(docs', docs'[tx[o].doc].type) \subseteq tx[o].sees
          BY <2>1, <2>3, <2>5, <3>2, <3>4 DEF TxOK
    <3> QED
        BY <3>1, <3>3, <3>4 DEF TxOK
  <2> QED
      BY <2>4, <2>5
<1> QED
    BY <1>3, <1>5, <1>6

\* One transaction moves, the documents stay.
LEMMA TxMoved ==
    ASSUME DocsInv, UNCHANGED <<docs, boot, raced>>, NEW o \in Operators, NEW x \in TxRecord,
           tx' = [tx EXCEPT ![o] = x], TxOK(docs, x), boot >= 0 => x.pc = "none"
    PROVE  DocsInv'
<1>1. tx' \in [Operators -> TxRecord]
      BY DEF DocsInv
<1>2. \A p \in Operators : TxOK(docs, tx'[p]) /\ (boot >= 0 => tx'[p].pc = "none")
      BY DEF DocsInv
<1> QED
    BY <1>1, <1>2 DEF DocsInv

LEMMA DocsStart == DocumentsInit => DocsInv
<1> SUFFICES ASSUME DocumentsInit PROVE DocsInv
    OBVIOUS
<1>1. docs = <<>> /\ boot = 0 /\ tx = [o \in Operators |-> NoTx] /\ raced = {}
      BY DEF DocumentsInit
<1>2. docs \in Seq({}) /\ DOMAIN docs = {}
      BY <1>1
<1>3. Len(Bootstrap) \in Nat
      BY DocumentsAssumption
<1>4. NoTx \in TxRecord /\ NoTx.pc = "none"
      BY DEF NoTx, TxRecord
<1>5. tx \in [Operators -> TxRecord] /\ \A o \in Operators : TxOK(docs, tx[o]) /\ tx[o].pc = "none"
      BY <1>1, <1>4 DEF TxOK
<1>6. OneIn(docs, raced)
      BY <1>2 DEF OneIn, ActiveIn
<1>7. Booted(docs, boot)
      BY <1>1 DEF Booted
<1> QED
    BY <1>1, <1>2, <1>3, <1>5, <1>6, <1>7 DEF DocsInv

LEMMA DocsStep == DocsInv /\ [DocumentsNext]_documentVars => DocsInv'
<1> SUFFICES ASSUME DocsInv, [DocumentsNext]_documentVars PROVE DocsInv'
    OBVIOUS
<1>1. /\ boot \in Int /\ -1 =< boot /\ boot =< Len(Bootstrap) /\ Len(Bootstrap) \in Nat
      /\ Booted(docs, boot)
      /\ tx \in [Operators -> TxRecord]
      /\ \A o \in Operators : TxOK(docs, tx[o]) /\ (boot >= 0 => tx[o].pc = "none")
      /\ OneIn(docs, raced)
      BY DocumentsAssumption DEF DocsInv
<1>2. PICK S : docs \in Seq(S)
      BY DEF DocsInv
<1>3. Len(docs) \in Nat /\ DOMAIN docs = 1..Len(docs)
      BY <1>2
<1>4. NoTx \in TxRecord /\ NoTx.pc = "none" /\ \A k : TxOK(k, NoTx)
      BY DEF NoTx, TxRecord, TxOK
<1>5. CASE Boot
  <2>1. CASE boot' = -1 /\ docs' = docs
    <3>1. UNCHANGED <<tx, raced>>
          BY <1>5 DEF Boot
    <3>2. Booted(docs', boot')
          BY <2>1 DEF Booted
    <3> QED
        BY <1>1, <1>2, <2>1, <3>1, <3>2 DEF DocsInv
  <2>2. CASE ~(boot = Len(Bootstrap) \/ (boot = 0 /\ docs # <<>>))
    <3> DEFINE type == Bootstrap[boot + 1].type
               status == Bootstrap[boot + 1].status
    <3>1. /\ boot >= 0 /\ boot' = boot + 1 /\ docs' = Append(docs, New(type, status))
          /\ UNCHANGED <<tx, raced>>
          BY <1>5, <2>2 DEF Boot
    <3>2. boot + 1 \in DOMAIN Bootstrap
          BY <1>1, <2>2, <3>1, DocumentsAssumption
    <3>3. status \in {"active", "draft"}
      <4> DEFINE B == [type : Range(Order) \cup {"sales_playbook"}, status : {"active", "draft"}]
      <4>1. \A b \in B : b.status \in {"active", "draft"}
            OBVIOUS
      <4>2. Bootstrap \in Seq(B)
            BY DocumentsAssumption
      <4> HIDE DEF B
      <4>3. Bootstrap[boot + 1] \in B
            BY <3>2, <4>2
      <4> QED
          BY <4>1, <4>3
    <3>4. Len(docs) = boot /\ \A i \in 1..boot : docs[i].type = Bootstrap[i].type /\ docs[i].status = Bootstrap[i].status
      <4>1. CASE boot = 0
        <5>1. Len(docs) = 0
              BY <1>2, <2>2, <4>1
        <5> QED
            BY <4>1, <5>1
      <4>2. CASE boot > 0
            BY <1>1, <4>2 DEF Booted
      <4> QED
          BY <1>1, <3>1, <4>1, <4>2
    <3>5. status = "active" => ActiveIn(docs, type) = {}
      <4>1. SUFFICES ASSUME status = "active", NEW d \in ActiveIn(docs, type) PROVE FALSE
            OBVIOUS
      <4>2. d \in 1..boot /\ Bootstrap[d].type = type /\ Bootstrap[d].status = "active"
            BY <1>3, <3>4, <4>1 DEF ActiveIn
      <4>3. d \in DOMAIN Bootstrap /\ d # boot + 1
            BY <1>1, <4>2, DocumentsAssumption
      <4> QED
          BY <3>2, <4>1, <4>2, <4>3, DocumentsAssumption
    <3>6. /\ \E T : docs' \in Seq(T)
          /\ \A o \in Operators : TxOK(docs', tx'[o])
          /\ OneIn(docs', raced')
      <4> HIDE DEF type, status
      <4> QED
          BY <3>1, <3>3, <3>5, DocAdded
    <3>7. Booted(docs', boot')
      <4> DEFINE x == New(type, status)
      <4>1. x.type = type /\ x.status = status
            BY DEF New
      <4> HIDE DEF x
      <4>2. /\ Len(docs') = boot + 1 /\ \A i \in 1..boot : docs'[i] = docs[i]
            /\ docs'[boot + 1] = x
            BY <1>2, <3>1, <3>4, DocAppended DEF x
      <4>3. ASSUME NEW i \in 1..(boot + 1)
            PROVE  docs'[i].type = Bootstrap[i].type /\ docs'[i].status = Bootstrap[i].status
        <5>1. CASE i = boot + 1
              BY <4>1, <4>2, <5>1
        <5>2. CASE i # boot + 1
          <6>1. i \in 1..boot
                BY <1>1, <5>2
          <6> QED
              BY <3>4, <4>2, <6>1
        <5> QED
            BY <5>1, <5>2
      <4> QED
          BY <3>1, <4>2, <4>3 DEF Booted
    <3>8. boot' \in Int /\ -1 =< boot' /\ boot' =< Len(Bootstrap)
          BY <1>1, <2>2, <3>1
    <3>9. tx' \in [Operators -> TxRecord] /\ \A o \in Operators : tx'[o].pc = "none"
          BY <1>1, <3>1
    <3> QED
        BY <3>6, <3>7, <3>8, <3>9 DEF DocsInv
  <2> QED
      BY <1>5, <2>1, <2>2 DEF Boot
<1>6. CASE StopProcess
  <2>1. boot' = 0 /\ tx' = [o \in Operators |-> NoTx] /\ UNCHANGED <<docs, raced>>
        BY <1>6 DEF StopProcess
  <2>2. tx' \in [Operators -> TxRecord] /\ \A o \in Operators : TxOK(docs', tx'[o]) /\ tx'[o].pc = "none"
        BY <1>4, <2>1
  <2>3. Booted(docs', boot')
        BY <2>1 DEF Booted
  <2> QED
      BY <1>1, <1>2, <2>1, <2>2, <2>3 DEF DocsInv
<1>7. ASSUME NEW type, SaveDraft(type) PROVE DocsInv'
  <2>1. /\ boot = -1 /\ boot' = boot /\ docs' = Append(docs, New(type, "draft")) /\ UNCHANGED <<tx, raced>>
        BY <1>7 DEF SaveDraft
  <2>2. /\ \E T : docs' \in Seq(T)
        /\ \A o \in Operators : TxOK(docs', tx'[o])
        /\ OneIn(docs', raced')
        BY <2>1, DocAdded
  <2>3. Booted(docs', boot')
        BY <2>1 DEF Booted
  <2> QED
      BY <1>1, <2>1, <2>2, <2>3 DEF DocsInv
<1>8. ASSUME NEW o \in Operators, NEW d \in DOMAIN docs, Select(o, d) PROVE DocsInv'
  <2> DEFINE x == [NoTx EXCEPT !.pc = "selected", !.doc = d, !.holds = {d}]
  <2>1. /\ boot = -1 /\ UNCHANGED <<docs, boot, raced>> /\ tx' = [tx EXCEPT ![o] = x]
        BY <1>8 DEF Select
  <2>2. x \in TxRecord /\ x.pc = "selected" /\ x.doc = d
    <3>1. d \in Nat /\ {d} \in SUBSET Nat
          BY <1>3
    <3> QED
        BY <1>4, <3>1 DEF TxRecord
  <2> HIDE DEF x
  <2>3. TxOK(docs, x)
        BY <2>2 DEF TxOK
  <2>4. ~(boot >= 0)
        BY <2>1
  <2> QED
      BY <2>1, <2>2, <2>3, <2>4, TxMoved
<1>9. ASSUME NEW o \in Operators, Archive(o) PROVE DocsInv'
  <2> DEFINE sees == Active(docs[tx[o].doc].type)
             x == [tx[o] EXCEPT !.pc = "archiving", !.sees = sees,
                                !.holds = tx[o].holds \cup (sees \ Locked(o))]
  <2>1. /\ tx[o].pc = "selected" /\ UNCHANGED <<docs, boot, raced>> /\ tx' = [tx EXCEPT ![o] = x]
    <3>1. tx[o] \in TxRecord
          BY <1>1
    <3> QED
        BY <1>1, <1>9, <3>1 DEF Archive
  <2>2. sees = ActiveIn(docs, docs[tx[o].doc].type)
        BY DEF Active, ActiveIn
  <2>3. sees \subseteq DOMAIN docs /\ \A d \in sees : docs[d].type = docs[tx[o].doc].type
        BY <2>2 DEF ActiveIn
  <2> HIDE DEF sees
  <2>4. /\ x \in TxRecord /\ x.pc = "archiving" /\ x.doc = tx[o].doc /\ x.sees = sees
    <3>1. tx[o] \in TxRecord /\ sees \subseteq Nat
          BY <1>1, <1>3, <2>3
    <3> QED
        BY <3>1 DEF TxRecord
  <2> HIDE DEF x
  <2>5. TxOK(docs, tx[o]) /\ ~(boot >= 0)
        BY <1>1, <2>1
  <2>6. TxOK(docs, x)
        BY <2>1, <2>2, <2>3, <2>4, <2>5 DEF TxOK
  <2> QED
      BY <2>1, <2>4, <2>5, <2>6, TxMoved
<1>10. ASSUME NEW o \in Operators, Commit(o) PROVE DocsInv'
  <2> DEFINE d == tx[o].doc
             sees == tx[o].sees
             type == docs[d].type
  <2>1. /\ tx[o].pc = "archiving"
        /\ docs' = Published(d, sees)
        /\ tx' = [p \in Operators |->
                    IF p = o THEN NoTx
                    ELSE IF tx[p].pc = "archiving" /\ docs[tx[p].doc].type = type
                         THEN [tx[p] EXCEPT !.overtaken = TRUE]
                         ELSE tx[p]]
        /\ raced' = IF tx[o].overtaken THEN raced \cup {type} ELSE raced \ {type}
        /\ boot' = boot
        BY <1>10 DEF Commit
  <2>2. /\ d \in DOMAIN docs /\ \A e \in sees : e \in DOMAIN docs /\ docs[e].type = type
        /\ ~tx[o].overtaken => ActiveIn(docs, type) \subseteq sees
        BY <1>1, <2>1 DEF TxOK
  <2>3. boot < 0
        BY <1>1, <2>1
  <2>4. DOMAIN docs' = DOMAIN docs /\ \E T : docs' \in Seq(T)
    <3> DEFINE T == {docs'[e] : e \in DOMAIN docs}
    <3>1. docs' = [e \in DOMAIN docs |-> docs'[e]]
          BY <2>1 DEF Published
    <3>2. docs' \in [1..Len(docs) -> T]
          BY <1>3, <3>1
    <3>3. docs' \in Seq(T)
      <4> HIDE DEF T
      <4> QED
          BY <1>3, <3>2, SeqDef
    <3> QED
        BY <3>1, <3>3
  <2> HIDE DEF d, sees, type
  <2>5. \A e \in DOMAIN docs : docs'[e] = IF e = d THEN [docs[e] EXCEPT !.status = "active"]
                                          ELSE IF e \in sees /\ docs[e].status = "active"
                                               THEN [docs[e] EXCEPT !.status = "archived"] ELSE docs[e]
        BY <2>1 DEF Published
  <2>6. ASSUME NEW e \in DOMAIN docs
        PROVE  /\ docs'[e].type = docs[e].type
               /\ e # d /\ docs'[e].status = "active" => docs[e].status = "active"
               /\ e \notin sees /\ e # d => docs'[e] = docs[e]
    <3>1. docs'[e] = IF e = d THEN [docs[e] EXCEPT !.status = "active"]
                     ELSE IF e \in sees /\ docs[e].status = "active"
                          THEN [docs[e] EXCEPT !.status = "archived"] ELSE docs[e]
          BY <2>5
    <3> QED
        BY <3>1
  <2>7. \A t : t # type => ActiveIn(docs', t) \subseteq ActiveIn(docs, t)
    <3>1. SUFFICES ASSUME NEW t, t # type, NEW e \in ActiveIn(docs', t) PROVE e \in ActiveIn(docs, t)
          OBVIOUS
    <3>2. e \in DOMAIN docs /\ docs[e].type = t
          BY <2>4, <2>6, <3>1 DEF ActiveIn
    <3>3. e # d
          BY <3>1, <3>2 DEF type
    <3>4. docs'[e].status = "active"
          BY <3>1 DEF ActiveIn
    <3> QED
        BY <2>6, <3>2, <3>3, <3>4 DEF ActiveIn
  <2>8. ~tx[o].overtaken => ActiveIn(docs', type) \subseteq {d}
    <3>1. SUFFICES ASSUME ~tx[o].overtaken, NEW e \in ActiveIn(docs', type), e # d PROVE FALSE
          OBVIOUS
    <3>2. e \in DOMAIN docs /\ docs[e].type = type /\ docs'[e].status = "active" /\ docs[e].status = "active"
          BY <2>4, <2>6, <3>1 DEF ActiveIn
    <3>3. e \in sees
          BY <2>2, <3>1, <3>2 DEF ActiveIn
    <3>4. docs'[e] = [docs[e] EXCEPT !.status = "archived"]
          BY <2>5, <3>1, <3>2, <3>3
    <3>5. docs'[e].status \in {"archived", docs[e].status}
          BY <3>4
    <3> QED
        BY <3>2, <3>4, <3>5
  <2>9. OneIn(docs', raced')
    <3>1. SUFFICES ASSUME NEW t, t \notin raced', NEW a \in ActiveIn(docs', t), NEW b \in ActiveIn(docs', t)
                   PROVE  a = b
          BY DEF OneIn
    <3>2. CASE t = type
      <4>1. ~tx[o].overtaken
            BY <2>1, <3>1, <3>2
      <4> QED
          BY <2>8, <3>1, <3>2, <4>1
    <3>3. CASE t # type
      <4>1. t \notin raced
            BY <2>1, <3>1, <3>3
      <4>2. a \in ActiveIn(docs, t) /\ b \in ActiveIn(docs, t)
            BY <2>7, <3>1, <3>3
      <4> QED
          BY <1>1, <4>1, <4>2 DEF OneIn
    <3> QED
        BY <3>2, <3>3
  <2>10. ASSUME NEW p \in Operators PROVE tx'[p] \in TxRecord /\ TxOK(docs', tx'[p])
    <3>1. CASE p = o
          BY <1>4, <2>1, <3>1
    <3>2. CASE p # o /\ tx[p].pc = "none"
      <4>1. tx'[p] = tx[p]
            BY <2>1, <3>2
      <4> QED
          BY <1>1, <3>2, <4>1 DEF TxOK
    <3>3. CASE p # o /\ tx[p].pc # "none"
      <4> DEFINE mine == docs[tx[p].doc].type
      <4>1. TxOK(docs, tx[p]) /\ tx[p] \in TxRecord
            BY <1>1
      <4>2. /\ tx[p].doc \in DOMAIN docs' /\ docs'[tx[p].doc].type = mine
            /\ tx[p].pc = "archiving" =>
                  \A e \in tx[p].sees : e \in DOMAIN docs' /\ docs'[e].type = mine
            BY <2>4, <2>6, <3>3, <4>1 DEF TxOK
      <4>3. CASE tx[p].pc = "archiving" /\ mine = type
        <5>1. tx'[p] = [tx[p] EXCEPT !.overtaken = TRUE]
              BY <2>1, <3>3, <4>3
        <5>2. tx'[p] \in TxRecord
              BY <4>1, <5>1 DEF TxRecord
        <5>3. tx'[p].pc = tx[p].pc /\ tx'[p].doc = tx[p].doc /\ tx'[p].sees = tx[p].sees /\ tx'[p].overtaken
              BY <4>1, <5>1 DEF TxRecord
        <5> QED
            BY <4>2, <5>2, <5>3 DEF TxOK
      <4>4. CASE ~(tx[p].pc = "archiving" /\ mine = type)
        <5>1. tx'[p] = tx[p]
              BY <2>1, <3>3, <4>4
        <5>2. ASSUME tx[p].pc = "archiving", ~tx[p].overtaken
              PROVE  ActiveIn(docs', mine) \subseteq tx[p].sees
          <6>1. ActiveIn(docs', mine) \subseteq ActiveIn(docs, mine)
                BY <2>7, <4>4, <5>2
          <6>2. ActiveIn(docs, mine) \subseteq tx[p].sees
                BY <4>1, <5>2 DEF TxOK
          <6> QED
              BY <6>1, <6>2
        <5>3. TxOK(docs', tx[p])
          <6> HIDE DEF mine
          <6> QED
              BY <4>2, <5>2 DEF TxOK
        <5> QED
            BY <4>1, <5>1, <5>3
      <4> QED
          BY <4>3, <4>4
    <3> QED
        BY <3>1, <3>2, <3>3
  <2>11. tx' \in [Operators -> TxRecord]
    <3>1. tx' = [p \in Operators |-> tx'[p]]
          BY <2>1
    <3> QED
        BY <2>10, <3>1
  <2>12. Booted(docs', boot') /\ ~(boot' >= 0)
         BY <1>1, <2>1, <2>3 DEF Booted
  <2> QED
      BY <1>1, <2>1, <2>4, <2>9, <2>10, <2>11, <2>12 DEF DocsInv
<1>11. ASSUME NEW o \in Operators, RollBack(o) PROVE DocsInv'
       BY <1>4, <1>11, TxMoved DEF RollBack
<1>12. CASE UNCHANGED <<docs, boot, tx, raced>>
       BY <1>12 DEF DocsInv
<1>13. ASSUME NEW newest, Compile(newest) PROVE DocsInv'
       BY <1>12, <1>13 DEF Compile
<1>14. CASE UNCHANGED documentVars
       BY <1>12, <1>14 DEF documentVars
<1> QED
    BY <1>5, <1>6, <1>7, <1>8, <1>9, <1>10, <1>11, <1>13, <1>14 DEF DocumentsNext

LEMMA DocsHold == DocsInv => OneActive
<1> SUFFICES ASSUME DocsInv, NEW type, type \notin raced PROVE ~(Cardinality(Active(type)) > 1)
    BY DEF OneActive
<1>1. \A d, e \in Active(type) : d = e
      BY DEF DocsInv, OneIn, Active, ActiveIn
<1>2. CASE Active(type) = {}
      BY <1>2, FS_EmptySet
<1>3. CASE \E d : Active(type) = {d}
      BY <1>3, FS_Singleton
<1>4. Active(type) = {} \/ \E d : Active(type) = {d}
      BY <1>1
<1> QED
    BY <1>2, <1>3, <1>4

\* Whatever operators activate at once, a type has two active revisions only after one was
\* published over another it could not see, for any operators, types and bootstrap (OneActive).
THEOREM OneIsActive == DocumentsSpec => []OneActive
<1>1. DocumentsSpec => []DocsInv
      BY DocsStart, DocsStep, PTL DEF DocumentsSpec
<1> QED
    BY <1>1, DocsHold, PTL

-----------------------------------------------------------------------------
\* A set of numbers has a least member: the induction the proofs below rest on.
LEMMA Least ==
    ASSUME NEW T \in SUBSET Nat, T # {}
    PROVE  \E n \in T : \A k \in T : n =< k
<1>1. PICK R : R = OpToRel(<, Nat)
      OBVIOUS
<1>2. IsWellFoundedOn(R, Nat)
      BY <1>1, NatLessThanWellFounded
<1>3. PICK n \in T : \A k \in T : ~(<<k, n>> \in R)
      BY <1>2, WFMin
<1>4. R = {ss \in Nat \X Nat : ss[1] < ss[2]}
      BY <1>1 DEF OpToRel
<1>5. \A k \in T : k < n => <<k, n>> \in R
      BY <1>4
<1>6. \A k \in T : ~(k < n) => n =< k
      OBVIOUS
<1> QED
    BY <1>3, <1>5, <1>6

\* What is true of 0 and of the next number is true of every number.
LEMMA Induct ==
    ASSUME NEW S, 0 \in S, \A n \in Nat : n \in S => n + 1 \in S
    PROVE  Nat \subseteq S
<1> SUFFICES ASSUME ~(Nat \subseteq S) PROVE FALSE
    OBVIOUS
<1>1. PICK m \in Nat \ S : \A k \in Nat \ S : m =< k
      BY Least
<1>2. m # 0 /\ m - 1 \in Nat
      BY <1>1
<1>3. m - 1 \in S
      BY <1>1, <1>2
<1> QED
    BY <1>2, <1>3

\* What a recursion over 0..n computes, and what it is given.
Steps(n, V) == [(1..n) \X V -> V]
Computes(f, n, V, base, step) ==
    f \in [0..n -> V] /\ f[0] = base /\ \A i \in 1..n : f[i] = step[<<i, f[i - 1]>>]

\* A recursion over 0..n has a result.
LEMMA Recursion ==
    ASSUME NEW n \in Nat, NEW V, NEW base \in V, NEW step \in Steps(n, V)
    PROVE  \E f : Computes(f, n, V, base, step)
<1> USE DEF Steps
<1>1. PICK S : \A m : m \in S <=> m \in Nat /\ (m =< n => \E f \in [0..m -> V] :
                        f[0] = base /\ \A i \in 1..m : f[i] = step[<<i, f[i - 1]>>])
  <2>1. PICK S : S = {m \in Nat : m =< n => \E f \in [0..m -> V] :
                        f[0] = base /\ \A i \in 1..m : f[i] = step[<<i, f[i - 1]>>]}
        OBVIOUS
  <2>2. \A m : m \in S <=> m \in Nat /\ (m =< n => \E f \in [0..m -> V] :
                        f[0] = base /\ \A i \in 1..m : f[i] = step[<<i, f[i - 1]>>])
        BY <2>1, Zenon
  <2> QED
      BY <2>2
<1>2. 0 \in S
  <2>1. PICK f : f = [i \in 0..0 |-> base]
        OBVIOUS
  <2>2. f \in [0..0 -> V] /\ f[0] = base /\ \A i \in 1..0 : f[i] = step[<<i, f[i - 1]>>]
        BY <2>1
  <2> QED
      BY <1>1, <2>2
<1>3. ASSUME NEW m \in Nat, m \in S PROVE m + 1 \in S
  <2>1. CASE m + 1 =< n
    <3>1. PICK f \in [0..m -> V] : f[0] = base /\ \A i \in 1..m : f[i] = step[<<i, f[i - 1]>>]
      <4>1. m =< n
            BY <2>1
      <4>2. \E f \in [0..m -> V] : f[0] = base /\ \A i \in 1..m : f[i] = step[<<i, f[i - 1]>>]
            BY <1>1, <1>3, <4>1, Zenon
      <4> QED
          BY <4>2
    <3>2. PICK new : new = step[<<m + 1, f[m]>>]
          OBVIOUS
    <3>3. new \in V
      <4>1. f[m] \in V /\ m + 1 \in 1..n
            BY <2>1, <3>1
      <4>2. <<m + 1, f[m]>> \in (1..n) \X V
            BY <4>1
      <4> QED
          BY <3>2, <4>2
    <3>4. PICK g : g = [i \in 0..(m + 1) |-> IF i = m + 1 THEN new ELSE f[i]]
          OBVIOUS
    <3>5. g \in [0..(m + 1) -> V]
          BY <3>1, <3>3, <3>4
    <3>6. g[0] = base
          BY <3>1, <3>4
    <3>7. ASSUME NEW i \in 1..(m + 1) PROVE g[i] = step[<<i, g[i - 1]>>]
      <4>1. g[i - 1] = f[i - 1]
            BY <3>4
      <4>2. CASE i = m + 1
        <5>1. i - 1 = m /\ g[i] = new
              BY <3>4, <4>2
        <5> QED
            BY <3>2, <4>1, <4>2, <5>1
      <4>3. CASE i \in 1..m
            BY <3>1, <3>4, <4>1, <4>3
      <4> QED
          BY <4>2, <4>3
    <3> QED
        BY <1>1, <2>1, <3>5, <3>6, <3>7
  <2> QED
      BY <1>1, <2>1
<1>4. n \in S
      BY <1>2, <1>3, Induct
<1>5. PICK f \in [0..n -> V] : f[0] = base /\ \A i \in 1..n : f[i] = step[<<i, f[i - 1]>>]
      BY <1>1, <1>4
<1> QED
    BY <1>5 DEF Computes

-----------------------------------------------------------------------------
\* Documents: the compiled prompt.
LEMMA BlockParts ==
    ASSUME NEW name, NEW size
    PROVE  /\ Block(name, size).name = name /\ Block(name, size).size = size
           /\ Block(name, size).required <=> name \in {"rules", "turn"}
BY DEF Block

\* The blocks of a prompt: the rules, the documents, the turn, the example.
LEMMA BlockOrder ==
    ASSUME NEW newest \in Nat
    PROVE  \E n \in Nat :
              /\ n >= 3 /\ Len(Blocks(newest)) = n
              /\ Blocks(newest)[1] = Block("rules", Rules + Label)
              /\ Blocks(newest)[n - 1] = Block("turn", newest)
              /\ Blocks(newest)[n] = Block("example", 1 + Label)
              /\ \A i \in 2..(n - 2) : \E type \in Range(Order) :
                    Blocks(newest)[i] = Block(type, Size[type] + Label)
<1>1. PICK k \in Nat : k = Len(Order) /\ DOMAIN Order = 1..k
      BY DocumentsAssumption
<1>2. PICK head : head = Block("rules", Rules + Label)
      OBVIOUS
<1>3. PICK turned : turned = Block("turn", newest)
      OBVIOUS
<1>4. PICK shown : shown = Block("example", 1 + Label)
      OBVIOUS
<1>5. PICK middle : middle = [i \in DOMAIN Order |-> Block(Order[i], Size[Order[i]] + Label)]
      OBVIOUS
<1>6. PICK S : S = {head, turned, shown} \cup {middle[i] : i \in 1..k}
      OBVIOUS
<1>7. middle \in Seq(S) /\ Len(middle) = k
      BY <1>1, <1>5, <1>6
<1>8. <<head>> \in Seq(S) /\ Len(<<head>>) = 1 /\ <<turned, shown>> \in Seq(S) /\ Len(<<turned, shown>>) = 2
      BY <1>6
<1>9. PICK front : front = <<head>> \o middle
      OBVIOUS
<1>10. /\ front \in Seq(S) /\ Len(front) = k + 1
       /\ front[1] = head /\ \A i \in 2..(k + 1) : front[i] = middle[i - 1]
      BY <1>7, <1>8, <1>9
<1>11. PICK all : all = front \o <<turned, shown>>
      OBVIOUS
<1>12. /\ Len(all) = k + 3 /\ all[k + 2] = turned /\ all[k + 3] = shown
       /\ \A i \in 1..(k + 1) : all[i] = front[i]
      BY <1>8, <1>10, <1>11
<1>13. Blocks(newest) = all
      BY <1>2, <1>3, <1>4, <1>5, <1>9, <1>11 DEF Blocks
<1>14. ASSUME NEW i \in 2..(k + 1)
       PROVE  \E type \in Range(Order) : all[i] = Block(type, Size[type] + Label)
  <2>1. i - 1 \in DOMAIN Order /\ all[i] = middle[i - 1]
        BY <1>1, <1>10, <1>12
  <2>2. Order[i - 1] \in Range(Order)
        BY <2>1 DEF Range
  <2> QED
      BY <1>5, <2>1, <2>2
<1>15. PICK n \in Nat : n = k + 3
      OBVIOUS
<1>16. n >= 3 /\ n - 1 = k + 2 /\ n - 2 = k + 1
      BY <1>15
<1>17. all[1] = head
      BY <1>10, <1>12
<1> QED
    BY <1>2, <1>3, <1>4, <1>12, <1>13, <1>14, <1>15, <1>16, <1>17

\* What a prompt holds after a block depends on what it held before, and on no more.
LEMMA PartsByBlock ==
    ASSUME NEW have, NEW newest \in Nat,
           NEW n \in Nat, n = Len(Blocks(newest)),
           \A i \in 1..n : Blocks(newest)[i].size \in Nat
    PROVE  /\ Parts(have, newest)[0] = [has |-> {}, used |-> 0]
           /\ \A i \in 1..n :
                 Parts(have, newest)[i] = Add(have, newest, Parts(have, newest)[i - 1], Blocks(newest)[i])
<1>1. PICK V : V = [has : SUBSET {Blocks(newest)[i].name : i \in 1..n}, used : Nat]
      OBVIOUS
<1>2. PICK base : base = [has |-> {}, used |-> 0]
      OBVIOUS
<1>3. base \in V
      BY <1>1, <1>2
<1>4. PICK step : step = [p \in (1..n) \X V |-> Add(have, newest, p[2], Blocks(newest)[p[1]])]
      OBVIOUS
<1>5. ASSUME NEW i \in 1..n, NEW got \in V PROVE Add(have, newest, got, Blocks(newest)[i]) \in V
      BY <1>1 DEF Add
<1>6. step \in Steps(n, V)
      BY <1>4, <1>5 DEF Steps
<1>7. PICK f \in [0..n -> V] : f[0] = base /\ \A i \in 1..n : f[i] = step[<<i, f[i - 1]>>]
  <2>1. \E f : Computes(f, n, V, base, step)
        BY <1>3, <1>6, Recursion
  <2> QED
      BY <2>1 DEF Computes
<1>8. ASSUME NEW i \in 1..n PROVE step[<<i, f[i - 1]>>] = Add(have, newest, f[i - 1], Blocks(newest)[i])
  <2>1. f[i - 1] \in V
        BY <1>7
  <2> QED
      BY <1>4, <2>1
<1>9. f = [i \in 0..n |-> IF i = 0 THEN base ELSE Add(have, newest, f[i - 1], Blocks(newest)[i])]
  <2>1. ASSUME NEW i \in 0..n
        PROVE  f[i] = IF i = 0 THEN base ELSE Add(have, newest, f[i - 1], Blocks(newest)[i])
    <3>1. CASE i = 0
          BY <1>7, <3>1
    <3>2. CASE i \in 1..n
          BY <1>7, <1>8, <3>2
    <3> QED
        BY <3>1, <3>2
  <2> QED
      BY <1>7, <2>1
<1>10. Parts(have, newest) = [i \in 0..n |-> IF i = 0 THEN base
                       ELSE Add(have, newest, Parts(have, newest)[i - 1], Blocks(newest)[i])]
      BY <1>2, <1>9 DEF Parts
<1>11. PICK parts : parts = Parts(have, newest)
      OBVIOUS
<1>12. parts = [i \in 0..n |-> IF i = 0 THEN base ELSE Add(have, newest, parts[i - 1], Blocks(newest)[i])]
      BY <1>10, <1>11
<1>13. parts[0] = base
      BY <1>12
<1>14. ASSUME NEW i \in 1..n PROVE parts[i] = Add(have, newest, parts[i - 1], Blocks(newest)[i])
      BY <1>12
<1> QED
    BY <1>2, <1>11, <1>13, <1>14

\* What the prompt holds after i of its n blocks: the blocks before the turn leave it room,
\* and it is there after its own.
RoomLeft(got, i, n, newest) ==
    /\ got.used \in Nat /\ got.used =< Budget
    /\ Rules + Label + newest =< Budget =>
          /\ i =< n - 2 => got.used =< Budget - newest
          /\ i >= n - 1 => "turn" \in got.has

\* A prompt is compiled within its budget and has the turn.
LEMMA PromptFits ==
    ASSUME NEW have, NEW newest \in Nat, Rules + newest =< Budget
    PROVE  /\ "turn" \in Compiled(have, newest).has \/ Rules + Label + newest > Budget
           /\ Compiled(have, newest).used =< Budget
<1>1. PICK n \in Nat :
              /\ n >= 3 /\ Len(Blocks(newest)) = n
              /\ Blocks(newest)[1] = Block("rules", Rules + Label)
              /\ Blocks(newest)[n - 1] = Block("turn", newest)
              /\ Blocks(newest)[n] = Block("example", 1 + Label)
              /\ \A i \in 2..(n - 2) : \E type \in Range(Order) :
                    Blocks(newest)[i] = Block(type, Size[type] + Label)
      BY BlockOrder
<1>2. \A type \in Range(Order) : type \notin {"rules", "turn", "example"} /\ Size[type] \in Nat
      BY DocumentsAssumption DEF Range
<1>3. Rules \in Nat /\ Label \in Nat /\ Budget \in Nat
      BY DocumentsAssumption
<1>4. PICK block : block = Blocks(newest)
      OBVIOUS
\* What Add does with each of the blocks.
<1>5. /\ block[1].name = "rules" /\ block[1].size = Rules + Label /\ block[1].required
      /\ block[n - 1].name = "turn" /\ block[n - 1].size = newest /\ block[n - 1].required
      /\ block[n].name = "example" /\ block[n].size = 1 + Label /\ ~block[n].required
  <2>1. "example" \notin {"rules", "turn"}
        OBVIOUS
  <2> QED
      BY <1>1, <1>4, <2>1, BlockParts
<1>6. ASSUME NEW i \in 2..(n - 2)
      PROVE  block[i].name \in Range(Order) /\ block[i].size \in Nat /\ ~block[i].required
  <2>1. PICK type \in Range(Order) : block[i] = Block(type, Size[type] + Label)
        BY <1>1, <1>4
  <2>2. block[i].name = type /\ block[i].size = Size[type] + Label
        BY <2>1, BlockParts
  <2>3. type \notin {"rules", "turn"}
        BY <1>2
  <2>4. ~block[i].required
        BY <2>1, <2>3, BlockParts
  <2> QED
      BY <1>2, <1>3, <2>2, <2>4
<1>7. ASSUME NEW i \in 1..n PROVE block[i].size \in Nat
  <2>1. i = 1 \/ i = n - 1 \/ i = n \/ i \in 2..(n - 2)
        BY <1>1
  <2>3. Rules + Label \in Nat /\ 1 + Label \in Nat
        BY <1>3
  <2>4. CASE i \in 2..(n - 2)
        BY <1>2, <1>6, <2>4
  <2>5. CASE i = 1 \/ i = n - 1 \/ i = n
        BY <1>5, <2>3, <2>5
  <2> QED
      BY <2>1, <2>4, <2>5
<1>8. PICK parts : parts = Parts(have, newest)
      OBVIOUS
<1>9. /\ parts[0] = [has |-> {}, used |-> 0]
      /\ \A i \in 1..n : parts[i] = Add(have, newest, parts[i - 1], block[i])
  <2>1. \A i \in 1..n : Blocks(newest)[i].size \in Nat
        BY <1>4, <1>7
  <2> QED
      BY <1>1, <1>4, <1>8, <2>1, PartsByBlock
<1>10. PICK S : S = {i \in Nat : i =< n => RoomLeft(parts[i], i, n, newest)}
      OBVIOUS
<1>11. 0 \in S
      BY <1>1, <1>3, <1>9, <1>10 DEF RoomLeft
<1>12. ASSUME NEW j \in Nat, j \in S PROVE j + 1 \in S
  <2>1. CASE j + 1 =< n
    <3>1. PICK i \in 1..n : i = j + 1
          BY <2>1
    <3>2. RoomLeft(parts[i - 1], i - 1, n, newest)
          BY <1>10, <1>12, <2>1, <3>1
    <3>3. PICK got, added, b : got = parts[i - 1] /\ added = parts[i] /\ b = block[i]
          OBVIOUS
    <3>4. /\ got.used \in Nat /\ got.used =< Budget
          /\ Rules + Label + newest =< Budget =>
                /\ i - 1 =< n - 2 => got.used =< Budget - newest
                /\ i - 1 >= n - 1 => "turn" \in got.has
          BY <3>2, <3>3 DEF RoomLeft
    <3>5. \/ (added.used = got.used /\ added.has = got.has)
          \/ (added.used = got.used + b.size /\ added.has = got.has \cup {b.name}
                /\ got.used + b.size =< Ceiling(b, newest))
      <4>1. added = Add(have, newest, got, b)
            BY <1>9, <3>3
      <4>2. CASE (b.name \in Range(Order) => b.name \in have) /\ got.used + b.size =< Ceiling(b, newest)
            BY <4>1, <4>2 DEF Add
      <4>3. CASE ~((b.name \in Range(Order) => b.name \in have) /\ got.used + b.size =< Ceiling(b, newest))
            BY <4>1, <4>3 DEF Add
      <4> QED
          BY <4>2, <4>3
    <3>6. b.size \in Nat
          BY <1>7, <3>3
    <3>7. Ceiling(b, newest) =< Budget /\ (~b.required => Ceiling(b, newest) = Budget - newest)
          BY <1>3 DEF Ceiling
    <3>8. added.used \in Nat /\ added.used =< Budget /\ (\A x \in got.has : x \in added.has)
      <4>1. Ceiling(b, newest) \in Int
            BY <1>3 DEF Ceiling
      <4> QED
          BY <1>3, <3>4, <3>5, <3>6, <3>7, <4>1
    <3>9. ASSUME Rules + Label + newest =< Budget, i =< n - 2 PROVE added.used =< Budget - newest
      <4>1. CASE i = 1
        <5>1. got.used = 0
              BY <1>9, <3>3, <4>1
        <5>2. b.size = Rules + Label
              BY <1>5, <3>3, <4>1
        <5> QED
            BY <1>3, <3>5, <3>9, <5>1, <5>2
      <4>2. CASE i \in 2..(n - 2)
        <5>1. Ceiling(b, newest) = Budget - newest
              BY <1>6, <3>3, <3>7, <4>2
        <5> QED
            BY <1>1, <3>4, <3>5, <3>9, <4>2, <5>1
      <4> QED
          BY <3>9, <4>1, <4>2
    <3>10. ASSUME Rules + Label + newest =< Budget, i >= n - 1 PROVE "turn" \in added.has
      <4>1. CASE i = n - 1
        <5>1. b.name = "turn" /\ b.size = newest /\ b.required
              BY <1>5, <3>3, <4>1
        <5>2. b.name \notin Range(Order)
              BY <1>2, <5>1
        <5>3. got.used =< Budget - newest
              BY <1>1, <3>4, <3>10, <4>1
        <5>4. got.used + b.size =< Ceiling(b, newest)
              BY <1>3, <3>4, <5>1, <5>3 DEF Ceiling
        <5>5. added = Add(have, newest, got, b)
              BY <1>9, <3>3
        <5> QED
            BY <5>1, <5>2, <5>4, <5>5 DEF Add
      <4>2. CASE i - 1 >= n - 1
            BY <3>4, <3>8, <3>10, <4>2
      <4> QED
          BY <1>1, <3>10, <4>1, <4>2
    <3>11. RoomLeft(added, i, n, newest)
          BY <3>8, <3>9, <3>10 DEF RoomLeft
    <3> QED
        BY <1>10, <3>1, <3>3, <3>11
  <2> QED
      BY <1>10, <2>1
<1>13. RoomLeft(parts[n], n, n, newest)
      BY <1>10, <1>11, <1>12, Induct
<1>14. Compiled(have, newest) = parts[n]
      BY <1>1, <1>8 DEF Compiled
<1> QED
    BY <1>3, <1>13, <1>14 DEF RoomLeft

\* However long the documents are, a compiled prompt keeps to its budget and has the fan's
\* newest turn (PromptCompiler.compile).
THEOREM PromptHasTheTurn == DocumentsSpec => []PromptKeepsTurn
<1>1. DocumentsInit => PromptKeepsTurn
      BY DEF DocumentsInit, NoPrompt, PromptKeepsTurn
<1>2. PromptKeepsTurn /\ [DocumentsNext]_documentVars => PromptKeepsTurn'
  <2> SUFFICES ASSUME PromptKeepsTurn, [DocumentsNext]_documentVars PROVE PromptKeepsTurn'
      OBVIOUS
  <2>1. CASE UNCHANGED prompt
        BY <2>1 DEF PromptKeepsTurn
  <2>2. ASSUME NEW newest \in TurnSizes, Compile(newest) PROVE PromptKeepsTurn'
    <3>1. PICK got : \E have : got = Compiled(have, newest) /\
             prompt' = IF Rules + newest > Budget THEN NoPrompt
                       ELSE [made |-> TRUE, turn |-> newest, has |-> got.has, used |-> got.used]
          BY <2>2 DEF Compile
    <3>2. newest \in Nat /\ Rules \in Nat /\ Budget \in Nat
          BY DocumentsAssumption
    <3>3. CASE Rules + newest > Budget
          BY <3>1, <3>3 DEF NoPrompt, PromptKeepsTurn
    <3>4. CASE Rules + newest =< Budget
      <4>1. /\ "turn" \in got.has \/ Rules + Label + newest > Budget
            /\ got.used =< Budget
            BY <3>1, <3>2, <3>4, PromptFits
      <4>2. prompt' = [made |-> TRUE, turn |-> newest, has |-> got.has, used |-> got.used]
            BY <3>1, <3>2, <3>4
      <4> QED
          BY <4>1, <4>2 DEF PromptKeepsTurn
    <3> QED
        BY <3>2, <3>3, <3>4
  <2> QED
      BY <2>1, <2>2 DEF DocumentsNext, documentVars, Boot, StopProcess, SaveDraft, Select, Archive, Commit, RollBack
<1> QED
    BY <1>1, <1>2, PTL DEF DocumentsSpec

-----------------------------------------------------------------------------
\* Planner: what is selected passed the gates.
LEMMA MinIs ==
    ASSUME NEW T \in SUBSET Nat, T # {}
    PROVE  Min(T) \in T /\ \A k \in T : Min(T) =< k
BY Least DEF Min

-----------------------------------------------------------------------------
\* The names of the sections.
LEMMA SectionNames ==
    /\ DOMAIN Sections = 1..16
    /\ \A i \in 1..16 : Sections[i] \in Range(Sections)
    /\ Sections[1] = "safety" /\ Sections[2] = "training_release" /\ Sections[3] = "newest_turn"
    /\ Sections[4] = Question
    /\ \A i \in 5..16 : Sections[i] # Question
<1>1. DOMAIN Sections = 1..16
      BY DEF Sections
<1>2. \A i \in 1..16 : Sections[i] \in Range(Sections)
      BY <1>1 DEF Range
<1>3. /\ Sections[1] = "safety" /\ Sections[2] = "training_release" /\ Sections[3] = "newest_turn"
      /\ Sections[4] = Question
      BY DEF Sections, Question
<1>4. ASSUME NEW i \in 5..16 PROVE Sections[i] # Question
      BY DEF Sections, Question
<1> QED
    BY <1>1, <1>2, <1>3, <1>4

\* What Put leaves of a section, and of what is used.
PutState == [kept : [Range(Sections) -> Int], used : Int, ended : BOOLEAN]

LEMMA PutStays ==
    ASSUME NEW context \in Contexts, NEW got \in PutState, NEW s \in Range(Sections)
    PROVE  Put(context, got, s) \in PutState
<1> DEFINE key == IF s \in Required THEN 0 ELSE 1
           room == Maximum - got.used - key
           raw == IF context[s] = Absent /\ s \in Required THEN 0 ELSE context[s]
           fitted == IF raw =< room THEN raw ELSE IF room > 0 THEN room ELSE 0
<1>1. /\ got.kept \in [Range(Sections) -> Int] /\ got.used \in Int /\ got.ended \in BOOLEAN
      BY DEF PutState
<1>2. context[s] \in Int /\ Maximum \in Int
      BY PlannerAssumption DEF Absent
<1>3. key \in Int /\ room \in Int /\ raw \in Int /\ fitted \in Int
      BY <1>1, <1>2
<1> HIDE DEF key, room, raw, fitted
<1>4. PICK kept : kept = [got.kept EXCEPT ![s] = fitted]
      OBVIOUS
<1>5. kept \in [Range(Sections) -> Int] /\ got.used + key + fitted \in Int
      BY <1>1, <1>3, <1>4
<1>6. [got EXCEPT !.ended = TRUE] \in PutState
      BY <1>1 DEF PutState
<1>7. [got EXCEPT !.kept = kept, !.used = got.used + key + fitted] \in PutState
      BY <1>1, <1>5 DEF PutState
<1>8. Put(context, got, s) =
        IF got.ended \/ raw = Absent THEN got
        ELSE IF room < 0 /\ s \notin Required THEN [got EXCEPT !.ended = TRUE]
        ELSE [got EXCEPT !.kept = kept, !.used = got.used + key + fitted]
      BY <1>4 DEF Put, key, room, raw, fitted
<1> QED
    BY <1>6, <1>7, <1>8

\* The prompt after each section depends on what it was before, and on no more.
LEMMA PutsBySection ==
    ASSUME NEW context \in Contexts
    PROVE  /\ Puts(context)[0] = NothingPut
           /\ \A i \in 0..16 : Puts(context)[i] \in PutState
           /\ \A i \in 1..16 : Puts(context)[i] = Put(context, Puts(context)[i - 1], Sections[i])
<1>1. NothingPut \in PutState
      BY DEF NothingPut, PutState, Absent
<1>2. PICK step : step = [p \in (1..16) \X PutState |-> Put(context, p[2], Sections[p[1]])]
      OBVIOUS
<1>3. step \in Steps(16, PutState)
      BY <1>2, PutStays, SectionNames DEF Steps
<1>4. PICK f \in [0..16 -> PutState] : f[0] = NothingPut /\ \A i \in 1..16 : f[i] = step[<<i, f[i - 1]>>]
  <2>1. \E f : Computes(f, 16, PutState, NothingPut, step)
        BY <1>1, <1>3, Recursion
  <2> QED
      BY <2>1 DEF Computes
<1>5. ASSUME NEW i \in 1..16 PROVE step[<<i, f[i - 1]>>] = Put(context, f[i - 1], Sections[i])
  <2>1. f[i - 1] \in PutState
        BY <1>4
  <2> QED
      BY <1>2, <2>1
<1>6. f = [i \in 0..16 |-> IF i = 0 THEN NothingPut ELSE Put(context, f[i - 1], Sections[i])]
  <2>1. ASSUME NEW i \in 0..16
        PROVE  f[i] = IF i = 0 THEN NothingPut ELSE Put(context, f[i - 1], Sections[i])
    <3>1. CASE i = 0
          BY <1>4, <3>1
    <3>2. CASE i \in 1..16
          BY <1>4, <1>5, <3>2
    <3> QED
        BY <3>1, <3>2
  <2> QED
      BY <1>4, <2>1
<1>7. PICK puts : puts = Puts(context)
      OBVIOUS
<1>8. puts = [i \in 0..16 |-> IF i = 0 THEN NothingPut ELSE Put(context, puts[i - 1], Sections[i])]
      BY <1>6, <1>7 DEF Puts
<1>9. puts[0] = NothingPut
      BY <1>8
<1>10. ASSUME NEW i \in 1..16 PROVE puts[i] = Put(context, puts[i - 1], Sections[i])
      BY <1>8
<1>11. PICK S : \A m : m \in S <=> m \in Nat /\ (m =< 16 => puts[m] \in PutState)
  <2>1. PICK S : S = {m \in Nat : m =< 16 => puts[m] \in PutState}
        OBVIOUS
  <2> QED
      BY <2>1
<1>12. 0 \in S
      BY <1>1, <1>9, <1>11
<1>13. ASSUME NEW m \in Nat, m \in S PROVE m + 1 \in S
  <2>1. CASE m + 1 =< 16
    <3>1. puts[m] \in PutState
          BY <1>11, <1>13, <2>1
    <3>2. puts[m + 1] = Put(context, puts[m], Sections[m + 1])
          BY <1>10, <2>1
    <3>3. Sections[m + 1] \in Range(Sections)
          BY <2>1, SectionNames
    <3>4. puts[m + 1] \in PutState
          BY <3>1, <3>2, <3>3, PutStays
    <3> QED
        BY <1>11, <3>4
  <2> QED
      BY <1>11, <2>1
<1>14. \A i \in 0..16 : puts[i] \in PutState
      BY <1>11, <1>12, <1>13, Induct
<1> QED
    BY <1>7, <1>9, <1>10, <1>14

\* A section that finds room for its key takes no more than its size, and something of
\* what is there as long as there is room for it.
LEMMA PutOne ==
    ASSUME NEW context \in Contexts, NEW got \in PutState, NEW s \in Range(Sections),
           ~got.ended, got.used + (IF s \in Required THEN 0 ELSE 1) =< Maximum
    PROVE  /\ ~Put(context, got, s).ended
           /\ s \notin Required => Put(context, got, s).used =< got.used + 1 + context[s]
           /\ context[s] # Absent /\ s \in Required => Put(context, got, s).used =< got.used + context[s]
           /\ s \in Required /\ got.used < Maximum =>
                 (Put(context, got, s).kept[s] > 0 <=> context[s] > 0)
<1>1. /\ got.kept \in [Range(Sections) -> Int] /\ got.used \in Int /\ got.ended \in BOOLEAN
      BY DEF PutState
<1>2. context[s] \in Nat \cup {-1} /\ Maximum \in Nat
      BY PlannerAssumption DEF Absent
<1>3. PICK key : key = IF s \in Required THEN 0 ELSE 1
      OBVIOUS
<1>4. PICK room : room = Maximum - got.used - key
      OBVIOUS
<1>5. PICK raw : raw = IF context[s] = Absent /\ s \in Required THEN 0 ELSE context[s]
      OBVIOUS
<1>6. PICK fitted : fitted = IF raw =< room THEN raw ELSE IF room > 0 THEN room ELSE 0
      OBVIOUS
<1>7. key \in {0, 1} /\ room \in Int /\ raw \in Nat \cup {-1} /\ fitted \in Int /\ room >= 0
      BY <1>1, <1>2, <1>3, <1>4, <1>5, <1>6
<1>8. PICK new : new = Put(context, got, s)
      OBVIOUS
<1>9. new = IF raw = Absent THEN got
            ELSE [got EXCEPT !.kept = [got.kept EXCEPT ![s] = fitted], !.used = got.used + key + fitted]
  <2>1. new = IF got.ended \/ raw = Absent THEN got
              ELSE IF room < 0 /\ s \notin Required THEN [got EXCEPT !.ended = TRUE]
              ELSE [got EXCEPT !.kept = [got.kept EXCEPT ![s] = fitted], !.used = got.used + key + fitted]
        BY <1>3, <1>4, <1>5, <1>6, <1>8 DEF Put
  <2>2. ~(room < 0)
        BY <1>7
  <2> QED
      BY <2>1, <2>2
<1>10. CASE raw = Absent
  <2>1. new = got /\ context[s] = -1 /\ s \notin Required
        BY <1>2, <1>5, <1>9, <1>10 DEF Absent
  <2> QED
      BY <1>1, <1>8, <2>1
<1>11. CASE raw # Absent
  <2>1. new.ended = got.ended /\ new.used = got.used + key + fitted /\ new.kept[s] = fitted
        BY <1>1, <1>9, <1>11 DEF PutState
  <2>2. raw \in Nat /\ fitted =< raw
        BY <1>6, <1>7, <1>11 DEF Absent
  <2>3. s \notin Required => raw = context[s] /\ key = 1
        BY <1>3, <1>5
  <2>4. s \in Required => key = 0 /\ (context[s] # Absent => raw = context[s])
        BY <1>3, <1>5
  <2>5. ~new.ended
        BY <2>1
  <2>6. s \notin Required => new.used =< got.used + 1 + context[s]
        BY <1>1, <1>2, <1>7, <2>1, <2>2, <2>3
  <2>7. context[s] # Absent /\ s \in Required => new.used =< got.used + context[s]
        BY <1>1, <1>2, <1>7, <2>1, <2>2, <2>4
  <2>8. ASSUME s \in Required, got.used < Maximum PROVE new.kept[s] > 0 <=> context[s] > 0
    <3>1. room > 0
          BY <1>1, <1>2, <1>4, <2>4, <2>8
    <3>2. fitted > 0 <=> raw > 0
          BY <1>6, <1>7, <2>2, <3>1
    <3>3. raw > 0 <=> context[s] > 0
          BY <1>2, <1>5, <2>8 DEF Absent
    <3> QED
        BY <2>1, <3>2, <3>3
  <2> QED
      BY <1>8, <2>5, <2>6, <2>7, <2>8
<1> QED
    BY <1>10, <1>11

\* It touches no other section.
LEMMA PutOther ==
    ASSUME NEW context, NEW got \in PutState, NEW s \in Range(Sections),
           NEW t \in Range(Sections), t # s
    PROVE  Put(context, got, s).kept[t] = got.kept[t]
<1>1. got.kept \in [Range(Sections) -> Int]
      BY DEF PutState
<1>2. PICK fitted, used : Put(context, got, s) \in {got, [got EXCEPT !.ended = TRUE],
                              [got EXCEPT !.kept = [got.kept EXCEPT ![s] = fitted], !.used = used]}
      BY DEF Put
<1>3. [got.kept EXCEPT ![s] = fitted][t] = got.kept[t]
      BY <1>1
<1> QED
    BY <1>2, <1>3 DEF PutState

\* The question is in the prompt if the turn has one.
LEMMA QuestionIn ==
    ASSUME NEW context \in Contexts
    PROVE  Puts(context)[16].kept[Question] > 0 <=> context[Question] > 0
<1>1. PICK p : p = Puts(context)
      OBVIOUS
<1>2. /\ p[0] = NothingPut
      /\ \A i \in 0..16 : p[i] \in PutState
      /\ \A i \in 1..16 : p[i] = Put(context, p[i - 1], Sections[i])
      BY <1>1, PutsBySection
<1>3. /\ "safety" \in Range(Sections) /\ "training_release" \in Range(Sections)
      /\ "newest_turn" \in Range(Sections) /\ Question \in Range(Sections)
      BY SectionNames
<1>4. "safety" \in Required /\ "training_release" \notin Required /\ "newest_turn" \in Required /\ Question \in Required
      BY DEF Required, Question
<1>5. /\ p[1] = Put(context, p[0], "safety")
      /\ p[2] = Put(context, p[1], "training_release")
      /\ p[3] = Put(context, p[2], "newest_turn")
      /\ p[4] = Put(context, p[3], Question)
  <2>1. p[1] = Put(context, p[1 - 1], Sections[1])
        BY <1>2
  <2>2. p[2] = Put(context, p[2 - 1], Sections[2])
        BY <1>2
  <2>3. p[3] = Put(context, p[3 - 1], Sections[3])
        BY <1>2
  <2>4. p[4] = Put(context, p[4 - 1], Sections[4])
        BY <1>2
  <2> QED
      BY <2>1, <2>2, <2>3, <2>4, SectionNames
<1>6. PICK a, b, c \in Int : a = context["safety"] /\ b = context["training_release"] /\ c = context["newest_turn"]
      BY <1>3, PlannerAssumption DEF Absent
<1>7. /\ a >= 0 /\ b >= -1 /\ c >= 0 /\ Maximum \in Nat /\ 7 + a + (1 + b) + c < Maximum
      /\ context["safety"] # Absent /\ context["newest_turn"] # Absent
      BY <1>3, <1>6, PlannerAssumption DEF Absent
<1>8. p[0] \in PutState /\ p[1] \in PutState /\ p[2] \in PutState /\ p[3] \in PutState
      BY <1>2
<1>9. PICK u, v, w, x \in Int : u = p[0].used /\ v = p[1].used /\ w = p[2].used /\ x = p[3].used
      BY <1>8 DEF PutState
<1>10. u = 7 /\ ~p[0].ended
      BY <1>2, <1>9 DEF NothingPut
<1>11. v =< 7 + a /\ ~p[1].ended
  <2>1. p[0].used + 0 =< Maximum
        BY <1>7, <1>9, <1>10
  <2>2. ~p[1].ended /\ p[1].used =< p[0].used + context["safety"]
        BY <1>3, <1>4, <1>5, <1>7, <1>8, <1>10, <2>1, PutOne
  <2> QED
      BY <1>6, <1>9, <1>10, <2>2
<1>12. w =< v + 1 + b /\ ~p[2].ended
      BY <1>3, <1>4, <1>5, <1>6, <1>7, <1>8, <1>9, <1>11, PutOne
<1>13. x =< w + c /\ ~p[3].ended
      BY <1>3, <1>4, <1>5, <1>6, <1>7, <1>8, <1>9, <1>11, <1>12, PutOne
<1>14. x < Maximum
      BY <1>7, <1>11, <1>12, <1>13
<1>15. p[4].kept[Question] > 0 <=> context[Question] > 0
      BY <1>3, <1>4, <1>5, <1>7, <1>8, <1>9, <1>13, <1>14, PutOne
<1>16. \A i \in 5..16 : p[i].kept[Question] = p[i - 1].kept[Question]
  <2> TAKE i \in 5..16
  <2>1. p[i - 1] \in PutState /\ p[i] = Put(context, p[i - 1], Sections[i])
        BY <1>2
  <2>2. Sections[i] \in Range(Sections) /\ Sections[i] # Question
        BY SectionNames
  <2> QED
      BY <1>3, <2>1, <2>2, PutOther
<1>17. p[16].kept[Question] = p[4].kept[Question]
      BY <1>16
<1> QED
    BY <1>1, <1>15, <1>17

-----------------------------------------------------------------------------
\* What is kept of a plan's answers: at least one, each with an id of its own.
Drafts == [id : Nat, move : Moves, text : Messages]
Named(candidates) ==
    \A i, j \in DOMAIN candidates : candidates[i].id = candidates[j].id => i = j
KeptOf(kept, i) ==
    /\ kept \in Seq(Drafts)
    /\ i >= 1 => Len(kept) >= 1
    /\ \A a \in DOMAIN kept : kept[a].id \in 1..i
    /\ Named(kept)

LEMMA KeepOne ==
    ASSUME NEW i \in Nat, i >= 1, NEW kept, KeptOf(kept, i - 1), NEW c \in Drafts, c.id = i
    PROVE  KeptOf(KeepNew(kept, c), i)
<1>1. PICK n \in Nat : n = Len(kept) /\ DOMAIN kept = 1..n
      BY DEF KeptOf
<1>2. \A a \in 1..n : kept[a].id \in 1..(i - 1)
      BY <1>1 DEF KeptOf
<1>3. kept \in Seq(Drafts)
      BY DEF KeptOf
<1>4. CASE \E k \in DOMAIN kept : kept[k].move = c.move \/ kept[k].text = c.text
  <2>1. KeepNew(kept, c) = kept
        BY <1>4 DEF KeepNew
  <2>2. n >= 1
        BY <1>1, <1>4
  <2>3. \A a \in DOMAIN kept : kept[a].id \in 1..i
        BY <1>1, <1>2
  <2> QED
      BY <1>1, <1>3, <2>1, <2>2, <2>3 DEF KeptOf
<1>5. CASE ~\E k \in DOMAIN kept : kept[k].move = c.move \/ kept[k].text = c.text
  <2>1. PICK more : more = Append(kept, c)
        OBVIOUS
  <2>2. KeepNew(kept, c) = more
        BY <1>5, <2>1 DEF KeepNew
  <2>3. /\ more \in Seq(Drafts) /\ Len(more) = n + 1 /\ DOMAIN more = 1..(n + 1)
        /\ more[n + 1] = c /\ \A a \in 1..n : more[a] = kept[a]
        BY <1>1, <1>3, <2>1
  <2>4. \A a \in 1..(n + 1) : more[a].id \in 1..i
        BY <1>2, <2>3
  <2>5. \A a \in 1..n : more[a].id # i
        BY <1>2, <2>3
  <2>6. \A a, b \in 1..n : more[a].id = more[b].id => a = b
        BY <1>1, <2>3 DEF KeptOf, Named
  <2>7. Named(more)
    <3> SUFFICES ASSUME NEW a \in 1..(n + 1), NEW b \in 1..(n + 1), more[a].id = more[b].id PROVE a = b
        BY <2>3 DEF Named
    <3>1. (a = n + 1 \/ a \in 1..n) /\ (b = n + 1 \/ b \in 1..n)
          BY <1>1
    <3> QED
        BY <2>3, <2>5, <2>6, <3>1
  <2> QED
      BY <1>1, <2>2, <2>3, <2>4, <2>7 DEF KeptOf
<1> QED
    BY <1>4, <1>5

LEMMA KeptNamed ==
    ASSUME NEW answers \in Seq(Candidates), answers # <<>>
    PROVE  KeptOf(Kept(answers), Len(answers)) /\ Len(answers) >= 1
<1>1. PICK n \in Nat : n = Len(answers) /\ n >= 1 /\ DOMAIN answers = 1..n
      BY EmptySeq
<1>2. \A i \in 1..n : Candidate(answers, i) \in Drafts /\ Candidate(answers, i).id = i
  <2> TAKE i \in 1..n
  <2>1. answers[i] \in Candidates
        BY <1>1
  <2> QED
      BY <2>1 DEF Candidate, Candidates, Drafts
<1>3. <<>> \in Seq(Drafts) /\ KeptOf(<<>>, 0)
      BY DEF KeptOf, Named
<1>4. PICK step : step = [p \in (1..n) \X Seq(Drafts) |-> KeepNew(p[2], Candidate(answers, p[1]))]
      OBVIOUS
<1>5. step \in Steps(n, Seq(Drafts))
  <2>1. \A i \in 1..n, kept \in Seq(Drafts) : KeepNew(kept, Candidate(answers, i)) \in Seq(Drafts)
        BY <1>2 DEF KeepNew
  <2> QED
      BY <1>4, <2>1 DEF Steps
<1>6. PICK f \in [0..n -> Seq(Drafts)] : f[0] = <<>> /\ \A i \in 1..n : f[i] = step[<<i, f[i - 1]>>]
  <2>1. \E f : Computes(f, n, Seq(Drafts), <<>>, step)
        BY <1>3, <1>5, Recursion
  <2> QED
      BY <2>1 DEF Computes
<1>7. ASSUME NEW i \in 1..n PROVE step[<<i, f[i - 1]>>] = KeepNew(f[i - 1], Candidate(answers, i))
  <2>1. f[i - 1] \in Seq(Drafts)
        BY <1>6
  <2> QED
      BY <1>4, <2>1
<1>8. f = [i \in 0..n |-> IF i = 0 THEN <<>> ELSE KeepNew(f[i - 1], Candidate(answers, i))]
  <2>1. ASSUME NEW i \in 0..n
        PROVE  f[i] = IF i = 0 THEN <<>> ELSE KeepNew(f[i - 1], Candidate(answers, i))
    <3>1. CASE i = 0
          BY <1>6, <3>1
    <3>2. CASE i \in 1..n
          BY <1>6, <1>7, <3>2
    <3> QED
        BY <3>1, <3>2
  <2> QED
      BY <1>6, <2>1
<1>9. PICK keeps : keeps = Keeps(answers)
      OBVIOUS
<1>10. keeps = [i \in 0..n |-> IF i = 0 THEN <<>> ELSE KeepNew(keeps[i - 1], Candidate(answers, i))]
      BY <1>1, <1>8, <1>9 DEF Keeps
<1>11. keeps[0] = <<>>
      BY <1>10
<1>12. ASSUME NEW i \in 1..n PROVE keeps[i] = KeepNew(keeps[i - 1], Candidate(answers, i))
      BY <1>10
<1>13. PICK S : S = {i \in Nat : i =< n => KeptOf(keeps[i], i)}
      OBVIOUS
<1>14. 0 \in S
      BY <1>3, <1>11, <1>13
<1>15. ASSUME NEW m \in Nat, m \in S PROVE m + 1 \in S
  <2>1. CASE m + 1 =< n
    <3>1. PICK i \in 1..n : i = m + 1
          BY <2>1
    <3>2. KeptOf(keeps[i - 1], i - 1)
          BY <1>13, <1>15, <2>1, <3>1
    <3>3. KeptOf(keeps[i], i)
          BY <1>2, <1>12, <3>2, KeepOne
    <3> QED
        BY <1>13, <3>1, <3>3
  <2> QED
      BY <1>13, <2>1
<1>16. KeptOf(keeps[n], n)
  <2>1. Nat \subseteq S
    <3>1. \A m \in Nat : m \in S => m + 1 \in S
          BY <1>15
    <3> QED
        BY <1>14, <3>1, Induct
  <2>2. n \in S /\ n =< n
        BY <2>1
  <2> QED
      BY <1>13, <2>2
<1> QED
    BY <1>1, <1>9, <1>16 DEF Kept

-----------------------------------------------------------------------------
\* The choice by the local scores passes the gates.
LEMMA BestIs ==
    ASSUME NEW candidates, DOMAIN candidates \subseteq Nat
    PROVE  \/ Best(candidates) = 0
           \/ \E i \in DOMAIN candidates :
                 Best(candidates) = candidates[i].id /\ Passes(candidates[i].text, Asked)
<1>1. PICK passing : passing = {i \in DOMAIN candidates : Passes(candidates[i].text, Asked)}
      OBVIOUS
<1>2. PICK best : best = {i \in passing : \A j \in passing :
                             Quality[candidates[j].text] =< Quality[candidates[i].text]}
      OBVIOUS
<1>3. Best(candidates) = IF best = {} THEN 0 ELSE candidates[Min(best)].id
      BY <1>1, <1>2 DEF Best
<1>4. best \in SUBSET Nat
      BY <1>1, <1>2
<1>5. CASE best # {}
  <2>1. Min(best) \in best
        BY <1>4, <1>5, MinIs
  <2>2. PICK i : i = Min(best)
        OBVIOUS
  <2>3. i \in DOMAIN candidates /\ Passes(candidates[i].text, Asked)
        BY <1>1, <1>2, <2>1, <2>2
  <2> QED
      BY <1>3, <1>5, <2>2, <2>3
<1> QED
    BY <1>3, <1>5

\* The lookup of the winner finds a candidate of that id, if there is one.
Found(candidates, winner, mode, r) ==
    \/ r = Fallback
    \/ \E i \in DOMAIN candidates :
          candidates[i].id = winner /\ r = [NoResult EXCEPT !.mode = mode, !.text = candidates[i].text]

LEMMA SelectedIs ==
    ASSUME NEW candidates, DOMAIN candidates \subseteq Nat, NEW winner, NEW mode
    PROVE  Found(candidates, winner, mode, Selected(candidates, winner, mode))
<1>1. PICK named : named = {i \in DOMAIN candidates : candidates[i].id = winner}
      OBVIOUS
<1>2. Selected(candidates, winner, mode) =
         IF named = {} THEN Fallback
         ELSE [NoResult EXCEPT !.mode = mode, !.text = candidates[Min(named)].text]
      BY <1>1 DEF Selected
<1>3. named \in SUBSET Nat
      BY <1>1
<1>4. CASE named # {}
  <2>1. PICK i : i = Min(named)
        OBVIOUS
  <2>2. i \in named
        BY <1>3, <1>4, <2>1, MinIs
  <2>3. Selected(candidates, winner, mode) = [NoResult EXCEPT !.mode = mode, !.text = candidates[i].text]
        BY <1>2, <1>4, <2>1
  <2> QED
      BY <1>1, <2>2, <2>3 DEF Found
<1> QED
    BY <1>1, <1>2, <1>4 DEF Found

-----------------------------------------------------------------------------
\* The plan while it is judged or chosen from.
PlanOK ==
    /\ plan.candidates \in Seq(Drafts) /\ Len(plan.candidates) >= 1
    /\ \A i \in DOMAIN plan.candidates : plan.candidates[i].id >= 1
    /\ Named(plan.candidates)

\* What a result must be, by the turn and the plan.
Justified(r) ==
    r.mode \in {"model_candidate", "deterministic_judge_fallback"} /\ ~r.alias =>
        /\ Passes(r.text, turn.context[Question] > 0)
        /\ turn.strategic /\ r.mode = "model_candidate" => r.judged

\* The inductive invariant: the gates know of the fan's question, and the judge is asked on
\* a strategic turn only.
PlannerInv ==
    /\ stage \in {"idle", "plan", "judge", "select", "over"}
    /\ turn.context \in Contexts
    /\ stage # "idle" => (Asked <=> turn.context[Question] > 0)
    /\ stage \in {"judge", "select"} => PlanOK
    /\ stage = "select" => ~turn.strategic
    /\ stage # "over" => result = NoResult
    /\ Justified(result)

LEMMA NotChosen ==
    /\ Justified(NoResult)
    /\ \A mode \in {"failed", "internal_error"} : Justified([NoResult EXCEPT !.mode = mode])
    /\ Justified(Fallback)
BY DEF Justified, NoResult, Fallback, None

\* A turn ends with a result that is justified, unless HighEQPlan refuses it.
LEMMA Finished ==
    ASSUME PlannerInv, stage # "idle", NEW candidates, NEW chosen, Justified(chosen),
           Finish(candidates, chosen), plan' = plan
    PROVE  PlannerInv'
<1>1. stage' = "over" /\ turn' = turn /\ compiled' = compiled
      BY DEF Finish
<1>2. result' = chosen \/ result' = [NoResult EXCEPT !.mode = "internal_error"]
      BY DEF Finish
<1>3. Justified(result')
      BY <1>2, NotChosen
<1>4. Justified(result)'
      BY <1>1, <1>3 DEF Justified, Passes
<1>5. (Asked <=> turn.context[Question] > 0)'
      BY <1>1 DEF PlannerInv, Asked
<1> QED
    BY <1>1, <1>4, <1>5 DEF PlannerInv

\* What the gates let pass as they know of the question is what they should.
LEMMA PassesAsked ==
    ASSUME PlannerInv, stage # "idle", NEW text, Passes(text, Asked)
    PROVE  Passes(text, turn.context[Question] > 0)
BY DEF Passes, PlannerInv

\* The first of the best, by its id, is one that passes.
LEMMA LocalChoice ==
    ASSUME PlannerInv, stage \in {"judge", "select"},
           NEW mode, mode = "model_candidate" => ~turn.strategic
    PROVE  Justified(Selected(plan.candidates, Best(plan.candidates), mode))
<1>1. PICK candidates : candidates = plan.candidates
      OBVIOUS
<1>2. /\ DOMAIN candidates \subseteq Nat
      /\ \A i \in DOMAIN candidates : candidates[i].id >= 1
      /\ Named(candidates)
      BY <1>1 DEF PlannerInv, PlanOK
<1>3. PICK r : r = Selected(candidates, Best(candidates), mode)
      OBVIOUS
<1>4. CASE r = Fallback
      BY <1>1, <1>3, <1>4, NotChosen
<1>5. ASSUME NEW i \in DOMAIN candidates, candidates[i].id = Best(candidates),
             r = [NoResult EXCEPT !.mode = mode, !.text = candidates[i].text]
      PROVE  Justified(r)
  <2>1. 0 # Best(candidates)
        BY <1>2, <1>5
  <2>2. PICK j \in DOMAIN candidates : Best(candidates) = candidates[j].id /\ Passes(candidates[j].text, Asked)
        BY <1>2, <2>1, BestIs
  <2>3. i = j
        BY <1>2, <1>5, <2>2 DEF Named
  <2>4. Passes(candidates[i].text, turn.context[Question] > 0)
        BY <2>2, <2>3, PassesAsked
  <2>5. r.mode = mode /\ r.text = candidates[i].text
        BY <1>5 DEF NoResult
  <2> QED
      BY <2>4, <2>5 DEF Justified
<1>6. \/ r = Fallback
      \/ \E i \in DOMAIN candidates :
            candidates[i].id = Best(candidates) /\ r = [NoResult EXCEPT !.mode = mode, !.text = candidates[i].text]
  <2>1. Found(candidates, Best(candidates), mode, Selected(candidates, Best(candidates), mode))
        BY <1>2, SelectedIs
  <2> QED
      BY <1>3, <2>1 DEF Found
<1> QED
    BY <1>1, <1>3, <1>4, <1>5, <1>6

LEMMA PlannerStart == PlannerInit => PlannerInv
<1> SUFFICES ASSUME PlannerInit PROVE PlannerInv
    OBVIOUS
<1>1. stage = "idle" /\ turn.context \in Contexts /\ result = NoResult
      BY DEF PlannerInit
<1> QED
    BY <1>1, NotChosen DEF PlannerInv

LEMMA PlanAnswered ==
    ASSUME PlannerInv, NEW answers \in Seq(Candidates), answers # <<>>, NEW ask \in BOOLEAN,
           PlanAnswers(answers, ask)
    PROVE  PlannerInv'
<1>1. /\ stage = "plan" /\ UNCHANGED <<turn, compiled, result>>
      /\ plan' = [ask |-> ask, candidates |-> Kept(answers)]
      /\ stage' = IF turn.strategic THEN "judge" ELSE "select"
      BY DEF PlanAnswers
<1>2. PlanOK'
  <2>1. PICK k : k = Kept(answers)
        OBVIOUS
  <2>2. plan'.candidates = k
        BY <1>1, <2>1
  <2>3. KeptOf(k, Len(answers)) /\ Len(answers) >= 1
        BY <2>1, KeptNamed
  <2>4. k \in Seq(Drafts) /\ Len(k) >= 1 /\ (\A i \in DOMAIN k : k[i].id \in 1..Len(answers)) /\ Named(k)
        BY <2>3 DEF KeptOf
  <2>5. \A i \in DOMAIN k : k[i].id >= 1
        BY <2>4
  <2>6. PlanOK' <=> /\ plan'.candidates \in Seq(Drafts) /\ Len(plan'.candidates) >= 1
                    /\ \A i \in DOMAIN plan'.candidates : plan'.candidates[i].id >= 1
                    /\ Named(plan'.candidates)
        BY DEF PlanOK, Named
  <2> QED
      BY <2>2, <2>4, <2>5, <2>6
<1>3. result' = NoResult
      BY <1>1 DEF PlannerInv
<1>4. Justified(result)'
      BY <1>3 DEF Justified, NoResult, None
<1>5. (Asked <=> turn.context[Question] > 0)'
      BY <1>1 DEF PlannerInv, Asked
<1> QED
    BY <1>1, <1>2, <1>3, <1>4, <1>5 DEF PlannerInv

LEMMA Judged ==
    ASSUME PlannerInv, NEW approved, NEW winner, NEW allRejected \in BOOLEAN, winner = 0 <=> allRejected,
           NEW replacement \in Replacements, NEW fine \in BOOLEAN,
           JudgeAnswers(approved, winner, allRejected, replacement, fine)
    PROVE  PlannerInv'
<1> DEFINE end == Len(plan.candidates)
           own == IF \E i \in Approved(approved) : plan.candidates[i].id = winner THEN winner ELSE 0
           used == replacement # <<>>
           new == replacement[1]
           accepted == used /\ fine /\ Passes(new.text, Asked)
           candidates == IF used THEN [plan.candidates EXCEPT ![end] = new] ELSE plan.candidates
           id == IF accepted THEN new.id ELSE own
           chosen == Selected(candidates, id, "model_candidate")
           judged == \/ \E i \in ByJudge(approved) : plan.candidates[i].text = chosen.text
                     \/ accepted /\ chosen.text = new.text
           alias == accepted /\ \E i \in 1..(end - 1) : plan.candidates[i].id = new.id
           r == [chosen EXCEPT !.judged = judged, !.alias = alias]
<1>1. stage = "judge" /\ plan' = plan /\ Finish(candidates, r) /\ (used => allRejected)
      BY DEF JudgeAnswers, Coherent
<1>2. PICK n \in Nat : n = end /\ DOMAIN plan.candidates = 1..n /\ n >= 1
      BY <1>1 DEF PlannerInv, PlanOK
<1>3. (\A i \in 1..n : plan.candidates[i].id >= 1) /\ Named(plan.candidates)
      BY <1>1, <1>2 DEF PlannerInv, PlanOK
<1>4. used => new.id \in 1..4
      BY DEF Replacements, Stranger
<1>5. /\ used => DOMAIN candidates = 1..n /\ candidates[n] = new
                     /\ \A i \in 1..(n - 1) : candidates[i] = plan.candidates[i]
      /\ ~used => candidates = plan.candidates
      BY <1>2
<1>6. accepted => used /\ Passes(new.text, Asked)
      OBVIOUS
<1>7. /\ accepted => id = new.id
      /\ ~accepted => id = own
      OBVIOUS
<1>8. \/ own = 0
      \/ own = winner /\ \E i \in Approved(approved) : plan.candidates[i].id = winner
      OBVIOUS
<1>9. alias <=> accepted /\ \E i \in 1..(end - 1) : plan.candidates[i].id = new.id
      OBVIOUS
<1>10. judged <=> \/ \E i \in ByJudge(approved) : plan.candidates[i].text = chosen.text
                  \/ accepted /\ chosen.text = new.text
      OBVIOUS
<1>11. DOMAIN candidates = 1..n
      BY <1>2, <1>5
<1>12. \/ chosen = Fallback
       \/ \E i \in 1..n : candidates[i].id = id
              /\ chosen = [NoResult EXCEPT !.mode = "model_candidate", !.text = candidates[i].text]
  <2>1. PICK c : c = candidates
        OBVIOUS
  <2>2. DOMAIN c = 1..n
        BY <1>11, <2>1
  <2>3. DOMAIN c \subseteq Nat
        BY <2>2
  <2>4. \/ Selected(c, id, "model_candidate") = Fallback
        \/ \E i \in DOMAIN c : c[i].id = id
              /\ Selected(c, id, "model_candidate")
                    = [NoResult EXCEPT !.mode = "model_candidate", !.text = c[i].text]
    <3>1. PICK d : d = id
          OBVIOUS
    <3>2. Found(c, d, "model_candidate", Selected(c, d, "model_candidate"))
          BY <2>3, SelectedIs
    <3> HIDE DEF id
    <3> QED
        BY <3>1, <3>2 DEF Found
  <2> QED
      BY <2>1, <2>2, <2>4
<1>13. ASSUME chosen = Fallback PROVE Justified(r)
  <2>1. r.mode \in {"operator_review", "grounded_fallback"}
    <3> HIDE DEF judged, alias, chosen
    <3> QED
        BY <1>13 DEF Fallback, NoResult
  <2> QED
      BY <2>1 DEF Justified
<1>14. ASSUME NEW i \in 1..n, candidates[i].id = id,
              chosen = [NoResult EXCEPT !.mode = "model_candidate", !.text = candidates[i].text]
       PROVE  Justified(r)
  <2>1. r.mode = "model_candidate" /\ r.text = candidates[i].text /\ r.alias = alias /\ r.judged = judged
    <3> HIDE DEF judged, alias, chosen, candidates
    <3> QED
        BY <1>14 DEF NoResult
  <2>2. chosen.text = candidates[i].text
    <3> HIDE DEF judged, alias, chosen, candidates
    <3> QED
        BY <1>14 DEF NoResult
  <2> HIDE DEF end, own, used, new, accepted, candidates, id, chosen, judged, alias, r
  <2>3. CASE accepted
    <3>1. ASSUME ~alias PROVE Passes(r.text, Asked) /\ judged
      <4>1. \A j \in 1..(n - 1) : plan.candidates[j].id # new.id
            BY <1>2, <1>9, <2>3, <3>1
      <4>2. i = n
        <5>1. i \notin 1..(n - 1)
              BY <1>5, <1>6, <1>7, <1>14, <2>3, <4>1
        <5> QED
            BY <5>1
      <4>3. candidates[i] = new
            BY <1>5, <1>6, <2>3, <4>2
      <4> QED
          BY <1>6, <1>10, <2>1, <2>2, <2>3, <4>3
    <3> QED
        BY <1>1, <2>1, <3>1, PassesAsked DEF Justified
  <2>4. CASE ~accepted
    <3>1. id = own
          BY <1>7, <2>4
    <3>2. ~used
      <4> SUFFICES ASSUME used PROVE FALSE
          OBVIOUS
      <4>1. own = 0
            BY <1>1, <1>8
      <4>2. candidates[i].id >= 1
        <5>1. CASE i = n
              BY <1>4, <1>5, <5>1
        <5>2. CASE i \in 1..(n - 1)
              BY <1>3, <1>5, <5>2
        <5> QED
            BY <5>1, <5>2
      <4> QED
          BY <1>14, <3>1, <4>1, <4>2
    <3>3. candidates = plan.candidates
          BY <1>5, <3>2
    <3>4. own # 0
          BY <1>3, <1>14, <3>1, <3>3
    <3>5. PICK j \in Approved(approved) : plan.candidates[j].id = own
          BY <1>8, <3>4
    <3>6. j \in ByJudge(approved) /\ j \in 1..n /\ Passes(plan.candidates[j].text, Asked)
          BY <1>2 DEF Approved, ByJudge
    <3>7. i = j
          BY <1>2, <1>3, <1>14, <3>1, <3>3, <3>5, <3>6 DEF Named
    <3>8. Passes(r.text, Asked) /\ judged
          BY <1>10, <2>1, <2>2, <3>3, <3>6, <3>7
    <3> QED
        BY <1>1, <2>1, <3>8, PassesAsked DEF Justified
  <2> QED
      BY <2>3, <2>4
<1>15. Justified(r)
      BY <1>12, <1>13, <1>14
<1> HIDE DEF r, candidates
<1> QED
    BY <1>1, <1>15, Finished

LEMMA PlannerStep == PlannerInv /\ [PlannerNext]_plannerVars => PlannerInv'
<1> SUFFICES ASSUME PlannerInv, [PlannerNext]_plannerVars PROVE PlannerInv'
    OBVIOUS
<1>1. CASE UNCHANGED plannerVars
      BY <1>1 DEF plannerVars, PlannerInv, Asked, PlanOK, Justified, Passes, Named
<1>2. CASE CompilePrompt
  <2>1. stage' = "plan" /\ UNCHANGED <<turn, plan, result>> /\ compiled' = Puts(turn.context)[16].kept
        BY <1>2 DEF CompilePrompt
  <2>2. turn.context \in Contexts
        BY DEF PlannerInv
  <2>3. (Asked <=> turn.context[Question] > 0)'
        BY <2>1, <2>2, QuestionIn DEF Asked
  <2>4. result' = NoResult
        BY <1>2, <2>1 DEF PlannerInv, CompilePrompt
  <2>5. Justified(result)'
        BY <2>4 DEF Justified, NoResult, None
  <2> QED
      BY <2>1, <2>2, <2>3, <2>4, <2>5 DEF PlannerInv
<1>3. CASE PlanFails
  <2>1. stage = "plan" /\ stage' = "over" /\ UNCHANGED <<turn, compiled, plan>>
        /\ result' = [NoResult EXCEPT !.mode = "failed"]
        BY <1>3 DEF PlanFails
  <2>2. Justified(result)'
        BY <2>1 DEF Justified, NoResult
  <2>3. (Asked <=> turn.context[Question] > 0)'
        BY <2>1 DEF PlannerInv, Asked
  <2> QED
      BY <2>1, <2>2, <2>3 DEF PlannerInv
<1>4. CASE SelectFast
  <2>1. stage = "select" /\ plan' = plan
        /\ Finish(plan.candidates, Selected(plan.candidates, Best(plan.candidates), "model_candidate"))
        BY <1>4 DEF SelectFast
  <2>2. ~turn.strategic
        BY <2>1 DEF PlannerInv
  <2>3. Justified(Selected(plan.candidates, Best(plan.candidates), "model_candidate"))
        BY <2>1, <2>2, LocalChoice
  <2> QED
      BY <2>1, <2>3, Finished
<1>5. CASE JudgeFails
  <2>1. stage = "judge" /\ plan' = plan
        /\ Finish(plan.candidates, Selected(plan.candidates, Best(plan.candidates), "deterministic_judge_fallback"))
        BY <1>5 DEF JudgeFails
  <2>2. Justified(Selected(plan.candidates, Best(plan.candidates), "deterministic_judge_fallback"))
        BY <2>1, LocalChoice
  <2> QED
      BY <2>1, <2>2, Finished
<1>6. CASE Judge
  <2>1. PICK approved \in SUBSET (1..Stranger), winner \in 0..Stranger, allRejected \in BOOLEAN :
            /\ winner = 0 <=> allRejected
            /\ \E replacement \in (IF allRejected THEN Replacements ELSE {<<>>}), fine \in BOOLEAN :
                  JudgeAnswers(approved, winner, allRejected, replacement, fine)
        BY <1>6 DEF Judge
  <2>2. PICK replacement \in (IF allRejected THEN Replacements ELSE {<<>>}), fine \in BOOLEAN :
            JudgeAnswers(approved, winner, allRejected, replacement, fine)
        BY <2>1
  <2>3. replacement \in Replacements
        BY <2>2 DEF Replacements
  <2>4. winner = 0 <=> allRejected
        BY <2>1
  <2> QED
      BY <2>2, <2>3, <2>4, Judged
<1>7. ASSUME NEW answers \in BoundedSeq(Candidates, 3) \ {<<>>}, NEW ask \in BOOLEAN, PlanAnswers(answers, ask)
      PROVE  PlannerInv'
  <2>1. PICK m \in 0..3 : answers \in [1..m -> Candidates]
        BY DEF BoundedSeq, SeqOf
  <2>2. answers \in Seq(Candidates) /\ answers # <<>>
        BY <2>1
  <2> QED
      BY <1>7, <2>2, PlanAnswered
<1> QED
    BY <1>1, <1>2, <1>3, <1>4, <1>5, <1>6, <1>7 DEF PlannerNext

\* A model's text that goes on to a fan passed the local gates, answers the turn's question
\* and, where a judge answered, is one the judge approved, but for a replacement that bears
\* the id of a candidate (DeepSeekV3Planner.generate).
THEOREM SelectedPasses == PlannerSpec => []SelectedPassedGates
<1>1. PlannerSpec => []PlannerInv
      BY PlannerStart, PlannerStep, PTL DEF PlannerSpec
<1>2. PlannerInv => SelectedPassedGates
      BY DEF PlannerInv, Justified, SelectedPassedGates
<1> QED
    BY <1>1, <1>2, PTL

=============================================================================
