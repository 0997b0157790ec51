------------------------------- MODULE Knowledge -------------------------------
(***************************************************************************)
(* What the brains are taught: playbook rules with their review gate for   *)
(* contradictions, example replies, and the corpus releases that bring     *)
(* both (intelligence_v3/repository.py, intelligence_v3/corpus.py).        *)
(*                                                                         *)
(* Rules are numbered in the order they were made; of examples, which      *)
(* differ in origin and status only, the number of rows counts.  Every     *)
(* operation is one transaction of the dashboard or of                     *)
(* scripts/ingest_tiffany_corpus.py.  Ranking and the limits of a          *)
(* retrieval are left out: what it may return is what counts here.         *)
(***************************************************************************)
EXTENDS Naturals, Sequences, FiniteSets

CONSTANTS
    Texts,          \* what a rule may be: its key and its body
    Clash,          \* the bodies that contradict each other
    Releases,       \* versions of the compiled corpus
    RuleOf,         \* the rule each brings
    ByHand,         \* the origin of what the operator writes
    MaxByHand       \* bound on it

Keys == {text[1] : text \in Texts}
Bodies == {text[2] : text \in Texts}

ASSUME KnowledgeAssumption ==
    /\ Clash \subseteq Bodies \X Bodies
    /\ \A pair \in Clash : <<pair[2], pair[1]>> \in Clash
    /\ RuleOf \in [Releases -> Texts]
    /\ ByHand \notin Releases
    /\ MaxByHand \in Nat

VARIABLES
    rules,      \* conversation_knowledge_rules
    conflicts,  \* conversation_knowledge_conflicts: the open and the resolved pairs
    examples,   \* conversation_examples
    release,    \* conversation_corpus_releases: the status of each version
    byHand,     \* rows written by the operator so far
    reviewed    \* rules made while the others were not archived: the pairs compared

vars == <<rules, conflicts, examples, release, byHand, reviewed>>

Origins == Releases \cup {ByHand}
\* A draft and an approved rule are alike here, and so are a draft and an
\* archived example.
RuleStatus == {"draft", "active", "archived"}
Status == {"draft", "active"}

RuleType == [key : Keys, body : Bodies, origin : Origins, status : RuleStatus]
Rows == [Origins -> [Status -> Nat]]
Pairs == (DOMAIN rules) \X (DOMAIN rules)

TypeOK ==
    /\ rules \in Seq(RuleType)
    /\ examples \in Rows
    /\ conflicts \in [open : SUBSET Pairs, resolved : SUBSET Pairs]
    /\ release \in [Releases -> {"none", "shadow", "active", "archived"}]
    /\ byHand \in 0..MaxByHand
    /\ reviewed \subseteq Pairs

NoRows == [origin \in Origins |-> [status \in Status |-> 0]]
Added(rows, origin, status) == [rows EXCEPT ![origin][status] = @ + 1]
Moved(rows, origin, from, to) ==
    [rows EXCEPT ![origin][from] = @ - 1, ![origin][to] = @ + 1]

Init ==
    /\ rules = <<>> /\ examples = NoRows
    /\ conflicts = [open |-> {}, resolved |-> {}]
    /\ release = [r \in Releases |-> "none"]
    /\ byHand = 0 /\ reviewed = {}

\* One more row by the operator.
Writes == byHand < MaxByHand /\ byHand' = byHand + 1

-----------------------------------------------------------------------------
(* What is read.                                                           *)

\* _corpus_scope: a corpus row counts when its release is the selected one,
\* which for a live retrieval is the active one.
InScope(origin) == origin = ByHand \/ release[origin] = "active"

\* retrieve(shadow=False)
LiveRules ==
    {i \in DOMAIN rules : rules[i].status = "active" /\ InScope(rules[i].origin)}
LiveExamples ==
    {origin \in Origins : examples[origin]["active"] > 0 /\ InScope(origin)}

-----------------------------------------------------------------------------
(* The dashboard.                                                          *)

\* _detect_rule_conflicts: archived peers are not compared.
Peers == {i \in DOMAIN rules : rules[i].status # "archived"}
Contradicted(body) == {i \in Peers : <<rules[i].body, body>> \in Clash}

\* create_rule
CreateRule(key, body, status) ==
    /\ Writes
    /\ LET id == Len(rules) + 1
           against == Contradicted(body)
       IN  /\ rules' = Append(rules, [key |-> key, body |-> body, origin |-> ByHand,
                  status |-> IF status = "active" /\ against # {} THEN "draft"
                                                               ELSE status])
           /\ conflicts' = [conflicts EXCEPT !.open = @ \cup (against \X {id})]
           /\ reviewed' = reviewed \cup (Peers \X {id})
    /\ UNCHANGED <<examples, release>>

OpenConflict(i) == \E pair \in conflicts.open : i \in {pair[1], pair[2]}

\* Mutant: a rule is activated whether or not a conflict of it is open.
ActivateAny(i) ==
    /\ rules' = [j \in DOMAIN rules |->
                    IF j = i THEN [rules[j] EXCEPT !.status = "active"]
                    ELSE IF rules[j].key = rules[i].key /\ rules[j].status = "active"
                         THEN [rules[j] EXCEPT !.status = "archived"]
                         ELSE rules[j]]
    /\ UNCHANGED <<conflicts, examples, release, byHand, reviewed>>

\* set_rule_status
ActivateRule(i) ==
    /\ ~OpenConflict(i)
    /\ rules' = [j \in DOMAIN rules |->
                    IF j = i THEN [rules[j] EXCEPT !.status = "active"]
                    ELSE IF rules[j].key = rules[i].key /\ rules[j].status = "active"
                         THEN [rules[j] EXCEPT !.status = "archived"]
                         ELSE rules[j]]
    /\ UNCHANGED <<conflicts, examples, release, byHand, reviewed>>

SetRuleStatus(i, status) ==
    /\ status # "active"
    /\ rules' = [rules EXCEPT ![i].status = status]
    /\ UNCHANGED <<conflicts, examples, release, byHand, reviewed>>

ResolveConflict(pair) ==
    /\ pair \in conflicts.open
    /\ conflicts' = [open |-> conflicts.open \ {pair},
                     resolved |-> conflicts.resolved \cup {pair}]
    /\ UNCHANGED <<rules, examples, release, byHand, reviewed>>

\* create_example of either repository
CreateExample(status) ==
    /\ Writes
    /\ examples' = Added(examples, ByHand, status)
    /\ UNCHANGED <<rules, conflicts, release, reviewed>>

SetExampleStatus(origin, from, to) ==
    /\ from # to /\ examples[origin][from] > 0
    /\ examples' = Moved(examples, origin, from, to)
    /\ UNCHANGED <<rules, conflicts, release, byHand, reviewed>>

-----------------------------------------------------------------------------
(* CorpusIngestor.ingest, in either mode.                                  *)

\* The release that held the mode is archived.
Shelved(r, mode) ==
    [s \in Releases |-> IF s = r THEN mode
                        ELSE IF release[s] = mode THEN "archived" ELSE release[s]]

\* A version that is stored changes its status and nothing else.
IngestAgain(r, mode) ==
    /\ release[r] # "none"
    /\ release' = IF release[r] = mode THEN release ELSE Shelved(r, mode)
    /\ UNCHANGED <<rules, conflicts, examples, byHand, reviewed>>

\* A new one brings its rows, active from the start and not compared with others.
Ingest(r, mode) ==
    /\ release[r] = "none"
    /\ release' = Shelved(r, mode)
    /\ rules' = Append(rules, [key |-> RuleOf[r][1], body |-> RuleOf[r][2],
                               origin |-> r, status |-> "active"])
    /\ examples' = Added(examples, r, "active")
    /\ UNCHANGED <<conflicts, byHand, reviewed>>

Next ==
    \/ \E text \in Texts, s \in RuleStatus : CreateRule(text[1], text[2], s)
    \/ \E i \in DOMAIN rules : ActivateRule(i)
    \/ \E i \in DOMAIN rules, s \in RuleStatus : SetRuleStatus(i, s)
    \/ \E pair \in conflicts.open : ResolveConflict(pair)
    \/ \E s \in Status : CreateExample(s)
    \/ \E o \in Origins, from, to \in Status : SetExampleStatus(o, from, to)
    \/ \E r \in Releases, mode \in {"shadow", "active"} : IngestAgain(r, mode) \/ Ingest(r, mode)

Spec == Init /\ [][Next]_vars

-----------------------------------------------------------------------------
\* Two rules that contradict each other are only both in force after an
\* operator resolved their conflict, if they were compared at all: the later
\* one was written by hand and the earlier was not archived then
\* (_detect_rule_conflicts, "Create review gates").
ContradictionsReviewed ==
    \A pair \in reviewed :
        LET i == pair[1] j == pair[2] IN
            /\ rules[i].status = "active" /\ rules[j].status = "active"
            /\ <<rules[i].body, rules[j].body>> \in Clash
            => pair \in conflicts.resolved

\* A live retrieval selects one release at most, whatever was ingested, promoted
\* or rolled back: a rule or an example of the corpus is never joined by those
\* of another version.
OneLiveRelease ==
    /\ \A i, j \in LiveRules : {rules[i].origin, rules[j].origin} \subseteq Releases
                                  => rules[i].origin = rules[j].origin
    /\ \A o, p \in LiveExamples \cap Releases : o = p

=============================================================================
