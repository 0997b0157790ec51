------------------------------- MODULE Planner -------------------------------
(***************************************************************************)
(* How Conversation Intelligence V3 chooses the text of a reply            *)
(* (intelligence_v3/planner.py, service._evaluate): the context is fitted  *)
(* into a prompt, one call plans up to three candidates, the local gates   *)
(* look at each, a strategic turn has a second call judge them and, when   *)
(* it rejects all, write a replacement; what is left is a narrow fallback  *)
(* or an operator.  What the gates say of a text is given by the           *)
(* constants; what the model answers is any answer its contract admits.    *)
(***************************************************************************)
EXTENDS Integers, Sequences, FiniteSetsExt, SequencesExt

CONSTANTS
    Contexts,       \* sizes of the sections, by name; Absent where there is none
    Maximum,        \* max_chars
    Moves,          \* an act and a structure
    Messages,       \* the texts of a candidate
    Repeats, Asking, Answering,  \* refused by the diversity or safety gate; with a
                    \* question mark; declared to answer the fan's question
    Quality         \* _deterministic_quality, by text

VARIABLES
    stage,          \* "idle", "plan", "judge", "select", "over"
    turn,           \* the turn: [strategic, kind, context]
    compiled,       \* what is left of each section of the prompt, Absent if it is not in it
    plan,           \* should_ask_question and the candidates
    result          \* PlannerResult, or the failure _evaluate records

plannerVars == <<stage, turn, compiled, plan, result>>

Absent == -1
None == "none"
Stranger == 4       \* an id no candidate of the plan has

Sections == <<"safety", "training_release", "newest_turn", "direct_unresolved_question",
    "recent_history", "relationship_state", "boundaries", "memory_controls",
    "verified_creator_facts", "memories", "playbook_rules", "approved_examples", "callbacks",
    "persona", "creator_instructions", "diversity_context">>
Required == {"safety", "newest_turn", "direct_unresolved_question", "recent_history",
    "relationship_state", "boundaries", "verified_creator_facts"}

\* A context's sizes are lengths.  The sections before the question have fixed sizes, or are
\* cut to one (the newest turn, to 4,000 characters), and leave it room: max_chars is 40,000.
Question == "direct_unresolved_question"
ASSUME PlannerAssumption ==
    /\ Maximum \in Nat
    /\ Contexts \subseteq [Range(Sections) -> Nat \cup {Absent}]
    /\ \A context \in Contexts :
          /\ context["safety"] # Absent /\ context["newest_turn"] # Absent
          /\ 7 + context["safety"] + (1 + context["training_release"]) + context["newest_turn"] < Maximum

NoPlan == [ask |-> FALSE, candidates |-> <<>>]
\* judged: the judge approved this text; alias: the replacement bears the id of a candidate
NoResult == [mode |-> None, text |-> None, judged |-> FALSE, alias |-> FALSE]

PlannerInit ==
    /\ stage = "idle"
    /\ turn \in [strategic : BOOLEAN, kind : {"plain", "boundary", "correction"}, context : Contexts]
    /\ compiled = <<>> /\ plan = NoPlan /\ result = NoResult

-----------------------------------------------------------------------------
(* PromptCompilerV3.  A key costs one unit, its value what it has kept.    *)

\* A section that is too large is shrunk to the room there is; an optional one whose key
\* does not fit ends the prompt, the required ones after it stay as empty as they were.
Put(context, got, s) ==
    LET key == IF s \in Required THEN 0 ELSE 1    \* the required keys are there already
        room == Maximum - got.used - key
        raw == IF context[s] = Absent /\ s \in Required THEN 0 ELSE context[s]
        fitted == IF raw =< room THEN raw ELSE IF room > 0 THEN room ELSE 0
    IN  IF got.ended \/ raw = Absent THEN got
        ELSE IF room < 0 /\ s \notin Required THEN [got EXCEPT !.ended = TRUE]
        ELSE [got EXCEPT !.kept = [got.kept EXCEPT ![s] = fitted], !.used = got.used + key + fitted]

NothingPut ==
    [kept |-> [s \in Range(Sections) |-> IF s \in Required THEN 0 ELSE Absent],
     used |-> 7, ended |-> FALSE]

\* The prompt after each of its sections.
Puts(context) ==
    LET puts[i \in 0..16] ==
            IF i = 0 THEN NothingPut ELSE Put(context, puts[i - 1], Sections[i])
    IN  puts

CompilePrompt ==
    /\ stage = "idle"
    /\ compiled' = Puts(turn.context)[16].kept
    /\ stage' = "plan"
    /\ UNCHANGED <<turn, plan, result>>

-----------------------------------------------------------------------------
\* What the local gates say of a text; asked: the turn has a question of the fan's open.
Passes(text, asked) ==
    /\ text \notin Repeats
    /\ asked => text \in Answering
    /\ text \in Asking <=> plan.ask

\* The question the gates know of is the one that is left in the prompt.
Asked == compiled[Question] > 0

\* Candidates are renamed c1, c2, c3; one that repeats a move or a text is left out.
Candidate(answers, i) == [id |-> i, move |-> answers[i].move, text |-> answers[i].text]
KeepNew(kept, c) ==
    IF \E k \in DOMAIN kept : kept[k].move = c.move \/ kept[k].text = c.text THEN kept ELSE Append(kept, c)
Keeps(answers) ==
    LET keeps[i \in 0..Len(answers)] ==
            IF i = 0 THEN <<>> ELSE KeepNew(keeps[i - 1], Candidate(answers, i))
    IN  keeps
Kept(answers) == Keeps(answers)[Len(answers)]

\* The first of the best that pass, as max over the list.
Best(candidates) ==
    LET passing == {i \in DOMAIN candidates : Passes(candidates[i].text, Asked)}
        best == {i \in passing : \A j \in passing :
                    Quality[candidates[j].text] =< Quality[candidates[i].text]}
    IN  IF best = {} THEN 0 ELSE candidates[Min(best)].id

Fallback ==
    IF turn.kind = "plain" THEN [NoResult EXCEPT !.mode = "operator_review"]
    ELSE [NoResult EXCEPT !.mode = "grounded_fallback", !.text = turn.kind]

\* The end of generate: the first candidate with the winner's id.
Selected(candidates, winner, mode) ==
    LET named == {i \in DOMAIN candidates : candidates[i].id = winner}
    IN  IF named = {} THEN Fallback
        ELSE [NoResult EXCEPT !.mode = mode, !.text = candidates[Min(named)].text]

\* HighEQPlan refuses candidates of one move; _evaluate records an internal error.
Finish(candidates, chosen) ==
    /\ result' = IF \E i, j \in DOMAIN candidates : i # j /\ candidates[i].move = candidates[j].move
                 THEN [NoResult EXCEPT !.mode = "internal_error"]
                 ELSE chosen
    /\ stage' = "over"
    /\ UNCHANGED <<turn, compiled>>

\* The plan's call: not configured, transport, or an answer that breaks the contract.
PlanFails ==
    /\ stage = "plan"
    /\ result' = [NoResult EXCEPT !.mode = "failed"]
    /\ stage' = "over"
    /\ UNCHANGED <<turn, compiled, plan>>

PlanAnswers(answers, ask) ==
    /\ stage = "plan"
    /\ plan' = [ask |-> ask, candidates |-> Kept(answers)]
    /\ stage' = IF turn.strategic THEN "judge" ELSE "select"
    /\ UNCHANGED <<turn, compiled, result>>

SelectFast ==
    /\ stage = "select"
    /\ Finish(plan.candidates, Selected(plan.candidates, Best(plan.candidates), "model_candidate"))
    /\ UNCHANGED plan

\* A judge that fails leaves the choice to the local scores.
JudgeFails ==
    /\ stage = "judge"
    /\ Finish(plan.candidates,
              Selected(plan.candidates, Best(plan.candidates), "deterministic_judge_fallback"))
    /\ UNCHANGED plan

-----------------------------------------------------------------------------
\* JudgeEnvelope.coherent_winner: approved are ids, winner is one of them or 0, replacement
\* is empty or one candidate, fine says that its own assessment approves it.
Coherent(approved, winner, allRejected, replacement) ==
    /\ IF allRejected THEN winner = 0 ELSE winner \in approved
    /\ replacement # <<>> => allRejected

\* The candidates of the plan that the judge approves.
ByJudge(approved) == {i \in DOMAIN plan.candidates : plan.candidates[i].id \in approved}

\* Mutant: the judge's approval is enough.
ApprovedByJudge(approved) == ByJudge(approved)

\* Only an approval that the local gates share counts.
Approved(approved) == {i \in ByJudge(approved) : Passes(plan.candidates[i].text, Asked)}

\* A replacement takes the place of the last candidate.
JudgeAnswers(approved, winner, allRejected, replacement, fine) ==
    /\ stage = "judge"
    /\ Coherent(approved, winner, allRejected, replacement)
    /\ LET last == Len(plan.candidates)
           own == IF \E i \in Approved(approved) : plan.candidates[i].id = winner THEN winner ELSE 0
           used == replacement # <<>>
           new == replacement[1]
           accepted == used /\ fine /\ Passes(new.text, Asked)
           candidates == IF used THEN [plan.candidates EXCEPT ![last] = new] ELSE plan.candidates
           chosen == Selected(candidates, IF accepted THEN new.id ELSE own, "model_candidate")
           judged == \/ \E i \in ByJudge(approved) : plan.candidates[i].text = chosen.text
                     \/ accepted /\ chosen.text = new.text
           alias == accepted /\ \E i \in 1..(last - 1) : plan.candidates[i].id = new.id
       IN  Finish(candidates, [chosen EXCEPT !.judged = judged, !.alias = alias])
    /\ UNCHANGED plan

Candidates == [move : Moves, text : Messages]
Replacements == {<<>>} \cup {<<c>> : c \in [id : 1..Stranger, move : Moves, text : Messages]}

\* The answers of the judge that its contract admits.
Judge ==
    \E approved \in SUBSET (1..Stranger), winner \in 0..Stranger, allRejected \in BOOLEAN :
        /\ winner = 0 <=> allRejected
        /\ \E replacement \in (IF allRejected THEN Replacements ELSE {<<>>}), fine \in BOOLEAN :
               JudgeAnswers(approved, winner, allRejected, replacement, fine)

PlannerNext ==
    \/ CompilePrompt \/ PlanFails \/ SelectFast \/ JudgeFails \/ Judge
    \/ \E answers \in BoundedSeq(Candidates, 3) \ {<<>>}, ask \in BOOLEAN : PlanAnswers(answers, ask)

PlannerSpec == PlannerInit /\ [][PlannerNext]_plannerVars

-----------------------------------------------------------------------------
\* A model's text that goes on to a fan passed the local gates, answers the question the
\* turn came with and, on a strategic turn whose judge answered, is one the judge approved;
\* the exception is a replacement that the judge gives the id of a rejected candidate: the
\* lookup by id finds the rejected text first (DeepSeekV3Planner.generate, judge's
\* replacement).
SelectedPassedGates ==
    (result.mode \in {"model_candidate", "deterministic_judge_fallback"} /\ ~result.alias) =>
        /\ Passes(result.text, turn.context[Question] > 0)
        /\ turn.strategic /\ result.mode = "model_candidate" => result.judged
=============================================================================
