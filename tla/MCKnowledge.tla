----------------------------- MODULE MCKnowledge -----------------------------
(* Two versions of the corpus that disagree, and an operator; two turns and  *)
(* two messages of the fan, the second rude, and a window of two ticks.  The *)
(* outcome rows and the planner share no state with the corpus: a behaviour  *)
(* is of one of the three.                                                   *)
EXTENDS Knowledge, Outcomes, Planner

CONSTANTS v1, v2, r1, r2

Ask  == <<"opening", "ask">>
Wait == <<"closing", "wait">>
MCTexts == {Ask, Wait}
MCClash == {<<"ask", "wait">>, <<"wait", "ask">>}
MCRuleOf == [r \in Releases |-> IF r = v1 THEN Ask ELSE Wait]
\* Three rules: two by hand beside one release, or one beside two.
MaxRules == 3
Curate == Next /\ Len(rules') =< MaxRules

-----------------------------------------------------------------------------
\* The planner: two moves, three texts; a small context, and one whose required sections
\* leave no room for those after the boundaries.
Sized(sizes) == [s \in Range(Sections) |-> IF s \in DOMAIN sizes THEN sizes[s] ELSE Absent]
SmallContext == Sized([safety |-> 1, newest_turn |-> 2, recent_history |-> 3])
LargeContext ==
    Sized([safety |-> 1, newest_turn |-> 4, direct_unresolved_question |-> 2, recent_history |-> 8,
           relationship_state |-> 2, boundaries |-> 20, memory_controls |-> 3,
           verified_creator_facts |-> 3, persona |-> 2])
MCContexts == {SmallContext, LargeContext}
MCQuality == [m \in Messages |-> IF m = "repeat" THEN 2 ELSE 1]

VARIABLE part

Start ==
    /\ Init /\ OutcomesInit /\ PlannerInit /\ part \in {"knowledge", "outcomes", "planner"}
    /\ part # "planner" => turn = [strategic |-> FALSE, kind |-> "plain", context |-> SmallContext]
Step ==
    /\ UNCHANGED part
    /\ \/ part = "knowledge" /\ Curate /\ UNCHANGED <<outcomeVars, plannerVars>>
       \/ part = "outcomes" /\ OutcomesNext /\ UNCHANGED <<vars, plannerVars>>
       \/ part = "planner" /\ PlannerNext /\ UNCHANGED <<vars, outcomeVars>>
Together == Start /\ [][Step]_<<vars, outcomeVars, plannerVars, part>>
=============================================================================
