------------------------------ MODULE MCOutreach ------------------------------
\* Two fans.  A tick is a little more than an hour, a day two ticks, so that what
\* happens in one tick is within an hour; one message an hour, two a day.
EXTENDS Outreach, Documents, TLC

CONSTANTS a, b, p, q
Symmetric == Permutations(Fans) \cup Permutations(Operators)
Cooldowns == [online |-> 2, stalled |-> 2]
OnePerHour == [online |-> 1, stalled |-> 1]
TwoPerDay == [online |-> 2, stalled |-> 2]
NoFanCap == [online |-> 0, stalled |-> 0]

-----------------------------------------------------------------------------
\* Documents share no state with outreach: a behaviour is of the one or of the other.  Two
\* operators and four rows; the rules and a turn of eight fill the budget but for the label.
MCBootstrap == <<[type |-> "conversation_guide", status |-> "active"],
                 [type |-> "conversation_guide", status |-> "draft"],
                 [type |-> "sales_playbook", status |-> "draft"]>>
MCOrder == <<"creator_persona", "conversation_guide">>
MCSize == "creator_persona" :> 4 @@ "conversation_guide" :> 2

VARIABLE part

Start == OutreachInit /\ DocumentsInit /\ part \in {"outreach", "documents"}
Step ==
    /\ UNCHANGED part
    /\ \/ part = "outreach" /\ OutreachNext /\ UNCHANGED documentVars
       \/ part = "documents" /\ DocumentsNext /\ UNCHANGED outreachVars
Together == Start /\ [][Step]_<<outreachVars, documentVars, part>>
=============================================================================
