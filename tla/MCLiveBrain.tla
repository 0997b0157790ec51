----------------------------- MODULE MCLiveBrain -----------------------------
(* Two workers and two turns, each set interchangeable: three claims, or two *)
(* and an event of the operator, the calendar or the process.  The reads    *)
(* that are kept share no state with them: two threads of the dashboard, a  *)
(* service that is made twice or forgotten by a restart, and time for an    *)
(* outage to bring an older row back.  A behaviour is of one of the two.    *)
EXTENDS LiveBrain, ReadCache, TLC

CONSTANTS w1, w2, t1, t2, r1, r2
Symmetric == Permutations(Workers) \cup Permutations(Turns) \cup Permutations(Readers)

Few == claims + events <= 3

-----------------------------------------------------------------------------
VARIABLE part

Begin ==
    /\ Init /\ ReadCacheInit
    /\ part \in {"turns", "reads"}
    /\ part # "reads" => kind = "walls"
Step ==
    /\ UNCHANGED part
    /\ \/ part = "turns" /\ Next /\ UNCHANGED readVars
       \/ part = "reads" /\ ReadCacheNext /\ UNCHANGED vars
Together == Begin /\ [][Step]_<<vars, readVars, part>>
=============================================================================
