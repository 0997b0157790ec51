----------------------------- MODULE MCModelCalls -----------------------------
(* The caps of the second setting are tight, and its one call does not do   *)
(* for a retry, nor for the three stages of the strategic route.             *)
EXTENDS ModelCalls

Wide  == [calls |-> 4, hour |-> 3, day |-> 4, cost |-> 4, repairs |-> 1]
Tight == [calls |-> 1, hour |-> 2, day |-> 3, cost |-> 2, repairs |-> 0]
MCSettings == {Wide, Tight}
=============================================================================
