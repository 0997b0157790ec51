---------------------------- MODULE MCPaidSequence ----------------------------
(* Two ladders: the newer one for big spenders, of one step; the older one   *)
(* for any fan, of two.  The provider's credits share no state with them: a  *)
(* behaviour is of the one or of the other.                                  *)
EXTENDS PaidSequence, Credits, TLC

Bonuses == 1 :> 0 @@ 2 :> 8
Sizes   == 1 :> 2 @@ 2 :> 1

-----------------------------------------------------------------------------
\* Credits: a cheap and a dear read, a control call and a send; two days of one month and
\* the first of the next.
Classes == <<"read", "read", "control", "send">>
Costs   == <<1, 2, 1, 1>>

VARIABLE part

Start == Init /\ CreditsInit /\ part \in {"sequence", "credits"}
Step ==
    /\ UNCHANGED part
    /\ \/ part = "sequence" /\ Next /\ UNCHANGED creditVars
       \/ part = "credits" /\ CreditsNext /\ UNCHANGED vars
Together == Start /\ [][Step]_<<vars, creditVars, part>>
=============================================================================
