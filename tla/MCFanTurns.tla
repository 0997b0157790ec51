------------------------------ MODULE MCFanTurns ------------------------------
(* A small instance of FanTurns: three messages of one fan and a send to    *)
(* that fan, and a message of another.  Message 3 is the oldest but may     *)
(* arrive last.  The creators' connections share no state with the turns:   *)
(* a behaviour is of one of the two.                                        *)
EXTENDS FanTurns, Connections, TLC

FansOf == 1 :> "a" @@ 2 :> "a" @@ 3 :> "a" @@ 4 :> "b" @@ 9 :> "a"
Times  == 1 :> 2 @@ 2 :> 4 @@ 3 :> 0 @@ 4 :> 1

-----------------------------------------------------------------------------
\* Connections: the runtime's own account; two accounts of one name, of which the provider
\* manages one from the start.
MCNameOf == [a \in {"own", "managed", "new"} |-> IF a = "own" THEN "me" ELSE "model"]
OwnCreator == [id |-> <<"me", "none">>, account |-> "own"]

-----------------------------------------------------------------------------
VARIABLE part

Begin ==
    /\ Init /\ ConnectionsInit
    /\ part \in {"turns", "setup"}
Step ==
    /\ UNCHANGED part
    /\ \/ part = "turns" /\ Next /\ UNCHANGED connectionVars
       \/ part = "setup" /\ ConnectionsNext /\ UNCHANGED vars
Together == Begin /\ [][Step]_<<vars, connectionVars, part>>
=============================================================================
