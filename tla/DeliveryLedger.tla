----------------------------- MODULE DeliveryLedger ----------------------------
(***************************************************************************)
(* What a component that hands items to the provider promises, with no     *)
(* rows, threads, processes or webhooks: an item is attempted at most      *)
(* once, an item dropped before its attempt leaves nothing at the          *)
(* provider, an item is called delivered only if the provider has it, and  *)
(* an attempted item is never open again.  The items are replies in        *)
(* ReplyPipeline and posts in BulkPosting.                                 *)
(*                                                                         *)
(* One attempt may leave several copies: the client repeats its request.   *)
(***************************************************************************)
CONSTANTS
    Items,
    Tries,
    Batches   \* the sets of items one step may settle together

VARIABLES
    state,   \* where each item stands
    copies   \* the requests of its attempt the provider has turned into messages

vars == <<state, copies>>

Attempted == {"attempting", "delivered", "uncertain", "refused", "overruled"}
States    == {"open", "dropped"} \cup Attempted

TypeOK ==
    /\ state \in [Items -> States]
    /\ copies \in [Items -> SUBSET Tries]

Init ==
    /\ state = [i \in Items |-> "open"]
    /\ copies = [i \in Items |-> {}]

Move(i, from, to) ==
    /\ state[i] = from
    /\ state' = [state EXCEPT ![i] = to]
    /\ UNCHANGED copies

Attempt(i) == Move(i, "open", "attempting")
Refuse(i)  == Move(i, "attempting", "refused")
Confirm(i) == copies[i] # {} /\ Move(i, "attempting", "delivered")

\* The outcomes of several attempts may be given up at once by a process that
\* starts, which does not look again at what they have become.
Doubt(is) ==
    /\ \A i \in is : state[i] \in Attempted
    /\ state' = [i \in Items |-> IF i \in is THEN "uncertain" ELSE state[i]]
    /\ UNCHANGED copies

\* A message that appears in the conversation may cancel items wherever they
\* stand, and confirms the one it is.
Cancel(is, confirmed) ==
    /\ \A i \in confirmed : state[i] \in Attempted /\ copies[i] # {}
    /\ state' = [i \in Items |->
          IF i \in confirmed THEN "delivered"
          ELSE IF i \notin is THEN state[i]
          ELSE IF state[i] \in Attempted THEN "overruled" ELSE "dropped"]
    /\ UNCHANGED copies

Accept(i, try) ==
    /\ state[i] \in Attempted
    /\ copies' = [copies EXCEPT ![i] = @ \cup {try}]
    /\ UNCHANGED state

Next ==
    \/ \E i \in Items : Attempt(i) \/ Refuse(i) \/ Confirm(i)
    \/ \E is \in Batches : Doubt(is) \/ \E confirmed \in Batches : Cancel(is, confirmed)
    \/ \E i \in Items, try \in Tries : Accept(i, try)

Spec == Init /\ [][Next]_vars
=============================================================================
