----------------------------- MODULE MCFanMemory -----------------------------
(* Two facts of a type and a correction; a sensitive and a plain mention.    *)
(* The webhook tables and the recovery poll share no state with a fan's      *)
(* memory: a behaviour is of one of the three.                               *)
EXTENDS FanMemory, Webhooks, Recovery, TLC

MCTypeOf == [f \in Facts |-> IF f = 3 THEN "correction" ELSE "personal_fact"]
MCDelay == [sensitive \in BOOLEAN |-> IF sensitive THEN 2 ELSE 1]
MCCooldown == [sensitive \in BOOLEAN |-> IF sensitive THEN 3 ELSE 2]

-----------------------------------------------------------------------------
\* Webhooks: a message of the fan that is deleted, one the creator sent that is read; one
\* payment under two names, and under a third with no amount; a tip without a fan, which is
\* refused; a kind not ready.
MCEvents ==
    {[kind |-> "received", msg |-> "m1", fan |-> "fan", at |-> 2],
     [kind |-> "deleted", msg |-> "m1", at |-> 3],
     [kind |-> "sent", msg |-> "m2", fan |-> "nobody", at |-> 1],
     [kind |-> "read", msgs |-> {"m2"}, at |-> 3],
     [kind |-> "joined", fan |-> "fan", as |-> "follower"],
     [kind |-> "left", fan |-> "fan", as |-> "follower"],
     [kind |-> "transaction", ref |-> "r", fan |-> "nobody", amount |-> 2],
     [kind |-> "tip", ref |-> "r", fan |-> "fan", amount |-> 2],
     [kind |-> "purchase", ref |-> "r", fan |-> "fan", amount |-> 0],
     [kind |-> "tip", ref |-> "r", fan |-> "nobody", amount |-> 2],
     [kind |-> "connected"], [kind |-> "failed"], [kind |-> "typing"]}

MCChatOf == [m \in MessageIds |-> "fan"]

-----------------------------------------------------------------------------
\* Recovery: three chats, so that one can move above a poll's place while another waits below
\* it; conversation mode reads two pages of a chat, the other mode one, so that both a cap and
\* a scan cut short happen within three messages.
MCMessagePages == [conversation_mode \in BOOLEAN |-> IF conversation_mode THEN 2 ELSE 1]

\* The chats are alike: each is first written to after the one before it.  An error or a stop
\* comes with two messages, which is one more than the other mode's page holds; a mark of the
\* backlog import is there with two chats.
Met == {log[n].chat : n \in DOMAIN log}
Poll ==
    /\ RecoveryNext
    /\ Met' \in {{}, {"a"}, {"a", "b"}, Chats}
    /\ Len(log') + errors' <= MaxLog
    /\ backlog' # {} => Met' # Chats

\* The memory: two messages of the fan with one write, or one with two, or three writes.
MaxSaid == 3
Remember == Next /\ writes' + Cardinality(answered') =< MaxSaid

VARIABLE part

Start ==
    /\ Init /\ WebhooksInit /\ RecoveryInit
    /\ part \in {"memory", "webhooks", "recovery"}
    /\ part # "recovery" => ~chatting
Step ==
    /\ UNCHANGED part
    /\ \/ part = "memory" /\ Remember /\ UNCHANGED <<webhookVars, recoveryVars>>
       \/ part = "webhooks" /\ WebhooksNext /\ UNCHANGED <<vars, recoveryVars>>
       \/ part = "recovery" /\ Poll /\ UNCHANGED <<vars, webhookVars>>
Together == Start /\ [][Step]_<<vars, webhookVars, recoveryVars, part>>
=============================================================================
