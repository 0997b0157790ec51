------------------------------- MODULE Webhooks -------------------------------
(***************************************************************************)
(* What webhook events leave in the CRM tables of one creator: the event   *)
(* ledger, message states, conversation activity, subscriptions, revenue   *)
(* totals and connection health.  The provider redelivers and reorders     *)
(* events; every handler is one transaction, and the upsert of the fan's   *)
(* row makes the events of a fan wait for one another.  The reply work an  *)
(* event creates or cancels is in ReplyPipeline.                           *)
(*                                                                         *)
(* An event is a record with a kind; its identity stands for event_key.    *)
(* The APIFansly receiver takes received and sent messages and purchases   *)
(* (those in PaidSequence); the other handlers are reached through the     *)
(* OnlyFansAPI receiver, whose route answers 410 in this version.          *)
(***************************************************************************)
EXTENDS Totals

CONSTANTS
    Events,       \* what the provider may send, each any number of times
    Fans, MessageIds,
    Refs,         \* what a payment is known by: its transaction, or its reference
    ChatOf        \* the fan of the chat a message belongs to

NoFan == "nobody"
Nobody == [known |-> FALSE, at |-> 0, by |-> {}, fanAt |-> 0, creatorAt |-> 0, readAt |-> 0]
Unpaid == [known |-> FALSE, amount |-> 0, fan |-> NoFan, ltv |-> FALSE, tip |-> FALSE, purchase |-> FALSE]

\* The registry's handler-ready kinds; an event of another is quarantined.
Paid == {"transaction", "tip", "purchase"}
Ready == {"received", "sent", "deleted", "read", "joined", "left", "connected", "failed"} \cup Paid

\* from_payload: only a transaction may name no fan; a sent message is resolved by its chat.
Parsed(e) == e.kind \in {"received", "joined", "left", "tip", "purchase"} => e.fan # NoFan

\* An amount may be zero, or negative for what is paid back.
ASSUME WebhooksAssumption ==
    /\ IsFiniteSet(Refs) /\ NoFan \notin Fans
    /\ \A e \in Events : e.kind \in Paid => e.ref \in Refs /\ e.fan \in Fans \cup {NoFan} /\ e.amount \in Int

VARIABLES
    ledger,       \* provider_webhook_events.status
    state,        \* provider_message_states
    stored,       \* fan_messages
    conversation, \* conversations
    member,       \* fans.is_follower and is_subscriber
    revenue,      \* fan_revenue_events, by reference
    totals,       \* lifetime_value_minor, tip_total_minor and purchase_count of a fan
    account,      \* provider_connection_states, the circuit breaker, bot_enabled
    enabled,      \* FanslyBot.enabled
    stale         \* a failure was delivered again since the operator last switched

messages == <<state, stored, conversation>>
money == <<revenue, totals>>
health == <<account, enabled, stale>>
webhookVars == <<ledger, messages, member, money, health>>

WebhooksInit ==
    /\ ledger = [e \in Events |-> "none"]
    /\ state = [m \in MessageIds |-> [read |-> 0, deleted |-> 0]]
    /\ stored = [m \in MessageIds |-> "none"]
    /\ conversation = [f \in Fans |-> Nobody]
    /\ member = [f \in Fans |-> {}]
    /\ revenue = [r \in Refs |-> Unpaid]
    /\ totals = [f \in Fans |-> [ltv |-> 0, tips |-> 0, purchases |-> 0]]
    /\ account = [status |-> "connected", open |-> FALSE, setting |-> TRUE]
    /\ enabled = TRUE /\ stale = FALSE

Larger(a, b) == IF a > b THEN a ELSE b

-----------------------------------------------------------------------------
\* Messages.  Dates only move forward in message states and conversations.

Stamp(m, field, at) == [state EXCEPT ![m] = [@ EXCEPT ![field] = Larger(@, at)]]

Activity(c, who, at) ==
    [c EXCEPT !.known = TRUE,
              !.at = Larger(@, at),
              !.by = IF at >= c.at THEN {who} ELSE @,
              !.fanAt = IF who = "fan" THEN Larger(@, at) ELSE @,
              !.creatorAt = IF who = "creator" THEN Larger(@, at) ELSE @]

Resolve(e) == IF e.fan # NoFan THEN e.fan
              ELSE IF conversation[ChatOf[e.msg]].known THEN ChatOf[e.msg] ELSE NoFan

\* A message already deleted is noted and nothing else.
Received(e) ==
    /\ e.kind = "received"
    /\ ledger' = [ledger EXCEPT ![e] = "accepted"]
    /\ IF state[e.msg].deleted > 0
       THEN UNCHANGED <<stored, conversation>>
       ELSE /\ stored' = [stored EXCEPT ![e.msg] = IF @ = "none" THEN "full" ELSE @]
            /\ conversation' = [conversation EXCEPT ![e.fan] = Activity(@, "fan", e.at)]
    /\ UNCHANGED <<state, member, money, health>>

\* Without a fan the chat must be known; otherwise the event is a dead letter, for good.
Sent(e) ==
    /\ e.kind = "sent"
    /\ IF Resolve(e) = NoFan
       THEN /\ ledger' = [ledger EXCEPT ![e] = "dead"]
            /\ UNCHANGED <<stored, conversation>>
       ELSE /\ ledger' = [ledger EXCEPT ![e] = "accepted"]
            /\ conversation' = [conversation EXCEPT ![Resolve(e)] = Activity(@, "creator", e.at)]
            /\ stored' = [stored EXCEPT ![e.msg] =
                             IF @ # "none" THEN @
                             ELSE IF state[e.msg].deleted > 0 THEN "empty" ELSE "full"]
    /\ UNCHANGED <<state, member, money, health>>

Deleted(e) ==
    /\ e.kind = "deleted"
    /\ ledger' = [ledger EXCEPT ![e] = "accepted"]
    /\ state' = Stamp(e.msg, "deleted", e.at)
    /\ stored' = [stored EXCEPT ![e.msg] = IF @ = "none" THEN "none" ELSE "empty"]
    /\ UNCHANGED <<conversation, member, money, health>>

Read(e) ==
    /\ e.kind = "read"
    /\ ledger' = [ledger EXCEPT ![e] = "accepted"]
    /\ state' = [m \in MessageIds |-> IF m \in e.msgs THEN [state[m] EXCEPT !.read = Larger(@, e.at)]
                                    ELSE state[m]]
    /\ conversation' = [f \in Fans |-> IF conversation[f].known /\ \E m \in e.msgs : ChatOf[m] = f
                                       THEN [conversation[f] EXCEPT !.readAt = Larger(@, e.at)]
                                       ELSE conversation[f]]
    /\ UNCHANGED <<stored, member, money, health>>

-----------------------------------------------------------------------------
\* Followers, subscribers and revenue.

Member(e) ==
    /\ e.kind \in {"joined", "left"}
    /\ ledger' = [ledger EXCEPT ![e] = "accepted"]
    /\ member' = [member EXCEPT ![e.fan] = IF e.kind = "joined" THEN @ \cup {e.as} ELSE @ \ {e.as}]
    /\ UNCHANGED <<messages, money, health>>

\* Mutant: the shares already taken are those of this event.
CreditedByThis(e) ==
    LET fan == IF revenue[e.ref].fan # NoFan THEN revenue[e.ref].fan ELSE e.fan
    IN  [known |-> TRUE, amount |-> e.amount, fan |-> fan, ltv |-> fan # NoFan,
         tip |-> fan # NoFan /\ e.kind = "tip", purchase |-> fan # NoFan /\ e.kind = "purchase"]

\* One reference may be reported as a transaction and as a tip or a purchase: each share
\* of the totals is taken once, when the fan is first known.
Credited(e) ==
    LET old == revenue[e.ref]
        fan == IF old.fan # NoFan THEN old.fan ELSE e.fan
    IN  [known |-> TRUE, amount |-> e.amount, fan |-> fan,
         ltv |-> old.ltv \/ fan # NoFan,
         tip |-> old.tip \/ (fan # NoFan /\ e.kind = "tip"),
         purchase |-> old.purchase \/ (fan # NoFan /\ e.kind = "purchase")]

Share(new, old, amount) == IF new /\ ~old THEN amount ELSE 0

Revenue(e) ==
    LET old == revenue[e.ref]
        new == Credited(e)
    IN  /\ e.kind \in Paid
        /\ IF old.known /\ old.amount # e.amount
           THEN /\ ledger' = [ledger EXCEPT ![e] = "dead"]
                /\ UNCHANGED money
           ELSE /\ ledger' = [ledger EXCEPT ![e] = "accepted"]
                /\ revenue' = [revenue EXCEPT ![e.ref] = new]
                /\ totals' = IF new.fan = NoFan THEN totals
                             ELSE [totals EXCEPT ![new.fan] =
                                     [ltv |-> @.ltv + Share(new.ltv, old.ltv, e.amount),
                                      tips |-> @.tips + Share(new.tip, old.tip, e.amount),
                                      purchases |-> @.purchases + Share(new.purchase, old.purchase, 1)]]
        /\ UNCHANGED <<messages, member, health>>

-----------------------------------------------------------------------------
\* The account.  Neither event has its date compared with an earlier one's.

Connected(e) ==
    /\ e.kind = "connected"
    /\ ledger' = [ledger EXCEPT ![e] = "accepted"]
    /\ account' = [account EXCEPT !.status = "connected"]
    /\ UNCHANGED <<messages, member, money, enabled, stale>>

AccountFailed(e) ==
    /\ e.kind = "failed"
    /\ ledger' = [ledger EXCEPT ![e] = "accepted"]
    /\ account' = [status |-> "authentication_failed", open |-> TRUE, setting |-> FALSE]
    /\ enabled' = FALSE
    /\ UNCHANGED <<messages, member, money, stale>>

-----------------------------------------------------------------------------
\* The receiver.

Quarantine(e) ==
    /\ ~(e.kind \in Ready /\ Parsed(e))
    /\ ledger' = [ledger EXCEPT ![e] = IF @ = "none" THEN "dead" ELSE @]
    /\ UNCHANGED <<messages, member, money, health>>

Project(e) ==
    /\ e.kind \in Ready /\ Parsed(e) /\ ledger[e] = "none"
    /\ Received(e) \/ Sent(e) \/ Deleted(e) \/ Read(e) \/ Member(e) \/ Revenue(e)
         \/ Connected(e) \/ AccountFailed(e)

\* _insert_event finds the key: the handler's transaction does nothing more, but
\* ingest_webhook_account stops the bot all the same.
Redeliver(e) ==
    /\ e.kind \in Ready /\ Parsed(e) /\ ledger[e] # "none"
    /\ IF e.kind = "failed"
       THEN enabled' = FALSE /\ stale' = TRUE
       ELSE UNCHANGED <<enabled, stale>>
    /\ UNCHANGED <<ledger, messages, member, money, account>>

\* The operator's switch in the dashboard stores what it sets.
SwitchBot ==
    /\ enabled' = ~enabled /\ stale' = FALSE
    /\ account' = [account EXCEPT !.setting = ~enabled]
    /\ UNCHANGED <<ledger, messages, member, money>>

\* A process starts with the stored switch.
StartProcess ==
    /\ enabled' = account.setting /\ stale' = FALSE
    /\ UNCHANGED <<ledger, messages, member, money, account>>

WebhooksNext ==
    SwitchBot \/ StartProcess \/ \E e \in Events : Quarantine(e) \/ Project(e) \/ Redeliver(e)

WebhooksSpec == WebhooksInit /\ [][WebhooksNext]_webhookVars

-----------------------------------------------------------------------------
\* Properties.

AcceptedOf(kinds) == {e \in Events : e.kind \in kinds /\ ledger[e] = "accepted"}

WebhooksTypeOK ==
    /\ ledger \in [Events -> {"none", "accepted", "dead"}]
    /\ stored \in [MessageIds -> {"none", "full", "empty"}]
    /\ account.status \in {"connected", "authentication_failed"}
    /\ enabled \in BOOLEAN /\ stale \in BOOLEAN

\* Whatever the order and the copies, a fan's totals are the sums over the references
\* that name the fan, and a reference is counted once in each (repository.py:968-1140).
RevenueCountedOnce ==
    /\ \A f \in Fans :
          LET mine == {r \in Refs : revenue[r].fan = f}
              amounts == [r \in Refs |-> revenue[r].amount]
          IN  /\ totals[f].ltv = Total(amounts, mine)
              /\ totals[f].tips = Total(amounts, {r \in mine : revenue[r].tip})
              /\ totals[f].purchases = Cardinality({r \in mine : revenue[r].purchase})
    /\ \A e \in AcceptedOf(Paid) :
          /\ e.fan # NoFan => revenue[e.ref].ltv
          /\ e.kind = "tip" => revenue[e.ref].tip
          /\ e.kind = "purchase" => revenue[e.ref].purchase

=============================================================================
