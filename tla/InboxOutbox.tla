------------------------------ MODULE InboxOutbox ------------------------------
(***************************************************************************)
(* The durable inbox and outbox of persistence/pipeline.py: the rows of    *)
(* inbound_messages and outbox_messages, and one operator per transaction  *)
(* of MessageProcessingRepository.  A transaction commits atomically, so   *)
(* each operator is one action on the row variables; the modules that      *)
(* extend this one say who calls it and what else changes.                 *)
(*                                                                         *)
(* A message is its position on the provider's clock: m < n when the       *)
(* provider created m before n (provider_created_at, then id).             *)
(***************************************************************************)
EXTENDS Naturals

CONSTANTS
    Messages,     \* rows that may enter the inbox
    Fans,
    FanOf,        \* the fan each row belongs to
    KindOf,       \* trigger_kind of each row
    MaxAttempts   \* max_attempts of release_inbound: 3 in bot.py

TriggerKinds == {"unread", "online", "stalled"}

ASSUME MessagesAssumption == Messages \subseteq (Nat \ {0})
ASSUME FanOfAssumption    == FanOf \in [Messages -> Fans]
ASSUME KindOfAssumption   == KindOf \in [Messages -> TriggerKinds]
ASSUME MaxAttemptsAssumption == MaxAttempts \in Nat \ {0}

VARIABLES
    inbound,       \* inbound_messages.status
    attempts,      \* inbound_messages.attempt_count
    available,     \* rows whose available_at has passed
    outbox,        \* outbox_messages.status, "none" before the row exists
    sendAttempts,  \* outbox_messages.attempt_count
    reply,         \* what the outbox row says: kind, service role, permit,
                   \* provider_message_id (0 for NULL)
    claimedBy,     \* contact_claims.source_system for the row's episode
    processed,     \* processed_platform_messages
    policy,        \* fan_contact_policies: do_not_contact and version
    owner          \* trigger_ownership.owner

rowVars == <<inbound, attempts, available, outbox, sendAttempts, reply,
             claimedBy, processed>>
authorityVars == <<policy, owner>>

InboundStatus == {"absent", "pending", "processing", "completed", "failed"}
Nonterminal   == {"pending", "processing"}
Terminal      == {"completed", "failed"}

OutboxStatus == {"none", "pending", "sending", "sent", "delivery_unknown",
                 "blocked_unsupported", "blocked_policy", "blocked_provider",
                 "cancelled_stale", "cancelled_deleted"}
NotAttempted == {"none", "pending"}
Tried == {"sending", "sent", "delivery_unknown", "blocked_provider"}

Roles    == {"current_brain", "brain2"}
Owners   == Roles \cup {"disabled"}
Triggers == {"inbound_reply", "online", "stalled"}
\* A reply is a text, a text the conversation policy takes for a sales pitch, or
\* media.
Drafts   == [kind : {"none", "text", "sales", "non_text"},
             role : Roles \cup {"none"}, version : Nat]
Replies  == [kind : {"none", "text", "sales", "non_text"},
             role : Roles \cup {"none"}, version : Nat,
             permit : {"none", "approved", "expired", "revoked"}, id : Nat]
NoDraft  == [kind |-> "none", role |-> "none", version |-> 0]
NoReply  == [kind |-> "none", role |-> "none", version |-> 0, permit |-> "none",
             id |-> 0]

RowsTypeOK ==
    /\ inbound \in [Messages -> InboundStatus]
    /\ attempts \in [Messages -> Nat]
    /\ available \in SUBSET Messages
    /\ outbox \in [Messages -> OutboxStatus]
    /\ sendAttempts \in [Messages -> Nat]
    /\ reply \in [Messages -> Replies]
    /\ claimedBy \in [Messages -> Roles \cup {"none"}]
    /\ processed \in SUBSET Messages

AuthorityTypeOK ==
    /\ policy \in [Fans -> [dnc : BOOLEAN, version : Nat]]
    /\ owner \in [Triggers -> Owners]

\* The owners are those _ensure_trigger_ownership_defaults writes.
RowsInit ==
    /\ inbound = [m \in Messages |-> "absent"]
    /\ attempts = [m \in Messages |-> 0]
    /\ available = {}
    /\ outbox = [m \in Messages |-> "none"]
    /\ sendAttempts = [m \in Messages |-> 0]
    /\ reply = [m \in Messages |-> NoReply]
    /\ claimedBy = [m \in Messages |-> "none"]
    /\ processed = {}
    /\ policy = [f \in Fans |-> [dnc |-> FALSE, version |-> 0]]
    /\ owner = [t \in Triggers |->
                    IF t = "inbound_reply" THEN "current_brain" ELSE "disabled"]

Trigger(m) == IF KindOf[m] = "unread" THEN "inbound_reply" ELSE KindOf[m]

-----------------------------------------------------------------------------
(* The inbox.                                                              *)

\* insert_inbound: ON CONFLICT DO NOTHING on the platform message id.
InsertInbound(m, now) ==
    /\ inbound' = IF inbound[m] = "absent"
                  THEN [inbound EXCEPT ![m] = "pending"] ELSE inbound
    /\ available' = IF inbound[m] = "absent" /\ now
                    THEN available \cup {m} ELSE available
    /\ UNCHANGED <<attempts, outbox, sendAttempts, reply, claimedBy, processed>>

\* available_at passes.
BecomesAvailable(m) ==
    /\ inbound[m] = "pending"
    /\ m \notin available
    /\ available' = available \cup {m}
    /\ UNCHANGED <<inbound, attempts, outbox, sendAttempts, reply, claimedBy,
                   processed>>

Priority(m) == CASE KindOf[m] = "unread" -> 0
                 [] KindOf[m] = "online" -> 1
                 [] OTHER -> 2

Earlier(n, m) ==
    \/ Priority(n) < Priority(m)
    \/ Priority(n) = Priority(m) /\ n < m

\* inbound_claim_statement, evaluated on one snapshot of the table.
Claimable(m) ==
    /\ inbound[m] = "pending"
    /\ m \in available
    /\ \A n \in Messages \ {m} :
          FanOf[n] = FanOf[m] /\ inbound[n] \in Nonterminal
             => inbound[n] = "pending" /\ ~Earlier(n, m)

\* ORDER BY ... LIMIT 1 FOR UPDATE SKIP LOCKED.
FirstClaimable(m, locked) ==
    /\ m \notin locked
    /\ Claimable(m)
    /\ \A n \in Messages \ (locked \cup {m}) : Claimable(n) => Earlier(m, n)

\* The compare-and-set of claim_next_inbound.
ClaimInbound(m) ==
    /\ inbound' = [inbound EXCEPT ![m] = "processing"]
    /\ attempts' = [attempts EXCEPT ![m] = @ + 1]
    /\ UNCHANGED <<available, outbox, sendAttempts, reply, claimedBy, processed>>

CompleteWithoutResponse(m) ==
    /\ inbound[m] = "processing"
    /\ inbound' = [inbound EXCEPT ![m] = "completed"]
    /\ processed' = processed \cup {m}
    /\ UNCHANGED <<attempts, available, outbox, sendAttempts, reply, claimedBy>>

\* release_inbound: a row that is no longer processing is left as it is.
\* A retry waits for its backoff.
ReleaseInbound(m, maxAttempts) ==
    /\ IF inbound[m] # "processing" THEN UNCHANGED <<inbound, available>>
       ELSE IF attempts[m] < maxAttempts
            THEN /\ inbound' = [inbound EXCEPT ![m] = "pending"]
                 /\ available' = available \ {m}
            ELSE /\ inbound' = [inbound EXCEPT ![m] = "failed"]
                 /\ UNCHANGED available
    /\ UNCHANGED <<attempts, outbox, sendAttempts, reply, claimedBy, processed>>

-----------------------------------------------------------------------------
(* The outbox.                                                             *)

\* Mutant: the reply is stored without a second look at the row's status.
EnqueueUnchecked(m, draft) ==
    /\ outbox' = [outbox EXCEPT ![m] = IF @ = "none" THEN "pending" ELSE @]
    /\ reply' = [reply EXCEPT ![m] = IF outbox[m] # "none" THEN @ ELSE
          [kind |-> draft.kind, role |-> draft.role,
           version |-> draft.version, permit |-> "approved", id |-> 0]]
    /\ UNCHANGED <<inbound, attempts, available, sendAttempts, claimedBy,
                   processed>>

\* enqueue_outbox: one outbox row per inbound row, and only while the row is
\* still being processed (otherwise InboundSupersededError).
EnqueueOutbox(m, draft) ==
    /\ inbound[m] = "processing"
    /\ IF outbox[m] = "none"
       THEN /\ outbox' = [outbox EXCEPT ![m] = "pending"]
            /\ reply' = [reply EXCEPT ![m] =
                  [kind |-> draft.kind, role |-> draft.role,
                   version |-> draft.version, permit |-> "approved", id |-> 0]]
       ELSE UNCHANGED <<outbox, reply>>
    /\ UNCHANGED <<inbound, attempts, available, sendAttempts, claimedBy,
                   processed>>

\* permit_expires_at (15 minutes after the row was written) passes.
PermitExpires(m) ==
    /\ outbox[m] = "pending"
    /\ reply[m].permit = "approved"
    /\ reply' = [reply EXCEPT ![m].permit = "expired"]
    /\ UNCHANGED <<inbound, attempts, available, outbox, sendAttempts,
                   claimedBy, processed>>

\* Mutant: the stored version is compared, do_not_contact is not read again.
PolicyBlocksByVersion(m) ==
    \/ reply[m].permit # "approved"
    \/ reply[m].version # policy[FanOf[m]].version
    \/ owner[Trigger(m)] # reply[m].role
    \/ claimedBy[m] \notin {"none", reply[m].role}

\* policy_block of claim_outbox.
PolicyBlocks(m) ==
    \/ reply[m].permit # "approved"
    \/ policy[FanOf[m]].dnc
    \/ reply[m].version # policy[FanOf[m]].version
    \/ owner[Trigger(m)] # reply[m].role
    \/ claimedBy[m] \notin {"none", reply[m].role}

\* The reply will not be sent: the outbox row says why, the inbound row is done.
CloseUnsent(m, status, permit) ==
    /\ outbox[m] = "pending"
    /\ outbox' = [outbox EXCEPT ![m] = status]
    /\ reply' = [reply EXCEPT ![m].permit = permit]
    /\ inbound' = [inbound EXCEPT ![m] = "completed"]
    /\ processed' = processed \cup {m}
    /\ UNCHANGED <<attempts, available, sendAttempts, claimedBy>>

CompleteUnsupported(m) ==
    CloseUnsent(m, "blocked_unsupported", reply[m].permit)

\* claim_outbox when the permit is no longer good.
RejectSend(m) ==
    /\ PolicyBlocks(m)
    /\ CloseUnsent(m, "blocked_policy", "revoked")

\* claim_outbox when it is.  The outbox row is locked from the check on, the
\* policy and the owner are not; "sending" commits before the provider is called.
PermitHolds(m) ==
    /\ outbox[m] = "pending"
    /\ ~PolicyBlocks(m)

StartSending(m) ==
    /\ outbox[m] = "pending"
    /\ outbox' = [outbox EXCEPT ![m] = "sending"]
    /\ sendAttempts' = [sendAttempts EXCEPT ![m] = @ + 1]
    /\ claimedBy' = [claimedBy EXCEPT ![m] = reply[m].role]
    /\ UNCHANGED <<inbound, attempts, available, reply, processed>>

CompleteDelivery(m, id) ==
    /\ outbox[m] = "sending"
    /\ outbox' = [outbox EXCEPT ![m] = "sent"]
    /\ reply' = [reply EXCEPT ![m].id = id]
    /\ inbound' = [inbound EXCEPT ![m] = "completed"]
    /\ processed' = processed \cup {m}
    /\ UNCHANGED <<attempts, available, sendAttempts, claimedBy>>

MarkProviderBlocked(m) ==
    /\ outbox[m] = "sending"
    /\ outbox' = [outbox EXCEPT ![m] = "blocked_provider"]
    /\ reply' = [reply EXCEPT ![m].permit = "revoked"]
    /\ inbound' = [inbound EXCEPT ![m] = "failed"]
    /\ UNCHANGED <<attempts, available, sendAttempts, claimedBy, processed>>

\* Mutants: the inbound row is left processing; an exception after the request
\* counts as a delivery.
MarkOutboxUnknown(m) ==
    /\ outbox[m] = "sending"
    /\ outbox' = [outbox EXCEPT ![m] = "delivery_unknown"]
    /\ UNCHANGED <<inbound, attempts, available, sendAttempts, reply, claimedBy,
                   processed>>

AssumeDelivered(m) == CompleteDelivery(m, 1)

MarkDeliveryUnknown(m) ==
    /\ outbox[m] = "sending"
    /\ outbox' = [outbox EXCEPT ![m] = "delivery_unknown"]
    /\ inbound' = [inbound EXCEPT ![m] = "failed"]
    /\ UNCHANGED <<attempts, available, sendAttempts, reply, claimedBy, processed>>

-----------------------------------------------------------------------------
(* Start-up of a process.  Both transactions read first and write by row id *)
(* afterwards, whatever the rows have become.                              *)

Interrupted(status) ==
    {m \in Messages : inbound[m] = "processing" /\ outbox[m] \in status}

\* Mutants of recover_interrupted: an interrupted send is sent again; it stays
\* as it is; a stored reply is not picked up.
RecoverResends(safe, delivered, uncertain) ==
    /\ inbound' = [m \in Messages |->
          IF m \in safe \cup uncertain THEN "pending" ELSE inbound[m]]
    /\ outbox' = [m \in Messages |->
          IF m \in uncertain THEN "pending" ELSE outbox[m]]
    /\ UNCHANGED <<attempts, available, sendAttempts, reply, claimedBy, processed>>

RecoverUnsentOnly(safe, delivered, uncertain) ==
    /\ inbound' = [m \in Messages |-> IF m \in safe THEN "pending" ELSE inbound[m]]
    /\ UNCHANGED <<attempts, available, outbox, sendAttempts, reply, claimedBy,
                   processed>>

RecoverWithoutReply(safe, delivered, uncertain) ==
    /\ inbound' = [m \in Messages |->
          IF m \in safe /\ outbox[m] = "none" THEN "pending"
          ELSE IF m \in uncertain THEN "failed" ELSE inbound[m]]
    /\ outbox' = [m \in Messages |->
          IF m \in uncertain THEN "delivery_unknown" ELSE outbox[m]]
    /\ UNCHANGED <<attempts, available, sendAttempts, reply, claimedBy, processed>>

\* The writes of recover_interrupted.  A processing row whose outbox row was
\* cancelled or blocked is in none of its branches and stays processing.
RecoverInterrupted(safe, delivered, uncertain) ==
    /\ inbound' = [m \in Messages |->
          CASE m \in safe      -> "pending"
            [] m \in delivered -> "completed"
            [] m \in uncertain -> "failed"
            [] OTHER           -> inbound[m]]
    /\ outbox' = [m \in Messages |->
          IF m \in uncertain THEN "delivery_unknown" ELSE outbox[m]]
    /\ processed' = processed \cup delivered
    /\ UNCHANGED <<attempts, available, sendAttempts, reply, claimedBy>>

PendingNonText ==
    {m \in Messages : outbox[m] = "pending" /\ reply[m].kind = "non_text"}

\* The writes of block_pending_non_text, in conversation mode.
BlockPendingNonText(stale) ==
    /\ outbox' = [m \in Messages |->
          IF m \in stale THEN "blocked_unsupported" ELSE outbox[m]]
    /\ inbound' = [m \in Messages |->
          IF m \in stale THEN "completed" ELSE inbound[m]]
    /\ processed' = processed \cup stale
    /\ UNCHANGED <<attempts, available, sendAttempts, reply, claimedBy>>

-----------------------------------------------------------------------------
\* A reply is handed to the provider client at most once, whatever crashes,
\* retries, second processes and late webhooks do: no path of pipeline.py
\* brings an attempted outbox row back to "pending", nor gives an outcome to a
\* row that was never attempted.
SentOnce ==
    \A m \in Messages :
        /\ sendAttempts[m] <= 1
        /\ outbox[m] \in NotAttempted => sendAttempts[m] = 0
        /\ outbox[m] \in Tried => sendAttempts[m] = 1
=============================================================================
