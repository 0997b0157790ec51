----------------------------- MODULE ReplyPipeline -----------------------------
(***************************************************************************)
(* One creator's automated replies, from the fan's message to the          *)
(* provider's answer: the reply workers of bot.py and main.py, the inbox   *)
(* and outbox they share (InboxOutbox), the HTTP client and the provider   *)
(* behind it, the webhooks that report what happened on the provider's     *)
(* side, the operator who moves reply authority, and the processes that    *)
(* stop and start.                                                         *)
(*                                                                         *)
(* Workers interleave at their database transactions and provider calls.   *)
(* A transaction that reads and later writes on what it read, under the    *)
(* READ COMMITTED isolation the engine runs with, is two steps: claiming a *)
(* row, projecting a creator's or a deleted message, recovering at start.  *)
(***************************************************************************)
EXTENDS InboxOutbox

CONSTANTS
    Workers,          \* reply worker threads
    MaxTries,         \* ApifanslyConfig.max_retries: requests per client call
    ReplyKinds,       \* kinds of reply the brains produce
    OptOuts,          \* rows whose text is_opt_out_message recognises
    Deletable,        \* messages the fan may delete
    MaxCreatorSends,  \* bounds of the checked instance: messages the creator
    MaxHandoffs,      \* sends by hand, changes of authority, crashes, and
    MaxCrashes,       \* processes started beside a running one
    MaxStarts

ASSUME WorkersAssumption == 0 \notin Workers
ASSUME MaxTriesAssumption == MaxTries \in Nat \ {0}
ASSUME ContentAssumption ==
    /\ ReplyKinds \subseteq {"text", "sales", "non_text"}
    /\ OptOuts \subseteq {m \in Messages : KindOf[m] = "unread"}
    /\ Deletable \subseteq {m \in Messages : KindOf[m] = "unread"}
ASSUME BoundsAssumption ==
    /\ MaxCreatorSends \in Nat /\ MaxHandoffs \in Nat
    /\ MaxCrashes \in Nat      /\ MaxStarts \in Nat

VARIABLES
    worker,        \* what each worker thread is doing, on which row
    posted,        \* provider clock: the last message created there
    requests,      \* POSTs in flight, by row and try
    accepted,      \* POSTs the provider turned into a message
    events,        \* provider events, each delivered any number of times
    projected,     \* provider_webhook_events: keys already handled
    lastCreator,   \* conversations.last_creator_message_at
    tx,            \* the webhook thread's open transaction
    sender,        \* the role the saved brain settings select
    up,            \* is the service running
    boot,          \* how far a process that starts has come
    found,         \* what its open transaction has read
    spent          \* how much of each bound has been used

workVars     == <<worker>>
providerVars == <<posted, requests, accepted>>
webhookVars  == <<projected, lastCreator, tx>>
processVars  == <<up, boot, found>>
vars == <<rowVars, authorityVars, workVars, providerVars, events, webhookVars,
          sender, processVars, spent>>

Steps == {"idle", "selected", "claimed", "preparing", "declined", "enqueue",
          "vet", "permit", "granted", "posting", "awaiting"}
Idle == [pc |-> "idle", msg |-> 0, draft |-> NoDraft, tries |-> 0]
Requests == [msg : Messages, try : 1..MaxTries]
Events == [kind : {"received", "sent", "deleted"}, fan : Fans,
           msg : Messages \cup {0}, try : Nat, at : Nat]
NothingFound == [safe |-> {}, delivered |-> {}, uncertain |-> {}, stale |-> {}]
NoTx == [open |-> FALSE, event |-> {}, matched |-> {}, ids |-> {},
         newer |-> FALSE]

WorkersOK ==
    /\ worker \in [Workers -> [pc : Steps, msg : Messages \cup {0},
                               draft : Drafts, tries : 0..MaxTries]]
    /\ \A w \in Workers :
          /\ (worker[w].pc = "idle") = (worker[w].msg = 0)
          /\ worker[w].pc # "awaiting" => worker[w].tries = 0

ProviderOK ==
    /\ posted \in Nat
    /\ requests \in SUBSET Requests
    /\ accepted \in SUBSET Requests
    /\ events \in SUBSET Events

WebhookOK ==
    /\ projected \in SUBSET Events
    /\ lastCreator \in [Fans -> Nat]
    /\ tx \in [open : BOOLEAN, event : SUBSET Events, matched : SUBSET Messages,
               ids : SUBSET Messages, newer : BOOLEAN]

ProcessOK ==
    /\ sender \in Roles
    /\ up \in BOOLEAN
    /\ boot \in {"quiet", "recovering", "recovered", "blocking"}
    /\ found \in [safe : SUBSET Messages, delivered : SUBSET Messages,
                  uncertain : SUBSET Messages, stale : SUBSET Messages]
    /\ spent \in [{"sends", "handoffs", "crashes", "starts"} -> Nat]

TypeOK ==
    /\ RowsTypeOK /\ AuthorityTypeOK
    /\ WorkersOK /\ ProviderOK /\ WebhookOK /\ ProcessOK

\* The service starts on an empty inbox with one brain answering replies.
Init ==
    /\ RowsInit
    /\ worker = [w \in Workers |-> Idle]
    /\ posted = 0
    /\ requests = {}
    /\ accepted = {}
    /\ events = {}
    /\ projected = {}
    /\ lastCreator = [f \in Fans |-> 0]
    /\ tx = NoTx
    /\ sender = "current_brain"
    /\ up = TRUE
    /\ boot = "quiet"
    /\ found = NothingFound
    /\ spent = [b \in {"sends", "handoffs", "crashes", "starts"} |-> 0]

At(w, pc) == up /\ worker[w].pc = pc
Row(w)    == worker[w].msg
Goto(w, pc) == worker' = [worker EXCEPT ![w].pc = pc]
\* Mutant of Finish: the row is not forgotten.
Abandon(w)  == worker' = [worker EXCEPT ![w].pc = "idle"]
Finish(w)   == worker' = [worker EXCEPT ![w] = Idle]
\* The draft is in the outbox row now.
Continue(w, pc) ==
    worker' = [worker EXCEPT ![w].pc = pc, ![w].draft = NoDraft]

\* Inbound rows locked by a claim that has not committed, and outbox rows locked
\* by a permit that has not: every other writer of the row waits until it has.
LockedBy(ws, pc) == {worker[v].msg : v \in {u \in ws : worker[u].pc = pc}}
RespectsLocks(ws) ==
    /\ \A m \in LockedBy(ws, "selected") : inbound'[m] = inbound[m]
    /\ \A m \in LockedBy(ws, "granted") :
          outbox'[m] = outbox[m] /\ reply'[m] = reply[m]
Others(w) == Workers \ {w}

Spend(b) == spent' = [spent EXCEPT ![b] = @ + 1]

-----------------------------------------------------------------------------
(* The reply workers: drain_pending and _process_claimed_inbound.          *)

SelectInbound(w) ==
    /\ At(w, "idle")
    /\ \E m \in Messages :
          /\ FirstClaimable(m, LockedBy(Workers, "selected"))
          /\ worker' = [worker EXCEPT ![w].pc = "selected", ![w].msg = m]
    /\ UNCHANGED rowVars

CommitClaim(w) ==
    /\ At(w, "selected")
    /\ ClaimInbound(Row(w))
    /\ Goto(w, "claimed")

\* A row released after its reply was stored goes straight to the send; a row
\* whose reply is settled is left alone.
LoadOutbox(w) ==
    /\ At(w, "claimed")
    /\ CASE outbox[Row(w)] = "none"    -> Goto(w, "preparing")
         [] outbox[Row(w)] = "pending" -> Goto(w, "permit")
         [] OTHER                      -> Finish(w)
    /\ UNCHANGED rowVars

RecordOptOut(w) ==
    /\ At(w, "preparing")
    /\ Row(w) \in OptOuts
    /\ policy' = [policy EXCEPT ![FanOf[Row(w)]] =
                      [dnc |-> TRUE, version |-> @.version + 1]]
    /\ Goto(w, "declined")
    /\ UNCHANGED <<rowVars, owner>>

\* An opt-out, an inbound text the content policy rejects, a proactive trigger
\* that produced no opener.
Decline(w) ==
    /\ At(w, "declined") \/ (At(w, "preparing") /\ Row(w) \notin OptOuts)
    /\ CompleteWithoutResponse(Row(w))
    /\ Finish(w)

\* The reply exists; the sender's role and the contact policy version are read
\* before the transaction that stores it.
PrepareReply(w) ==
    /\ At(w, "preparing")
    /\ Row(w) \notin OptOuts
    /\ \E kind \in ReplyKinds, role \in Roles :
          /\ KindOf[Row(w)] = "unread" => role = sender
          /\ worker' = [worker EXCEPT
                ![w].pc = "enqueue",
                ![w].draft = [kind |-> kind, role |-> role,
                              version |-> policy[FanOf[Row(w)]].version]]
    /\ UNCHANGED rowVars

CommitOutbox(w) ==
    /\ At(w, "enqueue")
    /\ EnqueueOutbox(Row(w), worker[w].draft)
    /\ IF worker[w].draft.kind # "text" THEN Continue(w, "vet")
       ELSE IF outbox[Row(w)] \in NotAttempted THEN Continue(w, "permit")
       ELSE Finish(w)

DiscardSuperseded(w) ==
    /\ At(w, "enqueue")
    /\ inbound[Row(w)] # "processing"
    /\ Finish(w)
    /\ UNCHANGED rowVars

BlockUnsupported(w) ==
    /\ At(w, "vet")
    /\ CompleteUnsupported(Row(w))
    /\ Finish(w)

\* claim_outbox: the send is refused, or given up because the row has moved on,
\* or permitted and then begun.
RefusePermit(w) ==
    /\ At(w, "permit")
    /\ RejectSend(Row(w))
    /\ Finish(w)

LosePermit(w) ==
    /\ At(w, "permit")
    /\ outbox[Row(w)] # "pending"
    /\ Finish(w)
    /\ UNCHANGED rowVars

GrantPermit(w) ==
    /\ At(w, "permit")
    /\ Row(w) \notin LockedBy(Others(w), "granted")
    /\ PermitHolds(Row(w))
    /\ Goto(w, "granted")
    /\ UNCHANGED rowVars

\* Mutant: the provider is called before "sending" commits.
BeginUncommitted(w) ==
    /\ At(w, "granted")
    /\ Goto(w, "posting")
    /\ UNCHANGED rowVars

BeginSend(w) ==
    /\ At(w, "granted")
    /\ StartSending(Row(w))
    /\ Goto(w, "posting")

\* The handler around the steps before the send.  It looks at the outbox row
\* again: nothing was attempted, the row is retried or, for an error that will
\* not go away, failed; an attempt is under way, its outcome is unknown.
ProcessingFails(w) ==
    /\ up
    /\ worker[w].pc \in {"claimed", "preparing", "declined", "enqueue", "vet",
                         "permit", "granted"}
    /\ CASE outbox[Row(w)] \in NotAttempted ->
                \E limit \in {1, MaxAttempts} : ReleaseInbound(Row(w), limit)
         [] outbox[Row(w)] = "sending" -> MarkDeliveryUnknown(Row(w))
         [] OTHER -> UNCHANGED rowVars
    /\ Finish(w)

-----------------------------------------------------------------------------
(* The provider call: ApifanslyClient._request and what the worker makes   *)
(* of its outcome.                                                         *)

Request(w) == [msg |-> Row(w), try |-> worker[w].tries]

Post(w) ==
    /\ requests' = requests \cup {[msg |-> Row(w), try |-> worker[w].tries + 1]}
    /\ worker' = [worker EXCEPT ![w].pc = "awaiting", ![w].tries = @ + 1]
    /\ UNCHANGED <<rowVars, posted, accepted>>

\* Conversation mode refuses any other kind of reply before the request.
IssueRequest(w) ==
    /\ At(w, "posting")
    /\ reply[Row(w)].kind = "text"
    /\ Post(w)

\* A timeout, a 429 or a 5xx: the same request is sent again.
RetryRequest(w) ==
    /\ At(w, "awaiting")
    /\ worker[w].tries < MaxTries
    /\ Post(w)

ConfirmDelivery(w) ==
    /\ At(w, "awaiting")
    /\ Request(w) \in accepted
    /\ CompleteDelivery(Row(w), worker[w].tries)
    /\ Finish(w)
    /\ UNCHANGED providerVars

\* AuthError and PaymentRequiredError: credentials missing before the first
\* request, or a 401, 402 or 403 answer to the last one.
RefuseDelivery(w) ==
    /\ At(w, "posting") \/ (At(w, "awaiting") /\ Request(w) \in requests)
    /\ MarkProviderBlocked(Row(w))
    /\ requests' = requests \ {Request(w)}
    /\ Finish(w)
    /\ UNCHANGED <<posted, accepted>>

\* Any other exception, whatever the provider did with the requests.
GiveUp(w) ==
    /\ At(w, "awaiting") \/ (At(w, "posting") /\ reply[Row(w)].kind # "text")
    /\ MarkDeliveryUnknown(Row(w))
    /\ Finish(w)
    /\ UNCHANGED providerVars

\* The outbox row left "sending" while the worker was sending: the repository
\* refuses to record the outcome and the worker gives the row up.
OutcomeUnrecorded(w) ==
    /\ At(w, "posting") \/ At(w, "awaiting")
    /\ outbox[Row(w)] # "sending"
    /\ Finish(w)
    /\ UNCHANGED <<rowVars, providerVars>>

ReplyStep(w) ==
    /\ \/ SelectInbound(w) \/ LoadOutbox(w) \/ Decline(w)
       \/ PrepareReply(w) \/ CommitOutbox(w) \/ DiscardSuperseded(w)
       \/ BlockUnsupported(w) \/ RefusePermit(w) \/ LosePermit(w)
       \/ GrantPermit(w) \/ BeginSend(w) \/ ProcessingFails(w)
    /\ RespectsLocks(Others(w))
    /\ UNCHANGED <<authorityVars, providerVars>>

SendStep(w) ==
    /\ \/ IssueRequest(w) \/ RetryRequest(w) \/ ConfirmDelivery(w)
       \/ RefuseDelivery(w) \/ GiveUp(w) \/ OutcomeUnrecorded(w)
    /\ RespectsLocks(Others(w))
    /\ UNCHANGED authorityVars

OptOutStep(w) ==
    /\ RecordOptOut(w)
    /\ UNCHANGED providerVars

ClaimStep(w) ==
    /\ CommitClaim(w)
    /\ UNCHANGED <<authorityVars, providerVars>>

WorkerStep(w) ==
    /\ ClaimStep(w) \/ ReplyStep(w) \/ SendStep(w) \/ OptOutStep(w)
    /\ UNCHANGED <<events, webhookVars, sender, processVars, spent>>

-----------------------------------------------------------------------------
(* The provider's side: fans and the creator write, the provider accepts   *)
(* requests.  Everything that happens there becomes an event.              *)

FanWrites(m) ==
    /\ m = posted + 1
    /\ KindOf[m] = "unread"
    /\ posted' = m
    /\ events' = events \cup {[kind |-> "received", fan |-> FanOf[m],
                               msg |-> m, try |-> 0, at |-> m]}
    /\ UNCHANGED <<rowVars, requests, accepted, spent>>

FanDeletes(m) ==
    /\ m \in Deletable
    /\ m <= posted
    /\ \A e \in events : ~(e.kind = "deleted" /\ e.msg = m)
    /\ events' = events \cup {[kind |-> "deleted", fan |-> FanOf[m],
                               msg |-> m, try |-> 0, at |-> posted]}
    /\ UNCHANGED <<rowVars, providerVars, spent>>

CreatorSends(f) ==
    /\ posted > 0
    /\ spent["sends"] < MaxCreatorSends
    /\ Spend("sends")
    /\ events' = events \cup {[kind |-> "sent", fan |-> f, msg |-> 0,
                               try |-> spent["sends"] + 1, at |-> posted]}
    /\ UNCHANGED <<rowVars, providerVars>>

ProviderAccepts(r) ==
    /\ r \in requests
    /\ requests' = requests \ {r}
    /\ accepted' = accepted \cup {r}
    /\ events' = events \cup {[kind |-> "sent", fan |-> FanOf[r.msg],
                               msg |-> r.msg, try |-> r.try, at |-> posted]}
    /\ UNCHANGED <<rowVars, posted, spent>>

\* The outreach scan queues a proactive opener; presence.py decides when.
QueueOutreach(m) ==
    /\ up
    /\ m = posted + 1
    /\ KindOf[m] # "unread"
    /\ posted' = m
    /\ InsertInbound(m, TRUE)
    /\ UNCHANGED <<requests, accepted, events, spent>>

OutsideStep ==
    /\ \/ \E m \in Messages : FanWrites(m) \/ FanDeletes(m) \/ QueueOutreach(m)
       \/ \E f \in Fans : CreatorSends(f)
       \/ \E r \in requests : ProviderAccepts(r)
    /\ UNCHANGED <<authorityVars, workVars, webhookVars, sender, processVars>>

-----------------------------------------------------------------------------
(* The webhook thread: ProviderWebhookEventRepository.  Events arrive late,*)
(* out of order and more than once; an event already projected changes     *)
(* nothing.                                                                *)

Tombstoned(m) == \E e \in projected : e.kind = "deleted" /\ e.msg = m

\* Mutant: only the creator's messages are looked up.
Answered(e) == lastCreator[e.fan] >= e.at

\* No row for a deleted message, nor for one the creator has already answered.
Superseded(e) == Tombstoned(e.msg) \/ Answered(e)

IngestReceived(e) ==
    /\ up /\ ~tx.open
    /\ e \in events \ projected
    /\ e.kind = "received"
    /\ projected' = projected \cup {e}
    /\ IF Superseded(e) THEN UNCHANGED rowVars
       ELSE InsertInbound(e.msg, FALSE)
    /\ UNCHANGED <<lastCreator, tx>>

\* What ingest_sent and ingest_deleted read before they write: the reply the
\* event is, the pending outbox rows, and whether the fan wrote again.
MatchedReply(e) ==
    {m \in Messages : e.kind = "sent" /\ m = e.msg /\ reply[m].id = e.try}

PendingReplies(e) ==
    {m \in Messages : /\ outbox[m] = "pending"
                      /\ IF e.kind = "sent" THEN FanOf[m] = e.fan ELSE m = e.msg}

WroteAgain(e) ==
    \E n \in Messages : /\ FanOf[n] = e.fan
                        /\ n > e.msg
                        /\ inbound[n] \in Nonterminal

BeginProjection(e) ==
    /\ up /\ ~tx.open
    /\ e \in events \ projected
    /\ e.kind \in {"sent", "deleted"}
    /\ tx' = [open |-> TRUE, event |-> {e}, ids |-> PendingReplies(e),
              matched |-> MatchedReply(e),
              newer |-> e.kind = "deleted" /\ WroteAgain(e)]
    /\ UNCHANGED <<rowVars, projected, lastCreator>>

HasConversation(f) ==
    lastCreator[f] > 0 \/ \E m \in Messages : FanOf[m] = f /\ inbound[m] # "absent"

\* A sent event of a chat without a conversation, and without a fan id.
DeadLetterSent(e) ==
    /\ up /\ ~tx.open
    /\ e \in events \ projected
    /\ e.kind = "sent"
    /\ ~HasConversation(e.fan)
    /\ projected' = projected \cup {e}
    /\ UNCHANGED <<rowVars, lastCreator, tx>>

Cancel(rows, status, confirmed) ==
    /\ outbox' = [m \in Messages |-> IF m \in confirmed THEN "sent"
                                     ELSE IF m \in rows THEN status ELSE outbox[m]]
    /\ reply' = [m \in Messages |->
          IF m \in rows THEN [reply[m] EXCEPT !.permit = "revoked"] ELSE reply[m]]

Complete(rows) ==
    inbound' = [m \in Messages |-> IF m \in rows THEN "completed" ELSE inbound[m]]

\* ingest_sent: the outbox rows read as pending are cancelled by id, whatever
\* they have become; older inbound rows are done.  A reply whose provider
\* message id is already stored is confirmed, whatever its row has become.
CommitSent(e) ==
    LET covered == {m \in Messages : /\ FanOf[m] = e.fan
                                     /\ m <= e.at
                                     /\ inbound[m] \in Nonterminal}
    IN /\ tx.event = {e}
       /\ e.kind = "sent"
       /\ Cancel(tx.ids \ tx.matched, "cancelled_stale", tx.matched)
       /\ Complete(covered \cup tx.matched)
       /\ lastCreator' = [lastCreator EXCEPT ![e.fan] = IF @ < e.at THEN e.at ELSE @]

\* ingest_deleted: the deleted message's pending reply and its row, unless the
\* fan wrote again.  A reply stored between the two updates is missed.
CommitDeleted(e) ==
    /\ tx.event = {e}
    /\ e.kind = "deleted"
    /\ IF tx.newer THEN UNCHANGED <<outbox, reply, inbound>>
       ELSE /\ \E rows \in {tx.ids, Messages \cap {e.msg}} :
                  Cancel({m \in rows : outbox[m] = "pending"}, "cancelled_deleted", {})
            /\ Complete({m \in Messages : m = e.msg /\ inbound[m] \in Nonterminal})
    /\ UNCHANGED lastCreator

CommitProjection ==
    /\ up /\ tx.open
    /\ \E e \in tx.event :
          /\ CommitSent(e) \/ CommitDeleted(e)
          /\ projected' = projected \cup {e}
    /\ tx' = NoTx
    /\ UNCHANGED <<attempts, available, sendAttempts, claimedBy, processed>>

WebhookStep ==
    /\ \/ \E e \in events : IngestReceived(e) \/ BeginProjection(e)
                              \/ DeadLetterSent(e)
       \/ CommitProjection
    /\ RespectsLocks(Workers)
    /\ UNCHANGED <<authorityVars, workVars, providerVars, events, sender,
                   processVars, spent>>

-----------------------------------------------------------------------------
(* The operator moves reply authority: BrainSettingsService.save with its  *)
(* ownership handoff, and the disable-first TriggerOwnershipRepository.    *)

SaveBrainSettings(r) ==
    /\ sender # r
    /\ sender' = r
    /\ \/ /\ owner["inbound_reply"] \in Roles
          /\ owner' = [owner EXCEPT !["inbound_reply"] = r]
       \/ /\ owner["inbound_reply"] \notin Roles
          /\ r = "current_brain"
          /\ UNCHANGED owner

AssignOwner(t, o) ==
    /\ owner[t] # o
    /\ owner[t] = "disabled" \/ o = "disabled"
    /\ owner' = [owner EXCEPT ![t] = o]
    /\ UNCHANGED sender

OperatorStep ==
    /\ up
    /\ spent["handoffs"] < MaxHandoffs
    /\ Spend("handoffs")
    /\ \/ \E r \in Roles : SaveBrainSettings(r)
       \/ \E t \in Triggers, o \in Owners : AssignOwner(t, o)
    /\ UNCHANGED <<rowVars, policy, workVars, providerVars, events, webhookVars,
                   processVars>>

-----------------------------------------------------------------------------
(* Time and processes.                                                     *)

ClockStep ==
    /\ \E m \in Messages : BecomesAvailable(m) \/ PermitExpires(m)
    /\ UNCHANGED <<authorityVars, workVars, providerVars, events, webhookVars,
                   sender, processVars, spent>>

\* The workers and the webhook thread stop; their open transactions roll back,
\* their requests stay in flight.
Crash ==
    /\ up
    /\ spent["crashes"] < MaxCrashes
    /\ Spend("crashes")
    /\ up' = FALSE
    /\ boot' = "quiet"
    /\ found' = NothingFound
    /\ worker' = [w \in Workers |-> Idle]
    /\ tx' = NoTx
    /\ UNCHANGED <<rowVars, authorityVars, providerVars, events, projected,
                   lastCreator, sender>>

\* FanslyBot.__init__ in a process that starts, alone or (SERVICE_ROLE, or a
\* rolling deployment) beside one that is running: two transactions, then the
\* threads.
BeginRecovery ==
    /\ boot = "quiet"
    /\ \/ ~up /\ UNCHANGED spent
       \/ up /\ spent["starts"] < MaxStarts /\ Spend("starts")
    /\ boot' = "recovering"
    /\ found' = [NothingFound EXCEPT !.safe      = Interrupted(NotAttempted),
                                     !.delivered = Interrupted({"sent"}),
                                     !.uncertain = Interrupted({"sending"})]
    /\ UNCHANGED <<rowVars, up>>

CommitRecovery ==
    /\ boot = "recovering"
    /\ RecoverInterrupted(found.safe, found.delivered, found.uncertain)
    /\ boot' = "recovered"
    /\ found' = NothingFound
    /\ UNCHANGED <<spent, up>>

BeginBlocking ==
    /\ boot = "recovered"
    /\ boot' = "blocking"
    /\ found' = [NothingFound EXCEPT !.stale = PendingNonText]
    /\ UNCHANGED <<rowVars, spent, up>>

FinishStart ==
    /\ boot = "blocking"
    /\ BlockPendingNonText(found.stale)
    /\ boot' = "quiet"
    /\ found' = NothingFound
    /\ up' = TRUE
    /\ UNCHANGED spent

StartStep ==
    /\ BeginRecovery \/ CommitRecovery \/ BeginBlocking \/ FinishStart
    /\ RespectsLocks(Workers)
    /\ UNCHANGED <<authorityVars, workVars, providerVars, events, webhookVars,
                   sender>>

ProcessStep == Crash \/ StartStep

Next ==
    \/ \E w \in Workers : WorkerStep(w)
    \/ OutsideStep
    \/ WebhookStep
    \/ OperatorStep
    \/ ClockStep
    \/ ProcessStep

Spec == Init /\ [][Next]_vars

\* The worker threads loop, time passes, the platform restarts a process that
\* stopped.  Nothing obliges fans, the operator, the provider or its webhooks.
Fairness ==
    /\ \A w \in Workers : WF_vars(WorkerStep(w))
    /\ WF_vars(ClockStep)
    /\ WF_vars((boot # "quiet" \/ ~up) /\ StartStep)
    /\ WF_vars(tx.open /\ CommitProjection /\ WebhookStep)

FairSpec == Spec /\ Fairness

-----------------------------------------------------------------------------
(* Properties.                                                             *)

\* Whatever a worker is sending, the provider is asked for or holds, and a
\* start-up takes for an interrupted send was committed as "sending" first
\* (claim_outbox: "Commit sending before the external API call").
OnlyAfterCommit ==
    /\ \A r \in requests \cup accepted : sendAttempts[r.msg] = 1
    /\ \A w \in Workers :
          worker[w].pc \in {"posting", "awaiting"} => sendAttempts[Row(w)] = 1
    /\ \A m \in found.uncertain : sendAttempts[m] = 1

\* The inbox and the outbox tell the same story about a row although workers,
\* restarts and webhooks write them in different transactions.
RowsAgree ==
    \A m \in Messages :
        /\ outbox[m] = "sent" => inbound[m] = "completed" /\ m \in processed
        /\ outbox[m] \in {"delivery_unknown", "blocked_provider"} =>
              inbound[m] = "failed"
        /\ m \in processed => inbound[m] \in Terminal

\* Once a creator's message covering a row is projected, no reply to that row
\* is stored any more: ingest_sent completes the row and enqueue_outbox looks
\* at its status again after the reply was generated.
NoDraftAfterTakeover ==
    [][\A m \in Messages :
          outbox[m] = "none" /\ m <= lastCreator[FanOf[m]] =>
              outbox'[m] = "none"]_vars

\* After a fan's opt-out is recorded no further reply to that fan is permitted
\* and none is started, the replies generated and stored before it included:
\* only a send that claim_outbox had permitted already goes on.
QuietAfterOptOut ==
    [][\A m \in Messages :
          policy[FanOf[m]].dnc /\ m \notin LockedBy(Workers, "granted") =>
              /\ sendAttempts'[m] = sendAttempts[m]
              /\ m \notin LockedBy(Workers, "granted")']_vars

\* A send does not stay in doubt: its worker or the next start-up settles it ("A
\* provider exception or restart during sending changes the outbox to
\* delivery_unknown"), unless the row was completed meanwhile, by the event of
\* the very message being sent or by a creator's message.
SendingSettlesOrSuperseded ==
    \A m \in Messages :
        outbox[m] = "sending" ~>
            outbox[m] # "sending" \/ inbound[m] = "completed"

\* A row whose reply was cancelled while the row itself was left nonterminal.
Orphaned(m) == outbox[m] = "cancelled_stale" /\ inbound[m] \in Nonterminal

\* Every queued row is settled, unless a row of the same fan lost its reply to
\* an older creator message.
QueueSettles ==
    \A m \in Messages :
        inbound[m] = "pending" ~>
            \/ inbound[m] \in Terminal
            \/ \E n \in Messages : FanOf[n] = FanOf[m] /\ Orphaned(n)

-----------------------------------------------------------------------------
(* The pipeline implements the ledger.                                     *)

Standing(status, sends) ==
    CASE status \in NotAttempted     -> "open"
      [] status = "sending"          -> "attempting"
      [] status = "sent"             -> "delivered"
      [] status = "delivery_unknown" -> "uncertain"
      [] status = "blocked_provider" -> "refused"
      [] OTHER -> IF sends = 0 THEN "dropped" ELSE "overruled"

LedgerState == [m \in Messages |-> Standing(outbox[m], sendAttempts[m])]

LedgerCopies ==
    [m \in Messages |-> {t \in 1..MaxTries : [msg |-> m, try |-> t] \in accepted}]

Ledger == INSTANCE DeliveryLedger
              WITH Items <- Messages, Tries <- 1..MaxTries,
                   Batches <- SUBSET Messages,
                   state <- LedgerState, copies <- LedgerCopies

\* Every step of the pipeline is a step of the ledger or leaves it unchanged.
ImplementsLedger == Ledger!Spec
=============================================================================
