-------------------------- MODULE ReplyPipelineProofs --------------------------
(***************************************************************************)
(* The pipeline attempts a reply at most once, asks the provider only for  *)
(* replies whose attempt is committed, stays quiet after an opt-out and    *)
(* implements DeliveryLedger, for any number of rows, fans, workers,       *)
(* retries, crashes and processes; and, while no process starts beside a   *)
(* running one, its two tables agree and a takeover is final.              *)
(*                                                                         *)
(* IInv is the type invariant, SentOnce and OnlyAfterCommit: a send that   *)
(* starts finds a zero counter, hence no request and no other worker       *)
(* sending the same row.  IdsStored says that the provider ids the         *)
(* webhooks match are those of messages the provider holds; it keeps a     *)
(* webhook from confirming an unsent reply.  AgreeInv and Takeover, below, *)
(* add what the open transactions have read.                               *)
(***************************************************************************)
EXTENDS ReplyPipeline, TLAPS

-----------------------------------------------------------------------------
(* What every transaction of MessageProcessingRepository preserves: the    *)
(* types of the rows, and the link between an outbox row's status and its  *)
(* attempt counter.                                                        *)

\* Well-formed rows, the link included: it is what keeps pipeline.py from
\* sending a reply a second time.
RowsOK == RowsTypeOK /\ SentOnce

\* What every transaction but the start of a send does.
RowsKept == RowsOK' /\ UNCHANGED sendAttempts

\* Setting a field of a reply keeps it a reply.
LEMMA ReplyFields ==
    ASSUME NEW r \in Replies
    PROVE  /\ \A id \in Nat : [r EXCEPT !.id = id] \in Replies
           /\ \A permit \in {"none", "approved", "expired", "revoked"} :
                 [r EXCEPT !.permit = permit] \in Replies
BY DEF Replies

USE DEF RowsOK, RowsKept, RowsTypeOK, SentOnce

\* The empty inbox is well formed.
LEMMA RowsInitOK == RowsInit => RowsOK /\ AuthorityTypeOK
BY FanOfAssumption
   DEF RowsInit, AuthorityTypeOK, InboundStatus, OutboxStatus, NotAttempted,
       Tried, NoReply, Replies, Roles, Owners, Triggers

\* A step that changes no row keeps the rows well formed.
LEMMA RowsUnchangedOK == RowsOK /\ UNCHANGED rowVars => RowsKept
BY DEF rowVars

\* insert_inbound keeps the rows well formed.
LEMMA InsertInboundOK ==
    ASSUME NEW m, NEW now \in BOOLEAN, now => m \in Messages,
           RowsOK, InsertInbound(m, now)
    PROVE  RowsKept
BY DEF InsertInbound, InboundStatus, NotAttempted, Tried

\* The passing of available_at does.
LEMMA BecomesAvailableOK ==
    ASSUME NEW m \in Messages, RowsOK, BecomesAvailable(m)
    PROVE  RowsKept
BY DEF BecomesAvailable

\* claim_next_inbound does.
LEMMA ClaimInboundOK ==
    ASSUME NEW m \in Messages, RowsOK, ClaimInbound(m)
    PROVE  RowsKept
BY DEF ClaimInbound, InboundStatus

\* complete_without_response does.
LEMMA CompleteWithoutResponseOK ==
    ASSUME NEW m \in Messages, RowsOK, CompleteWithoutResponse(m)
    PROVE  RowsKept
BY DEF CompleteWithoutResponse, InboundStatus

\* release_inbound does.
LEMMA ReleaseInboundOK ==
    ASSUME NEW m \in Messages, NEW limit, RowsOK, ReleaseInbound(m, limit)
    PROVE  RowsKept
BY DEF ReleaseInbound, InboundStatus

\* enqueue_outbox does: a row it makes pending had no outbox row before.
LEMMA EnqueueOutboxOK ==
    ASSUME NEW m \in Messages, NEW draft \in Drafts, RowsOK, EnqueueOutbox(m, draft)
    PROVE  RowsKept
<1> DEFINE new == [kind |-> draft.kind, role |-> draft.role,
                   version |-> draft.version, permit |-> "approved", id |-> 0]
<1>1. new \in Replies
  BY DEF Drafts, Replies
<1>2. reply' \in [Messages -> Replies]
  BY <1>1 DEF EnqueueOutbox
<1>3. outbox' \in [Messages -> OutboxStatus]
  BY DEF EnqueueOutbox, OutboxStatus
<1>4. SentOnce'
  BY DEF EnqueueOutbox, NotAttempted, Tried
<1> QED
  BY <1>2, <1>3, <1>4 DEF EnqueueOutbox

\* The passing of permit_expires_at does.
LEMMA PermitExpiresOK ==
    ASSUME NEW m \in Messages, RowsOK, PermitExpires(m)
    PROVE  RowsKept
<1>1. [reply[m] EXCEPT !.permit = "expired"] \in Replies
  BY ReplyFields
<1>2. reply' = [reply EXCEPT ![m] = [reply[m] EXCEPT !.permit = "expired"]]
  BY DEF PermitExpires
<1> QED
  BY <1>1, <1>2 DEF PermitExpires

\* Closing a row whose reply is not sent does.
LEMMA CloseUnsentOK ==
    ASSUME NEW m \in Messages,
           NEW status \in {"blocked_unsupported", "blocked_policy"},
           NEW permit \in {"none", "approved", "expired", "revoked"},
           RowsOK, CloseUnsent(m, status, permit)
    PROVE  RowsKept
<1>1. reply' \in [Messages -> Replies]
  <2>1. [reply[m] EXCEPT !.permit = permit] \in Replies
    BY ReplyFields
  <2>2. reply' = [reply EXCEPT ![m] = [reply[m] EXCEPT !.permit = permit]]
    BY DEF CloseUnsent
  <2> QED
    BY <2>1, <2>2
<1>2. inbound' \in [Messages -> InboundStatus] /\ outbox' \in [Messages -> OutboxStatus]
  BY DEF CloseUnsent, OutboxStatus, InboundStatus
<1>3. SentOnce'
  BY DEF CloseUnsent, NotAttempted, Tried
<1> QED
  BY <1>1, <1>2, <1>3 DEF CloseUnsent

\* complete_unsupported does.
LEMMA CompleteUnsupportedOK ==
    ASSUME NEW m \in Messages, RowsOK, CompleteUnsupported(m)
    PROVE  RowsKept
<1>1. reply[m].permit \in {"none", "approved", "expired", "revoked"}
  BY DEF Replies
<1> QED
  BY <1>1, CloseUnsentOK DEF CompleteUnsupported

\* claim_outbox does when it refuses the send.
LEMMA RejectSendOK ==
    ASSUME NEW m \in Messages, RowsOK, RejectSend(m)
    PROVE  RowsKept
BY CloseUnsentOK DEF RejectSend

\* claim_outbox does when it starts one: a pending row's counter is zero.
LEMMA StartSendingOK ==
    ASSUME NEW m \in Messages, RowsOK, StartSending(m)
    PROVE  /\ RowsOK'
           /\ sendAttempts[m] = 0
           /\ sendAttempts' = [sendAttempts EXCEPT ![m] = 1]
<1>1. sendAttempts[m] = 0
  BY DEF StartSending, NotAttempted, Tried
<1>2. sendAttempts' = [sendAttempts EXCEPT ![m] = 1]
  BY <1>1 DEF StartSending
<1>3. SentOnce'
  BY <1>1, <1>2 DEF StartSending, NotAttempted, Tried
<1>4. reply[m].role \in Roles \cup {"none"}
  BY DEF Replies
<1>5. RowsTypeOK'
  BY <1>2, <1>4 DEF StartSending, OutboxStatus
<1> QED
  BY <1>1, <1>2, <1>3, <1>5

\* complete_delivery does.
LEMMA CompleteDeliveryOK ==
    ASSUME NEW m \in Messages, NEW id \in Nat, RowsOK, CompleteDelivery(m, id)
    PROVE  RowsKept
<1>1. reply' \in [Messages -> Replies]
  <2>1. [reply[m] EXCEPT !.id = id] \in Replies
    BY ReplyFields
  <2>2. reply' = [reply EXCEPT ![m] = [reply[m] EXCEPT !.id = id]]
    BY DEF CompleteDelivery
  <2> QED
    BY <2>1, <2>2
<1>2. inbound' \in [Messages -> InboundStatus] /\ outbox' \in [Messages -> OutboxStatus]
  BY DEF CompleteDelivery, OutboxStatus, InboundStatus
<1>3. SentOnce'
  BY DEF CompleteDelivery, NotAttempted, Tried
<1> QED
  BY <1>1, <1>2, <1>3 DEF CompleteDelivery

\* mark_provider_blocked does.
LEMMA MarkProviderBlockedOK ==
    ASSUME NEW m \in Messages, RowsOK, MarkProviderBlocked(m)
    PROVE  RowsKept
<1>1. reply' \in [Messages -> Replies]
  <2>1. [reply[m] EXCEPT !.permit = "revoked"] \in Replies
    BY ReplyFields
  <2>2. reply' = [reply EXCEPT ![m] = [reply[m] EXCEPT !.permit = "revoked"]]
    BY DEF MarkProviderBlocked
  <2> QED
    BY <2>1, <2>2
<1>2. inbound' \in [Messages -> InboundStatus] /\ outbox' \in [Messages -> OutboxStatus]
  BY DEF MarkProviderBlocked, OutboxStatus, InboundStatus
<1>3. SentOnce'
  BY DEF MarkProviderBlocked, NotAttempted, Tried
<1> QED
  BY <1>1, <1>2, <1>3 DEF MarkProviderBlocked

\* mark_delivery_unknown does.
LEMMA MarkDeliveryUnknownOK ==
    ASSUME NEW m \in Messages, RowsOK, MarkDeliveryUnknown(m)
    PROVE  RowsKept
BY DEF MarkDeliveryUnknown, OutboxStatus, InboundStatus, NotAttempted,
       Tried

\* recover_interrupted does, if the sends it gives up were committed: it never
\* makes an attempted row pending.
LEMMA RecoverInterruptedOK ==
    ASSUME NEW safe, NEW delivered \in SUBSET Messages, NEW uncertain,
           \A m \in uncertain : sendAttempts[m] = 1,
           RowsOK, RecoverInterrupted(safe, delivered, uncertain)
    PROVE  RowsKept
BY DEF RecoverInterrupted, OutboxStatus, InboundStatus, NotAttempted, Tried

\* block_pending_non_text does.
LEMMA BlockPendingNonTextOK ==
    ASSUME NEW stale \in SUBSET Messages, RowsOK, BlockPendingNonText(stale)
    PROVE  RowsKept
BY DEF BlockPendingNonText, OutboxStatus, InboundStatus, NotAttempted, Tried

HIDE DEF RowsOK, RowsKept, RowsTypeOK, SentOnce

-----------------------------------------------------------------------------
(* The inductive invariant.                                                *)

IInv == TypeOK /\ SentOnce /\ OnlyAfterCommit

\* Events of replies and provider ids of outbox rows belong to messages the
\* provider created for that very row.
IdsStored ==
    /\ \A e \in events : e.kind = "sent" /\ e.msg # 0 =>
          [msg |-> e.msg, try |-> e.try] \in accepted
    /\ \A m \in Messages : reply[m].id # 0 =>
          [msg |-> m, try |-> reply[m].id] \in accepted
    /\ \A m \in tx.matched : reply[m].id # 0

Sending == {"posting", "awaiting"}

\* The parts of the inductive invariant.
LEMMA IInvParts ==
    IInv <=> /\ RowsOK /\ AuthorityTypeOK /\ WorkersOK
             /\ ProviderOK /\ WebhookOK /\ ProcessOK /\ OnlyAfterCommit
BY DEF IInv, TypeOK, RowsOK

-----------------------------------------------------------------------------
(* How a worker's place changes.                                           *)

\* The worker is at "pc" now, still on its row if it sends, and no other
\* worker has moved.
Moves(w, pc) ==
    /\ WorkersOK'
    /\ worker'[w].pc = pc
    /\ pc \in Sending => worker'[w].msg = worker[w].msg
    /\ \A v \in Workers \ {w} : worker'[v] = worker[v]

\* A busy worker is on a row.
LEMMA BusyRow ==
    ASSUME WorkersOK, NEW w \in Workers, worker[w].pc # "idle"
    PROVE  Row(w) \in Messages
BY DEF WorkersOK, Row

\* Finishing makes the worker idle.
LEMMA FinishMoves ==
    ASSUME WorkersOK, NEW w \in Workers, Finish(w)
    PROVE  Moves(w, "idle")
<1>1. Idle \in [pc : Steps, msg : Messages \cup {0}, draft : Drafts,
                tries : 0..MaxTries]
  BY MaxTriesAssumption DEF Idle, Steps, Drafts, NoDraft
<1> QED
  BY <1>1 DEF Finish, Moves, WorkersOK, Idle, Sending

\* Going on to another step keeps the row.
LEMMA GotoMoves ==
    ASSUME WorkersOK, NEW w \in Workers, worker[w].pc \notin {"idle", "awaiting"},
           NEW pc \in Steps \ {"idle", "awaiting"}, Goto(w, pc)
    PROVE  Moves(w, pc)
BY DEF Goto, Moves, WorkersOK

\* So does handing the draft over to the outbox.
LEMMA ContinueMoves ==
    ASSUME WorkersOK, NEW w \in Workers, worker[w].pc \notin {"idle", "awaiting"},
           NEW pc \in Steps \ {"idle", "awaiting"}, Continue(w, pc)
    PROVE  Moves(w, pc)
<1>1. NoDraft \in Drafts
  BY DEF NoDraft, Drafts
<1> QED
  BY ZenonT(30), <1>1 DEF Continue, Moves, WorkersOK

-----------------------------------------------------------------------------
(* The reply workers' steps.                                               *)

\* What a worker does when it starts no send and makes no request.
Quiet(w) ==
    /\ RowsKept
    /\ \E pc \in Steps \ Sending : Moves(w, pc)

\* A worker that changes no row and finishes is quiet.
LEMMA FinishQuiet ==
    ASSUME IInv, NEW w \in Workers, RowsKept, Finish(w)
    PROVE  Quiet(w)
BY FinishMoves, IInvParts DEF Quiet, Steps, Sending

\* Picking a row is.
LEMMA SelectInboundQuiet ==
    ASSUME IInv, NEW w \in Workers, SelectInbound(w)
    PROVE  Quiet(w)
<1>1. PICK m \in Messages :
          worker' = [worker EXCEPT ![w].pc = "selected", ![w].msg = m]
  BY DEF SelectInbound
<1>2. worker[w].pc = "idle"
  BY DEF SelectInbound, At
<1>3. WorkersOK /\ RowsOK
  BY IInvParts
<1>5. Moves(w, "selected")
  BY <1>1, <1>2, <1>3, MessagesAssumption DEF WorkersOK, Moves, Steps, Sending
<1>6. RowsKept
  BY <1>3, RowsUnchangedOK DEF SelectInbound
<1> QED
  BY <1>5, <1>6 DEF Quiet, Steps, Sending

\* Claiming it is.
LEMMA CommitClaimQuiet ==
    ASSUME IInv, NEW w \in Workers, CommitClaim(w)
    PROVE  Quiet(w)
<1>1. Row(w) \in Messages
  BY BusyRow, IInvParts DEF CommitClaim, At
<1>2. RowsKept
  BY <1>1, ClaimInboundOK, IInvParts DEF CommitClaim
<1>3. Moves(w, "claimed")
  BY GotoMoves, IInvParts DEF CommitClaim, At, Steps
<1> QED
  BY <1>2, <1>3 DEF Quiet, Steps, Sending

\* Looking for a stored reply is.
LEMMA LoadOutboxQuiet ==
    ASSUME IInv, NEW w \in Workers, LoadOutbox(w)
    PROVE  Quiet(w)
<1>1. RowsKept
  BY RowsUnchangedOK, IInvParts DEF LoadOutbox
<1>2. CASE Goto(w, "preparing")
  BY <1>1, <1>2, GotoMoves, IInvParts
     DEF LoadOutbox, At, Steps, Sending, Quiet
<1>3. CASE Goto(w, "permit")
  BY <1>1, <1>3, GotoMoves, IInvParts
     DEF LoadOutbox, At, Steps, Sending, Quiet
<1>4. CASE Finish(w)
  BY <1>1, <1>4, FinishQuiet
<1> QED
  BY <1>2, <1>3, <1>4 DEF LoadOutbox

\* Ending a row without a reply is.
LEMMA DeclineQuiet ==
    ASSUME IInv, NEW w \in Workers, Decline(w)
    PROVE  Quiet(w)
<1>1. Row(w) \in Messages
  BY BusyRow, IInvParts DEF Decline, At
<1>2. RowsKept
  BY <1>1, CompleteWithoutResponseOK, IInvParts DEF Decline
<1> QED
  BY <1>2, FinishQuiet DEF Decline

\* Generating the reply is.
LEMMA PrepareReplyQuiet ==
    ASSUME IInv, NEW w \in Workers, PrepareReply(w)
    PROVE  Quiet(w)
<1>1. Row(w) \in Messages /\ WorkersOK /\ AuthorityTypeOK /\ RowsOK
  BY BusyRow, IInvParts DEF PrepareReply, At
<1>2. policy[FanOf[Row(w)]].version \in Nat
  BY <1>1, FanOfAssumption DEF AuthorityTypeOK
<1>3. PICK draft \in Drafts :
          worker' = [worker EXCEPT ![w].pc = "enqueue", ![w].draft = draft]
  BY <1>2, ContentAssumption DEF PrepareReply, Drafts
<1>4. worker[w].pc = "preparing"
  BY DEF PrepareReply, At
<1>5. Moves(w, "enqueue")
  BY ZenonT(30), <1>1, <1>3, <1>4 DEF WorkersOK, Moves, Steps, Sending
<1>6. RowsKept
  BY <1>1, RowsUnchangedOK DEF PrepareReply
<1> QED
  BY <1>5, <1>6 DEF Quiet, Steps, Sending

\* Storing it is.
LEMMA CommitOutboxQuiet ==
    ASSUME IInv, NEW w \in Workers, CommitOutbox(w)
    PROVE  Quiet(w)
<1>1. Row(w) \in Messages /\ WorkersOK /\ RowsOK /\ worker[w].pc = "enqueue"
  BY BusyRow, IInvParts DEF CommitOutbox, At
<1>2. worker[w].draft \in Drafts
  BY <1>1 DEF WorkersOK
<1>3. RowsKept
  BY <1>1, <1>2, EnqueueOutboxOK DEF CommitOutbox
<1>4. CASE Continue(w, "vet")
  BY <1>1, <1>3, <1>4, ContinueMoves DEF Quiet, Steps, Sending
<1>5. CASE Continue(w, "permit")
  BY <1>1, <1>3, <1>5, ContinueMoves DEF Quiet, Steps, Sending
<1>6. CASE Finish(w)
  BY <1>3, <1>6, FinishQuiet
<1> QED
  BY <1>4, <1>5, <1>6 DEF CommitOutbox

\* Being permitted to send is.
LEMMA GrantPermitQuiet ==
    ASSUME IInv, NEW w \in Workers, GrantPermit(w)
    PROVE  Quiet(w)
<1>1. RowsKept
  BY RowsUnchangedOK, IInvParts DEF GrantPermit
<1>2. Moves(w, "granted")
  BY GotoMoves, IInvParts DEF GrantPermit, At, Steps
<1> QED
  BY <1>1, <1>2 DEF Quiet, Steps, Sending

\* Dropping a superseded draft, blocking an unsupported one, being refused the
\* permit and losing it are.
LEMMA UnsentQuiet ==
    ASSUME IInv, NEW w \in Workers,
           DiscardSuperseded(w) \/ BlockUnsupported(w)
              \/ RefusePermit(w) \/ LosePermit(w)
    PROVE  Quiet(w)
<1>1. Row(w) \in Messages /\ RowsOK
  BY BusyRow, IInvParts
     DEF DiscardSuperseded, BlockUnsupported, RefusePermit, LosePermit, At
<1>2. RowsKept
  BY <1>1, RowsUnchangedOK, CompleteUnsupportedOK, RejectSendOK
     DEF DiscardSuperseded, BlockUnsupported, RefusePermit, LosePermit
<1>3. Finish(w)
  BY DEF DiscardSuperseded, BlockUnsupported, RefusePermit, LosePermit
<1> QED
  BY <1>2, <1>3, FinishQuiet

\* The handler of an exception is.
LEMMA ProcessingFailsQuiet ==
    ASSUME IInv, NEW w \in Workers, ProcessingFails(w)
    PROVE  Quiet(w)
<1>1. Row(w) \in Messages /\ RowsOK
  BY BusyRow, IInvParts DEF ProcessingFails
<1>2. CASE \E limit \in {1, MaxAttempts} : ReleaseInbound(Row(w), limit)
  BY <1>1, <1>2, ReleaseInboundOK, FinishQuiet DEF ProcessingFails
<1>3. CASE MarkDeliveryUnknown(Row(w))
  BY <1>1, <1>3, MarkDeliveryUnknownOK, FinishQuiet DEF ProcessingFails
<1>4. CASE UNCHANGED rowVars
  BY <1>1, <1>4, RowsUnchangedOK, FinishQuiet DEF ProcessingFails
<1> QED
  BY <1>2, <1>3, <1>4 DEF ProcessingFails

\* Every step of a reply worker but the start of a send is.
LEMMA ReplyStepQuiet ==
    ASSUME IInv, NEW w \in Workers, ReplyStep(w), ~BeginSend(w)
    PROVE  Quiet(w)
BY SelectInboundQuiet, LoadOutboxQuiet, DeclineQuiet, PrepareReplyQuiet,
   CommitOutboxQuiet, GrantPermitQuiet, UnsentQuiet, ProcessingFailsQuiet DEF ReplyStep

\* A quiet step adds no request and no send.
LEMMA QuietCommits ==
    ASSUME IInv, NEW w \in Workers, Quiet(w), found' = found,
           requests' \cup accepted' \subseteq requests \cup accepted
    PROVE  OnlyAfterCommit'
<1>1. PICK pc \in Steps \ Sending : Moves(w, pc)
  BY DEF Quiet
<1>2. sendAttempts' = sendAttempts
  BY DEF Quiet, RowsKept
<1>3. \A r \in (requests \cup accepted)' : sendAttempts'[r.msg] = 1
  BY <1>2, IInvParts DEF OnlyAfterCommit
<1>4. ASSUME NEW v \in Workers, worker'[v].pc \in Sending
      PROVE  sendAttempts'[worker'[v].msg] = 1
  BY <1>1, <1>2, <1>4, IInvParts DEF Moves, Sending, OnlyAfterCommit, Row
<1>5. \A m \in found'.uncertain : sendAttempts'[m] = 1
  BY <1>2, IInvParts DEF OnlyAfterCommit
<1> QED
  BY <1>3, <1>4, <1>5 DEF OnlyAfterCommit, Sending, Row

\* The start of a send: no request and no other worker concerns the row, whose
\* counter was zero.
LEMMA BeginSendOK ==
    ASSUME IInv, NEW w \in Workers, BeginSend(w), UNCHANGED providerVars,
           found' = found
    PROVE  RowsOK' /\ WorkersOK' /\ OnlyAfterCommit'
<1>1. Row(w) \in Messages /\ RowsOK /\ worker[w].pc = "granted"
  BY BusyRow, IInvParts DEF BeginSend, At
<1>2. /\ RowsOK'
      /\ sendAttempts[Row(w)] = 0
      /\ sendAttempts' = [sendAttempts EXCEPT ![Row(w)] = 1]
  BY <1>1, StartSendingOK DEF BeginSend
<1>3. Moves(w, "posting")
  BY <1>1, IInvParts, GotoMoves DEF BeginSend, Steps
<1>4. requests' = requests /\ accepted' = accepted
  BY DEF providerVars
<1>5. sendAttempts \in [Messages -> Nat]
  BY <1>1 DEF RowsOK, RowsTypeOK
<1>6. ASSUME NEW m \in Messages, sendAttempts[m] = 1
      PROVE  sendAttempts'[m] = 1
  BY <1>2, <1>5, <1>6
<1>7. ASSUME NEW r \in (requests \cup accepted)'
      PROVE  sendAttempts'[r.msg] = 1
  <2>1. r.msg \in Messages /\ sendAttempts[r.msg] = 1
    BY <1>4, IInvParts DEF ProviderOK, Requests, OnlyAfterCommit
  <2> QED
    BY <2>1, <1>6
<1>8. ASSUME NEW v \in Workers, worker'[v].pc \in Sending
      PROVE  sendAttempts'[worker'[v].msg] = 1
  <2>1. CASE v = w
    BY <2>1, <1>1, <1>2, <1>3, <1>5 DEF Moves, Sending, Row
  <2>2. CASE v # w
    <3>1. worker'[v] = worker[v] /\ worker[v].pc \in Sending
      BY <2>2, <1>3, <1>8 DEF Moves
    <3>2. Row(v) \in Messages /\ sendAttempts[Row(v)] = 1
      BY <3>1, BusyRow, IInvParts DEF Sending, OnlyAfterCommit
    <3> QED
      BY <3>1, <3>2, <1>6 DEF Row
  <2> QED
    BY <2>1, <2>2
<1>9. ASSUME NEW m \in found'.uncertain
      PROVE  sendAttempts'[m] = 1
  <2>1. m \in Messages /\ sendAttempts[m] = 1
    BY IInvParts DEF ProcessOK, OnlyAfterCommit
  <2> QED
    BY <2>1, <1>6
<1> QED
  BY <1>2, <1>3, <1>7, <1>8, <1>9 DEF Moves, OnlyAfterCommit, Sending, Row

\* A request: the row's send is committed already.
LEMMA PostOK ==
    ASSUME IInv, NEW w \in Workers, IssueRequest(w) \/ RetryRequest(w),
           found' = found
    PROVE  RowsKept /\ WorkersOK' /\ requests' \in SUBSET Requests
                    /\ OnlyAfterCommit'
<1> DEFINE r == [msg |-> Row(w), try |-> worker[w].tries + 1]
<1>1. worker[w].pc \in Sending /\ Row(w) \in Messages /\ RowsOK /\ WorkersOK
  BY BusyRow, IInvParts DEF IssueRequest, RetryRequest, At, Sending
<1>2. Post(w)
  BY DEF IssueRequest, RetryRequest
<1>3. worker[w].tries \in Nat /\ worker[w].tries + 1 \in 1..MaxTries
  BY <1>1, MaxTriesAssumption
     DEF IssueRequest, RetryRequest, WorkersOK, At, Sending
<1>4. RowsKept
  BY <1>1, <1>2, RowsUnchangedOK DEF Post
<1>5. Moves(w, "awaiting")
  BY <1>1, <1>2, <1>3, MaxTriesAssumption DEF WorkersOK, Moves, Post, Steps
<1>6. r \in Requests /\ sendAttempts[r.msg] = 1
  BY <1>1, <1>3, IInvParts DEF Requests, OnlyAfterCommit, Sending
<1>7. requests' = requests \cup {r} /\ accepted' = accepted
  BY <1>2 DEF Post
<1>8. sendAttempts' = sendAttempts
  BY <1>4 DEF RowsKept
<1>9. \A q \in (requests \cup accepted)' : sendAttempts'[q.msg] = 1
  BY <1>6, <1>7, <1>8, IInvParts DEF OnlyAfterCommit
<1>10. ASSUME NEW v \in Workers, worker'[v].pc \in Sending
       PROVE  sendAttempts'[worker'[v].msg] = 1
  BY <1>1, <1>5, <1>8, <1>10, IInvParts DEF Moves, Sending, OnlyAfterCommit, Row
<1>11. requests' \in SUBSET Requests
  BY <1>6, <1>7, IInvParts DEF ProviderOK
<1>12. \A m \in found'.uncertain : sendAttempts'[m] = 1
  BY <1>8, IInvParts DEF OnlyAfterCommit
<1> QED
  BY <1>4, <1>5, <1>9, <1>10, <1>11, <1>12 DEF Moves, OnlyAfterCommit, Sending, Row

\* The outcomes of a provider call are quiet, and the requests only shrink.
LEMMA OutcomeQuiet ==
    ASSUME IInv, NEW w \in Workers,
           ConfirmDelivery(w) \/ RefuseDelivery(w) \/ GiveUp(w)
              \/ OutcomeUnrecorded(w)
    PROVE  Quiet(w) /\ requests' \subseteq requests /\ accepted' = accepted
                    /\ posted' = posted
<1>1. Row(w) \in Messages /\ RowsOK /\ worker[w].tries \in Nat
  BY BusyRow, IInvParts, MaxTriesAssumption
     DEF ConfirmDelivery, RefuseDelivery, GiveUp, OutcomeUnrecorded, At, WorkersOK
<1>2. RowsKept
  BY <1>1, CompleteDeliveryOK, MarkProviderBlockedOK, MarkDeliveryUnknownOK,
     RowsUnchangedOK
     DEF ConfirmDelivery, RefuseDelivery, GiveUp, OutcomeUnrecorded
<1>3. Quiet(w)
  BY <1>2, FinishQuiet
     DEF ConfirmDelivery, RefuseDelivery, GiveUp, OutcomeUnrecorded
<1> QED
  BY <1>3 DEF ConfirmDelivery, RefuseDelivery, GiveUp, OutcomeUnrecorded,
              providerVars

\* Recording an opt-out is quiet and keeps the contact policies well formed.
LEMMA RecordOptOutQuiet ==
    ASSUME IInv, NEW w \in Workers, RecordOptOut(w)
    PROVE  Quiet(w) /\ AuthorityTypeOK'
<1>1. Row(w) \in Messages /\ RowsOK /\ AuthorityTypeOK
  BY BusyRow, IInvParts DEF RecordOptOut, At
<1>2. RowsKept
  BY <1>1, RowsUnchangedOK DEF RecordOptOut
<1>3. Moves(w, "declined")
  BY IInvParts, GotoMoves DEF RecordOptOut, At, Steps
<1>4. FanOf[Row(w)] \in Fans
  BY <1>1, FanOfAssumption
<1>5. AuthorityTypeOK'
  BY <1>1, <1>4 DEF RecordOptOut, AuthorityTypeOK
<1> QED
  BY <1>2, <1>3, <1>5 DEF Quiet, Steps, Sending

\* Every step of a worker preserves the invariant.
LEMMA WorkerStepOK ==
    ASSUME IInv, NEW w \in Workers, WorkerStep(w)
    PROVE  IInv'
<1>1. /\ events' = events /\ UNCHANGED webhookVars /\ UNCHANGED processVars
      /\ sender' = sender /\ spent' = spent /\ found' = found
  BY DEF WorkerStep, processVars
<1>2. WebhookOK' /\ ProcessOK'
  BY <1>1, IInvParts DEF WebhookOK, ProcessOK, webhookVars, processVars
<1>3. SUFFICES RowsOK' /\ AuthorityTypeOK' /\ WorkersOK' /\ OnlyAfterCommit'
               /\ posted' \in Nat /\ requests' \in SUBSET Requests
               /\ accepted' \in SUBSET Requests
  BY <1>1, <1>2, IInvParts DEF ProviderOK, IInv, TypeOK, RowsOK
<1>4. ASSUME Quiet(w), requests' \subseteq requests, accepted' = accepted,
             posted' = posted
      PROVE  RowsOK' /\ WorkersOK' /\ OnlyAfterCommit'
             /\ posted' \in Nat /\ requests' \in SUBSET Requests
             /\ accepted' \in SUBSET Requests
  BY <1>1, <1>4, QuietCommits, IInvParts DEF Quiet, RowsKept, Moves, ProviderOK
<1>5. CASE UNCHANGED authorityVars
  <2>1. AuthorityTypeOK'
    BY <1>5, IInvParts DEF AuthorityTypeOK, authorityVars
  <2>2. CASE ClaimStep(w)
    BY <2>1, <2>2, <1>4, CommitClaimQuiet DEF ClaimStep, providerVars
  <2>3. CASE ReplyStep(w) /\ ~BeginSend(w)
    BY <2>1, <2>3, <1>4, ReplyStepQuiet DEF ReplyStep, providerVars
  <2>4. CASE ReplyStep(w) /\ BeginSend(w)
    BY <1>1, <2>1, <2>4, BeginSendOK, IInvParts DEF ReplyStep, providerVars, ProviderOK
  <2>5. CASE IssueRequest(w) \/ RetryRequest(w)
    BY <1>1, <2>1, <2>5, PostOK, IInvParts
       DEF IssueRequest, RetryRequest, Post, RowsKept, ProviderOK
  <2>6. CASE ConfirmDelivery(w) \/ RefuseDelivery(w) \/ GiveUp(w)
                \/ OutcomeUnrecorded(w)
    BY <2>1, <2>6, <1>4, OutcomeQuiet
  <2>7. CASE OptOutStep(w)
    BY <2>7, <1>4, RecordOptOutQuiet DEF OptOutStep, providerVars
  <2> QED
    BY <2>2, <2>3, <2>4, <2>5, <2>6, <2>7 DEF WorkerStep, SendStep
<1>6. CASE OptOutStep(w)
  BY <1>6, <1>4, RecordOptOutQuiet DEF OptOutStep, providerVars
<1> QED
  BY <1>5, <1>6 DEF WorkerStep, ClaimStep, ReplyStep, SendStep

-----------------------------------------------------------------------------
(* The steps outside the workers.                                          *)

\* What a start-up has found to be an interrupted send was committed.
FoundCommitted == \A m \in found'.uncertain : sendAttempts[m] = 1

\* It was if nothing new has been found.
LEMMA FoundKept ==
    ASSUME IInv, found' = found
    PROVE  FoundCommitted
BY IInvParts DEF OnlyAfterCommit, FoundCommitted

\* Requests and sends under way are covered by committed sends as long as no
\* counter changes, no request appears and no worker starts sending.
LEMMA CommitsKept ==
    ASSUME IInv, UNCHANGED sendAttempts, FoundCommitted,
           requests' \cup accepted' \subseteq requests \cup accepted,
           worker' = worker \/ worker' = [w \in Workers |-> Idle]
    PROVE  OnlyAfterCommit'
<1>1. ASSUME NEW w \in Workers, worker'[w].pc \in Sending
      PROVE  worker'[w] = worker[w]
  BY <1>1 DEF Idle, Sending
<1> QED
  BY <1>1, IInvParts DEF OnlyAfterCommit, Sending, Row, FoundCommitted

\* What happens at the provider preserves the invariant.
LEMMA OutsideStepOK ==
    ASSUME IInv, OutsideStep
    PROVE  IInv'
<1>1. /\ AuthorityTypeOK' /\ WorkersOK' /\ WebhookOK'
      /\ sender' = sender /\ UNCHANGED processVars /\ worker' = worker
  BY IInvParts
     DEF OutsideStep, AuthorityTypeOK, WorkersOK, WebhookOK, ProcessOK,
         authorityVars, workVars, webhookVars, processVars
<1>2. SUFFICES /\ RowsKept /\ ProviderOK'
               /\ requests' \cup accepted' \subseteq requests \cup accepted
               /\ spent' \in [{"sends", "handoffs", "crashes", "starts"} -> Nat]
  BY <1>1, CommitsKept, FoundKept, IInvParts
     DEF RowsKept, ProcessOK, IInv, TypeOK, RowsOK, processVars
<1>3. ASSUME NEW m \in Messages, FanWrites(m) \/ FanDeletes(m)
      PROVE  /\ RowsKept /\ ProviderOK'
             /\ requests' \cup accepted' \subseteq requests \cup accepted
             /\ spent' = spent
  <2>1. FanOf[m] \in Fans /\ m \in Nat /\ 0 \in Nat /\ posted \in Nat
    BY FanOfAssumption, MessagesAssumption, IInvParts DEF ProviderOK
  <2>2. RowsKept
    BY <1>3, RowsUnchangedOK, IInvParts DEF FanWrites, FanDeletes
  <2>3. events' \in SUBSET Events
    BY <1>3, <2>1, IInvParts DEF FanWrites, FanDeletes, ProviderOK, Events
  <2> QED
    BY <1>3, <2>1, <2>2, <2>3, IInvParts
       DEF FanWrites, FanDeletes, ProviderOK, providerVars
<1>4. ASSUME NEW f \in Fans, CreatorSends(f)
      PROVE  /\ RowsKept /\ ProviderOK'
             /\ requests' \cup accepted' \subseteq requests \cup accepted
             /\ spent' \in [{"sends", "handoffs", "crashes", "starts"} -> Nat]
  <2>1. posted \in Nat /\ spent["sends"] + 1 \in Nat
    BY IInvParts DEF ProviderOK, ProcessOK
  <2>2. RowsKept
    BY <1>4, RowsUnchangedOK, IInvParts DEF CreatorSends
  <2>3. events' \in SUBSET Events
    BY <1>4, <2>1, IInvParts DEF CreatorSends, ProviderOK, Events
  <2> QED
    BY <1>4, <2>2, <2>3, IInvParts
       DEF CreatorSends, ProviderOK, ProcessOK, Spend, providerVars
<1>5. ASSUME NEW r \in requests, ProviderAccepts(r)
      PROVE  /\ RowsKept /\ ProviderOK'
             /\ requests' \cup accepted' \subseteq requests \cup accepted
             /\ spent' = spent
  <2>1. /\ r \in Requests /\ r.msg \in Messages /\ r.try \in Nat
        /\ FanOf[r.msg] \in Fans /\ posted \in Nat
    BY IInvParts, FanOfAssumption, MaxTriesAssumption DEF ProviderOK, Requests
  <2>2. RowsKept
    BY <1>5, RowsUnchangedOK, IInvParts DEF ProviderAccepts
  <2>3. events' \in SUBSET Events
    BY <1>5, <2>1, IInvParts DEF ProviderAccepts, ProviderOK, Events
  <2> QED
    BY <1>5, <2>1, <2>2, <2>3, IInvParts DEF ProviderAccepts, ProviderOK
<1>6. ASSUME NEW m \in Messages, QueueOutreach(m)
      PROVE  /\ RowsKept /\ ProviderOK'
             /\ requests' \cup accepted' \subseteq requests \cup accepted
             /\ spent' = spent
  BY <1>6, InsertInboundOK, MessagesAssumption, IInvParts
     DEF QueueOutreach, ProviderOK
<1> QED
  BY <1>3, <1>4, <1>5, <1>6, IInvParts DEF OutsideStep, ProcessOK

\* A reply whose provider id is stored, or matched by an event, was attempted,
\* and the provider has a copy of it.
LEMMA StoredAttempted ==
    ASSUME IInv, IdsStored
    PROVE  /\ \A m \in Messages : reply[m].id # 0 => sendAttempts[m] = 1
           /\ \A m \in tx.matched :
                 m \in Messages /\ sendAttempts[m] = 1 /\ LedgerCopies[m] # {}
<1>1. ASSUME NEW m \in Messages, reply[m].id # 0
      PROVE  sendAttempts[m] = 1 /\ LedgerCopies[m] # {}
  <2>1. [msg |-> m, try |-> reply[m].id] \in accepted
    BY <1>1 DEF IdsStored
  <2>2. reply[m].id \in 1..MaxTries
    BY <2>1, IInvParts DEF ProviderOK, Requests
  <2>3. sendAttempts[m] = 1
    BY <2>1, IInvParts DEF OnlyAfterCommit
  <2> QED
    BY <2>1, <2>2, <2>3 DEF LedgerCopies
<1> QED
  BY <1>1, IInvParts DEF IdsStored, WebhookOK

\* Cancelling outbox rows, to a status other than "pending", confirming attempted
\* ones and completing inbound rows keeps the rows well formed.
LEMMA CancelCompleteOK ==
    ASSUME IInv, NEW cancelled, NEW done, NEW confirmed,
           NEW status \in {"cancelled_stale", "cancelled_deleted"},
           \A m \in confirmed : sendAttempts[m] = 1,
           Cancel(cancelled, status, confirmed), Complete(done),
           UNCHANGED <<attempts, available, sendAttempts, claimedBy, processed>>
    PROVE  RowsKept
<1>1. RowsOK
  BY IInvParts
<1>2. inbound' \in [Messages -> InboundStatus]
  BY <1>1 DEF Complete, RowsOK, RowsTypeOK, InboundStatus
<1>3. outbox' \in [Messages -> OutboxStatus]
  BY <1>1 DEF Cancel, RowsOK, RowsTypeOK, OutboxStatus
<1>4. reply' \in [Messages -> Replies]
  BY <1>1 DEF Cancel, RowsOK, RowsTypeOK, Replies
<1>5. SentOnce'
  BY <1>1 DEF Cancel, RowsOK, SentOnce, NotAttempted, Tried
<1> QED
  BY <1>1, <1>2, <1>3, <1>4, <1>5 DEF RowsKept, RowsOK, RowsTypeOK

\* The webhook thread preserves the invariant.
LEMMA WebhookStepOK ==
    ASSUME IInv, IdsStored, WebhookStep
    PROVE  IInv'
<1>1. /\ AuthorityTypeOK' /\ WorkersOK' /\ ProviderOK' /\ ProcessOK'
      /\ worker' = worker /\ requests' = requests /\ accepted' = accepted
      /\ found' = found
  BY IInvParts
     DEF WebhookStep, AuthorityTypeOK, WorkersOK, ProviderOK, ProcessOK,
         authorityVars, workVars, providerVars, processVars
<1>2. SUFFICES RowsKept /\ WebhookOK'
  BY <1>1, CommitsKept, FoundKept DEF RowsKept, IInv, TypeOK, RowsOK
<1>3. ASSUME NEW e \in events, IngestReceived(e)
      PROVE  RowsKept /\ WebhookOK'
  <2>1. e \in Events /\ e.msg \in Messages \cup {0} /\ RowsOK
    BY IInvParts DEF ProviderOK, Events
  <2>2. WebhookOK'
    BY <1>3, <2>1, IInvParts DEF IngestReceived, WebhookOK
  <2>3. CASE UNCHANGED rowVars
    BY <2>1, <2>2, <2>3, RowsUnchangedOK
  <2>4. CASE InsertInbound(e.msg, FALSE)
    BY <2>1, <2>2, <2>4, InsertInboundOK
  <2> QED
    BY <1>3, <2>3, <2>4 DEF IngestReceived
<1>4. ASSUME NEW e \in events, BeginProjection(e)
      PROVE  RowsKept /\ WebhookOK'
  <2>1. e \in Events /\ RowsOK
    BY IInvParts DEF ProviderOK
  <2>2. PendingReplies(e) \in SUBSET Messages /\ MatchedReply(e) \in SUBSET Messages
    BY DEF PendingReplies, MatchedReply
  <2>3. (e.kind = "deleted" /\ WroteAgain(e)) \in BOOLEAN
    OBVIOUS
  <2>4. tx' \in [open : BOOLEAN, event : SUBSET Events, matched : SUBSET Messages,
                 ids : SUBSET Messages, newer : BOOLEAN]
    BY <1>4, <2>1, <2>2, <2>3 DEF BeginProjection
  <2>5. RowsKept
    BY <1>4, <2>1, RowsUnchangedOK DEF BeginProjection
  <2> QED
    BY <1>4, <2>4, <2>5, IInvParts DEF BeginProjection, WebhookOK
<1>5. ASSUME NEW e \in events, DeadLetterSent(e)
      PROVE  RowsKept /\ WebhookOK'
  BY <1>5, RowsUnchangedOK, IInvParts DEF DeadLetterSent, WebhookOK, ProviderOK
<1>6. CASE CommitProjection
  <2>1. PICK e \in tx.event :
            (CommitSent(e) \/ CommitDeleted(e)) /\ projected' = projected \cup {e}
    BY <1>6 DEF CommitProjection
  <2>2. e \in Events /\ e.at \in Nat /\ e.fan \in Fans
    BY IInvParts DEF WebhookOK, Events
  <2>3. NoTx \in [open : BOOLEAN, event : SUBSET Events, matched : SUBSET Messages,
                  ids : SUBSET Messages, newer : BOOLEAN]
    BY DEF NoTx
  <2>4. lastCreator' \in [Fans -> Nat]
    BY <2>1, <2>2, IInvParts DEF CommitSent, CommitDeleted, WebhookOK
  <2>5. WebhookOK'
    BY <1>6, <2>1, <2>2, <2>3, <2>4, IInvParts DEF CommitProjection, WebhookOK
  <2>6. UNCHANGED <<attempts, available, sendAttempts, claimedBy, processed>>
    BY <1>6 DEF CommitProjection
  <2>7. CASE UNCHANGED <<outbox, reply, inbound>>
    BY <2>5, <2>6, <2>7, RowsUnchangedOK, IInvParts DEF rowVars
  <2>8. ASSUME NEW cancelled, NEW done, NEW confirmed \in {{}, tx.matched},
               NEW status \in {"cancelled_stale", "cancelled_deleted"},
               Cancel(cancelled, status, confirmed), Complete(done)
        PROVE  RowsKept
    <3>1. \A m \in confirmed : sendAttempts[m] = 1
      BY StoredAttempted
    <3> QED
      BY <2>6, <2>8, <3>1, CancelCompleteOK
  <2>9. CASE CommitSent(e)
    <3>1. PICK done : /\ Cancel(tx.ids \ tx.matched, "cancelled_stale", tx.matched)
                      /\ Complete(done)
      BY <2>9 DEF CommitSent
    <3> QED
      BY <2>5, <2>8, <3>1
  <2>10. CASE CommitDeleted(e) /\ ~tx.newer
    <3>1. PICK cancelled, done :
              Cancel(cancelled, "cancelled_deleted", {}) /\ Complete(done)
      BY <2>10 DEF CommitDeleted
    <3> QED
      BY <2>5, <2>8, <3>1
  <2>11. CASE CommitDeleted(e) /\ tx.newer
    BY <2>5, <2>7, <2>11 DEF CommitDeleted
  <2> QED
    BY <2>1, <2>9, <2>10, <2>11
<1> QED
  BY <1>3, <1>4, <1>5, <1>6 DEF WebhookStep

\* The operator preserves the invariant.
LEMMA OperatorStepOK ==
    ASSUME IInv, OperatorStep
    PROVE  IInv'
<1>1. /\ WorkersOK' /\ ProviderOK' /\ WebhookOK'
      /\ worker' = worker /\ requests' = requests /\ accepted' = accepted
      /\ up' = up /\ boot' = boot /\ found' = found
  BY IInvParts
     DEF OperatorStep, WorkersOK, ProviderOK, WebhookOK, workVars, providerVars,
         webhookVars, processVars
<1>2. RowsKept
  BY RowsUnchangedOK, IInvParts DEF OperatorStep
<1>3. owner' \in [Triggers -> Owners] /\ sender' \in Roles
  BY IInvParts
     DEF OperatorStep, SaveBrainSettings, AssignOwner, AuthorityTypeOK, ProcessOK,
         Owners
<1>4. AuthorityTypeOK' /\ ProcessOK'
  BY <1>1, <1>3, IInvParts DEF OperatorStep, AuthorityTypeOK, ProcessOK, Spend
<1> QED
  BY <1>1, <1>2, <1>4, CommitsKept, FoundKept DEF RowsKept, IInv, TypeOK, RowsOK

\* The passing of time does.
LEMMA ClockStepOK ==
    ASSUME IInv, ClockStep
    PROVE  IInv'
<1>1. /\ AuthorityTypeOK' /\ WorkersOK' /\ ProviderOK' /\ WebhookOK' /\ ProcessOK'
      /\ worker' = worker /\ requests' = requests /\ accepted' = accepted
      /\ found' = found
  BY IInvParts
     DEF ClockStep, AuthorityTypeOK, WorkersOK, ProviderOK, WebhookOK, ProcessOK,
         authorityVars, workVars, providerVars, webhookVars, processVars
<1>2. RowsKept
  BY BecomesAvailableOK, PermitExpiresOK, IInvParts DEF ClockStep
<1> QED
  BY <1>1, <1>2, CommitsKept, FoundKept DEF RowsKept, IInv, TypeOK, RowsOK

\* A process that stops does: it forgets what it was doing.
LEMMA CrashOK ==
    ASSUME IInv, Crash
    PROVE  IInv'
<1>1. Idle \in [pc : Steps, msg : Messages \cup {0}, draft : Drafts,
                tries : 0..MaxTries]
  BY MaxTriesAssumption DEF Idle, Steps, Drafts, NoDraft
<1>2. WorkersOK'
  BY <1>1 DEF Crash, WorkersOK, Idle
<1>3. AuthorityTypeOK' /\ ProviderOK' /\ WebhookOK'
  BY IInvParts DEF Crash, AuthorityTypeOK, ProviderOK, WebhookOK, NoTx,
                   authorityVars, providerVars
<1>4. spent' \in [{"sends", "handoffs", "crashes", "starts"} -> Nat]
  BY IInvParts DEF Crash, ProcessOK, Spend
<1>5. ProcessOK'
  BY <1>4, IInvParts DEF Crash, ProcessOK, NothingFound
<1>6. RowsKept
  BY RowsUnchangedOK, IInvParts DEF Crash
<1>7. FoundCommitted
  BY DEF Crash, FoundCommitted, NothingFound
<1> QED
  BY <1>2, <1>3, <1>5, <1>6, <1>7, CommitsKept
     DEF Crash, providerVars, RowsKept, IInv, TypeOK, RowsOK

\* What a process that starts reads and writes keeps the rows well formed: the
\* sends it gives up were committed when it read them, and still are.
LEMMA StartRowsOK ==
    ASSUME IInv, StartStep
    PROVE  RowsKept /\ FoundCommitted
<1>1. RowsOK /\ ProcessOK /\ \A m \in found.uncertain : sendAttempts[m] = 1
  BY IInvParts DEF OnlyAfterCommit
<1>2. CASE BeginRecovery
  <2>1. RowsKept
    BY <1>1, <1>2, RowsUnchangedOK DEF BeginRecovery
  <2>2. found'.uncertain = Interrupted({"sending"})
    BY <1>2 DEF BeginRecovery, NothingFound
  <2>3. \A m \in Interrupted({"sending"}) : sendAttempts[m] = 1
    BY <1>1 DEF Interrupted, RowsOK, SentOnce, Tried
  <2> QED
    BY <2>1, <2>2, <2>3 DEF FoundCommitted
<1>3. CASE CommitRecovery
  <2>1. found.delivered \in SUBSET Messages
    BY <1>1 DEF ProcessOK
  <2>2. RowsKept
    BY <1>1, <1>3, <2>1, RecoverInterruptedOK DEF CommitRecovery
  <2> QED
    BY <1>3, <2>2 DEF CommitRecovery, FoundCommitted, NothingFound
<1>4. CASE BeginBlocking
  <2>1. RowsKept
    BY <1>1, <1>4, RowsUnchangedOK DEF BeginBlocking
  <2> QED
    BY <1>4, <2>1 DEF BeginBlocking, FoundCommitted, NothingFound
<1>5. CASE FinishStart
  <2>1. found.stale \in SUBSET Messages
    BY <1>1 DEF ProcessOK
  <2>2. RowsKept
    BY <1>1, <1>5, <2>1, BlockPendingNonTextOK DEF FinishStart
  <2> QED
    BY <1>5, <2>2 DEF FinishStart, FoundCommitted, NothingFound
<1> QED
  BY <1>2, <1>3, <1>4, <1>5 DEF StartStep

\* The process variables stay well typed.
LEMMA StartProcessOK ==
    ASSUME IInv, StartStep
    PROVE  ProcessOK'
<1>1. ProcessOK /\ sender' = sender
  BY IInvParts DEF StartStep
<1>2. /\ \A status : Interrupted(status) \in SUBSET Messages
      /\ PendingNonText \in SUBSET Messages
  BY DEF Interrupted, PendingNonText
<1>3. CASE BeginRecovery
  <2>1. spent' \in [{"sends", "handoffs", "crashes", "starts"} -> Nat]
    BY <1>1, <1>3 DEF BeginRecovery, Spend, ProcessOK
  <2> QED
    BY <1>1, <1>2, <1>3, <2>1 DEF BeginRecovery, ProcessOK, NothingFound
<1>4. CASE CommitRecovery
  BY <1>1, <1>4 DEF CommitRecovery, ProcessOK, NothingFound
<1>5. CASE BeginBlocking
  BY <1>1, <1>2, <1>5 DEF BeginBlocking, ProcessOK, NothingFound
<1>6. CASE FinishStart
  BY <1>1, <1>6 DEF FinishStart, ProcessOK, NothingFound
<1> QED
  BY <1>3, <1>4, <1>5, <1>6 DEF StartStep

\* Processes that stop and start preserve the invariant.
LEMMA ProcessStepOK ==
    ASSUME IInv, ProcessStep
    PROVE  IInv'
<1>1. CASE StartStep
  <2>1. /\ AuthorityTypeOK' /\ WorkersOK' /\ ProviderOK' /\ WebhookOK'
        /\ worker' = worker /\ requests' = requests /\ accepted' = accepted
    BY <1>1, IInvParts
       DEF StartStep, AuthorityTypeOK, WorkersOK, ProviderOK, WebhookOK,
           authorityVars, workVars, providerVars, webhookVars
  <2> QED
    BY <1>1, <2>1, StartRowsOK, StartProcessOK, CommitsKept
       DEF RowsKept, IInv, TypeOK, RowsOK
<1> QED
  BY <1>1, CrashOK DEF ProcessStep

-----------------------------------------------------------------------------
(* Provider ids.                                                           *)

\* Ids of attempted rows do not change.
IdsKept ==
    \A m \in Messages : outbox[m] # "none" => reply'[m].id = reply[m].id

\* A row that gets its outbox row now has no id.
NewIdsNull ==
    \A m \in Messages : outbox[m] = "none" =>
        reply'[m].id = reply[m].id \/ reply'[m].id = 0

\* Neither the ids nor the events nor a transaction's matches go astray.
LEMMA IdsStoredKept ==
    ASSUME IInv, IdsStored, IdsKept, NewIdsNull, accepted \subseteq accepted',
           \A e \in events' : e.kind = "sent" /\ e.msg # 0 =>
              e \in events \/ [msg |-> e.msg, try |-> e.try] \in accepted',
           \A m \in tx'.matched :
              m \in Messages /\ (m \in tx.matched \/ reply[m].id # 0)
    PROVE  IdsStored'
<1>1. ASSUME NEW m \in Messages, reply[m].id # 0
      PROVE  reply'[m].id = reply[m].id
  <2>1. outbox[m] # "none"
    BY <1>1, StoredAttempted, IInvParts DEF RowsOK, SentOnce, NotAttempted
  <2> QED
    BY <2>1 DEF IdsKept
<1>2. ASSUME NEW m \in Messages, reply'[m].id # 0
      PROVE  reply'[m].id = reply[m].id
  BY <1>2 DEF IdsKept, NewIdsNull
<1>3. \A m \in Messages : reply'[m].id # 0 =>
          [msg |-> m, try |-> reply'[m].id] \in accepted'
  BY <1>2 DEF IdsStored
<1>4. \A m \in tx'.matched : reply'[m].id # 0
  BY <1>1 DEF IdsStored
<1>5. \A e \in events' : e.kind = "sent" /\ e.msg # 0 =>
          [msg |-> e.msg, try |-> e.try] \in accepted'
  BY DEF IdsStored
<1> QED
  BY <1>3, <1>4, <1>5 DEF IdsStored

\* Unchanged replies keep their ids.
LEMMA ReplyUnchanged == reply' = reply => IdsKept /\ NewIdsNull
BY DEF IdsKept, NewIdsNull

\* So do replies of which only the permit changes.
LEMMA PermitsChanged ==
    ASSUME RowsOK, NEW rows, NEW permit,
           reply' = [m \in Messages |->
               IF m \in rows THEN [reply[m] EXCEPT !.permit = permit] ELSE reply[m]]
    PROVE  IdsKept /\ NewIdsNull
BY DEF IdsKept, NewIdsNull, RowsOK, RowsTypeOK, Replies

\* One reply's permit is a case of it.
LEMMA PermitChanged ==
    ASSUME RowsOK, NEW m \in Messages, NEW permit,
           reply' = [reply EXCEPT ![m].permit = permit]
    PROVE  IdsKept /\ NewIdsNull
BY DEF IdsKept, NewIdsNull, RowsOK, RowsTypeOK, Replies

\* A worker stores only the id of a message that answered its request.
LEMMA WorkerIds ==
    ASSUME IInv, IdsStored, NEW w \in Workers, WorkerStep(w)
    PROVE  IdsStored'
<1>1. /\ events' = events /\ tx' = tx /\ accepted' = accepted
      /\ RowsOK /\ tx.matched \in SUBSET Messages
  BY IInvParts
     DEF WorkerStep, ClaimStep, ReplyStep, SendStep, OptOutStep, webhookVars,
         providerVars, WebhookOK, IssueRequest, RetryRequest, Post, ConfirmDelivery,
         RefuseDelivery, GiveUp, OutcomeUnrecorded
<1>2. ASSUME IdsKept, NewIdsNull
      PROVE  IdsStored'
  BY <1>1, <1>2, IdsStoredKept
<1>3. CASE reply' = reply
  BY <1>2, <1>3, ReplyUnchanged
<1>4. ASSUME worker[w].pc # "idle"
      PROVE  Row(w) \in Messages
  BY <1>4, BusyRow, IInvParts
<1>5. CASE ClaimStep(w) \/ OptOutStep(w)
  BY <1>3, <1>5
     DEF ClaimStep, OptOutStep, CommitClaim, ClaimInbound, RecordOptOut, rowVars
<1>6. CASE ReplyStep(w)
  <2>1. CASE SelectInbound(w) \/ LoadOutbox(w) \/ PrepareReply(w)
                \/ DiscardSuperseded(w) \/ LosePermit(w) \/ GrantPermit(w)
    BY <1>3, <2>1
       DEF SelectInbound, LoadOutbox, PrepareReply, DiscardSuperseded, LosePermit,
           GrantPermit, rowVars
  <2>2. CASE Decline(w) \/ BeginSend(w) \/ ProcessingFails(w)
    BY <1>3, <2>2
       DEF Decline, CompleteWithoutResponse, BeginSend, StartSending,
           ProcessingFails, ReleaseInbound, MarkDeliveryUnknown, rowVars
  <2>3. CASE CommitOutbox(w)
    <3>1. Row(w) \in Messages /\ EnqueueOutbox(Row(w), worker[w].draft)
      BY <1>4, <2>3 DEF CommitOutbox, At
    <3>2. IdsKept /\ NewIdsNull
      BY <1>1, <3>1
         DEF EnqueueOutbox, IdsKept, NewIdsNull, RowsOK, RowsTypeOK
    <3> QED
      BY <1>2, <3>2
  <2>4. CASE BlockUnsupported(w) \/ RefusePermit(w)
    BY <1>1, <1>2, <1>4, <2>4, PermitChanged
       DEF BlockUnsupported, CompleteUnsupported, RefusePermit, RejectSend,
           CloseUnsent, At
  <2> QED
    BY <1>6, <2>1, <2>2, <2>3, <2>4 DEF ReplyStep
<1>7. CASE SendStep(w)
  <2>1. CASE IssueRequest(w) \/ RetryRequest(w) \/ OutcomeUnrecorded(w) \/ GiveUp(w)
    BY <1>3, <2>1
       DEF IssueRequest, RetryRequest, OutcomeUnrecorded, GiveUp,
           MarkDeliveryUnknown, Post, rowVars
  <2>2. CASE RefuseDelivery(w)
    BY <1>1, <1>2, <1>4, <2>2, PermitChanged
       DEF RefuseDelivery, MarkProviderBlocked, At
  <2>3. CASE ConfirmDelivery(w)
    <3>1. /\ Row(w) \in Messages
          /\ reply' = [reply EXCEPT ![Row(w)].id = worker[w].tries]
      BY <1>4, <2>3 DEF ConfirmDelivery, CompleteDelivery, At
    <3>2. Request(w) \in accepted /\ Request(w) \in Requests
      BY <2>3, IInvParts DEF ConfirmDelivery, ProviderOK
    <3>3. worker[w].tries # 0
      BY <3>2 DEF Request, Requests
    <3>4. /\ reply'[Row(w)].id = worker[w].tries
          /\ \A m \in Messages \ {Row(w)} : reply'[m] = reply[m]
      BY <1>1, <3>1 DEF RowsOK, RowsTypeOK, Replies
    <3> QED
      BY <1>1, <3>1, <3>2, <3>3, <3>4 DEF IdsStored, Request
  <2> QED
    BY <1>7, <2>1, <2>2, <2>3 DEF SendStep
<1> QED
  BY <1>5, <1>6, <1>7 DEF WorkerStep

\* The provider's side adds only events of messages it holds.
LEMMA OutsideIds ==
    ASSUME IInv, IdsStored, OutsideStep
    PROVE  IdsStored'
<1>1. /\ tx' = tx /\ reply' = reply /\ accepted \subseteq accepted'
      /\ tx.matched \in SUBSET Messages
  BY IInvParts
     DEF OutsideStep, webhookVars, providerVars, rowVars, FanWrites, FanDeletes,
         CreatorSends, ProviderAccepts, QueueOutreach, InsertInbound, WebhookOK
<1>2. \A e \in events' : e.kind = "sent" /\ e.msg # 0 =>
          e \in events \/ [msg |-> e.msg, try |-> e.try] \in accepted'
  <2>1. ASSUME NEW r \in requests, ProviderAccepts(r)
        PROVE  \A e \in events' \ events :
                  [msg |-> e.msg, try |-> e.try] \in accepted'
    <3>1. r = [msg |-> r.msg, try |-> r.try]
      BY IInvParts DEF ProviderOK, Requests
    <3> QED
      BY <2>1, <3>1 DEF ProviderAccepts
  <2>2. ASSUME NEW m \in Messages, FanWrites(m) \/ FanDeletes(m) \/ QueueOutreach(m)
        PROVE  \A e \in events' \ events : e.kind # "sent"
    <3>1. CASE FanWrites(m)
      BY <3>1 DEF FanWrites
    <3>2. CASE FanDeletes(m)
      <4>1. events' = events \cup {[kind |-> "deleted", fan |-> FanOf[m],
                                    msg |-> m, try |-> 0, at |-> posted]}
        BY <3>2 DEF FanDeletes
      <4> QED
        BY <4>1
    <3>3. CASE QueueOutreach(m)
      BY <3>3 DEF QueueOutreach
    <3> QED
      BY <2>2, <3>1, <3>2, <3>3
  <2>3. ASSUME NEW f \in Fans, CreatorSends(f)
        PROVE  \A e \in events' \ events : e.msg = 0
    BY <2>3 DEF CreatorSends
  <2> QED
    BY <2>1, <2>2, <2>3 DEF OutsideStep
<1> QED
  BY <1>1, <1>2, IdsStoredKept, ReplyUnchanged

\* The webhook thread matches stored ids only.
LEMMA WebhookIds ==
    ASSUME IInv, IdsStored, WebhookStep
    PROVE  IdsStored'
<1>1. /\ events' = events /\ accepted' = accepted
      /\ RowsOK /\ tx.matched \in SUBSET Messages
  BY IInvParts DEF WebhookStep, providerVars, WebhookOK
<1>2. ASSUME NEW e \in events, IngestReceived(e) \/ DeadLetterSent(e)
      PROVE  IdsStored'
  BY <1>1, <1>2, IdsStoredKept, ReplyUnchanged
     DEF IngestReceived, DeadLetterSent, InsertInbound, rowVars
<1>3. ASSUME NEW e \in events, BeginProjection(e)
      PROVE  IdsStored'
  <2>1. ASSUME NEW m \in MatchedReply(e)
        PROVE  m \in Messages /\ reply[m].id # 0
    <3>1. m \in Messages /\ e.kind = "sent" /\ e.msg = m /\ reply[m].id = e.try
      BY <2>1 DEF MatchedReply
    <3>2. [msg |-> e.msg, try |-> e.try] \in Requests
      BY <3>1, MessagesAssumption, IInvParts DEF IdsStored, ProviderOK
    <3> QED
      BY <3>1, <3>2 DEF Requests
  <2>2. tx'.matched = MatchedReply(e) /\ reply' = reply
    BY <1>3 DEF BeginProjection, rowVars
  <2> QED
    BY <1>1, <2>1, <2>2, IdsStoredKept, ReplyUnchanged
<1>4. CASE CommitProjection
  <2>1. tx'.matched = {}
    BY <1>4 DEF CommitProjection, NoTx
  <2>2. CASE reply' = reply
    BY <1>1, <2>1, <2>2, IdsStoredKept, ReplyUnchanged
  <2>3. ASSUME NEW rows, NEW status, NEW confirmed, Cancel(rows, status, confirmed)
        PROVE  IdsStored'
    BY <1>1, <2>1, <2>3, IdsStoredKept, PermitsChanged DEF Cancel
  <2> QED
    BY <1>4, <2>2, <2>3 DEF CommitProjection, CommitSent, CommitDeleted
<1> QED
  BY <1>2, <1>3, <1>4 DEF WebhookStep

\* Time, the operator and the processes touch no id.
LEMMA OtherIds ==
    ASSUME IInv, IdsStored, OperatorStep \/ ClockStep \/ ProcessStep
    PROVE  IdsStored'
<1>1. /\ events' = events /\ accepted' = accepted /\ RowsOK
      /\ tx' = tx \/ tx' = NoTx
      /\ tx.matched \in SUBSET Messages
  BY IInvParts
     DEF OperatorStep, ClockStep, ProcessStep, Crash, StartStep, providerVars,
         webhookVars, WebhookOK
<1>2. \A m \in tx'.matched : m \in Messages /\ m \in tx.matched
  BY <1>1 DEF NoTx
<1>3. CASE reply' = reply
  BY <1>1, <1>2, <1>3, IdsStoredKept, ReplyUnchanged
<1>4. ASSUME NEW m \in Messages, PermitExpires(m)
      PROVE  IdsStored'
  BY <1>1, <1>2, <1>4, IdsStoredKept, PermitChanged DEF PermitExpires
<1> QED
  BY <1>3, <1>4
     DEF OperatorStep, ClockStep, BecomesAvailable, ProcessStep, Crash, StartStep,
         BeginRecovery, CommitRecovery, RecoverInterrupted, BeginBlocking,
         FinishStart, BlockPendingNonText, rowVars

-----------------------------------------------------------------------------
(* The invariant.                                                          *)

\* The initial state satisfies the invariant.
LEMMA InitOK == Init => IInv /\ IdsStored
<1> SUFFICES ASSUME Init PROVE IInv /\ IdsStored
  OBVIOUS
<1>1. RowsOK /\ AuthorityTypeOK
  BY RowsInitOK DEF Init
<1>2. WorkersOK
  BY MaxTriesAssumption DEF Init, WorkersOK, Idle, Steps, Drafts, NoDraft
<1>3. ProviderOK /\ ProcessOK
  BY DEF Init, ProviderOK, ProcessOK, Roles, NothingFound
<1>4. WebhookOK
  BY DEF Init, WebhookOK, NoTx
<1>5. OnlyAfterCommit
  BY DEF Init, OnlyAfterCommit, Idle, NothingFound
<1>6. IdsStored
  BY DEF Init, RowsInit, IdsStored, NoTx, NoReply
<1> QED
  BY <1>1, <1>2, <1>3, <1>4, <1>5, <1>6, IInvParts

\* Every step preserves it.
LEMMA NextOK == IInv /\ IdsStored /\ [Next]_vars => IInv' /\ IdsStored'
<1> SUFFICES ASSUME IInv, IdsStored, [Next]_vars PROVE IInv' /\ IdsStored'
  OBVIOUS
<1>1. CASE Next
  <2>1. IInv'
    BY <1>1, WorkerStepOK, OutsideStepOK, WebhookStepOK, OperatorStepOK,
       ClockStepOK, ProcessStepOK DEF Next
  <2>2. IdsStored'
    BY <1>1, WorkerIds, OutsideIds, WebhookIds, OtherIds DEF Next
  <2> QED
    BY <2>1, <2>2
<1>2. CASE UNCHANGED vars
  <2>1. IInv'
    BY <1>2 DEF vars, rowVars, authorityVars, workVars, providerVars, webhookVars,
                processVars, IInv, TypeOK, RowsTypeOK, AuthorityTypeOK, WorkersOK,
                ProviderOK, WebhookOK, ProcessOK, SentOnce, OnlyAfterCommit, Row
  <2>2. IdsStored'
    BY <1>2 DEF vars, rowVars, providerVars, webhookVars, IdsStored
  <2> QED
    BY <2>1, <2>2
<1> QED
  BY <1>1, <1>2

\* The invariant holds in every reachable state.
LEMMA Inductive == Spec => [](IInv /\ IdsStored)
BY InitOK, NextOK, PTL DEF Spec

\* The variables of every reachable state have their types: rows, policies,
\* workers, provider, webhook transaction and processes.
THEOREM TypeCorrect == Spec => []TypeOK
<1>1. IInv => TypeOK
  BY DEF IInv
<1> QED
  BY <1>1, Inductive, PTL

\* No reply is handed to the provider client twice, and no outbox row speaks of
\* an attempt that was not made.
THEOREM SentAtMostOnce == Spec => []SentOnce
<1>1. IInv => SentOnce
  BY DEF IInv
<1> QED
  BY <1>1, Inductive, PTL

\* Whatever a worker is sending, the provider is asked for or holds, and a
\* start-up takes for an interrupted send was committed as "sending" first.
THEOREM RequestsCommitted == Spec => []OnlyAfterCommit
<1>1. IInv => OnlyAfterCommit
  BY DEF IInv
<1> QED
  BY <1>1, Inductive, PTL

-----------------------------------------------------------------------------
(* The inbox and the outbox agree, while no process starts beside a running*)
(* one (MaxStarts = 0): recover_interrupted of a second process writes on  *)
(* rows the first one is working on.                                       *)
(*                                                                         *)
(* RowsAgree alone is not inductive.  A claim writes on the row it read    *)
(* (SelectedPending), a sent event confirms a row by the provider id it    *)
(* carries (IdsProcessed), and a start-up writes on what it has read       *)
(* (Booting).                                                              *)

\* A row being claimed is still pending, and no other worker is claiming it.
SelectedPending ==
    \A w \in Workers : worker[w].pc = "selected" =>
        /\ inbound[worker[w].msg] = "pending"
        /\ \A v \in Workers \ {w} : worker[v].pc = "selected" => worker[v].msg # worker[w].msg

\* A provider id is stored together with the mark in processed_platform_messages.
IdsProcessed == \A m \in Messages : reply[m].id # 0 => m \in processed

\* Only a service that is down starts, and nothing moves the rows meanwhile.
Booting ==
    /\ up => boot = "quiet"
    /\ boot = "recovering" =>
          /\ found.safe = Interrupted(NotAttempted)
          /\ found.delivered = Interrupted({"sent"})
          /\ found.uncertain = Interrupted({"sending"})

RowsStory == RowsAgree /\ IdsProcessed

AgreeInv == RowsStory /\ SelectedPending /\ Booting

\* A step that changes no status and stores no provider id.
LEMMA StoryUnchanged ==
    ASSUME RowsStory, UNCHANGED <<inbound, outbox, processed>>,
           \A m \in Messages : reply'[m].id = reply[m].id
    PROVE  RowsStory'
BY DEF RowsStory, RowsAgree, IdsProcessed

\* The claim of a pending row.
LEMMA ClaimStory ==
    ASSUME RowsOK, RowsStory, NEW m \in Messages, inbound[m] = "pending", ClaimInbound(m)
    PROVE  RowsStory'
BY DEF RowsOK, RowsTypeOK, RowsStory, RowsAgree, IdsProcessed, ClaimInbound, Terminal

\* Every transaction on one row.
LEMMA TransactionStory ==
    ASSUME RowsOK, RowsStory, NEW m \in Messages, NEW draft, NEW limit, NEW id,
           NEW status \in {"blocked_unsupported", "blocked_policy"}, NEW permit,
           \/ CompleteWithoutResponse(m) \/ ReleaseInbound(m, limit) \/ EnqueueOutbox(m, draft)
           \/ CloseUnsent(m, status, permit) \/ StartSending(m) \/ CompleteDelivery(m, id)
           \/ MarkProviderBlocked(m) \/ MarkDeliveryUnknown(m)
    PROVE  RowsStory'
<1> USE DEF RowsOK, RowsTypeOK, RowsStory, RowsAgree, IdsProcessed, Terminal
<1>1. CASE CompleteWithoutResponse(m)
      BY <1>1 DEF CompleteWithoutResponse
<1>2. CASE ReleaseInbound(m, limit)
      BY <1>2 DEF ReleaseInbound
<1>3. CASE EnqueueOutbox(m, draft)
      BY <1>3 DEF EnqueueOutbox
<1>4. CASE CloseUnsent(m, status, permit)
      BY <1>4 DEF CloseUnsent
<1>5. CASE StartSending(m)
      BY <1>5 DEF StartSending
<1>6. CASE CompleteDelivery(m, id)
      BY <1>6 DEF CompleteDelivery
<1>7. CASE MarkProviderBlocked(m)
      BY <1>7 DEF MarkProviderBlocked
<1>8. CASE MarkDeliveryUnknown(m)
      BY <1>8 DEF MarkDeliveryUnknown
<1> QED
    BY <1>1, <1>2, <1>3, <1>4, <1>5, <1>6, <1>7, <1>8

\* A worker's step outside the claim leaves the claims of the others alone.
LEMMA ClaimsLeftAlone ==
    ASSUME WorkersOK, SelectedPending, NEW w \in Workers, NEW pc, pc # "selected", Moves(w, pc),
           RespectsLocks(Others(w))
    PROVE  SelectedPending'
<1> SUFFICES ASSUME NEW v \in Workers, worker'[v].pc = "selected"
             PROVE  /\ inbound'[worker'[v].msg] = "pending"
                    /\ \A u \in Workers \ {v} :
                          worker'[u].pc = "selected" => worker'[u].msg # worker'[v].msg
    BY DEF SelectedPending
<1>1. v # w /\ worker'[v] = worker[v]
      BY DEF Moves
<1>2. \A u \in Workers : worker'[u].pc = "selected" => worker'[u] = worker[u]
      BY DEF Moves
<1>3. inbound'[worker[v].msg] = inbound[worker[v].msg]
      BY <1>1 DEF RespectsLocks, LockedBy, Others
<1> QED
    BY <1>1, <1>2, <1>3 DEF SelectedPending

\* The worker's steps.
LEMMA WorkerStory ==
    ASSUME IInv, AgreeInv, NEW w \in Workers, WorkerStep(w)
    PROVE  RowsStory' /\ SelectedPending'
<1> RowsOK /\ WorkersOK /\ RowsStory /\ SelectedPending
    BY IInvParts DEF AgreeInv
<1>r. worker[w].pc # "idle" => Row(w) \in Messages
      BY BusyRow
<1>f. found' = found
      BY DEF WorkerStep, processVars
<1>1. CASE ClaimStep(w)
  <2>1. /\ worker[w].pc = "selected" /\ ClaimInbound(Row(w))
        /\ worker' = [worker EXCEPT ![w].pc = "claimed"]
        BY <1>1 DEF ClaimStep, CommitClaim, At, Goto
  <2>2. inbound[Row(w)] = "pending"
        BY <2>1 DEF SelectedPending, Row
  <2>3. RowsStory'
        BY <1>r, <2>1, <2>2, ClaimStory
  <2>4. /\ \A v \in Workers : worker'[v].pc = "selected" => v # w /\ worker'[v] = worker[v]
        /\ \A m \in Messages : m # Row(w) => inbound'[m] = inbound[m]
        BY <1>r, <2>1 DEF WorkersOK, ClaimInbound, RowsOK, RowsTypeOK
  <2>5. SelectedPending'
    <3> SUFFICES ASSUME NEW v \in Workers, worker'[v].pc = "selected"
                 PROVE  /\ inbound'[worker'[v].msg] = "pending"
                        /\ \A u \in Workers \ {v} :
                              worker'[u].pc = "selected" => worker'[u].msg # worker'[v].msg
        BY DEF SelectedPending
    <3>1. worker[v].pc = "selected" /\ worker[v].msg # Row(w) /\ worker[v].msg \in Messages
          BY <2>1, <2>4, BusyRow DEF SelectedPending, Row
    <3> QED
        BY <2>4, <3>1 DEF SelectedPending
  <2> QED
      BY <2>3, <2>5
<1>2. CASE SelectInbound(w) /\ ReplyStep(w)
  <2>1. PICK m \in Messages :
           /\ FirstClaimable(m, LockedBy(Workers, "selected"))
           /\ worker' = [worker EXCEPT ![w].pc = "selected", ![w].msg = m]
        BY <1>2 DEF SelectInbound
  <2>2. worker'[w].msg = m /\ \A v \in Workers \ {w} : worker'[v] = worker[v]
        BY <2>1 DEF WorkersOK
  <2>3. UNCHANGED rowVars /\ inbound[m] = "pending"
        BY <1>2, <2>1 DEF SelectInbound, FirstClaimable, Claimable
  <2>4. \A v \in Workers : worker[v].pc = "selected" => worker[v].msg # m
        BY <2>1 DEF FirstClaimable, LockedBy
  <2>5. SelectedPending'
        BY <2>2, <2>3, <2>4 DEF SelectedPending, rowVars
  <2> QED
      BY <2>3, <2>5, StoryUnchanged DEF rowVars
<1>3. CASE ReplyStep(w) /\ ~SelectInbound(w)
  <2>1. PICK pc : Moves(w, pc) /\ pc # "selected"
    <3>1. worker[w].pc \notin {"idle", "awaiting"}
          BY <1>3 DEF ReplyStep, At, LoadOutbox, Decline, PrepareReply, CommitOutbox,
                 DiscardSuperseded, BlockUnsupported, RefusePermit, LosePermit, GrantPermit,
                 BeginSend, ProcessingFails
    <3>2. CASE Finish(w)
          BY <3>2, FinishMoves
    <3>3. CASE \E pc \in {"preparing", "permit", "vet", "granted", "posting"} :
                   Goto(w, pc) \/ Continue(w, pc)
          BY <3>1, <3>3, GotoMoves, ContinueMoves DEF Steps
    <3>4. CASE PrepareReply(w)
      <4>1. PICK kind \in ReplyKinds, role \in Roles :
               worker' = [worker EXCEPT
                     ![w].pc = "enqueue",
                     ![w].draft = [kind |-> kind, role |-> role,
                                   version |-> policy[FanOf[Row(w)]].version]]
            BY <3>4 DEF PrepareReply
      <4>2. WorkersOK'
            BY <3>4, PrepareReplyQuiet DEF Quiet, Moves
      <4>3. Moves(w, "enqueue")
            BY <4>1, <4>2 DEF WorkersOK, Moves, Sending
      <4> QED
          BY <4>3
    <3> QED
        BY <1>3, <3>2, <3>3, <3>4 DEF ReplyStep, LoadOutbox, Decline, CommitOutbox,
               DiscardSuperseded, BlockUnsupported, RefusePermit, LosePermit, GrantPermit,
               BeginSend, ProcessingFails
  <2>2. SelectedPending'
        BY <1>3, <2>1, ClaimsLeftAlone DEF ReplyStep
  <2>3. Row(w) \in Messages
        BY <1>r, <1>3 DEF ReplyStep, At, LoadOutbox, Decline, PrepareReply, CommitOutbox,
               DiscardSuperseded, BlockUnsupported, RefusePermit, LosePermit, GrantPermit,
               BeginSend, ProcessingFails
  <2>4. CASE UNCHANGED rowVars
        BY <2>2, <2>4, StoryUnchanged DEF rowVars
  <2>5. CASE \/ Decline(w) \/ CommitOutbox(w) \/ BlockUnsupported(w) \/ RefusePermit(w)
             \/ BeginSend(w) \/ (ProcessingFails(w) /\ ~UNCHANGED rowVars)
    <3>1. \E limit \in {1, MaxAttempts} :
             \/ CompleteWithoutResponse(Row(w)) \/ ReleaseInbound(Row(w), limit)
             \/ EnqueueOutbox(Row(w), worker[w].draft)
             \/ CloseUnsent(Row(w), "blocked_unsupported", reply[Row(w)].permit)
             \/ CloseUnsent(Row(w), "blocked_policy", "revoked") \/ StartSending(Row(w))
             \/ MarkDeliveryUnknown(Row(w))
          BY <2>5 DEF Decline, CommitOutbox, BlockUnsupported, CompleteUnsupported, RefusePermit,
                 RejectSend, BeginSend, ProcessingFails
    <3> QED
        BY <2>2, <2>3, <3>1, TransactionStory
  <2> QED
      BY <1>3, <2>4, <2>5 DEF ReplyStep, LoadOutbox, PrepareReply, DiscardSuperseded, LosePermit,
             GrantPermit
<1>4. CASE SendStep(w)
  <2>1. PICK pc : Moves(w, pc) /\ pc # "selected"
    <3>1. CASE Finish(w)
          BY <3>1, FinishMoves
    <3>2. CASE IssueRequest(w) \/ RetryRequest(w)
      <4>1. WorkersOK'
            BY <1>f, <3>2, PostOK
      <4>2. Moves(w, "awaiting")
            BY <3>2, <4>1 DEF IssueRequest, RetryRequest, Post, WorkersOK, Moves, Sending
      <4> QED
          BY <4>2
    <3> QED
        BY <1>4, <3>1, <3>2 DEF SendStep, ConfirmDelivery, RefuseDelivery, GiveUp,
               OutcomeUnrecorded
  <2>2. SelectedPending'
        BY <1>4, <2>1, ClaimsLeftAlone DEF SendStep
  <2>3. Row(w) \in Messages
        BY <1>r, <1>4 DEF SendStep, At, IssueRequest, RetryRequest, ConfirmDelivery,
               RefuseDelivery, GiveUp, OutcomeUnrecorded
  <2>4. CASE UNCHANGED rowVars
        BY <2>2, <2>4, StoryUnchanged DEF rowVars
  <2>5. CASE ConfirmDelivery(w) \/ RefuseDelivery(w) \/ GiveUp(w)
    <3>1. \/ CompleteDelivery(Row(w), worker[w].tries) \/ MarkProviderBlocked(Row(w))
          \/ MarkDeliveryUnknown(Row(w))
          BY <2>5 DEF ConfirmDelivery, RefuseDelivery, GiveUp
    <3> QED
        BY <2>2, <2>3, <3>1, TransactionStory
  <2> QED
      BY <1>4, <2>4, <2>5 DEF SendStep, IssueRequest, RetryRequest, Post, OutcomeUnrecorded
<1>5. CASE OptOutStep(w)
  <2>1. UNCHANGED rowVars /\ worker[w].pc = "preparing" /\ Goto(w, "declined")
        BY <1>5 DEF OptOutStep, RecordOptOut, At
  <2>2. Moves(w, "declined")
        BY <2>1, GotoMoves DEF Steps
  <2>3. SelectedPending'
        BY <2>1, <2>2 DEF Moves, SelectedPending, rowVars
  <2> QED
      BY <2>1, <2>3, StoryUnchanged DEF rowVars
<1> QED
    BY <1>1, <1>2, <1>3, <1>4, <1>5 DEF WorkerStep

\* The webhooks.  A creator's message confirms rows the inbox has marked.
LEMMA CommitSentStory ==
    ASSUME IInv, IdsStored, AgreeInv, NEW e \in tx.event, CommitSent(e),
           processed' = processed
    PROVE  RowsStory'
<1> RowsOK /\ RowsStory /\ tx.matched \subseteq Messages
    BY IInvParts DEF AgreeInv, WebhookOK
<1>1. \A m \in tx.matched : m \in processed
      BY DEF IdsStored, RowsStory, IdsProcessed
<1>2. PICK covered \in SUBSET Messages :
         /\ \A m \in covered : inbound[m] \in Nonterminal
         /\ Complete(covered \cup tx.matched)
      BY DEF CommitSent
<1>3. \A m \in Messages :
         /\ inbound'[m] = IF m \in covered \cup tx.matched THEN "completed" ELSE inbound[m]
         /\ outbox'[m] = IF m \in tx.matched THEN "sent"
                         ELSE IF m \in tx.ids \ tx.matched THEN "cancelled_stale" ELSE outbox[m]
         /\ reply'[m].id = reply[m].id
      BY <1>2 DEF CommitSent, Cancel, Complete, RowsOK, RowsTypeOK, Replies
<1>4. IdsProcessed'
      BY <1>3 DEF RowsStory, IdsProcessed
<1>5. RowsAgree'
      BY <1>1, <1>2, <1>3 DEF RowsStory, RowsAgree, Nonterminal, Terminal
<1> QED
    BY <1>4, <1>5 DEF RowsStory

LEMMA CommitDeletedStory ==
    ASSUME IInv, AgreeInv, NEW e \in tx.event, CommitDeleted(e), processed' = processed
    PROVE  RowsStory'
<1> RowsOK /\ RowsStory
    BY IInvParts DEF AgreeInv
<1>1. CASE tx.newer
      BY <1>1, StoryUnchanged DEF CommitDeleted
<1>2. CASE ~tx.newer
  <2>1. PICK rows : Cancel({m \in rows : outbox[m] = "pending"}, "cancelled_deleted", {})
        BY <1>2 DEF CommitDeleted
  <2>2. \A m \in Messages :
           /\ inbound'[m] = inbound[m]
              \/ (inbound'[m] = "completed" /\ inbound[m] \in Nonterminal)
           /\ outbox'[m] = outbox[m] \/ outbox'[m] = "cancelled_deleted"
           /\ reply'[m].id = reply[m].id
        BY <1>2, <2>1 DEF CommitDeleted, Cancel, Complete, RowsOK, RowsTypeOK, Replies
  <2>3. IdsProcessed'
        BY <2>2 DEF RowsStory, IdsProcessed
  <2>4. RowsAgree'
        BY <2>2 DEF RowsStory, RowsAgree, Nonterminal, Terminal
  <2> QED
      BY <2>3, <2>4 DEF RowsStory
<1> QED
    BY <1>1, <1>2

\* A row that enters the inbox has no outbox row and was never processed.
LEMMA InsertStory ==
    ASSUME RowsOK, RowsStory, NEW m, NEW now, InsertInbound(m, now)
    PROVE  RowsStory'
<1>1. /\ UNCHANGED <<outbox, processed, reply>>
      /\ \A n \in Messages : inbound'[n] = inbound[n] \/ inbound[n] = "absent"
      BY DEF InsertInbound, RowsOK, RowsTypeOK
<1> QED
    BY <1>1 DEF RowsStory, RowsAgree, IdsProcessed, Terminal

\* Where every writer waits for the claims, they stand.
LEMMA ClaimsStand ==
    ASSUME WorkersOK, SelectedPending, worker' = worker, RespectsLocks(Workers)
    PROVE  SelectedPending'
BY DEF RespectsLocks, LockedBy, SelectedPending

LEMMA WebhookStory ==
    ASSUME IInv, IdsStored, AgreeInv, WebhookStep
    PROVE  RowsStory' /\ SelectedPending'
<1> RowsOK /\ WorkersOK /\ RowsStory /\ SelectedPending
    BY IInvParts DEF AgreeInv
<1>1. SelectedPending'
      BY ClaimsStand DEF WebhookStep, workVars
<1>2. ASSUME NEW e, IngestReceived(e) PROVE RowsStory'
      BY <1>2, InsertStory, StoryUnchanged DEF IngestReceived, rowVars
<1>3. ASSUME NEW e, BeginProjection(e) \/ DeadLetterSent(e) PROVE RowsStory'
      BY <1>3, StoryUnchanged DEF BeginProjection, DeadLetterSent, rowVars
<1>4. CASE CommitProjection
  <2>1. PICK e \in tx.event : CommitSent(e) \/ CommitDeleted(e)
        BY <1>4 DEF CommitProjection
  <2>2. processed' = processed
        BY <1>4 DEF CommitProjection
  <2>3. CASE CommitSent(e)
        BY <1>1, <2>2, <2>3, CommitSentStory
  <2>4. CASE CommitDeleted(e)
        BY <1>1, <2>2, <2>4, CommitDeletedStory
  <2> QED
      BY <2>1, <2>3, <2>4
<1> QED
    BY <1>1, <1>2, <1>3, <1>4 DEF WebhookStep

\* The rest of the world: nothing there changes the status of a row.
LEMMA OutsideStory ==
    ASSUME IInv, AgreeInv, OutsideStep \/ OperatorStep \/ ClockStep
    PROVE  RowsStory' /\ SelectedPending'
<1> RowsOK /\ WorkersOK /\ RowsStory /\ SelectedPending
    BY IInvParts DEF AgreeInv
<1>1. worker' = worker
      BY DEF OutsideStep, OperatorStep, ClockStep, workVars
<1>2. RowsStory'
  <2>1. ASSUME NEW m, QueueOutreach(m) PROVE RowsStory'
        BY <2>1, InsertStory DEF QueueOutreach
  <2>2. ASSUME NEW m \in Messages, BecomesAvailable(m) \/ PermitExpires(m) PROVE RowsStory'
    <3>1. CASE BecomesAvailable(m)
          BY <3>1, StoryUnchanged DEF BecomesAvailable, RowsOK, RowsTypeOK, Replies
    <3>2. CASE PermitExpires(m)
          BY <3>2, StoryUnchanged DEF PermitExpires, RowsOK, RowsTypeOK, Replies
    <3> QED
        BY <2>2, <3>1, <3>2
  <2>3. CASE UNCHANGED rowVars
        BY <2>3, StoryUnchanged DEF rowVars
  <2> QED
      BY <2>1, <2>2, <2>3 DEF OutsideStep, OperatorStep, ClockStep, FanWrites, FanDeletes,
             CreatorSends, ProviderAccepts
<1>3. \A m \in Messages : inbound[m] = "pending" => inbound'[m] = "pending"
  <2>1. ASSUME NEW m, QueueOutreach(m)
        PROVE  \A n \in Messages : inbound'[n] = inbound[n] \/ inbound[n] = "absent"
        BY <2>1 DEF QueueOutreach, InsertInbound, RowsOK, RowsTypeOK
  <2>2. ASSUME ~\E m \in Messages : QueueOutreach(m) PROVE inbound' = inbound
        BY <2>2 DEF OutsideStep, OperatorStep, ClockStep, FanWrites, FanDeletes,
             CreatorSends, ProviderAccepts, BecomesAvailable, PermitExpires, rowVars
  <2> QED
      BY <2>1, <2>2
<1>4. \A w \in Workers : worker[w].pc = "selected" => worker[w].msg \in Messages
      BY BusyRow DEF Row
<1> QED
    BY <1>1, <1>2, <1>3, <1>4 DEF SelectedPending

\* A service that starts alone.
LEMMA StartStory ==
    ASSUME IInv, AgreeInv, MaxStarts = 0, ProcessStep
    PROVE  AgreeInv'
<1> RowsOK /\ WorkersOK /\ RowsStory /\ SelectedPending /\ Booting /\ ProcessOK
    BY IInvParts DEF AgreeInv
<1>1. CASE Crash
  <2>1. UNCHANGED rowVars /\ up' = FALSE /\ boot' = "quiet" /\ worker' = [w \in Workers |-> Idle]
        BY <1>1 DEF Crash
  <2>2. SelectedPending' /\ Booting'
        BY <2>1 DEF SelectedPending, Idle, Booting
  <2> QED
      BY <2>1, <2>2, StoryUnchanged DEF rowVars, AgreeInv
<1>2. CASE StartStep
  <2>1. SelectedPending'
        BY <1>2, ClaimsStand DEF StartStep, workVars
  <2>2. CASE BeginRecovery
    <3>1. ~up /\ ~up'
          BY <2>2 DEF BeginRecovery, ProcessOK
    <3>2. UNCHANGED rowVars /\ boot' = "recovering"
          BY <2>2 DEF BeginRecovery
    <3>3. Booting'
      <4>1. /\ found'.safe = Interrupted(NotAttempted)
            /\ found'.delivered = Interrupted({"sent"})
            /\ found'.uncertain = Interrupted({"sending"})
            BY <2>2 DEF BeginRecovery, NothingFound
      <4> QED
          BY <3>1, <3>2, <4>1 DEF Booting, Interrupted, rowVars
    <3> QED
        BY <2>1, <3>2, <3>3, StoryUnchanged DEF rowVars, AgreeInv
  <2>3. CASE CommitRecovery
    <3>1. /\ RecoverInterrupted(found.safe, found.delivered, found.uncertain)
          /\ found.safe = Interrupted(NotAttempted) /\ found.delivered = Interrupted({"sent"})
          /\ found.uncertain = Interrupted({"sending"}) /\ ~up
          /\ boot' = "recovered" /\ up' = up
          BY <2>3 DEF CommitRecovery, Booting
    <3>2. Interrupted({"sent"}) = {}
          BY DEF RowsStory, RowsAgree, Interrupted
    <3>3. \A m \in Messages :
             /\ inbound'[m] = IF m \in Interrupted(NotAttempted) THEN "pending"
                              ELSE IF m \in Interrupted({"sending"}) THEN "failed" ELSE inbound[m]
             /\ outbox'[m] = IF m \in Interrupted({"sending"}) THEN "delivery_unknown" ELSE outbox[m]
      <4>1. found.delivered = {} /\ \A m \in Messages : ~(m \in found.safe /\ m \in found.uncertain)
            BY <3>1, <3>2 DEF Interrupted, NotAttempted
      <4>2. \A m \in Messages :
               /\ m \in found.safe => inbound'[m] = "pending"
               /\ m \in found.uncertain => inbound'[m] = "failed"
               /\ m \notin found.safe \cup found.uncertain => inbound'[m] = inbound[m]
               /\ outbox'[m] = IF m \in found.uncertain THEN "delivery_unknown" ELSE outbox[m]
            BY <3>1, <4>1 DEF RecoverInterrupted
      <4> QED
          BY <3>1, <4>2
    <3>4. UNCHANGED <<processed, reply>>
      <4>1. found.delivered = {}
            BY <3>1, <3>2
      <4>2. processed' = processed \cup found.delivered /\ reply' = reply
            BY <3>1 DEF RecoverInterrupted
      <4> QED
          BY <4>1, <4>2
    <3>5. RowsAgree'
          BY <3>3, <3>4 DEF RowsStory, RowsAgree, Interrupted, NotAttempted, Terminal
    <3>6. IdsProcessed' /\ Booting'
          BY <3>1, <3>4 DEF RowsStory, IdsProcessed, Booting
    <3> QED
        BY <2>1, <3>5, <3>6 DEF AgreeInv, RowsStory
  <2>4. CASE BeginBlocking
        BY <2>1, <2>4, StoryUnchanged DEF BeginBlocking, Booting, rowVars, AgreeInv
  <2>5. CASE FinishStart
    <3>1. BlockPendingNonText(found.stale) /\ boot' = "quiet" /\ found.stale \subseteq Messages
          BY <2>5 DEF FinishStart, ProcessOK
    <3>2. /\ \A m \in Messages :
                /\ inbound'[m] = IF m \in found.stale THEN "completed" ELSE inbound[m]
                /\ outbox'[m] = IF m \in found.stale THEN "blocked_unsupported" ELSE outbox[m]
          /\ processed' = processed \cup found.stale /\ reply' = reply
          BY <3>1 DEF BlockPendingNonText
    <3>3. RowsAgree'
          BY <3>2 DEF RowsStory, RowsAgree, Terminal
    <3>4. IdsProcessed' /\ Booting'
          BY <3>1, <3>2 DEF RowsStory, IdsProcessed, Booting
    <3> QED
        BY <2>1, <3>3, <3>4 DEF AgreeInv, RowsStory
  <2> QED
      BY <1>2, <2>2, <2>3, <2>4, <2>5 DEF StartStep
<1> QED
    BY <1>1, <1>2 DEF ProcessStep

\* Between two steps of a start nothing else moves the rows.
LEMMA BootingKept ==
    ASSUME IInv, AgreeInv,
           (\E w \in Workers : WorkerStep(w)) \/ OutsideStep \/ WebhookStep \/ OperatorStep \/ ClockStep
    PROVE  Booting'
<1>1. UNCHANGED <<up, boot, found>>
      BY DEF WorkerStep, OutsideStep, WebhookStep, OperatorStep, ClockStep, processVars
<1>2. CASE up
      BY <1>1, <1>2 DEF AgreeInv, Booting
<1>3. CASE ~up
  <2>1. \A w \in Workers : ~WorkerStep(w)
        BY <1>3 DEF WorkerStep, ClaimStep, CommitClaim, ReplyStep, SendStep, OptOutStep, RecordOptOut,
               At, SelectInbound, LoadOutbox, Decline, PrepareReply, CommitOutbox,
               DiscardSuperseded, BlockUnsupported, RefusePermit, LosePermit, GrantPermit,
               BeginSend, ProcessingFails, IssueRequest, RetryRequest, ConfirmDelivery,
               RefuseDelivery, GiveUp, OutcomeUnrecorded
  <2>2. ~WebhookStep /\ ~OperatorStep /\ \A m \in Messages : ~QueueOutreach(m)
        BY <1>3 DEF WebhookStep, IngestReceived, BeginProjection, DeadLetterSent,
               CommitProjection, OperatorStep, QueueOutreach
  <2>3. UNCHANGED <<inbound, outbox>>
        BY <2>1, <2>2 DEF OutsideStep, ClockStep, FanWrites, FanDeletes, CreatorSends,
               ProviderAccepts, BecomesAvailable, PermitExpires, rowVars
  <2> QED
      BY <1>1, <2>3 DEF AgreeInv, Booting, Interrupted
<1> QED
    BY <1>2, <1>3

LEMMA AgreeInit == Init => AgreeInv
BY DEF Init, RowsInit, AgreeInv, RowsStory, RowsAgree, IdsProcessed, NoReply, SelectedPending, Idle,
       Booting

LEMMA AgreeNext ==
    ASSUME MaxStarts = 0
    PROVE  IInv /\ IdsStored /\ AgreeInv /\ [Next]_vars => AgreeInv'
<1> SUFFICES ASSUME IInv, IdsStored, AgreeInv, [Next]_vars PROVE AgreeInv'
    OBVIOUS
<1>1. CASE (\E w \in Workers : WorkerStep(w)) \/ OutsideStep \/ WebhookStep \/ OperatorStep \/ ClockStep
  <2>1. RowsStory' /\ SelectedPending'
        BY <1>1, WorkerStory, WebhookStory, OutsideStory
  <2>2. Booting'
        BY <1>1, BootingKept
  <2> QED
      BY <2>1, <2>2 DEF AgreeInv
<1>2. CASE ProcessStep
      BY <1>2, StartStory
<1>3. CASE UNCHANGED vars
      BY <1>3 DEF vars, rowVars, workVars, processVars, AgreeInv, RowsStory, RowsAgree,
         IdsProcessed, SelectedPending, Booting, Interrupted
<1> QED
    BY <1>1, <1>2, <1>3 DEF Next

\* Where no process starts beside a running one, the inbox and the outbox tell
\* the same story about every row, through crashes, restarts and webhooks
\* (pipeline.py, recover_interrupted, ingest_sent).
THEOREM RowsTellOneStory ==
    ASSUME MaxStarts = 0
    PROVE  Spec => []RowsAgree
<1>1. AgreeInv => RowsAgree
      BY DEF AgreeInv, RowsStory
<1>2. Init => AgreeInv
      BY AgreeInit
<1>3. IInv /\ IdsStored /\ AgreeInv /\ [Next]_vars => AgreeInv'
      BY AgreeNext
<1> QED
    BY <1>1, <1>2, <1>3, Inductive, PTL DEF Spec

-----------------------------------------------------------------------------
(* What is never done any more after a takeover by the creator, and after  *)
(* an opt-out.                                                             *)

\* A row without a reply stays without one unless it is being processed, and
\* does not come back to work.
Onward ==
    \A m \in Messages :
        /\ outbox'[m] = "none" =>
              outbox[m] = "none" /\ (inbound'[m] \in Nonterminal => inbound[m] \in Nonterminal)
        /\ outbox[m] = "none" /\ inbound[m] # "processing" => outbox'[m] = "none"

\* The rows a creator's message covers are done, or have a reply already; the
\* events tell when what they report happened.
Takeover ==
    /\ \A m \in Messages :
          m <= lastCreator[FanOf[m]] /\ outbox[m] = "none" => inbound[m] \notin Nonterminal
    /\ \A f \in Fans : lastCreator[f] <= posted
    /\ \A e \in events :
          /\ e.at <= posted
          /\ e.kind = "received" => e.msg \in Messages /\ e.fan = FanOf[e.msg] /\ e.at = e.msg
    /\ tx.event \subseteq events
    /\ \A m \in tx.ids \cup found.stale : outbox[m] # "none"

\* The transaction a worker runs on its row.
WorkerWrites(w) ==
    \/ CompleteWithoutResponse(Row(w))
    \/ \E limit \in {1, MaxAttempts} : ReleaseInbound(Row(w), limit)
    \/ EnqueueOutbox(Row(w), worker[w].draft)
    \/ CloseUnsent(Row(w), "blocked_unsupported", reply[Row(w)].permit)
    \/ CloseUnsent(Row(w), "blocked_policy", "revoked")
    \/ StartSending(Row(w)) \/ MarkDeliveryUnknown(Row(w)) \/ MarkProviderBlocked(Row(w))
    \/ CompleteDelivery(Row(w), worker[w].tries)

LEMMA WorkerRows ==
    ASSUME WorkersOK, SelectedPending, NEW w \in Workers, WorkerStep(w), ~UNCHANGED rowVars
    PROVE  /\ Row(w) \in Messages
           /\ WorkerWrites(w) \/ (inbound[Row(w)] = "pending" /\ ClaimInbound(Row(w)))
<1>1. CASE ClaimStep(w)
  <2>1. worker[w].pc = "selected" /\ ClaimInbound(Row(w))
        BY <1>1 DEF ClaimStep, CommitClaim, At
  <2> QED
      BY <2>1, BusyRow DEF SelectedPending, Row
<1>2. CASE ReplyStep(w)
  <2>1. WorkerWrites(w) /\ worker[w].pc # "idle"
        BY <1>2 DEF ReplyStep, At, SelectInbound, LoadOutbox, Decline, PrepareReply, CommitOutbox,
               DiscardSuperseded, BlockUnsupported, CompleteUnsupported, RefusePermit, RejectSend,
               LosePermit, GrantPermit, BeginSend, ProcessingFails, WorkerWrites
  <2> QED
      BY <2>1, BusyRow
<1>3. CASE SendStep(w)
  <2>1. WorkerWrites(w) /\ worker[w].pc # "idle"
        BY <1>3 DEF SendStep, At, IssueRequest, RetryRequest, Post, ConfirmDelivery, RefuseDelivery,
               GiveUp, OutcomeUnrecorded, WorkerWrites
  <2> QED
      BY <2>1, BusyRow
<1>4. CASE OptOutStep(w)
      BY <1>4 DEF OptOutStep, RecordOptOut
<1> QED
    BY <1>1, <1>2, <1>3, <1>4 DEF WorkerStep

LEMMA OnwardUnchanged == ASSUME UNCHANGED <<inbound, outbox>> PROVE Onward
BY DEF Onward

LEMMA WorkerOnward ==
    ASSUME IInv, SelectedPending, NEW w \in Workers, WorkerStep(w)
    PROVE  Onward
<1> RowsOK /\ WorkersOK
    BY IInvParts
<1>1. CASE UNCHANGED rowVars
      BY <1>1, OnwardUnchanged DEF rowVars
<1>2. CASE ~UNCHANGED rowVars
  <2> DEFINE m == Row(w)
  <2>1. m \in Messages /\ (WorkerWrites(w) \/ (inbound[m] = "pending" /\ ClaimInbound(m)))
        BY <1>2, WorkerRows
  <2> HIDE DEF m
  <2>2. CASE inbound[m] = "pending" /\ ClaimInbound(m)
        BY <2>1, <2>2 DEF ClaimInbound, RowsOK, RowsTypeOK, Onward, Nonterminal
  <2>3. CASE WorkerWrites(w)
    <3>1. /\ \A n \in Messages \ {m} : inbound'[n] = inbound[n] /\ outbox'[n] = outbox[n]
          /\ \/ outbox'[m] = outbox[m]
                /\ (inbound'[m] \in Nonterminal => inbound[m] \in Nonterminal)
             \/ outbox'[m] # "none" /\ (outbox[m] # "none" \/ inbound[m] = "processing")
          BY <2>1, <2>3 DEF m, WorkerWrites, CompleteWithoutResponse, ReleaseInbound, EnqueueOutbox,
                 CloseUnsent, StartSending, MarkDeliveryUnknown, MarkProviderBlocked,
                 CompleteDelivery, RowsOK, RowsTypeOK, Nonterminal
    <3> QED
        BY <2>1, <3>1 DEF Onward
  <2> QED
      BY <2>1, <2>2, <2>3
<1> QED
    BY <1>1, <1>2

\* An inserted row had no row before; it is younger than the creator's last
\* message.
LEMMA InsertOnward ==
    ASSUME RowsOK, NEW m \in Messages, NEW now, InsertInbound(m, now)
    PROVE  /\ outbox' = outbox
           /\ \A n \in Messages \ {m} : inbound'[n] = inbound[n]
           /\ inbound[m] # "absent" => inbound' = inbound
BY DEF InsertInbound, RowsOK, RowsTypeOK

\* Webhooks, except for an insertion.
LEMMA ProjectionOnward ==
    ASSUME IInv, IdsStored, Takeover, CommitProjection
    PROVE  Onward
<1> RowsOK /\ tx.matched \subseteq Messages /\ tx.ids \subseteq Messages
    BY IInvParts DEF WebhookOK
<1>1. PICK e \in tx.event : CommitSent(e) \/ CommitDeleted(e)
      BY DEF CommitProjection
<1>2. \A m \in tx.matched : outbox[m] # "none"
  <2>1. \A m \in tx.matched : m \in Messages /\ sendAttempts[m] = 1
        BY StoredAttempted
  <2>2. \A m \in Messages : sendAttempts[m] = 1 => outbox[m] # "none"
        BY DEF RowsOK, SentOnce, NotAttempted
  <2> QED
      BY <2>1, <2>2
<1>3. CASE CommitSent(e)
  <2>1. PICK covered \in SUBSET Messages : Complete(covered \cup tx.matched)
        BY <1>3 DEF CommitSent
  <2>2. \A m \in Messages :
           /\ inbound'[m] = inbound[m] \/ inbound'[m] = "completed"
           /\ outbox'[m] = IF m \in tx.matched THEN "sent"
                           ELSE IF m \in tx.ids \ tx.matched THEN "cancelled_stale" ELSE outbox[m]
        BY <1>3, <2>1 DEF CommitSent, Cancel, Complete
  <2> QED
      BY <1>2, <2>2 DEF Onward, Takeover, Nonterminal
<1>4. CASE CommitDeleted(e)
  <2>1. CASE tx.newer
        BY <1>4, <2>1, OnwardUnchanged DEF CommitDeleted
  <2>2. CASE ~tx.newer
    <3>1. PICK rows : Cancel({m \in rows : outbox[m] = "pending"}, "cancelled_deleted", {})
          BY <1>4, <2>2 DEF CommitDeleted
    <3>2. \A m \in Messages :
             /\ inbound'[m] = inbound[m] \/ inbound'[m] = "completed"
             /\ outbox'[m] = outbox[m] \/ (outbox'[m] = "cancelled_deleted" /\ outbox[m] = "pending")
          BY <1>4, <2>2, <3>1 DEF CommitDeleted, Cancel, Complete
    <3> QED
        BY <3>2 DEF Onward, Nonterminal
  <2> QED
      BY <2>1, <2>2
<1> QED
    BY <1>1, <1>3, <1>4

\* A start-up.
LEMMA StartOnward ==
    ASSUME IInv, AgreeInv, Takeover, ProcessStep
    PROVE  Onward
<1> RowsOK /\ ProcessOK /\ Booting
    BY IInvParts DEF AgreeInv
<1>1. CASE Crash \/ BeginRecovery \/ BeginBlocking
      BY <1>1, OnwardUnchanged DEF Crash, BeginRecovery, BeginBlocking, rowVars
<1>2. CASE CommitRecovery
  <2>1. \A m \in Messages :
           /\ m \in found.safe \cup found.delivered \cup found.uncertain => inbound[m] = "processing"
           /\ m \in found.uncertain => outbox[m] = "sending"
        BY <1>2 DEF CommitRecovery, Booting, Interrupted
  <2>2. \A m \in Messages :
           /\ m \notin found.safe \cup found.delivered \cup found.uncertain => inbound'[m] = inbound[m]
           /\ outbox'[m] = IF m \in found.uncertain THEN "delivery_unknown" ELSE outbox[m]
        BY <1>2 DEF CommitRecovery, RecoverInterrupted
  <2> QED
      BY <2>1, <2>2 DEF Onward, Nonterminal
<1>3. CASE FinishStart
  <2>1. \A m \in Messages :
           /\ inbound'[m] = IF m \in found.stale THEN "completed" ELSE inbound[m]
           /\ outbox'[m] = IF m \in found.stale THEN "blocked_unsupported" ELSE outbox[m]
        BY <1>3 DEF FinishStart, BlockPendingNonText
  <2> QED
      BY <2>1 DEF Onward, Takeover, Nonterminal
<1> QED
    BY <1>1, <1>2, <1>3 DEF ProcessStep, StartStep

\* A step that inserts no row and projects no creator's message.
LEMMA TakeoverKept ==
    ASSUME IInv, Takeover, Onward, UNCHANGED lastCreator, posted' = posted,
           events' = events \/ \E e : events' = events \cup {e} /\ e.at <= posted /\ e.kind # "received",
           tx'.event \subseteq events', \A m \in tx'.ids \cup found'.stale : outbox[m] # "none",
           tx'.ids \cup found'.stale \subseteq Messages
    PROVE  Takeover'
<1>1. \A m \in tx'.ids \cup found'.stale : outbox'[m] # "none"
      BY DEF Onward
<1>2. \A m \in Messages :
         m <= lastCreator[FanOf[m]] /\ outbox'[m] = "none" => inbound'[m] \notin Nonterminal
      BY DEF Onward, Takeover
<1>3. \A e \in events' :
          /\ e.at <= posted
          /\ e.kind = "received" => e.msg \in Messages /\ e.fan = FanOf[e.msg] /\ e.at = e.msg
      BY DEF Takeover
<1> QED
    BY <1>1, <1>2, <1>3 DEF Takeover

LEMMA WorkerTakeover ==
    ASSUME IInv, AgreeInv, Takeover, NEW w \in Workers, WorkerStep(w)
    PROVE  Takeover' /\ Onward
<1>1. Onward
      BY WorkerOnward DEF AgreeInv
<1>2. UNCHANGED <<events, lastCreator, tx, found>>
      BY DEF WorkerStep, webhookVars, processVars
<1>3. posted' = posted
      BY DEF WorkerStep, ClaimStep, ReplyStep, SendStep, OptOutStep, providerVars, IssueRequest,
             RetryRequest, Post, ConfirmDelivery, RefuseDelivery, GiveUp, OutcomeUnrecorded
<1>4. tx.ids \cup found.stale \subseteq Messages
      BY IInvParts DEF WebhookOK, ProcessOK
<1> QED
    BY <1>1, <1>2, <1>3, <1>4, TakeoverKept DEF Takeover

\* What happens outside is younger than every message so far, or as young.
LEMMA OutsideTakeover ==
    ASSUME IInv, Takeover, OutsideStep
    PROVE  Takeover' /\ outbox' = outbox
<1> RowsOK /\ ProviderOK /\ WebhookOK /\ ProcessOK
    BY IInvParts
<1>1. UNCHANGED <<lastCreator, tx, found>> /\ tx.ids \cup found.stale \subseteq Messages
      BY DEF OutsideStep, webhookVars, processVars, WebhookOK, ProcessOK
<1>2. \A f \in Fans : lastCreator[f] \in Nat /\ posted \in Nat
      BY DEF WebhookOK, ProviderOK
<1>3. ASSUME NEW m \in Messages, FanWrites(m) PROVE Takeover' /\ outbox' = outbox
  <2>1. /\ m = posted + 1 /\ posted' = m /\ UNCHANGED rowVars
        /\ events' = events \cup {[kind |-> "received", fan |-> FanOf[m], msg |-> m, try |-> 0, at |-> m]}
        BY <1>3 DEF FanWrites
  <2>2. \A e \in events : e.at \in Nat
        BY DEF ProviderOK, Events
  <2>3. \A e \in events' :
           /\ e.at <= posted'
           /\ e.kind = "received" => e.msg \in Messages /\ e.fan = FanOf[e.msg] /\ e.at = e.msg
        BY <1>2, <2>1, <2>2, MessagesAssumption DEF ProviderOK, Takeover
  <2>4. \A f \in Fans : lastCreator[f] <= posted'
        BY <1>2, <2>1, MessagesAssumption DEF ProviderOK, Takeover
  <2> QED
      BY <1>1, <2>1, <2>3, <2>4 DEF Takeover, rowVars
<1>4. ASSUME NEW m \in Messages, QueueOutreach(m) PROVE Takeover' /\ outbox' = outbox
  <2>1. m = posted + 1 /\ posted' = m /\ events' = events /\ InsertInbound(m, TRUE)
        BY <1>4 DEF QueueOutreach
  <2>2. /\ outbox' = outbox /\ \A n \in Messages \ {m} : inbound'[n] = inbound[n]
        BY <2>1, InsertOnward
  <2>3. ~(m <= lastCreator[FanOf[m]])
    <3>1. FanOf[m] \in Fans
          BY FanOfAssumption
    <3> QED
        BY <1>2, <2>1, <3>1 DEF Takeover, ProviderOK
  <2>4. \A e \in events : e.at \in Nat
        BY DEF ProviderOK, Events
  <2>5. /\ \A e \in events : e.at <= posted'
        /\ \A f \in Fans : lastCreator[f] <= posted'
        BY <1>2, <2>1, <2>4, MessagesAssumption DEF ProviderOK, Takeover
  <2> QED
      BY <1>1, <2>1, <2>2, <2>3, <2>5 DEF Takeover
<1>5. ASSUME NEW m, NEW f, NEW r, FanDeletes(m) \/ CreatorSends(f) \/ ProviderAccepts(r)
      PROVE  Takeover' /\ outbox' = outbox
  <2>1. UNCHANGED rowVars /\ posted' = posted
        BY <1>5 DEF FanDeletes, CreatorSends, ProviderAccepts, providerVars
  <2>2. PICK e : events' = events \cup {e} /\ e.at = posted /\ e.kind \in {"deleted", "sent"}
    <3>1. CASE FanDeletes(m)
      <4> DEFINE e == [kind |-> "deleted", fan |-> FanOf[m], msg |-> m, try |-> 0, at |-> posted]
      <4>1. events' = events \cup {e} /\ e.at = posted /\ e.kind \in {"deleted", "sent"}
            BY <3>1 DEF FanDeletes
      <4> QED
          BY <4>1
    <3>2. CASE CreatorSends(f)
      <4> DEFINE e == [kind |-> "sent", fan |-> f, msg |-> 0, try |-> spent["sends"] + 1,
                       at |-> posted]
      <4>1. events' = events \cup {e} /\ e.at = posted /\ e.kind \in {"deleted", "sent"}
            BY <3>2 DEF CreatorSends
      <4> QED
          BY <4>1
    <3>3. CASE ProviderAccepts(r)
      <4> DEFINE e == [kind |-> "sent", fan |-> FanOf[r.msg], msg |-> r.msg, try |-> r.try,
                       at |-> posted]
      <4>1. events' = events \cup {e} /\ e.at = posted /\ e.kind \in {"deleted", "sent"}
            BY <3>3 DEF ProviderAccepts
      <4> QED
          BY <4>1
    <3> QED
        BY <1>5, <3>1, <3>2, <3>3
  <2>3. Onward
        BY <2>1, OnwardUnchanged DEF rowVars
  <2> QED
      BY <1>1, <1>2, <2>1, <2>2, <2>3, TakeoverKept DEF Takeover, rowVars, ProviderOK
<1> QED
    BY <1>3, <1>4, <1>5 DEF OutsideStep

\* A creator's message completes what it covers.
LEMMA CommitTakeover ==
    ASSUME IInv, IdsStored, Takeover, CommitProjection, posted' = posted, events' = events,
           found' = found
    PROVE  Takeover' /\ Onward
<1> RowsOK /\ ProviderOK /\ WebhookOK /\ ProcessOK
    BY IInvParts
<1>1. Onward
      BY ProjectionOnward
<1>2. PICK e \in tx.event : CommitSent(e) \/ CommitDeleted(e)
      BY DEF CommitProjection
<1>3. tx' = NoTx /\ found.stale \subseteq Messages
      BY DEF CommitProjection, ProcessOK
<1>4. CASE CommitDeleted(e)
  <2>1. lastCreator' = lastCreator
        BY <1>4 DEF CommitDeleted
  <2> QED
      BY <1>1, <1>3, <2>1, TakeoverKept DEF Takeover, NoTx
<1>5. CASE CommitSent(e)
  <2>1. e \in events /\ e.fan \in Fans /\ e.at \in Nat /\ e.at <= posted
        BY DEF WebhookOK, ProviderOK, Events, Takeover
  <2>2. /\ \A f \in Fans : lastCreator'[f] = IF f = e.fan /\ lastCreator[f] < e.at THEN e.at
                                               ELSE lastCreator[f]
        BY <1>5 DEF CommitSent, WebhookOK
  <2>3. \A m \in Messages :
           FanOf[m] = e.fan /\ m <= e.at /\ inbound[m] \in Nonterminal => inbound'[m] = "completed"
        BY <1>5 DEF CommitSent, Complete
  <2>4. \A m \in Messages :
           m <= lastCreator'[FanOf[m]] /\ outbox'[m] = "none" => inbound'[m] \notin Nonterminal
    <3> SUFFICES ASSUME NEW m \in Messages, m <= lastCreator'[FanOf[m]], outbox'[m] = "none",
                        inbound'[m] \in Nonterminal
                 PROVE  FALSE
        OBVIOUS
    <3>1. outbox[m] = "none" /\ inbound[m] \in Nonterminal
          BY <1>1 DEF Onward
    <3>2. FanOf[m] \in Fans
          BY FanOfAssumption
    <3>3. FanOf[m] = e.fan /\ m <= e.at
          BY <2>2, <3>1, <3>2 DEF Takeover
    <3> QED
        BY <2>3, <3>1, <3>3 DEF Nonterminal
  <2>5. \A f \in Fans : lastCreator'[f] <= posted
        BY <2>1, <2>2 DEF Takeover
  <2>6. \A m \in tx'.ids \cup found'.stale : outbox'[m] # "none"
        BY <1>1, <1>3 DEF Takeover, Onward, NoTx
  <2>7. tx'.event \subseteq events' /\ posted' = posted /\ events' = events
        BY <1>3 DEF NoTx
  <2>8. \A ev \in events' :
           /\ ev.at <= posted'
           /\ ev.kind = "received" =>
                 ev.msg \in Messages /\ ev.fan = FanOf[ev.msg] /\ ev.at = ev.msg
        BY <2>7 DEF Takeover
  <2>9. \A f \in Fans : lastCreator'[f] <= posted'
        BY <2>5, <2>7
  <2> QED
      BY <1>1, <2>4, <2>6, <2>7, <2>8, <2>9 DEF Takeover
<1> QED
    BY <1>2, <1>4, <1>5

LEMMA WebhookTakeover ==
    ASSUME IInv, IdsStored, Takeover, WebhookStep
    PROVE  /\ Takeover'
           /\ Onward \/ outbox' = outbox
<1> RowsOK /\ ProviderOK /\ WebhookOK /\ ProcessOK
    BY IInvParts
<1>1. posted' = posted /\ events' = events /\ found' = found
      BY DEF WebhookStep, providerVars, processVars
<1>2. tx.ids \cup found.stale \subseteq Messages
      BY DEF WebhookOK, ProcessOK
<1>3. ASSUME NEW e \in events, IngestReceived(e) PROVE Takeover' /\ outbox' = outbox
  <2>1. UNCHANGED <<lastCreator, tx>> /\ e.kind = "received"
        BY <1>3 DEF IngestReceived
  <2>2. CASE Superseded(e)
    <3>1. UNCHANGED <<inbound, outbox>>
          BY <1>3, <2>2 DEF IngestReceived, rowVars
    <3> QED
        BY <1>1, <1>2, <2>1, <3>1, OnwardUnchanged, TakeoverKept DEF Takeover
  <2>3. CASE ~Superseded(e)
    <3>1. /\ InsertInbound(e.msg, FALSE) /\ ~(lastCreator[e.fan] >= e.at)
          /\ e.msg \in Messages /\ e.fan = FanOf[e.msg] /\ e.at = e.msg
          BY <1>3, <2>1, <2>3 DEF IngestReceived, Superseded, Answered, Takeover
    <3>2. outbox' = outbox /\ \A n \in Messages \ {e.msg} : inbound'[n] = inbound[n]
          BY <3>1, InsertOnward
    <3>3. ~(e.msg <= lastCreator[FanOf[e.msg]])
          BY <3>1
    <3> QED
        BY <1>1, <2>1, <3>2, <3>3 DEF Takeover
  <2> QED
      BY <2>2, <2>3
<1>4. ASSUME NEW e \in events, BeginProjection(e) \/ DeadLetterSent(e)
      PROVE  Takeover' /\ outbox' = outbox
  <2>1. UNCHANGED <<inbound, outbox, lastCreator>>
        BY <1>4 DEF BeginProjection, DeadLetterSent, rowVars
  <2>2. /\ tx'.event \subseteq events /\ tx'.ids \subseteq Messages
        /\ \A m \in tx'.ids : outbox[m] # "none"
    <3>1. CASE BeginProjection(e)
          BY <3>1 DEF BeginProjection, PendingReplies
    <3>2. CASE DeadLetterSent(e)
          BY <1>2, <3>2 DEF DeadLetterSent, Takeover
    <3> QED
        BY <1>4, <3>1, <3>2
  <2> QED
      BY <1>1, <1>2, <2>1, <2>2, OnwardUnchanged, TakeoverKept DEF Takeover
<1>5. CASE CommitProjection
      BY <1>1, <1>5, CommitTakeover
<1> QED
    BY <1>3, <1>4, <1>5 DEF WebhookStep

LEMMA OtherTakeover ==
    ASSUME IInv, AgreeInv, Takeover, OperatorStep \/ ClockStep \/ ProcessStep
    PROVE  Takeover' /\ Onward
<1> RowsOK /\ ProviderOK /\ WebhookOK /\ ProcessOK
    BY IInvParts
<1>1. posted' = posted /\ events' = events /\ lastCreator' = lastCreator
      BY DEF OperatorStep, ClockStep, ProcessStep, Crash, StartStep, providerVars, webhookVars
<1>2. tx.ids \cup found.stale \subseteq Messages
      BY DEF WebhookOK, ProcessOK
<1>3. CASE OperatorStep \/ ClockStep
  <2>1. UNCHANGED <<tx, found, inbound, outbox>>
        BY <1>3 DEF OperatorStep, ClockStep, webhookVars, processVars, rowVars, BecomesAvailable,
               PermitExpires
  <2> QED
      BY <1>1, <1>2, <2>1, OnwardUnchanged, TakeoverKept DEF Takeover
<1>4. CASE ProcessStep
  <2>1. Onward
        BY <1>4, StartOnward
  <2>2. tx' = tx \/ tx' = NoTx
        BY <1>4 DEF ProcessStep, Crash, StartStep, webhookVars
  <2>4. found'.stale = {} \/ found'.stale = PendingNonText
    <3>1. NothingFound.stale = {} /\ [NothingFound EXCEPT !.stale = PendingNonText].stale = PendingNonText
          BY DEF NothingFound
    <3>2. CASE BeginRecovery
          BY <3>2 DEF BeginRecovery, NothingFound
    <3> QED
        BY <1>4, <3>1, <3>2 DEF ProcessStep, Crash, StartStep, CommitRecovery, BeginBlocking,
               FinishStart
  <2>3. /\ tx'.event \subseteq events /\ tx'.ids \cup found'.stale \subseteq Messages
        /\ \A m \in tx'.ids \cup found'.stale : outbox[m] # "none"
    <3>1. \A m \in PendingNonText : m \in Messages /\ outbox[m] # "none"
          BY DEF PendingNonText
    <3> QED
        BY <1>1, <1>2, <2>2, <2>4, <3>1 DEF NoTx, Takeover
  <2> QED
      BY <1>1, <2>1, <2>3, TakeoverKept
<1> QED
    BY <1>3, <1>4

LEMMA TakeoverInit == Init => Takeover
BY FanOfAssumption, MessagesAssumption
   DEF Init, RowsInit, Takeover, NoTx, NothingFound, Nonterminal

LEMMA TakeoverNext ==
    ASSUME IInv, IdsStored, AgreeInv, Takeover, [Next]_vars
    PROVE  Takeover' /\ (Onward \/ outbox' = outbox)
<1>1. CASE UNCHANGED vars
      BY <1>1 DEF vars, rowVars, providerVars, webhookVars, processVars, Takeover
<1>2. CASE Next
      BY <1>2, WorkerTakeover, OutsideTakeover, WebhookTakeover, OtherTakeover DEF Next
<1> QED
    BY <1>1, <1>2

\* Once a creator's message covering a row is projected, no reply to that row
\* is stored any more, where no process starts beside a running one
\* (ingest_sent and enqueue_outbox).
THEOREM TakeoverIsFinal ==
    ASSUME MaxStarts = 0
    PROVE  Spec => NoDraftAfterTakeover
<1> DEFINE Kept == \A m \in Messages :
                      outbox[m] = "none" /\ m <= lastCreator[FanOf[m]] => outbox'[m] = "none"
<1>1. Init => AgreeInv /\ Takeover
      BY AgreeInit, TakeoverInit
<1>2. IInv /\ IdsStored /\ AgreeInv /\ Takeover /\ [Next]_vars => AgreeInv' /\ Takeover'
      BY AgreeNext, TakeoverNext
<1>3. IInv /\ IdsStored /\ AgreeInv /\ Takeover /\ [Next]_vars => [Kept]_vars
      BY TakeoverNext DEF Takeover, Onward, Nonterminal
<1> QED
    BY <1>1, <1>2, <1>3, Inductive, PTL DEF Spec, NoDraftAfterTakeover

\* What a fan's opt-out leaves of the sends.
LEMMA OptOutStepQuiet ==
    ASSUME IInv, [Next]_vars, NEW m \in Messages, policy[FanOf[m]].dnc,
           m \notin LockedBy(Workers, "granted")
    PROVE  sendAttempts'[m] = sendAttempts[m] /\ m \notin LockedBy(Workers, "granted")'
<1> RowsOK /\ WorkersOK
    BY IInvParts
<1>1. ASSUME NEW w \in Workers, WorkerStep(w)
      PROVE  sendAttempts'[m] = sendAttempts[m] /\ m \notin LockedBy(Workers, "granted")'
  <2>1. sendAttempts'[m] = sendAttempts[m]
    <3>1. CASE BeginSend(w)
      <4>1. Row(w) # m
            BY <3>1 DEF BeginSend, At, LockedBy, Row
      <4> QED
          BY <3>1, <4>1 DEF BeginSend, StartSending, RowsOK, RowsTypeOK
    <3>2. CASE ~BeginSend(w)
          BY <1>1, <3>2 DEF WorkerStep, ClaimStep, CommitClaim, ClaimInbound, ReplyStep, SendStep,
                 OptOutStep, RecordOptOut, SelectInbound, LoadOutbox, Decline,
                 CompleteWithoutResponse, PrepareReply, CommitOutbox, EnqueueOutbox,
                 DiscardSuperseded, BlockUnsupported, CompleteUnsupported, CloseUnsent,
                 RefusePermit, RejectSend, LosePermit, GrantPermit, ProcessingFails,
                 ReleaseInbound, MarkDeliveryUnknown, IssueRequest, RetryRequest, Post,
                 ConfirmDelivery, CompleteDelivery, RefuseDelivery, MarkProviderBlocked, GiveUp,
                 OutcomeUnrecorded, rowVars
    <3> QED
        BY <3>1, <3>2
  <2>2. \A v \in Workers : worker'[v].pc = "granted" =>
           worker'[v] = worker[v] \/ (GrantPermit(v) /\ worker'[v].msg = worker[v].msg)
    <3>1. CASE GrantPermit(w)
          BY <3>1 DEF GrantPermit, Goto, WorkersOK
    <3>2. CASE ~GrantPermit(w)
          BY <1>1, <3>2 DEF WorkerStep, ClaimStep, CommitClaim, ReplyStep, SendStep,
                 OptOutStep, RecordOptOut, SelectInbound, LoadOutbox, Decline, PrepareReply,
                 CommitOutbox, DiscardSuperseded, BlockUnsupported, RefusePermit, LosePermit,
                 BeginSend, ProcessingFails, IssueRequest, RetryRequest, Post, ConfirmDelivery,
                 RefuseDelivery, GiveUp, OutcomeUnrecorded, Goto, Continue, Finish, Idle, WorkersOK
    <3> QED
        BY <3>1, <3>2
  <2>3. \A v \in Workers : GrantPermit(v) => Row(v) # m
        BY DEF GrantPermit, PermitHolds, PolicyBlocks
  <2> QED
      BY <2>1, <2>2, <2>3 DEF LockedBy, Row
<1>2. CASE OutsideStep \/ WebhookStep \/ OperatorStep \/ ClockStep \/ StartStep \/ UNCHANGED vars
  <2>1. worker' = worker
        BY <1>2 DEF OutsideStep, WebhookStep, OperatorStep, ClockStep, StartStep, workVars, vars
  <2>2. sendAttempts' = sendAttempts
        BY <1>2 DEF OutsideStep, FanWrites, FanDeletes, CreatorSends, ProviderAccepts, QueueOutreach,
               InsertInbound, WebhookStep, IngestReceived, BeginProjection, DeadLetterSent,
               CommitProjection, OperatorStep, ClockStep, BecomesAvailable, PermitExpires,
               StartStep, BeginRecovery, CommitRecovery, RecoverInterrupted, BeginBlocking,
               FinishStart, BlockPendingNonText, rowVars, vars
  <2> QED
      BY <2>1, <2>2 DEF LockedBy
<1>3. CASE Crash
      BY <1>3 DEF Crash, rowVars, LockedBy, Idle
<1> QED
    BY <1>1, <1>2, <1>3 DEF Next, ProcessStep

\* After a fan's opt-out is recorded no reply to that fan is permitted and none
\* is started, but for a send that claim_outbox had permitted before.
THEOREM OptOutIsQuiet == Spec => QuietAfterOptOut
<1> DEFINE Quieted == \A m \in Messages :
                         policy[FanOf[m]].dnc /\ m \notin LockedBy(Workers, "granted") =>
                            /\ sendAttempts'[m] = sendAttempts[m]
                            /\ m \notin LockedBy(Workers, "granted")'
<1>1. IInv /\ [Next]_vars => [Quieted]_vars
      BY OptOutStepQuiet
<1> QED
    BY <1>1, Inductive, PTL DEF Spec, QuietAfterOptOut

-----------------------------------------------------------------------------
(* The refinement.                                                         *)

\* The ledger does not move when neither the outbox rows nor what the provider
\* holds does.
LEMMA LedgerStutters ==
    ASSUME UNCHANGED <<outbox, sendAttempts, accepted>>
    PROVE  UNCHANGED Ledger!vars
BY DEF Ledger!vars, LedgerState, LedgerCopies, Standing

\* A change of one outbox row is a change of that reply's standing.
LEMMA LedgerMoves ==
    ASSUME RowsOK, NEW m \in Messages, NEW status,
           outbox' = [outbox EXCEPT ![m] = status],
           \A n \in Messages \ {m} : sendAttempts'[n] = sendAttempts[n],
           accepted' = accepted
    PROVE  /\ LedgerState' =
                  [LedgerState EXCEPT ![m] = Standing(status, sendAttempts'[m])]
           /\ LedgerCopies' = LedgerCopies
<1>1. outbox \in [Messages -> OutboxStatus]
  BY DEF RowsOK, RowsTypeOK
<1>2. outbox'[m] = status /\ \A n \in Messages \ {m} : outbox'[n] = outbox[n]
  BY <1>1
<1>3. \A n \in Messages \ {m} : Standing(outbox'[n], sendAttempts'[n]) =
                                  Standing(outbox[n], sendAttempts[n])
  BY <1>2
<1>4. LedgerState' =
          [LedgerState EXCEPT ![m] = Standing(status, sendAttempts'[m])]
  <2> DEFINE now == [LedgerState EXCEPT ![m] = Standing(status, sendAttempts'[m])]
  <2>1. \A n \in Messages : now[n] = Standing(outbox'[n], sendAttempts'[n])
    BY <1>2, <1>3 DEF LedgerState
  <2>2. now = [n \in Messages |-> now[n]]
    BY DEF LedgerState
  <2> HIDE DEF now
  <2>3. now = [n \in Messages |-> Standing(outbox'[n], sendAttempts'[n])]
    BY <2>1, <2>2
  <2> QED
    BY <2>3 DEF now, LedgerState
<1> QED
  BY <1>4 DEF LedgerCopies

\* Replies that leave the outbox unsent are cancelled in the ledger.
LEMMA LedgerCancels ==
    ASSUME RowsOK, NEW rs \in SUBSET Messages,
           NEW status \in {"cancelled_stale", "cancelled_deleted",
                           "blocked_unsupported", "blocked_policy"},
           outbox' = [m \in Messages |-> IF m \in rs THEN status ELSE outbox[m]],
           UNCHANGED <<sendAttempts, accepted>>
    PROVE  Ledger!Cancel(rs, {})
<1>1. LedgerCopies' = LedgerCopies
  BY DEF LedgerCopies
<1>2. ASSUME NEW m \in Messages
      PROVE  Standing(outbox'[m], sendAttempts'[m]) =
                IF m \notin rs THEN LedgerState[m]
                ELSE IF LedgerState[m] \in Ledger!Attempted
                     THEN "overruled" ELSE "dropped"
  <2>1. CASE m \notin rs
    BY <2>1 DEF LedgerState
  <2>2. CASE m \in rs
    <3>1. Standing(outbox'[m], sendAttempts'[m]) =
              IF sendAttempts[m] = 0 THEN "dropped" ELSE "overruled"
      BY <2>2 DEF Standing, NotAttempted
    <3>2. LedgerState[m] \in Ledger!Attempted <=> sendAttempts[m] # 0
      BY DEF LedgerState, Standing, Ledger!Attempted, RowsOK, RowsTypeOK,
             SentOnce, OutboxStatus, NotAttempted, Tried
    <3> QED
      BY <2>2, <3>1, <3>2
  <2> QED
    BY <2>1, <2>2
<1>3. LedgerState' = [m \in Messages |-> Standing(outbox'[m], sendAttempts'[m])]
  BY DEF LedgerState
<1> QED
  BY <1>1, <1>2, <1>3 DEF Ledger!Cancel

\* A creator's message cancels and confirms in the ledger what it does in the
\* outbox: what it confirms was attempted and has a copy.
LEMMA LedgerOverrules ==
    ASSUME RowsOK, NEW rs \in SUBSET Messages, NEW confirmed \in SUBSET Messages,
           \A m \in confirmed : sendAttempts[m] = 1 /\ LedgerCopies[m] # {},
           outbox' = [m \in Messages |->
               IF m \in confirmed THEN "sent"
               ELSE IF m \in rs THEN "cancelled_stale" ELSE outbox[m]],
           UNCHANGED <<sendAttempts, accepted>>
    PROVE  Ledger!Cancel(rs, confirmed)
<1>1. LedgerCopies' = LedgerCopies
  BY DEF LedgerCopies
<1>2. \A m \in Messages : LedgerState[m] \in Ledger!Attempted <=> sendAttempts[m] # 0
  BY DEF LedgerState, Standing, Ledger!Attempted, RowsOK, RowsTypeOK,
         SentOnce, OutboxStatus, NotAttempted, Tried
<1>3. ASSUME NEW m \in Messages
      PROVE  Standing(outbox'[m], sendAttempts'[m]) =
                IF m \in confirmed THEN "delivered"
                ELSE IF m \notin rs THEN LedgerState[m]
                ELSE IF LedgerState[m] \in Ledger!Attempted
                     THEN "overruled" ELSE "dropped"
  <2>1. CASE m \in confirmed
    BY <2>1 DEF Standing, NotAttempted
  <2>2. CASE m \notin confirmed /\ m \notin rs
    BY <2>2 DEF LedgerState
  <2>3. CASE m \notin confirmed /\ m \in rs
    BY <1>2, <2>3 DEF Standing, NotAttempted
  <2> QED
    BY <2>1, <2>2, <2>3
<1>4. LedgerState' = [m \in Messages |-> Standing(outbox'[m], sendAttempts'[m])]
  BY DEF LedgerState
<1> QED
  BY <1>1, <1>2, <1>3, <1>4 DEF Ledger!Cancel

\* Attempts whose outcome is given up are in doubt in the ledger.
LEMMA LedgerDoubts ==
    ASSUME RowsOK, NEW rs \in SUBSET Messages, \A m \in rs : sendAttempts[m] = 1,
           outbox' = [m \in Messages |->
                          IF m \in rs THEN "delivery_unknown" ELSE outbox[m]],
           UNCHANGED <<sendAttempts, accepted>>
    PROVE  Ledger!Doubt(rs)
<1>1. LedgerCopies' = LedgerCopies
  BY DEF LedgerCopies
<1>2. \A m \in rs : LedgerState[m] \in Ledger!Attempted
  BY DEF LedgerState, Standing, Ledger!Attempted, RowsOK, RowsTypeOK, SentOnce,
         OutboxStatus, NotAttempted
<1>3. LedgerState' =
          [m \in Messages |-> IF m \in rs THEN "uncertain" ELSE LedgerState[m]]
  BY DEF LedgerState, Standing, NotAttempted
<1> QED
  BY <1>1, <1>2, <1>3 DEF Ledger!Doubt

\* A step of the ledger, or one that leaves it as it is.
LedgerStep == [Ledger!Next]_(Ledger!vars)

\* Closing a row unsent is one.
LEMMA CloseUnsentRefines ==
    ASSUME RowsOK, NEW m \in Messages,
           NEW status \in {"blocked_unsupported", "blocked_policy"}, NEW permit,
           CloseUnsent(m, status, permit), accepted' = accepted
    PROVE  LedgerStep
<1>1. outbox' = [n \in Messages |-> IF n \in {m} THEN status ELSE outbox[n]]
  BY DEF CloseUnsent, RowsOK, RowsTypeOK
<1>2. Ledger!Cancel({m}, {})
  BY <1>1, LedgerCancels DEF CloseUnsent
<1> QED
  BY <1>2 DEF LedgerStep, Ledger!Next

\* Giving up the outcome of one send is.
LEMMA DeliveryUnknownRefines ==
    ASSUME RowsOK, NEW m \in Messages, MarkDeliveryUnknown(m), accepted' = accepted
    PROVE  LedgerStep
<1>1. outbox' = [n \in Messages |->
                     IF n \in {m} THEN "delivery_unknown" ELSE outbox[n]]
  BY DEF MarkDeliveryUnknown, RowsOK, RowsTypeOK
<1>2. Ledger!Doubt({m})
  BY <1>1, LedgerDoubts DEF MarkDeliveryUnknown, RowsOK, SentOnce, Tried
<1> QED
  BY <1>2 DEF LedgerStep, Ledger!Next

\* A stored reply is as open as none.
LEMMA EnqueueRefines ==
    ASSUME RowsOK, NEW m \in Messages, NEW draft, EnqueueOutbox(m, draft),
           accepted' = accepted
    PROVE  LedgerStep
<1>1. CASE outbox' = outbox
  BY <1>1, LedgerStutters DEF EnqueueOutbox, LedgerStep
<1>2. CASE outbox[m] = "none" /\ outbox' = [outbox EXCEPT ![m] = "pending"]
  <2>1. sendAttempts' = sendAttempts
    BY DEF EnqueueOutbox
  <2>2. /\ LedgerState' = [LedgerState EXCEPT ![m] =
                               Standing("pending", sendAttempts'[m])]
        /\ LedgerCopies' = LedgerCopies
    BY <1>2, <2>1, LedgerMoves
  <2>3. LedgerState[m] = Standing("pending", sendAttempts'[m])
    BY <1>2, <2>1 DEF LedgerState, Standing, NotAttempted
  <2>4. LedgerState' = LedgerState
    BY <2>2, <2>3 DEF LedgerState
  <2> QED
    BY <2>2, <2>4 DEF LedgerStep, Ledger!vars
<1> QED
  BY <1>1, <1>2 DEF EnqueueOutbox

\* The start of a send is the attempt.
LEMMA StartSendingRefines ==
    ASSUME RowsOK, NEW m \in Messages, StartSending(m), accepted' = accepted
    PROVE  LedgerStep
<1>1. sendAttempts' = [sendAttempts EXCEPT ![m] = 1]
  BY StartSendingOK
<1>2. \A n \in Messages \ {m} : sendAttempts'[n] = sendAttempts[n]
  BY <1>1 DEF RowsOK, RowsTypeOK
<1>3. /\ LedgerState' = [LedgerState EXCEPT ![m] =
                             Standing("sending", sendAttempts'[m])]
      /\ LedgerCopies' = LedgerCopies
  BY <1>2, LedgerMoves DEF StartSending
<1>4. Standing("sending", sendAttempts'[m]) = "attempting"
  BY DEF Standing, NotAttempted
<1>5. LedgerState[m] = "open"
  BY DEF StartSending, LedgerState, Standing, NotAttempted
<1> QED
  BY <1>3, <1>4, <1>5
     DEF LedgerStep, Ledger!Next, Ledger!Attempt, Ledger!Move

\* A provider refusal is.
LEMMA ProviderBlockedRefines ==
    ASSUME RowsOK, NEW m \in Messages, MarkProviderBlocked(m), accepted' = accepted
    PROVE  LedgerStep
<1>1. /\ LedgerState' = [LedgerState EXCEPT ![m] =
                             Standing("blocked_provider", sendAttempts'[m])]
      /\ LedgerCopies' = LedgerCopies
  BY LedgerMoves DEF MarkProviderBlocked
<1>2. Standing("blocked_provider", sendAttempts'[m]) = "refused"
  BY DEF Standing, NotAttempted
<1>3. LedgerState[m] = "attempting"
  BY DEF MarkProviderBlocked, LedgerState, Standing, NotAttempted
<1> QED
  BY <1>1, <1>2, <1>3 DEF LedgerStep, Ledger!Next, Ledger!Refuse, Ledger!Move

\* A confirmed delivery is: the provider holds the copy that was answered.
LEMMA DeliveryRefines ==
    ASSUME RowsOK, NEW m \in Messages, NEW id, CompleteDelivery(m, id),
           accepted' = accepted, NEW t \in 1..MaxTries, [msg |-> m, try |-> t] \in accepted
    PROVE  LedgerStep
<1>1. /\ LedgerState' = [LedgerState EXCEPT ![m] =
                             Standing("sent", sendAttempts'[m])]
      /\ LedgerCopies' = LedgerCopies
  BY LedgerMoves DEF CompleteDelivery
<1>2. Standing("sent", sendAttempts'[m]) = "delivered"
  BY DEF Standing, NotAttempted
<1>3. LedgerState[m] = "attempting"
  BY DEF CompleteDelivery, LedgerState, Standing, NotAttempted
<1>4. LedgerCopies[m] # {}
  BY DEF LedgerCopies
<1> QED
  BY <1>1, <1>2, <1>3, <1>4
     DEF LedgerStep, Ledger!Next, Ledger!Confirm, Ledger!Move

\* Every step of a worker is a step of the ledger.
LEMMA WorkerRefines ==
    ASSUME IInv, NEW w \in Workers, WorkerStep(w)
    PROVE  LedgerStep
<1>1. RowsOK /\ WorkersOK
  BY IInvParts
<1>2. CASE UNCHANGED <<outbox, sendAttempts, accepted>>
  BY <1>2, LedgerStutters DEF LedgerStep
<1>3. ASSUME worker[w].pc # "idle"
      PROVE  Row(w) \in Messages
  BY <1>1, <1>3, BusyRow
<1>4. CASE ClaimStep(w) \/ OptOutStep(w)
  BY <1>2, <1>4
     DEF ClaimStep, OptOutStep, CommitClaim, ClaimInbound, RecordOptOut, rowVars,
         providerVars
<1>5. CASE ReplyStep(w)
  <2>1. accepted' = accepted
    BY <1>5 DEF ReplyStep, providerVars
  <2>2. CASE SelectInbound(w) \/ LoadOutbox(w) \/ PrepareReply(w)
                \/ DiscardSuperseded(w) \/ LosePermit(w) \/ GrantPermit(w)
    BY <1>2, <2>1, <2>2
       DEF SelectInbound, LoadOutbox, PrepareReply, DiscardSuperseded, LosePermit,
           GrantPermit, rowVars
  <2>3. CASE Decline(w)
    BY <1>2, <2>1, <2>3 DEF Decline, CompleteWithoutResponse
  <2>4. CASE CommitOutbox(w)
    BY <1>1, <1>3, <2>1, <2>4, EnqueueRefines DEF CommitOutbox, At
  <2>5. CASE BlockUnsupported(w)
    BY <1>1, <1>3, <2>1, <2>5, CloseUnsentRefines
       DEF BlockUnsupported, CompleteUnsupported, At
  <2>6. CASE RefusePermit(w)
    BY <1>1, <1>3, <2>1, <2>6, CloseUnsentRefines DEF RefusePermit, RejectSend, At
  <2>7. CASE BeginSend(w)
    BY <1>1, <1>3, <2>1, <2>7, StartSendingRefines DEF BeginSend, At
  <2>8. CASE ProcessingFails(w)
    <3>1. Row(w) \in Messages
      BY <1>3, <2>8 DEF ProcessingFails
    <3>2. CASE \E limit \in {1, MaxAttempts} : ReleaseInbound(Row(w), limit)
      BY <1>2, <2>1, <3>2 DEF ReleaseInbound
    <3>3. CASE MarkDeliveryUnknown(Row(w))
      BY <1>1, <2>1, <3>1, <3>3, DeliveryUnknownRefines
    <3>4. CASE UNCHANGED rowVars
      BY <1>2, <2>1, <3>4 DEF rowVars
    <3> QED
      BY <2>8, <3>2, <3>3, <3>4 DEF ProcessingFails
  <2> QED
    BY <1>5, <2>2, <2>3, <2>4, <2>5, <2>6, <2>7, <2>8 DEF ReplyStep
<1>6. CASE SendStep(w)
  <2>1. CASE IssueRequest(w) \/ RetryRequest(w) \/ OutcomeUnrecorded(w)
    BY <1>2, <2>1
       DEF IssueRequest, RetryRequest, OutcomeUnrecorded, Post, rowVars, providerVars
  <2>2. CASE ConfirmDelivery(w)
    <3>1. /\ Row(w) \in Messages /\ CompleteDelivery(Row(w), worker[w].tries)
          /\ accepted' = accepted
      BY <1>3, <2>2 DEF ConfirmDelivery, At, providerVars
    <3>2. Request(w) \in accepted /\ Request(w) \in Requests
      BY <2>2, IInvParts DEF ConfirmDelivery, ProviderOK
    <3>3. worker[w].tries \in 1..MaxTries
      BY <3>2 DEF Request, Requests
    <3> QED
      BY <1>1, <3>1, <3>2, <3>3, DeliveryRefines DEF Request
  <2>3. CASE RefuseDelivery(w)
    BY <1>1, <1>3, <2>3, ProviderBlockedRefines DEF RefuseDelivery, At
  <2>4. CASE GiveUp(w)
    BY <1>1, <1>3, <2>4, DeliveryUnknownRefines DEF GiveUp, At, providerVars
  <2> QED
    BY <1>6, <2>1, <2>2, <2>3, <2>4 DEF SendStep
<1> QED
  BY <1>4, <1>5, <1>6 DEF WorkerStep

\* What happens at the provider is: it accepts requests of attempts only.
LEMMA OutsideRefines ==
    ASSUME IInv, OutsideStep
    PROVE  LedgerStep
<1>1. CASE UNCHANGED <<outbox, sendAttempts, accepted>>
  BY <1>1, LedgerStutters DEF LedgerStep
<1>2. ASSUME NEW m \in Messages, FanWrites(m) \/ FanDeletes(m) \/ QueueOutreach(m)
      PROVE  LedgerStep
  BY <1>1, <1>2
     DEF FanWrites, FanDeletes, QueueOutreach, InsertInbound, rowVars, providerVars
<1>3. ASSUME NEW f \in Fans, CreatorSends(f)
      PROVE  LedgerStep
  BY <1>1, <1>3 DEF CreatorSends, rowVars, providerVars
<1>4. ASSUME NEW r \in requests, ProviderAccepts(r)
      PROVE  LedgerStep
  <2>1. /\ r \in Requests /\ r.msg \in Messages /\ r.try \in 1..MaxTries
        /\ r = [msg |-> r.msg, try |-> r.try]
    BY IInvParts DEF ProviderOK, Requests
  <2>2. sendAttempts[r.msg] = 1 /\ RowsOK
    BY IInvParts DEF OnlyAfterCommit
  <2>3. LedgerState[r.msg] \in Ledger!Attempted
    BY <2>1, <2>2
       DEF LedgerState, Standing, Ledger!Attempted, RowsOK, RowsTypeOK, SentOnce,
           OutboxStatus, NotAttempted
  <2>4. LedgerState' = LedgerState
    BY <1>4 DEF ProviderAccepts, rowVars, LedgerState
  <2>5. accepted' = accepted \cup {r}
    BY <1>4 DEF ProviderAccepts
  <2>6. ASSUME NEW m \in Messages
        PROVE  {t \in 1..MaxTries : [msg |-> m, try |-> t] \in accepted'} =
                  IF m = r.msg THEN LedgerCopies[m] \cup {r.try} ELSE LedgerCopies[m]
    BY <2>1, <2>5 DEF LedgerCopies
  <2>7. LedgerCopies' = [LedgerCopies EXCEPT ![r.msg] = @ \cup {r.try}]
    BY <2>1, <2>6 DEF LedgerCopies
  <2>8. Ledger!Accept(r.msg, r.try)
    BY <2>3, <2>4, <2>7 DEF Ledger!Accept
  <2> QED
    BY <2>1, <2>8 DEF LedgerStep, Ledger!Next
<1> QED
  BY <1>2, <1>3, <1>4 DEF OutsideStep

\* What the webhook thread does is.
LEMMA WebhookRefines ==
    ASSUME IInv, IdsStored, WebhookStep
    PROVE  LedgerStep
<1>1. /\ RowsOK /\ accepted' = accepted
      /\ tx.ids \in SUBSET Messages /\ tx.matched \in SUBSET Messages
  BY IInvParts DEF WebhookStep, providerVars, WebhookOK
<1>2. CASE UNCHANGED <<outbox, sendAttempts, accepted>>
  BY <1>2, LedgerStutters DEF LedgerStep
<1>4. ASSUME NEW e \in events,
             IngestReceived(e) \/ BeginProjection(e) \/ DeadLetterSent(e)
      PROVE  LedgerStep
  BY <1>1, <1>2, <1>4
     DEF IngestReceived, BeginProjection, DeadLetterSent, InsertInbound, rowVars
<1>5. CASE CommitProjection
  <2>1. PICK e \in tx.event : CommitSent(e) \/ CommitDeleted(e)
    BY <1>5 DEF CommitProjection
  <2>2. sendAttempts' = sendAttempts
    BY <1>5 DEF CommitProjection
  <2>3. CASE CommitSent(e)
    <3>1. Ledger!Cancel(tx.ids \ tx.matched, tx.matched)
      BY <1>1, <2>2, <2>3, StoredAttempted, LedgerOverrules DEF CommitSent, Cancel
    <3> QED
      BY <1>1, <3>1 DEF LedgerStep, Ledger!Next
  <2>4. CASE CommitDeleted(e) /\ tx.newer
    BY <1>1, <1>2, <2>2, <2>4 DEF CommitDeleted
  <2>5. CASE CommitDeleted(e) /\ ~tx.newer
    <3>1. PICK rows \in SUBSET Messages : Cancel(rows, "cancelled_deleted", {})
      <4>1. PICK rows \in {tx.ids, Messages \cap {e.msg}} :
                Cancel({m \in rows : outbox[m] = "pending"}, "cancelled_deleted", {})
        BY <2>5 DEF CommitDeleted
      <4>2. {m \in rows : outbox[m] = "pending"} \in SUBSET Messages
        BY <1>1, <4>1
      <4> QED
        BY <4>1, <4>2
    <3>2. outbox' = [m \in Messages |->
                         IF m \in rows THEN "cancelled_deleted" ELSE outbox[m]]
      BY <3>1 DEF Cancel
    <3>3. Ledger!Cancel(rows, {})
      BY <1>1, <2>2, <3>2, LedgerCancels
    <3> QED
      BY <3>3 DEF LedgerStep, Ledger!Next
  <2> QED
    BY <2>1, <2>3, <2>4, <2>5
<1> QED
  BY <1>4, <1>5 DEF WebhookStep

\* What processes do when they stop and start is.
LEMMA ProcessRefines ==
    ASSUME IInv, ProcessStep
    PROVE  LedgerStep
<1>1. /\ RowsOK /\ ProcessOK /\ accepted' = accepted
      /\ \A m \in found.uncertain : sendAttempts[m] = 1
  BY IInvParts DEF ProcessStep, Crash, StartStep, providerVars, OnlyAfterCommit
<1>2. CASE UNCHANGED rowVars
  BY <1>1, <1>2, LedgerStutters DEF LedgerStep, rowVars
<1>3. CASE CommitRecovery
  <2>1. found.uncertain \in SUBSET Messages
    BY <1>1 DEF ProcessOK
  <2>2. Ledger!Doubt(found.uncertain)
    BY <1>1, <1>3, <2>1, LedgerDoubts DEF CommitRecovery, RecoverInterrupted
  <2> QED
    BY <2>1, <2>2 DEF LedgerStep, Ledger!Next
<1>4. CASE FinishStart
  <2>1. found.stale \in SUBSET Messages
    BY <1>1 DEF ProcessOK
  <2>2. Ledger!Cancel(found.stale, {})
    BY <1>1, <1>4, <2>1, LedgerCancels DEF FinishStart, BlockPendingNonText
  <2> QED
    BY <2>1, <2>2 DEF LedgerStep, Ledger!Next
<1> QED
  BY <1>2, <1>3, <1>4
     DEF ProcessStep, Crash, StartStep, BeginRecovery, BeginBlocking

\* Every step of the pipeline is a step of the ledger or leaves it unchanged.
LEMMA NextRefines == IInv /\ IdsStored /\ [Next]_vars => LedgerStep
<1> SUFFICES ASSUME IInv, IdsStored, [Next]_vars PROVE LedgerStep
  OBVIOUS
<1>1. CASE OperatorStep \/ ClockStep \/ UNCHANGED vars
  <2>1. UNCHANGED <<outbox, sendAttempts, accepted>>
    BY <1>1 DEF OperatorStep, ClockStep, BecomesAvailable, PermitExpires, vars,
                rowVars, providerVars
  <2> QED
    BY <2>1, LedgerStutters DEF LedgerStep
<1> QED
  BY <1>1, WorkerRefines, OutsideRefines, WebhookRefines, ProcessRefines DEF Next

\* The pipeline implements the ledger: every reply is attempted at most once,
\* a dropped one leaves no message at the provider, a delivered one has a copy
\* there, and an attempted one is never open again, for any number of rows,
\* workers, crashes and processes.
THEOREM PipelineImplementsLedger == Spec => ImplementsLedger
<1>1. Init => Ledger!Init
  BY DEF Init, RowsInit, Ledger!Init, LedgerState, LedgerCopies, Standing,
         NotAttempted
<1>2. IInv /\ IdsStored /\ [Next]_vars => [Ledger!Next]_(Ledger!vars)
  BY NextRefines DEF LedgerStep
<1> QED
  BY <1>1, <1>2, Inductive, PTL DEF Spec, ImplementsLedger, Ledger!Spec
=============================================================================
