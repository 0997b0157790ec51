# TLA+ models of the Fansly chatbot

The program answers a creator's fans on Fansly: it stores every incoming message
in a durable inbox, lets one of several "brains" write a reply, and hands the
reply to a provider API through a durable outbox. It also contacts fans who are
online or went quiet, sells steps of paid sequences, schedules posts, mirrors the
provider's chats, and remembers what fans said. What can go wrong is rarely in one
function: replies are generated outside any transaction, the provider answers
late or not at all, webhooks report the same event again and out of order,
operators change settings and move the authority to send while a reply is half
done, and processes stop between two commits. These modules model that part of
the code; TLC checks them on small instances and TLAPS proves the main properties
for any instance.

Paths are relative to the repository root.

## 1. The system

### Components

`PROJECT.json` lists every component with its files, its status and what is left
out of it.

| Component | Source | State it keeps | Operations | Modules |
|---|---|---|---|---|
| Durable inbox and outbox | `src/persistence/pipeline.py` | `inbound_messages`, `outbox_messages`, `processed_platform_messages` | insert, claim, complete, release, enqueue, permit, record an outcome, recover, block | `InboxOutbox` |
| Reply workers and dispatch | `src/bot.py`, `src/main.py`, `src/service_role.py` | one row and one draft per thread | poll, take a row, vet it, generate, deliver, requeue, recovery poll | `ReplyPipeline`, `LiveBrain`, `Recovery` |
| Provider client | `src/apifansly_client.py`, `src/fansly_client.py` | none | one POST, repeated after a timeout, a 429 or a 5xx; pages of chats and messages | `ReplyPipeline`, `Recovery` |
| Webhook projection | `src/webhooks/repository.py` | events, tombstones, message states, subscriptions, revenue, account health | `ingest_received`, `ingest_sent`, `ingest_deleted`, the other handlers | `ReplyPipeline`, `Webhooks` |
| Webhook gateway and registry | `src/webhooks/gateway.py`, `registry.py` | the event ledger | dispatch to a handler, quarantine | `Webhooks` |
| Contact policy | `src/contact_policy.py` | `fan_contact_policies` with a version | record an opt-out | `ReplyPipeline` |
| Reply authority | `src/settings/brain.py`, `src/engagement/control_plane.py` | brain settings, `trigger_ownership` | save settings with ownership handoff, disable-first assignment | `ReplyPipeline`, `LiveBrain` |
| Presence and stalled outreach | `src/persistence/presence.py`, `src/auto_messages` | presence sessions, leases, cooldowns, caps | poll presence, check, queue, generate, send | `Outreach` |
| Bulk posting | `src/bulk_posting` | `bulk_post_rules`, `bulk_post_occurrences` | schedule, sweep due rules, submit | `BulkPosting` |
| Human delivery | `src/human_delivery` | fan turns, shadow plans, versioned prompt documents | observe, close, plan, cancel, switch; save and activate a document, compile a prompt | `FanTurns`, `Documents` |
| Conversation brains | `src/conversation` | decisions, circuit, daily runs, usage and cost buckets, shadow runs | choose an author, plan and judge candidates, reserve a request, retry, fall back, roll back | `LiveBrain`, `ModelCalls`, `Planner` |
| Conversation memory and decisions | `src/conversation` | facts, relationship state, callbacks, rules, conflicts, examples, releases, outcomes | remember, deactivate, move the state, review, ingest, activate, attribute an answer | `FanMemory`, `Knowledge`, `Outcomes` |
| Sequences, PPV and purchases | `src/sequences`, `src/persistence/purchases.py`, `src/funnel` | sequences, a fan's progress, entitlements, runtime state, session | choose a step, offer, deliver, buy, edit, save the session | `PaidSequence` |
| CRM mirror and unread backlog | `src/crm`, `src/persistence/crm.py`, `src/unread_backlog.py` | copies of chats and messages with their cursors, an import's place | discover, fetch, advance, import a batch | `Mirror`, `Recovery` |
| Creators and connections | `src/creators/connections.py` | creators, their provider accounts, cached clients and services | connect, verify, import, sync, expire | `Connections` |
| Provider credit governor | `src/provider_credit.py` | reservations, budget rows, circuit | reserve, finalize | `Credits` |
| Dashboard, analytics, relational state | `src/web/dashboard.py`, `src/fyp_analytics`, `src/provider_read_cache.py`, `src/persistence/state.py` | kept reads; otherwise other components' tables | handlers that change a modelled component | `ReadCache` and the modules above |
| Fan profiling and text shaping | `src/emotion`, `src/style`, `src/profiling`, ... | none of its own | scoring, transformation of text | not modelled |

### How they interact

* Fan messages enter the inbox through webhooks (`ingest_received`), the recovery
  poll and the backlog import; proactive openers through the outreach thread.
* A reply worker claims a row, asks the contact policy and the authority tables,
  lets a brain write a text outside any transaction, stores it in the outbox with
  a permit (who may send, which policy version, until when), takes the permit
  again while it commits `sending`, and only then calls the provider.
* The brain that writes is chosen anew for every row: V3 behind a circuit breaker
  and a daily ceiling, Brain 2.0 when the settings grant it authority, otherwise
  the current one. The decision it saves is what outcomes are credited to, and
  the automatic rollback judges by those outcomes.
* The provider's own events come back through the webhook thread. It writes the
  same inbound and outbox rows as the workers: a creator's message cancels
  pending replies and completes older rows, a reply's event confirms it.
* `FanslyBot.__init__`, in every process of every role, recovers rows a stopped
  process left behind.
* Delivery of a paid row moves the fan's sequence; the provider's purchase moves
  it too, in the web thread, while the worker holds the fan's session in memory.
* Bulk posting shares nothing with replies but the client: dashboard threads and
  scheduler threads meet only in two tables and one unique constraint.

### What is hard

* **Atomicity.** The engine runs with READ COMMITTED: a transaction that reads a
  snapshot and later writes by primary key can overwrite what changed between,
  and a check made of several statements sees several states.
* **Unknown outcomes.** A request may be accepted though its answer is lost, and
  the client repeats it.
* **Ordering.** The event of a reply may precede the HTTP answer to its request;
  a deletion may precede the message it deletes; a fan's answers come late.
* **Crashes.** A process stops between any two commits; requests stay in flight.
* **Several processes.** A rolling deployment or a second service role runs the
  start-up recovery beside live workers; two schedulers sweep one table.
* **Stale permission.** The fan opts out, the creator takes over or the operator
  moves authority while a reply waits; a cap is checked long before a send.
* **Moving lists.** Chats move up the provider's index between two pages.
* **Budgets.** Reservations, refunds, midnight and several workers meet in one row.

The forty places where this bites are listed with their lines in `PROJECT.json`.
Two of them have no property, for the reason given there: a refused reply may
have a copy, because the client repeats; and the date of a monthly rule drifts,
because the calendar is abstracted to a fixed period.

### What makes each component correct

* Replies: never attempted twice; never requested before `sending` is committed;
  both tables tell the same story; nothing after an opt-out or a takeover; a
  queued row and a send in doubt settle.
* Bulk posts: no recurrence skipped or out of order, a rule asks for attention
  exactly when a post went wrong, due posts settle.
* Outreach: no message to a fan within the cooldown, and no more than the caps.
* Turns: every observed message is in a turn, and an open plan knows them all.
* Brains: the ceiling is overrun by less than a call per worker, outcomes are
  credited to the author, every request was reserved, a turn has an end.
* Memory: what the fan said last is in force, state never goes back, callbacks
  wait, rules that contradict each other are reviewed before both are in force.
* Sequences: a purchase counts once in both places, no step is offered twice.
* Mirror: no gap between the cursor and the head, an import passes over nobody.

## 2. Modules

| Module | What it models | Checked in | Proofs |
|---|---|---|---|
| `DeliveryLedger` | the abstract specification of anything that is sent once | as a property | |
| `InboxOutbox` | the rows of inbox and outbox, one operator per transaction of `MessageProcessingRepository` | with `ReplyPipeline` | `ReplyPipelineProofs` |
| `ReplyPipeline` | worker threads, provider and client, webhooks, operator, clock, crashes and starts over `InboxOutbox` | `MCReplyPipeline` | `ReplyPipelineProofs` |
| `BulkPosting` | `schedule`, `run_due` and `_submit_one` with their two tables | `MCBulkPosting` | `BulkPostingProofs` |
| `FanTurns` | turns and shadow plans, with requests, planners, the kill switch and stops | `MCFanTurns` | `FanTurnsProofs` |
| `FanMemory` | the facts of one key, V3's relationship state, a callback | `MCFanMemory` | `FanMemoryProofs` |
| `Knowledge` | rules and their conflicts, examples, corpus releases | `MCKnowledge` | `KnowledgeProofs` |
| `Outreach` | presence polls, scans, the three-statement check, queue, delivery | `MCOutreach` | `KnowledgeProofs` |
| `PaidSequence` | choice, delivery and purchase of steps, edits, the session and its copy | `MCPaidSequence` | `PaidSequenceProofs` |
| `LiveBrain` | which brain writes a live reply, circuit, ceiling, rollback, decision | `MCLiveBrain` | `BudgetProofs` |
| `ModelCalls` | Brain 2.0's jobs, stages, retries, reservations, shadow rows | `MCModelCalls` | `BudgetProofs` |
| `Mirror` | the CRM worker's cycle and the backlog import over one moving index | `MCMirror` | `MirrorProofs` |
| `Webhooks` | the event ledger and what each handler leaves in the CRM tables | `MCFanMemory` | `BudgetProofs` |
| `Recovery` | the recovery poll, chat by chat and page by page | `MCFanMemory` | `FanMemoryProofs` |
| `Credits` | reservation and settlement of provider credits | `MCPaidSequence` | `BudgetProofs` |
| `Connections` | accounts, creators, cached clients of the dashboard | `MCFanTurns` | `FanTurnsProofs` |
| `ReadCache` | paid reads kept in memory and in a row | `MCLiveBrain` | `BudgetProofs` |
| `Outcomes` | outcome rows of delivered turns and the fan's answers | `MCKnowledge` | `PaidSequenceProofs` |
| `Planner` | V3's prompt, candidates, gates, judge, replacement and fallback | `MCKnowledge` | `KnowledgeProofs` |
| `Documents` | drafts and activations of prompt documents, the compiled prompt | `MCOutreach` | `KnowledgeProofs` |
| `Totals` | sums over finite sets, by counting, for the three modules that keep budgets or revenue | with those | `BudgetProofs` |

An `MC` module gives constants their values. Some of them also run one or two
smaller modules as parts, which they extend: the variables of the parts are
disjoint, and the variable `part` chooses at the start which one a behaviour is of. Composing parts that
share no state would multiply their states and show nothing more. The proof
modules extend several modules in the same way, because a theorem that names a
module's specification holds whatever else is in scope.

The header of every module says what it abstracts. The points that need a word
here:

**InboxOutbox, ReplyPipeline.** A message is its position on the provider's
clock. `inbound`, `outbox`, `attempts`, `sendAttempts`, `reply`, `processed` are
the columns the code reads or writes; the text of a reply is only its kind (text,
text the policy takes for a pitch, media). A repository method is one operator
named after it, and one atomic step where the code is one transaction whose
writes do not depend on an earlier snapshot. Where they do there are two steps:
`SelectInbound` / `ClaimInbound` (the claim query locks only the row it takes),
`BeginProjection` / `CommitProjection` (the webhook reads pending replies, then
cancels them by id), `BeginRecovery` / `CommitRecovery` and `BeginBlocking` /
`FinishStart`. Row locks that do hold are guards (`RespectsLocks`). A worker's
`pc` names the point of `_process_claimed_inbound` where it is; every provider
call is a step of its own, the answer of which may be a success, a rejection or
an exception whatever the provider did. `Crash` idles every thread, drops the
webhook's open transaction and keeps requests in flight; `BeginRecovery` starts a
process after a crash or, up to `MaxStarts` times, beside a live one.

**BulkPosting.** `next` is the ordinal of `next_scheduled_for` (0 for NULL), so
the k-th occurrence of a rule is its first date moved k periods. A thread works
through the rows one sweep has read (`todo`), at the step `insert` (the row of an
occurrence), `post` and `answer` (the client call), `advance` (the compare-and-set
of `next_scheduled_for`). `Stop` is a process that stops or an exception that ends
the call.

**DeliveryLedger.** An item is attempted at most once, an item dropped before its
attempt leaves nothing at the provider, one called delivered has a copy there, an
attempted one is never open again. One attempt may leave several copies, because
the client repeats requests. A single step may move several items (a creator's
message cancels a fan's pending replies); `Batches` says which sets. The
refinement mappings are at the end of `ReplyPipeline` and `BulkPosting`.

**Outreach.** Time is kept as ages in ticks that stop at the largest bound
anything compares them with (`Keep`). Every read of `eligible_for_outreach` is a
statement of its own, so the check is three actions; queueing is a fourth.

**FanTurns.** A turn is named by the message that opened it. Every transaction of
a webhook request is an action, because a stop, an exception that `bot.py`
swallows, or the planner may come between two of them.

**Mirror.** A chat's messages are numbered; a page is the messages below a
cursor. The index lists chats by their newest message, so an arrival moves a chat
while a cycle or an import walks the list.

**Recovery.** The messages of all chats are one log, and the list of chats is
sorted by it. The provider's cursor is taken as a place in that list (`Place`), so
a chat that is written to or answered between two pages moves others past it;
`Moves` records those that come above the poll's place (`beyond`).

**Planner, Documents.** Sizes are lengths and a text is what the gates say of it.
The compilation of a prompt and the list of candidates that are kept are recursive
functions over the sections, blocks and answers, one step for each round of the
code's loop.

## 3. Runs

| Run | Instance | What it shows |
|---|---|---|
| `replies` | two messages of one fan, two workers, two requests per send, two attempts per row, all reply kinds, an opt-out, a deletion, one crash | `SentOnce`, `OnlyAfterCommit`, `RowsAgree`, `QuietAfterOptOut`: no second send, no uncommitted request, one story in both tables, silence after the opt-out |
| `authority` | one proactive row, two workers, three changes of authority, one crash, one process started beside a live one | `ImplementsLedger`: the pipeline implements the ledger even then |
| `liveness` | two messages, one worker, one message by the creator, one crash, fairness | `NoDraftAfterTakeover`; `SendingSettlesOrSuperseded` and `QueueSettles`: what is in doubt or queued settles, but for the named rows |
| `bulk_posting` | two schedulers and a dashboard, a recurring rule of two posts and a one-time rule, sweeps of one rule, one interrupted thread, fairness | `InOrder`, `AttentionExplained`, `ImplementsLedger`, `DueIsSettled` |
| `fan_turns` | three messages of one fan (the oldest may come last) and one of another, a creator's send, a planner, one stop, one switch | `OpenPlanIsCurrent`, `MembersUnlessMissed`, `ReopenedOnlyByRace` |
| | three provider accounts, two requests, one restart | `WorkspaceIsCreators` |
| `paid_sequence` | two ladders of two and one step, three rows, one edit, one stop | `CountedOnce`, `NotOfferedTwice` |
| | four calls of three classes, two days of one month and the first of the next | `BudgetHeld` |
| `live_brain` | two workers, two inbounds, a ceiling and a threshold of one, three claims, or two and an event (a switch of authority, midnight, restart) | `OverrunBounded`, `CreditedToAuthor` |
| | two dashboard threads, two services, three reads, time for an outage to bring an older row back | `AskedAgainForAReason` |
| `model_calls` | two jobs on one thread, a wide and a tight setting, one change, one fault, two hours | `RequestsReserved`, `TurnBounded`, `RowSettles` |
| `fan_memory` | three facts of one key, five moments, three writes and messages of the fan together, one fault | `SaidIsActive`, `StateNeverStale`, `CooldownUnlessMentioned` |
| | thirteen events, delivered any number of times in any order | `RevenueCountedOnce` |
| | three chats, each first written to after the one before, three messages, or two and an error or stop, a mark of the import beside two chats, pages of one message, lists of three chats | `PassedForAReason` |
| `knowledge` | two releases with contradicting rules; two rules by hand beside one release, or one beside both | `ContradictionsReviewed` |
| | two delivered turns, two answers, one rude, a window of two ticks | `CreditsJustified` |
| | a small and a large context, two moves, three texts | `SelectedPassedGates` |
| `mirror` | three chats of which one refuses, pages of one, two requests a cycle, batches of one, two arrivals, one fault, fairness | `NoGap`, `NobodyPassedOver`, `CatchesUp` |
| `outreach` | two fans, a day of two ticks, a cooldown of two, one message an hour and two a day, one event | `CapsUnlessSlipped`, `CooldownHeld` |
| | two operators, four documents, a budget that leaves no room for a label | `OneActive`, `PromptKeepsTurn` |

**Why the bounds are enough.** The interactions are pairwise: two rows of one fan
(ordering, an older row that blocks a newer one), two workers (a race for one row
or for two), two requests per send (a lost answer followed by another), one crash
(recovery finds each intermediate state; a second crash during recovery finds a
subset of the same rows), one process beside another. One message by the creator
before or between two of the fan's gives every order of takeover and reply. For
posts, two rules compete for the one place of a sweep, two posts make an
occurrence that can be half done, two recurrences have an order, two sweeps
overlap. A turn with two members and a limit of two is full; a page, a batch or a
bucket of one is exhausted by the first item and asked for a second; a ladder of
two steps has a next one; three chats leave one to be overlooked while another
moves. A bound limits how often something happens and never which actions exist.
Constants that are parameters of the code (`MaxAttempts`, `MaxTries`, `Limit`,
`Page`, `Ceiling`, `Cooldown`, ...) are small; those that bound the instance
(`MaxCreatorSends`, `MaxHandoffs`, `MaxCrashes`, `MaxStarts`, `MaxPosts`,
`MaxRepeats`, `MaxNow`, `MaxStops`, `MaxSwitches`, `MaxRows`, `MaxVersion`,
`MaxEdits`, `MaxClaims`, `MaxEvents`, `MaxHour`, `MaxChanges`, `MaxFaults`,
`MaxWrites`, `MaxByHand`, `MaxArrivals`, `MaxLog`, `MaxReads`, `MaxServices`,
`MaxDay`, `MaxDocs`, `MaxRestarts`, `MaxClock`, `MaxErrors`, `MaxRules`,
`MaxSaid`) say so where they are declared. The theorems of section 5 hold for
every value of all of them.

Workers, fans, inbounds, operators and the dashboard's threads are symmetric in
`replies`, `authority`, `live_brain` and `outreach`, which check no liveness.

`CHECK_DEADLOCK FALSE` is in every configuration because the bounded system
really stops: once its messages, events and faults are used up and every row is
settled, nothing is left to do.

### What the runs found

Every property holds, and several hold only because they name an exception. Each
is a place where the code does something else than its documents suggest:

* One call may leave several copies: `docs/MESSAGE_PIPELINE.md:24` has the
  provider called exactly once, but `ApifanslyClient._request` repeats a POST
  whose answer was lost. The ledger therefore counts attempts, not copies.
* `SendingSettlesOrSuperseded`: the event of a reply completes its inbound row
  before the worker has stored the outcome; after a crash, recovery does not find
  the outbox row and it stays `sending`.
* `QueueSettles`: a creator's message projected late cancels the reply to a newer
  row but not the row, which stays `processing` and blocks the fan. Two workers
  may also claim two rows of one fan on snapshots that miss each other.
* `RowsAgree` and `NoDraftAfterTakeover` are about one process at a time: the
  start-up recovery of a second one puts rows back that the first works on.
* `DueIsSettled`: a scheduler that stops between the row of an occurrence and the
  move of `next_scheduled_for` leaves a rule whose every later sweep fails on the
  unique key and is skipped in silence, at the head of the `LIMIT`.
* `MembersUnlessMissed`: a message whose observation was cut short is in no turn,
  and no later delivery of the event repairs that.
* `ReopenedOnlyByRace`: `save_shadow_plan` does not read the turn's status, so a
  model call that was running when the turn was cancelled reopens it.
* `SaidIsActive`: `remember` does not touch the status of a stored fact, so a fact
  said again stays out of force and pushes its rivals out too.
* `CapsUnlessSlipped`, `CooldownHeld`: a row that waits over an hour leaves the
  window it was counted in; a send that completes between two reads of the check
  is in neither; a creator's message hides a send that is under way.
* `CreditsJustified`: a message may be credited to an older turn while the newer
  one has no row yet (`brain2_repository.py:87-92` says otherwise).
* `CatchesUp`: a chat that writes after the discovery is through and is pushed off
  the newest page of the index before the next cycle is overlooked; chats that refuse fill the budget, because `pending` lists them first.
* `PassedForAReason`: the recovery poll passes over messages below its page caps
  and over those a stopped backlog import had marked. A chat that is opened or
  answered while the poll lists moves the others down, so that one of them moves
  above the poll's place and is not listed; the head is stored, and the next quiet
  poll stops there (`bot.py:1421-1479`). That case appeared in the proof: the
  bounds of the run were two chats then, which cannot show it, and are three now.
* `AskedAgainForAReason`: two threads may make two services of one creator
  (`dashboard.py:943-953`), statistics without a dataset are paid for and not
  kept (`fyp_analytics/service.py:326`), and a service whose provider fails
  replaces what it remembers by an older row (`bulk_posting/service.py:157-168`).
  The last of these appeared only in the proof: a thread that had taken its time
  before the outage finds the older row too old and pays again.
* `WorkspaceIsCreators`: a connection is replaced by a request that had found the
  name free.
* `OneActive`: of two activations that do not see each other both stay active. A
  prompt is compiled from the active document although the docstring
  (`human_delivery/service.py:574`) says "never the live prompt", and separators
  do not count in its budget.

## 4. Fairness

`ReplyPipeline` (`FairSpec`) assumes weak fairness of each worker's steps (the
worker loops of `src/main.py:754-800` call the bot until the process stops, and
every client call has a timeout), of the clock (`available_at` and
`permit_expires_at` pass), of a process that starts (`railway.json` restarts a
container that fails) and of a webhook transaction that is open. Nothing is
assumed of fans, creators, operators, of the provider's acceptance or of the
delivery of its events.

`BulkPosting` (`FairSpec`) assumes weak fairness of each scheduler's steps
(`run_bulk_posting_worker`, `src/main.py:893`, calls `run_due` every minute) and
nothing of dashboards. `ModelCalls` assumes it of each job's steps: a job holds a
thread of its pool until it ends, and every request has a timeout. `Mirror`
(`FairSpec`) assumes it of the CRM worker, which `run_crm_worker` calls in a loop;
nothing of the import, whose batches the operator starts.

Each liveness property names the states in which the code gives up, and says
nothing more.

## 5. Proofs

TLAPS checks every theorem below from the named assumptions on constants, which
are no stronger than what the code or its settings fix (message numbers are
positive, limits are positive, sets of workers are finite where something is
counted per worker; the sections before the question leave it room in a prompt).
Five of the proof modules extend several modules that share no state; the
specification a theorem names says which it is about.

| Theorem | States | Argument |
|---|---|---|
| **`ReplyPipelineProofs`** | | |
| `TypeCorrect` | `TypeOK` | part of the inductive invariant |
| `SentAtMostOnce` | `SentOnce` | a row leaves `pending` only unattempted, and no step makes an attempted row pending |
| `RequestsCommitted` | `OnlyAfterCommit` | requests, workers that post and rows recovery has read all have one attempt |
| `PipelineImplementsLedger` | `ImplementsLedger` | every step maps to a ledger step or a stutter |
| `RowsTellOneStory` | `RowsAgree`, if `MaxStarts = 0` | `AgreeInv`: what each open transaction has read |
| `TakeoverIsFinal` | `NoDraftAfterTakeover`, if `MaxStarts = 0` | `Takeover`: a covered row is done or has a reply already; `Onward`: nothing reopens it |
| `OptOutIsQuiet` | `QuietAfterOptOut` | a permit carries the policy version |
| **`BulkPostingProofs`** | | |
| `BulkTypeCorrect`, `SubmittedByOne` | `TypeOK`, `OneSubmitter` | whoever submits has the `submitting` row, and a second row is impossible |
| `RecurrencesInOrder` | `InOrder` | `Progress` |
| `AttentionIsExplained` | `AttentionExplained` | an occurrence goes wrong and its rule is marked in one transaction |
| `BulkImplementsLedger` | `ImplementsLedger` | every step maps to a ledger step or a stutter |
| **`FanTurnsProofs`** | | |
| `TurnsTypeCorrect`, `TurnsAreTheirMembers` | types, `TurnsMatchMembers` | a turn's times are the least and greatest of its members' |
| `NoMessageLeftOut` | `MembersUnlessMissed` | `Held`: a message is held by one request, or linked, or excused |
| `OpenPlansAreCurrent` | `OpenPlanIsCurrent` | `Current`: an observation that is under way still cancels |
| `ReopenedByLatePlanOnly` | `ReopenedOnlyByRace` | action by action |
| `WorkspaceHasItsAccount` | `WorkspaceIsCreators` | `RequestOK`: a request stores only over a name it found free |
| **`FanMemoryProofs`** | | |
| `MemoryTypeCorrect`, `OneFactOfAType`, `DeactivatedForGood` | types, `OneActivePerType`, `DeactivatedStaysOut` | |
| `WhatIsSaidIsInForce` | `SaidIsActive` | with `OneActivePerType` |
| `StateOnlyMovesOn` | `StateNeverStale` | `Ordered`: rows still to be written are not older than any field |
| `UsedSubjectsWait` | `CooldownUnlessMentioned` | `Waits` |
| `NobodyIsForgotten` | `PassedForAReason` | `HeadOK`, `NextOK`, `Pending`: where a message is that the poll has not settled |
| **`KnowledgeProofs`** | | |
| `KnowledgeTypeCorrect`, `OneReleaseIsRead` | types, `OneLiveRelease` | |
| `GateHolds` | `ContradictionsReviewed` | `Registered`, `Gated` |
| `OutreachTypeCorrect` | `OutreachTypeOK` | |
| `CooldownIsHeld` | `CooldownHeld` | `CooldownInv`: rows and polls under way are rested |
| `CapsAreHeld` | `CapsUnlessSlipped` | `CapsInv`: what was sent and what is open stay within the cap together |
| `OneIsActive` | `OneActive` | `TxOK`: a transaction nothing has overtaken sees every active revision |
| `PromptHasTheTurn` | `PromptKeepsTurn` | `RoomLeft`: what a prompt holds after each of its blocks |
| `SelectedPasses` | `SelectedPassedGates` | `QuestionIn`: the gates know of the fan's question; `KeptNamed`: an id names one candidate |
| **`PaidSequenceProofs`** | | |
| `SequenceTypeCorrect` | types | |
| `PurchasesCountOnce` | `CountedOnce` | `CountsOK`: what the session and its stored copy know of each other |
| `NoStepTwice` | `NotOfferedTwice` | `WorkerHolds`, `SentBehind`, `Editions` |
| `RepliesAreCredited` | `CreditsJustified` | `Swept`, `Justified`, `Counted` |
| **`BudgetProofs`** | | |
| `BrainTypeCorrect` | types | |
| `OverrunIsBounded` | `OverrunBounded` | inductive: workers in a call beyond the ceiling are counted |
| `AuthorIsCredited` | `CreditedToAuthor` | `Alone`, `Agreed` |
| `TurnIsBounded` | `TurnBounded` | `TurnOK` |
| `BucketsAreHeld` | `BucketsHeld` | `CountersOK`, `Owing` |
| `RequestsAreReserved` | `RequestsReserved` | `BooksOK`: each reservation adds one to the sums it is compared with |
| `BudgetIsHeld` | `BudgetHeld` | `RowHeld`: a row is the sum over its calls; `TakenInRow` |
| `RevenueIsCountedOnce` | `RevenueCountedOnce` | `TotalsHeld`: totals are sums over the references of the fan |
| `ReadsAreKept` | `AskedAgainForAReason` | `Remembered`, and what a thread holds of the lock |
| **`MirrorProofs`** | | |
| `MirrorHasNoGap` | `NoGap` | `HeadsOK`, `FetchedOK` |
| `ImportSkipsNobody` | `NobodyPassedOver` | `IndexOK`, `Covered` |

`TypeOK`, `OneSubmitter`, `TurnsMatchMembers`, `OneActivePerType`,
`DeactivatedStaysOut`, `OneLiveRelease` and `BucketsHeld` are proved and are not
properties of a run. Every induction is of one shape: the initial states, one step
per action, and a last step that puts the facts together. The following say why
the property alone was not inductive.

*Replies.* Recovery acts on rows it read a transaction ago, and a worker on a row
it claimed many steps ago. `IInv` therefore says what a worker knows of its row at
each `pc`, and that everything recovery has found in doubt was attempted
(`FoundCommitted`). The first lemmas of the module show once for each transaction
of `InboxOutbox` that it keeps the rows well formed; the pipeline cites them. The
refinement needs `IdsStored`: a stored provider message id belongs to an accepted
request, which is why a webhook that matches a reply by its id may call it
delivered. `RowsAgree` speaks of committed rows and is kept by transactions that
have read rows before: `AgreeInv` adds what the webhook's open projection has
selected (`SelectedPending`), what recovery has read (`Booting`), and per status
what the other table must say (`RowsStory`). It needs `MaxStarts = 0`: recovery in
a second process is a real counterexample, and the hypothesis is that of the run.

*Posts.* `InOrder` needs to know what lies behind a thread: `ThreadOK` says that
the posts before its own are submitted, that an `advance` has them all, and that
no recurrence it still has to do is beyond what the rule has reached. With the
compare-and-set of `Advance` this makes skipping impossible although rows were
read long ago.

*Outreach.* The caps are checked long before a send, so nothing bounds the sent
messages alone. The invariant bounds the load: messages counted in the window
plus rows that are still open, with the polls between two of their reads. A tick
moves messages out of the window and never into it (`TickCounted`), the list of
sent messages drops only what no window reaches (`ForgottenSome`), and both are
shown by an injection between finite sets. Proving it found an error of the model:
two alternatives of the step that names a slip overlapped, so a send that was
both blind and late counted as one only. They are exclusive now.

*Sequences.* A purchase is counted by the web thread in a row with a version, and
the session in memory is merged when versions differ. `CountsOK` relates three
numbers (purchases applied, stored, in the session) through the versions.
`NotOfferedTwice` needs that the row a worker holds is of the step it thinks of,
that steps that were sent lie behind the progress of their edition, and that an
edition never comes back.

*Brains.* Two workers may work on one inbound after a lease is lost. `Alone` says
that only such an inbound has two, `Agreed` what worker, decision and outbox row
say of one another at each point. `OverrunBounded` counts the calls in flight with
the recorded costs: the check of the ceiling admits a worker only while the
recorded costs are below it, so all workers together pass it by less than one
call each.

*Budgets and revenue.* A row of the credit books is a number that `reserve` and
`finalize` add to and take from; the code never adds up the calls behind it.
`RowHeld` says that it is that sum, and `TakenInRow` that what the classes took of
a month is part of the month's row, so that the comparison `reserve` makes with
the row bounds them. Sums are cardinalities of sets of units (`Totals`): how a
sum changes when one element changes is then a fact about finite sets
(`CountChanges`) and needs no induction. The same lemma serves the buckets of
Brain 2.0 (`RequestsReserved`) and the totals of a fan (`TotalsHeld`), which tips
and refunds move in both directions.

*Kept reads.* `AskedAgainForAReason` compares two reads that were paid for. The
invariant says that a service remembers nothing older than its last answer
(`Remembered`) and what a thread that holds the lock has seen. It is false once
the service has fallen back to an older row, which the first bounds of the run
were too small to reach; the property names that case now, and the run's bounds
reach it.

*Prompt documents.* Under READ COMMITTED an activation archives the revisions it
saw. `TxOK` says that a transaction which no other has overtaken sees every active
revision of its type; of the others the property says nothing.

*What a loop leaves.* A compiled prompt and the list of candidates are recursive
functions, and what they compute is proved for every list. The library's induction
takes a predicate as a parameter, which no prover here can instantiate. Its
first-order form says that a relation is well founded, from which a set of numbers
has a least member (`Least`); a set that has 0 and the next of each of its members
is then all of them (`Induct`), and a recursion over 0..n has a result
(`Recursion`), which is what a recursive definition needs before its equation may
be used (`PartsByBlock`, `PutsBySection`, `KeptNamed`). With that, `RoomLeft` says
that the blocks before the turn leave it room: it is an invariant of the loop,
not of the state machine.

*Choice of a reply.* The gates of V3 read the question from the compiled prompt,
the property speaks of the turn. `QuestionIn` joins them: the sections before the
question fit together with it (`PlannerAssumption`), and no section after it takes
it out. The lookup by id finds the text the gates passed because the ids of the
candidates that are kept differ (`Named`); a replacement's id is the judge's, hence
the exception.

*Recovery.* The poll walks a list that is sorted again at each page. A chat that
waits and has not come above the poll's place is in the poll's own list or still
below the place (`Pending`). The head that is stored is the newest message when a
poll began, and a later poll stops there, so `HeadOK` says that nobody waits at the
head or below, `NextOK` the same of the head to be stored but for the chats that
are pending, and `ScanOK` that a scan which is whole has every message above the
checkpoint it started from. The place of a chat is the number of chats above it,
a cardinality, and needs no induction over the list.

*Outcomes.* A message is credited in three transactions. `Swept` says which
rows are left to a message that has swept: a turn without a row, or one that is
open though its window is over, had no row at the sweep. `Justified` is the
property with the message's own progress. `Counted` needs the messages that came after a
turn as a set, because a row may be credited by one and counted by another.

*Connections.* A request finds the name of an account free or taken, and stores
several calls later. `RequestOK` keeps what it has found, and the rows need that a
cached client belongs to a creator that is stored.

*Mirror.* `NoGap` speaks of what is complete. The invariant adds the cursor of a
catch-up that several cycles share and the page that is stored but not recorded.
For the import, `Covered` says that everything the index lists before the
import's place has been looked at or is in the batch that was read: a chat that
writes moves up to the top and shifts the others down by one, and its message is
answered from the webhook.

**Only model-checked:** liveness (`SendingSettlesOrSuperseded`, `QueueSettles`,
`DueIsSettled`, `RowSettles`, `CatchesUp`), because fairness and `ENABLED` are beyond
the prover. Every other property of a run is the statement of a theorem.

## 6. Not modelled, and why

* Text generation, parsing, signatures, presentation: pure functions or I/O; what
  a model answers, and what a gate says of a text, is a choice.
* Fan profiling and text shaping: sequential transformations without shared state.
* The `enabled` flag of a bot: it only delays workers, and fairness would have to
  except it. The rotation of chat ids and the linter of documents.
* The calendar of `_next_occurrence` and expiry dates of posts.
* Code that nothing calls in this version: `ContactClaimRepository.claim`,
  `paused_until`, `ProviderDeliveryUnknownError`, `hydrate_recent`,
  `experiments.assign`, `mark_sent`, `mark_purchased` and `mark_skipped` of the
  sequence engine, the sender of mass messages.

Some modelled code is dormant: the shadow worker of human delivery (`close_ready`,
`plan_shadow`) is called by tests only, no client is given the credit governor,
and `/webhooks/onlyfansapi/fansly` answers 410, so that its handlers are reached
by tests. V3 is asked for rows of the kind "unread" only.

## 7. Plan

The calendar of `_next_occurrence` as a pure function against a reference
definition, for the date that drifts when a month is short.
