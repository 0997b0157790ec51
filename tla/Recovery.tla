------------------------------- MODULE Recovery -------------------------------
(***************************************************************************)
(* The bounded recovery poll that finds what no webhook brought: the list  *)
(* of chats, page by page, down to the head of the last complete poll; for *)
(* each changed chat its messages down to the chat's checkpoint; inbound   *)
(* rows, then the checkpoint, then the head.  Webhooks and the backlog     *)
(* import write the same rows; fans, and the creator by hand, go on        *)
(* writing.  The provider is external: its messages are numbered as they   *)
(* come, and a chat's head is its newest message.                          *)
(***************************************************************************)
EXTENDS Integers, Sequences, FiniteSets, FiniteSetsExt

CONSTANTS
    Chats,
    PageSize,     \* messages on a page (list_messages clamps it to ten)
    MessagePages, \* recovery_message_pages_per_chat, by conversation mode
    ChatPages,    \* recovery_chat_pages_per_run, of one chat each
    MaxLog,       \* the bound on messages
    MaxErrors     \* the bound on errors and stops

ASSUME RecoveryAssumption ==
    /\ IsFiniteSet(Chats) /\ PageSize \in Nat
    /\ MessagePages \in [BOOLEAN -> Nat \ {0}] /\ ChatPages \in Nat
    /\ MaxLog \in Nat /\ MaxErrors \in Nat

VARIABLES
    chatting,     \* BotMode.CONVERSATION, else FULL_PPV
    log,          \* the provider's messages, [chat, fan]
    read,         \* the newest message of a chat the creator has opened
    rows,         \* inbound_messages, by platform message
    covered,      \* messages whose text is in a row
    checkpoint,   \* conversations.last_platform_message_id, 0 when there is none
    resume,       \* conversations.provider_cursor, 0 when there is none
    head,         \* poll_cursors.cursor of the chat scope, 0 when there is none
    poll, scan,   \* the poll in progress, the chat it is scanning
    backlog,      \* the chat the backlog import has marked and not queued
    excused,      \* messages passed over for a known reason (history)
    beyond,       \* chats a poll left below its pages or that passed its place (history)
    quiet,        \* the provider has not changed since the poll began (history)
    errors

provider == <<log, read>>
inbox == <<rows, covered>>
marks == <<checkpoint, resume>>
recoveryVars ==
    <<chatting, provider, inbox, marks, head, poll, scan, backlog, excused, beyond, quiet, errors>>

Idle == [at |-> "idle", offset |-> 0, next |-> 0, todo |-> <<>>, ok |-> TRUE]
NoScan == [on |-> FALSE]

RecoveryInit ==
    /\ chatting \in BOOLEAN
    /\ log = <<>> /\ read = [c \in Chats |-> 0]
    /\ rows = {} /\ covered = {}
    /\ checkpoint = [c \in Chats |-> 0] /\ resume = [c \in Chats |-> 0]
    /\ head = 0
    /\ poll = Idle /\ scan = NoScan /\ backlog = {}
    /\ excused = {} /\ beyond = {} /\ quiet = FALSE
    /\ errors = 0

-----------------------------------------------------------------------------
MessagesOf(c) == {n \in DOMAIN log : log[n].chat = c}
ByFan(S) == {n \in S : log[n].fan}
Latest(c) == Max(MessagesOf(c))
Unread(c) == Cardinality(ByFan({n \in MessagesOf(c) : n > read[c]}))
Answered(n) == \E k \in MessagesOf(log[n].chat) : k > n /\ ~log[k].fan

\* The k newest of a set of messages.
NewestOf(S, k) == {n \in S : Cardinality({m \in S : m > n}) < k}

\* The order the provider lists chats in: by activity, with "unread" the unread first.
\* A page is asked for by its place in the list.
Written == {c \in Chats : MessagesOf(c) # {}}
Before(c, d) ==
    IF chatting /\ (Unread(c) > 0) # (Unread(d) > 0) THEN Unread(c) > 0 ELSE Latest(c) > Latest(d)
Place(c) == Cardinality({d \in Written : Before(d, c)}) + 1

\* The list moves under a poll: a chat that comes above its place is not listed.
Moves(c) ==
    beyond' = IF poll.at # "list" THEN beyond
              ELSE beyond \cup {d \in Written \ {c} : Place(d) > poll.offset /\ Place(d)' =< poll.offset}

Post(c, fan) ==
    /\ Len(log) < MaxLog
    /\ log' = Append(log, [chat |-> c, fan |-> fan])
    /\ read' = IF fan THEN read ELSE [read EXCEPT ![c] = Len(log) + 1]
    /\ quiet' = FALSE
    /\ UNCHANGED <<chatting, inbox, marks, head, poll, scan, backlog, excused, errors>>
    /\ Moves(c)

Open(c) ==
    /\ Unread(c) > 0
    /\ read' = [read EXCEPT ![c] = Latest(c)]
    /\ quiet' = FALSE
    /\ UNCHANGED <<chatting, log, inbox, marks, head, poll, scan, backlog, excused, errors>>
    /\ Moves(c)

ByWebhook(n) ==
    /\ log[n].fan /\ n \notin rows
    /\ rows' = rows \cup {n}
    /\ covered' = covered \cup {n}
    /\ UNCHANGED <<chatting, provider, marks, head, poll, scan, backlog, excused, beyond, quiet, errors>>

-----------------------------------------------------------------------------
\* reconcile_provider reads the head; _fetch_incremental_chats reads a page at a time.
Begin ==
    /\ poll.at = "idle"
    /\ poll' = [Idle EXCEPT !.at = "list"]
    /\ quiet' = TRUE
    /\ UNCHANGED <<chatting, provider, inbox, marks, head, scan, backlog, excused, beyond, errors>>

Wanted(c) ==
    IF chatting
    THEN Unread(c) > 0 /\ checkpoint[c] # Latest(c)
    ELSE \/ Latest(c) # head /\ (head = 0 \/ checkpoint[c] # Latest(c))
         \/ Unread(c) > 0

ListPage ==
    /\ poll.at = "list"
    /\ \E c \in Written :
       LET seen == [chat |-> c, last |-> Latest(c), unread |-> Unread(c)]
           next == IF poll.next = 0 THEN Latest(c) ELSE poll.next
           reached == head # 0 /\ Latest(c) = head
           done == reached \/ poll.offset + 1 \in {ChatPages, Cardinality(Written)}
       IN /\ Place(c) = poll.offset + 1
          /\ poll' = [poll EXCEPT
                          !.at = IF done THEN "ingest" ELSE "list",
                          !.offset = poll.offset + 1,
                          !.next = next,
                          !.todo = IF Wanted(c) THEN Append(poll.todo, seen) ELSE poll.todo]
          /\ beyond' = IF done /\ ~reached
                       THEN beyond \cup {d \in Written : Place(d) > Place(c)}
                       ELSE beyond
    /\ UNCHANGED <<chatting, provider, inbox, marks, head, scan, backlog, excused, quiet, errors>>

\* The list is empty, or grew shorter under the poll: there is no further page.
NoPage ==
    /\ poll.at = "list"
    /\ poll.offset >= Cardinality(Written)
    /\ poll' = [poll EXCEPT !.at = "ingest"]
    /\ UNCHANGED <<chatting, provider, inbox, marks, head, scan, backlog, excused, beyond, quiet, errors>>

-----------------------------------------------------------------------------
\* _ingest_chat_messages: pages from the newest, or from the cursor of a scan cut short,
\* down to the checkpoint, the first message or, in a chat never seen, the unread ones.
Within(n, cursor) == cursor = 0 \/ n < cursor
Ends(S, all, known, unread) ==
    known \in S \/ S = all \/ (known = 0 /\ Cardinality(ByFan(S)) >= unread)

Fetch ==
    /\ poll.at = "ingest" /\ poll.todo # <<>> /\ ~scan.on
    /\ LET seen == Head(poll.todo)
           c == seen.chat
           known == checkpoint[c]
           all == {n \in MessagesOf(c) : Within(n, resume[c])}
           page(k) == NewestOf(all, k * PageSize)
           ends(k) == Ends(page(k), all, known, seen.unread)
       IN \E last \in 1..MessagePages[chatting] :
             /\ ends(last) \/ last = MessagePages[chatting]
             /\ \A k \in 1..last - 1 : ~ends(k)
             /\ scan' = [on |-> TRUE, seen |-> seen, known |-> known, from |-> resume[c],
                         whole |-> ends(last), unseen |-> {n \in page(last) : n > known}]
    /\ UNCHANGED <<chatting, provider, inbox, marks, head, poll, backlog, excused, beyond, quiet, errors>>

\* A read chat met for the first time sets the baseline and is not scanned.
Baseline == scan.known = 0 /\ scan.seen.unread = 0

\* The fan's messages found; of a chat never seen, as many as were unread in the list.
Found ==
    IF scan.known = 0 THEN NewestOf(ByFan(scan.unseen), scan.seen.unread) ELSE ByFan(scan.unseen)

\* The rows to insert: each message, or in conversation mode one row that has them all,
\* and none when the creator spoke last.
ToInsert ==
    IF Baseline \/ Found = {} THEN {}
    ELSE IF ~chatting THEN Found
    ELSE IF log[Max(scan.unseen)].fan THEN {Max(Found)} ELSE {}

\* The text a row brings; a row that is there already keeps the text it has.
Texts(new) == IF chatting /\ new # {} THEN (IF new \subseteq rows THEN {} ELSE Found) ELSE new

\* Why a message up to the new checkpoint may be in no row.
Reasons ==
    LET c == scan.seen.chat IN
    {n \in ByFan(MessagesOf(c)) : n <= scan.seen.last /\
        \/ scan.known = 0 /\ (Baseline \/ n \notin Found)
        \/ chatting /\ ~scan.whole /\ n \notin scan.unseen
        \/ ~Within(n, scan.from)
        \/ chatting /\ n \in Found /\ ToInsert \subseteq rows}

\* Mutant: The checkpoint moves after a scan cut short as after a whole one.
CheckpointAlways ==
    LET c == scan.seen.chat IN
    /\ checkpoint' = [checkpoint EXCEPT ![c] = scan.seen.last]
    /\ resume' = [resume EXCEPT ![c] = 0]
    /\ poll' = [poll EXCEPT !.todo = Tail(poll.todo)]
    /\ excused' = IF Baseline \/ scan.whole \/ chatting THEN excused \cup Reasons ELSE excused
    /\ beyond' = beyond \ {c}
Checkpoint ==
    LET c == scan.seen.chat
        whole == scan.whole \/ chatting
    IN /\ checkpoint' = [checkpoint EXCEPT ![c] = IF Baseline \/ whole THEN scan.seen.last ELSE scan.known]
       /\ resume' = [resume EXCEPT ![c] = IF Baseline \/ whole THEN 0 ELSE Min(scan.unseen)]
       /\ poll' = [poll EXCEPT !.todo = Tail(poll.todo), !.ok = poll.ok /\ (Baseline \/ whole)]
       /\ excused' = IF Baseline \/ whole THEN excused \cup Reasons ELSE excused
       /\ beyond' = beyond \ {c}

Ingest ==
    /\ scan.on
    /\ rows' = rows \cup ToInsert
    /\ covered' = covered \cup Texts(ToInsert)
    /\ Checkpoint
    /\ scan' = NoScan
    /\ UNCHANGED <<chatting, provider, head, backlog, quiet, errors>>

\* An error in a chat: some rows are in, the checkpoint is not, the poll goes on.
IngestFails ==
    /\ scan.on /\ errors < MaxErrors
    /\ \E k \in 0..Cardinality(ToInsert) :
          LET new == ToInsert \ NewestOf(ToInsert, k) IN
          /\ rows' = rows \cup new
          /\ covered' = covered \cup Texts(new)
    /\ poll' = [poll EXCEPT !.todo = Tail(poll.todo), !.ok = FALSE]
    /\ scan' = NoScan
    /\ errors' = errors + 1
    /\ UNCHANGED <<chatting, provider, marks, head, backlog, excused, beyond, quiet>>

\* A stop, or an error while the chats are listed: the poll is gone.
Stop ==
    /\ poll.at # "idle" /\ errors < MaxErrors
    /\ poll' = [Idle EXCEPT !.ok = FALSE]
    /\ scan' = NoScan
    /\ errors' = errors + 1
    /\ UNCHANGED <<chatting, provider, inbox, marks, head, backlog, excused, beyond, quiet>>

\* The head moves only when every chat was scanned to its end.
Finish ==
    /\ poll.at = "ingest" /\ poll.todo = <<>>
    /\ head' = IF poll.ok /\ poll.next # 0 THEN poll.next ELSE head
    /\ poll' = [Idle EXCEPT !.ok = poll.ok]
    /\ UNCHANGED <<chatting, provider, inbox, marks, scan, backlog, excused, beyond, quiet, errors>>

-----------------------------------------------------------------------------
\* _ingest_unanswered_chat: one page; the checkpoint first, then the trailing block.
Mark(c) ==
    /\ chatting /\ backlog = {} /\ MessagesOf(c) # {}
    /\ LET page == NewestOf(MessagesOf(c), PageSize) IN
       /\ checkpoint' = [checkpoint EXCEPT ![c] = Latest(c)]
       /\ resume' = [resume EXCEPT ![c] = 0]
       /\ backlog' = {n \in page : ~Answered(n) /\ log[n].fan}
       /\ excused' = excused \cup (ByFan(MessagesOf(c)) \ page)
       /\ beyond' = beyond \ {c}
    /\ UNCHANGED <<chatting, provider, inbox, head, poll, scan, quiet, errors>>

Queue ==
    /\ backlog # {}
    /\ LET newest == Max(backlog) IN
       /\ rows' = rows \cup {newest}
       /\ IF newest \in rows
          THEN excused' = excused \cup backlog /\ covered' = covered
          ELSE covered' = covered \cup backlog /\ excused' = excused
    /\ backlog' = {}
    /\ UNCHANGED <<chatting, provider, marks, head, poll, scan, beyond, quiet, errors>>

\* A stop between the two: only the batch, run again, finds the block.
StopBacklog ==
    /\ backlog # {} /\ errors < MaxErrors
    /\ excused' = excused \cup backlog
    /\ backlog' = {}
    /\ errors' = errors + 1
    /\ UNCHANGED <<chatting, provider, inbox, marks, head, poll, scan, beyond, quiet>>

RecoveryNext ==
    \/ \E c \in Chats : Open(c) \/ Mark(c) \/ \E fan \in BOOLEAN : Post(c, fan)
    \/ \E n \in DOMAIN log : ByWebhook(n)
    \/ Begin \/ ListPage \/ NoPage \/ Fetch \/ Ingest \/ IngestFails \/ Stop \/ Finish
    \/ Queue \/ StopBacklog

RecoverySpec == RecoveryInit /\ [][RecoveryNext]_recoveryVars

-----------------------------------------------------------------------------
Settled(n) ==
    n \in covered \cup excused \cup backlog \/ (chatting /\ Answered(n))

\* A checkpoint passes over a fan's message only when its text is in a row, the creator
\* answered it, or for a reason the code knows (Reasons, Mark, StopBacklog); and after a poll
\* that met no error, while the provider was quiet, every unread message is settled except
\* in a chat below the page cap (reconcile_provider, _ingest_chat_messages).
PassedForAReason ==
    /\ \A n \in ByFan(DOMAIN log) : n <= checkpoint[log[n].chat] => Settled(n)
    /\ poll.at = "idle" /\ poll.ok /\ quiet =>
          \A c \in Chats \ beyond : Unread(c) > 0 => Settled(Latest(c))
=============================================================================
