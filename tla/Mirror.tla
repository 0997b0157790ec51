--------------------------------- MODULE Mirror ---------------------------------
(***************************************************************************)
(* The CRM mirror: one worker copies the provider's chats and messages     *)
(* into the local store, a bounded number of pages per cycle               *)
(* (crm/sync.py, persistence/crm.py, run_crm_worker in main.py); and the   *)
(* import of unanswered chats, which walks the same index in batches the   *)
(* operator starts one by one (unread_backlog.py, bot.py).                 *)
(*                                                                         *)
(* A chat's messages are numbered from 1.  A page holds the Page messages  *)
(* up to a cursor, the next cursor is the first number below it, and 0     *)
(* stands for no cursor.  The provider lists chats by their newest         *)
(* message; each has one.                                                  *)
(***************************************************************************)
EXTENDS Naturals, Sequences, FiniteSets

CONSTANTS
    Chats,
    Refusing,       \* those whose messages the provider does not give out
    Page,           \* messages in a page
    IndexPage,      \* chats in a page of the index
    DiscoveryPages, \* discovery_page_budget
    Budget,         \* message_page_budget
    Batch,          \* MAX_BATCH_CHATS
    Oldest,         \* the number of messages each chat starts with
    MaxArrivals, MaxFaults  \* bounds

ASSUME MirrorAssumption ==
    /\ IsFiniteSet(Chats) /\ Refusing \subseteq Chats
    /\ Page \in Nat \ {0} /\ IndexPage \in Nat \ {0}
    /\ DiscoveryPages \in Nat \ {0} /\ Budget \in Nat \ {0}
    /\ Batch \in Nat \ {0}
    /\ Oldest \in [Chats -> Nat \ {0}]
    /\ MaxArrivals \in Nat /\ MaxFaults \in Nat

VARIABLES
    sent,       \* the provider's messages of each chat
    recent,     \* its chats, the one with the newest message first
    row,        \* crm_chat_sync
    synced,     \* the chats by last_synced_at, those never synced left out
    stored,     \* fan_messages: the messages of each chat that are copied
    discovery,  \* poll cursor of the discovery: how many chats it has passed
    cycle,      \* where the worker stands in sync_cycle
    backlog,    \* the import: its stored phase and cursor, and the batch at work
    looked,     \* the chats this import has looked at, or that wrote meanwhile
    arrivals, faults

provider == <<sent, recent>>
mirror == <<row, synced, stored, discovery, cycle>>
import == <<backlog, looked>>
bounds == <<arrivals, faults>>
vars == <<provider, mirror, import, bounds>>

NoRow == [known |-> FALSE, head |-> 0, copied |-> 0, cursor |-> 0, backfill |-> 0,
          complete |-> FALSE]
Cycle(pc, pages, left) ==
    [pc |-> pc, pages |-> pages, left |-> left, page |-> {}]
Idle == Cycle("idle", 0, {})

TypeOK ==
    /\ sent \in [Chats -> Nat] /\ recent \in Seq(Chats) /\ synced \in Seq(Chats)
    /\ row \in [Chats -> [known : BOOLEAN, head : Nat, copied : Nat, cursor : Nat,
                          backfill : Nat, complete : BOOLEAN]]
    /\ stored \in [Chats -> SUBSET Nat]
    /\ discovery \in 0..Cardinality(Chats)
    /\ cycle \in [pc : {"idle", "discover", "fetch", "advance"}, pages : Nat,
                  left : SUBSET Chats,
                  page : SUBSET [of : Chats, kind : {"initial", "incremental", "backfill"},
                                 next : Nat, found : BOOLEAN]]
    /\ backlog \in [phase : {"not_started", "running", "awaiting_review", "complete",
                              "failed", "interrupted"},
                    at : Nat, batch : Seq(Chats), read : BOOLEAN]
    /\ looked \subseteq Chats
    /\ arrivals \in 0..MaxArrivals /\ faults \in 0..MaxFaults

Without(seq, c) == SelectSeq(seq, LAMBDA d : d # c)

\* The index after chat c wrote: c first, those it passed one place down.
ToTop(c) ==
    LET place == CHOOSE i \in DOMAIN recent : recent[i] = c IN
    [i \in DOMAIN recent |->
        IF i = 1 THEN c ELSE IF i <= place THEN recent[i - 1] ELSE recent[i]]

Init ==
    /\ sent = Oldest
    /\ recent \in {seq \in [1..Cardinality(Chats) -> Chats] : \A c \in Chats : \E i \in DOMAIN seq : seq[i] = c}
    /\ row = [c \in Chats |-> NoRow] /\ synced = <<>>
    /\ stored = [c \in Chats |-> {}]
    /\ discovery = 0 /\ cycle = Idle
    /\ backlog = [phase |-> "not_started", at |-> 0, batch |-> <<>>, read |-> FALSE]
    /\ looked = {} /\ arrivals = 0 /\ faults = 0

\* The fan or the creator writes: the chat moves to the top of the index.
Arrive(c) ==
    /\ arrivals < MaxArrivals /\ arrivals' = arrivals + 1
    /\ sent' = [sent EXCEPT ![c] = @ + 1]
    /\ recent' = ToTop(c)
    /\ looked' = looked \cup {c}
    /\ UNCHANGED <<mirror, backlog, faults>>

-----------------------------------------------------------------------------
(* The index of chats.                                                     *)

Discovered == Cardinality(Chats)
Smaller(a, b) == IF a < b THEN a ELSE b
Below(a, b) == IF a > b THEN a - b ELSE 0

\* The chats of the page after the first from, and where the next one starts.
IndexedFrom(from) == {recent[i] : i \in (from + 1)..Smaller(from + IndexPage, Len(recent))}
NextIndex(from) == Smaller(from + IndexPage, Discovered)

\* Mutant: the incremental cursor outlives the head it was for.
RecordedOnly(page) ==
    [c \in Chats |->
        IF c \notin page THEN row[c]
        ELSE [row[c] EXCEPT !.known = TRUE, !.head = sent[c]]]

\* _record_discovered, discover_chats: a head that differs starts the
\* incremental pages over.
Recorded(page) ==
    [c \in Chats |->
        IF c \notin page THEN row[c]
        ELSE [row[c] EXCEPT !.known = TRUE, !.head = sent[c],
                            !.cursor = IF row[c].head # sent[c] THEN 0 ELSE @]]

\* refresh_chat_index: the newest page; its cursor begins the discovery.
Refresh ==
    /\ cycle.pc = "idle"
    /\ row' = Recorded(IndexedFrom(0))
    /\ discovery' = IF discovery = 0 THEN NextIndex(0) ELSE discovery
    /\ cycle' = Cycle("discover", DiscoveryPages - 1, {})
    /\ UNCHANGED <<provider, synced, stored, import, bounds>>

\* _discover_chats: further pages, until it is through once and for all.
Discover ==
    /\ cycle.pc = "discover" /\ cycle.pages > 0 /\ discovery < Discovered
    /\ row' = Recorded(IndexedFrom(discovery))
    /\ discovery' = NextIndex(discovery)
    /\ cycle' = [cycle EXCEPT !.pages = @ - 1]
    /\ UNCHANGED <<provider, synced, stored, import, bounds>>

-----------------------------------------------------------------------------
(* The messages.                                                           *)

HasNewHead(c) == row[c].head # row[c].copied
NeverSynced(c) == \A i \in DOMAIN synced : synced[i] # c
\* Mutant: a chat whose history is not complete is pending for a new head only.
PendingHeads == {c \in Chats : row[c].known /\ HasNewHead(c)}

Pending == {c \in Chats : row[c].known /\ (HasNewHead(c) \/ ~row[c].complete)}

\* The ORDER BY of pending; a tie among the never synced is open.
Before(c, d) ==
    \/ HasNewHead(c) /\ ~HasNewHead(d)
    \/ /\ HasNewHead(c) <=> HasNewHead(d)
       /\ ~NeverSynced(d)
       /\ \/ NeverSynced(c)
          \/ \E i, j \in DOMAIN synced : i < j /\ synced[i] = c /\ synced[j] = d

Pick(chosen) ==
    /\ cycle.pc = "discover" /\ (cycle.pages = 0 \/ discovery = Discovered)
    /\ chosen \subseteq Pending
    /\ Cardinality(chosen) = Smaller(Budget, Cardinality(Pending))
    /\ \A c \in chosen, d \in Pending \ chosen : ~Before(d, c)
    /\ cycle' = IF chosen = {} THEN Idle ELSE Cycle("fetch", 0, chosen)
    /\ UNCHANGED <<provider, row, synced, stored, discovery, import, bounds>>

Kind(c) ==
    IF HasNewHead(c) \/ NeverSynced(c)
    THEN IF row[c].copied = 0 THEN "initial" ELSE "incremental"
    ELSE "backfill"

\* The number a page starts at.
From(c) ==
    CASE Kind(c) = "backfill" -> row[c].backfill
      [] Kind(c) # "backfill" /\ row[c].cursor # 0 -> row[c].cursor
      [] OTHER -> sent[c]

\* _sync_incremental_page and _sync_backfill_page up to _save_messages.
Fetch(c) ==
    /\ cycle.pc = "fetch" /\ c \in cycle.left \ Refusing
    /\ LET from == From(c)
           next == Below(from, Page)
       IN  /\ stored' = [stored EXCEPT ![c] = @ \cup ((next + 1)..from)]
           /\ cycle' = [cycle EXCEPT !.pc = "advance", !.left = @ \ {c},
                  !.page = {[of |-> c, kind |-> Kind(c), next |-> next,
                             found |-> row[c].copied \in (next + 1)..from]}]
    /\ UNCHANGED <<provider, row, synced, discovery, import, bounds>>

\* complete_initial_page, complete_incremental, continue_incremental and
\* advance_backfill.
Advanced(page) ==
    LET r == row[page.of] IN
    CASE page.kind = "initial" ->
            [r EXCEPT !.copied = r.head, !.cursor = 0,
                      !.backfill = page.next, !.complete = (page.next = 0)]
      [] page.kind = "incremental" /\ (page.found \/ page.next = 0) ->
            [r EXCEPT !.copied = r.head, !.cursor = 0]
      [] page.kind = "incremental" /\ ~page.found /\ page.next # 0 ->
            [r EXCEPT !.cursor = page.next]
      [] page.kind = "backfill" ->
            [r EXCEPT !.backfill = page.next, !.complete = (page.next = 0)]

Rest(left) == IF left = {} THEN Idle ELSE Cycle("fetch", 0, left)

Advance ==
    /\ cycle.pc = "advance"
    /\ \E page \in cycle.page :
          /\ row' = [row EXCEPT ![page.of] = Advanced(page)]
          /\ synced' = Append(Without(synced, page.of), page.of)
    /\ cycle' = Rest(cycle.left)
    /\ UNCHANGED <<provider, stored, discovery, import, bounds>>

\* mark_error: the row keeps its place in the order.
Skip(c) ==
    /\ cycle.pc = "fetch" /\ c \in cycle.left
    /\ cycle' = Rest(cycle.left \ {c})
    /\ UNCHANGED <<provider, row, synced, stored, discovery, import, arrivals>>

Refused(c) == c \in Refusing /\ Skip(c) /\ UNCHANGED faults

\* An error of one request.
Fails(c) == faults < MaxFaults /\ faults' = faults + 1 /\ Skip(c)

-----------------------------------------------------------------------------
(* The import of unanswered chats.                                         *)

\* start, refused while a batch runs: a thread is started on the stored cursor.
\* An import that was complete begins anew.
Start ==
    /\ backlog.phase # "running"
    /\ backlog' = [backlog EXCEPT !.phase = "running", !.read = FALSE]
    /\ looked' = IF backlog.at = 0 THEN {} ELSE looked
    /\ UNCHANGED <<provider, mirror, bounds>>

\* import_unread_backlog_batch reads the index once.
ReadIndex ==
    /\ backlog.phase = "running" /\ ~backlog.read
    /\ backlog' = [backlog EXCEPT !.read = TRUE,
           !.batch = SubSeq(recent, backlog.at + 1, Smaller(backlog.at + Batch, Discovered))]
    /\ UNCHANGED <<provider, mirror, looked, bounds>>

\* _ingest_unanswered_chat
LookAt ==
    /\ backlog.phase = "running" /\ backlog.batch # <<>>
    /\ looked' = looked \cup {Head(backlog.batch)}
    /\ backlog' = [backlog EXCEPT !.batch = Tail(@)]
    /\ UNCHANGED <<provider, mirror, bounds>>

\* The rest of _run: where the next batch begins, or that there is none.
Save ==
    /\ backlog.phase = "running" /\ backlog.read /\ backlog.batch = <<>>
    /\ LET next == Smaller(backlog.at + Batch, Discovered) IN
          backlog' = [phase |-> IF next = Discovered THEN "complete" ELSE "awaiting_review",
                      at |-> IF next = Discovered THEN 0 ELSE next,
                      batch |-> <<>>, read |-> FALSE]
    /\ UNCHANGED <<provider, mirror, looked, bounds>>

\* Mutant: the cursor is saved before the batch has been looked at.
HaltedAfter(phase) == [phase |-> phase, at |-> backlog.at + Batch, batch |-> <<>>, read |-> FALSE]

Halted(phase) == [phase |-> phase, at |-> backlog.at, batch |-> <<>>, read |-> FALSE]

\* An exception: what was queued stays queued, the cursor stays where it was.
BatchFails ==
    /\ backlog.phase = "running" /\ faults < MaxFaults /\ faults' = faults + 1
    /\ backlog' = Halted("failed")
    /\ UNCHANGED <<provider, mirror, looked, arrivals>>

-----------------------------------------------------------------------------
\* The process stops and starts again: the cycle is lost, and a batch that was
\* running is marked by the constructor of UnreadBacklogController.
Stop ==
    /\ faults < MaxFaults /\ faults' = faults + 1
    /\ cycle' = Idle
    /\ backlog' = IF backlog.phase = "running" THEN Halted("interrupted") ELSE backlog
    /\ UNCHANGED <<provider, row, synced, stored, discovery, looked, arrivals>>

Worker ==
    \/ Refresh \/ Discover \/ Advance
    \/ \E chosen \in SUBSET Chats : Pick(chosen)
    \/ \E c \in Chats : Fetch(c) \/ Refused(c)

Next ==
    \/ Worker \/ Stop
    \/ Start \/ ReadIndex \/ LookAt \/ Save \/ BatchFails
    \/ \E c \in Chats : Arrive(c) \/ Fails(c)

Spec == Init /\ [][Next]_vars

\* run_crm_worker runs a cycle, waits and runs the next.
FairSpec == Spec /\ WF_vars(Worker)

-----------------------------------------------------------------------------
\* The row of a chat never claims more than is copied: between the backfill
\* cursor and the stored head no message is missing, whatever arrived or
\* failed while its pages were read.
NoGap == \A c \in Chats : (row[c].backfill + 1)..row[c].copied \subseteq stored[c]

\* A finished import has passed over no chat: it has looked at each, or the chat
\* wrote meanwhile and is answered from the webhook.  Chats that write move up
\* and shift the others between two batches (page_index of the cursor).
NobodyPassedOver == backlog.phase = "complete" => looked = Chats

\* A chat that wrote after the discovery was through and was pushed off the
\* newest page of the index before the next cycle: no cycle sees it.
Overlooked(c) ==
    /\ discovery = Discovered /\ row[c].head # sent[c]
    /\ \E i \in DOMAIN recent : i > IndexPage /\ recent[i] = c

\* Every chat that gives out its messages is copied in full again and again,
\* unless it is overlooked, and unless the chats that refuse fill the budget
\* of a cycle (pending puts them first every time).
CatchesUp ==
    \A c \in Chats \ Refusing :
        []<>(stored[c] = 1..sent[c] \/ Overlooked(c) \/ Cardinality(Refusing) >= Budget)
=============================================================================
