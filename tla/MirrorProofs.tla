------------------------------ MODULE MirrorProofs ------------------------------
(***************************************************************************)
(* The mirror claims no message it has not copied, and a finished import   *)
(* has looked at every chat, for any number of chats, messages, page and   *)
(* batch sizes, arrivals and faults.                                       *)
(*                                                                         *)
(* NoGap speaks of what is complete; CopiesInv adds what is under way: the *)
(* cursor of an incremental catch-up that several cycles share, and the    *)
(* page a worker has stored but not yet recorded.  NobodyPassedOver speaks *)
(* of the end of an import; ImportInv adds how far the index is covered    *)
(* while it moves under the import.                                        *)
(***************************************************************************)
EXTENDS Mirror, FiniteSetTheorems, SequenceTheorems, TLAPS

-----------------------------------------------------------------------------
(* What is copied.                                                         *)

Rows == [known : BOOLEAN, head : Nat, copied : Nat, cursor : Nat, backfill : Nat,
         complete : BOOLEAN]
Pages == [of : Chats, kind : {"initial", "incremental", "backfill"}, next : Nat,
          found : BOOLEAN]

CopiesType ==
    /\ sent \in [Chats -> Nat]
    /\ row \in [Chats -> Rows]
    /\ stored \in [Chats -> SUBSET Nat]
    /\ cycle \in [pc : {"idle", "discover", "fetch", "advance"}, pages : Nat,
                  left : SUBSET Chats, page : SUBSET Pages]

\* The messages of chat c above from, up to to, are copied.
Holds(c, from, to) == \A i \in Nat : from < i /\ i <= to => i \in stored[c]

\* No head is ahead of the provider; what an unfinished catch-up has passed is
\* copied up to the head it is for.
HeadsOK ==
    \A c \in Chats :
        /\ row[c].head <= sent[c]
        /\ row[c].cursor # 0 => Holds(c, row[c].cursor, row[c].head)
        /\ Holds(c, row[c].backfill, row[c].copied)

\* What recording a fetched page will claim is copied.
PageHolds(page) ==
    LET r == row[page.of] IN
    /\ page.kind \in {"initial", "incremental"} => Holds(page.of, page.next, r.head)
    /\ page.kind = "incremental" /\ page.found => page.next < r.copied
    /\ page.kind = "backfill" => Holds(page.of, page.next, r.copied)

FetchedOK == cycle.pc = "advance" => \A page \in cycle.page : PageHolds(page)

CopiesInv == CopiesType /\ HeadsOK /\ FetchedOK

LEMMA OldestNat == Oldest \in [Chats -> Nat]
BY MirrorAssumption

\* The worker goes on with no page in hand.
CycleReady ==
    /\ cycle'.pc # "advance"
    /\ cycle' \in [pc : {"idle", "discover", "fetch", "advance"}, pages : Nat,
                   left : SUBSET Chats, page : SUBSET Pages]

LEMMA CopiesInit == Init => CopiesInv
<1> SUFFICES ASSUME Init PROVE CopiesInv
    OBVIOUS
<1>1. NoRow \in Rows
      BY DEF NoRow, Rows
<1>2. CopiesType
      BY <1>1, OldestNat DEF Init, CopiesType, Idle, Cycle
<1>3. FetchedOK
      BY DEF Init, FetchedOK, Idle, Cycle
<1>4. HeadsOK
      BY OldestNat DEF Init, HeadsOK, NoRow, Holds
<1> QED
    BY <1>2, <1>3, <1>4 DEF CopiesInv

\* A step of the cycle that touches neither rows nor copies.
LEMMA CycleMoves ==
    ASSUME CopiesInv, UNCHANGED <<sent, row, stored>>, CycleReady
    PROVE  CopiesInv'
BY DEF CycleReady, CopiesInv, CopiesType, HeadsOK, FetchedOK, Holds

LEMMA CopiesUnchanged ==
    ASSUME CopiesInv, UNCHANGED <<row, stored, cycle>>, sent' \in [Chats -> Nat],
           \A c \in Chats : sent[c] <= sent'[c]
    PROVE  CopiesInv'
<1>1. \A c \in Chats : row[c].head \in Nat
      BY DEF CopiesInv, CopiesType, Rows
<1>2. CopiesType' /\ FetchedOK'
      BY DEF CopiesInv, CopiesType, FetchedOK, PageHolds, Holds
<1>3. \A c \in Chats : sent[c] \in Nat /\ sent'[c] \in Nat
      BY DEF CopiesInv, CopiesType
<1>4. HeadsOK'
      BY <1>1, <1>3 DEF CopiesInv, HeadsOK, Holds
<1> QED
    BY <1>2, <1>4 DEF CopiesInv

LEMMA ArriveCopies == ASSUME CopiesInv, NEW c \in Chats, Arrive(c) PROVE CopiesInv'
<1>1. /\ sent' \in [Chats -> Nat] /\ \A d \in Chats : sent[d] <= sent'[d]
      BY DEF Arrive, CopiesInv, CopiesType
<1> QED
    BY <1>1, CopiesUnchanged DEF Arrive, mirror

\* discover_chats: a new head drops the cursor that was for the old one.
LEMMA RecordCopies ==
    ASSUME CopiesInv, NEW seen, row' = Recorded(seen), UNCHANGED <<sent, stored>>,
           CycleReady
    PROVE  CopiesInv'
<1>1. \A c \in Chats :
         /\ row'[c] \in Rows
         /\ row'[c].backfill = row[c].backfill /\ row'[c].copied = row[c].copied
         /\ \/ row'[c].head = row[c].head /\ row'[c].cursor = row[c].cursor
            \/ row'[c].head = sent[c] /\ (row'[c].cursor = 0 \/ row[c].head = sent[c])
               /\ (row'[c].cursor = 0 \/ row'[c].cursor = row[c].cursor)
  <2> SUFFICES ASSUME NEW c \in Chats
               PROVE  /\ row'[c] \in Rows
                      /\ row'[c].backfill = row[c].backfill /\ row'[c].copied = row[c].copied
                      /\ \/ row'[c].head = row[c].head /\ row'[c].cursor = row[c].cursor
                         \/ row'[c].head = sent[c] /\ (row'[c].cursor = 0 \/ row[c].head = sent[c])
                            /\ (row'[c].cursor = 0 \/ row'[c].cursor = row[c].cursor)
      OBVIOUS
  <2>1. row[c] \in Rows /\ sent[c] \in Nat
        BY DEF CopiesInv, CopiesType
  <2>2. CASE c \notin seen
        BY <2>1, <2>2 DEF Recorded
  <2>3. CASE c \in seen
    <3>1. row'[c] = [row[c] EXCEPT !.known = TRUE, !.head = sent[c],
                           !.cursor = IF row[c].head # sent[c] THEN 0 ELSE @]
          BY <2>3 DEF Recorded
    <3>2. PICK cursor \in Nat : /\ cursor = IF row[c].head # sent[c] THEN 0 ELSE row[c].cursor
          BY <2>1 DEF Rows
    <3>3. row'[c] = [row[c] EXCEPT !.known = TRUE, !.head = sent[c], !.cursor = cursor]
          BY <2>1, <3>1, <3>2 DEF Rows
    <3>4. row'[c] \in Rows
          BY <2>1, <3>3 DEF Rows
    <3>5. /\ row'[c].backfill = row[c].backfill /\ row'[c].copied = row[c].copied
          /\ row'[c].head = sent[c] /\ row'[c].cursor = cursor
          BY <2>1, <3>3 DEF Rows
    <3> QED
        BY <3>2, <3>4, <3>5
  <2> QED
      BY <2>2, <2>3
<1>2. row' \in [Chats -> Rows]
      BY <1>1 DEF Recorded
<1>3. \A c \in Chats : sent[c] \in Nat /\ row[c].head \in Nat
      BY DEF CopiesInv, CopiesType, Rows
<1>4. CopiesType' /\ FetchedOK'
      BY <1>2 DEF CycleReady, CopiesInv, CopiesType, FetchedOK
<1>5. HeadsOK'
      BY <1>1, <1>3 DEF CopiesInv, HeadsOK, Holds
<1> QED
    BY <1>4, <1>5 DEF CopiesInv

\* The page a chat's next request returns: from where it starts, nothing is
\* missing up to what recording it will claim.
LEMMA FromReaches ==
    ASSUME CopiesInv, NEW c \in Chats
    PROVE  /\ From(c) \in Nat
           /\ Kind(c) \in {"initial", "incremental", "backfill"}
           /\ Kind(c) \in {"initial", "incremental"} => Holds(c, From(c), row[c].head)
           /\ Kind(c) = "backfill" => Holds(c, From(c), row[c].copied)
<1>1. /\ row[c] \in Rows /\ sent[c] \in Nat /\ row[c].head <= sent[c]
      /\ row[c].cursor # 0 => Holds(c, row[c].cursor, row[c].head)
      /\ Holds(c, row[c].backfill, row[c].copied)
      BY DEF CopiesInv, CopiesType, HeadsOK
<1>2. row[c].head \in Nat /\ row[c].cursor \in Nat /\ row[c].backfill \in Nat
      BY <1>1 DEF Rows
<1>3. Kind(c) \in {"initial", "incremental", "backfill"}
      BY DEF Kind
<1>4. CASE Kind(c) = "backfill"
  <2>1. From(c) = row[c].backfill
        BY <1>4 DEF From
  <2> QED
      BY <1>1, <1>2, <1>4, <2>1
<1>5. CASE Kind(c) # "backfill" /\ row[c].cursor # 0
  <2>1. From(c) = row[c].cursor
        BY <1>5 DEF From
  <2> QED
      BY <1>1, <1>2, <1>3, <1>5, <2>1
<1>6. CASE Kind(c) # "backfill" /\ row[c].cursor = 0
  <2>1. From(c) = sent[c]
        BY <1>6 DEF From
  <2>2. Holds(c, sent[c], row[c].head)
        BY <1>1, <1>2 DEF Holds
  <2> QED
      BY <1>1, <1>3, <1>6, <2>1, <2>2
<1> QED
    BY <1>4, <1>5, <1>6

LEMMA FetchCopies == ASSUME CopiesInv, NEW c \in Chats, Fetch(c) PROVE CopiesInv'
<1>1. PICK from, next : from = From(c) /\ next = Below(from, Page)
      OBVIOUS
<1>2. /\ from \in Nat /\ next \in Nat
      /\ Kind(c) \in {"initial", "incremental", "backfill"}
      /\ Kind(c) \in {"initial", "incremental"} => Holds(c, from, row[c].head)
      /\ Kind(c) = "backfill" => Holds(c, from, row[c].copied)
      BY <1>1, FromReaches, MirrorAssumption DEF Below
<1>3. PICK found \in BOOLEAN : found <=> row[c].copied \in (next + 1)..from
      OBVIOUS
<1>4. PICK kind : kind = Kind(c)
      OBVIOUS
<1> DEFINE page == [of |-> c, kind |-> kind, next |-> next, found |-> found]
<1>5. /\ stored' = [stored EXCEPT ![c] = @ \cup ((next + 1)..from)]
      /\ UNCHANGED <<sent, row>>
      BY <1>1 DEF Fetch, provider
<1>6. cycle' = [cycle EXCEPT !.pc = "advance", !.left = @ \ {c}, !.page = {page}]
  <2>1. found = (row[c].copied \in (next + 1)..from)
        BY <1>3
  <2> QED
      BY <1>1, <1>4, <2>1 DEF Fetch
<1>7. page \in Pages
      BY <1>2, <1>4 DEF Pages
<1>8. /\ cycle' \in [pc : {"idle", "discover", "fetch", "advance"}, pages : Nat,
                     left : SUBSET Chats, page : SUBSET Pages]
      /\ cycle'.page = {page}
      BY <1>6, <1>7 DEF CopiesInv, CopiesType
<1>9. /\ stored' \in [Chats -> SUBSET Nat]
      /\ \A d \in Chats : stored[d] \subseteq stored'[d]
      /\ \A i \in Nat : next < i /\ i <= from => i \in stored'[c]
      BY <1>2, <1>5 DEF CopiesInv, CopiesType
<1>10. CopiesType'
      BY <1>5, <1>8, <1>9 DEF CopiesInv, CopiesType
<1>11. HeadsOK'
      BY <1>5, <1>9 DEF CopiesInv, HeadsOK, Holds
<1>12. row[c].copied \in Nat /\ row[c].head \in Nat
      BY DEF CopiesInv, CopiesType, Rows
<1>13. /\ kind \in {"initial", "incremental"} =>
             \A i \in Nat : next < i /\ i <= row[c].head => i \in stored'[c]
       /\ kind = "backfill" =>
             \A i \in Nat : next < i /\ i <= row[c].copied => i \in stored'[c]
       /\ found => next < row[c].copied
       BY <1>2, <1>3, <1>4, <1>5, <1>9, <1>12 DEF Holds, CopiesInv, CopiesType
<1>14. page.of = c /\ page.kind = kind /\ page.next = next /\ page.found = found
       OBVIOUS
<1> HIDE DEF page
<1>15. PICK p : p = page
       OBVIOUS
<1>16. PageHolds(p)'
       BY <1>5, <1>13, <1>14, <1>15 DEF PageHolds, Holds
<1>17. FetchedOK'
       BY <1>8, <1>15, <1>16 DEF FetchedOK
<1> QED
    BY <1>10, <1>11, <1>17 DEF CopiesInv

\* A row whose head is copied.
LEMMA CaughtUp ==
    ASSUME NEW r \in Rows, NEW done, done = [r EXCEPT !.copied = r.head, !.cursor = 0]
    PROVE  /\ done \in Rows /\ done.head = r.head /\ done.cursor = 0
           /\ done.backfill = r.backfill /\ done.copied = r.head
<1>1. PICK head \in Nat : head = r.head
      BY DEF Rows
<1> DEFINE row1 == [r EXCEPT !.copied = head, !.cursor = 0]
<1>2. /\ row1 \in Rows /\ row1.head = r.head /\ row1.cursor = 0
      /\ row1.backfill = r.backfill /\ row1.copied = head
      BY ONLY <1>1, r \in Rows DEF Rows
<1>3. done = row1
      BY <1>1
<1> HIDE DEF row1
<1> QED
    BY <1>1, <1>2, <1>3

\* Recording a page claims what it holds.
LEMMA AdvancedHolds ==
    ASSUME CopiesInv, NEW page \in cycle.page, cycle.pc = "advance"
    PROVE  LET c == page.of IN
           /\ c \in Chats /\ Advanced(page) \in Rows
           /\ Advanced(page).head = row[c].head
           /\ Advanced(page).cursor # 0 => Holds(c, Advanced(page).cursor, row[c].head)
           /\ Holds(c, Advanced(page).backfill, Advanced(page).copied)
<1> DEFINE c == page.of
           r == row[c]
<1>1. /\ page \in Pages /\ c \in Chats /\ r \in Rows /\ page.next \in Nat
      /\ r.cursor # 0 => Holds(c, r.cursor, r.head)
      /\ Holds(c, r.backfill, r.copied)
      BY DEF CopiesInv, CopiesType, HeadsOK, Pages
<1>2. PageHolds(page)
      BY DEF CopiesInv, FetchedOK
<1>3. /\ r.head \in Nat /\ r.copied \in Nat /\ r.cursor \in Nat /\ r.backfill \in Nat
      BY <1>1 DEF Rows
<1>4. CASE page.kind = "initial"
  <2> HIDE DEF r
  <2>1. PICK all \in BOOLEAN, head \in Nat, next \in Nat :
           all = (page.next = 0) /\ head = r.head /\ next = page.next
        BY <1>1, <1>3
  <2> DEFINE done == [r EXCEPT !.copied = head, !.cursor = 0, !.backfill = next, !.complete = all]
  <2>2. /\ done \in Rows /\ done.head = r.head /\ done.cursor = 0
        /\ done.backfill = next /\ done.copied = head
    <3>1. r \in Rows
          BY <1>1
    <3> QED
        BY <2>1, <3>1 DEF Rows
  <2>3. Advanced(page) = done
        BY <1>4, <2>1 DEF Advanced, r
  <2> HIDE DEF done
  <2> QED
      BY <1>1, <1>2, <1>4, <2>1, <2>2, <2>3 DEF PageHolds, r
<1>5. CASE page.kind = "incremental" /\ (page.found \/ page.next = 0)
  <2>1. Advanced(page) = [r EXCEPT !.copied = r.head, !.cursor = 0]
        BY <1>5 DEF Advanced
  <2>2. /\ Advanced(page) \in Rows /\ Advanced(page).head = r.head /\ Advanced(page).cursor = 0
        /\ Advanced(page).backfill = r.backfill /\ Advanced(page).copied = r.head
        BY <1>1, <2>1, CaughtUp
  <2>3. Holds(c, page.next, r.head) /\ (page.next = 0 \/ page.next < r.copied)
        BY <1>2, <1>5 DEF PageHolds
  <2>4. Holds(c, r.backfill, r.head)
        BY <1>1, <1>3, <2>3 DEF Holds
  <2> QED
      BY <1>1, <2>2, <2>4
<1>6. CASE page.kind = "incremental" /\ ~page.found /\ page.next # 0
  <2>1. Advanced(page) = [r EXCEPT !.cursor = page.next]
        BY <1>6 DEF Advanced
  <2>2. /\ Advanced(page) \in Rows /\ Advanced(page).head = r.head
        /\ Advanced(page).cursor = page.next
        /\ Advanced(page).backfill = r.backfill /\ Advanced(page).copied = r.copied
        BY <1>1, <1>3, <2>1 DEF Rows
  <2> QED
      BY <1>1, <1>2, <1>6, <2>2 DEF PageHolds
<1>7. CASE page.kind = "backfill"
  <2>3. PICK all \in BOOLEAN : all = (page.next = 0)
        OBVIOUS
  <2>1. Advanced(page) = [r EXCEPT !.backfill = page.next, !.complete = all]
        BY <1>7, <2>3 DEF Advanced
  <2>2. /\ Advanced(page) \in Rows /\ Advanced(page).head = r.head
        /\ Advanced(page).cursor = r.cursor
        /\ Advanced(page).backfill = page.next /\ Advanced(page).copied = r.copied
        BY <1>1, <1>3, <2>1 DEF Rows
  <2> QED
      BY <1>1, <1>2, <1>7, <2>2 DEF PageHolds
<1>8. page.kind \in {"initial", "incremental", "backfill"} /\ page.found \in BOOLEAN
      BY <1>1 DEF Pages
<1> QED
    BY <1>4, <1>5, <1>6, <1>7, <1>8

\* Where the worker goes when a chat is done with.
LEMMA RestMoves ==
    ASSUME NEW left \in SUBSET Chats, cycle' = Rest(left)
    PROVE  CycleReady
BY DEF CycleReady, Rest, Idle, Cycle

LEMMA AdvanceCopies == ASSUME CopiesInv, Advance PROVE CopiesInv'
<1>1. PICK page \in cycle.page : row' = [row EXCEPT ![page.of] = Advanced(page)]
      BY DEF Advance
<1>2. UNCHANGED <<sent, stored>> /\ cycle' = Rest(cycle.left) /\ cycle.left \in SUBSET Chats
      BY DEF Advance, provider, CopiesInv, CopiesType
<1>3. CycleReady
      BY <1>2, RestMoves
<1>4. cycle.pc = "advance" /\ row \in [Chats -> Rows]
      BY DEF Advance, CopiesInv, CopiesType
<1>5. \A c \in Chats :
         /\ row'[c] \in Rows /\ row'[c].head = row[c].head
         /\ row'[c].cursor # 0 => Holds(c, row'[c].cursor, row'[c].head)
         /\ Holds(c, row'[c].backfill, row'[c].copied)
  <2>1. /\ page.of \in Chats /\ Advanced(page) \in Rows
        /\ Advanced(page).head = row[page.of].head
        /\ Advanced(page).cursor # 0 =>
              Holds(page.of, Advanced(page).cursor, row[page.of].head)
        /\ Holds(page.of, Advanced(page).backfill, Advanced(page).copied)
        BY <1>4, AdvancedHolds
  <2> QED
      BY <1>1, <1>4, <2>1 DEF CopiesInv, HeadsOK
<1>6. row' \in [Chats -> Rows]
      BY <1>1, <1>4, <1>5
<1>7. CopiesType' /\ FetchedOK'
      BY <1>2, <1>3, <1>6 DEF CycleReady, CopiesInv, CopiesType, FetchedOK
<1>8. HeadsOK'
      BY <1>2, <1>5 DEF CopiesInv, HeadsOK, Holds
<1> QED
    BY <1>7, <1>8 DEF CopiesInv

LEMMA CopiesNext == ASSUME CopiesInv, [Next]_vars PROVE CopiesInv'
<1> cycle \in [pc : {"idle", "discover", "fetch", "advance"}, pages : Nat,
               left : SUBSET Chats, page : SUBSET Pages]
    BY DEF CopiesInv, CopiesType
<1>1. CASE Refresh
  <2>1. CycleReady
        BY <1>1, MirrorAssumption DEF CycleReady, Refresh, Cycle
  <2> QED
      BY <1>1, <2>1, RecordCopies DEF Refresh, provider
<1>2. CASE Discover
  <2>1. CycleReady
        BY <1>2 DEF CycleReady, Discover
  <2> QED
      BY <1>2, <2>1, RecordCopies DEF Discover, provider
<1>3. ASSUME NEW chosen \in SUBSET Chats, Pick(chosen) PROVE CopiesInv'
  <2>1. CycleReady
        BY <1>3 DEF CycleReady, Pick, Idle, Cycle
  <2> QED
      BY <1>3, <2>1, CycleMoves DEF Pick, provider
<1>4. ASSUME NEW c \in Chats, Skip(c) PROVE CopiesInv'
  <2>1. CycleReady
        BY <1>4, RestMoves DEF Skip
  <2> QED
      BY <1>4, <2>1, CycleMoves DEF Skip, provider
<1>5. CASE Stop
  <2>1. CycleReady
        BY <1>5 DEF CycleReady, Stop, Idle, Cycle
  <2> QED
      BY <1>5, <2>1, CycleMoves DEF Stop, provider
<1>6. CASE Start \/ ReadIndex \/ LookAt \/ Save \/ BatchFails \/ UNCHANGED vars
  <2>1. UNCHANGED <<sent, row, stored, cycle>>
        BY <1>6 DEF Start, ReadIndex, LookAt, Save, BatchFails, vars, provider, mirror
  <2>2. \A c \in Chats : sent[c] \in Nat
        BY DEF CopiesInv, CopiesType
  <2> QED
      BY <2>1, <2>2, CopiesUnchanged DEF CopiesInv, CopiesType
<1> QED
    BY <1>1, <1>2, <1>3, <1>4, <1>5, <1>6, ArriveCopies, FetchCopies, AdvanceCopies
    DEF Next, Worker, Refused, Fails

\* Between the backfill cursor and the stored head no message is missing,
\* whatever arrived or failed while the pages were read (complete_incremental,
\* advance_backfill).
THEOREM MirrorHasNoGap == Spec => []NoGap
<1>1. CopiesInv => NoGap
  <2> SUFFICES ASSUME CopiesInv, NEW c \in Chats
               PROVE  (row[c].backfill + 1)..row[c].copied \subseteq stored[c]
      BY DEF NoGap
  <2>1. row[c].backfill \in Nat /\ row[c].copied \in Nat
        /\ Holds(c, row[c].backfill, row[c].copied)
        BY DEF CopiesInv, CopiesType, HeadsOK, Rows
  <2> QED
      BY <2>1 DEF Holds
<1> QED
    BY <1>1, CopiesInit, CopiesNext, PTL DEF Spec
-----------------------------------------------------------------------------
(* What an import has looked at.                                           *)

N == Cardinality(Chats)

\* The index lists every chat.
IndexOK ==
    /\ recent \in [1..N -> Chats]
    /\ \A c \in Chats : \E i \in 1..N : recent[i] = c

InBatch(c) == \E i \in 1..Len(backlog.batch) : backlog.batch[i] = c

ImportType ==
    /\ backlog \in [phase : {"not_started", "running", "awaiting_review", "complete", "failed",
                             "interrupted"},
                    at : Nat, batch : Seq(Chats), read : BOOLEAN]
    /\ looked \subseteq Chats

\* The index is covered up to the cursor, and up to the end of the batch by what
\* was read of it; nothing is read outside a batch.
Covered ==
    /\ \A i \in 1..N : i <= backlog.at => recent[i] \in looked
    /\ backlog.read =>
          \A i \in 1..N : i <= Smaller(backlog.at + Batch, N) =>
              recent[i] \in looked \/ InBatch(recent[i])
    /\ ~backlog.read => backlog.batch = <<>>
    /\ backlog.phase # "running" => ~backlog.read

ImportInv == IndexOK /\ ImportType /\ Covered /\ NobodyPassedOver

LEMMA CountNat == N \in Nat
BY MirrorAssumption, FS_CardinalityType DEF N

LEMMA ImportInit == Init => ImportInv
<1> SUFFICES ASSUME Init PROVE ImportInv
    OBVIOUS
<1>1. IndexOK
  <2>1. recent \in [1..N -> Chats] /\ \A c \in Chats : \E i \in DOMAIN recent : recent[i] = c
        BY DEF Init, N
  <2> QED
      BY <2>1 DEF IndexOK
<1>2. ImportType /\ NobodyPassedOver
      BY DEF Init, ImportType, NobodyPassedOver
<1>3. Covered
      BY CountNat DEF Init, Covered
<1> QED
    BY <1>1, <1>2, <1>3 DEF ImportInv

\* A chat that writes moves to the top: none leaves the index, and none but it
\* comes above a place that was below it.
LEMMA ToTopMoves ==
    ASSUME IndexOK, NEW c \in Chats, recent' = ToTop(c)
    PROVE  /\ IndexOK'
           /\ \A i \in 1..N : recent'[i] = c \/ \E j \in 1..i : j \in 1..N /\ recent'[i] = recent[j]
<1> DEFINE place == CHOOSE i \in DOMAIN recent : recent[i] = c
<1>1. place \in 1..N /\ recent[place] = c /\ DOMAIN recent = 1..N
  <2>1. \E i \in DOMAIN recent : recent[i] = c
        BY DEF IndexOK
  <2> QED
      BY <2>1 DEF IndexOK
<1> DEFINE moved == [i \in 1..N |-> IF i = 1 THEN c
                                    ELSE IF i <= place THEN recent[i - 1] ELSE recent[i]]
<1>2. recent' = moved
      BY <1>1 DEF ToTop
<1> HIDE DEF place
<1>3. \A i \in 1..N :
         \/ recent'[i] = c
         \/ i - 1 \in 1..N /\ recent'[i] = recent[i - 1]
         \/ recent'[i] = recent[i]
      BY <1>1, <1>2, CountNat
<1>4. recent' \in [1..N -> Chats]
  <2>1. \A i \in 1..N : moved[i] \in Chats
        BY <1>2, <1>3 DEF IndexOK
  <2> QED
      BY <1>2, <2>1
<1>5. \A d \in Chats : \E i \in 1..N : recent'[i] = d
  <2> SUFFICES ASSUME NEW d \in Chats PROVE \E i \in 1..N : recent'[i] = d
      OBVIOUS
  <2>1. PICK i \in 1..N : recent[i] = d
        BY DEF IndexOK
  <2>2. CASE i = place
        BY <1>1, <1>2, <2>1, <2>2, CountNat
  <2>3. CASE i < place
    <3>1. i + 1 \in 1..N /\ i + 1 # 1 /\ i + 1 <= place /\ (i + 1) - 1 = i
          BY <1>1, <2>3, CountNat
    <3>2. recent'[i + 1] = d
          BY <1>2, <2>1, <3>1
    <3> QED
        BY <3>1, <3>2
  <2>4. CASE i > place
    <3>1. recent'[i] = d
          BY <1>1, <1>2, <2>1, <2>4, CountNat
    <3> QED
        BY <3>1
  <2> QED
      BY <1>1, <2>2, <2>3, <2>4, CountNat
<1>6. \A i \in 1..N : recent'[i] = c \/ \E j \in 1..i : j \in 1..N /\ recent'[i] = recent[j]
  <2> SUFFICES ASSUME NEW i \in 1..N, recent'[i] # c
               PROVE  \E j \in 1..i : j \in 1..N /\ recent'[i] = recent[j]
      OBVIOUS
  <2>1. CASE i - 1 \in 1..N /\ recent'[i] = recent[i - 1]
    <3>1. i - 1 \in 1..i
          BY <2>1, CountNat
    <3> QED
        BY <2>1, <3>1
  <2>2. CASE recent'[i] = recent[i]
    <3>1. i \in 1..i
          BY CountNat
    <3> QED
        BY <2>2, <3>1
  <2> QED
      BY <1>3, <2>1, <2>2
<1> QED
    BY <1>4, <1>5, <1>6 DEF IndexOK

LEMMA ArriveImport == ASSUME ImportInv, NEW c \in Chats, Arrive(c) PROVE ImportInv'
<1>1. /\ recent' = ToTop(c) /\ looked' = looked \cup {c} /\ backlog' = backlog
      BY DEF Arrive
<1>2. /\ IndexOK'
      /\ \A i \in 1..N : recent'[i] = c \/ \E j \in 1..i : j \in 1..N /\ recent'[i] = recent[j]
      BY <1>1, ToTopMoves DEF ImportInv
<1>3. ImportType'
      BY <1>1 DEF ImportInv, ImportType
<1>4. backlog.at \in Nat
      BY DEF ImportInv, ImportType
<1>5. \A i \in 1..N : i <= backlog.at => recent'[i] \in looked'
      BY <1>1, <1>2, <1>4, CountNat DEF ImportInv, Covered
<1>6. PICK end : end = Smaller(backlog.at + Batch, N)
      OBVIOUS
<1>7. end \in Nat
      BY <1>4, <1>6, CountNat, MirrorAssumption DEF Smaller
<1>8. backlog.read =>
         \A i \in 1..N : i <= end => recent[i] \in looked \/ InBatch(recent[i])
      BY <1>6 DEF ImportInv, Covered
<1>9. ASSUME backlog.read, NEW i \in 1..N, i <= end
      PROVE  recent'[i] \in looked' \/ InBatch(recent'[i])
  <2>1. CASE recent'[i] = c
        BY <1>1, <2>1
  <2>2. ASSUME NEW j \in 1..i, j \in 1..N, recent'[i] = recent[j]
        PROVE  recent'[i] \in looked' \/ InBatch(recent'[i])
    <3>1. j <= end
          BY <1>7, <1>9, <2>2, CountNat
    <3> QED
        BY <1>1, <1>8, <1>9, <2>2, <3>1
  <2> QED
      BY <1>2, <2>1, <2>2
<1>10. \A d : InBatch(d)' <=> InBatch(d)
       BY <1>1 DEF InBatch
<1>11. Covered'
       BY <1>1, <1>5, <1>6, <1>9, <1>10 DEF ImportInv, Covered, InBatch
<1>12. NobodyPassedOver'
       BY <1>1 DEF ImportInv, NobodyPassedOver
<1> QED
    BY <1>2, <1>3, <1>11, <1>12 DEF ImportInv

LEMMA StartImport == ASSUME ImportInv, Start PROVE ImportInv'
<1>1. /\ recent' = recent /\ backlog'.phase = "running" /\ ~backlog'.read
      /\ backlog'.at = backlog.at /\ backlog'.batch = backlog.batch /\ backlog.batch = <<>>
      /\ looked' = IF backlog.at = 0 THEN {} ELSE looked
      BY DEF Start, provider, ImportInv, ImportType, Covered
<1>2. IndexOK' /\ ImportType'
      BY <1>1 DEF Start, ImportInv, IndexOK, ImportType
<1>3. Covered'
      BY <1>1, CountNat DEF ImportInv, ImportType, Covered
<1> QED
    BY <1>1, <1>2, <1>3 DEF ImportInv, NobodyPassedOver

LEMMA ReadImport == ASSUME ImportInv, ReadIndex PROVE ImportInv'
<1>1. PICK end : end = Smaller(backlog.at + Batch, N)
      OBVIOUS
<1>2. backlog.at \in Nat /\ end \in Nat /\ end <= N
      BY <1>1, CountNat, MirrorAssumption DEF Smaller, ImportInv, ImportType
<1>3. PICK batch : batch = SubSeq(recent, backlog.at + 1, end)
      OBVIOUS
<1>4. recent \in Seq(Chats) /\ Len(recent) = N
      BY CountNat DEF ImportInv, IndexOK
<1>5. /\ batch \in Seq(Chats)
      /\ \A i \in 1..N : backlog.at < i /\ i <= end =>
             /\ i - backlog.at \in 1..Len(batch)
             /\ batch[i - backlog.at] = recent[i]
  <2>1. backlog.at + 1 \in Int /\ end \in Int
        BY <1>2
  <2>2. \A i \in (backlog.at + 1)..end : recent[i] \in Chats
        BY <1>2, <1>4, CountNat
  <2>3. /\ batch \in Seq(Chats)
        /\ Len(batch) = IF backlog.at + 1 <= end THEN end - (backlog.at + 1) + 1 ELSE 0
        /\ \A i \in 1..(end - (backlog.at + 1) + 1) :
              batch[i] = recent[(backlog.at + 1) + i - 1]
        BY <1>3, <2>1, <2>2, SubSeqProperties
  <2>4. ASSUME NEW i \in 1..N, backlog.at < i, i <= end
        PROVE  i - backlog.at \in 1..Len(batch) /\ batch[i - backlog.at] = recent[i]
    <3>1. PICK k \in Int : k = i - backlog.at
          BY <1>2, CountNat
    <3>2. /\ k \in 1..(end - (backlog.at + 1) + 1) /\ (backlog.at + 1) + k - 1 = i
          /\ backlog.at + 1 <= end
          BY <1>2, <2>4, <3>1, CountNat
    <3> QED
        BY <2>3, <3>1, <3>2
  <2> QED
      BY <2>3, <2>4
<1>6. /\ backlog' = [backlog EXCEPT !.read = TRUE, !.batch = batch]
      /\ UNCHANGED <<recent, looked>> /\ backlog.phase = "running"
      BY <1>1, <1>3 DEF ReadIndex, Discovered, N, provider
<1>7. /\ ImportType' /\ backlog'.batch = batch /\ backlog'.at = backlog.at
      /\ backlog'.phase = "running" /\ backlog'.read
      BY <1>5, <1>6 DEF ImportInv, ImportType
<1>8. IndexOK'
      BY <1>6 DEF ImportInv, IndexOK
<1>9. \A i \in 1..N : i <= end => recent[i] \in looked \/ InBatch(recent[i])'
      BY <1>2, <1>5, <1>6, <1>7, CountNat DEF ImportInv, Covered, InBatch
<1>10. Covered'
      BY <1>1, <1>6, <1>7, <1>9 DEF ImportInv, Covered, InBatch
<1> QED
    BY <1>7, <1>8, <1>10 DEF ImportInv, NobodyPassedOver

LEMMA LookImport == ASSUME ImportInv, LookAt PROVE ImportInv'
<1>1. PICK batch \in Seq(Chats) : batch = backlog.batch
      BY DEF ImportInv, ImportType
<1>2. /\ batch # <<>> /\ looked' = looked \cup {Head(batch)}
      /\ backlog' = [backlog EXCEPT !.batch = Tail(batch)] /\ recent' = recent
      /\ backlog.phase = "running"
      BY <1>1 DEF LookAt, provider
<1>3. /\ Head(batch) \in Chats /\ Tail(batch) \in Seq(Chats)
      /\ \A i \in 1..Len(batch) : batch[i] = Head(batch) \/ \E j \in 1..Len(Tail(batch)) : Tail(batch)[j] = batch[i]
  <2>1. Len(batch) \in Nat \ {0} /\ Len(Tail(batch)) = Len(batch) - 1
        BY <1>2
  <2>2. ASSUME NEW i \in 1..Len(batch), i # 1
        PROVE  i - 1 \in 1..Len(Tail(batch)) /\ Tail(batch)[i - 1] = batch[i]
        BY <1>2, <2>1, <2>2
  <2>3. Head(batch) = batch[1] /\ Head(batch) \in Chats /\ Tail(batch) \in Seq(Chats)
        BY <1>2
  <2> QED
      BY <2>2, <2>3
<1>4. /\ ImportType' /\ backlog'.batch = Tail(batch) /\ backlog'.at = backlog.at
      /\ backlog'.phase = "running" /\ backlog'.read = backlog.read
      BY <1>2, <1>3 DEF ImportInv, ImportType
<1>5. \A c : InBatch(c) => c \in looked' \/ InBatch(c)'
      BY <1>1, <1>2, <1>3, <1>4 DEF InBatch
<1>6. IndexOK'
      BY <1>2 DEF ImportInv, IndexOK
<1>7. backlog.read
      BY <1>1, <1>2 DEF ImportInv, Covered
<1>8. Covered'
      BY <1>2, <1>4, <1>5, <1>7 DEF ImportInv, Covered
<1> QED
    BY <1>4, <1>6, <1>8 DEF ImportInv, NobodyPassedOver

LEMMA SaveImport == ASSUME ImportInv, Save PROVE ImportInv'
<1>1. PICK end : end = Smaller(backlog.at + Batch, N)
      OBVIOUS
<1>2. /\ backlog.read /\ backlog.batch = <<>> /\ UNCHANGED <<recent, looked>>
      /\ backlog' = [phase |-> IF end = N THEN "complete" ELSE "awaiting_review",
                     at |-> IF end = N THEN 0 ELSE end, batch |-> <<>>, read |-> FALSE]
      BY <1>1 DEF Save, Discovered, N, provider
<1>3. backlog.at \in Nat /\ end \in Nat
      BY <1>1, CountNat, MirrorAssumption DEF Smaller, ImportInv, ImportType
<1>4. \A i \in 1..N : i <= end => recent[i] \in looked
      BY <1>1, <1>2 DEF ImportInv, Covered, InBatch
<1>5. ImportType' /\ IndexOK'
      BY <1>2, <1>3 DEF ImportInv, ImportType, IndexOK
<1>6. Covered'
      BY <1>2, <1>3, <1>4, CountNat DEF Covered
<1>7. NobodyPassedOver'
  <2> SUFFICES ASSUME end = N PROVE looked = Chats
      BY <1>2 DEF NobodyPassedOver
  <2>1. \A i \in 1..N : recent[i] \in looked
        BY <1>4, CountNat
  <2>2. \A c \in Chats : c \in looked
        BY <2>1 DEF ImportInv, IndexOK
  <2>3. looked \subseteq Chats
        BY DEF ImportInv, ImportType
  <2> QED
      BY <2>2, <2>3
<1> QED
    BY <1>5, <1>6, <1>7 DEF ImportInv

LEMMA HaltImport ==
    ASSUME ImportInv, NEW phase \in {"failed", "interrupted"}, backlog' = Halted(phase),
           UNCHANGED <<recent, looked>>
    PROVE  ImportInv'
<1>1. /\ backlog'.at = backlog.at /\ backlog'.batch = <<>> /\ ~backlog'.read
      /\ backlog'.phase = phase
      BY DEF Halted
<1>2. ImportType'
      BY DEF Halted, ImportInv, ImportType
<1>3. IndexOK' /\ Covered' /\ NobodyPassedOver'
      BY <1>1 DEF ImportInv, IndexOK, Covered, NobodyPassedOver
<1> QED
    BY <1>2, <1>3 DEF ImportInv

LEMMA ImportNext == ASSUME ImportInv, [Next]_vars PROVE ImportInv'
<1>1. CASE UNCHANGED <<recent, backlog, looked>>
      BY SMTT(30), <1>1 DEF ImportInv, IndexOK, ImportType, Covered, InBatch, NobodyPassedOver
<1>2. CASE BatchFails
      BY <1>2, HaltImport DEF BatchFails, provider
<1>3. CASE Stop
      BY <1>1, <1>3, HaltImport DEF Stop, provider
<1>4. CASE Worker \/ (\E c \in Chats : Fails(c)) \/ UNCHANGED vars
  <2>1. UNCHANGED <<recent, backlog, looked>>
        BY <1>4 DEF Worker, Refresh, Discover, Advance, Pick, Fetch, Refused, Fails, Skip, vars,
               provider, import
  <2> QED
      BY <1>1, <2>1
<1> QED
    BY <1>2, <1>3, <1>4, ArriveImport, StartImport, ReadImport, LookImport, SaveImport DEF Next

\* A finished import has passed over no chat, although the index it walks is
\* reordered between its batches (import_unread_backlog_batch, page_index).
THEOREM ImportSkipsNobody == Spec => []NobodyPassedOver
BY ImportInit, ImportNext, PTL DEF Spec, ImportInv
=============================================================================
