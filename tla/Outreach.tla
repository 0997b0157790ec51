------------------------------- MODULE Outreach -------------------------------
(***************************************************************************)
(* Proactive messages of one creator: the outreach worker polls who is     *)
(* online and scans conversations that went quiet, decides who may be      *)
(* contacted (cooldown, hourly, daily and per-fan caps) and queues a row;  *)
(* a reply worker generates and sends it later.                            *)
(*                                                                         *)
(* Every read of eligible_for_outreach is a statement of its own under READ*)
(* COMMITTED, so the check is three actions: the fan's own state, what was *)
(* sent, what is still queued.  Time is kept as ages in ticks; an age stops*)
(* at the largest bound anything compares it with.  Between two ticks every*)
(* enabled poll runs, and a poll, a generation and a provider call end.    *)
(* The lease, the outbox before its claim, the policy version and the      *)
(* webhook echo of the bot's own send are in ReplyPipeline; whether the    *)
(* mirror has caught up is in Mirror.                                      *)
(***************************************************************************)
EXTENDS Integers, FiniteSets, Sequences

CONSTANTS
    Fans,
    Hour, Day,              \* the two windows of the caps
    OnlineWindow,           \* how old last_seen may be for "online"
    StalledAfter,
    Cooldown,               \* by kind
    PerHour, PerDay, PerFan,           \* by kind; 0 is no limit
    PresenceBatch, ScanBatch,
    IncludeOnline,          \* contact a fan first seen online
    MaxEvents               \* bound of the checked instance

Kinds == {"online", "stalled"}

ASSUME WindowsAssumption ==
    /\ Hour \in Nat /\ Day \in Nat /\ Day >= Hour
    /\ OnlineWindow \in 0..Hour /\ StalledAfter \in Nat \ {0}
    /\ Cooldown \in [Kinds -> Nat \ {0}]
ASSUME CapsAssumption ==
    /\ IsFiniteSet(Fans)
    /\ PerHour \in [Kinds -> Nat] /\ PerDay \in [Kinds -> Nat] /\ PerFan \in [Kinds -> Nat]
    /\ \A k \in Kinds : PerDay[k] >= PerHour[k]
    /\ PresenceBatch \in Nat \ {0} /\ ScanBatch \in 1..500
    /\ IncludeOnline \in BOOLEAN /\ MaxEvents \in Nat

VARIABLES
    last,       \* fan_messages: who wrote last and how long ago
    unread,     \* fans with an ordinary inbound row pending or processing
    presence,   \* fan_presence.status
    optedOut,   \* fan_contact_policies.do_not_contact
    row,        \* the proactive inbound row of a fan, with its outbox
    followed,   \* fans whose current episode has a stalled row, of any status
    sent,       \* proactive messages the provider accepted, oldest first
    unsaved,    \* sent, not yet in fan_messages
    hidden,     \* fans whose row was completed while its message was being sent
    enabled,    \* settings, by kind
    polled,     \* the poll of a kind ran within its interval
    poller,     \* the outreach thread
    events

history == <<last, unread, optedOut, sent, unsaved, hidden>>
outreachVars == <<history, presence, row, followed, enabled, polled, poller, events>>

Keep == CHOOSE n \in {Day, Cooldown["online"], Cooldown["stalled"]} :
            n >= Day /\ n >= Cooldown["online"] /\ n >= Cooldown["stalled"]
Oldest == IF StalledAfter > Keep THEN StalledAfter ELSE Keep
Older(age, max) == IF age < max THEN age + 1 ELSE max

NoRow == [kind |-> "none", status |-> "none", age |-> 0, current |-> FALSE, blind |-> FALSE]
Resting == [pc |-> "idle", kind |-> "none", left |-> {}, fan |-> {},
            hour |-> 0, day |-> 0, own |-> 0, age |-> 0, raced |-> FALSE]
Slips == {"none", "late", "unseen", "hidden"}

Message == [age : 0..Keep, apart : {1} \cup {Cooldown[k] : k \in Kinds}, slip : Slips]

OutreachTypeOK ==
    /\ last \in [Fans -> [by : {"none", "fan", "creator"}, age : 0..Oldest]]
    /\ unread \subseteq Fans /\ optedOut \subseteq Fans /\ followed \subseteq Fans
    /\ unsaved \subseteq Fans /\ hidden \subseteq Fans
    /\ presence \in [Fans -> {"unknown", "offline", "online"}]
    /\ row \in [Fans -> [kind : Kinds \cup {"none"}, age : 0..(Day + 1),
                         status : {"none", "pending", "processing", "sending"},
                         current : BOOLEAN, blind : BOOLEAN]]
    /\ \A f \in Fans : row[f].status = "none" \/ row[f].kind \in Kinds
    /\ sent \in [Fans -> Seq(Message)]
    /\ enabled \in [Kinds -> BOOLEAN] /\ polled \in [Kinds -> BOOLEAN]
    /\ poller \in [pc : {"idle", "look", "sent", "queued"}, kind : Kinds \cup {"none"},
                   left : SUBSET Fans, fan : SUBSET Fans, hour : Nat, day : Nat, own : Nat,
                   age : 0..Hour, raced : BOOLEAN]
    /\ poller.pc = "idle" \/ poller.kind \in Kinds
    /\ events \in 0..MaxEvents

OutreachInit ==
    /\ last \in [Fans -> {[by |-> "none", age |-> 0], [by |-> "creator", age |-> Oldest]}]
    /\ unread = {} /\ optedOut = {} /\ followed = {} /\ unsaved = {} /\ hidden = {}
    /\ presence = [f \in Fans |-> "unknown"]
    /\ row = [f \in Fans |-> NoRow]
    /\ sent = [f \in Fans |-> <<>>]
    /\ enabled = [k \in Kinds |-> TRUE] /\ polled = [k \in Kinds |-> FALSE]
    /\ poller = Resting /\ events = 0

-----------------------------------------------------------------------------
\* What the queries count.

SentWithin(F, age) ==
    Cardinality(UNION {{<<f, i>> : i \in {j \in DOMAIN sent[f] : sent[f][j].age <= age}} : f \in F})
QueuedWithin(F, age) == Cardinality({f \in F : row[f].status # "none" /\ row[f].age <= age})
CoolingByHour(f, kind) == \E i \in DOMAIN sent[f] : sent[f][i].age <= Hour
Cooling(f, kind) == \E i \in DOMAIN sent[f] : sent[f][i].age < Cooldown[kind]
Working(f) == f \in unread \/ row[f].status # "none"
AnsweredRecently(f, kind) == last[f].by = "creator" /\ last[f].age < Cooldown[kind]
Reached(count, limit) == limit > 0 /\ count >= limit

Stalled(f) == last[f].by = "creator" /\ last[f].age >= StalledAfter /\ ~Working(f)
StalledBatches ==
    LET due == {f \in Fans : Stalled(f)}
    IN  {B \in SUBSET due :
            /\ Cardinality(B) = IF Cardinality(due) < ScanBatch THEN Cardinality(due) ELSE ScanBatch
            /\ \A f \in B, g \in due \ B : last[f].age >= last[g].age}

-----------------------------------------------------------------------------
\* The outreach thread.

\* candidates are taken round the list from an offset; the list's order changes
\* with every message, so any batch can be next.
PresenceBatches == {B \in SUBSET Fans : Cardinality(B) \in 1..PresenceBatch}

BeginPoll(kind) ==
    /\ poller.pc = "idle" /\ enabled[kind] /\ ~polled[kind]
    /\ polled' = [polled EXCEPT ![kind] = TRUE]
    /\ \E B \in IF kind = "online" THEN PresenceBatches ELSE StalledBatches :
           poller' = IF B = {} THEN Resting
                     ELSE [Resting EXCEPT !.pc = "look", !.kind = kind, !.left = B]
    /\ UNCHANGED <<history, presence, row, followed, enabled, events>>

NextFan(f) == IF poller.left = {f} THEN Resting
              ELSE [Resting EXCEPT !.pc = "look", !.kind = poller.kind, !.left = poller.left \ {f}]

Refused(f, kind) == f \in optedOut \/ Cooling(f, kind)

\* The provider answers with a last_seen of some age.  observe stores the new status, and
\* only the change from offline counts, or a first sight; then the check begins.
Observe(f, age) ==
    LET now == IF age <= OnlineWindow THEN "online" ELSE "offline"
        consider == now = "online" /\ \/ presence[f] = "offline"
                                      \/ presence[f] = "unknown" /\ IncludeOnline
    IN  /\ poller.pc = "look" /\ poller.kind = "online" /\ f \in poller.left
        /\ presence' = [presence EXCEPT ![f] = now]
        /\ poller' = IF consider /\ ~Refused(f, "online")
                     THEN [poller EXCEPT !.pc = "sent", !.fan = {f}, !.age = age]
                     ELSE NextFan(f)
        /\ UNCHANGED <<history, row, followed, enabled, polled, events>>

Consider(f) ==
    /\ poller.pc = "look" /\ poller.kind = "stalled" /\ f \in poller.left
    /\ poller' = IF Refused(f, "stalled") THEN NextFan(f)
                 ELSE [poller EXCEPT !.pc = "sent", !.fan = {f}]
    /\ UNCHANGED <<history, presence, row, followed, enabled, polled, events>>

CountSent(f) ==
    /\ poller.pc = "sent" /\ poller.fan = {f}
    /\ poller' = IF Working(f) \/ AnsweredRecently(f, poller.kind)
                 THEN NextFan(f)
                 ELSE [poller EXCEPT !.pc = "queued",
                                     !.hour = SentWithin(Fans, Hour),
                                     !.day = SentWithin(Fans, Day),
                                     !.own = SentWithin({f}, Day)]
    /\ UNCHANGED <<history, presence, row, followed, enabled, polled, events>>

CountingSentOnly(f) ==
    /\ ~Reached(poller.hour, PerHour[poller.kind])
    /\ ~Reached(poller.day, PerDay[poller.kind])
    /\ ~Reached(poller.own, PerFan[poller.kind])
Allowed(f) ==
    /\ ~Reached(poller.hour + QueuedWithin(Fans, Hour), PerHour[poller.kind])
    /\ ~Reached(poller.day + QueuedWithin(Fans, Day), PerDay[poller.kind])
    /\ ~Reached(poller.own + QueuedWithin({f}, Day), PerFan[poller.kind])

\* An online row carries last_seen as its date, a stalled one the poll's; a stalled
\* row is inserted once per episode.
NewRow(f) ==
    [kind |-> poller.kind, status |-> "pending", current |-> TRUE, blind |-> poller.raced,
     age |-> poller.age]

CountQueued(f) ==
    /\ poller.pc = "queued" /\ poller.fan = {f}
    /\ poller' = NextFan(f)
    /\ IF Allowed(f) /\ ~(poller.kind = "stalled" /\ f \in followed)
       THEN /\ row' = [row EXCEPT ![f] = NewRow(f)]
            /\ followed' = IF poller.kind = "stalled" THEN followed \cup {f} ELSE followed
       ELSE UNCHANGED <<row, followed>>
    /\ UNCHANGED <<history, presence, enabled, polled, events>>

PollStep == \E f \in Fans :
    \/ \E age \in 0..(OnlineWindow + 1) : Observe(f, age)
    \/ Consider(f) \/ CountSent(f) \/ CountQueued(f)

-----------------------------------------------------------------------------
\* The reply workers.

Delivering(f) == row[f].status \in {"processing", "sending"}

\* An ordinary row: answered, or completed without a reply, or an opt-out.
Answer(f) ==
    /\ f \in unread /\ ~Delivering(f)
    /\ unread' = unread \ {f}
    /\ \/ last' = [last EXCEPT ![f] = [by |-> "creator", age |-> 0]] /\ UNCHANGED optedOut
       \/ UNCHANGED <<last, optedOut>>
       \/ optedOut' = optedOut \cup {f} /\ UNCHANGED last
    /\ UNCHANGED <<sent, unsaved, hidden, presence, row, followed, enabled, polled, poller, events>>

EpisodeIsCurrent(f) ==
    last[f].by = "creator" /\ last[f].age >= StalledAfter /\ row[f].current

\* A stalled row is looked at again before anything is generated; an online one is not.
Claim(f) ==
    /\ row[f].status = "pending" /\ f \notin unread
    /\ row' = IF row[f].kind = "stalled" /\ ~EpisodeIsCurrent(f)
              THEN [row EXCEPT ![f] = NoRow]
              ELSE [row EXCEPT ![f].status = "processing"]
    /\ UNCHANGED <<history, presence, followed, enabled, polled, poller, events>>

\* The text is generated and approved, or there is none; the outbox is written and claimed.
Generate(f) ==
    /\ row[f].status = "processing"
    /\ \/ f \notin optedOut /\ row' = [row EXCEPT ![f].status = "sending"]
       \/ row' = [row EXCEPT ![f] = NoRow]
    /\ UNCHANGED <<history, presence, followed, enabled, polled, poller, events>>

\* A send that completes between two reads of a check is in neither count.
Raced == IF poller.pc \in {"sent", "queued"} THEN [poller EXCEPT !.raced = TRUE] ELSE poller

SlipOf(f) == IF row[f].blind THEN "unseen" ELSE IF row[f].age > Hour THEN "late" ELSE "none"

\* A send whose outcome is unknown (it may have been accepted), or that the provider
\* refused, is counted by nothing afterwards: its row is quarantined.
Deliver(f) ==
    /\ row[f].status = "sending"
    /\ row' = [row EXCEPT ![f] = NoRow]
    /\ \/ /\ sent' = [sent EXCEPT ![f] = Append(@, [age |-> 0, apart |-> Cooldown[row[f].kind], slip |-> SlipOf(f)])]
          /\ unsaved' = unsaved \cup {f} /\ poller' = Raced /\ UNCHANGED events
       \/ /\ events < MaxEvents /\ events' = events + 1
          /\ UNCHANGED <<sent, unsaved, poller>>
    /\ UNCHANGED <<last, unread, optedOut, hidden, presence, followed, enabled, polled>>

DeliverHidden(f) ==
    /\ f \in hidden
    /\ hidden' = hidden \ {f} /\ unsaved' = unsaved \cup {f}
    /\ sent' = [sent EXCEPT ![f] = Append(@, [age |-> 0, apart |-> 1, slip |-> "hidden"])]
    /\ UNCHANGED <<last, unread, optedOut, presence, row, followed, enabled, polled, poller, events>>

\* _record_sent_reply, after complete_delivery.
Save(f) ==
    /\ f \in unsaved
    /\ unsaved' = unsaved \ {f}
    /\ last' = [last EXCEPT ![f] = [by |-> "creator", age |-> 0]]
    /\ UNCHANGED <<unread, optedOut, sent, hidden, presence, row, followed, enabled, polled, poller, events>>

Worker(f) ==
    Answer(f) \/ Claim(f) \/ Generate(f) \/ Deliver(f) \/ DeliverHidden(f) \/ Save(f)

-----------------------------------------------------------------------------
\* The fans, the creator, the operator, faults and time.

Event == events < MaxEvents /\ events' = events + 1

FanWrites(f) ==
    /\ Event
    /\ last' = [last EXCEPT ![f] = [by |-> "fan", age |-> 0]]
    /\ unread' = unread \cup {f} /\ followed' = followed \ {f}
    /\ row' = [row EXCEPT ![f].current = FALSE]
    /\ UNCHANGED <<optedOut, sent, unsaved, hidden, presence, enabled, polled, poller>>

\* ingest_sent: the creator answered by hand.  Pending and processing rows of the fan
\* are completed and a pending outbox is cancelled; one being sent goes on.
CreatorWrites(f) ==
    /\ Event
    /\ last' = [last EXCEPT ![f] = [by |-> "creator", age |-> 0]]
    /\ unread' = unread \ {f}
    /\ hidden' = IF row[f].status = "sending" THEN hidden \cup {f} ELSE hidden
    /\ row' = [row EXCEPT ![f] = NoRow]
    /\ UNCHANGED <<optedOut, sent, unsaved, presence, followed, enabled, polled, poller>>

\* auto_messages.control.save: a poll in progress goes on.
SaveSettings(kind) ==
    /\ Event
    /\ enabled' = [enabled EXCEPT ![kind] = ~@]
    /\ UNCHANGED <<history, presence, row, followed, polled, poller>>

\* An exception ends a poll (poll_presence_outreach swallows it).
AbortPoll ==
    /\ poller.pc # "idle" /\ Event
    /\ poller' = Resting
    /\ UNCHANGED <<history, presence, row, followed, enabled, polled>>

\* release_inbound: a failed generation is tried again, the third one is not.
Release(f) ==
    /\ row[f].status = "processing" /\ Event
    /\ row' = [row EXCEPT ![f].status = "pending"] \/ row' = [row EXCEPT ![f] = NoRow]
    /\ UNCHANGED <<history, presence, followed, enabled, polled, poller>>

\* recover_interrupted; a row already completed is not looked at.
Restart ==
    /\ Event
    /\ poller' = Resting /\ polled' = [k \in Kinds |-> FALSE]
    /\ unsaved' = {} /\ hidden' = {}
    /\ row' = [f \in Fans |-> CASE row[f].status = "sending" -> NoRow
                                [] row[f].status = "processing" -> [row[f] EXCEPT !.status = "pending"]
                                [] OTHER -> row[f]]
    /\ UNCHANGED <<last, unread, optedOut, sent, presence, followed, enabled>>

\* The oldest come first; what is older than Keep is never compared with anything.
Forget(s) ==
    LET gone == Cardinality({i \in DOMAIN s : s[i].age >= Keep})
    IN  [i \in 1..(Len(s) - gone) |-> [s[i + gone] EXCEPT !.age = @ + 1]]

Tick ==
    /\ poller.pc = "idle" /\ \A k \in Kinds : enabled[k] => polled[k]
    /\ unsaved = {} /\ hidden = {} /\ \A f \in Fans : ~Delivering(f)
    /\ polled' = [k \in Kinds |-> FALSE]
    /\ last' = [f \in Fans |-> [last[f] EXCEPT !.age = IF last[f].by = "none" THEN 0 ELSE Older(@, Oldest)]]
    /\ row' = [f \in Fans |-> IF row[f].status = "none" THEN NoRow
                              ELSE [row[f] EXCEPT !.age = Older(@, Day + 1)]]
    /\ sent' = [f \in Fans |-> Forget(sent[f])]
    /\ UNCHANGED <<unread, optedOut, unsaved, hidden, presence, followed, enabled, poller, events>>

OutreachNext ==
    \/ \E k \in Kinds : BeginPoll(k) \/ SaveSettings(k)
    \/ PollStep
    \/ \E f \in Fans : Worker(f) \/ FanWrites(f) \/ CreatorWrites(f) \/ Release(f)
    \/ AbortPoll \/ Restart \/ Tick

OutreachSpec == OutreachInit /\ [][OutreachNext]_outreachVars

-----------------------------------------------------------------------------
\* Properties.

Counted(F, age) ==
    Cardinality(UNION {{<<f, i>> : i \in {j \in DOMAIN sent[f] :
                            sent[f][j].age <= age /\ sent[f][j].slip = "none"}} : f \in F})
Larger(limit) == IF limit["online"] > limit["stalled"] THEN limit["online"] ELSE limit["stalled"]
Within(limit, F, age) == (\E k \in Kinds : limit[k] = 0) \/ Counted(F, age) <= Larger(limit)

\* The caps hold for what was really sent, although they are checked long before:
\* within any hour or day no more proactive messages go out than the larger of the two
\* kinds' limits.  Three kinds of send escape: one whose row waited more than an hour
\* (its date has left the window), one whose check missed a send that completed
\* between two of its reads, and one whose row a creator's message completed while
\* the provider call was running (presence.py:358-395).
CapsUnlessSlipped ==
    /\ Within(PerHour, Fans, Hour) /\ Within(PerDay, Fans, Day)
    /\ \A f \in Fans : Within(PerFan, {f}, Day)

\* Two proactive messages to one fan are a cooldown apart, whatever the fan, the
\* creator, a requeue or a restart did in between, but for the same races
\* (presence.py:291-316).
CooldownHeld ==
    \A f \in Fans : \A i, j \in DOMAIN sent[f] :
        /\ i < j /\ sent[f][i].slip # "hidden" /\ sent[f][j].slip \notin {"unseen", "hidden"}
        => sent[f][i].age - sent[f][j].age >= sent[f][j].apart

=============================================================================
