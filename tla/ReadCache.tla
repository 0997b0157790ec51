------------------------------ MODULE ReadCache ------------------------------
(***************************************************************************)
(* Reads of the provider that cost credits and are kept: the profile       *)
(* statistics (fyp_analytics/service.py) and the walls a post can go to    *)
(* (bulk_posting/service.py).  A service object keeps the last read in     *)
(* memory under a lock; provider_read_cache.py keeps it in a row that      *)
(* outlives the process.  The dashboard makes the service of a creator the *)
(* first time one of its threads needs it, without a lock.  One creator    *)
(* and one range; the ages are those of the moment a request came in.      *)
(***************************************************************************)
EXTENDS Integers, Sequences

CONSTANTS
    Readers,                \* of the dashboard
    Cooldown, TTL, Stale,   \* refresh_cooldown, cache_ttl, stale_ttl
    MaxClock, MaxReads, MaxServices

ASSUME ReadCacheAssumption ==
    /\ 0 \notin Readers
    /\ Cooldown \in Nat /\ TTL \in Nat /\ Stale \in Nat
    /\ MaxClock \in Nat /\ MaxReads \in Nat /\ MaxServices \in Nat

VARIABLES
    kind,       \* "statistics" or "walls"
    clock,
    service,    \* creator_fyp_analytics[creator], 0 without one
    made,       \* services made so far
    memory,     \* the time of the read each service keeps
    lock,       \* the thread that holds its lock
    cached,     \* the time of the read provider_read_cache holds
    thread,     \* [pc, service, at, force, seen]
    reads,      \* requests the provider answered (history)
    reverted    \* services that fell back to a row older than their memory (history)

readVars == <<kind, clock, service, made, memory, lock, cached, thread, reads, reverted>>

Never == -(Cooldown + TTL + Stale + 1)
Services == 1..MaxServices
NoRead == [pc |-> "idle", service |-> 0, at |-> 0, force |-> FALSE, seen |-> Never]

ReadCacheInit ==
    /\ kind \in {"statistics", "walls"}
    /\ clock = 0 /\ service = 0 /\ made = 0 /\ cached = Never /\ reads = <<>> /\ reverted = {}
    /\ memory = [s \in Services |-> Never]
    /\ lock = [s \in Services |-> 0]
    /\ thread = [t \in Readers |-> NoRead]

Own(t) == thread[t].service
Free(t) == [lock EXCEPT ![Own(t)] = 0]
Done(t) == thread' = [thread EXCEPT ![t] = NoRead]

-----------------------------------------------------------------------------
\* The property fyp_analytics: a creator that is not in the dictionary yet.
Find(t) ==
    /\ thread[t].pc = "idle"
    /\ thread' = [thread EXCEPT ![t].pc = IF service = 0 THEN "make" ELSE "take"]
    /\ UNCHANGED <<kind, clock, service, made, memory, lock, cached, reads, reverted>>

Make(t) ==
    /\ thread[t].pc = "make" /\ made < MaxServices
    /\ made' = made + 1 /\ service' = made + 1
    /\ thread' = [thread EXCEPT ![t].pc = "take"]
    /\ UNCHANGED <<kind, clock, memory, lock, cached, reads, reverted>>

\* snapshot or walls is called: the time is read before the lock is taken.
Take(t, force) ==
    /\ thread[t].pc = "take"
    /\ force => kind = "statistics"
    /\ thread' = [thread EXCEPT ![t] =
                      [pc |-> "lock", service |-> service, at |-> clock, force |-> force, seen |-> Never]]
    /\ UNCHANGED <<kind, clock, service, made, memory, lock, cached, reads, reverted>>

AgeLimit(force) == IF force THEN Cooldown ELSE TTL

\* Mutant: a forced refresh does not look at the age.
RecentUnlessForced(t, at) == ~thread[t].force /\ thread[t].at - at < AgeLimit(thread[t].force)

\* A read of the time at is recent enough for the request.
Recent(t, at) == thread[t].at - at < AgeLimit(thread[t].force)

\* Memory, then the row, which an error of the database hides.  Walls in memory are good
\* for one instant more.
Look(t) ==
    /\ thread[t].pc = "lock" /\ lock[Own(t)] = 0
    /\ \E seen \in {cached, Never} :
        LET kept == memory[Own(t)]
            inMemory == Recent(t, kept) \/ (kind = "walls" /\ thread[t].at - kept = TTL)
        IN  IF inMemory \/ Recent(t, seen)
            THEN /\ memory' = [memory EXCEPT ![Own(t)] = IF inMemory THEN kept ELSE seen]
                 /\ Done(t)
                 /\ lock' = lock
            ELSE /\ thread' = [thread EXCEPT ![t] = [thread[t] EXCEPT !.pc = "request", !.seen = seen]]
                 /\ lock' = [lock EXCEPT ![Own(t)] = t]
                 /\ memory' = memory
    /\ UNCHANGED <<kind, clock, service, made, cached, reads, reverted>>

\* The provider fails: the row answers as long as it is not too old, and walls keep it.
Refused(t) ==
    /\ thread[t].pc = "request"
    /\ IF kind = "walls" /\ thread[t].at - thread[t].seen < Stale
       THEN /\ memory' = [memory EXCEPT ![Own(t)] = thread[t].seen]
            /\ reverted' = IF thread[t].seen < memory[Own(t)] THEN reverted \cup {Own(t)} ELSE reverted
       ELSE UNCHANGED <<memory, reverted>>
    /\ lock' = Free(t)
    /\ Done(t)
    /\ UNCHANGED <<kind, clock, service, made, cached, reads>>

\* It answers; statistics without a dataset are an error, and nothing is kept.
Answered(t, understood) ==
    /\ thread[t].pc = "request" /\ Len(reads) < MaxReads
    /\ understood \/ kind = "statistics"
    /\ reads' = Append(reads, [at |-> thread[t].at, service |-> Own(t), seen |-> thread[t].seen,
                               limit |-> AgeLimit(thread[t].force), understood |-> understood])
    /\ IF understood
       THEN /\ memory' = [memory EXCEPT ![Own(t)] = thread[t].at]
            /\ thread' = [thread EXCEPT ![t].pc = "put"]
            /\ lock' = lock
       ELSE memory' = memory /\ lock' = Free(t) /\ Done(t)
    /\ UNCHANGED <<kind, clock, service, made, cached, reverted>>

\* The row is replaced whatever it holds; an error is swallowed.
Put(t, saved) ==
    /\ thread[t].pc = "put"
    /\ cached' = IF saved THEN thread[t].at ELSE cached
    /\ lock' = Free(t)
    /\ Done(t)
    /\ UNCHANGED <<kind, clock, service, made, memory, reads, reverted>>

ProcessRestarts ==
    /\ service # 0 /\ made < MaxServices
    /\ service' = 0
    /\ lock' = [s \in Services |-> 0]
    /\ thread' = [t \in Readers |-> NoRead]
    /\ UNCHANGED <<kind, clock, made, memory, cached, reads, reverted>>

TimePasses ==
    /\ clock < MaxClock /\ clock' = clock + 1
    /\ UNCHANGED <<kind, service, made, memory, lock, cached, thread, reads, reverted>>

ReadCacheNext ==
    \/ \E t \in Readers :
        \/ Find(t) \/ Make(t) \/ Look(t) \/ Refused(t)
        \/ \E flag \in BOOLEAN : Take(t, flag) \/ Answered(t, flag) \/ Put(t, flag)
    \/ ProcessRestarts \/ TimePasses

ReadCacheSpec == ReadCacheInit /\ [][ReadCacheNext]_readVars

-----------------------------------------------------------------------------
\* The provider is asked again before the last answer is old enough only when that answer
\* could not be read, or was not in the row the second request has seen and either two
\* services were made of one creator, the process was started again, or the walls in memory
\* were given up for an older row while the provider failed (snapshot, walls,
\* DashboardHandler.fyp_analytics).
AskedAgainForAReason ==
    \A i, j \in DOMAIN reads :
        (i < j /\ reads[i].understood /\ reads[j].at - reads[i].at < reads[j].limit) =>
            /\ reads[j].seen # reads[i].at
            /\ reads[i].service # reads[j].service \/ reads[j].service \in reverted
=============================================================================
