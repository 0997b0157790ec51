------------------------------ MODULE Connections ------------------------------
(***************************************************************************)
(* Model Setup: the provider accounts connected to local creators          *)
(* (creators/connections.py), the handlers of the dashboard that connect,  *)
(* verify and import them, and the clients and services it keeps for a     *)
(* creator that is not the runtime's own (web/dashboard.py).               *)
(*                                                                         *)
(* Every request runs in a thread of the dashboard.  A provider call takes *)
(* its time between two steps; what it answers is a choice.  Rows, the     *)
(* client cache and the attempts survive as long as the code keeps them:   *)
(* attempts and caches not a restart.                                      *)
(***************************************************************************)
EXTENDS Naturals, Sequences, FiniteSets, SequencesExt

CONSTANTS
    Accounts, Labels,
    NameOf,             \* the label of an account at the provider
    Managed,            \* the accounts connected at the provider from the start
    Legacy,             \* the creator of the process and its account
    Requests, Attempts,
    MaxTries,           \* 3 in the code
    MaxRestarts         \* bound

None == "none"
Plain(label) == <<label, None>>
Ids == {Plain(l) : l \in Labels} \cup {<<NameOf[a], a>> : a \in Accounts}

ASSUME ConnectionsAssumption ==
    /\ IsFiniteSet(Accounts) /\ None \notin Accounts /\ Managed \subseteq Accounts
    /\ NameOf \in [Accounts -> Labels]
    /\ \E l \in Labels : Legacy.id = Plain(l)
    /\ Legacy.account \in Accounts
    /\ MaxTries \in Nat

VARIABLES
    creators,    \* creators: the ids there are
    connected,   \* creator_connections.provider_account_id; its status is always connected
    switch,      \* creator_settings bot_enabled
    linked,      \* the accounts connected at the provider
    attempt,     \* PendingConnectionStore._items
    clients,     \* CreatorConnectionService._clients, by the account they are for
    services,    \* the dashboard's creator_bulk_posting and creator_fyp_analytics
    request,
    superseded,  \* accounts of a creator replaced by a request that had found it free
    restarts

tables == <<creators, connected, switch>>
inProcess == <<attempt, clients, services>>
connectionVars == <<tables, linked, inProcess, request, superseded, restarts>>

NoRequest == [pc |-> "done", id |-> Plain(None), account |-> None, free |-> FALSE,
         attempt |-> None, todo |-> <<>>]
NoAttempt == [open |-> FALSE, label |-> None, tries |-> 0, free |-> FALSE]
Owner(a) == {i \in Ids : connected[i] = a}

\* ensure_legacy: neither an existing connection nor an imported account is touched.
WithLegacy(table) ==
    IF table[Legacy.id] = None /\ \A i \in Ids : table[i] # Legacy.account
    THEN [table EXCEPT ![Legacy.id] = Legacy.account] ELSE table

ConnectionsInit ==
    /\ connected = WithLegacy([i \in Ids |-> None])
    /\ creators = {Legacy.id} /\ switch = [i \in Ids |-> "unset"]
    /\ linked = Managed
    /\ attempt = [n \in Attempts |-> NoAttempt]
    /\ clients = [i \in Ids |-> None] /\ services = [i \in Ids |-> None]
    /\ request = [t \in Requests |-> NoRequest] /\ superseded = [i \in Ids |-> {}]
    /\ restarts = 0

Goto(t, r) == request' = [request EXCEPT ![t] = r]
Finish(t) == Goto(t, NoRequest)

-----------------------------------------------------------------------------
\* Connecting: the label is looked up before the provider is asked, and not again.

\* Mutant: the label is not looked up.
FreeForAll(id) == TRUE

FreeLabel(id) == connected[id] = None

Connect(t, label) ==
    /\ request[t].pc = "done" /\ FreeLabel(Plain(label))
    /\ Goto(t, [NoRequest EXCEPT !.pc = "linking", !.id = Plain(label),
                            !.free = connected[Plain(label)] = None])
    /\ UNCHANGED <<tables, linked, inProcess, superseded, restarts>>

\* The provider connects the account, asks for a code, or refuses.
Linking(t) ==
    /\ request[t].pc = "linking"
    /\ \/ \E a \in Accounts :
             /\ linked' = linked \cup {a}
             /\ Goto(t, [request[t] EXCEPT !.pc = "upsert", !.account = a])
             /\ UNCHANGED attempt
       \/ \E n \in Attempts :
             /\ ~attempt[n].open
             /\ attempt' = [attempt EXCEPT ![n] = [open |-> TRUE, label |-> request[t].id[1],
                                                   tries |-> 0, free |-> request[t].free]]
             /\ Finish(t) /\ UNCHANGED linked
       \/ Finish(t) /\ UNCHANGED <<linked, attempt>>
    /\ UNCHANGED <<tables, clients, services, superseded, restarts>>

\* verify_2fa: get counts the try, and drops the attempt at the fourth.
Verify(t, n) ==
    /\ request[t].pc = "done" /\ attempt[n].open
    /\ IF attempt[n].tries < MaxTries
       THEN /\ attempt' = [attempt EXCEPT ![n].tries = @ + 1]
            /\ Goto(t, [NoRequest EXCEPT !.pc = "verifying", !.id = Plain(attempt[n].label),
                                    !.free = attempt[n].free, !.attempt = n])
       ELSE attempt' = [attempt EXCEPT ![n] = NoAttempt] /\ UNCHANGED request
    /\ UNCHANGED <<tables, linked, clients, services, superseded, restarts>>

Verifying(t) ==
    /\ request[t].pc = "verifying"
    /\ \/ \E a \in Accounts :
             /\ linked' = linked \cup {a}
             /\ attempt' = [attempt EXCEPT ![request[t].attempt] = NoAttempt]
             /\ Goto(t, [request[t] EXCEPT !.pc = "upsert", !.account = a, !.attempt = None])
       \/ Finish(t) /\ UNCHANGED <<linked, attempt>>
    /\ UNCHANGED <<tables, clients, services, superseded, restarts>>

Expire(n) ==
    /\ attempt[n].open /\ attempt' = [attempt EXCEPT ![n] = NoAttempt]
    /\ UNCHANGED <<tables, linked, clients, services, request, superseded, restarts>>

-----------------------------------------------------------------------------
\* Rows.

\* upsert and sync_managed_account: an account of another creator violates the unique key
\* and rolls the transaction back.
Store(t, id, a) ==
    /\ creators' = creators \cup {id}
    /\ connected' = [connected EXCEPT ![id] = a]
    /\ switch' = [switch EXCEPT ![id] = IF @ = "unset" THEN "false" ELSE @]
    /\ superseded' = IF connected[id] \in {None, a} \/ ~request[t].free THEN superseded
                     ELSE [superseded EXCEPT ![id] = @ \cup {connected[id]}]

Taken(id, a) == Owner(a) \notin {{}, {id}}

Upsert(t) ==
    LET r == request[t] IN
    /\ r.pc = "upsert"
    /\ IF Taken(r.id, r.account)
       THEN Finish(t) /\ UNCHANGED <<tables, superseded>>
       ELSE Store(t, r.id, r.account) /\ Goto(t, [r EXCEPT !.pc = "cache"])
    /\ UNCHANGED <<linked, inProcess, restarts>>

Cache(t) ==
    /\ request[t].pc = "cache"
    /\ clients' = [clients EXCEPT ![request[t].id] = request[t].account]
    /\ Finish(t)
    /\ UNCHANGED <<tables, linked, attempt, services, superseded, restarts>>

-----------------------------------------------------------------------------
\* sync_connected_accounts: the provider's list, one account after the other.

Available(a) == IF Plain(NameOf[a]) \notin creators THEN Plain(NameOf[a]) ELSE <<NameOf[a], a>>

Sync(t) ==
    /\ request[t].pc = "done"
    /\ \E todo \in SetToSeqs(linked) : Goto(t, [NoRequest EXCEPT !.pc = "lookup", !.todo = todo])
    /\ UNCHANGED <<tables, linked, inProcess, superseded, restarts>>

Lookup(t) ==
    LET a == Head(request[t].todo)
        id == IF Owner(a) # {} THEN CHOOSE i \in Owner(a) : TRUE ELSE Available(a)
    IN  /\ request[t].pc = "lookup"
        /\ IF request[t].todo = <<>> THEN Finish(t)
           ELSE Goto(t, [request[t] EXCEPT !.pc = "import", !.id = id, !.account = a,
                                           !.free = connected[id] \in {None, a},
                                           !.todo = Tail(@)])
        /\ UNCHANGED <<tables, linked, inProcess, superseded, restarts>>

Import(t) ==
    LET r == request[t] IN
    /\ r.pc = "import"
    /\ IF Taken(r.id, r.account)
       THEN Finish(t) /\ UNCHANGED <<tables, superseded>>
       ELSE Store(t, r.id, r.account) /\ Goto(t, [r EXCEPT !.pc = "lookup"])
    /\ UNCHANGED <<linked, inProcess, restarts>>

-----------------------------------------------------------------------------
\* The workspace of a creator.  The first request for its posts or its analytics keeps the
\* client it was given.

ClientFor(id) == [clients EXCEPT ![id] = connected[id]]

OpenWorkspace(id) ==
    /\ connected[id] # None /\ id # Legacy.id
    /\ clients' = ClientFor(id)
    /\ services' = [services EXCEPT ![id] = IF @ = None THEN connected[id] ELSE @]
    /\ UNCHANGED <<tables, linked, attempt, request, superseded, restarts>>

StartDashboard ==
    /\ restarts < MaxRestarts /\ restarts' = restarts + 1
    /\ attempt' = [n \in Attempts |-> NoAttempt]
    /\ clients' = [i \in Ids |-> None] /\ services' = [i \in Ids |-> None]
    /\ request' = [t \in Requests |-> NoRequest]
    /\ connected' = WithLegacy(connected)
    /\ UNCHANGED <<creators, switch, linked, superseded>>

ConnectionsNext ==
    \/ \E t \in Requests :
          \/ \E l \in Labels : Connect(t, l)
          \/ \E n \in Attempts : Verify(t, n)
          \/ Linking(t) \/ Verifying(t) \/ Upsert(t) \/ Cache(t)
          \/ Sync(t) \/ Lookup(t) \/ Import(t)
    \/ \E n \in Attempts : Expire(n)
    \/ \E i \in Ids : OpenWorkspace(i)
    \/ StartDashboard

ConnectionsSpec == ConnectionsInit /\ [][ConnectionsNext]_connectionVars

-----------------------------------------------------------------------------
\* Properties.

ConnectionsTypeOK ==
    /\ creators \subseteq Ids /\ connected \in [Ids -> Accounts \cup {None}]
    /\ switch \in [Ids -> {"unset", "false"}] /\ linked \subseteq Accounts
    /\ attempt \in [Attempts -> [open : BOOLEAN, label : Labels \cup {None}, tries : 0..MaxTries,
                                 free : BOOLEAN]]
    /\ clients \in [Ids -> Accounts \cup {None}] /\ services \in [Ids -> Accounts \cup {None}]

\* What a creator's workspace posts and reads with is the creator's account, unless that
\* account was replaced by a request that had found the name free, and an account belongs
\* to one creator (connections.py:352-503, dashboard.py:913-953).
WorkspaceIsCreators ==
    /\ \A i \in Ids : services[i] \in {None, connected[i]} \cup superseded[i]
    /\ \A a \in Accounts : Cardinality(Owner(a)) <= 1
    /\ \A i \in Ids : connected[i] # None => i \in creators

=============================================================================
