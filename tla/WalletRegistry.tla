---------------------------- MODULE WalletRegistry ----------------------------
(***************************************************************************)
(* SubscriptionRegistry (src/realtime/subscriptions.ts) over the wallet    *)
(* table of createPostgresStore (src/store/postgres.ts), or, when Durable  *)
(* is FALSE, the map of MemoryHistoryStore (src/store/memory.ts), which    *)
(* dies with the process and whose upsert replaces the row.  Calls on the  *)
(* memory store do not interleave: its awaits wait for no I/O, so it is to *)
(* be taken with one call at a time.                                       *)
(*                                                                         *)
(* A call is one running ensure(), registerPush() or list().  JavaScript   *)
(* runs a call without interruption between two awaits, so a call is a     *)
(* sequence of steps: the database takes a query at any moment after it    *)
(* was sent, and the code after the await runs later.  That code is a step *)
(* of its own where it reads or writes the fields of the registry, and     *)
(* belongs to the query's step where it only reads the answer.  Every call *)
(* carries `at', the clock it read on entry.                               *)
(*                                                                         *)
(* A row keeps touched (lastRefreshAt ?? firstSeenAt) and watch (watchUntil*)
(* with 0 for "none").  Clock values are small naturals; StartTime is far  *)
(* enough from 0 that the first sweep of a process is always due.          *)
(***************************************************************************)
EXTENDS Integers, FiniteSets

CONSTANTS
    Wallets,            \* <<chainId, address>> pairs
    UnsafeWallets,      \* those that fail isQuerySafeValue
    Callers,            \* authenticated subscriber identities
    Anonymous,          \* ANONYMOUS_SUBSCRIBER
    Calls,              \* registry calls that may be in flight together
    NoRow,              \* the store has no row for the wallet
    MaxWallets, MaxPerCaller, MaxPerAnonymous,
    IdleTtl, EvictionInterval, PushTtl,
    CanDelete,          \* the store implements the optional deleteWallet
    Durable,            \* the store is Postgres, not memory
    StartTime, MaxTime  \* MaxTime bounds the clock for model checking

Subscribers == Callers \cup {Anonymous}
Row == [touched : Nat, watch : Nat]

ASSUME SetsAssumption ==
    /\ IsFiniteSet(Wallets) /\ IsFiniteSet(Calls) /\ Calls # {}
    /\ UnsafeWallets \subseteq Wallets
    /\ Anonymous \notin Callers
    /\ NoRow \notin Row

ASSUME LimitsAssumption ==
    /\ MaxWallets \in Nat \ {0}
    /\ MaxPerCaller \in Nat \ {0} /\ MaxPerAnonymous \in Nat \ {0}
    /\ IdleTtl \in Nat /\ EvictionInterval \in Nat /\ PushTtl \in Nat \ {0}
    /\ CanDelete \in BOOLEAN /\ Durable \in BOOLEAN
    /\ StartTime \in Nat \ {0} /\ MaxTime \in Nat
    /\ EvictionInterval <= StartTime

VARIABLES
    rows,           \* watched_wallets: what the database holds
    registrations,  \* subscriber -> wallet -> registration time, 0 for none
    lastSweepAt,
    now,            \* the clock
    pc,             \* what each call waits for
    req,            \* arguments of the call and the clock it read
    found,          \* the row getWallet answered with
    todo,           \* evictable wallets the running sweep has still to delete
    forced,         \* ensure has already paid for a forced sweep
    evicted,        \* the running sweep has deleted a row
    outcome,        \* how the call ended
    listed,         \* what list() answered
    promised        \* history: latest watch end acknowledged to a subscriber

process == <<registrations, lastSweepAt>>
callVars == <<pc, req, found, todo, forced, evicted, outcome, listed>>
vars == <<rows, process, now, callVars, promised>>

Later(a, b) == IF a >= b THEN a ELSE b
Watchable(w) == w \notin UnsafeWallets
Stored == {w \in Wallets : rows[w] # NoRow}

(* Mutant of Idle: the push watch is not looked at. *)
IdleIgnoringWatch(row, t) == t - row.touched > IdleTtl

(* isIdle: an unfinished watch keeps a row whatever its last read. *)
Idle(row, t) == row.watch <= t /\ t - row.touched > IdleTtl

(* Mutant of Evictable: the sweep drops unusable addresses, not idle rows. *)
EvictableUnsafeOnly(t) == {w \in Stored : ~Watchable(w)}

Evictable(t) == {w \in Stored : Idle(rows[w], t) \/ ~Watchable(w)}

Quota(s) == IF s = Anonymous THEN MaxPerAnonymous ELSE MaxPerCaller

Expired(s, w, t) == t - registrations[s][w] > IdleTtl

(* countRegistrations: a caller's entries once the expired ones are gone. *)
Counted(s, t) == {w \in Wallets : registrations[s][w] # 0 /\ ~Expired(s, w, t)}

(* The entries of the subscribers in S, without those expired at t. *)
Pruned(S, t) ==
    [s \in Subscribers |-> [w \in Wallets |->
        IF s \in S /\ Expired(s, w, t) THEN 0 ELSE registrations[s][w]]]

(* Mutant of Upserted: the whole row is replaced, as a plain put would. *)
UpsertedByPut(old, new) == new

(* Mutant of Upserted: an UPDATE, which finds no row the first time. *)
UpsertedByUpdate(old, new) ==
    IF old = NoRow THEN NoRow
    ELSE [touched |-> new.touched, watch |-> Later(old.watch, new.watch)]

(* INSERT .. ON CONFLICT DO UPDATE: the read time is replaced, the watch end *)
(* is GREATEST(stored, new).  The memory store puts the new row in its place.*)
Upserted(old, new) ==
    IF old = NoRow \/ ~Durable THEN new
    ELSE [touched |-> new.touched, watch |-> Later(old.watch, new.watch)]

(* What list() keeps of a snapshot: the watchable rows that are not idle,    *)
(* newest first, cut at MaxWallets.  Ties are broken by the row order of the *)
(* SELECT, which promises none.                                              *)
Fresh(t) == {w \in Stored : Watchable(w) /\ ~Idle(rows[w], t)}
IsWatchSet(S, t) ==
    /\ S \subseteq Fresh(t)
    /\ Cardinality(S) <= MaxWallets
    /\ S # Fresh(t) => Cardinality(S) = MaxWallets
    /\ \A w \in S, v \in Fresh(t) \ S : rows[w].touched >= rows[v].touched

NoReq == [op |-> "none", wallet |-> NoRow, caller |-> Anonymous, watch |-> 0, at |-> 0]
-------------------------------------------------------------------------------
(* Init: a fresh process on a table that may hold rows from before the       *)
(* validation of addresses existed.                                          *)
Init ==
    /\ \E legacy \in SUBSET UnsafeWallets :
          /\ Cardinality(legacy) <= MaxWallets
          /\ rows = [w \in Wallets |->
                IF w \in legacy THEN [touched |-> 0, watch |-> 0] ELSE NoRow]
    /\ registrations = [s \in Subscribers |-> [w \in Wallets |-> 0]]
    /\ lastSweepAt = 0
    /\ now = StartTime
    /\ pc = [c \in Calls |-> "idle"]
    /\ req = [c \in Calls |-> NoReq]
    /\ found = [c \in Calls |-> NoRow]
    /\ todo = [c \in Calls |-> {}]
    /\ forced = [c \in Calls |-> FALSE]
    /\ evicted = [c \in Calls |-> FALSE]
    /\ outcome = [c \in Calls |-> "none"]
    /\ listed = [c \in Calls |-> {}]
    /\ promised = [w \in Wallets |-> 0]

Goto(c, label) == pc' = [pc EXCEPT ![c] = label]
End(c, result) == Goto(c, "done") /\ outcome' = [outcome EXCEPT ![c] = result]

(* sweep(now): due when forced or an interval has passed; it first forgets   *)
(* expired registrations, then lists and deletes if the store can.           *)
SweepDue(t) == t - lastSweepAt >= EvictionInterval
BeginSweep(t, base) ==
    /\ lastSweepAt' = t
    /\ registrations' = Pruned(base, t)
-------------------------------------------------------------------------------
(* ensure(): the history route passes no caller and no watch end;            *)
(* registerPush() reads the clock for the watch end in the same turn.        *)
Ensure(c, s, w, push) ==
    /\ pc[c] = "idle"
    /\ req' = [req EXCEPT ![c] =
          [op |-> IF push THEN "push" ELSE "ensure", wallet |-> w, caller |-> s,
           watch |-> IF push THEN now + PushTtl ELSE 0, at |-> now]]
    /\ IF Watchable(w) THEN Goto(c, "getWallet") /\ UNCHANGED outcome
                       ELSE End(c, "invalid_wallet")
    /\ UNCHANGED <<rows, process, now, found, todo, forced, evicted, listed, promised>>

(* Mutant of GetWallet: a wallet without a row is refreshed as well. *)
GetWalletUnchecked(c) ==
    /\ pc[c] = "getWallet"
    /\ found' = [found EXCEPT ![c] = rows[req[c].wallet]]
    /\ Goto(c, "refresh")
    /\ UNCHANGED <<rows, process, now, req, todo, forced, evicted, outcome, listed, promised>>

(* SELECT one row.  A known wallet is refreshed with no quota and no cap. *)
GetWallet(c) ==
    /\ pc[c] = "getWallet"
    /\ found' = [found EXCEPT ![c] = rows[req[c].wallet]]
    /\ Goto(c, IF found'[c] = NoRow THEN "newWallet" ELSE "refresh")
    /\ UNCHANGED <<rows, process, now, req, todo, forced, evicted, outcome, listed, promised>>

Upsert(w, row) == rows' = [rows EXCEPT ![w] = Upserted(rows[w], row)]

(* Mutant of Refresh: the end that was read is written back, not the later.  *)
RefreshFromCopy(c) ==
    /\ pc[c] = "refresh"
    /\ Upsert(req[c].wallet, [touched |-> req[c].at, watch |-> found[c].watch])
    /\ found' = [found EXCEPT ![c] = NoRow]
    /\ End(c, "renewed")
    /\ UNCHANGED <<process, now, req, todo, forced, evicted, listed, promised>>

Refresh(c) ==
    /\ pc[c] = "refresh"
    /\ Upsert(req[c].wallet,
              [touched |-> req[c].at, watch |-> Later(found[c].watch, req[c].watch)])
    /\ found' = [found EXCEPT ![c] = NoRow]
    /\ End(c, "renewed")
    /\ UNCHANGED <<process, now, req, todo, forced, evicted, listed, promised>>

(* Mutant of OverQuota: one entry too many is let through. *)
OverQuotaLate(s, t) == Cardinality(Counted(s, t)) > Quota(s)

OverQuota(s, t) == Cardinality(Counted(s, t)) >= Quota(s)

(* countRegistrations drops the caller's expired entries, refused or not. *)
RefuseQuota(c) ==
    /\ pc[c] = "newWallet"
    /\ OverQuota(req[c].caller, req[c].at)
    /\ registrations' = Pruned({req[c].caller}, req[c].at)
    /\ End(c, "caller_quota")
    /\ UNCHANGED <<rows, lastSweepAt, now, req, found, todo, forced, evicted, listed, promised>>

AdmitQuota(c) ==
    /\ pc[c] = "newWallet"
    /\ ~OverQuota(req[c].caller, req[c].at)
    /\ IF SweepDue(req[c].at)
       THEN /\ BeginSweep(req[c].at, Subscribers)
            /\ Goto(c, IF CanDelete THEN "sweepList" ELSE "capList")
       ELSE /\ registrations' = Pruned({req[c].caller}, req[c].at)
            /\ Goto(c, "capList")
            /\ UNCHANGED lastSweepAt
    /\ UNCHANGED <<rows, now, req, found, todo, forced, evicted, outcome, listed, promised>>
-------------------------------------------------------------------------------
(* The tail of sweep(): one snapshot, then one DELETE at a time.             *)
SweepList(c) ==
    /\ pc[c] = "sweepList"
    /\ todo' = [todo EXCEPT ![c] = Evictable(req[c].at)]
    /\ evicted' = [evicted EXCEPT ![c] = FALSE]
    /\ Goto(c, "sweepDelete")
    /\ UNCHANGED <<rows, process, now, req, found, forced, outcome, listed, promised>>

SweepDelete(c, w) ==
    /\ pc[c] = "sweepDelete" /\ w \in todo[c]
    /\ rows' = [rows EXCEPT ![w] = NoRow]
    /\ todo' = [todo EXCEPT ![c] = @ \ {w}]
    /\ evicted' = [evicted EXCEPT ![c] = TRUE]
    /\ UNCHANGED <<process, now, pc, req, found, forced, outcome, listed, promised>>

(* list() goes on to its SELECT; ensure() counts the rows, except that a     *)
(* forced sweep that evicted nothing leaves the full count standing.         *)
SweepEnd(c) ==
    /\ pc[c] = "sweepDelete" /\ todo[c] = {}
    /\ IF req[c].op # "list" /\ forced[c] /\ ~evicted[c]
       THEN End(c, "registry_full")
       ELSE /\ Goto(c, IF req[c].op = "list" THEN "watchList" ELSE "capList")
            /\ UNCHANGED outcome
    /\ UNCHANGED <<rows, process, now, req, found, todo, forced, evicted, listed, promised>>
-------------------------------------------------------------------------------
(* Mutant of Full: one row too many is let through. *)
FullLate(count) == count > MaxWallets

Full(count) == count >= MaxWallets

(* SELECT all rows, and the check against the cap: below it the INSERT is    *)
(* sent; at it ensure() sweeps once more, whatever the interval says.        *)
CapList(c) ==
    /\ pc[c] = "capList"
    /\ IF ~Full(Cardinality(Stored)) THEN Goto(c, "create") /\ UNCHANGED outcome
       ELSE IF forced[c] THEN End(c, "registry_full")
       ELSE Goto(c, "full") /\ UNCHANGED outcome
    /\ UNCHANGED <<rows, process, now, req, found, todo, forced, evicted, listed, promised>>

(* Mutant of ForceSweep: the call does not remember that it has paid. *)
ForceSweepAgain(c) ==
    /\ pc[c] = "full"
    /\ BeginSweep(req[c].at, Subscribers)
    /\ IF CanDelete THEN Goto(c, "sweepList") /\ UNCHANGED outcome
                    ELSE End(c, "registry_full")
    /\ UNCHANGED <<rows, now, req, found, todo, forced, evicted, listed, promised>>

ForceSweep(c) ==
    /\ pc[c] = "full"
    /\ BeginSweep(req[c].at, Subscribers)
    /\ forced' = [forced EXCEPT ![c] = TRUE]
    /\ IF CanDelete THEN Goto(c, "sweepList") /\ UNCHANGED outcome
                    ELSE End(c, "registry_full")
    /\ UNCHANGED <<rows, now, req, found, todo, evicted, listed, promised>>

Create(c) ==
    /\ pc[c] = "create"
    /\ Upsert(req[c].wallet, [touched |-> req[c].at, watch |-> req[c].watch])
    /\ Goto(c, "created")
    /\ UNCHANGED <<process, now, req, found, todo, forced, evicted, outcome, listed, promised>>

(* recordRegistration runs only after the row is written. *)
Created(c) ==
    /\ pc[c] = "created"
    /\ registrations' = [registrations EXCEPT ![req[c].caller][req[c].wallet] = req[c].at]
    /\ End(c, "created")
    /\ UNCHANGED <<rows, lastSweepAt, now, req, found, todo, forced, evicted, listed, promised>>
-------------------------------------------------------------------------------
(* list(), called by the poll and by the WebSocket reconciliation. *)
List(c) ==
    /\ pc[c] = "idle"
    /\ req' = [req EXCEPT ![c] = [NoReq EXCEPT !.op = "list", !.at = now]]
    /\ IF SweepDue(now)
       THEN /\ BeginSweep(now, Subscribers)
            /\ Goto(c, IF CanDelete THEN "sweepList" ELSE "watchList")
       ELSE Goto(c, "watchList") /\ UNCHANGED process
    /\ UNCHANGED <<rows, now, found, todo, forced, evicted, outcome, listed, promised>>

WatchList(c) ==
    /\ pc[c] = "watchList"
    /\ \E S \in SUBSET Stored :
          /\ IsWatchSet(S, req[c].at)
          /\ listed' = [listed EXCEPT ![c] = S]
    /\ End(c, "listed")
    /\ UNCHANGED <<rows, process, now, req, found, todo, forced, evicted, promised>>
-------------------------------------------------------------------------------
(* The answer reaches the caller; an accepted push is a promise to watch.    *)
Accepted(c) == outcome[c] \in {"renewed", "created"}

Clear(S) ==
    /\ pc' = [c \in Calls |-> IF c \in S THEN "idle" ELSE pc[c]]
    /\ req' = [c \in Calls |-> IF c \in S THEN NoReq ELSE req[c]]
    /\ found' = [c \in Calls |-> IF c \in S THEN NoRow ELSE found[c]]
    /\ todo' = [c \in Calls |-> IF c \in S THEN {} ELSE todo[c]]
    /\ forced' = [c \in Calls |-> IF c \in S THEN FALSE ELSE forced[c]]
    /\ evicted' = [c \in Calls |-> IF c \in S THEN FALSE ELSE evicted[c]]
    /\ outcome' = [c \in Calls |-> IF c \in S THEN "none" ELSE outcome[c]]
    /\ listed' = [c \in Calls |-> IF c \in S THEN {} ELSE listed[c]]

Return(c) ==
    /\ pc[c] = "done"
    /\ promised' = IF req[c].op = "push" /\ Accepted(c)
                   THEN [promised EXCEPT ![req[c].wallet] = Later(@, req[c].watch)]
                   ELSE promised
    /\ Clear({c})
    /\ UNCHANGED <<rows, process, now>>

(* The store rejects a query, before it took effect or after: the call throws. *)
Waiting == {"getWallet", "newWallet", "refresh", "sweepList", "sweepDelete",
            "capList", "full", "create", "created", "watchList"}

StoreError(c) ==
    /\ pc[c] \in Waiting \/ outcome[c] \in {"renewed", "listed"}
    /\ Clear({c})
    /\ UNCHANGED <<rows, process, now, promised>>

(* The process ends and starts again: the table survives, nothing else does; *)
(* with the memory store what it acknowledged is gone with it.               *)
Restart ==
    /\ IF Durable THEN UNCHANGED <<rows, promised>>
       ELSE /\ rows' = [w \in Wallets |-> NoRow]
            /\ promised' = [w \in Wallets |-> 0]
    /\ registrations' = [s \in Subscribers |-> [w \in Wallets |-> 0]]
    /\ lastSweepAt' = 0
    /\ Clear(Calls)
    /\ UNCHANGED now

Tick ==
    /\ now < MaxTime
    /\ now' = now + 1
    /\ UNCHANGED <<rows, process, callVars, promised>>

CallStep(c) ==
    \/ GetWallet(c) \/ Refresh(c)
    \/ RefuseQuota(c) \/ AdmitQuota(c)
    \/ SweepList(c) \/ (\E w \in Wallets : SweepDelete(c, w)) \/ SweepEnd(c)
    \/ CapList(c) \/ ForceSweep(c)
    \/ Create(c) \/ Created(c) \/ WatchList(c) \/ Return(c)

StartCall(c) ==
    \/ \E w \in Wallets : Ensure(c, Anonymous, w, FALSE)
    \/ \E w \in Wallets, s \in Subscribers : Ensure(c, s, w, TRUE)
    \/ List(c)

Next ==
    \/ \E c \in Calls : StartCall(c) \/ CallStep(c) \/ StoreError(c)
    \/ Restart
    \/ Tick

Spec == Init /\ [][Next]_vars

(* The database answers every query it was sent and the event loop runs      *)
(* every continuation; nothing obliges a caller, the clock or a crash.       *)
FairSpec == Spec /\ \A c \in Calls : WF_vars(CallStep(c))
-------------------------------------------------------------------------------
Labels == Waiting \cup {"idle", "done"}
Outcomes == {"none", "invalid_wallet", "caller_quota", "registry_full",
             "renewed", "created", "listed"}
Requests ==
    [op : {"none", "list", "ensure", "push"}, wallet : Wallets \cup {NoRow},
     caller : Subscribers, watch : Nat, at : Nat]

(* Every variable has its type, and only a call that names a wallet reaches  *)
(* the steps that read it (subscriptions.ts, the state of the class and the  *)
(* locals of its methods).                                                   *)
TypeOK ==
    /\ rows \in [Wallets -> Row \cup {NoRow}]
    /\ registrations \in [Subscribers -> [Wallets -> Nat]]
    /\ lastSweepAt \in Nat /\ now \in Nat
    /\ pc \in [Calls -> Labels]
    /\ req \in [Calls -> Requests]
    /\ found \in [Calls -> Row \cup {NoRow}]
    /\ todo \in [Calls -> SUBSET Wallets]
    /\ forced \in [Calls -> BOOLEAN] /\ evicted \in [Calls -> BOOLEAN]
    /\ outcome \in [Calls -> Outcomes]
    /\ listed \in [Calls -> SUBSET Wallets]
    /\ promised \in [Wallets -> Nat]
    /\ \A c \in Calls :
          /\ req[c].op \in {"ensure", "push"} => req[c].wallet \in Wallets
          /\ pc[c] \in Waiting => req[c].op # "none"
          /\ pc[c] \in Waiting \ {"sweepList", "sweepDelete", "watchList"} => req[c].op # "list"
          /\ pc[c] = "refresh" => found[c] # NoRow

(* The hard cap (config.ts, maxWallets): ensure() counts the table and writes *)
(* it two awaits later, so calls in flight together can each take the last    *)
(* slot; the table never holds more than one wallet over the cap for each     *)
(* call beyond the first, however long the calls go on overlapping.           *)
CapBound == Cardinality(Stored) <= MaxWallets - 1 + Cardinality(Calls)

(* "New wallets one authenticated caller may add within idleTtlMs" (config.ts) *)
(* is overrun in the same way and by no more: the registrations of a caller   *)
(* never exceed its quota by more than the calls in flight beyond the first.  *)
QuotaBound ==
    \A s \in Subscribers :
        Cardinality({w \in Wallets : registrations[s][w] # 0})
            <= Quota(s) - 1 + Cardinality(Calls)

(* A push subscription that was acknowledged is in the table with a watch end *)
(* no earlier than the acknowledged one, whatever other renewals, history     *)
(* reads working from an older copy of the row, errors and restarts came in   *)
(* between (registerPush, laterOf, the upsert of postgres.ts).                *)
PromiseKept ==
    \A w \in Wallets : promised[w] > now =>
        rows[w] # NoRow /\ rows[w].watch >= promised[w]

(* The registry implements the contract of its push subscriptions: whatever   *)
(* calls overlap, fail or are cut off by a restart, a watch end never moves   *)
(* back and is acknowledged only once it is stored (registerPush, ensure).    *)
WatchEnd == [w \in Wallets |-> IF rows[w] = NoRow THEN 0 ELSE rows[w].watch]
Contract == INSTANCE WatchContract WITH until <- WatchEnd
WatchesAsPromised == Contract!Spec

(* list() never leaves out a wallet whose acknowledged watch is running,      *)
(* unless it hands out a full MaxWallets wallets read at least as recently.   *)
PromisedIsWatched ==
    [][\A c \in Calls : WatchList(c) =>
          \A w \in Wallets : promised[w] > req[c].at =>
              \/ w \in listed'[c]
              \/ /\ Cardinality(listed'[c]) = MaxWallets
                 /\ \A v \in listed'[c] : rows[v].touched >= rows[w].touched]_vars

(* "At the cap, pay for a sweep now rather than refuse a wallet whose slot is *)
(* held by a row nobody has read in days": a wallet is refused only by a full *)
(* table in which every row is still read or watched.                         *)
RefusedOnlyWhenFull ==
    \A c \in Calls : pc[c] = "done" /\ outcome[c] = "registry_full" =>
        /\ Cardinality(Stored) >= MaxWallets
        /\ \A w \in Stored : \/ rows[w].watch > req[c].at
                              \/ req[c].at - rows[w].touched <= IdleTtl

(* Every call ends: the forced sweep at the cap is paid at most once.         *)
CallEnds == \A c \in Calls : pc[c] # "idle" ~> pc[c] = "idle"
===============================================================================
