---------------------------- MODULE CometWsDetector ----------------------------
(***************************************************************************)
(* CometWsDetector (src/realtime/ws.ts): two WebSocket subscriptions for   *)
(* every watched wallet, reconciled with the registry every 30 seconds,    *)
(* reconnected after a delay and failed over to the chain's next endpoint. *)
(*                                                                         *)
(* One chain: the detector keeps its state per subscription and per chain, *)
(* and nothing of one chain reaches another.  A WebSocket object outlives  *)
(* its entry in the map until its close event has been dispatched, so the  *)
(* objects of one subscription are numbered (Objects), current[id] being   *)
(* the one in the map.  attempts is kept modulo 3, all that failover reads.*)
(*                                                                         *)
(* The registry answers list() with any set it held while the query was    *)
(* under way.  Its answers never hold an address openSubscription would    *)
(* refuse, and a chain without endpoints is skipped before anything opens, *)
(* so those two early returns are not modelled.  The endpoints are http or *)
(* https URLs, which rpcToWebsocketUrl makes ws or wss ones: for these the *)
(* WebSocket constructor does not throw, and the reconnect that its caught *)
(* failure would schedule is left out.                                     *)
(***************************************************************************)
EXTENDS Integers, FiniteSets

CONSTANTS
    Wallets,
    Objects,        \* numbers for the WebSocket objects of one subscription
    Reconciles,     \* reconcile() calls that may overlap: nothing guards them
    Endpoints,      \* how many RPC endpoints the chain has
    Unbounded,
    MaxDrops        \* bounds the connections that drop, unless Unbounded

NoObject == 0
ASSUME DetectorAssumption ==
    /\ IsFiniteSet(Wallets) /\ IsFiniteSet(Reconciles)
    /\ Objects \subseteq Nat \ {NoObject}
    /\ Endpoints \in Nat \ {0}
    /\ Unbounded \notin Nat /\ MaxDrops \in Nat \cup {Unbounded}

Roles == {"recipient", "sender"}
Ids == Wallets \X Roles
IdsOf(W) == W \X Roles

VARIABLES
    watched,        \* what the registry would list
    down,           \* endpoints that refuse connections
    running,        \* between start() and stop()
    reconciling,    \* reconcile call -> "idle", "sent", "answered"
    answer,         \* the wallets its list() answered
    phase,          \* subscription -> object -> "none", "connecting", "open", "closing"
    endpoint,       \* the endpoint an object was opened on
    current,        \* sockets: the object in the map
    timers,         \* reconnectTimers
    attempts, endpointIndex,
    desired,        \* history: what the last finished reconcile wanted
    drops           \* how many connections have dropped

env == <<watched, down>>
calls == <<running, reconciling, answer>>
sockets == <<phase, endpoint, current>>
retry == <<timers, attempts, endpointIndex>>
vars == <<env, calls, sockets, retry, desired, drops>>

Mapped(id) == current[id] # NoObject
Covered(id) == Mapped(id) \/ id \in timers
Unused(id) == {g \in Objects : phase[id][g] = "none"}
NewObject(id) == CHOOSE g \in Unused(id) : TRUE
Live(id) == {g \in Objects : phase[id][g] \in {"connecting", "open"}}

Init ==
    /\ watched \in SUBSET Wallets
    /\ down \in SUBSET (0 .. Endpoints - 1)
    /\ running = TRUE
    /\ reconciling = [r \in Reconciles |-> "idle"]
    /\ answer = [r \in Reconciles |-> {}]
    /\ phase = [id \in Ids |-> [g \in Objects |-> "none"]]
    /\ endpoint = [id \in Ids |-> [g \in Objects |-> 0]]
    /\ current = [id \in Ids |-> NoObject]
    /\ timers = {}
    /\ attempts = [id \in Ids |-> 0]
    /\ endpointIndex = 0
    /\ desired = {}
    /\ drops = 0

(* openSubscription for the ids in S, together with ws.close() and removal   *)
(* from the map for the ids in T: what one synchronous pass does to sockets. *)
OpenAndClose(S, T) ==
    /\ \A id \in S : Unused(id) # {}
    /\ phase' = [id \in Ids |->
          IF id \in S THEN [phase[id] EXCEPT ![NewObject(id)] = "connecting"]
          ELSE IF id \in T THEN [phase[id] EXCEPT ![current[id]] = "closing"]
          ELSE phase[id]]
    /\ endpoint' = [id \in Ids |->
          IF id \in S THEN [endpoint[id] EXCEPT ![NewObject(id)] = endpointIndex]
          ELSE endpoint[id]]
    /\ current' = [id \in Ids |->
          IF id \in S THEN NewObject(id) ELSE IF id \in T THEN NoObject ELSE current[id]]
-------------------------------------------------------------------------------
(* reconcile(): the interval sends list(), the registry answers, and the     *)
(* rest runs in one piece on that answer.                                    *)
StartReconcile(r) ==
    /\ running /\ reconciling[r] = "idle"
    /\ reconciling' = [reconciling EXCEPT ![r] = "sent"]
    /\ UNCHANGED <<env, running, answer, sockets, retry, desired, drops>>

ListAnswers(r) ==
    /\ reconciling[r] = "sent"
    /\ reconciling' = [reconciling EXCEPT ![r] = "answered"]
    /\ answer' = [answer EXCEPT ![r] = watched]
    /\ UNCHANGED <<env, running, sockets, retry, desired, drops>>

(* Mutant of Missing: a pending reconnect is not looked at. *)
MissingSocket(want) == {id \in want : ~Mapped(id)}

(* A wanted subscription is opened unless it has a socket or a timer. *)
Missing(want) == {id \in want : ~Covered(id)}

Reconcile(r) ==
    LET want == IdsOf(answer[r])
        surplus == {id \in Ids \ want : Mapped(id)}
    IN  /\ reconciling[r] = "answered"
        /\ OpenAndClose(Missing(want), surplus)
        /\ timers' = timers \ surplus
        /\ attempts' = [id \in Ids |-> IF id \in surplus THEN 0 ELSE attempts[id]]
        /\ desired' = want
        /\ reconciling' = [reconciling EXCEPT ![r] = "idle"]
        /\ answer' = [answer EXCEPT ![r] = {}]
        /\ UNCHANGED <<env, running, endpointIndex, drops>>
-------------------------------------------------------------------------------
(* The open event: the subscription is sent and the attempts start again.    *)
Opens(id, g) ==
    /\ phase[id][g] = "connecting" /\ endpoint[id][g] \notin down
    /\ phase' = [phase EXCEPT ![id][g] = "open"]
    /\ attempts' = [attempts EXCEPT ![id] = 0]
    /\ UNCHANGED <<env, calls, endpoint, current, timers, endpointIndex, desired, drops>>

(* Mutant of Rotated: the index is not brought back into the table. *)
RotatedPastEnd == endpointIndex + 1

Rotated == (endpointIndex + 1) % Endpoints

(* Mutant of ScheduleReconnect: the attempt that rotates arms no timer. *)
ScheduleReconnectGivesUp(id) ==
    IF id \in timers THEN UNCHANGED retry
    ELSE /\ attempts' = [attempts EXCEPT ![id] = (@ + 1) % 3]
         /\ IF attempts'[id] = 0 THEN endpointIndex' = Rotated /\ UNCHANGED timers
            ELSE timers' = timers \cup {id} /\ UNCHANGED endpointIndex

(* scheduleReconnect: one timer per subscription; every third consecutive    *)
(* attempt rotates the endpoint of the whole chain.                          *)
ScheduleReconnect(id) ==
    IF id \in timers THEN UNCHANGED retry
    ELSE /\ timers' = timers \cup {id}
         /\ attempts' = [attempts EXCEPT ![id] = (@ + 1) % 3]
         /\ endpointIndex' = IF attempts'[id] = 0 THEN Rotated ELSE endpointIndex

(* Mutant of CloseEvent: the map entry is left behind. *)
CloseEventKeepsEntry(id, g) ==
    /\ phase' = [phase EXCEPT ![id][g] = "none"]
    /\ endpoint' = [endpoint EXCEPT ![id][g] = 0]
    /\ ScheduleReconnect(id)
    /\ UNCHANGED <<env, calls, current, desired>>

(* The close event of an object, whoever closed it: the handler clears the   *)
(* map entry of its id, even one that holds a newer object.                  *)
CloseEvent(id, g) ==
    /\ phase' = [phase EXCEPT ![id][g] = "none"]
    /\ endpoint' = [endpoint EXCEPT ![id][g] = 0]
    /\ current' = [current EXCEPT ![id] = NoObject]
    /\ ScheduleReconnect(id)
    /\ UNCHANGED <<env, calls, desired>>

Closed(id, g) ==
    /\ phase[id][g] = "closing"
    /\ CloseEvent(id, g)
    /\ UNCHANGED drops

(* A connection refused by an endpoint that is down, and one that is ended   *)
(* by the peer or the network.                                               *)
Refused(id, g) ==
    /\ phase[id][g] = "connecting" /\ endpoint[id][g] \in down
    /\ CloseEvent(id, g)
    /\ UNCHANGED drops

Drops(id, g) ==
    /\ phase[id][g] \in {"connecting", "open"}
    /\ IF MaxDrops = Unbounded THEN UNCHANGED drops
       ELSE drops < MaxDrops /\ drops' = drops + 1
    /\ CloseEvent(id, g)

(* The backoff timer fires; whether the wallet is still watched is not asked. *)
Fire(id) ==
    /\ id \in timers
    /\ timers' = timers \ {id}
    /\ OpenAndClose({id} \cap {i \in Ids : ~Mapped(i)}, {})
    /\ UNCHANGED <<env, calls, attempts, endpointIndex, desired, drops>>
-------------------------------------------------------------------------------
(* stop() at shutdown: no new reconcile, but those under way go on. *)
Stop ==
    /\ running
    /\ running' = FALSE
    /\ timers' = {}
    /\ OpenAndClose({}, {id \in Ids : Mapped(id)})
    /\ UNCHANGED <<env, reconciling, answer, attempts, endpointIndex, desired, drops>>

(* The process dies: its objects die with it, and the next one starts empty. *)
Restart ==
    /\ running' = TRUE
    /\ reconciling' = [r \in Reconciles |-> "idle"]
    /\ answer' = [r \in Reconciles |-> {}]
    /\ phase' = [id \in Ids |-> [g \in Objects |-> "none"]]
    /\ endpoint' = [id \in Ids |-> [g \in Objects |-> 0]]
    /\ current' = [id \in Ids |-> NoObject]
    /\ timers' = {} /\ attempts' = [id \in Ids |-> 0] /\ endpointIndex' = 0
    /\ desired' = {}
    /\ UNCHANGED <<env, drops>>

(* The registry's answer changes as wallets are subscribed and go idle. *)
Rewatch(W) ==
    /\ watched' = W
    /\ UNCHANGED <<down, calls, sockets, retry, desired, drops>>

DetectorStep ==
    \/ \E r \in Reconciles : StartReconcile(r) \/ ListAnswers(r) \/ Reconcile(r)
    \/ \E id \in Ids : Fire(id)
    \/ \E id \in Ids, g \in Objects :
          Opens(id, g) \/ Closed(id, g) \/ Refused(id, g) \/ Drops(id, g)

Next ==
    \/ DetectorStep
    \/ Stop \/ Restart
    \/ \E W \in SUBSET Wallets : Rewatch(W)

Spec == Init /\ [][Next]_vars

(* A process that is neither stopped nor killed: the interval keeps calling  *)
(* reconcile and the registry answers, armed timers fire, close handshakes   *)
(* end, and a connection attempt ends one way or the other: refused by an    *)
(* endpoint that is down, or opened.                                         *)
LiveNext == DetectorStep \/ \E W \in SUBSET Wallets : Rewatch(W)
Fairness ==
    /\ \A r \in Reconciles : WF_vars(StartReconcile(r) \/ ListAnswers(r) \/ Reconcile(r))
    /\ \A id \in Ids : WF_vars(Fire(id))
    /\ \A id \in Ids, g \in Objects :
          /\ WF_vars(Closed(id, g))
          /\ WF_vars(Opens(id, g))
          /\ WF_vars(Refused(id, g))
LiveSpec == Init /\ [][LiveNext]_vars /\ Fairness
-------------------------------------------------------------------------------
Phases == {"none", "connecting", "open", "closing"}
TypeOK ==
    /\ watched \subseteq Wallets
    /\ down \subseteq 0 .. Endpoints - 1
    /\ running \in BOOLEAN
    /\ reconciling \in [Reconciles -> {"idle", "sent", "answered"}]
    /\ answer \in [Reconciles -> SUBSET Wallets]
    /\ phase \in [Ids -> [Objects -> Phases]]
    /\ endpoint \in [Ids -> [Objects -> 0 .. Endpoints - 1]]
    /\ current \in [Ids -> Objects \cup {NoObject}]
    /\ timers \subseteq Ids
    /\ attempts \in [Ids -> 0 .. 2]
    /\ endpointIndex \in 0 .. Endpoints - 1
    /\ desired \subseteq Ids
    /\ drops \in Nat

(* A subscription that waits for its backoff has no socket in the map, and   *)
(* the object in the map is one that is connecting or open: nobody bypasses  *)
(* the backoff and no dead object holds the place of a live one (reconcile,  *)
(* the timer callback and the close handler meet here).                      *)
BackoffRespected ==
    \A id \in Ids :
        /\ ~(Mapped(id) /\ id \in timers)
        /\ Mapped(id) => current[id] \in Live(id)

(* Every subscription the last reconcile wanted has a socket or a timer that *)
(* will open one, through every drop, overlap of reconciles and late close.  *)
NothingForgotten == running => \A id \in desired : Covered(id)

(* "One query per (chain, address, role)". *)
OneQueryPerRole == \A id \in Ids : Cardinality(Live(id)) <= 1

(* A wallet that stays watched ends up with an open socket in the map for    *)
(* both roles and keeps it, once the network has stopped dropping, when no   *)
(* endpoint is down.                                                         *)
WatchedIsOpen ==
    \A w \in Wallets :
        down = {} /\ <>[](w \in watched) => <>[](\A id \in IdsOf({w}) :
            Mapped(id) /\ phase[id][current[id]] = "open")

(* "list() still refuses to hand idle wallets to the detectors, so no socket *)
(* is held open for them": a wallet the registry no longer lists ends up     *)
(* without sockets.                                                          *)
IdleIsReleased ==
    \A w \in Wallets :
        <>[](w \notin watched) => <>[](\A id \in IdsOf({w}) : Live(id) = {})

(* "Failover: when multiple RPCs exist for a chainId, rotate on consecutive  *)
(* failures": a watched wallet connects as long as one endpoint is up.       *)
FailsOver ==
    \A w \in Wallets :
        (down # 0 .. Endpoints - 1) /\ <>[](w \in watched) =>
            []<>(\A id \in IdsOf({w}) : \E g \in Objects : phase[id][g] = "open")
===============================================================================
