-------------------------- MODULE HistoryRouteProofs --------------------------
(* Proofs about HistoryRoute, for every number of wallets, requests and      *)
(* transactions and every value of the limits.  What the registry guarantees *)
(* on its own is carried over: a step of the composition is a step of the    *)
(* registry, a step that leaves it alone, a getHistory() write of a row, or  *)
(* the end of a request.                                                     *)
EXTENDS HistoryRoute, WalletRegistryProofs

RouteParts ==
    /\ block \in [Txs -> Nat]
    /\ unordered \subseteq Wallets
    /\ txs \in [Wallets -> SUBSET Txs]
    /\ read \in [Calls -> Reads]
    /\ storing \in Wallets \cup {NoRow}
    /\ shown \in [Wallets -> SUBSET Txs]
    /\ \A c \in Calls : ~At(c, "off") => pc[c] = "done" /\ req[c].op = "ensure"

LEMMA TypeSplit ==
    RouteTypeOK <=> TypeOK /\ RouteParts
BY DEF RouteTypeOK, RouteParts

(* The calls a step of one call leaves alone. *)
OnlyOf(c) ==
    \A d \in Calls \ {c} : pc'[d] = pc[d] /\ req'[d] = req[d] /\ outcome'[d] = outcome[d]

LEMMA ClearOnly ==
    ASSUME NEW c \in Calls, Clear({c})
    PROVE  /\ OnlyOf(c)
           /\ pc'[c] = "idle" /\ req'[c] = NoReq /\ outcome'[c] = "none"
BY DEF Clear, OnlyOf

LEMMA StepOnly ==
    ASSUME TypeOK, NEW c \in Calls, StartCall(c) \/ CallStep(c) \/ StoreError(c)
    PROVE  OnlyOf(c)
<1> USE DEF TypeOK, OnlyOf, Goto, End
<1>1. ASSUME StartCall(c) PROVE OnlyOf(c)
  BY <1>1 DEF StartCall, Ensure, List
<1>2. CASE GetWallet(c) \/ RefuseQuota(c) \/ AdmitQuota(c) \/ CapList(c) \/ ForceSweep(c)
  BY <1>2 DEF GetWallet, RefuseQuota, AdmitQuota, CapList, ForceSweep
<1>3. CASE Refresh(c) \/ Create(c) \/ Created(c) \/ WatchList(c)
  BY <1>3 DEF Refresh, Create, Created, WatchList
<1>4. CASE SweepList(c) \/ (\E w \in Wallets : SweepDelete(c, w)) \/ SweepEnd(c)
  BY <1>4 DEF SweepList, SweepDelete, SweepEnd
<1>5. CASE Return(c) \/ StoreError(c)
  BY <1>5, ClearOnly DEF Return, StoreError
<1> QED
  BY <1>1, <1>2, <1>3, <1>4, <1>5 DEF CallStep

(* The row getHistory() writes, and what the write leaves of the others. *)
LEMMA WriteRow ==
    ASSUME RouteTypeOK, NEW c \in Calls, ~At(c, "off")
    PROVE  /\ Wallet(c) \in Wallets
           /\ [touched |-> req[c].at, watch |-> 0] \in Row
<1>1. req[c].op = "ensure" /\ req[c] \in Requests
  BY DEF RouteTypeOK, TypeOK
<1>2. req[c].wallet \in Wallets /\ req[c].at \in Nat
  BY <1>1 DEF RouteTypeOK, TypeOK, Requests
<1> QED
  BY <1>2 DEF Row, Wallet

LEMMA WriteType ==
    ASSUME RouteTypeOK, NEW c \in Calls, ~At(c, "off"), Write(c),
           UNCHANGED <<process, now, callVars, promised>>
    PROVE  TypeOK'
<1> DEFINE row == [touched |-> req[c].at, watch |-> 0]
<1>1. Wallet(c) \in Wallets /\ row \in Row
  BY WriteRow
<1>2. rows' = [rows EXCEPT ![Wallet(c)] = Upserted(rows[Wallet(c)], row)]
  BY DEF Write, Upsert
<1>3. rows \in [Wallets -> Row \cup {NoRow}]
  BY DEF RouteTypeOK, TypeOK
<1>4. rows' \in [Wallets -> Row \cup {NoRow}]
  <2> HIDE DEF row
  <2> QED
    BY <1>1, <1>2, <1>3, UpsertedType
<1> QED
  BY <1>4 DEF RouteTypeOK, TypeOK, process, callVars

LEMMA ClearType ==
    ASSUME TypeOK, NEW c \in Calls, Clear({c}), UNCHANGED <<rows, process, now, promised>>
    PROVE  TypeOK'
<1>1. /\ pc' \in [Calls -> Labels]
      /\ req' \in [Calls -> Requests]
      /\ found' \in [Calls -> Row \cup {NoRow}]
      /\ todo' \in [Calls -> SUBSET Wallets]
      /\ forced' \in [Calls -> BOOLEAN] /\ evicted' \in [Calls -> BOOLEAN]
      /\ outcome' \in [Calls -> Outcomes]
      /\ listed' \in [Calls -> SUBSET Wallets]
  BY DEF Clear, TypeOK, Labels, Outcomes, Requests, NoReq, Subscribers
<1>2. \A d \in Calls :
          /\ req'[d].op \in {"ensure", "push"} => req'[d].wallet \in Wallets
          /\ pc'[d] \in Waiting => req'[d].op # "none"
          /\ pc'[d] \in Waiting \ {"sweepList", "sweepDelete", "watchList"}
                => req'[d].op # "list"
          /\ pc'[d] = "refresh" => found'[d] # NoRow
  BY DEF Clear, TypeOK, NoReq, Waiting
<1> QED
  BY <1>1, <1>2 DEF TypeOK, process
-------------------------------------------------------------------------------
LEMMA RouteTypeInit == RouteInit => RouteTypeOK
<1> SUFFICES ASSUME RouteInit PROVE RouteTypeOK
  OBVIOUS
<1>1. TypeOK
  BY TypeInit DEF RouteInit
<1>2. RouteParts
  BY HistoryAssumption DEF RouteInit, RouteParts, Reads, NoRead, At
<1> QED
  BY <1>1, <1>2, TypeSplit

LEMMA NewestIsSubset ==
    \A K, n, any : \A kept \in Newest(K, n, any) : kept \subseteq K
BY DEF Newest

(* What a write of transactions leaves well typed. *)
LEMMA StoreType ==
    ASSUME RouteParts, NEW w \in Wallets, Trimmed(w) \/ \E k \in Txs, isDated \in BOOLEAN : Store(w, k, isDated)
    PROVE  /\ block' = block /\ unordered' \subseteq Wallets
           /\ txs' \in [Wallets -> SUBSET Txs]
<1>1. CASE Trimmed(w)
  <2>1. PICK kept \in Newest(txs[w], MaxTxsPerWallet, w \in unordered) :
            txs' = [txs EXCEPT ![w] = kept]
    BY <1>1 DEF Trimmed
  <2>2. kept \subseteq txs[w]
    BY <2>1, NewestIsSubset
  <2> QED
    BY <1>1, <2>1, <2>2 DEF Trimmed, RouteParts
<1>2. ASSUME NEW k \in Txs, NEW isDated \in BOOLEAN, Store(w, k, isDated)
      PROVE  /\ block' = block /\ unordered' \subseteq Wallets
             /\ txs' \in [Wallets -> SUBSET Txs]
  BY <1>2 DEF Store, RouteParts
<1> QED
  BY <1>1, <1>2

(* The locals of a read, after a step of its request. *)
LEMMA ReadKept ==
    ASSUME RouteParts, NEW c \in Calls, NEW next \in Reads, Continue(c, next),
           OnlyOf(c) \/ UNCHANGED <<pc, req>>,
           next.at # "off" => pc'[c] = "done" /\ req'[c].op = "ensure"
    PROVE  /\ read' \in [Calls -> Reads]
           /\ \A d \in Calls : ~At(d, "off")' => pc'[d] = "done" /\ req'[d].op = "ensure"
<1>1. read' = [read EXCEPT ![c] = next] /\ read \in [Calls -> Reads]
  BY DEF Continue, RouteParts
<1>2. \A d \in Calls : read'[d] = (IF d = c THEN next ELSE read[d])
  BY <1>1
<1>3. ASSUME NEW d \in Calls, d # c, read'[d].at # "off"
      PROVE  pc'[d] = "done" /\ req'[d].op = "ensure"
  BY <1>2, <1>3 DEF OnlyOf, RouteParts, At
<1> QED
  BY <1>1, <1>2, <1>3 DEF At

LEMMA RouteTypeNext == RouteTypeOK /\ [RouteNext]_allVars => RouteTypeOK'
<1> SUFFICES ASSUME RouteTypeOK, [RouteNext]_allVars PROVE RouteTypeOK'
  OBVIOUS
<1>0. /\ TypeOK /\ RouteParts
      /\ (TypeOK' /\ RouteParts' => RouteTypeOK')
  BY TypeSplit DEF RouteTypeOK, RouteParts
<1>a. ASSUME UNCHANGED vars PROVE TypeOK' /\ pc' = pc /\ req' = req
  <2>1. [Next]_vars
    BY <1>a
  <2> QED
    BY <1>0, <2>1, <1>a, TypeNext DEF vars, callVars
<1>b. ASSUME NEW c \in Calls
      PROVE  /\ ~At(c, "off") => pc[c] = "done" /\ req[c].op = "ensure" /\ Wallet(c) \in Wallets
             /\ read[c] \in Reads
  BY WriteRow DEF RouteTypeOK
<1>1. ASSUME NEW c \in Calls, RegistryStep(c) PROVE RouteTypeOK'
  <2>1. TypeOK'
    BY <1>0, <1>1, TypeNext DEF RegistryStep, Next
  <2>2. OnlyOf(c) /\ UNCHANGED routeVars
    BY <1>0, <1>1, StepOnly DEF RegistryStep
  <2>3. At(c, "off")
    BY <1>0, <1>1 DEF RegistryStep, StartCall, Ensure, List, RouteParts
  <2>4. RouteParts'
    BY <1>0, <2>2, <2>3 DEF RouteParts, routeVars, data, OnlyOf, At
  <2> QED
    BY <1>0, <2>1, <2>4
<1>2. ASSUME NEW w \in Active, ConsumerUpserts(w) PROVE RouteTypeOK'
  <2>1. w \in Wallets
    BY HistoryAssumption
  <2>2. block' = block /\ unordered' \subseteq Wallets /\ txs' \in [Wallets -> SUBSET Txs]
    BY <1>0, <1>2, <2>1, StoreType DEF ConsumerUpserts
  <2> QED
    BY <1>0, <1>2, <1>a, <2>1, <2>2 DEF ConsumerUpserts, RouteParts, At
<1>3. CASE ConsumerTrims
  <2>1. storing \in Wallets
    BY <1>0, <1>3 DEF ConsumerTrims, RouteParts
  <2>2. block' = block /\ unordered' \subseteq Wallets /\ txs' \in [Wallets -> SUBSET Txs]
    BY <1>0, <1>3, <2>1, StoreType DEF ConsumerTrims
  <2> QED
    BY <1>0, <1>3, <1>a, <2>2 DEF ConsumerTrims, RouteParts, At
<1>4. ASSUME NEW c \in Calls, LookedUp(c) PROVE RouteTypeOK'
  <2>1. PICK next \in Reads : Continue(c, next) /\ next.at # "off"
    <3> DEFINE new == rows[Wallet(c)] = NoRow
               next == [NoRead EXCEPT !.at = IF new THEN "register" ELSE "cached", !.first = new]
    <3>1. next \in Reads /\ next.at # "off"
      BY DEF NoRead, Reads
    <3> QED
      BY <1>4, <3>1 DEF LookedUp
  <2>2. /\ pc' = pc /\ pc[c] = "done" /\ req'[c].op = "ensure"
        /\ req' = [req EXCEPT ![c] = [req[c] EXCEPT !.at = now]]
        /\ UNCHANGED <<rows, process, now, promised, data, shown>>
        /\ UNCHANGED <<pc, found, todo, forced, evicted, outcome, listed>>
    BY <1>0, <1>4 DEF LookedUp, TypeOK, Requests
  <2>3. TypeOK'
    <3>1. [req[c] EXCEPT !.at = now] \in Requests
      <4>1. req[c] \in Requests /\ now \in Nat
        BY <1>0 DEF TypeOK
      <4> QED
        BY <4>1 DEF Requests
    <3>2. req' \in [Calls -> Requests]
      BY <1>0, <2>2, <3>1 DEF TypeOK
    <3>3. \A d \in Calls : req'[d].op = req[d].op /\ req'[d].wallet = req[d].wallet
      BY <1>0, <2>2 DEF TypeOK, Requests
    <3> QED
      BY <1>0, <2>2, <3>2, <3>3 DEF TypeOK, process
  <2>4. OnlyOf(c)
    BY <1>0, <2>2 DEF OnlyOf, TypeOK
  <2> QED
    BY <1>0, <2>1, <2>2, <2>3, <2>4, ReadKept DEF RouteParts, data
(* A response ends the request. *)
<1>d. ASSUME NEW c \in Calls, ~At(c, "off"), UNCHANGED data, Continue(c, NoRead), Clear({c}),
             UNCHANGED <<rows, process, now, promised>>, shown' \in [Wallets -> SUBSET Txs]
      PROVE  RouteTypeOK'
  <2>1. TypeOK'
    BY <1>0, <1>d, ClearType
  <2>2. NoRead \in Reads /\ NoRead.at = "off"
    BY DEF NoRead, Reads
  <2> QED
    BY <1>0, <1>d, <2>1, <2>2, ReadKept, ClearOnly DEF RouteParts, data
<1>e. ASSUME NEW c \in Calls, ~At(c, "off"), NEW page \in SUBSET Txs, Answers(c, page)
      PROVE  shown' \in [Wallets -> SUBSET Txs]
  BY <1>0, <1>b, <1>e DEF Answers, RouteParts
<1>5. ASSUME NEW c \in Calls, Register(c) \/ Touch(c) PROVE RouteTypeOK'
  <2>1. ~At(c, "off") /\ Write(c) /\ UNCHANGED <<process, now, callVars, promised, data, shown>>
    BY <1>5 DEF Register, Touch, At
  <2>2. TypeOK'
    BY <2>1, WriteType
  <2>3. \E next \in Reads : Continue(c, next) /\ next.at # "off"
    <3>1. /\ [read[c] EXCEPT !.at = "fetch"] \in Reads
          /\ [read[c] EXCEPT !.at = "page"] \in Reads
      BY <1>b DEF Reads
    <3>2. /\ [read[c] EXCEPT !.at = "fetch"].at = "fetch"
          /\ [read[c] EXCEPT !.at = "page"].at = "page"
      BY <1>b DEF Reads
    <3> QED
      BY <1>5, <3>1, <3>2 DEF Register, Touch
  <2> QED
    BY <1>0, <1>b, <2>1, <2>2, <2>3, ReadKept DEF RouteParts, data, callVars
<1>6. ASSUME NEW c \in Calls, Cached(c) \/ PageAnswers(c) PROVE RouteTypeOK'
  <2>1. ~At(c, "off") /\ UNCHANGED data
    BY <1>6 DEF Cached, PageAnswers, At
  <2>2. CASE ListAnswers(c)
    <3>1. PICK page \in Listed(Wallet(c), RefreshPageSize) : Answers(c, page)
      BY <2>2 DEF ListAnswers
    <3>2. page \in SUBSET Txs
      BY <1>0, <1>b, <2>1, <3>1, NewestIsSubset DEF Listed, RouteParts
    <3> QED
      BY <1>d, <1>e, <2>1, <3>1, <3>2 DEF Answers
  <2>3. CASE Continue(c, [read[c] EXCEPT !.at = "fetch"]) /\ UNCHANGED <<vars, shown>>
    <3> DEFINE next == [read[c] EXCEPT !.at = "fetch"]
    <3>1. next \in Reads /\ next.at # "off"
      BY <1>b DEF Reads
    <3>2. Continue(c, next)
      BY <2>3
    <3> HIDE DEF next
    <3> QED
      BY <1>0, <1>a, <1>b, <2>1, <2>3, <3>1, <3>2, ReadKept DEF RouteParts, data
  <2> QED
    BY <1>6, <2>2, <2>3 DEF Cached, PageAnswers
<1>7. ASSUME NEW c \in Calls, FetchAnswers(c) PROVE RouteTypeOK'
  <2>1. ~At(c, "off") /\ UNCHANGED <<vars, data, shown>>
    BY <1>7 DEF FetchAnswers, At
  <2>2. PICK fetched \in Fetched(Limit(read[c].first)) :
            Continue(c, [read[c] EXCEPT !.at = Stores(fetched), !.batch = fetched,
                             !.page = IF read[c].first THEN fetched ELSE {}])
    BY <1>7 DEF FetchAnswers
  <2>3. fetched \subseteq Txs /\ Stores(fetched) \in {"trim", "store"}
    <3>1. PICK K \in SUBSET Txs : fetched \in Newest(K, Limit(read[c].first), FALSE)
      BY <2>2 DEF Fetched
    <3>2. fetched \subseteq K
      BY <3>1, NewestIsSubset
    <3> QED
      BY <3>2 DEF Stores
  <2>4. \E next \in Reads : Continue(c, next) /\ next.at # "off"
    <3> DEFINE next == [read[c] EXCEPT !.at = Stores(fetched), !.batch = fetched,
                            !.page = IF read[c].first THEN fetched ELSE {}]
    <3>1. next \in Reads /\ next.at # "off"
      BY <1>b, <2>3 DEF Reads
    <3> QED
      BY <2>2, <3>1
  <2> QED
    BY <1>0, <1>a, <1>b, <2>1, <2>4, ReadKept DEF RouteParts, data
<1>8. ASSUME NEW c \in Calls, StoreRow(c) PROVE RouteTypeOK'
  <2>1. ~At(c, "off") /\ UNCHANGED <<vars, storing, shown>>
    BY <1>8 DEF StoreRow, At
  <2>2. PICK k \in read[c].batch :
            /\ Store(Wallet(c), k, TRUE)
            /\ Continue(c, [read[c] EXCEPT !.at = Stores(read[c].batch \ {k}), !.batch = @ \ {k}])
    BY <1>8 DEF StoreRow
  <2>3. k \in Txs
    BY <1>b, <2>2 DEF Reads
  <2>4. block' = block /\ unordered' \subseteq Wallets /\ txs' \in [Wallets -> SUBSET Txs]
    BY <1>0, <1>b, <2>1, <2>2, <2>3, StoreType
  <2>5. \E next \in Reads : Continue(c, next) /\ next.at # "off"
    <3> DEFINE next == [read[c] EXCEPT !.at = Stores(read[c].batch \ {k}), !.batch = @ \ {k}]
    <3>1. next \in Reads /\ next.at # "off"
      BY <1>b DEF Reads, Stores
    <3> QED
      BY <2>2, <3>1
  <2> QED
    BY <1>0, <1>a, <1>b, <2>1, <2>4, <2>5, ReadKept DEF RouteParts
<1>9. ASSUME NEW c \in Calls, Trim(c) PROVE RouteTypeOK'
  <2>1. ~At(c, "off") /\ UNCHANGED storing
    BY <1>9 DEF Trim, At
  <2>2. block' = block /\ unordered' \subseteq Wallets /\ txs' \in [Wallets -> SUBSET Txs]
    BY <1>0, <1>9, <1>b, <2>1, StoreType DEF Trim
  <2>3. CASE Answers(c, read[c].page)
    <3>1. /\ Continue(c, NoRead) /\ Clear({c})
          /\ UNCHANGED <<rows, process, now, promised>>
      BY <2>3 DEF Answers
    <3>2. read[c].page \in SUBSET Txs
      BY <1>b DEF Reads
    <3>3. shown' \in [Wallets -> SUBSET Txs]
      BY <1>e, <2>1, <2>3, <3>2
    <3>4. TypeOK'
      BY <1>0, <3>1, ClearType
    <3>5. NoRead \in Reads /\ NoRead.at = "off"
      BY DEF NoRead, Reads
    <3> QED
      BY <1>0, <2>1, <2>2, <3>1, <3>3, <3>4, <3>5, ReadKept, ClearOnly DEF RouteParts
  <2>4. CASE Continue(c, [read[c] EXCEPT !.at = "touch"]) /\ UNCHANGED <<vars, shown>>
    <3> DEFINE next == [read[c] EXCEPT !.at = "touch"]
    <3>1. next \in Reads /\ next.at # "off"
      BY <1>b DEF Reads
    <3>2. Continue(c, next)
      BY <2>4
    <3> HIDE DEF next
    <3> QED
      BY <1>0, <1>a, <1>b, <2>1, <2>2, <2>4, <3>1, <3>2, ReadKept DEF RouteParts
  <2> QED
    BY <1>9, <2>3, <2>4 DEF Trim
<1>10. ASSUME NEW c \in Calls, ReadFails(c) PROVE RouteTypeOK'
  BY <1>0, <1>10, <1>d DEF ReadFails, At, RouteParts
<1>11. CASE RouteRestart
  <2>1. TypeOK'
    BY <1>0, <1>11, TypeNext DEF RouteRestart, Next
  <2>2. read' \in [Calls -> Reads] /\ \A c \in Calls : read'[c].at = "off"
    BY <1>11 DEF RouteRestart, NoRead, Reads
  <2> QED
    BY <1>0, <1>11, <2>1, <2>2 DEF RouteRestart, RouteParts, At
<1>12. CASE RouteTick
  <2>1. TypeOK'
    BY <1>0, <1>12, TypeNext DEF RouteTick, Next
  <2> QED
    BY <1>0, <1>12, <2>1 DEF RouteTick, Tick, RouteParts, routeVars, data, callVars, At
<1>13. CASE UNCHANGED allVars
  BY <1>0, <1>13, <1>a DEF allVars, routeVars, data, RouteParts, At
<1> QED
  BY <1>1, <1>2, <1>3, <1>4, <1>5, <1>6, <1>7, <1>8, <1>9, <1>10, <1>11, <1>12, <1>13
  DEF RouteNext, ReadStep

(* Every reachable state of the history route is well typed, and only a      *)
(* request that came through ensure() with a wallet reads its history.       *)
THEOREM RouteTypes == RouteSpec => []RouteTypeOK
BY RouteTypeInit, RouteTypeNext, PTL DEF RouteSpec
-------------------------------------------------------------------------------
(* What a step of the composition is to the registry. *)
Looks(c) ==
    /\ pc[c] = "done" /\ req[c].op = "ensure" /\ req' = [req EXCEPT ![c].at = now]
    /\ UNCHANGED <<rows, process, now, promised, pc, found, todo, forced, evicted, outcome, listed>>
GoesOn(c) == ~At(c, "off") /\ Write(c) /\ UNCHANGED <<process, now, callVars, promised>>
IsOver(c) == ~At(c, "off") /\ Clear({c}) /\ UNCHANGED <<rows, process, now, promised>>

LEMMA RouteSteps ==
    ASSUME [RouteNext]_allVars
    PROVE  [Next]_vars \/ \E c \in Calls : Looks(c) \/ GoesOn(c) \/ IsOver(c)
<1>1. ASSUME NEW c \in Calls, RegistryStep(c) PROVE Next
  BY <1>1 DEF RegistryStep, Next
<1>2. ASSUME NEW c \in Calls,
             Cached(c) \/ FetchAnswers(c) \/ StoreRow(c) \/ Trim(c) \/ PageAnswers(c)
      PROVE  UNCHANGED vars \/ IsOver(c)
  BY <1>2 DEF Cached, FetchAnswers, StoreRow, Trim, PageAnswers, ListAnswers, Answers, IsOver, At
<1>3. ASSUME NEW c \in Calls, Register(c) \/ Touch(c) PROVE GoesOn(c)
  BY <1>3 DEF Register, Touch, GoesOn, At
<1>4. ASSUME NEW c \in Calls, LookedUp(c) \/ ReadFails(c) PROVE Looks(c) \/ IsOver(c)
  BY <1>4 DEF LookedUp, Looks, ReadFails, IsOver, At
<1>5. ASSUME (\E w \in Active : ConsumerUpserts(w)) \/ ConsumerTrims PROVE UNCHANGED vars
  BY <1>5 DEF ConsumerUpserts, ConsumerTrims
<1>6. ASSUME RouteRestart \/ RouteTick PROVE Next
  BY <1>6 DEF RouteRestart, RouteTick, Next
<1>7. ASSUME UNCHANGED allVars PROVE UNCHANGED vars
  BY <1>7 DEF allVars
<1> QED
  BY <1>1, <1>2, <1>3, <1>4, <1>5, <1>6, <1>7 DEF RouteNext, ReadStep

LEMMA RoutePromiseNext ==
    ~CanDelete /\ Durable /\ RouteTypeOK /\ PromiseInv /\ [RouteNext]_allVars => PromiseInv'
<1> SUFFICES ASSUME ~CanDelete, Durable, RouteTypeOK, PromiseInv, [RouteNext]_allVars
             PROVE  PromiseInv'
  OBVIOUS
<1>0. TypeOK
  BY DEF RouteTypeOK
<1>1. CASE [Next]_vars
  BY <1>0, <1>1, PromiseNext
<1>2. ASSUME NEW c \in Calls, GoesOn(c) PROVE PromiseInv'
  <2> DEFINE row == [touched |-> req[c].at, watch |-> 0]
  <2>1. Wallet(c) \in Wallets /\ row \in Row /\ Upsert(Wallet(c), row)
    BY <1>2, WriteRow DEF GoesOn, Write
  <2>2. \A v \in Wallets : \A end \in Nat : Kept(v, end) => Kept(v, end)'
    <3> HIDE DEF row
    <3> QED
      BY <1>0, <2>1, KeptByUpsert
  <2>3. OnlyOf(c) /\ pc'[c] = pc[c] /\ req'[c] = req[c] /\ outcome'[c] = outcome[c]
            /\ promised' = promised
    BY <1>2 DEF GoesOn, callVars, OnlyOf
  <2>4. req[c].op = "ensure"
    BY <1>2 DEF GoesOn, RouteTypeOK
  <2>5. PushInv(c)'
    BY <2>3, <2>4 DEF PromiseInv, PushInv, Accepted
  <2> QED
    BY <1>0, <2>2, <2>3, <2>5, OthersKept DEF OnlyOf
<1>3. ASSUME NEW c \in Calls, IsOver(c) PROVE PromiseInv'
  <2>1. OnlyOf(c) /\ pc'[c] = "idle" /\ req'[c] = NoReq /\ outcome'[c] = "none"
    BY <1>3, ClearOnly DEF IsOver
  <2>2. PushInv(c)'
    BY <2>1 DEF PushInv, Accepted, Waiting, NoReq
  <2>3. promised' = promised /\ \A v \in Wallets : \A end \in Nat : Kept(v, end) => Kept(v, end)'
    BY <1>3 DEF IsOver, Kept
  <2> QED
    BY <1>0, <2>1, <2>2, <2>3, OthersKept DEF OnlyOf
<1>4. ASSUME NEW c \in Calls, Looks(c) PROVE PromiseInv'
  <2>1. /\ OnlyOf(c) /\ pc' = pc /\ outcome' = outcome /\ promised' = promised /\ rows' = rows
        /\ req[c].op = "ensure" /\ req'[c].op = "ensure"
    BY <1>0, <1>4 DEF Looks, OnlyOf, TypeOK, Requests
  <2>2. PushInv(c)'
    BY <2>1 DEF PromiseInv, PushInv, Accepted
  <2>3. \A v \in Wallets : \A end \in Nat : Kept(v, end) => Kept(v, end)'
    BY <2>1 DEF Kept
  <2> QED
    BY <1>0, <2>1, <2>2, <2>3, OthersKept DEF OnlyOf
<1> QED
  BY <1>1, <1>2, <1>3, <1>4, RouteSteps

(* The contract of the push subscriptions survives the history route: its    *)
(* two writes of a row, from a read that may be old by then, shorten no      *)
(* acknowledged watch (registerPush, getHistory, the upsert of postgres.ts). *)
THEOREM RouteKeepsPromises == ~CanDelete /\ Durable => (RouteSpec => []PromiseKept)
<1> SUFFICES ASSUME ~CanDelete, Durable PROVE RouteSpec => []PromiseKept
  OBVIOUS
<1>1. RouteInit => PromiseInv
  BY PromiseInit DEF RouteInit
<1>2. RouteTypeOK /\ PromiseInv /\ [RouteNext]_allVars => PromiseInv'
  BY RoutePromiseNext
<1>3. RouteTypeOK /\ PromiseInv => PromiseKept
  BY DEF RouteTypeOK, TypeOK, PromiseInv, PromiseKept, Kept
<1> QED
  BY <1>1, <1>2, <1>3, RouteTypes, PTL DEF RouteSpec

(* The route implements the watch contract as the registry alone does: over  *)
(* Postgres, no write of a history request moves a watch end back, and no    *)
(* end is acknowledged before it is stored (getHistory, registerPush,        *)
(* upsertWallet).                                                            *)
THEOREM RouteKeepsTheContract == ~CanDelete /\ Durable => (RouteSpec => WatchesAsPromised)
<1> SUFFICES ASSUME ~CanDelete, Durable PROVE RouteSpec => WatchesAsPromised
  OBVIOUS
<1>1. RouteInit => PromiseInv /\ Contract!Init
  BY PromiseInit, ContractInit DEF RouteInit
<1>2. RouteTypeOK /\ PromiseInv /\ [RouteNext]_allVars => PromiseInv'
  BY RoutePromiseNext
<1>3. RouteTypeOK /\ PromiseInv /\ [RouteNext]_allVars => [Contract!Next]_(Contract!contract)
  <2> SUFFICES ASSUME RouteTypeOK, PromiseInv, [RouteNext]_allVars
               PROVE  [Contract!Next]_(Contract!contract)
    OBVIOUS
  <2>1. TypeOK
    BY DEF RouteTypeOK
  <2>2. CASE [Next]_vars
    BY <2>1, <2>2, ContractNext
  <2>3. ASSUME NEW c \in Calls, GoesOn(c) PROVE [Contract!Next]_(Contract!contract)
    <3> DEFINE row == [touched |-> req[c].at, watch |-> 0]
    <3>1. /\ Wallet(c) \in Wallets /\ row \in Row /\ Upsert(Wallet(c), row)
          /\ UNCHANGED promised
      BY <2>3, WriteRow DEF GoesOn, Write
    <3> HIDE DEF row
    <3> QED
      BY <2>1, <3>1, UpsertExtends
  <2>4. ASSUME NEW c \in Calls, IsOver(c) PROVE [Contract!Next]_(Contract!contract)
    BY <2>4 DEF IsOver, Contract!contract, WatchEnd
  <2>5. ASSUME NEW c \in Calls, Looks(c) PROVE [Contract!Next]_(Contract!contract)
    BY <2>5 DEF Looks, Contract!contract, WatchEnd
  <2> QED
    BY <2>2, <2>3, <2>4, <2>5, RouteSteps
<1> QED
  BY <1>1, <1>2, <1>3, RouteTypes, PTL DEF RouteSpec, WatchesAsPromised, Contract!Spec
-------------------------------------------------------------------------------
(* First connects, over a store that deletes no wallet.  A row that was      *)
(* written stays, so a request whose ensure() was not refused finds one.     *)
Refusals == {"caller_quota", "registry_full"}
FirstInv(c) ==
    /\ pc[c] \notin {"sweepList", "sweepDelete"}
    /\ pc[c] = "watchList" => req[c].op = "list"
    /\ pc[c] # "done" => outcome[c] = "none"
    /\ req[c].op = "ensure" => Watchable(req[c].wallet)
    /\ (pc[c] = "created" \/ Accepted(c)) /\ req[c].op = "ensure" => rows[req[c].wallet] # NoRow
    /\ pc[c] = "done" /\ req[c].op = "ensure" => Accepted(c) \/ outcome[c] \in Refusals
    /\ read[c].first => ~At(c, "off") /\ outcome[c] \in Refusals
AllFirst == \A c \in Calls : FirstInv(c)
RowsStay == \A v \in Wallets : rows[v] # NoRow => rows'[v] # NoRow

LEMMA UpsertStays ==
    ASSUME TypeOK, NEW w \in Wallets, NEW row \in Row, Upsert(w, row)
    PROVE  RowsStay /\ rows'[w] # NoRow
<1>1. rows' = [rows EXCEPT ![w] = Upserted(rows[w], row)]
  BY DEF Upsert
<1>2. rows \in [Wallets -> Row \cup {NoRow}]
  BY DEF TypeOK
<1>3. Upserted(rows[w], row) # NoRow
  BY <1>2, UpsertedType, SetsAssumption
<1> QED
  BY <1>1, <1>2, <1>3 DEF RowsStay

(* The two steps of the registry that write a row. *)
LEMMA CallWrites ==
    ASSUME TypeOK, NEW c \in Calls, Refresh(c) \/ Create(c)
    PROVE  RowsStay /\ rows'[req[c].wallet] # NoRow
<1>1. req[c].wallet \in Wallets /\ req[c] \in Requests
  BY DEF Refresh, Create, TypeOK, Requests, Waiting
<1>2. req[c].at \in Nat /\ req[c].watch \in Nat
  BY <1>1 DEF Requests
<1>3. CASE Refresh(c)
  <2> DEFINE row == [touched |-> req[c].at, watch |-> Later(found[c].watch, req[c].watch)]
  <2>1. found[c] \in Row
    BY <1>3 DEF Refresh, TypeOK
  <2>2. row \in Row
    BY <1>2, <2>1, LaterIsNat DEF Row
  <2>3. Upsert(req[c].wallet, row)
    BY <1>3 DEF Refresh
  <2> HIDE DEF row
  <2> QED
    BY <1>1, <2>2, <2>3, UpsertStays
<1>4. CASE Create(c)
  <2> DEFINE row == [touched |-> req[c].at, watch |-> req[c].watch]
  <2>1. row \in Row
    BY <1>2 DEF Row
  <2>2. Upsert(req[c].wallet, row)
    BY <1>4 DEF Create
  <2> HIDE DEF row
  <2> QED
    BY <1>1, <2>1, <2>2, UpsertStays
<1> QED
  BY <1>3, <1>4

(* A step that takes no row away and no other call along. *)
LEMMA OthersFirst ==
    ASSUME RouteTypeOK, AllFirst, NEW c \in Calls, RowsStay, OnlyOf(c),
           \A d \in Calls \ {c} : read'[d] = read[d], FirstInv(c)'
    PROVE  AllFirst'
<1>1. ASSUME NEW d \in Calls, d # c PROVE FirstInv(d)'
  <2>1. /\ FirstInv(d) /\ pc'[d] = pc[d] /\ req'[d] = req[d]
        /\ outcome'[d] = outcome[d] /\ read'[d] = read[d]
    BY <1>1 DEF AllFirst, OnlyOf
  <2>2. req[d].op = "ensure" => req[d].wallet \in Wallets
    BY DEF RouteTypeOK, TypeOK
  <2>3. ASSUME req[d].op = "ensure", rows[req[d].wallet] # NoRow
        PROVE  rows'[req[d].wallet] # NoRow
    BY <2>2, <2>3 DEF RowsStay
  <2> QED
    BY <2>1, <2>3 DEF FirstInv, Accepted, At
<1> QED
  BY <1>1 DEF AllFirst

LEMMA FirstInit == RouteInit => AllFirst
BY DEF RouteInit, Init, AllFirst, FirstInv, NoReq, NoRead, Accepted, At

LEMMA FirstStart ==
    ASSUME ~CanDelete, RouteTypeOK, AllFirst, NEW c \in Calls, StartCall(c),
           req'[c].op # "list" => Watchable(Wallet(c)'), UNCHANGED routeVars
    PROVE  AllFirst' /\ RowsStay
<1> USE DEF Goto, End
<1>0. TypeOK /\ FirstInv(c) /\ OnlyOf(c) /\ read' = read
  BY StepOnly DEF RouteTypeOK, AllFirst, routeVars
<1>1. pc[c] = "idle" /\ RowsStay /\ ~read[c].first
  <2>1. pc[c] = "idle" /\ rows' = rows
    BY DEF StartCall, Ensure, List
  <2> QED
    BY <1>0, <2>1 DEF RowsStay, FirstInv, RouteTypeOK
<1>2. ASSUME NEW s \in Subscribers, NEW w \in Wallets, NEW push \in BOOLEAN,
             Ensure(c, s, w, push)
      PROVE  FirstInv(c)'
  <2>1. /\ req'[c].op = (IF push THEN "push" ELSE "ensure")
        /\ req'[c].wallet = w
        /\ pc'[c] = (IF Watchable(w) THEN "getWallet" ELSE "done")
        /\ outcome'[c] = (IF Watchable(w) THEN "none" ELSE "invalid_wallet")
    BY <1>0, <1>1, <1>2 DEF Ensure, TypeOK, FirstInv
  <2>2. req'[c].op # "list"
    BY <2>1
  <2>3. Watchable(w)
    BY <2>1, <2>2 DEF Wallet, Watchable
  <2> QED
    BY <1>0, <1>1, <2>1, <2>3 DEF FirstInv, Accepted
<1>3. ASSUME List(c) PROVE FirstInv(c)'
  <2>1. /\ req'[c].op = "list" /\ pc'[c] = "watchList" /\ outcome'[c] = outcome[c]
    BY <1>0, <1>3 DEF List, TypeOK, NoReq
  <2> QED
    BY <1>0, <1>1, <2>1 DEF FirstInv, Accepted
<1>4. FirstInv(c)'
  BY <1>2, <1>3 DEF StartCall, Subscribers
<1> QED
  BY <1>0, <1>1, <1>4, OthersFirst

LEMMA FirstCall ==
    ASSUME ~CanDelete, RouteTypeOK, AllFirst, NEW c \in Calls, CallStep(c),
           pc[c] = "done" => req[c].op # "ensure", UNCHANGED routeVars
    PROVE  AllFirst' /\ RowsStay
<1> USE DEF Goto, End
<1>0. TypeOK /\ FirstInv(c) /\ OnlyOf(c) /\ read' = read
  BY StepOnly DEF RouteTypeOK, AllFirst, routeVars
<1>1. ~read[c].first
  BY <1>0 DEF FirstInv, RouteTypeOK, CallStep, GetWallet, Refresh, RefuseQuota, AdmitQuota,
     SweepList, SweepDelete, SweepEnd, CapList, ForceSweep, Create, Created, WatchList, Return
<1>2. CASE GetWallet(c) \/ RefuseQuota(c) \/ AdmitQuota(c) \/ CapList(c) \/ ForceSweep(c)
  <2>1. RowsStay
    BY <1>2 DEF GetWallet, RefuseQuota, AdmitQuota, CapList, ForceSweep, RowsStay
  <2>2. FirstInv(c)'
    BY <1>0, <1>1, <1>2 DEF GetWallet, RefuseQuota, AdmitQuota, CapList, ForceSweep, TypeOK,
       FirstInv, Refusals, Accepted
  <2> QED
    BY <1>0, <2>1, <2>2, OthersFirst
<1>3. CASE Refresh(c) \/ Create(c)
  <2>1. RowsStay /\ rows'[req[c].wallet] # NoRow
    BY <1>0, <1>3, CallWrites
  <2>2. FirstInv(c)'
    BY <1>0, <1>1, <1>3, <2>1 DEF Refresh, Create, TypeOK, FirstInv, Accepted
  <2> QED
    BY <1>0, <2>1, <2>2, OthersFirst
<1>4. CASE Created(c) \/ WatchList(c)
  <2>1. RowsStay
    BY <1>4 DEF Created, WatchList, RowsStay
  <2>2. FirstInv(c)'
    BY <1>0, <1>1, <1>4 DEF Created, WatchList, TypeOK, FirstInv, Accepted
  <2> QED
    BY <1>0, <2>1, <2>2, OthersFirst
<1>5. CASE SweepList(c) \/ (\E w \in Wallets : SweepDelete(c, w)) \/ SweepEnd(c)
  BY <1>0, <1>5 DEF SweepList, SweepDelete, SweepEnd, FirstInv
<1>6. CASE Return(c)
  <2>1. RowsStay /\ pc'[c] = "idle" /\ req'[c] = NoReq /\ outcome'[c] = "none"
    BY <1>6, ClearOnly DEF Return, RowsStay
  <2>2. FirstInv(c)'
    BY <1>0, <1>1, <2>1 DEF FirstInv, Accepted, NoReq
  <2> QED
    BY <1>0, <2>1, <2>2, OthersFirst
<1> QED
  BY <1>2, <1>3, <1>4, <1>5, <1>6 DEF CallStep

LEMMA FirstNext == ~CanDelete /\ RouteTypeOK /\ AllFirst /\ [RouteNext]_allVars
                      => AllFirst' /\ (RowsStay \/ RouteRestart)
<1> SUFFICES ASSUME ~CanDelete, RouteTypeOK, AllFirst, [RouteNext]_allVars
             PROVE  AllFirst' /\ (RowsStay \/ RouteRestart)
  OBVIOUS
<1>0. /\ TypeOK
      /\ \A c \in Calls : FirstInv(c) /\ read[c] \in Reads
      /\ \A c \in Calls : ~At(c, "off") => req[c].op = "ensure" /\ pc[c] = "done"
  BY DEF RouteTypeOK, AllFirst
<1>a. ASSUME UNCHANGED vars, read' = read PROVE AllFirst' /\ RowsStay
  BY <1>0, <1>a DEF vars, callVars, AllFirst, FirstInv, Accepted, At, RowsStay
(* The end of a call and of its read. *)
<1>b. ASSUME NEW c \in Calls, Clear({c}), rows' = rows, read' = [read EXCEPT ![c] = NoRead]
      PROVE  AllFirst' /\ RowsStay
  <2>1. OnlyOf(c) /\ pc'[c] = "idle" /\ req'[c] = NoReq /\ outcome'[c] = "none" /\ RowsStay
    BY <1>b, ClearOnly DEF RowsStay
  <2>2. ~read'[c].first /\ \A d \in Calls \ {c} : read'[d] = read[d]
    BY <1>b DEF NoRead, RouteTypeOK
  <2>3. FirstInv(c)'
    BY <2>1, <2>2 DEF FirstInv, Accepted, NoReq
  <2> QED
    BY <2>1, <2>2, <2>3, OthersFirst
(* A step of a read that is under way keeps `first'. *)
<1>c. ASSUME NEW c \in Calls, NEW next, Continue(c, next), RowsStay, UNCHANGED callVars,
             ~At(c, "off"), next.first = read[c].first, next.at # "off"
      PROVE  AllFirst'
  <2>1. read'[c] = next /\ \A d \in Calls \ {c} : read'[d] = read[d]
    BY <1>c DEF Continue, RouteTypeOK
  <2>2. req[c].op = "ensure" /\ req[c].wallet \in Wallets
    BY <1>0, <1>c DEF TypeOK
  <2>3. FirstInv(c)'
    BY <1>0, <1>c, <2>1, <2>2 DEF FirstInv, Accepted, At, callVars, RowsStay
  <2> QED
    BY <1>c, <2>1, <2>3, OthersFirst DEF callVars, OnlyOf
<1>1. ASSUME NEW c \in Calls, RegistryStep(c) PROVE AllFirst' /\ RowsStay
  <2>1. CASE StartCall(c) /\ (req'[c].op # "list" => Watchable(Wallet(c)'))
    BY <1>1, <2>1, FirstStart DEF RegistryStep
  <2>2. CASE CallStep(c) /\ (pc[c] = "done" => req[c].op # "ensure")
    BY <1>1, <2>2, FirstCall DEF RegistryStep
  <2>3. CASE StoreError(c) /\ At(c, "off")
    <3>1. OnlyOf(c) /\ pc'[c] = "idle" /\ req'[c] = NoReq /\ outcome'[c] = "none"
              /\ RowsStay /\ read' = read
      BY <1>1, <2>3, ClearOnly DEF RegistryStep, StoreError, RowsStay, routeVars
    <3>2. ~read[c].first
      BY <1>0, <2>3 DEF FirstInv
    <3>3. FirstInv(c)'
      BY <3>1, <3>2 DEF FirstInv, Accepted, NoReq
    <3> QED
      BY <3>1, <3>3, OthersFirst
  <2> QED
    BY <1>1, <2>1, <2>2, <2>3 DEF RegistryStep
<1>2. ASSUME (\E w \in Active : ConsumerUpserts(w)) \/ ConsumerTrims
      PROVE  AllFirst' /\ RowsStay
  BY <1>2, <1>a DEF ConsumerUpserts, ConsumerTrims
<1>3. ASSUME NEW c \in Calls, LookedUp(c) PROVE AllFirst' /\ RowsStay
  <2> DEFINE new == rows[Wallet(c)] = NoRow
             next == [NoRead EXCEPT !.at = IF new THEN "register" ELSE "cached", !.first = new]
  <2>1. next.at # "off" /\ next.first = new
    BY DEF NoRead
  <2>2. /\ pc[c] = "done" /\ req[c].op = "ensure"
        /\ UNCHANGED <<rows, pc, outcome>> /\ req' = [req EXCEPT ![c].at = now]
        /\ read'[c] = next /\ \A d \in Calls \ {c} : read'[d] = read[d]
    BY <1>3 DEF LookedUp, Continue, RouteTypeOK
  <2>3. RowsStay /\ OnlyOf(c) /\ req'[c].op = "ensure" /\ req'[c].wallet = req[c].wallet
    BY <1>0, <2>2 DEF RowsStay, OnlyOf, TypeOK, Requests
  <2>4. new => outcome[c] \in Refusals
    BY <1>0, <2>2 DEF FirstInv, Wallet
  <2>5. FirstInv(c)'
    <3> HIDE DEF next
    <3> QED
      BY <1>0, <2>1, <2>2, <2>3, <2>4 DEF FirstInv, Accepted, At
  <2> QED
    BY <2>2, <2>3, <2>5, OthersFirst
<1>4. ASSUME NEW c \in Calls, Register(c) \/ Touch(c) PROVE AllFirst' /\ RowsStay
  <2>1. ~At(c, "off") /\ Write(c) /\ UNCHANGED callVars
    BY <1>4 DEF Register, Touch, At
  <2>2. RowsStay
    <3> DEFINE row == [touched |-> req[c].at, watch |-> 0]
    <3>1. Wallet(c) \in Wallets /\ row \in Row /\ Upsert(Wallet(c), row)
      BY <2>1, WriteRow DEF Write
    <3> HIDE DEF row
    <3> QED
      BY <1>0, <3>1, UpsertStays
  <2>3. PICK next : Continue(c, next) /\ next.first = read[c].first /\ next.at # "off"
    <3>1. /\ [read[c] EXCEPT !.at = "fetch"].at = "fetch"
          /\ [read[c] EXCEPT !.at = "page"].at = "page"
          /\ [read[c] EXCEPT !.at = "fetch"].first = read[c].first
          /\ [read[c] EXCEPT !.at = "page"].first = read[c].first
      BY <1>0 DEF Reads
    <3> QED
      BY <1>4, <3>1 DEF Register, Touch
  <2> QED
    BY <1>c, <2>1, <2>2, <2>3
<1>5. ASSUME NEW c \in Calls,
             Cached(c) \/ PageAnswers(c) \/ FetchAnswers(c) \/ StoreRow(c) \/ Trim(c)
      PROVE  (AllFirst' /\ RowsStay) \/ \E page : Answers(c, page)
  <2> SUFFICES ASSUME \A page : ~Answers(c, page) PROVE AllFirst' /\ RowsStay
    OBVIOUS
  <2>1. ~At(c, "off") /\ UNCHANGED callVars /\ RowsStay
    BY <1>5 DEF Cached, PageAnswers, ListAnswers, FetchAnswers, StoreRow, Trim, At, vars, RowsStay
  <2> DEFINE Goes == \E next : Continue(c, next) /\ next.first = read[c].first /\ next.at # "off"
  <2>2. Goes
    <3>1. ASSUME NEW at, NEW batch, NEW page, at # "off",
                 Continue(c, [read[c] EXCEPT !.at = at, !.batch = batch, !.page = page])
          PROVE  Goes
      <4> DEFINE next == [read[c] EXCEPT !.at = at, !.batch = batch, !.page = page]
      <4>1. next.first = read[c].first /\ next.at # "off"
        BY <1>0, <3>1 DEF Reads
      <4>2. Continue(c, next)
        BY <3>1
      <4> HIDE DEF next
      <4> QED
        BY <4>1, <4>2
    <3>2. ASSUME NEW at, at # "off", Continue(c, [read[c] EXCEPT !.at = at])
          PROVE  Goes
      <4>1. [read[c] EXCEPT !.at = at].first = read[c].first /\ [read[c] EXCEPT !.at = at].at # "off"
        BY <1>0, <3>2 DEF Reads
      <4> QED
        BY <3>2, <4>1
    <3>3. CASE Cached(c) \/ PageAnswers(c)
      BY <3>2, <3>3 DEF Cached, PageAnswers, ListAnswers
    <3>4. CASE FetchAnswers(c)
      <4>1. PICK fetched \in Fetched(Limit(read[c].first)) :
                Continue(c, [read[c] EXCEPT !.at = Stores(fetched), !.batch = fetched,
                                 !.page = IF read[c].first THEN fetched ELSE {}])
        BY <3>4 DEF FetchAnswers
      <4>2. Stores(fetched) # "off"
        BY DEF Stores
      <4> QED
        BY <3>1, <4>1, <4>2
    <3>5. CASE StoreRow(c)
      <4>1. PICK k : Continue(c, [read[c] EXCEPT !.at = Stores(read[c].batch \ {k}),
                                      !.batch = @ \ {k}])
        BY <3>5 DEF StoreRow
      <4>2. [read[c] EXCEPT !.at = Stores(read[c].batch \ {k}), !.batch = @ \ {k}].first
                = read[c].first
        BY <1>0 DEF Reads
      <4>3. [read[c] EXCEPT !.at = Stores(read[c].batch \ {k}), !.batch = @ \ {k}].at # "off"
        BY <1>0 DEF Reads, Stores
      <4> QED
        BY <4>1, <4>2, <4>3
    <3>6. CASE Trim(c)
      BY <3>2, <3>6 DEF Trim
    <3> QED
      BY <1>5, <3>3, <3>4, <3>5, <3>6
  <2> QED
    BY <1>c, <2>1, <2>2
<1>6. ASSUME NEW c \in Calls, ReadFails(c) \/ \E page : Answers(c, page)
      PROVE  AllFirst' /\ RowsStay
  BY <1>6, <1>b DEF Answers, ReadFails, Continue
<1>7. CASE RouteRestart
  <2>1. \A c \in Calls : pc'[c] = "idle" /\ req'[c] = NoReq /\ outcome'[c] = "none"
            /\ read'[c] = NoRead
    BY <1>7 DEF RouteRestart, Restart, Clear
  <2>2. AllFirst'
    BY <2>1 DEF AllFirst, FirstInv, NoReq, NoRead, Accepted
  <2> QED
    BY <1>7, <2>2
<1>8. CASE RouteTick
  BY <1>0, <1>8 DEF RouteTick, Tick, routeVars, callVars, AllFirst, FirstInv, Accepted, At, RowsStay
<1>9. CASE UNCHANGED allVars
  BY <1>9, <1>a DEF allVars, routeVars
<1> QED
  BY <1>1, <1>2, <1>3, <1>4, <1>5, <1>6, <1>7, <1>8, <1>9 DEF RouteNext, ReadStep

(* The request that creates a wallet never reads it as a first connect: the  *)
(* first-connect path of getHistory() is taken only where the registration   *)
(* was refused (the order of the calls in app.ts).                           *)
THEOREM FirstConnectIsRefused == ~CanDelete => (RouteSpec => []FirstConnectWasRefused)
<1> SUFFICES ASSUME ~CanDelete PROVE RouteSpec => []FirstConnectWasRefused
  OBVIOUS
<1>1. RouteTypeOK /\ AllFirst /\ [RouteNext]_allVars => AllFirst'
  BY FirstNext
<1>2. AllFirst => FirstConnectWasRefused
  BY DEF AllFirst, FirstInv, FirstConnectWasRefused, Refusals
<1> QED
  BY <1>1, <1>2, FirstInit, RouteTypes, PTL DEF RouteSpec
-------------------------------------------------------------------------------
(* Histories.  What a wallet was shown it has kept, or has a full table of    *)
(* other transactions, none older where its rows are ordered by their blocks.*)
Covering(w, k) == {j \in txs[w] \ {k} : w \in unordered \/ NotNewer(k, j)}
Covered(w, k) == k \in txs[w] \/ Cardinality(Covering(w, k)) >= MaxTxsPerWallet
CoverStays == \A w \in Wallets : \A k \in Txs : Covered(w, k) => Covered(w, k)'

LEMMA TxsFinite ==
    ASSUME NEW K \in SUBSET Txs
    PROVE  /\ IsFiniteSet(K) /\ Cardinality(K) \in Nat
           /\ \A L \in SUBSET K : /\ IsFiniteSet(L) /\ Cardinality(L) \in Nat
                                  /\ Cardinality(L) <= Cardinality(K)
                                  /\ Cardinality(L) = Cardinality(K) => L = K
<1>1. ASSUME NEW L \in SUBSET Txs PROVE IsFiniteSet(L)
  BY HistoryAssumption, FS_Subset
<1>2. ASSUME NEW L \in SUBSET K
      PROVE  Cardinality(L) <= Cardinality(K) /\ (Cardinality(L) = Cardinality(K) => L = K)
  BY <1>1, FS_Subset
<1> QED
  BY <1>1, <1>2, FS_CardinalityType

LEMMA NotNewerIsTransitive ==
    ASSUME block \in [Txs -> Nat], NEW i \in Txs, NEW j \in Txs, NEW k \in Txs,
           NotNewer(i, j), NotNewer(j, k)
    PROVE  NotNewer(i, k)
<1>1. block[i] \in Nat /\ block[j] \in Nat /\ block[k] \in Nat
  OBVIOUS
<1> QED
  BY <1>1 DEF NotNewer

(* What a trim or a listing makes of a stored transaction, or of one with as *)
(* many others in C: if it is not kept, n others are, and no older ones where*)
(* the rows are ordered and those in C are not older.                        *)
LEMMA CutIsFull ==
    ASSUME NEW K \in SUBSET Txs, NEW n \in Nat,
           NEW kept \in SUBSET K, Cut(K, kept, n), NEW k \in Txs, k \notin kept,
           NEW C \in SUBSET K, k \in K \/ Cardinality(C) >= n
    PROVE  /\ Cardinality(kept) = n
           /\ (k \notin K /\ C \subseteq kept) => C = kept
<1>1. /\ Cardinality(K) <= n => kept = K
      /\ ~(Cardinality(K) <= n) => Cardinality(kept) = n
  BY DEF Cut
<1>2. /\ IsFiniteSet(kept) /\ Cardinality(K) \in Nat /\ Cardinality(kept) \in Nat
      /\ Cardinality(C) \in Nat /\ Cardinality(C) <= Cardinality(K)
      /\ Cardinality(C) = Cardinality(K) => C = K
  BY TxsFinite
<1>3. Cardinality(kept) = n
  <2>1. CASE k \in K
    BY <1>1, <2>1
  <2>2. CASE k \notin K /\ Cardinality(K) <= n
    <3>1. C = K /\ Cardinality(K) = n
      BY <1>2, <2>2
    <3> QED
      BY <1>1, <2>2, <3>1
  <2>3. CASE k \notin K /\ ~(Cardinality(K) <= n)
    BY <1>1, <2>3
  <2> QED
    BY <2>1, <2>2, <2>3
<1>4. ASSUME k \notin K, C \subseteq kept PROVE C = kept
  <2>1. kept \in SUBSET Txs /\ C \in SUBSET kept
    BY <1>4
  <2>2. /\ Cardinality(C) <= Cardinality(kept)
        /\ Cardinality(C) = Cardinality(kept) => C = kept
    BY <2>1, TxsFinite
  <2> QED
    BY <1>2, <1>3, <1>4, <2>2
<1> QED
  BY <1>3, <1>4

LEMMA CutCovers ==
    ASSUME block \in [Txs -> Nat], NEW K \in SUBSET Txs, NEW n \in Nat,
           NEW kept \in SUBSET K, Cut(K, kept, n), NEW k \in Txs, k \notin kept,
           NEW C \in SUBSET K, k \in K \/ Cardinality(C) >= n,
           \A j \in kept : \A i \in K \ kept : NotNewer(i, j),
           \A i \in C : NotNewer(k, i)
    PROVE  \A j \in kept : NotNewer(k, j)
<1>1. CASE k \in K
  BY <1>1
<1>2. CASE k \notin K
  <2> SUFFICES ASSUME NEW j \in kept, ~NotNewer(k, j) PROVE FALSE
    OBVIOUS
  <2>1. ASSUME NEW i \in C PROVE i \in kept
    <3>1. i \in K /\ i \in Txs /\ j \in Txs /\ NotNewer(k, i)
      OBVIOUS
    <3>2. ASSUME i \notin kept PROVE NotNewer(i, j)
      BY <3>1, <3>2
    <3> QED
      BY <3>1, <3>2, NotNewerIsTransitive
  <2>2. C = kept
    BY <1>2, <2>1, CutIsFull
  <2> QED
    BY <2>2
<1> QED
  BY <1>1, <1>2

(* The same of a page or a trim of a wallet's rows. *)
LEMMA NewestCovers ==
    ASSUME RouteParts, NEW w \in Wallets, NEW k \in Txs, Covered(w, k),
           NEW n \in Nat, n <= MaxTxsPerWallet,
           NEW kept \in Newest(txs[w], n, w \in unordered), k \notin kept
    PROVE  /\ Cardinality(kept) = n
           /\ \A j \in kept : w \in unordered \/ NotNewer(k, j)
<1>1. /\ kept \in SUBSET txs[w] /\ Cut(txs[w], kept, n)
      /\ w \in unordered \/ \A j \in kept : \A i \in txs[w] \ kept : NotNewer(i, j)
  BY DEF Newest
<1>2. /\ Covering(w, k) \in SUBSET txs[w]
      /\ w \in unordered \/ \A j \in Covering(w, k) : NotNewer(k, j)
      /\ k \in txs[w] \/ Cardinality(Covering(w, k)) >= MaxTxsPerWallet
  BY DEF Covered, Covering
<1>3. block \in [Txs -> Nat] /\ txs[w] \in SUBSET Txs /\ MaxTxsPerWallet \in Nat
  BY HistoryAssumption DEF RouteParts
<1>4. Cardinality(Covering(w, k)) \in Nat
  BY <1>2, <1>3, TxsFinite
<1>5. k \in txs[w] \/ Cardinality(Covering(w, k)) >= n
  BY <1>2, <1>3, <1>4
<1> DEFINE K == txs[w]
           C == Covering(w, k)
<1>6. /\ K \in SUBSET Txs /\ kept \in SUBSET K /\ Cut(K, kept, n) /\ C \in SUBSET K
      /\ k \in K \/ Cardinality(C) >= n
  BY <1>1, <1>2, <1>3, <1>5
<1>7. Cardinality(kept) = n
  <2> HIDE DEF K, C
  <2> QED
    BY <1>6, CutIsFull
<1>8. ASSUME w \notin unordered PROVE \A j \in kept : NotNewer(k, j)
  <2>1. \A j \in kept : \A i \in K \ kept : NotNewer(i, j)
    BY <1>1, <1>8
  <2>2. \A i \in C : NotNewer(k, i)
    BY <1>2, <1>8
  <2>3. block \in [Txs -> Nat]
    BY <1>3
  <2> HIDE DEF K, C
  <2> QED
    BY <1>6, <2>1, <2>2, <2>3, CutCovers
<1> QED
  BY <1>7, <1>8

LEMMA StoringCovers ==
    ASSUME RouteParts, NEW w \in Wallets, NEW t \in Txs, NEW isDated \in BOOLEAN,
           Store(w, t, isDated)
    PROVE  CoverStays /\ t \in txs'[w]
<1>1. ASSUME NEW v \in Wallets, NEW k \in Txs, Covered(v, k) PROVE Covered(v, k)'
  <2>1. /\ txs[v] \in SUBSET txs'[v] /\ txs'[v] \in SUBSET Txs
        /\ block' = block /\ (v \in unordered => v \in unordered')
    BY DEF RouteParts, Store
  <2>2. Covering(v, k) \in SUBSET Covering(v, k)' /\ Covering(v, k)' \in SUBSET Txs
    BY <2>1 DEF Covering, NotNewer
  <2>3. /\ Cardinality(Covering(v, k)) <= Cardinality(Covering(v, k)')
        /\ Cardinality(Covering(v, k)) \in Nat /\ Cardinality(Covering(v, k)') \in Nat
    BY <2>2, TxsFinite
  <2>4. Covered(v, k)' <=> k \in txs'[v] \/ Cardinality(Covering(v, k)') >= MaxTxsPerWallet
    BY DEF Covered
  <2> QED
    BY <1>1, <2>1, <2>3, <2>4, HistoryAssumption DEF Covered
<1>2. t \in txs'[w]
  BY DEF RouteParts, Store
<1> QED
  BY <1>1, <1>2 DEF CoverStays

LEMMA TrimCovers ==
    ASSUME RouteParts, NEW w \in Wallets, Trimmed(w)
    PROVE  CoverStays
<1>1. PICK kept \in Newest(txs[w], MaxTxsPerWallet, w \in unordered) :
          txs' = [txs EXCEPT ![w] = kept]
  BY DEF Trimmed
<1>2. block' = block /\ unordered' = unordered
  BY DEF Trimmed
<1>3. ASSUME NEW v \in Wallets, NEW k \in Txs, Covered(v, k) PROVE Covered(v, k)'
  <2>1. Covered(v, k)' <=> k \in txs'[v] \/ Cardinality(Covering(v, k)') >= MaxTxsPerWallet
    BY DEF Covered
  <2>2. CASE v # w
    <3>1. txs'[v] = txs[v]
      BY <1>1, <2>2 DEF RouteParts
    <3> QED
      BY <1>2, <1>3, <2>1, <3>1 DEF Covered, Covering, NotNewer
  <2>3. CASE v = w
    <3>1. txs'[w] = kept /\ MaxTxsPerWallet \in Nat
      BY <1>1, HistoryAssumption DEF RouteParts
    <3>2. ASSUME k \notin kept
          PROVE  /\ Cardinality(kept) = MaxTxsPerWallet
                 /\ \A j \in kept : w \in unordered \/ NotNewer(k, j)
      BY <1>3, <2>3, <3>1, <3>2, NewestCovers
    <3>3. ASSUME k \notin kept PROVE Covering(w, k)' = kept
      BY <1>2, <3>1, <3>2, <3>3 DEF Covering, NotNewer
    <3> QED
      BY <2>1, <2>3, <3>1, <3>2, <3>3
  <2> QED
    BY <2>2, <2>3
<1> QED
  BY <1>3 DEF CoverStays

LEMMA CoverSteps ==
    ASSUME RouteTypeOK, [RouteNext]_allVars
    PROVE  CoverStays \/ RouteRestart
<1>0. RouteParts
  BY TypeSplit
<1>1. ASSUME UNCHANGED data PROVE CoverStays
  BY <1>1 DEF CoverStays, Covered, Covering, NotNewer, data
<1>2. ASSUME NEW w \in Active, ConsumerUpserts(w) PROVE CoverStays
  BY <1>0, <1>2, StoringCovers, HistoryAssumption DEF ConsumerUpserts
<1>3. ASSUME ConsumerTrims PROVE CoverStays
  BY <1>0, <1>3, TrimCovers DEF ConsumerTrims, RouteParts
<1>4. ASSUME NEW c \in Calls, StoreRow(c) \/ Trim(c) PROVE CoverStays
  <2>1. ~At(c, "off")
    BY <1>4 DEF StoreRow, Trim, At
  <2>2. Wallet(c) \in Wallets /\ read[c].batch \in SUBSET Txs
    BY <2>1, WriteRow DEF RouteTypeOK, Reads
  <2> QED
    BY <1>0, <1>4, <2>2, StoringCovers, TrimCovers DEF StoreRow, Trim
<1>5. ASSUME NEW c \in Calls,
             \/ LookedUp(c) \/ Register(c) \/ Cached(c) \/ FetchAnswers(c) \/ Touch(c)
             \/ PageAnswers(c) \/ ReadFails(c) \/ RegistryStep(c)
      PROVE  UNCHANGED data
  BY <1>5 DEF LookedUp, Register, Cached, FetchAnswers, Touch, PageAnswers, ReadFails,
     RegistryStep, routeVars
<1>6. ASSUME RouteTick \/ UNCHANGED allVars PROVE UNCHANGED data
  BY <1>6 DEF RouteTick, allVars, routeVars
<1> QED
  BY <1>1, <1>2, <1>3, <1>4, <1>5, <1>6 DEF RouteNext, ReadStep

(* A wallet that was shown something has a row, and so has one that is read  *)
(* and was registered; what a first connect answers with is stored by then.  *)
ShownCover ==
    \A w \in Wallets :
        /\ \A k \in shown[w] : Covered(w, k)
        /\ rows[w] = NoRow => shown[w] = {}
ReadCover(c) ==
    ~At(c, "off") =>
        /\ ~At(c, "register") => rows[Wallet(c)] # NoRow
        /\ ~At(c, "store") => read[c].batch = {}
        /\ \A k \in read[c].page : k \in read[c].batch \/ Covered(Wallet(c), k)
CoverInv == ShownCover /\ \A c \in Calls : ReadCover(c)

(* A step of one request that covers all it shows. *)
LEMMA OthersCover ==
    ASSUME RouteTypeOK, CoverInv, CoverStays, RowsStay, NEW c \in Calls,
           \A d \in Calls \ {c} : read'[d] = read[d] /\ req'[d] = req[d], ReadCover(c)',
           \A w \in Wallets :
               \/ shown'[w] = shown[w]
               \/ rows'[w] # NoRow /\ \A k \in shown'[w] : k \in shown[w] \/ Covered(w, k)'
    PROVE  CoverInv'
<1>1. ASSUME NEW d \in Calls, d # c, ~At(d, "off")' PROVE ReadCover(d)'
  <2>1. /\ ReadCover(d) /\ ~At(d, "off") /\ read'[d] = read[d] /\ Wallet(d)' = Wallet(d)
        /\ (At(d, "register")' <=> At(d, "register")) /\ (At(d, "store")' <=> At(d, "store"))
    BY <1>1 DEF CoverInv, At, Wallet
  <2>2. Wallet(d) \in Wallets /\ read[d].page \in SUBSET Txs
    BY <2>1, WriteRow DEF RouteTypeOK, Reads
  <2>3. ASSUME NEW k \in read[d].page, Covered(Wallet(d), k) PROVE Covered(Wallet(d), k)'
    <3>1. \A w \in Wallets : Covered(w, k) => Covered(w, k)'
      BY <2>2 DEF CoverStays
    <3> QED
      BY <2>1, <2>2, <2>3, <3>1 DEF Covered, Covering
  <2>4. rows[Wallet(d)] # NoRow => rows'[Wallet(d)] # NoRow
    BY <2>2 DEF RowsStay
  <2> QED
    BY <2>1, <2>3, <2>4 DEF ReadCover
<1>2. ShownCover'
  <2>1. ASSUME NEW w \in Wallets
        PROVE  /\ \A k \in shown'[w] : Covered(w, k)'
               /\ rows'[w] = NoRow => shown'[w] = {}
    <3>1. shown[w] \in SUBSET Txs
      BY DEF RouteTypeOK
    <3>2. \A k \in shown[w] : Covered(w, k)'
      BY <3>1 DEF CoverInv, ShownCover, CoverStays
    <3> QED
      BY <3>2 DEF CoverInv, ShownCover, RowsStay
  <2> QED
    BY <2>1 DEF ShownCover, Covered, Covering
<1>3. ASSUME NEW d \in Calls PROVE ReadCover(d)'
  BY <1>1, <1>3 DEF ReadCover
<1> QED
  BY <1>2, <1>3 DEF CoverInv

LEMMA CoverInit == RouteInit => CoverInv
BY DEF RouteInit, CoverInv, ShownCover, ReadCover, NoRead, At

LEMMA CoverNext ==
    ~CanDelete /\ RouteTypeOK /\ AllFirst /\ CoverInv /\ [RouteNext]_allVars => CoverInv'
<1> SUFFICES ASSUME ~CanDelete, RouteTypeOK, AllFirst, CoverInv, [RouteNext]_allVars
             PROVE  CoverInv'
  OBVIOUS
<1>r. CASE RouteRestart
  <2>1. \A c \in Calls : ReadCover(c)'
    BY <1>r DEF RouteRestart, NoRead, ReadCover, At
  <2>2. ShownCover'
    <3>1. CASE Durable
      BY <1>r, <3>1 DEF RouteRestart, Restart, CoverInv, ShownCover, Covered, Covering, NotNewer
    <3>2. CASE ~Durable
      BY <1>r, <3>2 DEF RouteRestart, ShownCover
    <3> QED
      BY <3>1, <3>2
  <2> QED
    BY <2>1, <2>2 DEF CoverInv
<1> SUFFICES ASSUME ~RouteRestart PROVE CoverInv'
  BY <1>r
<1>a. CoverStays /\ RowsStay /\ RouteParts
  BY CoverSteps, FirstNext, TypeSplit
<1>b. ASSUME NEW c \in Calls, ~At(c, "off")
      PROVE  /\ ReadCover(c) /\ Wallet(c) \in Wallets /\ read[c] \in Reads
             /\ read[c].page \in SUBSET Txs
             /\ \A w \in Wallets : \A k \in Txs : Covered(w, k) => Covered(w, k)'
             /\ rows[Wallet(c)] # NoRow => rows'[Wallet(c)] # NoRow
  <2>1. ReadCover(c) /\ Wallet(c) \in Wallets /\ read[c] \in Reads
    BY <1>b, WriteRow DEF CoverInv, RouteTypeOK
  <2>2. \A w \in Wallets : \A k \in Txs : Covered(w, k) => Covered(w, k)'
    BY <1>a DEF CoverStays
  <2> QED
    BY <1>a, <2>1, <2>2 DEF Reads, RowsStay
(* One step of the read of c. *)
<1>c. ASSUME NEW c \in Calls, ~At(c, "off"), UNCHANGED <<req, shown>>, NEW next,
             Continue(c, next), rows'[Wallet(c)] # NoRow,
             next.at # "store" => next.batch = {},
             \A k \in next.page :
                 \/ k \in next.batch
                 \/ k \in read[c].page /\ k \notin read[c].batch
                 \/ k \in txs'[Wallet(c)]
      PROVE  CoverInv'
  <2>1. read'[c] = next /\ \A d \in Calls \ {c} : read'[d] = read[d]
    BY <1>c DEF Continue, RouteTypeOK
  <2>2. Wallet(c)' = Wallet(c)
    BY <1>c DEF Wallet
  <2>3. ASSUME NEW k \in next.page, k \notin next.batch PROVE Covered(Wallet(c), k)'
    <3>1. CASE k \in txs'[Wallet(c)]
      BY <2>2, <3>1 DEF Covered
    <3>2. CASE k \in read[c].page /\ k \notin read[c].batch
      <4>1. k \in Txs /\ Wallet(c) \in Wallets /\ Covered(Wallet(c), k)
        BY <1>b, <1>c, <3>2 DEF ReadCover
      <4>2. \A w \in Wallets : w = Wallet(c) => Covered(w, k)'
        BY <1>b, <1>c, <4>1
      <4> QED
        BY <2>2, <4>1, <4>2 DEF Covered, Covering
    <3> QED
      BY <1>c, <2>3, <3>1, <3>2
  <2>4. ReadCover(c)'
    BY <1>c, <2>1, <2>2, <2>3 DEF ReadCover, At
  <2> QED
    BY <1>a, <1>c, <2>1, <2>4, OthersCover
(* A response ends the request. *)
<1>d. ASSUME NEW c \in Calls, ~At(c, "off"), NEW page, Answers(c, page), rows[Wallet(c)] # NoRow,
             page \in SUBSET Txs, \A k \in page : Covered(Wallet(c), k)
      PROVE  CoverInv'
  <2>1. /\ OnlyOf(c) /\ read'[c] = NoRead /\ \A d \in Calls \ {c} : read'[d] = read[d]
        /\ rows' = rows
    BY <1>d, ClearOnly DEF Answers, Continue, RouteTypeOK
  <2>2. ReadCover(c)'
    BY <2>1 DEF ReadCover, NoRead, At
  <2>3. ASSUME NEW w \in Wallets
        PROVE  \/ shown'[w] = shown[w]
               \/ rows'[w] # NoRow /\ \A k \in shown'[w] : k \in shown[w] \/ Covered(w, k)'
    <3>1. shown' = [shown EXCEPT ![Wallet(c)] = @ \cup page] /\ shown \in [Wallets -> SUBSET Txs]
      BY <1>d DEF Answers, RouteTypeOK
    <3>2. CASE w # Wallet(c)
      BY <3>1, <3>2
    <3>3. CASE w = Wallet(c)
      <4>1. shown'[w] = shown[w] \cup page
        BY <3>1, <3>3
      <4>2. \A k \in page : Covered(w, k)'
        BY <1>b, <1>d, <3>3
      <4> QED
        BY <1>d, <2>1, <3>3, <4>1, <4>2
    <3> QED
      BY <3>2, <3>3
  <2> QED
    BY <1>a, <2>1, <2>2, <2>3, OthersCover DEF OnlyOf
<1>1. ASSUME NEW c \in Calls, RegistryStep(c) PROVE CoverInv'
  <2>1. OnlyOf(c) /\ UNCHANGED routeVars
    BY <1>1, StepOnly DEF RegistryStep, RouteTypeOK
  <2>2. At(c, "off")
    BY <1>1 DEF RegistryStep, StartCall, Ensure, List, RouteTypeOK
  <2>3. ReadCover(c)'
    BY <2>1, <2>2 DEF routeVars, ReadCover, At
  <2> QED
    BY <1>a, <2>1, <2>3, OthersCover DEF OnlyOf, routeVars
<1>2. ASSUME read' = read, req' = req, shown' = shown PROVE CoverInv'
  <2>1. Calls # {}
    BY SetsAssumption
  <2>2. ASSUME NEW c \in Calls PROVE ReadCover(c)'
    <3>1. CASE At(c, "off")
      BY <1>2, <3>1 DEF ReadCover, At
    <3>2. CASE ~At(c, "off")
      <4>1. Wallet(c)' = Wallet(c)
        BY <1>2 DEF Wallet
      <4> QED
        BY <1>2, <1>b, <3>2, <4>1 DEF ReadCover, At
    <3> QED
      BY <3>1, <3>2
  <2>3. ASSUME NEW c \in Calls PROVE CoverInv'
    BY <1>2, <1>a, <2>2, OthersCover
  <2> QED
    BY <2>1, <2>3
<1>3. ASSUME (\E w \in Active : ConsumerUpserts(w)) \/ ConsumerTrims \/ RouteTick \/ UNCHANGED allVars
      PROVE  CoverInv'
  BY <1>3, <1>2 DEF ConsumerUpserts, ConsumerTrims, RouteTick, Tick, allVars, vars, callVars, routeVars
<1>4. ASSUME NEW c \in Calls, LookedUp(c) PROVE CoverInv'
  <2> DEFINE new == rows[Wallet(c)] = NoRow
             next == [NoRead EXCEPT !.at = IF new THEN "register" ELSE "cached", !.first = new]
  <2>1. /\ next.page = {} /\ next.batch = {}
        /\ next.at = (IF new THEN "register" ELSE "cached")
    BY DEF NoRead
  <2>2. /\ UNCHANGED <<rows, data, shown>> /\ read'[c] = next
        /\ \A d \in Calls \ {c} : read'[d] = read[d] /\ req'[d] = req[d]
        /\ req'[c].wallet = req[c].wallet
    BY <1>4 DEF LookedUp, Continue, RouteTypeOK, TypeOK, Requests
  <2>3. ReadCover(c)'
    <3> HIDE DEF next
    <3> QED
      BY <2>1, <2>2 DEF ReadCover, At, Wallet
  <2> QED
    BY <1>a, <2>2, <2>3, OthersCover
<1>5. ASSUME NEW c \in Calls, Register(c) \/ Touch(c) PROVE CoverInv'
  <2>1. ~At(c, "off") /\ Write(c) /\ UNCHANGED <<callVars, data, shown>>
            /\ (At(c, "register") \/ At(c, "touch"))
    BY <1>5 DEF Register, Touch, At
  <2>2. rows'[Wallet(c)] # NoRow
    <3> DEFINE row == [touched |-> req[c].at, watch |-> 0]
    <3>1. Wallet(c) \in Wallets /\ row \in Row /\ Upsert(Wallet(c), row)
      BY <2>1, WriteRow DEF Write
    <3> HIDE DEF row
    <3> QED
      BY <3>1, UpsertStays DEF RouteTypeOK
  <2>3. PICK at \in {"fetch", "page"} : Continue(c, [read[c] EXCEPT !.at = at])
    BY <1>5 DEF Register, Touch
  <2> DEFINE next == [read[c] EXCEPT !.at = at]
  <2>4. next.at = at /\ next.page = read[c].page /\ next.batch = read[c].batch
    BY <1>b, <2>1 DEF Reads
  <2>5. Continue(c, next)
    BY <2>3
  <2>6. read[c].batch = {}
    BY <1>b, <2>1 DEF ReadCover, At
  <2> HIDE DEF next
  <2> QED
    BY <1>c, <2>1, <2>2, <2>4, <2>5, <2>6 DEF callVars
<1>6. ASSUME NEW c \in Calls, Cached(c) \/ PageAnswers(c) PROVE CoverInv'
  <2>1. ~At(c, "off") /\ UNCHANGED data /\ (At(c, "cached") \/ At(c, "page"))
    BY <1>6 DEF Cached, PageAnswers, At
  <2>2. read[c].batch = {} /\ rows[Wallet(c)] # NoRow /\ rows'[Wallet(c)] # NoRow
    BY <1>b, <2>1 DEF ReadCover, At
  <2>3. CASE Continue(c, [read[c] EXCEPT !.at = "fetch"]) /\ UNCHANGED <<vars, shown>>
    <3> DEFINE next == [read[c] EXCEPT !.at = "fetch"]
    <3>1. next.page = read[c].page /\ next.batch = read[c].batch
      BY <1>b, <2>1 DEF Reads
    <3>2. Continue(c, next)
      BY <2>3
    <3> HIDE DEF next
    <3> QED
      BY <1>c, <2>1, <2>2, <2>3, <3>1, <3>2 DEF vars, callVars
  <2>4. CASE ListAnswers(c)
    <3>1. PICK page \in Listed(Wallet(c), RefreshPageSize) : Answers(c, page)
      BY <2>4 DEF ListAnswers
    <3>2. page \in SUBSET txs[Wallet(c)] /\ txs' = txs
      BY <2>1, <3>1, NewestIsSubset DEF Listed, data
    <3>3. \A k \in page : k \in Txs /\ Covered(Wallet(c), k)
      BY <1>a, <1>b, <2>1, <3>2 DEF Covered, RouteParts
    <3> QED
      BY <1>d, <2>1, <2>2, <3>1, <3>3
  <2> QED
    BY <1>6, <2>3, <2>4 DEF Cached, PageAnswers
<1>7. ASSUME NEW c \in Calls, FetchAnswers(c) PROVE CoverInv'
  <2>1. ~At(c, "off") /\ UNCHANGED <<vars, data, shown>> /\ At(c, "fetch")
    BY <1>7 DEF FetchAnswers, At
  <2>2. PICK fetched \in Fetched(Limit(read[c].first)) :
            Continue(c, [read[c] EXCEPT !.at = Stores(fetched), !.batch = fetched,
                             !.page = IF read[c].first THEN fetched ELSE {}])
    BY <1>7 DEF FetchAnswers
  <2> DEFINE page == IF read[c].first THEN fetched ELSE {}
             next == [read[c] EXCEPT !.at = Stores(fetched), !.batch = fetched, !.page = page]
  <2>3. next.at = Stores(fetched) /\ next.page = page /\ next.batch = fetched
    BY <1>b, <2>1 DEF Reads
  <2>4. Continue(c, next)
    BY <2>2
  <2>5. (Stores(fetched) # "store" => fetched = {}) /\ \A k \in page : k \in fetched
    BY DEF Stores
  <2>6. rows'[Wallet(c)] # NoRow
    BY <1>b, <2>1 DEF ReadCover, At
  <2> HIDE DEF next, page
  <2> QED
    BY <1>c, <2>1, <2>3, <2>4, <2>5, <2>6 DEF vars, callVars
<1>8. ASSUME NEW c \in Calls, StoreRow(c) PROVE CoverInv'
  <2>1. ~At(c, "off") /\ UNCHANGED <<vars, storing, shown>> /\ At(c, "store")
    BY <1>8 DEF StoreRow, At
  <2>2. PICK k \in read[c].batch :
            /\ Store(Wallet(c), k, TRUE)
            /\ Continue(c, [read[c] EXCEPT !.at = Stores(read[c].batch \ {k}), !.batch = @ \ {k}])
    BY <1>8 DEF StoreRow
  <2> DEFINE next == [read[c] EXCEPT !.at = Stores(read[c].batch \ {k}), !.batch = @ \ {k}]
  <2>3. /\ next.at = Stores(read[c].batch \ {k})
        /\ next.page = read[c].page /\ next.batch = read[c].batch \ {k}
    BY <1>b, <2>1 DEF Reads
  <2>4. Continue(c, next)
    BY <2>2
  <2>5. next.at # "store" => next.batch = {}
    BY <2>3 DEF Stores
  <2>6. k \in txs'[Wallet(c)]
    BY <1>a, <1>b, <2>1, <2>2, StoringCovers DEF Reads
  <2>7. rows'[Wallet(c)] # NoRow
    BY <1>b, <2>1 DEF ReadCover, At
  <2> HIDE DEF next
  <2> QED
    BY <1>c, <2>1, <2>3, <2>4, <2>5, <2>6, <2>7 DEF vars, callVars
<1>9. ASSUME NEW c \in Calls, Trim(c) PROVE CoverInv'
  <2>1. ~At(c, "off") /\ At(c, "trim")
    BY <1>9 DEF Trim, At
  <2>2. /\ read[c].batch = {} /\ rows[Wallet(c)] # NoRow /\ rows'[Wallet(c)] # NoRow
        /\ \A k \in read[c].page : Covered(Wallet(c), k)
    BY <1>b, <2>1 DEF ReadCover, At
  <2>3. CASE Answers(c, read[c].page)
    <3>1. read[c].page \in SUBSET Txs
      BY <1>b, <2>1
    <3> QED
      BY <1>d, <2>1, <2>2, <2>3, <3>1
  <2>4. CASE Continue(c, [read[c] EXCEPT !.at = "touch"]) /\ UNCHANGED <<vars, shown>>
    <3> DEFINE next == [read[c] EXCEPT !.at = "touch"]
    <3>1. next.page = read[c].page /\ next.batch = read[c].batch
      BY <1>b, <2>1 DEF Reads
    <3>2. Continue(c, next)
      BY <2>4
    <3> HIDE DEF next
    <3> QED
      BY <1>c, <2>1, <2>2, <2>4, <3>1, <3>2 DEF vars, callVars
  <2> QED
    BY <1>9, <2>3, <2>4 DEF Trim
<1>10. ASSUME NEW c \in Calls, ReadFails(c) PROVE CoverInv'
  <2>1. /\ OnlyOf(c) /\ read'[c] = NoRead /\ \A d \in Calls \ {c} : read'[d] = read[d]
        /\ shown' = shown
    BY <1>10, ClearOnly DEF ReadFails, Continue, RouteTypeOK
  <2>2. ReadCover(c)'
    BY <2>1 DEF ReadCover, NoRead, At
  <2> QED
    BY <1>a, <2>1, <2>2, OthersCover DEF OnlyOf
<1> QED
  BY <1>1, <1>3, <1>4, <1>5, <1>6, <1>7, <1>8, <1>9, <1>10 DEF RouteNext, ReadStep

LEMMA CoveredIsListed ==
    ASSUME RouteTypeOK, CoverInv
    PROVE  HistoryGoesForward
<1>1. ASSUME NEW w \in Wallets, NEW page \in Listed(w, RefreshPageSize), NEW k \in shown[w] \ page
      PROVE  /\ Cardinality(page) >= RefreshPageSize
             /\ w \in unordered \/ \A j \in page : NotNewer(k, j)
  <2>1. RouteParts /\ k \in Txs /\ Covered(w, k)
    BY TypeSplit DEF RouteParts, CoverInv, ShownCover
  <2>2. RefreshPageSize \in Nat /\ RefreshPageSize <= MaxTxsPerWallet
    BY HistoryAssumption
  <2>3. page \in Newest(txs[w], RefreshPageSize, w \in unordered)
    BY DEF Listed
  <2> QED
    BY <2>1, <2>2, <2>3, NewestCovers
<1> QED
  BY <1>1 DEF CoverInv, ShownCover, HistoryGoesForward

(* A history never goes back, over a store that deletes no wallet: however   *)
(* many requests and consumers store and trim at once, whatever the LCD      *)
(* leaves out, whichever queries fail and however transactions of one block  *)
(* are ordered, a page contains what an earlier answer did or is full, of    *)
(* transactions not older where no row of the wallet had another time than   *)
(* that of its block (getHistory, persist, trim, listTxs).                   *)
THEOREM HistoriesGoForward == ~CanDelete => (RouteSpec => []HistoryGoesForward)
<1> SUFFICES ASSUME ~CanDelete PROVE RouteSpec => []HistoryGoesForward
  OBVIOUS
<1>1. RouteTypeOK /\ AllFirst /\ CoverInv /\ [RouteNext]_allVars => AllFirst' /\ CoverInv'
  BY FirstNext, CoverNext
<1>2. RouteTypeOK /\ CoverInv => HistoryGoesForward
  BY CoveredIsListed
<1> QED
  BY <1>1, <1>2, FirstInit, CoverInit, RouteTypes, PTL DEF RouteSpec
===============================================================================
