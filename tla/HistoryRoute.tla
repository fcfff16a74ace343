----------------------------- MODULE HistoryRoute -----------------------------
(***************************************************************************)
(* POST /v1/wallets/history (src/http/app.ts): ensure() of the registry,   *)
(* whose outcome the route does not look at, then getHistory() of          *)
(* TxHistoryService (src/service/history.ts), over the same store as push  *)
(* subscriptions, list() and the consumer, which stores transactions of    *)
(* its own.                                                                *)
(*                                                                         *)
(* A registry call with op "ensure" is such a request: when it is done the *)
(* request goes on in read[c], again one step for each await.              *)
(*                                                                         *)
(* Rows are ordered by their times: transactions of one block tie, and the *)
(* trim and the listing, two queries of their own, may break the tie       *)
(* differently.  A stub of the consumer has the time of its detection      *)
(* until it is overwritten, and the LCD gives none for those in Untimed;   *)
(* how a wallet that ever stored such a row is ordered is left open.       *)
(*                                                                         *)
(* The default address policy serves query-safe addresses only, so a       *)
(* wallet that is not has a row from earlier times and no requests.        *)
(***************************************************************************)
EXTENDS WalletRegistry

CONSTANTS
    Txs, Untimed,
    Chains,             \* the chains looked at: the block of each transaction
    Active,             \* the wallets that transact: bounds the model
    MaxTxsPerWallet, RefreshPageSize, MaxQueryLimit, FirstConnectLimit

ASSUME HistoryAssumption ==
    /\ IsFiniteSet(Txs) /\ Untimed \subseteq Txs /\ Chains \subseteq [Txs -> Nat]
    /\ Active \subseteq Wallets
    /\ MaxTxsPerWallet \in Nat \ {0} /\ RefreshPageSize \in 1 .. MaxTxsPerWallet
    /\ MaxQueryLimit \in Nat \ {0} /\ FirstConnectLimit \in Nat \ {0}

VARIABLES
    block,          \* the chain: transaction -> its block
    txs,            \* tx_history: wallet -> stored transactions
    read,           \* call -> how far getHistory has come, and its locals
    storing,        \* the wallet the consumer has stored into and not trimmed
    unordered,      \* history: wallets that ever stored a row with another time
    shown           \* history: wallet -> transactions some answer contained

data == <<block, txs, storing, unordered>>
routeVars == <<data, read, shown>>
allVars == <<vars, routeVars>>

NoRead == [at |-> "off", first |-> FALSE, batch |-> {}, page |-> {}]

(* The order of the rows' times; one without a time comes last. *)
NotNewer(j, k) == j \in Untimed \/ (k \notin Untimed /\ block[j] <= block[k])

Cut(K, kept, n) == IF Cardinality(K) <= n THEN kept = K ELSE Cardinality(kept) = n

(* What a sort and a limit of n may keep of K. *)
Newest(K, n, anyOrder) ==
    {kept \in SUBSET K :
        Cut(K, kept, n) /\ (anyOrder \/ \A k \in kept : \A j \in K \ kept : NotNewer(j, k))}

(* Mutant of Listed: oldest first. *)
ListedAscending(w, n) ==
    {page \in SUBSET txs[w] :
        Cut(txs[w], page, n) /\ \A k \in page : \A j \in txs[w] \ page : NotNewer(k, j)}

Listed(w, n) == Newest(txs[w], n, w \in unordered)

(* What fetchLcdTxs may answer: two queries are merged and the newest rows   *)
(* of what came back are kept; a query that fails leaves its rows out, and   *)
(* so does a chain on which they have not happened yet.                      *)
Fetched(limit) == UNION {Newest(K, limit, FALSE) : K \in SUBSET Txs}

Limit(first) ==
    IF first THEN FirstConnectLimit
    ELSE IF RefreshPageSize <= MaxQueryLimit THEN RefreshPageSize ELSE MaxQueryLimit

RouteInit ==
    /\ Init
    /\ block \in Chains
    /\ unordered = {}
    /\ txs = [w \in Wallets |-> {}]
    /\ read = [c \in Calls |-> NoRead]
    /\ storing = NoRow
    /\ shown = [w \in Wallets |-> {}]
-------------------------------------------------------------------------------
(* upsertTxs() of one row, with the time of its block or another. *)
Store(w, k, isDated) ==
    /\ txs' = [txs EXCEPT ![w] = @ \cup {k}]
    /\ unordered' = IF isDated /\ k \notin Untimed THEN unordered ELSE unordered \cup {w}
    /\ UNCHANGED block

Trimmed(w) ==
    /\ \E kept \in Newest(txs[w], MaxTxsPerWallet, w \in unordered) :
            txs' = [txs EXCEPT ![w] = kept]
    /\ UNCHANGED <<block, unordered>>

(* The consumer is another writer of the same rows, and of stubs.            *)
ConsumerUpserts(w) ==
    /\ storing = NoRow
    /\ \E k \in Txs : \E isDated \in BOOLEAN : Store(w, k, isDated)
    /\ storing' = w
    /\ UNCHANGED <<vars, read, shown>>

ConsumerTrims ==
    /\ storing # NoRow
    /\ Trimmed(storing)
    /\ storing' = NoRow
    /\ UNCHANGED <<vars, read, shown>>
-------------------------------------------------------------------------------
(* getHistory(), after ensure() has come back with whatever outcome.         *)
At(c, label) == read[c].at = label
Wallet(c) == req[c].wallet
Continue(c, next) == read' = [read EXCEPT ![c] = next]

(* getWallet answers; `now' of getHistory is read after it, and is req[c].at    *)
(* from here on, for the one of ensure() is gone.                            *)
LookedUp(c) ==
    /\ pc[c] = "done" /\ req[c].op = "ensure" /\ At(c, "off")
    /\ LET new == rows[Wallet(c)] = NoRow
       IN  Continue(c, [NoRead EXCEPT !.at = IF new THEN "register" ELSE "cached",
                            !.first = new])
    /\ req' = [req EXCEPT ![c].at = now]
    /\ UNCHANGED <<rows, process, now, promised, data, shown>>
    /\ UNCHANGED <<pc, found, todo, forced, evicted, outcome, listed>>

Write(c) == Upsert(Wallet(c), [touched |-> req[c].at, watch |-> 0])

Register(c) ==
    /\ At(c, "register")
    /\ Write(c)
    /\ Continue(c, [read[c] EXCEPT !.at = "fetch"])
    /\ UNCHANGED <<process, now, callVars, promised, data, shown>>

(* The response: the request is over.                                        *)
Answers(c, page) ==
    /\ shown' = [shown EXCEPT ![Wallet(c)] = @ \cup page]
    /\ Continue(c, NoRead)
    /\ Clear({c})
    /\ UNCHANGED <<rows, process, now, promised>>

(* listTxs gives the first page, which is the response. *)
ListAnswers(c) ==
    \E page \in Listed(Wallet(c), RefreshPageSize) : Answers(c, page)

(* Stored rows are the answer unless there are none or the client forces a   *)
(* refresh.                                                                  *)
Cached(c) ==
    /\ At(c, "cached")
    /\ \/ Continue(c, [read[c] EXCEPT !.at = "fetch"]) /\ UNCHANGED <<vars, shown>>
       \/ txs[Wallet(c)] # {} /\ ListAnswers(c)
    /\ UNCHANGED data

Stores(fetched) == IF fetched = {} THEN "trim" ELSE "store"

FetchAnswers(c) ==
    /\ At(c, "fetch")
    /\ \E fetched \in Fetched(Limit(read[c].first)) :
          Continue(c, [read[c] EXCEPT !.at = Stores(fetched), !.batch = fetched,
                           !.page = IF read[c].first THEN fetched ELSE {}])
    /\ UNCHANGED <<vars, data, shown>>

(* persist(): the rows one by one, newest first, then the trim. *)
StoreRow(c) ==
    /\ At(c, "store")
    /\ \E k \in {j \in read[c].batch : \A i \in read[c].batch : NotNewer(i, j)} :
          /\ Store(Wallet(c), k, TRUE)
          /\ Continue(c, [read[c] EXCEPT !.at = Stores(read[c].batch \ {k}), !.batch = @ \ {k}])
    /\ UNCHANGED <<vars, storing, shown>>

Trim(c) ==
    /\ At(c, "trim")
    /\ Trimmed(Wallet(c))
    /\ \/ /\ read[c].first
          /\ Answers(c, read[c].page)
       \/ /\ ~read[c].first
          /\ Continue(c, [read[c] EXCEPT !.at = "touch"])
          /\ UNCHANGED <<vars, shown>>
    /\ UNCHANGED storing

Touch(c) ==
    /\ At(c, "touch")
    /\ Write(c)
    /\ Continue(c, [read[c] EXCEPT !.at = "page"])
    /\ UNCHANGED <<process, now, callVars, promised, data, shown>>

PageAnswers(c) ==
    /\ At(c, "page")
    /\ ListAnswers(c)
    /\ UNCHANGED data

(* Mutant of ReadFails: the error ends the call and not the read. *)
ReadFailsHalfway(c) ==
    /\ ~At(c, "off") /\ ~At(c, "fetch")
    /\ Clear({c})
    /\ UNCHANGED <<rows, process, now, promised, read, data, shown>>

(* The store rejects a query: the request ends with an error. *)
ReadFails(c) ==
    /\ ~At(c, "off") /\ ~At(c, "fetch")
    /\ Continue(c, NoRead)
    /\ Clear({c})
    /\ UNCHANGED <<rows, process, now, promised, data, shown>>
-------------------------------------------------------------------------------
ReadStep(c) ==
    \/ LookedUp(c) \/ Register(c) \/ Cached(c) \/ FetchAnswers(c) \/ StoreRow(c)
    \/ Trim(c) \/ Touch(c) \/ PageAnswers(c) \/ ReadFails(c)

(* Registry calls; the end of an ensure() is not the end of its request. *)
RegistryStep(c) ==
    /\ \/ StartCall(c) /\ (req'[c].op # "list" => Watchable(Wallet(c)'))
       \/ CallStep(c) /\ (pc[c] = "done" => req[c].op # "ensure")
       \/ StoreError(c) /\ At(c, "off")
    /\ UNCHANGED routeVars

(* The process starts again; stored transactions survive in Postgres only. *)
RouteRestart ==
    /\ Restart
    /\ read' = [c \in Calls |-> NoRead]
    /\ storing' = NoRow
    /\ UNCHANGED block
    /\ IF Durable THEN UNCHANGED <<txs, unordered, shown>>
       ELSE /\ txs' = [w \in Wallets |-> {}]
            /\ unordered' = {}
            /\ shown' = [w \in Wallets |-> {}]

RouteTick == Tick /\ UNCHANGED routeVars

RouteNext ==
    \/ \E c \in Calls : RegistryStep(c) \/ ReadStep(c)
    \/ \E w \in Active : ConsumerUpserts(w)
    \/ ConsumerTrims
    \/ RouteRestart
    \/ RouteTick

RouteSpec == RouteInit /\ [][RouteNext]_allVars
-------------------------------------------------------------------------------
Reads ==
    [at : {"off", "register", "cached", "fetch", "store", "trim", "touch", "page"},
     first : BOOLEAN, batch : SUBSET Txs, page : SUBSET Txs]

(* Every variable has its type, and a request that reads has come through    *)
(* ensure() with a wallet (app.ts, history.ts).                              *)
RouteTypeOK ==
    /\ TypeOK
    /\ block \in [Txs -> Nat]
    /\ unordered \subseteq Wallets
    /\ txs \in [Wallets -> SUBSET Txs]
    /\ read \in [Calls -> Reads]
    /\ storing \in Wallets \cup {NoRow}
    /\ shown \in [Wallets -> SUBSET Txs]
    /\ \A c \in Calls : ~At(c, "off") => pc[c] = "done" /\ req[c].op = "ensure"

(* A history never goes back: what some answer contained is in every page    *)
(* that could be listed from now on, unless that page is full, of nothing    *)
(* older where the wallet's rows all have the times of their blocks.  So it  *)
(* is whatever the LCD leaves out, whoever stores and trims, whichever query *)
(* fails and however trim and listing order the transactions of one block.   *)
(* And a first connect, which answers with what the LCD gave, is of a wallet *)
(* nothing was shown of (getHistory, persist, trim, listTxs).                *)
HistoryGoesForward ==
    \A w \in Wallets :
        /\ \A page \in Listed(w, RefreshPageSize) : \A k \in shown[w] \ page :
              /\ Cardinality(page) >= RefreshPageSize
              /\ w \in unordered \/ \A j \in page : NotNewer(k, j)
        /\ rows[w] = NoRow => shown[w] = {}

(* The route registers a wallet before it reads it, so the only request that *)
(* takes the first-connect path is one whose registration was refused.       *)
FirstConnectWasRefused ==
    \A c \in Calls : read[c].first =>
        outcome[c] \in {"caller_quota", "registry_full"}

(* "True when this address was not watched before this call" (types.ts): the *)
(* request whose ensure() created the wallet's row is its first connect.     *)
FirstConnectIsTold ==
    \A c \in Calls : ~At(c, "off") /\ outcome[c] = "created" => read[c].first
===============================================================================
