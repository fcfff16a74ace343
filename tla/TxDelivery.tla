------------------------------ MODULE TxDelivery ------------------------------
(***************************************************************************)
(* From a transaction on the chain to the wake-up at the backend: the two  *)
(* detectors (ws.ts onMessage, poll.ts) publish what they see to the local *)
(* queue (queue.ts), whose pump hands one event at a time to the consumer  *)
(* (consumer.ts), which caches it, trims the wallet and lets the notifier  *)
(* (backend-events.ts) post it.  All of it lives in one process, and only  *)
(* the Postgres store survives that process.                               *)
(*                                                                         *)
(* A sighting is <<wallet, tx>> (walletEventKey).  "Newest first" is the   *)
(* order of the rows' times: transactions of one block tie, and of tied    *)
(* rows a cut keeps any.  What comes from the LCD carries the time of its  *)
(* block; an event of the sockets knows only when it was detected, and so  *)
(* does the stub stored for it when it cannot be enriched.  Every wallet   *)
(* is watched, its chain has an LCD endpoint, the notifier is configured,  *)
(* Vercel queues are off.  A request the client has given up on is not     *)
(* taken later.                                                            *)
(***************************************************************************)
EXTENDS Integers, FiniteSets, Sequences

CONSTANTS
    Wallets, Txs,
    Chains,             \* the chains looked at: the block of each transaction
    MaxTxsPerWallet,
    PollLimit,          \* REALTIME_POLL_LIMIT: rows one poll asks for
    SeenMax,            \* 50 000 in queue.ts
    MaxRemembered,      \* 50 000 in backend-events.ts
    Attempts,
    LosesAnswers,       \* may a post be taken and its answer time out?
    ReadsHistory,       \* do clients read histories?
    MaxMessages,        \* socket messages of a transaction: 2, as sender and recipient
    MaxPending,         \* bounds the queue: no event arrives past it
    MaxCrashes          \* bounds how often the process dies

ASSUME DeliveryAssumption ==
    /\ IsFiniteSet(Wallets) /\ IsFiniteSet(Txs) /\ Chains \subseteq [Txs -> Nat]
    /\ MaxTxsPerWallet \in Nat \ {0} /\ PollLimit \in Nat \ {0}
    /\ SeenMax \in Nat \ {0} /\ MaxRemembered \in Nat \ {0}
    /\ Attempts \in Nat \ {0}
    /\ LosesAnswers \in BOOLEAN /\ ReadsHistory \in BOOLEAN
    /\ MaxMessages \in 0 .. 2 /\ MaxPending \in Nat \ {0} /\ MaxCrashes \in Nat

Keys == Wallets \X Txs
NoKey == <<>>
Elements(s) == {s[i] : i \in 1 .. Len(s)}

VARIABLES
    block,          \* the chain: transaction -> its block
    age,            \* sighting -> "future", "recent", "old" (past notifyMaxAge)
    wire,           \* sighting -> WebSocket messages on their way
    seen, pending,  \* LocalTxEventQueue
    event, dated,   \* the event the handler works on; is its time the block's
    stage,          \* what it awaits; "idle" when no pump runs
    attempt,        \* which post of notify() this is
    inFlight, delivered,            \* BackendEventsNotifier
    poll,           \* tick(): what it awaits, wallets and rows to go
    cache, stubs,   \* the stored transactions; those with another time
    reading,        \* wallet -> a history read: what it awaits, its rows
    received,       \* sighting -> posts the backend took, 2 for more
    handled,        \* history: events this process has finished with
    stubbed,        \* history: wallets in which a stub was ever stored
    untrimmed,      \* history: wallets a writer left before it trimmed them
    crashes

chain == <<block, age, wire>>
queue == <<seen, pending, event, dated, stage, attempt, inFlight, handled>>
store == <<cache, stubs, stubbed, untrimmed>>
vars == <<chain, queue, delivered, poll, store, reading, received, crashes>>

Happened == {k \in Keys : age[k] # "future"}
CachedOf(w) == {k \in cache : k[1] = w}

(* Two transactions of one wallet in the order of their blocks. *)
NotNewer(j, k) == j[1] = k[1] /\ block[j[2]] <= block[k[2]]
Leading(K) == {k \in K : \A j \in K : NotNewer(j, k)}

(* The newest n of the rows in K for w, of tied rows any: a row in `late'    *)
(* carries a time after its block's, and may be taken for newer than others. *)
Newest(w, K, n, late) ==
    LET all == {k \in K : k[1] = w}
    IN  {kept \in SUBSET all :
            /\ IF Cardinality(all) <= n THEN kept = all ELSE Cardinality(kept) = n
            /\ \A k \in kept \ late : \A j \in all \ kept : NotNewer(j, k)}

(* What fetchLcdTxs may answer for w: it merges two queries and takes the    *)
(* newest rows of what came back; a query that fails leaves its rows out.    *)
Fetched(w, limit) == UNION {Newest(w, K, limit, {}) : K \in SUBSET Happened}

NoRead == [at |-> "idle", rows |-> {}]
IdlePoll == [at |-> "idle", todo |-> {}, rows |-> {}, row |-> NoKey, known |-> FALSE]

Init ==
    /\ block \in Chains
    /\ age \in [Keys -> {"future", "old"}]
    /\ \A j, k \in Keys : NotNewer(j, k) /\ age[k] = "old" => age[j] = "old"
    /\ wire = [k \in Keys |-> 0]
    /\ seen = <<>> /\ pending = <<>> /\ stage = "idle" /\ attempt = 0
    /\ event = NoKey /\ dated = FALSE
    /\ inFlight = {} /\ delivered = <<>> /\ handled = {}
    /\ poll = IdlePoll
    /\ reading = [w \in Wallets |-> NoRead]
    /\ cache = {} /\ stubs = {} /\ stubbed = {} /\ untrimmed = {}
    /\ received = [k \in Keys |-> 0]
    /\ crashes = 0
-------------------------------------------------------------------------------
(* The chain.  A socket that is open sees a transaction once, twice when the *)
(* wallet is both sender and recipient; one that is down does not see it.    *)
Happens(k) ==
    /\ age[k] = "future"
    /\ \A j \in Keys : NotNewer(j, k) => age[j] # "future" \/ NotNewer(k, j)
    /\ age' = [age EXCEPT ![k] = "recent"]
    /\ \E n \in 0 .. MaxMessages : wire' = [wire EXCEPT ![k] = n]
    /\ UNCHANGED <<block, queue, delivered, poll, store, reading, received, crashes>>

Ages(k) ==
    /\ age[k] = "recent"
    /\ \A j \in Keys : NotNewer(j, k) =>
            age[j] = "old" \/ (NotNewer(k, j) /\ age[j] # "future")
    /\ age' = [age EXCEPT ![k] = "old"]
    /\ UNCHANGED <<block, wire, queue, delivered, poll, store, reading, received, crashes>>
-------------------------------------------------------------------------------
(* Mutant of Remember: nothing is forgotten. *)
RememberAll(s, k, max) == Append(s, k)

(* A set of bounded size that forgets its oldest member. *)
Remember(s, k, max) == IF Len(s) < max THEN Append(s, k) ELSE Append(Tail(s), k)

(* Mutant of Publish: the pump is not asked whether it is running. *)
PublishAndPump(k, isDated) ==
    IF k \in Elements(seen) THEN UNCHANGED queue
    ELSE /\ seen' = Remember(seen, k, SeenMax)
         /\ event' = k /\ dated' = isDated /\ stage' = "hasTx"
         /\ UNCHANGED <<pending, attempt, inFlight, handled>>

(* publish(): a sighting the queue has seen is dropped; any other is         *)
(* remembered and handed to the pump, which starts on it at once when it is  *)
(* not running.  The event of a poll has the time of its block, txTimestamp. *)
Publish(k, isDated) ==
    IF k \in Elements(seen) THEN UNCHANGED queue
    ELSE /\ seen' = Remember(seen, k, SeenMax)
         /\ IF stage = "idle"
            THEN event' = k /\ dated' = isDated /\ stage' = "hasTx" /\ UNCHANGED pending
            ELSE /\ Len(pending) < MaxPending
                 /\ pending' = Append(pending, [key |-> k, dated |-> isDated])
                 /\ UNCHANGED <<event, dated, stage>>
         /\ UNCHANGED <<attempt, inFlight, handled>>

WsMessage(k) ==
    /\ wire[k] > 0
    /\ wire' = [wire EXCEPT ![k] = @ - 1]
    /\ Publish(k, FALSE)
    /\ UNCHANGED <<block, age, delivered, poll, store, reading, received, crashes>>
-------------------------------------------------------------------------------
(* tick() walks the listed wallets, the rows fetched for each, newest first, *)
(* and asks the store for each row before it publishes it.                   *)
(* Mutant of NextRow: the rows of the last wallet are not looked at. *)
NextRowSkips(todo, rows) ==
    [at |-> IF todo = {} THEN "idle" ELSE IF rows # {} THEN "hasTx" ELSE "fetch",
     todo |-> todo, rows |-> rows, row |-> NoKey, known |-> FALSE]

NextRow(todo, rows) ==
    [at |-> IF rows # {} THEN "hasTx" ELSE IF todo # {} THEN "fetch" ELSE "idle",
     todo |-> todo, rows |-> rows, row |-> NoKey, known |-> FALSE]

PollTick ==
    /\ poll.at = "idle"
    /\ poll' = [IdlePoll EXCEPT !.at = "list"]
    /\ UNCHANGED <<chain, queue, delivered, store, reading, received, crashes>>

PollListed ==
    /\ poll.at = "list"
    /\ poll' = NextRow(Wallets, {})
    /\ UNCHANGED <<chain, queue, delivered, store, reading, received, crashes>>

(* Mutant of PollFetched: a wallet is asked for until it has no rows. *)
PollFetchedAgain(w, rows) ==
    /\ poll.at = "fetch" /\ w \in poll.todo /\ rows \in Fetched(w, PollLimit)
    /\ poll' = NextRow(IF rows # {} THEN poll.todo ELSE poll.todo \ {w}, rows)
    /\ UNCHANGED <<chain, queue, delivered, store, reading, received, crashes>>

PollFetched(w, rows) ==
    /\ poll.at = "fetch" /\ w \in poll.todo /\ rows \in Fetched(w, PollLimit)
    /\ poll' = NextRow(poll.todo \ {w}, rows)
    /\ UNCHANGED <<chain, queue, delivered, store, reading, received, crashes>>

PollHasTx ==
    /\ poll.at = "hasTx"
    /\ \E k \in Leading(poll.rows) :
            poll' = [poll EXCEPT !.at = "answered", !.rows = @ \ {k}, !.row = k,
                                 !.known = k \in cache]
    /\ UNCHANGED <<chain, queue, delivered, store, reading, received, crashes>>

PollPublishes ==
    /\ poll.at = "answered"
    /\ IF poll.known THEN UNCHANGED queue ELSE Publish(poll.row, TRUE)
    /\ poll' = NextRow(poll.todo, poll.rows)
    /\ UNCHANGED <<chain, delivered, store, reading, received, crashes>>
-------------------------------------------------------------------------------
(* Mutant of Finish: the pump takes one event only. *)
FinishOne ==
    /\ handled' = handled \cup {event}
    /\ inFlight' = inFlight \ {event}
    /\ attempt' = 0 /\ event' = NoKey /\ dated' = FALSE /\ stage' = "idle"
    /\ UNCHANGED <<seen, pending>>

(* The handler is done with its event: notify() has let go of it and the     *)
(* pump takes the next one, or ends.                                         *)
Finish ==
    /\ handled' = handled \cup {event}
    /\ inFlight' = inFlight \ {event}
    /\ attempt' = 0
    /\ IF pending = <<>> THEN event' = NoKey /\ dated' = FALSE /\ stage' = "idle"
       ELSE /\ event' = Head(pending).key /\ dated' = Head(pending).dated
            /\ stage' = "hasTx"
    /\ pending' = IF pending = <<>> THEN <<>> ELSE Tail(pending)
    /\ UNCHANGED seen

(* The handler starts notify() for its event. *)
Notify ==
    /\ stage' = "post" /\ attempt' = 1
    /\ inFlight' = inFlight \cup {event}
    /\ dated' = FALSE
    /\ UNCHANGED <<seen, pending, event, handled>>
Told(k) == k \in Elements(delivered) \cup inFlight

(* Mutant of Wake: no look at any time. *)
WakeAnyAge == IF Told(event) THEN Finish ELSE Notify

(* isRecent() of the time the handler goes by, and if so notify(), which     *)
(* skips what it has delivered.  The time of detection is past the limit     *)
(* only when the transaction's own is.                                       *)
Wake ==
    \/ /\ age[event] = "recent" \/ ~dated
       /\ ~Told(event) /\ Notify
    \/ /\ age[event] = "old" \/ Told(event)
       /\ Finish

Await(what) ==
    stage' = what /\ UNCHANGED <<seen, pending, event, dated, attempt, inFlight, handled>>

(* handle(): a stored transaction is only announced; any other is enriched   *)
(* from the LCD, stored, and its wallet trimmed first.                       *)
HandleHasTx ==
    /\ stage = "hasTx"
    /\ IF event \in cache THEN Wake ELSE Await("enrich")
    /\ UNCHANGED <<chain, delivered, poll, store, reading, received, crashes>>

(* Mutant of HandleEnriched: the backend is told before the store is. *)
HandleEnrichedTells ==
    /\ stage = "enrich" /\ Wake
    /\ UNCHANGED <<chain, delivered, poll, store, reading, received, crashes>>

(* The LCD knows the transaction, or the record is a stub with the time of   *)
(* the event.                                                                *)
HandleEnriched ==
    /\ stage = "enrich" /\ stage' = "upsert"
    /\ dated' \in {dated, TRUE}
    /\ UNCHANGED <<seen, pending, event, attempt, inFlight, handled>>
    /\ UNCHANGED <<chain, delivered, poll, store, reading, received, crashes>>

(* upsertTxs() of one row: its time is replaced with the rest of it. *)
Store(k, isDated) ==
    /\ cache' = cache \cup {k}
    /\ stubs' = IF isDated THEN stubs \ {k} ELSE stubs \cup {k}
    /\ stubbed' = IF isDated THEN stubbed ELSE stubbed \cup {k[1]}
    /\ UNCHANGED untrimmed

HandleUpserted ==
    /\ stage = "upsert" /\ Await("trim")
    /\ Store(event, dated)
    /\ UNCHANGED <<chain, delivered, poll, reading, received, crashes>>

(* Mutants of Trimmed: any rows are kept, one too many is kept. *)
TrimmedAny(w) ==
    \E kept \in Newest(w, cache, MaxTxsPerWallet, Keys) :
        /\ cache' = (cache \ CachedOf(w)) \cup kept
        /\ stubs' = stubs \cap cache'
        /\ untrimmed' = untrimmed \ {w}
        /\ UNCHANGED stubbed
TrimmedLate(w) ==
    \E kept \in Newest(w, cache, MaxTxsPerWallet + 1, stubs) :
        /\ cache' = (cache \ CachedOf(w)) \cup kept
        /\ stubs' = stubs \cap cache'
        /\ untrimmed' = untrimmed \ {w}
        /\ UNCHANGED stubbed

Trimmed(w) ==
    \E kept \in Newest(w, cache, MaxTxsPerWallet, stubs) :
        /\ cache' = (cache \ CachedOf(w)) \cup kept
        /\ stubs' = stubs \cap cache'
        /\ untrimmed' = untrimmed \ {w}
        /\ UNCHANGED stubbed

HandleTrimmed ==
    /\ stage = "trim"
    /\ Trimmed(event[1])
    /\ Wake
    /\ UNCHANGED <<chain, delivered, poll, reading, received, crashes>>
-------------------------------------------------------------------------------
(* notify(): the backend takes the post and answers, or the answer is lost;  *)
(* or it refuses for good; or it cannot be reached and the post is repeated  *)
(* after a pause while attempts are left.                                    *)
PostTaken ==
    /\ stage = "post" /\ Await("answer")
    /\ received' = [received EXCEPT ![event] = IF @ < 2 THEN @ + 1 ELSE @]
    /\ UNCHANGED <<chain, delivered, poll, store, reading, crashes>>

(* Mutant of PostAnswered: the delivery is not remembered. *)
PostAnsweredForgets ==
    /\ stage = "answer" /\ Finish
    /\ UNCHANGED <<chain, delivered, poll, store, reading, received, crashes>>

PostAnswered ==
    /\ stage = "answer"
    /\ delivered' = Remember(delivered, event, MaxRemembered)
    /\ Finish
    /\ UNCHANGED <<chain, poll, store, reading, received, crashes>>

PostRefused ==
    /\ stage = "post" /\ Finish
    /\ UNCHANGED <<chain, delivered, poll, store, reading, received, crashes>>

PostFails ==
    /\ stage = "post" \/ (stage = "answer" /\ LosesAnswers)
    /\ IF attempt < Attempts THEN Await("backoff") ELSE Finish
    /\ UNCHANGED <<chain, delivered, poll, store, reading, received, crashes>>

(* Mutant of PostAgain: the attempt is not counted. *)
PostAgainUncounted ==
    /\ stage = "backoff"
    /\ stage' = "post"
    /\ UNCHANGED <<seen, pending, event, dated, attempt, inFlight, handled>>
    /\ UNCHANGED <<chain, delivered, poll, store, reading, received, crashes>>

PostAgain ==
    /\ stage = "backoff"
    /\ stage' = "post" /\ attempt' = attempt + 1
    /\ UNCHANGED <<seen, pending, event, dated, inFlight, handled>>
    /\ UNCHANGED <<chain, delivered, poll, store, reading, received, crashes>>
-------------------------------------------------------------------------------
(* A client reads a history: getHistory stores what it fetched, row by row,  *)
(* then trims.                                                               *)
Unread(rows) == [at |-> IF rows = {} THEN "trim" ELSE "upsert", rows |-> rows]

ReadFetched(w) ==
    /\ ReadsHistory /\ reading[w].at = "idle"
    /\ \E rows \in Fetched(w, MaxTxsPerWallet) : reading' = [reading EXCEPT ![w] = Unread(rows)]
    /\ UNCHANGED <<chain, queue, delivered, poll, store, received, crashes>>

ReadUpserted(w) ==
    /\ reading[w].at = "upsert"
    /\ \E k \in Leading(reading[w].rows) :
            /\ Store(k, TRUE)
            /\ reading' = [reading EXCEPT ![w] = Unread(@.rows \ {k})]
    /\ UNCHANGED <<chain, queue, delivered, poll, received, crashes>>

ReadTrimmed(w) ==
    /\ reading[w].at = "trim"
    /\ Trimmed(w)
    /\ reading' = [reading EXCEPT ![w] = NoRead]
    /\ UNCHANGED <<chain, queue, delivered, poll, received, crashes>>

(* A query of the read fails and its request ends with an error.             *)
ReadFails(w) ==
    /\ reading[w].at # "idle"
    /\ reading' = [reading EXCEPT ![w] = NoRead]
    /\ untrimmed' = untrimmed \cup {w}
    /\ UNCHANGED <<chain, queue, delivered, poll, cache, stubs, stubbed, received, crashes>>

(* A wallet with a writer between its first upsert and its trim. *)
Writing(w) == reading[w].at # "idle" \/ (stage = "trim" /\ event[1] = w)

(* The process dies, by a signal, a host failure or a store call that throws *)
(* in a pump or a tick nobody awaits, and is started again.                  *)
Crash ==
    /\ crashes < MaxCrashes
    /\ crashes' = crashes + 1
    /\ wire' = [k \in Keys |-> 0]
    /\ seen' = <<>> /\ pending' = <<>> /\ stage' = "idle" /\ attempt' = 0
    /\ event' = NoKey /\ dated' = FALSE
    /\ inFlight' = {} /\ delivered' = <<>> /\ handled' = {}
    /\ poll' = IdlePoll
    /\ reading' = [w \in Wallets |-> NoRead]
    /\ untrimmed' = untrimmed \cup {w \in Wallets : Writing(w)}
    /\ UNCHANGED <<block, age, cache, stubs, stubbed, received>>
-------------------------------------------------------------------------------
HandlerStep ==
    \/ HandleHasTx \/ HandleEnriched \/ HandleUpserted \/ HandleTrimmed
    \/ PostTaken \/ PostAnswered \/ PostRefused \/ PostFails \/ PostAgain

PollStep ==
    \/ PollTick \/ PollListed \/ PollHasTx \/ PollPublishes
    \/ \E w \in Wallets : \E rows \in Fetched(w, PollLimit) : PollFetched(w, rows)

ReadStep(w) == ReadFetched(w) \/ ReadUpserted(w) \/ ReadTrimmed(w) \/ ReadFails(w)

Next ==
    \/ \E k \in Keys : Happens(k) \/ Ages(k) \/ WsMessage(k)
    \/ HandlerStep \/ PollStep
    \/ \E w \in Wallets : ReadStep(w)
    \/ Crash

Spec == Init /\ [][Next]_vars

(* What the handler awaits ends: the store answers or the process dies, and  *)
(* every request has a deadline.  The interval keeps ticking, and the LCD    *)
(* answers both queries of a wallet again and again.                         *)
Fairness ==
    /\ WF_vars(HandlerStep) /\ WF_vars(PollStep)
    /\ \A w \in Wallets :
            SF_vars(\E rows \in Newest(w, Happened, PollLimit, {}) : PollFetched(w, rows))

LiveSpec == Spec /\ Fairness
-------------------------------------------------------------------------------
Stages == {"idle", "hasTx", "enrich", "upsert", "trim", "post", "answer", "backoff"}
Events == [key : Keys, dated : BOOLEAN]
Polls == [at : {"idle", "list", "fetch", "hasTx", "answered"}, todo : SUBSET Wallets,
          rows : SUBSET Keys, row : Keys \cup {NoKey}, known : BOOLEAN]
Reads == [at : {"idle", "upsert", "trim"}, rows : SUBSET Keys]

(* Every variable has its type; a loop that is at a row has one, the         *)
(* notifier has in flight exactly the event it is posting, and stubs are     *)
(* stored rows (queue.ts, backend-events.ts, poll.ts, consumer.ts).          *)
TypeOK ==
    /\ block \in [Txs -> Nat]
    /\ age \in [Keys -> {"future", "recent", "old"}]
    /\ wire \in [Keys -> 0 .. 2]
    /\ seen \in Seq(Keys) /\ Len(seen) <= SeenMax
    /\ pending \in Seq(Events)
    /\ stage \in Stages /\ event \in Keys \cup {NoKey} /\ dated \in BOOLEAN
    /\ stage = "idle" <=> event = NoKey
    /\ attempt \in 0 .. Attempts /\ (stage = "backoff" => attempt < Attempts)
    /\ inFlight = IF stage \in {"post", "answer", "backoff"} THEN {event} ELSE {}
    /\ delivered \in Seq(Keys) /\ Len(delivered) <= MaxRemembered
    /\ poll \in Polls /\ (poll.at = "hasTx" => poll.rows # {})
    /\ poll.at = "answered" => poll.row \in Keys
    /\ cache \subseteq Keys /\ stubs \subseteq {k \in cache : k[1] \in stubbed}
    /\ stubbed \subseteq Wallets /\ untrimmed \subseteq Wallets
    /\ reading \in [Wallets -> Reads]
    /\ \A w \in Wallets : reading[w].at = "upsert" => reading[w].rows # {}
    /\ received \in [Keys -> 0 .. 2]
    /\ handled \subseteq Keys
    /\ crashes \in 0 .. MaxCrashes

(* What the queue remembers it has taken, it has finished with, is working   *)
(* on or still holds, and a queue that holds something has a pump: a         *)
(* sighting dropped as a duplicate is never the only one.                    *)
Waiting == {e.key : e \in Elements(pending)}
NothingLost ==
    /\ \A k \in Elements(seen) : k \in handled \cup {event} \cup Waiting
    /\ pending # <<>> => stage # "idle"

(* A transaction the consumer has finished with, or has told the backend     *)
(* of, can be read: it is stored, unless a full set of others is, none of    *)
(* them older, whatever history reads store and trim in between, whichever   *)
(* of tied rows a trim keeps, and whenever a query fails or the process      *)
(* dies.  A stub is dated by its detection until it is overwritten, so in a  *)
(* wallet that ever held one the full set may be of any transactions.        *)
Covering(k) ==
    {j \in CachedOf(k[1]) \ {k} : k[1] \in stubbed \/ block[k[2]] <= block[j[2]]}
Readable(k) == k \in cache \/ Cardinality(Covering(k)) >= MaxTxsPerWallet
AnnouncedIsReadable == \A k \in Keys : k \in handled \/ received[k] > 0 => Readable(k)

(* Every step keeps what a wake-up promises: the backend is told of one      *)
(* transaction at a time, of one that can be read already, and no trim,      *)
(* history read, overwritten stub or crash makes unreadable what could be    *)
(* read.                                                                     *)
Contract == INSTANCE AnnounceContract WITH
    readable <- {k \in Keys : Readable(k)}, told <- received
AnnouncedAsPromised == Contract!Spec

(* "Keep at most max_txs_per_wallet (default 50) txs": a wallet with no      *)
(* writer between its first upsert and its trim is within the cap, unless    *)
(* the last one died or failed there; the next trim mends that, however      *)
(* consumer, history reads, failing queries and crashes overlap.             *)
CacheCapped ==
    \A w \in Wallets \ untrimmed :
        ~Writing(w) => Cardinality(CachedOf(w)) <= MaxTxsPerWallet

(* "Each transaction ... once per wallet and transaction": the backend takes *)
(* it at most once, though two detectors and two roles see it.               *)
TakenOnce == \A k \in Keys : received[k] <= 1

(* "Those are history, not news": a transaction that has become old untold,  *)
(* that no socket message is on its way or waiting for and that is not being *)
(* posted, never wakes anyone any more, whether a first poll finds it, it    *)
(* aged in the queue, or the process starts again.                           *)
Late(k) ==
    /\ age[k] = "old" /\ wire[k] = 0 /\ received[k] = 0
    /\ event = k => dated /\ k \notin inFlight
    /\ [key |-> k, dated |-> FALSE] \notin Elements(pending)
HistoryIsNotNews == [][\A k \in Keys : Late(k) => Late(k)']_vars

(* Whatever is queued leaves the queue: no event waits behind another for    *)
(* ever.                                                                     *)
Queued(k) == k = event \/ k \in Waiting
QueueDrains == \A k \in Keys : Queued(k) ~> ~Queued(k)

(* How many steps the pump has still to make: an event is asked for, enriched,*)
(* stored, trimmed and posted at most Attempts times, each time with an       *)
(* answer and a pause.                                                        *)
StepsOfEvent == 3 * Attempts + 3
StepsOfStage ==
    LET posts == 3 * (Attempts - attempt)
    IN  CASE stage = "idle" -> 0
          [] stage = "hasTx" -> StepsOfEvent
          [] stage = "enrich" -> StepsOfEvent - 1
          [] stage = "upsert" -> StepsOfEvent - 2
          [] stage = "trim" -> StepsOfEvent - 3
          [] stage = "post" -> posts + 2
          [] stage = "answer" -> posts + 1
          [] OTHER -> posts
PumpLeft == Len(pending) * StepsOfEvent + StepsOfStage

(* An event the pump works on is let go after a bounded number of steps,      *)
(* however often the backend fails: each one leaves the pump less to do, and  *)
(* only a new sighting gives it more (queue.ts, consumer.ts, the attempts of  *)
(* backend-events.ts).                                                        *)
PumpMakesProgress == [][HandlerStep => PumpLeft' < PumpLeft]_vars

(* The same for a tick: it asks for each wallet once and looks at each of the *)
(* rows it fetched once (poll.ts).                                            *)
StepsOfWallet == 2 * PollLimit + 1
TickLeft ==
    CASE poll.at = "idle" -> 0
      [] poll.at = "list" -> Cardinality(Wallets) * StepsOfWallet + 1
      [] poll.at = "answered" ->
            Cardinality(poll.todo) * StepsOfWallet + 2 * Cardinality(poll.rows) + 1
      [] OTHER -> Cardinality(poll.todo) * StepsOfWallet + 2 * Cardinality(poll.rows)
TickMakesProgress == [][PollStep => TickLeft' < TickLeft \/ poll.at = "idle"]_vars

(* "Poll mode remains the safety net for gaps": a transaction no socket saw, *)
(* or whose event died with the process, is stored all the same, unless as   *)
(* many others as a poll asks for are not older.                             *)
SafetyNet ==
    \A k \in Keys :
        age[k] # "future" ~>
            \/ k \in cache
            \/ Cardinality({j \in Happened \ {k} : NotNewer(k, j)}) >= PollLimit

(* "Each transaction the detectors see for a watched wallet goes to the      *)
(* backend": an event in the queue is taken by the backend, grows old, or    *)
(* the notifier has done with it.                                            *)
SightedIsAnnounced ==
    \A k \in Keys :
        Queued(k) /\ age[k] = "recent" ~>
            (received[k] > 0 \/ age[k] = "old" \/ k \in handled)
===============================================================================
