# zunia-indexer: TLA+ models, checks and proofs

`zunia-indexer` keeps short transaction histories for the wallets that connect
to Zunia, watches those wallets on their chains, and tells zunia-backend of
each new transaction so that it can push a notification. It is one Node
process: nothing runs in parallel, but every `await` lets every other handler,
timer and request run, and the only thing that survives the process is the
Postgres store. What can go wrong is therefore almost always a question of what
happens between two awaits, or between two processes.

## Inventory

| Part | State | Operations | Hard behaviour | What makes it correct |
|---|---|---|---|---|
| Registry (`realtime/subscriptions.ts`) | registrations per caller, sweep clock; rows in the store | `ensure`, `register`, `registerPush`, `list`, `sweep` | counts read before an await and used after it; refresh from an older copy of the row; a sweep on a snapshot; restart | cap and quota hold up to the calls in flight; an acknowledged push watch is kept and listed; every call ends |
| WebSocket detector (`realtime/ws.ts`) | socket map, reconnect timers, attempts, endpoint index | `start`, `stop`, `reconcile`, timer, open/close/message events | close events of objects the map has forgotten; overlapping reconciles; a shared endpoint index | no backoff bypassed; nothing wanted is forgotten; one query per role; idle wallets released; failover reaches a live endpoint |
| Poll detector (`realtime/poll.ts`) | `running`, the rows of the tick | `tick` every interval | rows and `hasTx` answers that are stale at the publish | everything the sockets missed is stored |
| Queue (`realtime/queue.ts`) | bounded `seen`, `pending`, `pumping` | `publish`, `pump` | hand-over between publish and the end of a pump; eviction from `seen` | nothing taken is lost; the queue drains |
| Consumer (`realtime/consumer.ts`) | none but its place in `handle` | `handle` | six awaits, each a place to die; stubs dated by their detection | stored before announced; what has become history wakes nobody |
| Notifier (`realtime/backend-events.ts`) | `delivered` (bounded), `inFlight` | `notify`, `post` | timeouts, retries, lost answers, memory that forgets | each transaction is taken once |
| Store (`store/postgres.ts`, `store/memory.ts`) | wallet rows, transactions | upsert, list, `hasTx`, `trim` | non-atomic batches, ties within a block, null ordering, merge of watch ends | cap on stored transactions, watch ends never shortened |
| History service and route (`service/history.ts`, `http/app.ts`) | none | `getHistory` after `ensure` | writes the wallet row from an older copy; stores transactions the consumer has not announced | a push watch survives the writes; no page that can be listed goes back behind an answer |
| LCD client (`lcd/client.ts`) | none | `fetchLcdTxs` | one of two queries fails | newest rows first, no duplicates |
| HTTP middleware, schemas (`http/middleware.ts`, `http/schemas.ts`) | rate window per key | `rateLimit`, `requireApiKey`, `walletBodySchema` | window boundary, pruning only on return, table that only grows | exactly the sliding window: never more than `max`, never fewer |
| Identity and address checks (`subscriptions.ts`, `address.ts`, `tendermint-query.ts`) | none | `resolveSubscriber`, `checkAddress`, `buildTendermintQuery` | checksum arithmetic on 30-bit words, tokens that are dropped | a miswritten address, or one of another chain, is refused, the account meant is not; one device has one quota |
| Runtime, server | the wiring | start, shutdown | a rejection nobody awaits ends the process | restart loses only what the store can restore |
| Config, types, tracing stub, SQL, scripts | none | `loadSubscribeAuth` and the limits | every token too short | no door opens by a misconfiguration |

How they interact. The two detectors ask the registry for the watch set and
publish sightings (wallet, transaction) to the queue. The pump hands them one
at a time to the consumer, which reads and writes the store and calls the
notifier. HTTP requests call `ensure` and `getHistory`, or `registerPush`,
against the same store. `PROJECT.json` lists every component with its status,
and every hazard with its line.

## Modules

| Module | What it models |
|---|---|
| `WalletRegistry` | The registry over the durable table, or over the memory store (`Durable = FALSE`). Each running call is a process (`pc`, `req`, `found`, ...); the database takes a query at any moment after it was sent; `StoreError` and `Restart` may come anywhere. |
| `WatchContract` | What the registry promises of a push subscription, without calls, stores or clocks: an end that only moves later and is acknowledged once stored. `WalletRegistry` and `HistoryRoute` implement it (`WatchesAsPromised`). |
| `AnnounceContract` | What a wake-up promises the backend, without queues, detectors, retries or crashes: a transaction can be read before the backend is told of it, and stays so. `TxDelivery` implements it (`AnnouncedAsPromised`). |
| `HistoryRoute` | `POST /v1/wallets/history`: extends `WalletRegistry` with `getHistory`, one step per await, over the same rows and with the consumer as another writer of the stored transactions. It composes the route, the registry, the history service and the store. |
| `CometWsDetector` | The sockets of one chain: numbered WebSocket objects that outlive their map entry, timers, attempts modulo 3, the endpoint index, overlapping reconciles, stop, restart. |
| `TxDelivery` | From the chain to the backend: socket messages and polls, queue and pump, consumer, notifier, stored transactions, history reads as another writer, and the death of the process. It composes five source files because their properties only mean something together. |
| `RateLimit`, `SlidingWindow` | The middleware with its pruned entries, and the window over a full log that it implements (`ExactLimit`). |
| `Bech32`, `BchCode` | The address check on words of bits, and the definition of the checksum over GF(32) from BIP-173 that serves as reference encoder. |
| `HttpBoundary` | What a request passes before a handler touches the registry: rate limit, API key, body, identity. Extends `RateLimit` and `Bech32`. |
| `MC...` | TLC instances: symmetry, the chains (which transaction is in which block), and for the boundary the accounts and every text one slip away from one. |
| `WalletRegistryProofs`, `HistoryRouteProofs`, `CometWsDetectorProofs`, `TxDeliveryProofs`, `HttpBoundaryProofs`, `Bech32Proofs` | Theorems. |

Correspondence. One action stands for what the code does between two awaits,
together with the effect of the query or event it was waiting for:

- `WalletRegistry`: `Ensure`, `GetWallet`, `Refresh`, `RefuseQuota`,
  `AdmitQuota`, `SweepList`, `SweepDelete`, `SweepEnd`, `CapList`,
  `ForceSweep`, `Create`, `Created` follow `ensure()` and `sweep()` line by
  line; `List` and `WatchList` are `list()`; `Return` hands the answer over and
  is where a push becomes a promise (`promised`, a history variable). A row's
  `touched` is `lastRefreshAt ?? firstSeenAt` and its `watch` is `watchUntil`
  with 0 for none. `Upserted` is the `ON CONFLICT` clause with `GREATEST`, or
  the map's put in memory.
- `HistoryRoute`: a registry call with `op = "ensure"` is a request. When
  `ensure()` is done, whatever its outcome, `read[c]` walks through
  `getHistory`: `LookedUp` (`getWallet`), `Register` (the first-connect
  upsert), `Cached`, `FetchAnswers`, `StoreRow` and `Trim` (`persist`, a row at
  a time), `Touch` (the refresh upsert), `PageAnswers`; `ListAnswers` is
  the listing, whose rows are the response (`Answers`). `ReadFails` is a query
  the store rejects. `block` is the chain. `NotNewer` is the order of the rows'
  times, in which transactions of one block tie: `Newest` is what a sort and a
  limit may keep, any of tied rows, and the trim and the listing choose each
  for itself. The consumer may store a stub, whose time is that of its
  detection until it is overwritten. The model does not follow that time: a
  wallet that ever stored such a row, or one without a time, is in
  `unordered`, and there a cut keeps any rows. `shown` (what the answers so far
  contained) and `unordered` are history variables.
- `CometWsDetector`: `StartReconcile`, `ListAnswers` and `Reconcile` are the
  two halves of `reconcile()` and the query between them; `OpenAndClose` is
  `openSubscription` and `ws.close()` for all the ids one synchronous pass
  touches; `Opens`, `Closed`, `Refused` and `Drops` are the events; `Fire` is
  the timer. `desired` and `drops` are history variables.
- `TxDelivery`: `stage` is what the handler awaits, `"idle"` standing for
  `pumping === false`. `Publish`, `Finish` (the pump taking the next event),
  `HandleHasTx` ... `HandleTrimmed` (`handle`), `Wake` (`isRecent` and the entry
  of `notify`), `PostTaken` ... `PostAgain` (`post` and its retries),
  `PollTick` ... `PollPublishes` (`tick`), `ReadFetched` ... `ReadFails`
  (`getHistory` as another writer, whose queries may fail). `block` is the
  chain, with ties as in `HistoryRoute`. An event is dated (`dated`) when it
  has the time of its block, as a poll's has (`txTimestamp`) and a socket's has
  not; enriching dates it unless the fetch fails, and a stub that stays
  undated is in `stubs` until it is overwritten: a trim may take it for newer
  than it is. `Wake` lets an undated event pass `isRecent` at any age, since
  its detection may be recent when the transaction is not. `handled`,
  `stubbed`, `untrimmed`, `received` and `crashes` are history variables;
  `untrimmed` holds the wallets whose last writer died or failed between its
  upsert and its trim.
- `RateLimit`: `Serve` and `Refuse` are the two ends of the middleware, which
  decides and records in one synchronous step; `hits` is the array per key as a
  set of numbered entries, `served` and `verdict` are history variables.
- `HttpBoundary`: `Arrive` is rate limit and API key in one step, `Validate`
  the body, `History`, `Identify` (`resolveSubscriber`) and `Register` the
  handlers with the statuses they answer. `env` is the deployment. A body is
  any text for any chain id, sent by somebody who means an account of a chain
  whose prefix is known; `Sent` keeps what the sender did beside what the code
  made of it.
- `Bech32`: a word is the set of its one bits, so that `^` is the symmetric
  difference; `Round`, `polymod`, `expandPrefix`, `decodeBech32`,
  `checkAddress` carry the names of the code. `Texts` and `Slip` are the
  senders' side, not the code's: which texts are one slip away from an address.

## Runs

| Run | Question | Bounds and why they are enough |
|---|---|---|
| `registry_durable` | Is the cap overrun only by the calls in flight, is an acknowledged push watch kept and listed, is the watch contract implemented? | Two calls in flight over three wallets (one a legacy row with an unusable address), cap 1, clock 1..3: the overlap of two first registrations, a refresh from an older row, an error and a restart at any await all occur. The store cannot delete, as both shipped stores. |
| `registry_alone` | Are cap and quota exact when calls do not overlap, is a wallet refused only by a table of live rows, and does every call end? | One call, a store that can delete, cap 2 and three wallets, the anonymous subscriber with a quota of one, clock 1..4: rows go idle, a failed call leaves a row without its registration, and the forced sweep runs. |
| `history_route` | Do push watches survive the history route and is the watch contract still implemented, does a history ever go back, who is a first connect? | Two calls (requests, pushes, listings) over one active wallet and a legacy row, cap 1 so that registrations are refused, two transactions with room for one so that every trim cuts, the consumer storing full rows and stubs in between, failing queries, restarts. The two are of two blocks; ties are met in a wallet that held a stub, where a cut keeps either, just as of two of one block. The theorem has every chain. |
| `history_first` | (violated) Is the request that adds a wallet told so? | The same with one call, and transactions of one block as well. |
| `ws_detector` | Is a backoff ever bypassed, is a wanted subscription ever forgotten, does a watched wallet end with two open sockets? | One wallet (two subscriptions), two objects per subscription, two overlapping reconciles, at most two drops: enough for a drop of each role, or for two of one with a late close event between. The process keeps running (`LiveSpec`): stop and restart are not in this run, and the theorems of the three invariants, which are over `Spec`, have them. |
| `ws_idle_held`, `ws_failover`, `ws_duplicate` | (violated) Release of idle wallets, failover, one query per role. | The smallest instance that shows each; fairness stated. |
| `delivery_cache` | Is a sighting ever lost in the queue, can what was announced be read and does it stay so, does the cap hold, does history ever wake anyone? | Two transactions of one wallet, of one block or of two, with a cap of one, so trims happen and ties are broken either way; stubs and their overwriting; `MaxRemembered` 1 so that the notifier's memory forgets; lost answers, history reads whose queries may fail, one crash. One attempt, one message and one place in the queue; retries and the second message are in `delivery_once`, and the theorems have any numbers. |
| `delivery_once` | Is a transaction taken once; does the queue drain, does the poll store what the sockets missed, does every step of the pump or of a tick leave it less to do? | The dedupe set holds fewer sightings than there are, the notifier's memory does not overflow, no transaction is trimmed; two messages of a transaction, two attempts and a crash, answers arrive. No history reads, which the theorem of `TakenOnce` covers. |
| `delivery_crash` | (violated) Is every sighted transaction announced when the process may die? | One transaction, one crash. |
| `http_boundary` | Is the limit exactly the window, are slips and addresses of another chain refused and the account meant not, is a door ever open, does a device keep its quota? | Two requests under way and two keys, a window of 2 with limits 1 and 2 (trusted), clock 0..3, so that windows overlap and entries are pruned late. Of a 32-symbol account every single wrong symbol, swap of neighbours, mirrored window of two or six symbols and wrong prefix letter, the losses of one to five symbols and the copy in upper case, each for its own chain and for one of no known prefix; and somebody else's accounts of a served and of an unserved prefix and an overly short address, for its chain, another, an unknown one and an unusable id. The theorem has every text. Every subset of two usable tokens and a short one, in production or not. |

Every property of a passing run has a mutant of the code's logic in
`PROJECT.json` that breaks it. Bounds: `MaxTime` on the clock, `MaxDrops` on
dropped connections, `MaxPending` on the queue, `MaxCrashes`, and `received`
stops counting at 2; `MaxMessages` on the messages of a transaction is the
code's own (sender and recipient). Clock units are arbitrary: the code compares times only
with each other and with its limits. Deadlock is checked except in
`ws_detector`, `ws_idle_held` and `ws_failover`, where a network that has
stopped dropping may leave nothing to do.

### What the checks show

The cap and a caller's quota are not hard limits: both are read before several
awaits and written after them, so each call in flight beyond the first may
take one more. That, and no more, holds (`CapBound`, `QuotaBound`). The hazard
nobody would test, a history read that writes an older copy of the row over a
renewed push watch, is harmless over Postgres because the upsert takes the
later watch end; the mutant that replaces the row shows what a plain put would
do. Two history reads and the consumer may store and trim one wallet in any
order, with half of the LCD's rows missing and ties broken by each query for
itself, and still no page lacks what an earlier answer had unless it is full;
and of a wallet whose rows have the times of their blocks, full of nothing
older. The rate limiter
prunes a key only when it comes back, and decides as the full log would.

Shown disagreements (violation runs, quoted in `PROJECT.json`):

1. `history_first`: the route registers a wallet before it looks whether it is
   known, so `firstConnect` is false for the request that added it.
2. `ws_idle_held`: the close event of a socket `reconcile()` closed on purpose
   schedules a reconnect, whose timer does not ask whether the wallet is still
   wanted. The next reconcile closes it again, and so on.
3. `ws_failover`: the two roles of a wallet fail in step and each rotates the
   chain's index on its third failure; with two endpoints they return to the
   dead one.
4. `ws_duplicate`: a late close event deletes the map entry of a newer object,
   which stays connected, and arms a timer, which opens another.
5. `delivery_crash`: a transaction stored by a process that died before
   posting it is found "known" by the poll of the next one.

Seen while modelling, true of the models when the constants allow them, and
not kept as runs:

- no shipped store implements `deleteWallet`, so at the cap the forced sweep
  (`subscriptions.ts:172`) frees nothing and new wallets are refused over idle
  rows: `RefusedOnlyWhenFull` needs `CanDelete`;
- two first registrations in flight together exceed the quota of
  `config.ts:93` by one (what `QuotaBound` allows);
- with a store that can delete (`CanDelete = TRUE`), a sweep that works on its
  snapshot deletes a row whose push watch was renewed after it
  (`PromiseKept` fails);
- over the memory store (`Durable = FALSE`) one history read drops a push
  watch, since the upsert of `getHistory` carries none (`PromiseKept` fails in
  `HistoryRoute`), against `app.ts:90` "read or not";
- a wallet that `ensure()` refused for the cap or a quota is stored by
  `getHistory` all the same (`history.ts:40`), so `CapBound` is a property of
  the registry alone and fails in `HistoryRoute`;
- Postgres lists a row without a time first and `trim` removes it first, and a
  stub stands where its detection puts it (`consumer.ts:104`), above newer
  transactions, until it is overwritten: a page may then go back to older
  transactions, and `HistoryGoesForward` claims of such a wallet only that the
  page is full;
- the default policy accepts an account of a served prefix for a chain it has
  no prefix or endpoint of (`checkAddress`: `expected` is undefined), registers
  it and answers an empty history, where `config.ts:67-70` says that a request
  for a chain the indexer cannot read is refused with a reason.
  `AcceptedIsRight` says of such a chain that no slip passes, and no more;
- `lastRefreshAt` moves back when a slow fetch ends after a newer request;
- with `LosesAnswers = TRUE`, `TakenOnce` fails: a post that was taken and
  timed out is posted again, and the backend has to recognise it; and so it
  does with a `MaxRemembered` below the number of deliveries, when a late
  duplicate comes after its delivery was forgotten;
- in poll mode, a history read that stores a transaction before the poll sees
  it keeps it from being announced (`poll.ts:56`);
- a failed delivery is not tried again by a later sighting, as
  `backend-events.test.ts:89` has it for the notifier alone: the queue drops
  the sighting (`queue.ts:19`);
- a process that dies, or a history read whose query fails
  (`history.ts:124-125`), between an upsert and the trim leaves a wallet above
  the cap until its next trim (`CacheCapped` excepts such a wallet, which is in
  `untrimmed`);
- the stub of a failed fetch can replace a full record that a history read
  stored meanwhile, and says `success: true` (`consumer.ts:44`, `:102`);
  `TxDelivery` follows what that does to the time of the row and to the trims,
  not the lost contents;
- the limiter's table is per process and never loses a key that does not come
  back (`middleware.ts:13`); `/health` is answered before it;
- bech32's known weakness: a `q` inserted before a final `p` leaves the
  checksum valid, and the accepted range of 32 to 103 symbols lets the longer
  address pass; the upper end is out of reach within the 90 characters.

### Fairness

- `WalletRegistry!FairSpec` (`registry_alone`): the steps of a call that was
  started happen (the database answers or rejects, the event loop runs
  continuations). No fairness on callers, clock, errors or restarts.
- `CometWsDetector!LiveSpec`: a process that is neither stopped nor killed; the
  interval calls `reconcile`, the registry answers, armed timers fire, close
  handshakes end and a connection attempt is decided. Drops are never forced
  and are bounded in number.
- `TxDelivery!LiveSpec`: the handler's awaits end (each post has a deadline,
  fetches have the client's own, the store answers or the process dies) and
  the poll's steps happen; strong fairness only on the LCD answering both
  queries of a wallet, since the poll repeats for ever.

## Proofs

The theorems hold for every value of the constants allowed by the `ASSUME`s;
a condition on the constants beyond them is written before the theorem.

`WalletRegistryProofs`
- `TypeCorrect`: by cases on the step; `TypeOK` also says which steps have a
  wallet in their request, without which the state functions would be applied
  outside their domain.
- `CapIsBounded`: `CapBound` is not inductive, because a call that has passed
  the check is about to add a row. `CapInv` counts the stored wallets together
  with the wallets that calls past the check (`create`) are about to store;
  passing the check adds at most one to a set whose rows were below the cap,
  and the number of other such calls is at most `Cardinality(Calls) - 1`.
- `QuotaIsBounded`: the same for the registrations of a caller, counting calls
  between the quota check and `recordRegistration`.
- `PromisesAreKept` (`~CanDelete`, `Durable`): `PromiseInv` adds what each call
  that could write the row, or that is about to acknowledge, has in its hands:
  the row is no older than what the call has written, and a refresh never
  lowers it.
- `PromisesAreWatched` (same conditions): the action property, from the same
  invariant.
- `ContractIsImplemented` (same conditions): every step leaves watch ends and
  promises alone, moves one end later, or acknowledges an end that
  `PromiseInv` says is stored; these are the steps of `WatchContract`.

`HistoryRouteProofs`
- `RouteSteps` reduces every step of the route to a step of the registry, a
  write of `getHistory` to one row, or a request that ends, so that the
  registry's own invariants carry over.
- `RouteTypes`, and `RouteKeepsPromises` (`~CanDelete`, `Durable`):
  `PromiseInv` again; the new writes carry no watch end, and `GREATEST` keeps
  the stored one.
- `RouteKeepsTheContract` (same conditions): the writes of `getHistory` and the
  ends of requests are steps of `WatchContract` or none, like the registry's.
- `FirstConnectIsRefused` (`~CanDelete`): `AllFirst` says that after an
  accepted `ensure()` the row exists and stays.
- `HistoriesGoForward` (`~CanDelete`): by `CoverInv`. A transaction that was
  shown, or that a first connect is about to show, is, in the store, either
  there or below a full set of others that are none of them older, unless the
  wallet is unordered. `CutCovers` and `NewestCovers` say that a cut that keeps
  any of tied rows leaves what it drops so covered, since the order is
  transitive with its ties; storing keeps that (`StoringCovers`), a trim keeps
  it (`TrimCovers`), and what is covered in the store is in or below a full
  page of it (`CoveredIsListed`), whichever page the listing chooses. For every
  chain and any rows without a time.

`CometWsDetectorProofs`
- `TypeCorrect`, `BackoffIsRespected`, `NothingIsForgotten`, from
  `DetectorInv`, the conjunction of the three: none is inductive alone, since
  that the object in the map is alive needs its type, and that a wanted
  subscription stays covered needs that a timer's subscription has no socket.
  `OpenAndCloseType` states once what a synchronous pass does to the sockets.

`TxDeliveryProofs`
- The data lemmas first, about a cut that keeps any of tied rows: what it
  keeps and drops (`NewestKeeps`), and that it takes from no transaction the
  full set of others that stands for it (`TrimKeeps`, `TrimKeepsReadable`).
- `TypeCorrect`: the type invariant split into the parts that publishing, the
  handler, the poll and a history read touch (`TypeParts`).
- `SightingsAreNotLost`: `NothingLost` is inductive given the types; the two
  steps that matter are `Publish` and `Finish`.
- `AnnouncedCanBeRead`: `AnnouncedIsReadable` is not inductive, since a post
  announces an event that was stored some awaits before. `EventReadable` adds
  that from its upsert on the event can be read, and `TrimKeepsReadable` that
  a trim by another writer never takes that away. `Covering` is what may stand
  for a transaction that is gone: others of its wallet that are not older, or,
  in a wallet that ever held a stub, any others, since the stub was kept by a
  time it does not have.
- `DeliveryKeepsTheContract`: the refinement to `AnnounceContract`, with no
  condition on the constants. A post that is taken is a `Tell` of an event
  that `EventReadable` says can be read (`PostKeepsContract`); every other step
  tells nothing and leaves what could be read readable, a trim by another
  writer and a crash included (`UntoldKeepsContract`).
- `EventsAreLetGo`, `TicksEnd`: `PumpLeft` and `TickLeft` bound what the pump
  and a tick have still to do, and every step of theirs lowers them. An event
  is let go within `3 * Attempts + 3` steps, a tick looks at each wallet and
  row once. These are the parts of `QueueDrains` and `SafetyNet` that are about
  the code; that the awaits end is the fairness the runs assume.
- `StoreIsCapped`: `CacheCapped` with `OwnRows` (a history read holds rows of
  its own wallet, so storing them disturbs no other wallet's count). A writer
  that leaves without a trim, by a failing query or a crash, marks its wallet
  (`CapStep`).
- `HistoryWakesNobody`: `Late` is what makes a transaction history: it is old
  and untold, no socket message of it is on its way or waits in the queue, the
  handler does not go by the time of its detection and nothing posts it. Every
  step keeps it (`LateNext`): a poll's event, its record and a stored row carry
  the time of the block, which `isRecent` refuses. Each conjunct is needed,
  since the sockets' events have no other time than that of their detection.
- `TransactionsAreTakenOnce` (`~LosesAnswers`, a notifier memory that holds
  every sighting, no trim that cuts): `OnceInv`. What the backend took is
  remembered by the notifier, is being answered, or is out of reach: not in the
  queue, not on the wire, and stored, so that the poll finds it known
  (`ReadableIsStored` with `AnnouncedCanBeRead`). `RemembersAll` counts the
  entries of the memory, which are distinct. The three conditions are needed:
  without any of them TLC finds a second post.

`HttpBoundaryProofs`
- `WindowIsBounded`: `LimiterInv` says that the kept entries of a key include
  all that were served within the window that ends now; a step of the boundary
  is a step of the limiter or leaves it alone (`LimiterSteps`).
- `LimitIsExact`: the refinement to `SlidingWindow`; `KeptIsRecent` makes the
  pruned entries and the log's recent ones the same set.
- `BoundaryTypes`, `NoDoorIsOpen`, `DevicesKeepTheirQuotas`: from
  `IdentityInv`, which keeps with a request what it was identified by.

- `OnlyTheRightPass`: what the sender did against what the code answered, for
  any text, any chain id and any account meant. `BodiesAssumption` is about the
  sender's account only, that it is one of a chain whose prefix is known and
  served; TLC evaluates it on the bodies of the run. That no slip passes is
  `SlipsAreRefused`; the rest follows from the steps of the boundary.

`Bech32Proofs`
- `SlipsAreRefused`, for texts of every length: a round of `polymod` is one to
  one in the word and in the symbol (`RoundTellsWords`), because the low five
  bits of the five generators are independent (`LowOfGenerators`,
  `ReducedTells`). Two runs over texts that part somewhere and are equal from
  there on therefore never meet again; and for six rounds after they part
  nothing of their difference has left the word (`DifferenceMovesUp`), so wrong
  symbols within six places cannot undo each other (`BurstIsCaught`). For the
  same reason a text cut by one to five symbols does not end at 1 again
  (`CutIsCaught`). `expandPrefix` is taken through `Expanded`: letters within
  one block of 32 differ in their low half only, so six wrong ones are one
  window as well.
- The induction is over the places of a sequence, and the library's theorem for
  it takes an operator, which the provers cannot instantiate. `Climb` states it
  about a set of places, from the well-foundedness of `<` on the naturals, and
  `RoundsOf` shows that the recursive function of `polymod` exists before it is
  unfolded.
- `InsertionIsNotSeen`: where this ends. A "q" before a final "p" leaves the
  checksum valid, as BIP-173 says of its own code.

Only model-checked: the liveness properties `CallEnds`, `WatchedIsOpen`,
`QueueDrains` and `SafetyNet`, since liveness under fairness, and `ENABLED`,
are outside what the prover does; for the third, and for the ticks of the last,
the theorems above say that each step counts. `RefusedOnlyWhenFull` as well: it
needs a store that can delete and calls that do not overlap, so a theorem about
it would say nothing of a shipped deployment. Every other property of a passing
run is a theorem.

## Abstractions, and what is not modelled

- Over the memory store calls are effectively atomic, since its awaits wait for
  no I/O; `Durable = FALSE` is to be taken with one call at a time, and no run
  uses it.
- Wallets are opaque; `UnsafeWallets` are those `isQuerySafeValue` refuses.
  `list()` breaks ties in any order, as the `SELECT` promises none.
- The detector is modelled for one chain, whose endpoints exist and are http
  or https URLs. An RPC that is no URL at all throws in `rpcToWebsocketUrl`
  (`ws.ts:170`), outside the `try`, and ends the process, which `Restart`
  stands for. A `WebSocket` constructor that throws is caught and schedules a
  reconnect (`ws.ts:172-178`); for the ws and wss URLs made of the endpoints it
  does not throw, so that branch is left out. It would do what an object does
  that is refused at once (`Refused`). Delays are not modelled: a timer may
  fire at any time.
- In `TxDelivery` every wallet is watched, the LCD knows the time of every
  block, and Vercel queues are off. Times are told apart as far as the code
  compares them: a block's, or that of a detection. A poll or a fetch may get
  any part of the rows, or none, which covers a failed query, an LCD behind its
  chain and one that ignores `order_by`. A post that was given up is not taken
  later.
- In `HistoryRoute` a transaction is known by its block, and the contents of a
  record are left out.
- In `HttpBoundary` the limits and the requests end with the process; the
  registry's and the history's answers are inputs. `constantTimeEquals` and
  `fingerprint` are taken to tell secrets apart, `isChainId` is a set of ids,
  the key spaces of `x-api-key` and `x-forwarded-for` are told apart.
- Not modelled: the string formatting of `tendermint-query.ts` (its predicate
  is the set `UnsafeWallets`); the Vercel queue and the composite publisher
  (off by default, a swallowed `send()`); the parsing in `lcd/client.ts`;
  environment parsing other than `loadSubscribeAuth` (the limits are
  constants); `/health`, tracing, types, SQL, the container and the load test
  (no state of this program).

## What could come next

1. The contents of a record in `TxDelivery`: the `success: true` of a stub that
   replaces a full record at `consumer.ts:44`.
2. `CometWsDetector` for two chains that share nothing, to show that the
   endpoint indexes do not interfere, and a backoff with delays.
3. `HistoryRoute` with a cap of stored transactions above the page, and two
   active wallets; both are covered by the theorems, not by a run.
