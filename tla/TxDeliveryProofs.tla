--------------------------- MODULE TxDeliveryProofs ---------------------------
(* Proofs about TxDelivery, for any finite sets of wallets and transactions, *)
(* any caps and limits, and any number of crashes.                           *)
EXTENDS TxDelivery, FiniteSetTheorems, TLAPS

LEMMA KeysFinite == IsFiniteSet(Keys)
BY FS_Product, DeliveryAssumption DEF Keys

LEMMA SightingsFinite ==
    ASSUME NEW K \in SUBSET Keys
    PROVE  /\ IsFiniteSet(K) /\ Cardinality(K) \in Nat
           /\ \A L \in SUBSET K : Cardinality(L) <= Cardinality(K)
<1>1. ASSUME NEW L \in SUBSET Keys PROVE IsFiniteSet(L)
  BY KeysFinite, FS_Subset
<1>2. ASSUME NEW L \in SUBSET K PROVE Cardinality(L) <= Cardinality(K)
  BY <1>1, FS_Subset
<1> QED
  BY <1>1, <1>2, FS_CardinalityType

(* A sighting is not the absence of one. *)
LEMMA NoKeyIsNoSighting == NoKey \notin Keys
BY DEF NoKey, Keys

(* What a cut may keep: no more than it is asked for, all rows or as many as *)
(* that, and no dated row older than one it leaves out.                      *)
LEMMA NewestKeeps ==
    ASSUME NEW K \in SUBSET Keys, NEW w \in Wallets, NEW n \in Nat, NEW late,
           NEW kept \in Newest(w, K, n, late)
    PROVE  /\ kept \in SUBSET {k \in K : k[1] = w} /\ kept \in SUBSET Keys
           /\ Cardinality(kept) \in 0 .. n
           /\ kept = {k \in K : k[1] = w} \/ Cardinality(kept) = n
           /\ \A i \in kept \ late : \A j \in {k \in K : k[1] = w} \ kept :
                 block[j[2]] <= block[i[2]]
<1> DEFINE all == {k \in K : k[1] = w}
<1>1. /\ kept \in SUBSET all
      /\ IF Cardinality(all) <= n THEN kept = all ELSE Cardinality(kept) = n
      /\ \A i \in kept \ late : \A j \in all \ kept : NotNewer(j, i)
  BY DEF Newest
<1>2. kept \in SUBSET Keys /\ Cardinality(kept) \in Nat
  BY <1>1, SightingsFinite
<1>3. Cardinality(kept) <= n /\ (kept = all \/ Cardinality(kept) = n)
  BY <1>1
<1> QED
  BY <1>1, <1>2, <1>3 DEF NotNewer

(* What is fetched for a wallet are sightings of it, within the limit.       *)
LEMMA FetchedType ==
    ASSUME NEW w \in Wallets, NEW limit \in Nat, NEW rows \in Fetched(w, limit)
    PROVE  /\ rows \in SUBSET Keys /\ Cardinality(rows) \in 0 .. limit
           /\ \A k \in rows : k[1] = w
<1>1. PICK K \in SUBSET Happened : rows \in Newest(w, K, limit, {})
  BY DEF Fetched
<1>2. K \in SUBSET Keys
  BY DEF Happened
<1> QED
  BY <1>1, <1>2, NewestKeeps
-------------------------------------------------------------------------------
LEMMA CoveringIsFinite ==
    ASSUME TypeOK, NEW k \in Keys
    PROVE  Covering(k) \in SUBSET Keys /\ Cardinality(Covering(k)) \in Nat
<1>1. Covering(k) \in SUBSET Keys
  BY DEF Covering, CachedOf, TypeOK
<1> QED
  BY <1>1, SightingsFinite

(* Storing more never makes a transaction unreadable, whether a stub is      *)
(* stored or overwritten.                                                    *)
LEMMA StoringKeepsReadable ==
    ASSUME TypeOK, TypeOK', UNCHANGED block, cache \subseteq cache', stubbed \subseteq stubbed',
           NEW k \in Keys, Readable(k)
    PROVE  Readable(k)'
<1>1. Readable(k)' <=> k \in cache' \/ Cardinality(Covering(k)') >= MaxTxsPerWallet
  BY DEF Readable
<1>2. Covering(k) \in SUBSET Covering(k)'
  BY DEF Covering, CachedOf
<1>3. Covering(k)' \in SUBSET Keys /\ MaxTxsPerWallet \in Nat
  BY DeliveryAssumption DEF Covering, CachedOf, TypeOK
<1>4. /\ Cardinality(Covering(k)) \in Nat /\ Cardinality(Covering(k)') \in Nat
      /\ Cardinality(Covering(k)) <= Cardinality(Covering(k)')
  BY <1>2, <1>3, CoveringIsFinite, SightingsFinite
<1> QED
  BY <1>1, <1>3, <1>4 DEF Readable

(* What a trim does to the wallet and to the others. *)
LEMMA TrimKeeps ==
    ASSUME TypeOK, NEW w \in Wallets, Trimmed(w)
    PROVE  /\ stubbed' = stubbed
           /\ CachedOf(w)' \in SUBSET CachedOf(w)
           /\ Cardinality(CachedOf(w)') \in 0 .. MaxTxsPerWallet
           /\ CachedOf(w)' = CachedOf(w) \/ Cardinality(CachedOf(w)') = MaxTxsPerWallet
           /\ \A i \in CachedOf(w)', j \in CachedOf(w) \ CachedOf(w)' :
                 w \in stubbed \/ block[j[2]] <= block[i[2]]
           /\ \A v \in Wallets \ {w} : CachedOf(v)' = CachedOf(v)
           /\ \A k \in cache : k[1] # w => k \in cache'
           /\ stubs' = stubs \cap cache' /\ cache' \subseteq cache
           /\ untrimmed' = untrimmed \ {w}
<1>1. PICK kept \in Newest(w, cache, MaxTxsPerWallet, stubs) :
        /\ cache' = (cache \ CachedOf(w)) \cup kept
        /\ stubs' = stubs \cap cache'
        /\ untrimmed' = untrimmed \ {w}
        /\ stubbed' = stubbed
  BY DEF Trimmed
<1>2. cache \in SUBSET Keys /\ MaxTxsPerWallet \in Nat
  BY DeliveryAssumption DEF TypeOK
<1>3. /\ kept \in SUBSET CachedOf(w)
      /\ Cardinality(kept) \in 0 .. MaxTxsPerWallet
      /\ kept = CachedOf(w) \/ Cardinality(kept) = MaxTxsPerWallet
      /\ \A i \in kept \ stubs : \A j \in CachedOf(w) \ kept : block[j[2]] <= block[i[2]]
  BY <1>2, NewestKeeps DEF CachedOf
<1>4. CachedOf(w)' = kept /\ \A v \in Wallets \ {w} : CachedOf(v)' = CachedOf(v)
  BY <1>1, <1>3 DEF CachedOf
<1>5. \A i \in kept : i \in stubs => w \in stubbed
  BY <1>3 DEF CachedOf, TypeOK
<1>6. (\A k \in cache : k[1] # w => k \in cache') /\ cache' \subseteq cache
  BY <1>1, <1>3 DEF CachedOf
<1> QED
  BY <1>1, <1>3, <1>4, <1>5, <1>6

(* A trim never makes a transaction unreadable: it keeps it, or it keeps a   *)
(* full set of others that are not older, or cannot be told to be.           *)
LEMMA TrimKeepsReadable ==
    ASSUME TypeOK, NEW w \in Wallets, Trimmed(w), UNCHANGED block, NEW k \in Keys, Readable(k)
    PROVE  Readable(k)'
<1> DEFINE M == MaxTxsPerWallet
           kept == CachedOf(w)'
<1>1. Readable(k)' <=> k \in cache' \/ Cardinality(Covering(k)') >= M
  BY DEF Readable
<1>2. /\ kept \in SUBSET CachedOf(w) /\ kept \in SUBSET Keys /\ stubbed' = stubbed
      /\ kept = CachedOf(w) \/ Cardinality(kept) = M
      /\ \A i \in kept, j \in CachedOf(w) \ kept : w \in stubbed \/ block[j[2]] <= block[i[2]]
      /\ \A v \in Wallets \ {w} : CachedOf(v)' = CachedOf(v)
  BY TrimKeeps DEF CachedOf, TypeOK
<1>3. Covering(k)' = {j \in CachedOf(k[1])' \ {k} : k[1] \in stubbed \/ block[k[2]] <= block[j[2]]}
  BY <1>2 DEF Covering
<1>4. M \in Nat /\ k[1] \in Wallets /\ Cardinality(Covering(k)) \in Nat
      /\ \A j \in Keys : block[j[2]] \in Nat
  BY CoveringIsFinite, DeliveryAssumption DEF Keys, TypeOK
<1>5. CASE k[1] # w
  <2>1. Covering(k)' = Covering(k)
    BY <1>2, <1>3, <1>4, <1>5 DEF Covering
  <2>2. k \in cache => k \in cache'
    BY <1>5, TrimKeeps
  <2> QED
    BY <1>1, <2>1, <2>2 DEF Readable
<1>6. CASE k[1] = w /\ k \in kept
  BY <1>1, <1>6 DEF CachedOf
<1>7. CASE /\ k[1] = w /\ k \notin kept
           /\ \E j \in CachedOf(w) \ kept : w \in stubbed \/ block[k[2]] <= block[j[2]]
  <2>1. PICK j \in CachedOf(w) \ kept : w \in stubbed \/ block[k[2]] <= block[j[2]]
    BY <1>7
  <2>2. j \in Keys
    BY <2>1 DEF CachedOf, TypeOK
  <2>3. \A i \in kept : w \in stubbed \/ block[k[2]] <= block[i[2]]
    <3> SUFFICES ASSUME NEW i \in kept, w \notin stubbed PROVE block[k[2]] <= block[i[2]]
      OBVIOUS
    <3>1. block[k[2]] <= block[j[2]] /\ block[j[2]] <= block[i[2]]
      BY <1>2, <2>1
    <3>2. block[k[2]] \in Nat /\ block[j[2]] \in Nat /\ block[i[2]] \in Nat
      BY <1>2, <1>4, <2>2
    <3> HIDE DEF kept
    <3> QED
      BY <3>1, <3>2
  <2>4. Covering(k)' = kept
    BY <1>3, <1>7, <2>3
  <2>5. Cardinality(kept) = M
    BY <1>2, <2>1
  <2> HIDE DEF kept
  <2> QED
    BY <1>1, <1>4, <2>4, <2>5
<1>8. CASE /\ k[1] = w /\ k \notin kept
           /\ \A j \in CachedOf(w) \ kept : ~(w \in stubbed \/ block[k[2]] <= block[j[2]])
  <2>1. k \notin cache
    <3> SUFFICES ASSUME k \in cache PROVE FALSE
      OBVIOUS
    <3>1. k \in CachedOf(w) \ kept
      BY <1>8 DEF CachedOf
    <3> QED
      BY <1>4, <1>8, <3>1
  <2>2. Covering(k) \in SUBSET Covering(k)'
    BY <1>2, <1>3, <1>8 DEF Covering
  <2>3. Covering(k)' \in SUBSET Keys
    BY <1>2, <1>3, <1>8
  <2>4. Cardinality(Covering(k)) <= Cardinality(Covering(k)') /\ Cardinality(Covering(k)') \in Nat
    BY <2>2, <2>3, SightingsFinite
  <2> QED
    BY <1>1, <1>4, <2>1, <2>4 DEF Readable
<1> QED
  BY <1>5, <1>6, <1>7, <1>8
-------------------------------------------------------------------------------
(* The types of what publish() and the handler touch, and of the rest.       *)
QueueType ==
    /\ seen \in Seq(Keys) /\ Len(seen) <= SeenMax
    /\ pending \in Seq(Events)
    /\ stage \in Stages /\ event \in Keys \cup {NoKey} /\ dated \in BOOLEAN
    /\ stage = "idle" <=> event = NoKey
    /\ attempt \in 0 .. Attempts /\ (stage = "backoff" => attempt < Attempts)
    /\ inFlight = IF stage \in {"post", "answer", "backoff"} THEN {event} ELSE {}
    /\ handled \subseteq Keys

PollType ==
    /\ poll \in Polls /\ (poll.at = "hasTx" => poll.rows # {})
    /\ poll.at = "answered" => poll.row \in Keys

ReadType ==
    /\ reading \in [Wallets -> Reads]
    /\ \A w \in Wallets : reading[w].at = "upsert" => reading[w].rows # {}

ChainType ==
    /\ block \in [Txs -> Nat]
    /\ age \in [Keys -> {"future", "recent", "old"}]
    /\ wire \in [Keys -> 0 .. 2]

StoreType ==
    /\ delivered \in Seq(Keys) /\ Len(delivered) <= MaxRemembered
    /\ cache \subseteq Keys /\ stubs \subseteq {k \in cache : k[1] \in stubbed}
    /\ stubbed \subseteq Wallets /\ untrimmed \subseteq Wallets
    /\ received \in [Keys -> 0 .. 2]
    /\ crashes \in 0 .. MaxCrashes

LEMMA TypeParts ==
    /\ TypeOK <=> QueueType /\ PollType /\ ReadType /\ ChainType /\ StoreType
    /\ TypeOK' <=> QueueType' /\ PollType' /\ ReadType' /\ ChainType' /\ StoreType'
BY DEF TypeOK, QueueType, PollType, ReadType, ChainType, StoreType

LEMMA RememberType ==
    ASSUME NEW s \in Seq(Keys), NEW k \in Keys, NEW max \in Nat \ {0}, Len(s) <= max
    PROVE  /\ Remember(s, k, max) \in Seq(Keys) /\ Len(Remember(s, k, max)) <= max
           /\ \A j \in Elements(Remember(s, k, max)) : j = k \/ j \in Elements(s)
<1>1. CASE Len(s) < max
  BY <1>1 DEF Remember, Elements
<1>2. CASE Len(s) >= max
  BY <1>2 DEF Remember, Elements
<1> QED
  BY <1>1, <1>2

LEMMA PublishType ==
    ASSUME QueueType, NEW k \in Keys, NEW d \in BOOLEAN, Publish(k, d)
    PROVE  QueueType'
<1>1. CASE k \in Elements(seen)
  BY <1>1 DEF Publish, QueueType, queue
<1>2. CASE k \notin Elements(seen)
  <2>1. seen' \in Seq(Keys) /\ Len(seen') <= SeenMax
    <3>1. seen' = Remember(seen, k, SeenMax)
      BY <1>2 DEF Publish
    <3> QED
      BY <3>1, RememberType, DeliveryAssumption DEF QueueType
  <2>2. CASE stage = "idle"
    BY <1>2, <2>1, <2>2, NoKeyIsNoSighting DEF Publish, QueueType, Stages
  <2>3. CASE stage # "idle"
    <3>1. [key |-> k, dated |-> d] \in Events
      BY DEF Events
    <3>2. pending' \in Seq(Events)
      BY <1>2, <2>3, <3>1 DEF Publish, QueueType
    <3>3. UNCHANGED <<stage, event, dated, attempt, inFlight, handled>>
      BY <1>2, <2>3 DEF Publish
    <3> QED
      BY <2>1, <3>2, <3>3 DEF QueueType
  <2> QED
    BY <2>2, <2>3
<1> QED
  BY <1>1, <1>2

LEMMA FinishType ==
    ASSUME QueueType, stage # "idle", Finish
    PROVE  QueueType'
<1>1. event \in Keys /\ handled' \subseteq Keys
  BY DEF Finish, QueueType
<1>2. inFlight' = {} /\ attempt' = 0 /\ 0 \in 0 .. Attempts /\ 0 < Attempts
  BY DeliveryAssumption DEF Finish, QueueType
<1>3. CASE pending = <<>>
  BY <1>1, <1>2, <1>3 DEF Finish, QueueType, Stages
<1>4. CASE pending # <<>>
  <2>1. event' \in Keys /\ dated' \in BOOLEAN /\ stage' = "hasTx" /\ pending' \in Seq(Events)
    <3>1. Head(pending) \in Events /\ Tail(pending) \in Seq(Events)
      BY <1>4 DEF QueueType
    <3> QED
      BY <1>4, <3>1 DEF Finish, Events
  <2> QED
    BY <1>1, <1>2, <2>1, NoKeyIsNoSighting DEF Finish, QueueType, Stages
<1> QED
  BY <1>3, <1>4

LEMMA WakeType ==
    ASSUME QueueType, stage # "idle", Wake
    PROVE  QueueType'
<1>1. CASE Finish
  BY <1>1, FinishType
<1>2. CASE ~Finish
  <2>1. Notify
    BY <1>2 DEF Wake
  <2>2. event \in Keys /\ inFlight' = {event} /\ 1 \in 0 .. Attempts
    <3>1. event \in Keys
      BY DEF QueueType
    <3>2. inFlight \subseteq {event}
      BY DEF QueueType
    <3> QED
      BY <2>1, <3>1, <3>2, DeliveryAssumption DEF Notify
  <2>3. /\ stage' = "post" /\ attempt' = 1 /\ dated' = FALSE
        /\ UNCHANGED <<seen, pending, event, handled>>
    BY <2>1 DEF Notify
  <2> QED
    BY <2>2, <2>3, NoKeyIsNoSighting DEF QueueType, Stages
<1> QED
  BY <1>1, <1>2

(* The store keeps its types. *)
LEMMA StoreStepType ==
    ASSUME StoreType, UNCHANGED <<delivered, received, crashes>>,
           \/ \E k \in Keys, d \in BOOLEAN : Store(k, d)
           \/ \E w \in Wallets : Trimmed(w)
    PROVE  StoreType'
<1>1. ASSUME NEW k \in Keys, NEW d \in BOOLEAN, Store(k, d) PROVE StoreType'
  <2>1. k[1] \in Wallets
    BY DEF Keys
  <2> QED
    BY <1>1, <2>1 DEF Store, StoreType
<1>2. ASSUME NEW w \in Wallets, Trimmed(w) PROVE StoreType'
  <2>1. cache' \subseteq cache /\ stubs' = stubs \cap cache' /\ stubbed' = stubbed
        /\ untrimmed' = untrimmed \ {w}
    BY <1>2 DEF Trimmed, Newest, CachedOf
  <2> QED
    BY <2>1 DEF StoreType
<1> QED
  BY <1>1, <1>2

(* The three parts of the state a step of the handler may touch. *)
LEMMA HandlerType ==
    ASSUME QueueType, StoreType, HandlerStep
    PROVE  QueueType' /\ StoreType' /\ UNCHANGED <<chain, poll, reading>>
<1>1. CASE HandleHasTx
  <2>1. QueueType'
    BY <1>1, WakeType DEF HandleHasTx, Await, QueueType, Stages
  <2> QED
    BY <1>1, <2>1 DEF HandleHasTx, StoreType, chain, store
<1>2. CASE HandleEnriched
  BY <1>2 DEF HandleEnriched, QueueType, StoreType, Stages, store
<1>3. CASE HandleUpserted
  <2>1. QueueType'
    BY <1>3 DEF HandleUpserted, Await, QueueType, Stages
  <2>2. event \in Keys
    BY <1>3 DEF HandleUpserted, QueueType
  <2>3. StoreType'
    BY <1>3, <2>2, StoreStepType DEF HandleUpserted, QueueType
  <2> QED
    BY <1>3, <2>1, <2>3 DEF HandleUpserted
<1>4. CASE HandleTrimmed
  <2>1. QueueType'
    BY <1>4, WakeType DEF HandleTrimmed
  <2>2. event[1] \in Wallets
    BY <1>4 DEF HandleTrimmed, QueueType, Keys
  <2> QED
    BY <1>4, <2>1, <2>2, StoreStepType DEF HandleTrimmed
<1>5. CASE PostTaken
  <2>1. QueueType'
    BY <1>5 DEF PostTaken, Await, QueueType, Stages
  <2>2. received' \in [Keys -> 0 .. 2]
    BY <1>5 DEF PostTaken, QueueType, StoreType
  <2> QED
    BY <1>5, <2>1, <2>2 DEF PostTaken, StoreType, store
<1>6. CASE PostAnswered
  <2>1. QueueType' /\ event \in Keys
    BY <1>6, FinishType DEF PostAnswered, QueueType
  <2>2. delivered' \in Seq(Keys) /\ Len(delivered') <= MaxRemembered
    BY <1>6, <2>1, RememberType, DeliveryAssumption DEF PostAnswered, StoreType
  <2> QED
    BY <1>6, <2>1, <2>2 DEF PostAnswered, StoreType, store
<1>7. CASE PostRefused
  BY <1>7, FinishType DEF PostRefused, StoreType, store
<1>8. CASE PostFails
  <2>1. QueueType'
    BY <1>8, FinishType, DeliveryAssumption DEF PostFails, Await, QueueType, Stages
  <2> QED
    BY <1>8, <2>1 DEF PostFails, StoreType, store
<1>9. CASE PostAgain
  <2>1. attempt' \in 0 .. Attempts
    BY <1>9, DeliveryAssumption DEF PostAgain, QueueType
  <2> QED
    BY <1>9, <2>1 DEF PostAgain, QueueType, StoreType, store, Stages
<1> QED
  BY <1>1, <1>2, <1>3, <1>4, <1>5, <1>6, <1>7, <1>8, <1>9 DEF HandlerStep
LEMMA NextRowType ==
    ASSUME NEW todo \in SUBSET Wallets, NEW rows \in SUBSET Keys
    PROVE  /\ NextRow(todo, rows) \in Polls
           /\ NextRow(todo, rows).at = "hasTx" => NextRow(todo, rows).rows # {}
           /\ NextRow(todo, rows).at # "answered"
BY DEF NextRow, Polls

(* The poll's own variable; it publishes a sighting of its rows or nothing.  *)
LEMMA PollStepType ==
    ASSUME PollType, QueueType, PollStep
    PROVE  /\ PollType' /\ QueueType' /\ UNCHANGED <<chain, delivered, store, reading, received, crashes>>
           /\ UNCHANGED queue \/ \E k \in Keys : Publish(k, TRUE)
<1>1. CASE PollTick
  BY <1>1 DEF PollTick, PollType, Polls, IdlePoll, QueueType, queue
<1>2. CASE PollListed
  <2>1. PollType'
    BY <1>2, NextRowType DEF PollListed, PollType
  <2> QED
    BY <1>2, <2>1 DEF PollListed, QueueType, queue
<1>3. CASE PollHasTx
  <2>1. PollType'
    <3>1. PICK k \in Leading(poll.rows) :
            poll' = [poll EXCEPT !.at = "answered", !.rows = @ \ {k}, !.row = k,
                                 !.known = k \in cache]
      BY <1>3 DEF PollHasTx
    <3> DEFINE b == k \in cache
    <3>2. b \in BOOLEAN /\ k \in Keys /\ poll.rows \ {k} \in SUBSET Keys
      BY DEF Leading, PollType, Polls
    <3>3. poll' = [poll EXCEPT !.at = "answered", !.rows = poll.rows \ {k}, !.row = k, !.known = b]
      BY <3>1
    <3> HIDE DEF b
    <3> QED
      BY <3>2, <3>3 DEF PollType, Polls
  <2> QED
    BY <1>3, <2>1 DEF PollHasTx, QueueType, queue
<1>4. CASE PollPublishes
  <2>1. poll.rows \in SUBSET Keys /\ poll.row \in Keys /\ poll.todo \in SUBSET Wallets
    BY <1>4 DEF PollPublishes, PollType, Polls
  <2>2. PollType'
    <3>1. poll' = NextRow(poll.todo, poll.rows)
      BY <1>4 DEF PollPublishes
    <3> QED
      BY <2>1, <3>1, NextRowType DEF PollType
  <2>3. UNCHANGED queue \/ Publish(poll.row, TRUE)
    BY <1>4 DEF PollPublishes
  <2>4. QueueType'
    BY <2>1, <2>3, PublishType DEF QueueType, queue
  <2> QED
    BY <1>4, <2>1, <2>2, <2>3, <2>4 DEF PollPublishes
<1>5. ASSUME NEW w \in Wallets, NEW rows \in Fetched(w, PollLimit), PollFetched(w, rows)
      PROVE  PollType' /\ UNCHANGED <<chain, queue, delivered, store, reading, received, crashes>>
  <2>1. rows \in SUBSET Keys
    BY FetchedType, DeliveryAssumption
  <2>2. poll.todo \ {w} \in SUBSET Wallets /\ poll' = NextRow(poll.todo \ {w}, rows)
    BY <1>5 DEF PollFetched, PollType, Polls
  <2>3. PollType'
    BY <2>1, <2>2, NextRowType DEF PollType
  <2> QED
    BY <1>5, <2>3 DEF PollFetched
<1> QED
  BY <1>1, <1>2, <1>3, <1>4, <1>5 DEF PollStep, QueueType, queue

(* A history read touches its own variable and the store. *)
LEMMA UnreadType ==
    ASSUME NEW rows \in SUBSET Keys
    PROVE  /\ Unread(rows) \in Reads
           /\ Unread(rows).at = "upsert" => Unread(rows).rows # {}
BY DEF Unread, Reads

LEMMA ReadStepType ==
    ASSUME ReadType, StoreType, NEW w \in Wallets, ReadStep(w)
    PROVE  /\ ReadType' /\ StoreType'
           /\ UNCHANGED <<chain, queue, delivered, poll, received, crashes>>
           /\ \/ UNCHANGED <<cache, stubs, stubbed>>
              \/ \E k \in Keys : Store(k, TRUE)
              \/ Trimmed(w)
<1>1. CASE ReadFetched(w)
  <2>1. PICK rows \in Fetched(w, MaxTxsPerWallet) : reading' = [reading EXCEPT ![w] = Unread(rows)]
    BY <1>1 DEF ReadFetched
  <2>2. rows \in SUBSET Keys
    BY FetchedType, DeliveryAssumption
  <2>3. ReadType'
    BY <2>1, <2>2, UnreadType DEF ReadType
  <2> QED
    BY <1>1, <2>3 DEF ReadFetched, StoreType, store
<1>2. CASE ReadUpserted(w)
  <2>1. PICK k \in Leading(reading[w].rows) :
            Store(k, TRUE) /\ reading' = [reading EXCEPT ![w] = Unread(@.rows \ {k})]
    BY <1>2 DEF ReadUpserted
  <2>2. reading[w].rows \in SUBSET Keys /\ k \in Keys
    BY DEF Leading, ReadType, Reads
  <2>3. ReadType'
    <3>1. reading[w].rows \ {k} \in SUBSET Keys
      BY <2>2
    <3> QED
      BY <2>1, <3>1, UnreadType DEF ReadType
  <2>4. StoreType'
    BY <1>2, <2>1, <2>2, StoreStepType DEF ReadUpserted
  <2> QED
    BY <1>2, <2>1, <2>2, <2>3, <2>4 DEF ReadUpserted
<1>3. CASE ReadTrimmed(w)
  <2>1. ReadType'
    BY <1>3 DEF ReadTrimmed, ReadType, NoRead, Reads
  <2>2. StoreType'
    BY <1>3, StoreStepType DEF ReadTrimmed
  <2> QED
    BY <1>3, <2>1, <2>2 DEF ReadTrimmed
<1>4. CASE ReadFails(w)
  BY <1>4 DEF ReadFails, ReadType, NoRead, Reads, StoreType
<1> QED
  BY <1>1, <1>2, <1>3, <1>4 DEF ReadStep
LEMMA ChainStepType ==
    ASSUME TypeOK, NEW k \in Keys, Happens(k) \/ Ages(k) \/ WsMessage(k)
    PROVE  /\ TypeOK' /\ UNCHANGED <<delivered, poll, store, reading, received, crashes>>
           /\ UNCHANGED queue \/ Publish(k, FALSE)
<1>1. CASE Happens(k)
  <2>1. ChainType'
    <3>1. PICK n \in 0 .. MaxMessages : wire' = [wire EXCEPT ![k] = n]
      BY <1>1 DEF Happens
    <3>2. n \in 0 .. 2
      BY DeliveryAssumption
    <3> QED
      BY <1>1, <3>1, <3>2, TypeParts DEF Happens, ChainType
  <2> QED
    BY <1>1, <2>1, TypeParts DEF Happens, queue, store, QueueType, PollType, ReadType, StoreType
<1>2. CASE Ages(k)
  <2>1. ChainType'
    BY <1>2, TypeParts DEF Ages, ChainType
  <2> QED
    BY <1>2, <2>1, TypeParts DEF Ages, queue, store, QueueType, PollType, ReadType, StoreType
<1>3. CASE WsMessage(k)
  <2>1. ChainType'
    BY <1>3, TypeParts DEF WsMessage, ChainType
  <2>2. QueueType' /\ Publish(k, FALSE)
    BY <1>3, TypeParts, PublishType DEF WsMessage
  <2> QED
    BY <1>3, <2>1, <2>2, TypeParts DEF WsMessage, store, PollType, ReadType, StoreType
<1> QED
  BY <1>1, <1>2, <1>3

(* The queue of a process that has just been started. *)
LEMMA EmptyQueueType ==
    /\ /\ seen = <<>> /\ pending = <<>> /\ stage = "idle" /\ attempt = 0
       /\ event = NoKey /\ dated = FALSE /\ inFlight = {} /\ handled = {}
       => QueueType
    /\ /\ seen' = <<>> /\ pending' = <<>> /\ stage' = "idle" /\ attempt' = 0
       /\ event' = NoKey /\ dated' = FALSE /\ inFlight' = {} /\ handled' = {}
       => QueueType'
<1>1. <<>> \in Seq(Keys) /\ <<>> \in Seq(Events) /\ Len(<<>>) = 0
  OBVIOUS
<1>2. 0 <= SeenMax /\ 0 \in 0 .. Attempts
  BY DeliveryAssumption
<1> QED
  BY <1>1, <1>2 DEF QueueType, Stages

LEMMA TypeInit == Init => TypeOK
<1> SUFFICES ASSUME Init PROVE TypeOK
  OBVIOUS
<1>1. QueueType /\ ChainType
  <2>1. QueueType
    BY EmptyQueueType DEF Init
  <2>2. ChainType
    BY DeliveryAssumption DEF Init, ChainType
  <2> QED
    BY <2>1, <2>2
<1>2. PollType /\ ReadType /\ StoreType
  BY DeliveryAssumption DEF Init, PollType, ReadType, StoreType, IdlePoll, NoRead, Polls, Reads
<1> QED
  BY <1>1, <1>2, TypeParts

LEMMA CrashType == TypeOK /\ Crash => TypeOK'
<1> SUFFICES ASSUME TypeOK, Crash PROVE TypeOK'
  OBVIOUS
<1>1. QueueType' /\ ChainType'
  <2>1. QueueType'
    BY EmptyQueueType DEF Crash
  <2>2. ChainType'
    BY TypeParts DEF Crash, ChainType
  <2> QED
    BY <2>1, <2>2
<1>2. PollType' /\ ReadType' /\ StoreType'
  BY TypeParts, DeliveryAssumption
     DEF Crash, PollType, ReadType, StoreType, IdlePoll, NoRead, Polls, Reads
<1> QED
  BY <1>1, <1>2, TypeParts

LEMMA TypeNext == TypeOK /\ [Next]_vars => TypeOK'
<1> SUFFICES ASSUME TypeOK, [Next]_vars PROVE TypeOK'
  OBVIOUS
<1>1. ASSUME NEW k \in Keys, Happens(k) \/ Ages(k) \/ WsMessage(k)
      PROVE  TypeOK'
  BY <1>1, ChainStepType
<1>2. CASE HandlerStep
  BY <1>2, HandlerType, TypeParts DEF PollType, ReadType, ChainType, chain
<1>3. CASE PollStep
  BY <1>3, PollStepType, TypeParts DEF ReadType, ChainType, StoreType, chain, store
<1>4. ASSUME NEW w \in Wallets, ReadStep(w)
      PROVE  TypeOK'
  BY <1>4, ReadStepType, TypeParts DEF QueueType, PollType, ChainType, chain, queue
<1>5. CASE Crash
  BY <1>5, CrashType
<1>6. CASE UNCHANGED vars
  BY <1>6 DEF TypeOK, vars, chain, queue, store
<1> QED
  BY <1>1, <1>2, <1>3, <1>4, <1>5, <1>6 DEF Next

(* Every variable keeps its type, a loop that is at a row has one, and the   *)
(* notifier has in flight exactly the event it posts (queue.ts,              *)
(* backend-events.ts, poll.ts).                                              *)
THEOREM TypeCorrect == Spec => []TypeOK
BY TypeInit, TypeNext, PTL DEF Spec
-------------------------------------------------------------------------------
(* A step of the handler goes on with its event or finishes it. *)
LEMMA HandlerGoesOnOrFinishes ==
    ASSUME HandlerStep
    PROVE  /\ stage # "idle"
           /\ \/ Finish
              \/ UNCHANGED <<seen, pending, event, handled>> /\ stage' # "idle"
BY DEF HandlerStep, HandleHasTx, HandleEnriched, HandleUpserted, HandleTrimmed,
       PostTaken, PostAnswered, PostRefused, PostFails, PostAgain, Await, Wake, Notify

LEMMA PublishLosesNothing ==
    ASSUME QueueType, NothingLost, NEW k \in Keys, NEW d \in BOOLEAN, Publish(k, d)
    PROVE  NothingLost'
<1>1. CASE k \in Elements(seen)
  BY <1>1 DEF Publish, NothingLost, Waiting, queue
<1>2. CASE k \notin Elements(seen)
  <2>1. \A j \in Elements(seen') : j = k \/ j \in Elements(seen)
    <3>1. seen' = Remember(seen, k, SeenMax)
      BY <1>2 DEF Publish
    <3> QED
      BY <3>1, RememberType, DeliveryAssumption DEF QueueType
  <2>2. CASE stage = "idle"
    <3>1. /\ event = NoKey /\ event' = k /\ stage' = "hasTx"
          /\ pending' = pending /\ handled' = handled
      BY <1>2, <2>2 DEF Publish, QueueType
    <3>2. Elements(seen) \in SUBSET Keys
      BY DEF QueueType, Elements
    <3>3. \A j \in Elements(seen) : j # NoKey
      BY <3>2, NoKeyIsNoSighting
    <3> QED
      BY <2>1, <3>1, <3>3 DEF NothingLost, Waiting
  <2>3. CASE stage # "idle"
    <3> DEFINE e == [key |-> k, dated |-> d]
    <3>1. /\ pending' = Append(pending, e) /\ UNCHANGED <<event, stage, handled>>
          /\ pending \in Seq(Events) /\ e.key = k
      BY <1>2, <2>3 DEF Publish, QueueType
    <3>2. Elements(pending') = Elements(pending) \cup {e}
      <4> HIDE DEF e
      <4> QED
        BY <3>1 DEF Elements
    <3>3. Waiting' = Waiting \cup {k}
      BY <3>1, <3>2 DEF Waiting
    <3> QED
      BY <2>1, <2>3, <3>1, <3>3 DEF NothingLost
  <2> QED
    BY <2>2, <2>3
<1> QED
  BY <1>1, <1>2

(* The pump takes the first of what waits. *)
LEMMA FinishTakesTheFirst ==
    ASSUME QueueType, Finish, pending # <<>>
    PROVE  /\ Elements(pending) = {Head(pending)} \cup Elements(pending')
           /\ event' = Head(pending).key /\ dated' = Head(pending).dated
           /\ Head(pending) \in Events
<1>1. pending' = Tail(pending) /\ event' = Head(pending).key /\ dated' = Head(pending).dated
  BY DEF Finish
<1>2. pending \in Seq(Events) /\ Len(pending) \in Nat \ {0}
  BY DEF QueueType
<1>3. /\ Head(pending) = pending[1] /\ Len(Tail(pending)) = Len(pending) - 1
      /\ \A i \in 1 .. Len(pending) - 1 : Tail(pending)[i] = pending[i + 1]
      /\ Head(pending) \in Events
  BY <1>2
<1>4. \A i \in 1 .. Len(pending) : i = 1 \/ (i - 1 \in 1 .. Len(pending) - 1 /\ (i - 1) + 1 = i)
  BY <1>2
<1>5. (\A i \in 1 .. Len(pending) - 1 : i + 1 \in 1 .. Len(pending)) /\ 1 \in 1 .. Len(pending)
  BY <1>2
<1> QED
  BY <1>1, <1>3, <1>4, <1>5 DEF Elements

LEMMA FinishLosesNothing ==
    ASSUME QueueType, NothingLost, Finish
    PROVE  NothingLost'
<1>1. CASE pending = <<>>
  <2>1. Waiting = {} /\ pending' = <<>> /\ seen' = seen
    BY <1>1 DEF Elements, Waiting, Finish
  <2> QED
    BY <2>1 DEF Finish, NothingLost
<1>2. CASE pending # <<>>
  <2>1. stage' = "hasTx" /\ handled' = handled \cup {event} /\ seen' = seen
    BY <1>2 DEF Finish
  <2>2. Waiting = {event'} \cup Waiting'
    BY <1>2, FinishTakesTheFirst DEF Waiting
  <2> QED
    BY <2>1, <2>2 DEF NothingLost
<1> QED
  BY <1>1, <1>2

LEMMA NothingLostNext ==
    TypeOK /\ NothingLost /\ [Next]_vars => NothingLost'
<1> SUFFICES ASSUME TypeOK, NothingLost, [Next]_vars PROVE NothingLost'
  OBVIOUS
<1>1. QueueType /\ PollType /\ ReadType /\ StoreType
  BY TypeParts
<1>2. CASE UNCHANGED queue
  BY <1>2 DEF NothingLost, Waiting, queue
<1>3. ASSUME NEW k \in Keys, NEW d \in BOOLEAN, Publish(k, d) PROVE NothingLost'
  BY <1>1, <1>3, PublishLosesNothing
<1>4. CASE HandlerStep
  <2>1. CASE Finish
    BY <1>1, <2>1, FinishLosesNothing
  <2>2. CASE UNCHANGED <<seen, pending, event, handled>> /\ stage' # "idle"
    BY <2>2 DEF NothingLost, Waiting
  <2> QED
    BY <1>4, <2>1, <2>2, HandlerGoesOnOrFinishes
<1>5. CASE PollStep
  BY <1>1, <1>2, <1>3, <1>5, PollStepType
<1>6. ASSUME NEW k \in Keys, Happens(k) \/ Ages(k) \/ WsMessage(k) PROVE NothingLost'
  BY <1>2, <1>3, <1>6, ChainStepType
<1>7. ASSUME NEW w \in Wallets, ReadStep(w) PROVE NothingLost'
  BY <1>1, <1>2, <1>7, ReadStepType
<1>8. CASE Crash
  BY <1>8 DEF Crash, NothingLost, Elements
<1>9. CASE UNCHANGED vars
  BY <1>2, <1>9 DEF vars
<1> QED
  BY <1>4, <1>5, <1>6, <1>7, <1>8, <1>9 DEF Next

(* The queue loses no sighting: one it refuses as a duplicate is finished,   *)
(* being worked on or still queued, and a queue that holds something has a   *)
(* pump (queue.ts, publish and pump).                                        *)
THEOREM SightingsAreNotLost == Spec => []NothingLost
<1>1. Init => NothingLost
  BY DEF Init, NothingLost, Elements
<1> QED
  BY <1>1, NothingLostNext, TypeCorrect, PTL DEF Spec
-------------------------------------------------------------------------------
(* The event past its upsert can be read: what is posted next is. *)
EventReadable == stage \in {"trim", "post", "answer", "backoff"} => Readable(event)

ReadableInv == AnnouncedIsReadable /\ EventReadable

(* What a step may do to the store: store more, or trim one wallet. *)
StoresOrTrims ==
    /\ UNCHANGED block
    /\ \/ cache \subseteq cache' /\ stubbed \subseteq stubbed'
       \/ \E w \in Wallets : Trimmed(w)

LEMMA StoreKeepsReadable ==
    ASSUME TypeOK, TypeOK', StoresOrTrims, NEW k \in Keys, Readable(k)
    PROVE  Readable(k)'
BY StoringKeepsReadable, TrimKeepsReadable DEF StoresOrTrims

(* What is stored can be read. *)
LEMMA StoredIsReadable == \A k \in cache : Readable(k)
BY DEF Readable

(* A step that announces nothing but the event of a readable stage, and goes *)
(* to no readable stage with another, keeps the invariant.                   *)
LEMMA ReadableStep ==
    ASSUME TypeOK, TypeOK', ReadableInv, StoresOrTrims,
           \A k \in Keys : k \in handled' \/ received'[k] > 0 =>
               k \in handled \/ received[k] > 0 \/ Readable(k),
           stage' \in {"trim", "post", "answer", "backoff"} =>
               event' \in Keys /\ (Readable(event') \/ event' \in cache')
    PROVE  ReadableInv'
<1>1. \A k \in Keys : Readable(k) => Readable(k)'
  BY StoreKeepsReadable
<1>2. AnnouncedIsReadable'
  BY <1>1 DEF ReadableInv, AnnouncedIsReadable
<1>3. EventReadable'
  <2> SUFFICES ASSUME stage' \in {"trim", "post", "answer", "backoff"} PROVE Readable(event)'
    BY DEF EventReadable
  <2>1. CASE event' \in cache'
    BY <2>1 DEF Readable
  <2>2. CASE Readable(event') /\ event' \in Keys
    <3> DEFINE Rest(k) == {j \in cache' : j[1] = k[1]} \ {k}
               Ok(k) == k \in cache' \/ Cardinality({j \in Rest(k) :
                            k[1] \in stubbed' \/ block'[k[2]] <= block'[j[2]]}) >= MaxTxsPerWallet
    <3>1. Readable(event)' <=> Ok(event')
      BY DEF Readable, Covering, CachedOf
    <3>2. \A k \in Keys : Readable(k)' <=> Ok(k)
      BY DEF Readable, Covering, CachedOf
    <3> HIDE DEF Ok
    <3> QED
      BY <1>1, <2>2, <3>1, <3>2
  <2> QED
    BY <2>1, <2>2
<1> QED
  BY <1>2, <1>3 DEF ReadableInv

(* What the steps of the handler do to the store. *)
LEMMA HandlerStores ==
    ASSUME TypeOK, HandlerStep
    PROVE  StoresOrTrims
<1>1. event \in Keys /\ event[1] \in Wallets
  BY HandlerGoesOnOrFinishes DEF TypeOK, Keys
<1>2. UNCHANGED block
  BY DEF HandlerStep, HandleHasTx, HandleEnriched, HandleUpserted, HandleTrimmed,
         PostTaken, PostAnswered, PostRefused, PostFails, PostAgain, chain
<1>3. CASE HandleUpserted
  BY <1>2, <1>3 DEF HandleUpserted, Store, StoresOrTrims
<1>4. CASE HandleTrimmed
  BY <1>1, <1>2, <1>4 DEF HandleTrimmed, StoresOrTrims
<1>5. CASE ~HandleUpserted /\ ~HandleTrimmed
  <2>1. UNCHANGED store
    BY <1>5 DEF HandlerStep, HandleHasTx, HandleEnriched,
         PostTaken, PostAnswered, PostRefused, PostFails, PostAgain
  <2> QED
    BY <1>2, <2>1 DEF StoresOrTrims, store
<1> QED
  BY <1>3, <1>4, <1>5

LEMMA HandlerKeepsReadable ==
    ASSUME TypeOK, TypeOK', ReadableInv, HandlerStep
    PROVE  ReadableInv'
<1> DEFINE Past == {"trim", "post", "answer", "backoff"}
<1>1. /\ stage # "idle" /\ event \in Keys /\ event' \in Keys \cup {NoKey}
      /\ received \in [Keys -> 0 .. 2]
      /\ stage \in Past => Readable(event)
      /\ StoresOrTrims
      /\ stage' \in Past => event' \in Keys
  BY HandlerGoesOnOrFinishes, HandlerStores DEF TypeOK, ReadableInv, EventReadable
<1>2. CASE Finish /\ UNCHANGED received /\ Readable(event)
  <2>1. /\ \A k \in Keys : k \in handled' => k \in handled \/ k = event
        /\ stage' \notin Past
    BY <1>2 DEF Finish
  <2> QED
    BY <1>1, <1>2, <2>1, ReadableStep
<1>3. CASE /\ handled' = handled /\ event' = event /\ UNCHANGED received
           /\ stage' \in Past => Readable(event) \/ event \in cache'
  BY <1>1, <1>3, ReadableStep
<1>4. CASE HandleHasTx
  BY <1>1, <1>2, <1>3, <1>4, StoredIsReadable DEF HandleHasTx, Wake, Notify, Await
<1>5. CASE HandleEnriched
  BY <1>3, <1>5 DEF HandleEnriched
<1>6. CASE HandleUpserted
  BY <1>3, <1>6 DEF HandleUpserted, Await, Store
<1>7. CASE HandleTrimmed
  BY <1>1, <1>2, <1>3, <1>7 DEF HandleTrimmed, Wake, Notify
<1>8. CASE PostTaken
  <2>1. /\ handled' = handled /\ event' = event /\ Readable(event)
        /\ received' = [received EXCEPT ![event] = IF @ < 2 THEN @ + 1 ELSE @]
    BY <1>1, <1>8 DEF PostTaken, Await
  <2>2. \A k \in Keys : k # event => received'[k] = received[k]
    BY <1>1, <2>1
  <2> QED
    BY <1>1, <2>1, <2>2, ReadableStep
<1>9. CASE PostAnswered
  BY <1>1, <1>2, <1>9 DEF PostAnswered
<1>10. CASE PostRefused
  BY <1>1, <1>2, <1>10 DEF PostRefused
<1>11. CASE PostFails
  BY <1>1, <1>2, <1>3, <1>11 DEF PostFails, Await
<1>12. CASE PostAgain
  BY <1>1, <1>3, <1>12 DEF PostAgain
<1> QED
  BY <1>4, <1>5, <1>6, <1>7, <1>8, <1>9, <1>10, <1>11, <1>12 DEF HandlerStep

LEMMA ReadableNext ==
    TypeOK /\ TypeOK' /\ ReadableInv /\ [Next]_vars => ReadableInv'
<1> SUFFICES ASSUME TypeOK, TypeOK', ReadableInv, [Next]_vars PROVE ReadableInv'
  OBVIOUS
<1>1. QueueType /\ PollType /\ ReadType /\ StoreType
  BY TypeParts
<1>2. ASSUME UNCHANGED queue \/ \E k \in Keys, d \in BOOLEAN : Publish(k, d),
             UNCHANGED received, StoresOrTrims
      PROVE  ReadableInv'
  <2>1. /\ handled' = handled
        /\ \/ UNCHANGED <<stage, event>>
           \/ stage' = "hasTx"
    BY <1>2 DEF Publish, queue
  <2>2. stage \in {"trim", "post", "answer", "backoff"} => event \in Keys /\ Readable(event)
    BY DEF TypeOK, ReadableInv, EventReadable
  <2> QED
    BY <1>2, <2>1, <2>2, ReadableStep
<1>3. CASE HandlerStep
  BY <1>3, HandlerKeepsReadable
<1>4. CASE PollStep
  <2>1. StoresOrTrims
    BY <1>1, <1>4, PollStepType DEF StoresOrTrims, chain, store
  <2> QED
    BY <1>1, <1>2, <1>4, <2>1, PollStepType
<1>5. ASSUME NEW k \in Keys, Happens(k) \/ Ages(k) \/ WsMessage(k) PROVE ReadableInv'
  <2>1. UNCHANGED block
    BY <1>5 DEF Happens, Ages, WsMessage
  <2>2. StoresOrTrims
    BY <1>5, <2>1, ChainStepType DEF StoresOrTrims, store
  <2> QED
    BY <1>2, <1>5, <2>2, ChainStepType
<1>6. ASSUME NEW w \in Wallets, ReadStep(w) PROVE ReadableInv'
  <2>1. StoresOrTrims
    BY <1>1, <1>6, ReadStepType DEF StoresOrTrims, chain, Store
  <2> QED
    BY <1>1, <1>2, <1>6, <2>1, ReadStepType
<1>7. CASE Crash
  <2>1. StoresOrTrims
    BY <1>7 DEF Crash, StoresOrTrims
  <2> QED
    BY <1>7, <2>1, ReadableStep DEF Crash
<1>8. CASE UNCHANGED vars
  <2>1. StoresOrTrims
    BY <1>8 DEF StoresOrTrims, vars, chain, store
  <2> QED
    BY <1>2, <1>8, <2>1 DEF vars
<1> QED
  BY <1>3, <1>4, <1>5, <1>6, <1>7, <1>8 DEF Next

(* What the consumer has finished with or told the backend of is stored, or  *)
(* a full set of others of its wallet is, none of them older unless the      *)
(* wallet ever held a stub, whichever of tied rows the trims keep, whatever  *)
(* history reads store and trim in between and whichever queries fail        *)
(* (consumer.ts, history.ts, trim).                                          *)
THEOREM AnnouncedCanBeRead == Spec => []AnnouncedIsReadable
<1>1. Init => ReadableInv
  BY DEF Init, ReadableInv, AnnouncedIsReadable, EventReadable
<1>2. ReadableInv => AnnouncedIsReadable
  BY DEF ReadableInv
<1> QED
  BY <1>1, <1>2, ReadableNext, TypeCorrect, PTL DEF Spec
-------------------------------------------------------------------------------
(* A history read holds rows of its own wallet. *)
OwnRows == \A w \in Wallets : \A k \in reading[w].rows : k[1] = w

CapInv == CacheCapped /\ OwnRows

(* A step that gives a wallet no row, and takes none of its writers away     *)
(* without a trim or marking the wallet, keeps the cap.                      *)
LEMMA CapStep ==
    ASSUME CacheCapped,
           \A w \in Wallets : \/ Writing(w)'
                              \/ w \in untrimmed'
                              \/ Cardinality(CachedOf(w)') <= MaxTxsPerWallet
                              \/ CachedOf(w)' = CachedOf(w) /\ ~Writing(w) /\ w \notin untrimmed
    PROVE  CacheCapped'
BY DEF CacheCapped

LEMMA HandlerCap ==
    ASSUME TypeOK, CapInv, HandlerStep
    PROVE  CapInv'
<1>1. stage # "idle" /\ event \in Keys /\ event[1] \in Wallets /\ MaxTxsPerWallet \in Nat
  BY HandlerGoesOnOrFinishes, DeliveryAssumption DEF TypeOK, Keys
<1>2. reading' = reading
  BY DEF HandlerStep, HandleHasTx, HandleEnriched, HandleUpserted, HandleTrimmed,
         PostTaken, PostAnswered, PostRefused, PostFails, PostAgain
<1>3. CASE HandleUpserted
  <2>1. /\ \A w \in Wallets \ {event[1]} : CachedOf(w)' = CachedOf(w)
        /\ stage' = "trim" /\ event' = event /\ stage = "upsert" /\ untrimmed' = untrimmed
    BY <1>3 DEF HandleUpserted, Await, CachedOf, Store
  <2>2. \A w \in Wallets :
            Writing(w)' \/ w \in untrimmed' \/ (CachedOf(w)' = CachedOf(w) /\ ~Writing(w) /\ w \notin untrimmed)
    BY <1>2, <2>1 DEF Writing
  <2> QED
    BY <1>2, <2>2, CapStep DEF CapInv, OwnRows
<1>4. CASE HandleTrimmed
  <2>1. PICK v \in Wallets : v = event[1]
    BY <1>1
  <2>2. stage = "trim" /\ Trimmed(v)
    BY <1>4, <2>1 DEF HandleTrimmed
  <2>3. \A w \in Wallets \ {v} : Writing(w) => Writing(w)'
    BY <1>2, <2>1, <2>2 DEF Writing
  <2>4. Cardinality(CachedOf(v)') <= MaxTxsPerWallet
    <3>1. Cardinality(CachedOf(v)') \in 0 .. MaxTxsPerWallet
      BY <2>2, TrimKeeps
    <3> QED
      BY <1>1, <3>1
  <2>5. /\ \A w \in Wallets \ {v} : CachedOf(w)' = CachedOf(w)
        /\ untrimmed' = untrimmed \ {v}
    BY <2>2, TrimKeeps
  <2>6. \A w \in Wallets : \/ Writing(w)' \/ w \in untrimmed'
                           \/ Cardinality(CachedOf(w)') <= MaxTxsPerWallet
                           \/ CachedOf(w)' = CachedOf(w) /\ ~Writing(w) /\ w \notin untrimmed
    BY <2>3, <2>4, <2>5
  <2> QED
    BY <1>2, <2>6, CapStep DEF CapInv, OwnRows
<1>5. CASE ~HandleUpserted /\ ~HandleTrimmed
  <2>1. UNCHANGED store /\ stage # "trim"
    BY <1>5 DEF HandlerStep, HandleHasTx, HandleEnriched,
         PostTaken, PostAnswered, PostRefused, PostFails, PostAgain
  <2>2. \A w \in Wallets : Writing(w) => Writing(w)'
    BY <1>2, <2>1 DEF Writing
  <2>3. \A w \in Wallets : CachedOf(w)' = CachedOf(w) /\ untrimmed' = untrimmed
    BY <2>1 DEF CachedOf, store
  <2>4. \A w \in Wallets : \/ Writing(w)' \/ w \in untrimmed'
                           \/ CachedOf(w)' = CachedOf(w) /\ ~Writing(w) /\ w \notin untrimmed
    BY <2>2, <2>3
  <2> QED
    BY <1>2, <2>4, CapStep DEF CapInv, OwnRows
<1> QED
  BY <1>3, <1>4, <1>5

LEMMA ReadCap ==
    ASSUME TypeOK, CapInv, NEW w \in Wallets, ReadStep(w)
    PROVE  CapInv'
<1>1. UNCHANGED <<stage, event>> /\ MaxTxsPerWallet \in Nat
  BY DeliveryAssumption DEF ReadStep, ReadFetched, ReadUpserted, ReadTrimmed, ReadFails, queue
<1>2. /\ reading \in [Wallets -> Reads]
      /\ \A v \in Wallets \ {w} : reading'[v] = reading[v]
  BY DEF ReadStep, ReadFetched, ReadUpserted, ReadTrimmed, ReadFails, TypeOK
<1>3. \A v \in Wallets \ {w} : Writing(v) => Writing(v)'
  BY <1>1, <1>2 DEF Writing
<1>4. CASE ReadFetched(w)
  <2>1. PICK rows \in Fetched(w, MaxTxsPerWallet) : reading' = [reading EXCEPT ![w] = Unread(rows)]
    BY <1>4 DEF ReadFetched
  <2>2. (\A k \in rows : k[1] = w) /\ UNCHANGED <<cache, untrimmed>>
    BY <1>1, <1>4, FetchedType DEF ReadFetched, store
  <2>3. reading'[w] = Unread(rows) /\ Unread(rows).rows = rows /\ Unread(rows).at # "idle"
    BY <1>2, <2>1 DEF Unread
  <2>4. OwnRows'
    BY <1>2, <2>2, <2>3 DEF CapInv, OwnRows
  <2>5. \A v \in Wallets : \/ Writing(v)' \/ v \in untrimmed'
                           \/ CachedOf(v)' = CachedOf(v) /\ ~Writing(v) /\ v \notin untrimmed
    BY <1>3, <2>2, <2>3 DEF Writing, CachedOf
  <2> QED
    BY <2>4, <2>5, CapStep DEF CapInv
<1>5. CASE ReadUpserted(w)
  <2>1. PICK k \in Leading(reading[w].rows) :
            Store(k, TRUE) /\ reading' = [reading EXCEPT ![w] = Unread(@.rows \ {k})]
    BY <1>5 DEF ReadUpserted
  <2> DEFINE rest == reading[w].rows \ {k}
  <2>2. k \in reading[w].rows
    BY DEF Leading
  <2>3. cache' = cache \cup {k} /\ reading'[w] = Unread(rest) /\ untrimmed' = untrimmed
    BY <1>2, <2>1 DEF Store
  <2>4. Unread(rest).rows = rest /\ Unread(rest).at # "idle" /\ k[1] = w
    BY <2>2 DEF Unread, CapInv, OwnRows
  <2>5. OwnRows'
    BY <1>2, <2>3, <2>4 DEF CapInv, OwnRows
  <2>6. Writing(w)' /\ \A v \in Wallets \ {w} : CachedOf(v)' = CachedOf(v)
    BY <2>3, <2>4 DEF Writing, CachedOf
  <2>7. \A v \in Wallets : \/ Writing(v)' \/ v \in untrimmed'
                           \/ CachedOf(v)' = CachedOf(v) /\ ~Writing(v) /\ v \notin untrimmed
    BY <1>3, <2>3, <2>6
  <2> QED
    BY <2>5, <2>7, CapStep DEF CapInv
<1>6. CASE ReadTrimmed(w)
  <2>1. Trimmed(w) /\ reading'[w] = NoRead
    BY <1>2, <1>6 DEF ReadTrimmed
  <2>2. OwnRows'
    BY <1>2, <2>1 DEF CapInv, OwnRows, NoRead
  <2>3. /\ Cardinality(CachedOf(w)') <= MaxTxsPerWallet
        /\ \A v \in Wallets \ {w} : CachedOf(v)' = CachedOf(v)
        /\ untrimmed' = untrimmed \ {w}
    <3>1. Cardinality(CachedOf(w)') \in 0 .. MaxTxsPerWallet
      BY <2>1, TrimKeeps
    <3>2. Cardinality(CachedOf(w)') <= MaxTxsPerWallet
      BY <1>1, <3>1
    <3> QED
      BY <2>1, <3>2, TrimKeeps
  <2>4. \A v \in Wallets : \/ Writing(v)' \/ v \in untrimmed'
                           \/ Cardinality(CachedOf(v)') <= MaxTxsPerWallet
                           \/ CachedOf(v)' = CachedOf(v) /\ ~Writing(v) /\ v \notin untrimmed
    BY <1>3, <2>3
  <2> QED
    BY <2>2, <2>4, CapStep DEF CapInv
<1>7. CASE ReadFails(w)
  <2>1. untrimmed' = untrimmed \cup {w} /\ cache' = cache /\ reading'[w] = NoRead
    BY <1>2, <1>7 DEF ReadFails
  <2>2. OwnRows'
    BY <1>2, <2>1 DEF CapInv, OwnRows, NoRead
  <2>3. \A v \in Wallets : \/ Writing(v)' \/ v \in untrimmed'
                           \/ CachedOf(v)' = CachedOf(v) /\ ~Writing(v) /\ v \notin untrimmed
    BY <1>3, <2>1 DEF CachedOf
  <2> QED
    BY <2>2, <2>3, CapStep DEF CapInv
<1> QED
  BY <1>4, <1>5, <1>6, <1>7 DEF ReadStep

LEMMA CapNext == TypeOK /\ CapInv /\ [Next]_vars => CapInv'
<1> SUFFICES ASSUME TypeOK, CapInv, [Next]_vars PROVE CapInv'
  OBVIOUS
<1>1. QueueType /\ PollType
  BY TypeParts
<1>2. ASSUME UNCHANGED queue \/ \E k \in Keys, d \in BOOLEAN : Publish(k, d),
             UNCHANGED <<reading, store>>
      PROVE  CapInv'
  <2>1. UNCHANGED <<stage, event>> \/ (stage = "idle" /\ stage' = "hasTx")
    BY <1>2 DEF Publish, queue
  <2>2. \A w \in Wallets : \/ Writing(w)' \/ w \in untrimmed'
                           \/ CachedOf(w)' = CachedOf(w) /\ ~Writing(w) /\ w \notin untrimmed
    BY <1>2, <2>1 DEF Writing, CachedOf, store
  <2> QED
    BY <1>2, <2>2, CapStep DEF CapInv, OwnRows
<1>3. CASE HandlerStep
  BY <1>3, HandlerCap
<1>4. CASE PollStep
  BY <1>1, <1>2, <1>4, PollStepType
<1>5. ASSUME NEW k \in Keys, Happens(k) \/ Ages(k) \/ WsMessage(k) PROVE CapInv'
  BY <1>2, <1>5, ChainStepType
<1>6. ASSUME NEW w \in Wallets, ReadStep(w) PROVE CapInv'
  BY <1>6, ReadCap
<1>7. CASE Crash
  <2>1. \A w \in Wallets : Writing(w) => w \in untrimmed'
    BY <1>7 DEF Crash
  <2>2. cache' = cache /\ reading' = [w \in Wallets |-> NoRead] /\ untrimmed \subseteq untrimmed'
    BY <1>7 DEF Crash
  <2>3. \A w \in Wallets : \/ w \in untrimmed'
                           \/ CachedOf(w)' = CachedOf(w) /\ ~Writing(w) /\ w \notin untrimmed
    BY <2>1, <2>2 DEF CachedOf
  <2> QED
    BY <2>2, <2>3, CapStep DEF CapInv, OwnRows, NoRead
<1>8. CASE UNCHANGED vars
  BY <1>2, <1>8 DEF vars
<1> QED
  BY <1>3, <1>4, <1>5, <1>6, <1>7, <1>8 DEF Next

(* A wallet nobody is writing to is within max_txs_per_wallet, whatever      *)
(* handlers and history reads interleave, unless its last writer died or     *)
(* failed between its upsert and its trim (trim in postgres.ts,              *)
(* history.ts:124-125).                                                      *)
THEOREM StoreIsCapped == Spec => []CacheCapped
<1>1. Init => CapInv
  <2> SUFFICES ASSUME Init PROVE CapInv
    OBVIOUS
  <2>1. \A w \in Wallets : CachedOf(w) = {}
    BY DEF Init, CachedOf
  <2>2. Cardinality({}) = 0 /\ MaxTxsPerWallet \in Nat
    BY FS_EmptySet, DeliveryAssumption
  <2>3. CacheCapped
    BY <2>1, <2>2 DEF CacheCapped
  <2> QED
    BY <2>3 DEF Init, CapInv, OwnRows, NoRead
<1>2. CapInv => CacheCapped
  BY DEF CapInv
<1> QED
  BY <1>1, <1>2, CapNext, TypeCorrect, PTL DEF Spec
-------------------------------------------------------------------------------
LEMMA HandlerTellsNoHistory ==
    ASSUME TypeOK, NEW k \in Keys, Late(k), HandlerStep
    PROVE  Late(k)'
<1> DEFINE late == [key |-> k, dated |-> FALSE]
<1>1. /\ UNCHANGED <<age, wire>> /\ event \in Keys /\ received \in [Keys -> 0 .. 2]
      /\ stage # "idle" /\ QueueType
  BY HandlerGoesOnOrFinishes, HandlerType, TypeParts DEF chain, QueueType, StoreType
<1>2. k \notin inFlight /\ (stage \in {"post", "answer", "backoff"} => event # k)
  BY DEF Late, TypeOK
<1>3. received'[k] = received[k]
  <2>1. CASE PostTaken
    BY <1>1, <1>2, <2>1 DEF PostTaken
  <2>2. CASE ~PostTaken
    BY <2>2 DEF HandlerStep, HandleHasTx, HandleEnriched, HandleUpserted, HandleTrimmed,
                PostAnswered, PostRefused, PostFails, PostAgain
  <2> QED
    BY <2>1, <2>2
<1>4. CASE Finish
  <2>1. k \notin inFlight'
    BY <1>2, <1>4 DEF Finish
  <2>2. CASE pending = <<>>
    BY <1>1, <1>3, <1>4, <2>1, <2>2, NoKeyIsNoSighting DEF Finish, Late, Elements
  <2>3. CASE pending # <<>>
    <3>1. /\ Elements(pending) = {Head(pending)} \cup Elements(pending')
          /\ event' = Head(pending).key /\ dated' = Head(pending).dated
          /\ Head(pending) \in Events
      BY <1>1, <1>4, <2>3, FinishTakesTheFirst
    <3>2. Head(pending) # late /\ late \notin Elements(pending')
      BY <3>1 DEF Late
    <3>3. event' = k => dated'
      BY <3>1, <3>2 DEF Events
    <3> QED
      BY <1>1, <1>3, <2>1, <3>2, <3>3 DEF Late
  <2> QED
    BY <2>2, <2>3
<1>5. CASE (HandleHasTx \/ HandleTrimmed) /\ Wake /\ ~Finish
  <2>1. event # k /\ Notify
    BY <1>1, <1>5 DEF Wake, Late
  <2> QED
    BY <1>1, <1>2, <1>3, <2>1 DEF Notify, Late
<1>6. CASE ~((HandleHasTx \/ HandleTrimmed) /\ Wake) /\ ~Finish
  <2>1. UNCHANGED <<event, pending, inFlight>> /\ (dated' = dated \/ dated' = TRUE)
    <3>1. CASE HandleHasTx \/ HandleTrimmed
      BY <1>6, <3>1 DEF HandleHasTx, HandleTrimmed, Await
    <3>2. CASE HandleEnriched \/ HandleUpserted
      BY <3>2 DEF HandleEnriched, HandleUpserted, Await
    <3>3. CASE PostTaken \/ PostAnswered \/ PostRefused \/ PostFails \/ PostAgain
      BY <1>6, <3>3 DEF PostTaken, PostAnswered, PostRefused, PostFails, PostAgain, Await
    <3> QED
      BY <3>1, <3>2, <3>3 DEF HandlerStep
  <2> QED
    BY <1>1, <1>2, <1>3, <2>1 DEF Late
<1> QED
  BY <1>4, <1>5, <1>6

(* Publishing a transaction that can no longer be news leaves it so.         *)
LEMMA PublishTellsNoHistory ==
    ASSUME TypeOK, NEW k \in Keys, Late(k), UNCHANGED received, age'[k] = "old", wire'[k] = 0,
           UNCHANGED queue \/ \E j \in Keys, d \in BOOLEAN : Publish(j, d) /\ (j = k => d)
    PROVE  Late(k)'
<1>1. CASE UNCHANGED queue
  BY <1>1 DEF Late, queue
<1>2. ASSUME NEW j \in Keys, NEW d \in BOOLEAN, Publish(j, d), j = k => d, ~UNCHANGED queue
      PROVE  Late(k)'
  <2> DEFINE late == [key |-> k, dated |-> FALSE]
             e == [key |-> j, dated |-> d]
  <2>1. inFlight' = inFlight /\ k \notin inFlight
    BY <1>2 DEF Publish, TypeOK, Late, queue
  <2>2. CASE stage = "idle"
    BY <1>2, <2>1, <2>2 DEF Publish, Late
  <2>3. CASE stage # "idle"
    <3>1. pending' = Append(pending, e) /\ UNCHANGED <<event, dated>> /\ pending \in Seq(Events)
      BY <1>2, <2>3 DEF Publish, TypeOK
    <3>2. Elements(pending') = Elements(pending) \cup {e}
      <4> HIDE DEF e
      <4> QED
        BY <3>1 DEF Elements
    <3>3. e # late
      BY <1>2
    <3> QED
      BY <2>1, <3>1, <3>2, <3>3 DEF Late
  <2> QED
    BY <2>2, <2>3
<1> QED
  BY <1>1, <1>2

LEMMA LateNext ==
    ASSUME NEW k \in Keys
    PROVE  TypeOK /\ Late(k) /\ [Next]_vars => Late(k)'
<1> SUFFICES ASSUME TypeOK, Late(k), [Next]_vars PROVE Late(k)'
  OBVIOUS
<1>1. QueueType /\ PollType /\ ReadType /\ ChainType /\ StoreType /\ k # NoKey
  BY TypeParts, NoKeyIsNoSighting
<1>2. age[k] = "old" /\ wire[k] = 0
  BY DEF Late
<1>3. CASE HandlerStep
  BY <1>3, HandlerTellsNoHistory
<1>4. CASE PollStep
  <2>1. UNCHANGED queue \/ \E j \in Keys : Publish(j, TRUE)
    BY <1>1, <1>4, PollStepType
  <2>2. UNCHANGED <<age, wire, received>>
    BY <1>1, <1>4, PollStepType DEF chain
  <2> QED
    BY <1>2, <2>1, <2>2, PublishTellsNoHistory
<1>5. ASSUME NEW j \in Keys, Happens(j) \/ Ages(j) \/ WsMessage(j) PROVE Late(k)'
  <2>1. UNCHANGED received
    BY <1>5, ChainStepType
  <2>2. age'[k] = "old" /\ wire'[k] = 0
    <3>1. CASE Happens(j)
      <4>1. j # k
        BY <1>2, <3>1 DEF Happens
      <4> QED
        BY <1>1, <1>2, <3>1, <4>1 DEF Happens, ChainType
    <3>2. CASE Ages(j)
      BY <1>1, <1>2, <3>2 DEF Ages, ChainType
    <3>3. CASE WsMessage(j)
      <4>1. j # k
        BY <1>2, <3>3 DEF WsMessage
      <4> QED
        BY <1>1, <1>2, <3>3, <4>1 DEF WsMessage, ChainType
    <3> QED
      BY <1>5, <3>1, <3>2, <3>3
  <2>3. UNCHANGED queue \/ (Publish(j, FALSE) /\ j # k)
    <3>1. CASE Happens(j) \/ Ages(j)
      BY <3>1 DEF Happens, Ages
    <3>2. CASE WsMessage(j)
      <4>1. j # k
        BY <1>2, <3>2 DEF WsMessage
      <4> QED
        BY <3>2, <4>1 DEF WsMessage
    <3> QED
      BY <1>5, <3>1, <3>2
  <2> QED
    BY <2>1, <2>2, <2>3, PublishTellsNoHistory
<1>6. ASSUME NEW w \in Wallets, ReadStep(w) PROVE Late(k)'
  BY <1>1, <1>6, ReadStepType DEF Late, chain, queue
<1>7. CASE Crash
  BY <1>1, <1>7 DEF Crash, Late, Elements
<1>8. CASE UNCHANGED vars
  BY <1>8 DEF vars, chain, queue, Late
<1> QED
  BY <1>3, <1>4, <1>5, <1>6, <1>7, <1>8 DEF Next

(* A transaction that has become old untold, that no socket message is on    *)
(* its way or waiting for and that is not being posted, is never taken by    *)
(* the backend any more, whether a poll finds it, its event aged in the      *)
(* queue behind others or the process starts again (isRecent in consumer.ts, *)
(* which goes by the event's or the record's time).                          *)
THEOREM HistoryWakesNobody ==
    Spec => HistoryIsNotNews /\ \A k \in Keys : [](Late(k) => [](received[k] = 0))
<1>1. Spec => HistoryIsNotNews
  <2>1. TypeOK /\ [Next]_vars => [\A k \in Keys : Late(k) => Late(k)']_vars
    BY LateNext
  <2> QED
    BY <2>1, TypeCorrect, PTL DEF Spec, HistoryIsNotNews
<1>2. ASSUME NEW k \in Keys
      PROVE  Spec => [](Late(k) => [](received[k] = 0))
  <2>1. Late(k) => received[k] = 0
    BY DEF Late
  <2> QED
    BY <2>1, LateNext, TypeCorrect, PTL DEF Spec
<1> QED
  BY <1>1, <1>2
-------------------------------------------------------------------------------
(* Whatever is on its way, queued or fetched has happened.                   *)
Sighted ==
    /\ event # NoKey => event \in Happened
    /\ Waiting \subseteq Happened
    /\ \A k \in Keys : wire[k] > 0 => k \in Happened
    /\ poll.rows \subseteq Happened
    /\ poll.at = "answered" => poll.row \in Happened

LEMMA PublishSighted ==
    ASSUME QueueType, Sighted, NEW k \in Happened, NEW d \in BOOLEAN, Publish(k, d)
    PROVE  event' \in Happened \cup {NoKey} /\ Waiting' \subseteq Happened
<1> DEFINE e == [key |-> k, dated |-> d]
<1>1. CASE pending' = pending
  BY <1>1 DEF Publish, Sighted, Waiting, queue
<1>2. CASE pending' = Append(pending, e) /\ event' = event
  <2>1. Elements(pending') = Elements(pending) \cup {e} /\ e.key = k
    <3>1. e.key = k
      OBVIOUS
    <3> HIDE DEF e
    <3> QED
      BY <1>2, <3>1 DEF Elements, QueueType
  <2> QED
    BY <1>2, <2>1 DEF Sighted, Waiting
<1> QED
  BY <1>1, <1>2 DEF Publish, queue

LEMMA SightedNext == TypeOK /\ TypeOK' /\ Sighted /\ [Next]_vars => Sighted'
<1> SUFFICES ASSUME TypeOK, TypeOK', Sighted, [Next]_vars PROVE Sighted'
  OBVIOUS
<1>1. QueueType /\ PollType /\ ReadType /\ StoreType
  BY TypeParts
<1>2. ASSUME UNCHANGED <<age, queue, wire, poll>> PROVE Sighted'
  BY <1>2 DEF Sighted, Happened, Waiting, queue
<1>3. CASE HandlerStep
  <2>1. UNCHANGED <<age, wire, poll>>
    BY <1>1, <1>3, HandlerType DEF chain
  <2>2. event' \in Happened \cup {NoKey} /\ Waiting' \subseteq Happened
    <3>1. CASE Finish /\ pending = <<>>
      BY <3>1 DEF Finish, Waiting, Elements
    <3>2. CASE Finish /\ pending # <<>>
      BY <1>1, <3>2, FinishTakesTheFirst DEF Waiting, Sighted
    <3>3. CASE UNCHANGED <<seen, pending, event, handled>>
      BY <3>3 DEF Waiting, Sighted
    <3> QED
      BY <1>3, <3>1, <3>2, <3>3, HandlerGoesOnOrFinishes
  <2> QED
    BY <2>1, <2>2 DEF Sighted, Happened
<1>4. CASE PollStep
  <2>1. UNCHANGED <<age, wire>>
    BY <1>1, <1>4, PollStepType DEF chain
  <2>2. Happened' = Happened
    BY <2>1 DEF Happened
  <2>3. \A todo, rows : NextRow(todo, rows).rows = rows /\ NextRow(todo, rows).at # "answered"
    BY DEF NextRow
  <2>4. CASE PollTick \/ PollListed
    BY <1>1, <2>1, <2>2, <2>3, <2>4 DEF PollTick, PollListed, IdlePoll, Sighted, Waiting, queue
  <2>5. ASSUME NEW w \in Wallets, NEW rows \in Fetched(w, PollLimit), PollFetched(w, rows)
        PROVE  Sighted'
    <3>1. rows \subseteq Happened
      BY DEF Fetched, Newest
    <3> QED
      BY <2>1, <2>2, <2>3, <2>5, <3>1 DEF PollFetched, Sighted, Waiting, queue
  <2>6. CASE PollHasTx
    <3>1. PICK k \in Leading(poll.rows) :
            poll' = [poll EXCEPT !.at = "answered", !.rows = @ \ {k}, !.row = k,
                                 !.known = k \in cache]
      BY <2>6 DEF PollHasTx
    <3>2. poll'.rows = poll.rows \ {k} /\ poll'.row = k /\ k \in poll.rows
      BY <1>1, <3>1 DEF PollType, Polls, Leading
    <3> QED
      BY <2>1, <2>2, <2>6, <3>2 DEF PollHasTx, Sighted, Waiting, queue
  <2>7. CASE PollPublishes
    <3>1. poll.row \in Happened /\ poll' = NextRow(poll.todo, poll.rows)
          /\ (UNCHANGED queue \/ Publish(poll.row, TRUE))
      BY <2>7 DEF PollPublishes, Sighted
    <3>2. event' \in Happened \cup {NoKey} /\ Waiting' \subseteq Happened
      BY <1>1, <3>1, PublishSighted DEF queue, Sighted, Waiting
    <3> QED
      BY <2>1, <2>2, <2>3, <3>1, <3>2 DEF Sighted
  <2> QED
    BY <1>4, <2>4, <2>5, <2>6, <2>7 DEF PollStep
<1>5. ASSUME NEW k \in Keys, Happens(k) \/ Ages(k) PROVE Sighted'
  <2>1. /\ age \in [Keys -> {"future", "recent", "old"}] /\ wire \in [Keys -> 0 .. 2]
        /\ UNCHANGED <<queue, poll>>
    BY <1>5 DEF TypeOK, Happens, Ages
  <2>2. Happened \subseteq Happened'
    BY <1>5, <2>1 DEF Happened, Happens, Ages
  <2>3. \A j \in Keys : wire'[j] > 0 => j \in Happened'
    <3>1. CASE Happens(k)
      BY <2>1, <2>2, <3>1 DEF Happens, Happened, Sighted
    <3>2. CASE Ages(k)
      BY <2>2, <3>2 DEF Ages, Sighted
    <3> QED
      BY <1>5, <3>1, <3>2
  <2> QED
    BY <2>1, <2>2, <2>3 DEF Sighted, Waiting, queue
<1>6. ASSUME NEW k \in Keys, WsMessage(k) PROVE Sighted'
  <2>1. /\ k \in Happened /\ UNCHANGED <<age, poll>> /\ Publish(k, FALSE)
        /\ wire' = [wire EXCEPT ![k] = @ - 1] /\ wire \in [Keys -> 0 .. 2]
    BY <1>6 DEF WsMessage, Sighted, TypeOK
  <2>2. event' \in Happened \cup {NoKey} /\ Waiting' \subseteq Happened
    BY <1>1, <2>1, PublishSighted
  <2>3. \A j \in Keys : wire'[j] > 0 => wire[j] > 0
    BY <2>1
  <2> QED
    BY <2>1, <2>2, <2>3 DEF Sighted, Happened
<1>7. ASSUME NEW w \in Wallets, ReadStep(w) PROVE Sighted'
  BY <1>1, <1>2, <1>7, ReadStepType DEF chain
<1>8. CASE Crash
  <2>1. /\ event' = NoKey /\ pending' = <<>> /\ poll' = IdlePoll /\ UNCHANGED age
        /\ \A k \in Keys : wire'[k] = 0
    BY <1>8 DEF Crash
  <2> QED
    BY <2>1 DEF Sighted, Waiting, Elements, IdlePoll
<1>9. CASE UNCHANGED vars
  BY <1>2, <1>9 DEF vars, chain
<1> QED
  BY <1>3, <1>4, <1>5, <1>6, <1>7, <1>8, <1>9 DEF Next

LEMMA SightedAlways == Spec => []Sighted
<1>1. Init => Sighted
  BY DEF Init, Sighted, Waiting, Elements, IdlePoll
<1> QED
  BY <1>1, SightedNext, TypeCorrect, PTL DEF Spec
-------------------------------------------------------------------------------
(* A transaction whose delivery this process does not remember, and of which *)
(* nothing on its way will make it post again.                               *)
OutOfReach(k) ==
    /\ event # k /\ k \notin Waiting /\ wire[k] = 0
    /\ poll.at = "answered" /\ poll.row = k => poll.known

Distinct(s) == \A i, j \in 1 .. Len(s) : s[i] = s[j] => i = j

(* What was taken is remembered, just being answered, or out of reach.       *)
TakenIsKnown ==
    \A k \in Keys : received[k] > 0 =>
        /\ age[k] # "future"
        /\ k \in Elements(delivered) \/ (stage = "answer" /\ event = k) \/ OutOfReach(k)

(* The event that is posted was not taken before.                            *)
PostIsFirst ==
    /\ stage \in {"post", "answer", "backoff"} => event \notin Elements(delivered)
    /\ stage \in {"post", "backoff"} => received[event] = 0

OnceInv == TakenOnce /\ TakenIsKnown /\ PostIsFirst /\ Distinct(delivered)

(* Without trims that cut, what can be read is stored. *)
LEMMA ReadableIsStored ==
    ASSUME Cardinality(Txs) <= MaxTxsPerWallet, cache \in SUBSET Keys,
           NEW k \in Keys, Readable(k)
    PROVE  k \in cache
<1> DEFINE N == Covering(k)
           others == Txs \ {k[2]}
           number == [j \in N |-> j[2]]
<1>1. k[2] \in Txs /\ IsFiniteSet(Txs) /\ MaxTxsPerWallet \in Nat
  BY DeliveryAssumption DEF Keys
<1>2. /\ IsFiniteSet(others) /\ Cardinality(others) = Cardinality(Txs) - 1
      /\ Cardinality(others) \in Nat /\ Cardinality(Txs) \in Nat
  BY <1>1, FS_RemoveElement, FS_CardinalityType
<1>3. number \in Injection(N, others)
  <2>1. \A j \in N : j \in Keys /\ j[1] = k[1] /\ j # k
    BY DEF Covering, CachedOf
  <2>2. \A i, j \in Keys : i[1] = j[1] /\ i[2] = j[2] => i = j
    BY DEF Keys
  <2>3. \A j \in N : j[2] \in others
    <3>1. \A j \in Keys : j[2] \in Txs
      BY DEF Keys
    <3> QED
      BY <2>1, <2>2, <3>1
  <2>4. \A i, j \in N : i[2] = j[2] => i = j
    BY <2>1, <2>2
  <2> QED
    BY <2>3, <2>4 DEF Injection, IsInjective
<1>4. Cardinality(N) <= Cardinality(others)
  BY <1>2, <1>3, FS_Injection
<1>5. Cardinality(N) \in Nat
  <2>1. N \in SUBSET Keys
    BY DEF Covering, CachedOf
  <2> QED
    BY <2>1, SightingsFinite
<1> QED
  BY <1>1, <1>2, <1>4, <1>5 DEF Readable

(* A memory with room for every sighting forgets none. *)
LEMMA RemembersAll ==
    ASSUME NEW s \in Seq(Keys), NEW k \in Keys, NEW max \in Nat,
           Cardinality(Keys) <= max, Distinct(s), k \notin Elements(s)
    PROVE  /\ Distinct(Remember(s, k, max))
           /\ Elements(Remember(s, k, max)) = Elements(s) \cup {k}
<1> DEFINE others == Keys \ {k}
<1>1. Len(s) \in Nat /\ \A i \in 1 .. Len(s) : s[i] \in Keys
  OBVIOUS
<1>2. /\ IsFiniteSet(others) /\ Cardinality(others) = Cardinality(Keys) - 1
      /\ Cardinality(others) \in Nat /\ Cardinality(Keys) \in Nat
  BY KeysFinite, FS_RemoveElement, FS_CardinalityType
<1>3. [i \in 1 .. Len(s) |-> s[i]] \in Injection(1 .. Len(s), others)
  BY <1>1 DEF Injection, IsInjective, Distinct, Elements
<1>4. Cardinality(1 .. Len(s)) <= Cardinality(others)
  BY <1>2, <1>3, FS_Injection
<1>5. Cardinality(1 .. Len(s)) = Len(s)
  <2>1. 1 \in Int /\ Len(s) \in Int
    BY <1>1
  <2>2. Cardinality(1 .. Len(s)) = IF 1 > Len(s) THEN 0 ELSE Len(s) - 1 + 1
    BY <2>1, FS_Interval
  <2> QED
    BY <1>1, <2>2
<1>6. Remember(s, k, max) = Append(s, k)
  BY <1>1, <1>2, <1>4, <1>5 DEF Remember
<1>7. /\ Len(Append(s, k)) = Len(s) + 1 /\ Append(s, k)[Len(s) + 1] = k
      /\ \A i \in 1 .. Len(s) : Append(s, k)[i] = s[i]
  OBVIOUS
<1>8. \A i \in 1 .. Len(s) + 1 : i \in 1 .. Len(s) \/ i = Len(s) + 1
  BY <1>1
<1>9. Len(s) + 1 \in 1 .. Len(s) + 1 /\ 1 .. Len(s) \subseteq 1 .. Len(s) + 1
  BY <1>1
<1>10. \A i \in 1 .. Len(s) : s[i] # k
  BY DEF Elements
<1>11. Distinct(Append(s, k))
  BY <1>7, <1>8, <1>10 DEF Distinct
<1>12. Elements(Append(s, k)) = Elements(s) \cup {k}
  BY <1>7, <1>8, <1>9 DEF Elements
<1> QED
  BY <1>6, <1>11, <1>12

(* Publishing another sighting brings none within reach. *)
LEMMA PublishKeepsAway ==
    ASSUME QueueType, NEW k \in Keys, NEW d \in BOOLEAN, Publish(k, d),
           NEW j \in Keys, j # k, event # j, j \notin Waiting
    PROVE  event' # j /\ j \notin Waiting'
<1> DEFINE e == [key |-> k, dated |-> d]
<1>1. CASE pending' = pending
  BY <1>1 DEF Publish, Waiting, queue
<1>2. CASE pending' = Append(pending, e) /\ event' = event
  <2>1. Elements(pending') = Elements(pending) \cup {e} /\ e.key = k
    <3>1. e.key = k
      OBVIOUS
    <3> HIDE DEF e
    <3> QED
      BY <1>2, <3>1 DEF Elements, QueueType
  <2> QED
    BY <1>2, <2>1 DEF Waiting
<1> QED
  BY <1>1, <1>2 DEF Publish, queue

(* The end of an event takes the next one from the queue. *)
LEMMA FinishKeepsAway ==
    ASSUME QueueType, Finish, NEW j \in Keys, j \notin Waiting
    PROVE  event' # j /\ j \notin Waiting' /\ stage' \in {"idle", "hasTx"}
<1>1. CASE pending = <<>>
  BY <1>1, NoKeyIsNoSighting DEF Finish, Waiting, Elements
<1>2. CASE pending # <<>>
  BY <1>2, FinishTakesTheFirst DEF Finish, Waiting
<1> QED
  BY <1>1, <1>2

LEMMA FinishOnce ==
    ASSUME TypeOK, OnceInv, Finish, UNCHANGED <<age, wire, poll, received>>,
           Distinct(delivered'), Elements(delivered) \subseteq Elements(delivered'),
           stage = "answer" => event \in Elements(delivered')
    PROVE  OnceInv'
<1>1. QueueType
  BY TypeParts
<1>2. stage' \in {"idle", "hasTx"}
  BY DEF Finish
<1>3. TakenOnce' /\ PostIsFirst'
  BY <1>2 DEF OnceInv, TakenOnce, PostIsFirst
<1>4. TakenIsKnown'
  <2> SUFFICES ASSUME NEW k \in Keys, received'[k] > 0
               PROVE  age'[k] # "future" /\ (k \in Elements(delivered') \/ OutOfReach(k)')
    BY DEF TakenIsKnown
  <2>1. /\ age[k] # "future"
        /\ k \in Elements(delivered) \/ (stage = "answer" /\ event = k) \/ OutOfReach(k)
    BY DEF OnceInv, TakenIsKnown
  <2>2. CASE OutOfReach(k)
    BY <1>1, <2>1, <2>2, FinishKeepsAway DEF OutOfReach
  <2> QED
    BY <2>1, <2>2
<1> QED
  BY <1>3, <1>4 DEF OnceInv

(* A step that leaves the event at an await of the store. *)
LEMMA AwaitOnce ==
    ASSUME TypeOK, OnceInv, UNCHANGED <<age, wire, poll, received, delivered, event, pending>>,
           stage # "answer",
           stage' \in {"post", "answer", "backoff"} =>
               /\ event \notin Elements(delivered)
               /\ stage' # "answer" => received[event] = 0
    PROVE  OnceInv'
<1>1. TakenOnce' /\ PostIsFirst' /\ Distinct(delivered)'
  BY DEF OnceInv, TakenOnce, PostIsFirst, Distinct
<1>2. TakenIsKnown'
  BY DEF OnceInv, TakenIsKnown, OutOfReach, Waiting
<1> QED
  BY <1>1, <1>2 DEF OnceInv

LEMMA WakeOnce ==
    ASSUME TypeOK, OnceInv, Wake, stage \notin {"answer", "idle"},
           UNCHANGED <<age, wire, poll, received, delivered>>
    PROVE  OnceInv'
<1>1. CASE Finish
  BY <1>1, FinishOnce DEF OnceInv
<1>2. CASE ~Finish
  <2>1. event \notin Elements(delivered) /\ UNCHANGED <<event, pending>> /\ stage' = "post"
    BY <1>2 DEF Wake, Told, Notify
  <2>2. event \in Keys /\ received[event] \in 0 .. 2
    BY DEF TypeOK
  <2>3. received[event] = 0
    BY <2>1, <2>2 DEF OnceInv, TakenIsKnown, OutOfReach
  <2> QED
    BY <2>1, <2>3, AwaitOnce
<1> QED
  BY <1>1, <1>2

LEMMA HandlerOnce ==
    ASSUME ~LosesAnswers, Cardinality(Keys) <= MaxRemembered,
           TypeOK, Sighted, OnceInv, HandlerStep
    PROVE  OnceInv'
<1>1. /\ stage # "idle" /\ event \in Keys
      /\ UNCHANGED <<age, wire, poll>> /\ received \in [Keys -> 0 .. 2]
      /\ delivered \in Seq(Keys) /\ MaxRemembered \in Nat
  BY HandlerGoesOnOrFinishes, HandlerType, TypeParts, DeliveryAssumption DEF chain, TypeOK
<1>2. CASE HandleHasTx
  BY <1>1, <1>2, WakeOnce, AwaitOnce DEF HandleHasTx, Await
<1>3. CASE HandleEnriched
  BY <1>1, <1>3, AwaitOnce DEF HandleEnriched
<1>4. CASE HandleUpserted
  BY <1>1, <1>4, AwaitOnce DEF HandleUpserted, Await
<1>5. CASE HandleTrimmed
  BY <1>1, <1>5, WakeOnce DEF HandleTrimmed
<1>6. CASE PostTaken
  <2>1. /\ stage = "post" /\ stage' = "answer" /\ UNCHANGED <<event, pending, delivered>>
        /\ received' = [received EXCEPT ![event] = IF @ < 2 THEN @ + 1 ELSE @]
        /\ age[event] # "future" /\ event \notin Elements(delivered) /\ received[event] = 0
    BY <1>1, <1>6, NoKeyIsNoSighting DEF PostTaken, Await, OnceInv, PostIsFirst, Sighted, Happened
  <2>2. received'[event] = 1 /\ \A k \in Keys \ {event} : received'[k] = received[k]
    BY <1>1, <2>1
  <2>3. TakenOnce'
    BY <1>1, <2>2 DEF OnceInv, TakenOnce
  <2>4. TakenIsKnown'
    <3> SUFFICES ASSUME NEW k \in Keys, received'[k] > 0
                 PROVE  /\ age'[k] # "future"
                        /\ \/ k \in Elements(delivered') \/ OutOfReach(k)'
                           \/ stage' = "answer" /\ event' = k
      BY DEF TakenIsKnown
    <3>1. CASE k = event
      BY <1>1, <2>1, <3>1
    <3>2. CASE k # event
      BY <1>1, <2>1, <2>2, <3>2 DEF OnceInv, TakenIsKnown, OutOfReach, Waiting
    <3> QED
      BY <3>1, <3>2
  <2>5. PostIsFirst' /\ Distinct(delivered)'
    BY <1>1, <2>1 DEF OnceInv, PostIsFirst, Distinct
  <2> QED
    BY <2>3, <2>4, <2>5 DEF OnceInv
<1>7. CASE PostAnswered
  <2>1. /\ stage = "answer" /\ event \notin Elements(delivered)
        /\ delivered' = Remember(delivered, event, MaxRemembered)
        /\ Finish /\ UNCHANGED received
    BY <1>7 DEF PostAnswered, OnceInv, PostIsFirst
  <2>2. Distinct(delivered') /\ Elements(delivered') = Elements(delivered) \cup {event}
    BY <1>1, <2>1, RemembersAll DEF OnceInv
  <2> QED
    BY <1>1, <2>1, <2>2, FinishOnce
<1>8. CASE PostRefused
  BY <1>1, <1>8, FinishOnce DEF PostRefused, OnceInv
<1>9. CASE PostFails
  <2>1. stage = "post" /\ UNCHANGED <<delivered, received>>
    BY <1>9 DEF PostFails
  <2>2. CASE Await("backoff")
    BY <1>1, <2>1, <2>2, AwaitOnce DEF Await, OnceInv, PostIsFirst
  <2>3. CASE Finish
    BY <1>1, <2>1, <2>3, FinishOnce DEF OnceInv
  <2> QED
    BY <1>9, <2>2, <2>3 DEF PostFails
<1>10. CASE PostAgain
  BY <1>1, <1>10, AwaitOnce DEF PostAgain, OnceInv, PostIsFirst
<1> QED
  BY <1>2, <1>3, <1>4, <1>5, <1>6, <1>7, <1>8, <1>9, <1>10 DEF HandlerStep

(* A detector publishes nothing that is out of reach. *)
LEMMA DetectorOnce ==
    ASSUME TypeOK, TypeOK', OnceInv, UNCHANGED <<delivered, received>>,
           \A k \in Keys : received[k] > 0 => age'[k] # "future",
           \A k \in Keys : age[k] # "future" => age'[k] # "future",
           \/ UNCHANGED queue
           \/ \E k \in Keys, d \in BOOLEAN : Publish(k, d) /\ ~OutOfReach(k),
           \A k \in Keys : received[k] > 0 /\ OutOfReach(k) =>
               wire'[k] = 0 /\ (poll'.at = "answered" /\ poll'.row = k => poll'.known)
    PROVE  OnceInv'
<1>1. QueueType
  BY TypeParts
<1>2. \/ UNCHANGED <<event, stage, pending>>
      \/ stage = "idle" /\ stage' = "hasTx"
      \/ UNCHANGED <<event, stage>>
  BY DEF Publish, queue
<1>3. TakenOnce' /\ Distinct(delivered)'
  BY DEF OnceInv, TakenOnce, Distinct
<1>4. PostIsFirst'
  <2>1. stage \in {"post", "answer", "backoff"} => event \in Keys
    BY DEF TypeOK
  <2> QED
    BY <1>2, <2>1 DEF OnceInv, PostIsFirst
<1>5. TakenIsKnown'
  <2> SUFFICES ASSUME NEW k \in Keys, received'[k] > 0
               PROVE  /\ age'[k] # "future"
                      /\ \/ k \in Elements(delivered') \/ OutOfReach(k)'
                         \/ stage' = "answer" /\ event' = k
    BY DEF TakenIsKnown
  <2>1. k \in Elements(delivered) \/ (stage = "answer" /\ event = k) \/ OutOfReach(k)
    BY DEF OnceInv, TakenIsKnown
  <2>2. CASE OutOfReach(k)
    <3>1. event # k /\ k \notin Waiting
      BY <2>2 DEF OutOfReach
    <3>2. event' # k /\ k \notin Waiting'
      BY <1>1, <2>2, <3>1, PublishKeepsAway DEF queue, Waiting
    <3> QED
      BY <2>2, <3>2 DEF OutOfReach
  <2> QED
    BY <1>2, <2>1, <2>2
<1> QED
  BY <1>3, <1>4, <1>5 DEF OnceInv

LEMMA PollOnce ==
    ASSUME TypeOK, TypeOK', OnceInv, PollStep,
           \A k \in Keys : received[k] > 0 => k \in cache
    PROVE  OnceInv'
<1>1. PollType /\ QueueType
  BY TypeParts
<1>2. UNCHANGED <<age, wire, delivered, received>>
  BY <1>1, PollStepType DEF chain
<1>3. \A k \in Keys : received[k] > 0 => age[k] # "future"
  BY DEF OnceInv, TakenIsKnown
<1>4. ASSUME UNCHANGED queue \/ \E k \in Keys, d \in BOOLEAN : Publish(k, d) /\ ~OutOfReach(k),
             \A k \in Keys : received[k] > 0 => (poll'.at = "answered" /\ poll'.row = k => poll'.known)
      PROVE  OnceInv'
  BY <1>2, <1>3, <1>4, DetectorOnce DEF OutOfReach
<1>5. ASSUME UNCHANGED queue, poll'.at # "answered" PROVE OnceInv'
  BY <1>4, <1>5
<1>6. \A todo, rows : NextRow(todo, rows).at # "answered"
  BY DEF NextRow
<1>7. CASE PollTick
  BY <1>5, <1>7 DEF PollTick, IdlePoll
<1>8. CASE PollListed
  BY <1>5, <1>6, <1>8 DEF PollListed
<1>9. ASSUME NEW w \in Wallets, NEW rows \in Fetched(w, PollLimit), PollFetched(w, rows)
      PROVE  OnceInv'
  BY <1>5, <1>6, <1>9 DEF PollFetched
<1>10. CASE PollHasTx
  <2>1. PICK j \in Leading(poll.rows) :
            poll' = [poll EXCEPT !.at = "answered", !.rows = @ \ {j}, !.row = j,
                                 !.known = j \in cache]
    BY <1>10 DEF PollHasTx
  <2>2. poll'.row = j /\ poll'.known = (j \in cache) /\ UNCHANGED queue
    BY <1>1, <1>10, <2>1 DEF PollType, Polls, PollHasTx
  <2> QED
    BY <1>4, <2>2
<1>11. CASE PollPublishes
  <2>1. /\ poll.at = "answered" /\ poll'.at # "answered"
        /\ poll.known => UNCHANGED queue
        /\ ~poll.known => Publish(poll.row, TRUE)
    BY <1>6, <1>11 DEF PollPublishes
  <2>2. poll.row \in Keys
    BY <1>1, <2>1 DEF PollType
  <2>3. ~poll.known => ~OutOfReach(poll.row)
    BY <2>1 DEF OutOfReach
  <2> QED
    BY <1>4, <2>1, <2>2, <2>3
<1> QED
  BY <1>7, <1>8, <1>9, <1>10, <1>11 DEF PollStep

LEMMA ChainOnce ==
    ASSUME TypeOK, TypeOK', OnceInv, NEW k \in Keys, Happens(k) \/ Ages(k) \/ WsMessage(k)
    PROVE  OnceInv'
<1>1. /\ UNCHANGED <<delivered, poll, received>>
      /\ age \in [Keys -> {"future", "recent", "old"}] /\ wire \in [Keys -> 0 .. 2]
  BY ChainStepType DEF TypeOK
<1>2. \A j \in Keys : received[j] > 0 => age[j] # "future"
  BY DEF OnceInv, TakenIsKnown
<1>3. \A j \in Keys : age[j] # "future" => age'[j] # "future"
  BY <1>1 DEF Happens, Ages, WsMessage
<1>4. \/ UNCHANGED queue
      \/ Publish(k, FALSE) /\ ~OutOfReach(k)
  <2>1. CASE Happens(k) \/ Ages(k)
    BY <2>1 DEF Happens, Ages
  <2>2. CASE WsMessage(k)
    <3>1. Publish(k, FALSE) /\ wire[k] > 0
      BY <2>2 DEF WsMessage
    <3>2. ~OutOfReach(k)
      BY <1>1, <3>1 DEF OutOfReach
    <3> QED
      BY <3>1, <3>2
  <2> QED
    BY <2>1, <2>2
<1>5. \A j \in Keys : received[j] > 0 /\ OutOfReach(j) => wire'[j] = 0
  <2> SUFFICES ASSUME NEW j \in Keys, received[j] > 0, OutOfReach(j) PROVE wire'[j] = 0
    OBVIOUS
  <2>1. wire[j] = 0 /\ age[j] # "future"
    BY <1>2 DEF OutOfReach
  <2>2. CASE Happens(k)
    <3>1. j # k
      BY <2>1, <2>2 DEF Happens
    <3> QED
      BY <1>1, <2>1, <2>2, <3>1 DEF Happens
  <2>3. CASE Ages(k)
    BY <2>1, <2>3 DEF Ages
  <2>4. CASE WsMessage(k)
    <3>1. j # k
      BY <2>1, <2>4 DEF WsMessage
    <3> QED
      BY <1>1, <2>1, <2>4, <3>1 DEF WsMessage
  <2> QED
    BY <2>2, <2>3, <2>4
<1> QED
  BY <1>1, <1>2, <1>3, <1>4, <1>5, DetectorOnce DEF OutOfReach

LEMMA OnceNext ==
    ASSUME ~LosesAnswers, Cardinality(Keys) <= MaxRemembered,
           Cardinality(Txs) <= MaxTxsPerWallet
    PROVE  TypeOK /\ TypeOK' /\ AnnouncedIsReadable /\ Sighted /\ OnceInv /\ [Next]_vars => OnceInv'
<1> SUFFICES ASSUME TypeOK, TypeOK', AnnouncedIsReadable, Sighted, OnceInv, [Next]_vars
             PROVE  OnceInv'
  OBVIOUS
<1>1. \A k \in Keys : received[k] > 0 => k \in cache
  BY ReadableIsStored DEF AnnouncedIsReadable, TypeOK
<1>2. CASE HandlerStep
  BY <1>2, HandlerOnce
<1>3. CASE PollStep
  BY <1>1, <1>3, PollOnce
<1>4. ASSUME NEW k \in Keys, Happens(k) \/ Ages(k) \/ WsMessage(k) PROVE OnceInv'
  BY <1>4, ChainOnce
<1>5. ASSUME UNCHANGED <<chain, queue, delivered, poll, received>> PROVE OnceInv'
  BY <1>5 DEF OnceInv, TakenOnce, TakenIsKnown, PostIsFirst, OutOfReach, Waiting, Distinct,
             chain, queue
<1>6. ASSUME NEW w \in Wallets, ReadStep(w) PROVE OnceInv'
  BY <1>5, <1>6, ReadStepType, TypeParts
<1>7. CASE Crash
  <2>1. /\ event' = NoKey /\ pending' = <<>> /\ poll' = IdlePoll /\ stage' = "idle"
        /\ wire' = [k \in Keys |-> 0] /\ delivered' = <<>> /\ UNCHANGED <<age, received>>
    BY <1>7 DEF Crash
  <2>2. \A k \in Keys : OutOfReach(k)'
    BY <2>1, NoKeyIsNoSighting DEF OutOfReach, Waiting, Elements, IdlePoll
  <2> QED
    BY <2>1, <2>2 DEF OnceInv, TakenOnce, TakenIsKnown, PostIsFirst, Distinct
<1>8. CASE UNCHANGED vars
  BY <1>5, <1>8 DEF vars
<1> QED
  BY <1>2, <1>3, <1>4, <1>6, <1>7, <1>8 DEF Next

(* The backend takes a transaction at most once over retries, duplicate      *)
(* sightings and crashes, where no answer is lost, the notifier's memory     *)
(* holds every sighting and no trim removes one (queue.ts, consumer.ts,      *)
(* backend-events.ts, poll.ts).                                              *)
THEOREM TransactionsAreTakenOnce ==
    ~LosesAnswers /\ Cardinality(Keys) <= MaxRemembered /\ Cardinality(Txs) <= MaxTxsPerWallet
        => (Spec => []TakenOnce)
<1> SUFFICES ASSUME ~LosesAnswers, Cardinality(Keys) <= MaxRemembered,
                    Cardinality(Txs) <= MaxTxsPerWallet
             PROVE  Spec => []TakenOnce
  OBVIOUS
<1>1. Init => OnceInv
  BY NoKeyIsNoSighting DEF Init, OnceInv, TakenOnce, TakenIsKnown, PostIsFirst, Distinct
<1>2. OnceInv => TakenOnce
  BY DEF OnceInv
<1> QED
  BY <1>1, <1>2, OnceNext, TypeCorrect, SightedAlways, AnnouncedCanBeRead, PTL DEF Spec
-------------------------------------------------------------------------------
(* A step that keeps the readable sightings and tells the backend nothing    *)
(* keeps the contract.                                                       *)
LEMMA UntoldKeepsContract ==
    ASSUME TypeOK, TypeOK', UNCHANGED received, StoresOrTrims
    PROVE  [Contract!Next]_(Contract!contract)
<1> DEFINE R == {k \in Keys : Readable(k)}
<1>1. R' = {k \in Keys : Readable(k)'}
  BY DEF Keys
<1>2. R \subseteq R' /\ R' \in SUBSET Keys
  BY <1>1, StoreKeepsReadable
<1>3. CASE R' = R
  BY <1>3 DEF Contract!contract
<1>4. CASE R' # R
  BY <1>2, <1>4 DEF Contract!Next, Contract!Store
<1> QED
  BY <1>3, <1>4

(* A post the backend takes tells it of the event, which can be read. *)
LEMMA PostKeepsContract ==
    ASSUME TypeOK, ReadableInv, PostTaken
    PROVE  [Contract!Next]_(Contract!contract)
<1> DEFINE R == {k \in Keys : Readable(k)}
<1>1. /\ event \in Keys /\ received \in [Keys -> 0 .. 2]
      /\ Readable(event) /\ UNCHANGED <<block, cache, stubbed>>
      /\ received' = [received EXCEPT ![event] = IF @ < 2 THEN @ + 1 ELSE @]
  BY DEF PostTaken, TypeOK, ReadableInv, EventReadable, chain, store
<1>2. R' = R
  BY <1>1 DEF Readable, Covering, CachedOf, Keys
<1>3. CASE received[event] < 2
  <2>1. /\ received'[event] > received[event]
        /\ received' = [received EXCEPT ![event] = received'[event]]
    BY <1>1, <1>3
  <2>2. Contract!Tell(event)
    BY <1>1, <1>2, <2>1 DEF Contract!Tell
  <2> QED
    BY <1>1, <2>2 DEF Contract!Next
<1>4. CASE ~(received[event] < 2)
  <2>1. received' = received
    BY <1>1, <1>4
  <2> QED
    BY <1>2, <2>1 DEF Contract!contract
<1> QED
  BY <1>3, <1>4

LEMMA ContractNext ==
    TypeOK /\ TypeOK' /\ ReadableInv /\ [Next]_vars => [Contract!Next]_(Contract!contract)
<1> SUFFICES ASSUME TypeOK, TypeOK', ReadableInv, [Next]_vars
             PROVE  [Contract!Next]_(Contract!contract)
  OBVIOUS
<1>1. QueueType /\ PollType /\ ReadType /\ StoreType
  BY TypeParts
<1>2. CASE HandlerStep
  <2>1. CASE PostTaken
    BY <2>1, PostKeepsContract
  <2>2. CASE ~PostTaken
    <3>1. UNCHANGED received
      BY <1>2, <2>2
         DEF HandlerStep, HandleHasTx, HandleEnriched, HandleUpserted, HandleTrimmed,
             PostAnswered, PostRefused, PostFails, PostAgain
    <3>2. StoresOrTrims
      BY <1>2, HandlerStores
    <3> QED
      BY <3>1, <3>2, UntoldKeepsContract
  <2> QED
    BY <2>1, <2>2
<1>3. CASE PollStep
  <2>1. StoresOrTrims /\ UNCHANGED received
    BY <1>1, <1>3, PollStepType DEF StoresOrTrims, chain, store
  <2> QED
    BY <2>1, UntoldKeepsContract
<1>4. ASSUME NEW k \in Keys, Happens(k) \/ Ages(k) \/ WsMessage(k)
      PROVE  [Contract!Next]_(Contract!contract)
  <2>1. UNCHANGED block
    BY <1>4 DEF Happens, Ages, WsMessage
  <2>2. StoresOrTrims /\ UNCHANGED received
    BY <1>4, <2>1, ChainStepType DEF StoresOrTrims, store
  <2> QED
    BY <2>2, UntoldKeepsContract
<1>5. ASSUME NEW w \in Wallets, ReadStep(w)
      PROVE  [Contract!Next]_(Contract!contract)
  <2>1. StoresOrTrims /\ UNCHANGED received
    BY <1>1, <1>5, ReadStepType DEF StoresOrTrims, chain, Store
  <2> QED
    BY <2>1, UntoldKeepsContract
<1>6. CASE Crash
  <2>1. StoresOrTrims /\ UNCHANGED received
    BY <1>6 DEF Crash, StoresOrTrims
  <2> QED
    BY <2>1, UntoldKeepsContract
<1>7. CASE UNCHANGED vars
  <2>1. StoresOrTrims /\ UNCHANGED received
    BY <1>7 DEF StoresOrTrims, vars, chain, store
  <2> QED
    BY <2>1, UntoldKeepsContract
<1> QED
  BY <1>2, <1>3, <1>4, <1>5, <1>6, <1>7 DEF Next

(* Every step of the detectors, the queue, the consumer, the notifier, the   *)
(* history reads and a crash is one of the contract's or changes nothing it  *)
(* knows of: the backend is told of one transaction at a time, of one that   *)
(* can be read already, and none that can be read is lost again, whichever    *)
(* of tied rows a trim keeps and whenever a query fails.                     *)
THEOREM DeliveryKeepsTheContract == Spec => AnnouncedAsPromised
<1>1. Init => Contract!Init
  <2> SUFFICES ASSUME Init PROVE Contract!Init
    OBVIOUS
  <2>1. \A k \in Keys : ~Readable(k)
    <3>1. cache = {} /\ MaxTxsPerWallet \in Nat \ {0}
      BY DeliveryAssumption DEF Init
    <3>2. \A k \in Keys : Covering(k) = {}
      BY <3>1 DEF Covering, CachedOf
    <3> QED
      BY <3>1, <3>2, FS_EmptySet DEF Readable
  <2> QED
    BY <2>1 DEF Init, Contract!Init
<1>2. Init => ReadableInv
  BY DEF Init, ReadableInv, AnnouncedIsReadable, EventReadable
<1> QED
  BY <1>1, <1>2, ReadableNext, ContractNext, TypeCorrect, PTL
     DEF Spec, AnnouncedAsPromised, Contract!Spec
-------------------------------------------------------------------------------
(* A product with one factor less, in the shape PumpLeft and TickLeft have.  *)
LEMMA OneTimesLess ==
    ASSUME NEW n \in Nat \ {0}, NEW size \in Nat
    PROVE  /\ (n - 1) * size \in Nat /\ n * size \in Nat
           /\ (n - 1) * size + size = n * size
<1>1. \A m \in Nat, s \in Nat : m * s \in Nat
  OBVIOUS
<1>2. (n - 1) * size + size = n * size
  OBVIOUS
<1> QED
  BY <1>1, <1>2

(* The steps that StepsOfStage counts for each stage. *)
LEMMA StageSteps ==
    ASSUME TypeOK
    PROVE  /\ StepsOfEvent \in Nat /\ Attempts - attempt \in 0 .. Attempts
           /\ StepsOfStage \in 0 .. StepsOfEvent
           /\ stage # "idle" => StepsOfStage > 0
<1>1. Attempts \in Nat \ {0} /\ attempt \in 0 .. Attempts /\ stage \in Stages
  BY DeliveryAssumption DEF TypeOK
<1>2. stage = "backoff" => attempt < Attempts
  BY DEF TypeOK
<1> QED
  BY <1>1, <1>2 DEF StepsOfStage, StepsOfEvent, Stages

(* Letting go of the event takes its remaining steps off the count.          *)
LEMMA FinishCounts ==
    ASSUME TypeOK, TypeOK', stage # "idle", Finish
    PROVE  PumpLeft' < PumpLeft
<1> DEFINE S == StepsOfEvent
<1>1. S \in Nat /\ StepsOfStage \in Nat /\ StepsOfStage > 0 /\ Len(pending) \in Nat
  <2>1. Len(pending) \in Nat
    BY DEF TypeOK
  <2> QED
    BY <2>1, StageSteps
<1>2. PumpLeft = Len(pending) * S + StepsOfStage /\ PumpLeft' = Len(pending') * S + StepsOfStage'
  BY DEF PumpLeft, StepsOfEvent
<1>3. CASE pending = <<>>
  <2>1. Len(pending) = 0 /\ Len(pending') = 0 /\ stage' = "idle"
    BY <1>3 DEF Finish
  <2>2. StepsOfStage' = 0
    BY <2>1 DEF StepsOfStage
  <2> HIDE DEF S
  <2> QED
    BY <1>1, <1>2, <2>1, <2>2
<1>4. CASE pending # <<>>
  <2>1. /\ Len(pending) \in Nat \ {0} /\ Len(pending') = Len(pending) - 1
        /\ stage' = "hasTx"
    BY <1>4 DEF Finish, TypeOK
  <2>2. StepsOfStage' = S
    BY <2>1 DEF StepsOfStage, StepsOfEvent
  <2>3. /\ Len(pending') * S + S = Len(pending) * S
        /\ Len(pending') * S \in Nat /\ Len(pending) * S \in Nat
    BY <1>1, <2>1, OneTimesLess
  <2> HIDE DEF S
  <2> QED
    BY <1>1, <1>2, <2>2, <2>3
<1> QED
  BY <1>3, <1>4

(* So does going on with it to a stage with fewer steps to go.               *)
LEMMA GoingOnCounts ==
    ASSUME TypeOK, TypeOK', UNCHANGED pending, StepsOfStage' < StepsOfStage
    PROVE  PumpLeft' < PumpLeft
<1>1. Len(pending) \in Nat /\ StepsOfEvent \in Nat /\ StepsOfStage \in Nat
  <2>1. Len(pending) \in Nat
    BY DEF TypeOK
  <2>2. StepsOfStage \in 0 .. StepsOfEvent /\ StepsOfEvent \in Nat
    BY StageSteps
  <2> QED
    BY <2>1, <2>2
<1>2. StepsOfStage' \in Int
  <2>1. Attempts \in Nat \ {0} /\ attempt' \in 0 .. Attempts /\ stage' \in Stages
    BY DeliveryAssumption DEF TypeOK
  <2> QED
    BY <2>1 DEF StepsOfStage, StepsOfEvent, Stages
<1>3. Len(pending) * StepsOfEvent \in Nat
  BY <1>1
<1>4. StepsOfEvent' = StepsOfEvent
  BY DEF StepsOfEvent
<1> QED
  BY <1>1, <1>2, <1>3, <1>4 DEF PumpLeft

LEMMA WakeCounts ==
    ASSUME TypeOK, TypeOK', Wake, stage \in {"hasTx", "trim"}
    PROVE  PumpLeft' < PumpLeft
<1>1. CASE Finish
  BY <1>1, FinishCounts
<1>2. CASE ~Finish
  <2>1. stage' = "post" /\ attempt' = 1 /\ UNCHANGED pending
    BY <1>2 DEF Wake, Notify
  <2>2. StepsOfStage' < StepsOfStage
    BY <2>1, DeliveryAssumption DEF StepsOfStage, StepsOfEvent
  <2> QED
    BY <2>1, <2>2, GoingOnCounts
<1> QED
  BY <1>1, <1>2

LEMMA HandlerCounts ==
    ASSUME TypeOK, TypeOK', HandlerStep
    PROVE  PumpLeft' < PumpLeft
<1>1. Attempts \in Nat \ {0} /\ attempt \in 0 .. Attempts
  BY DeliveryAssumption DEF TypeOK
<1>2. CASE HandleHasTx
  <2>1. CASE Wake
    BY <1>2, <2>1, WakeCounts DEF HandleHasTx
  <2>2. CASE Await("enrich")
    <3>1. StepsOfStage' < StepsOfStage /\ UNCHANGED pending
      BY <1>1, <1>2, <2>2 DEF HandleHasTx, Await, StepsOfStage, StepsOfEvent
    <3> QED
      BY <3>1, GoingOnCounts
  <2> QED
    BY <1>2, <2>1, <2>2 DEF HandleHasTx
<1>3. CASE HandleEnriched \/ HandleUpserted
  <2>1. /\ UNCHANGED <<pending, attempt>>
        /\ \/ stage = "enrich" /\ stage' = "upsert"
           \/ stage = "upsert" /\ stage' = "trim"
    BY <1>3 DEF HandleEnriched, HandleUpserted, Await
  <2>2. StepsOfStage' < StepsOfStage
    BY <1>1, <2>1 DEF StepsOfStage, StepsOfEvent
  <2> QED
    BY <2>1, <2>2, GoingOnCounts
<1>4. CASE HandleTrimmed
  BY <1>4, WakeCounts DEF HandleTrimmed
<1>5. CASE PostTaken \/ PostAgain
  <2>1. StepsOfStage' < StepsOfStage /\ UNCHANGED pending
    BY <1>1, <1>5 DEF PostTaken, PostAgain, Await, StepsOfStage, StepsOfEvent
  <2> QED
    BY <2>1, GoingOnCounts
<1>6. CASE PostAnswered \/ PostRefused
  BY <1>6, FinishCounts DEF PostAnswered, PostRefused
<1>7. CASE PostFails
  <2>1. CASE Finish
    BY <1>7, <2>1, FinishCounts DEF PostFails
  <2>2. CASE Await("backoff")
    <3>1. StepsOfStage' < StepsOfStage /\ UNCHANGED pending
      BY <1>1, <1>7, <2>2 DEF PostFails, Await, StepsOfStage, StepsOfEvent
    <3> QED
      BY <3>1, GoingOnCounts
  <2> QED
    BY <1>7, <2>1, <2>2 DEF PostFails
<1> QED
  BY <1>2, <1>3, <1>4, <1>5, <1>6, <1>7 DEF HandlerStep

LEMMA PumpBound ==
    ASSUME TypeOK
    PROVE  PumpLeft \in 0 .. (Len(pending) + 1) * StepsOfEvent
<1>1. Len(pending) + 1 \in Nat \ {0} /\ StepsOfEvent \in Nat
  BY StageSteps DEF TypeOK
<1>2. /\ Len(pending) * StepsOfEvent \in Nat
      /\ (Len(pending) + 1) * StepsOfEvent = Len(pending) * StepsOfEvent + StepsOfEvent
  <2> DEFINE n == Len(pending) + 1
  <2>1. n - 1 = Len(pending)
    BY DEF TypeOK
  <2> QED
    BY <1>1, <2>1, OneTimesLess
<1> QED
  BY <1>1, <1>2, StageSteps DEF PumpLeft

(* Every step of the pump leaves it less to do, whatever fails: an event is  *)
(* let go within 3 * Attempts + 3 steps, and one behind n others waits for   *)
(* n + 1 times as many at most (queue.ts, consumer.ts, backend-events.ts).   *)
THEOREM EventsAreLetGo ==
    Spec => PumpMakesProgress /\ [](PumpLeft \in 0 .. (Len(pending) + 1) * StepsOfEvent)
<1>1. TypeOK /\ TypeOK' /\ [Next]_vars => [HandlerStep => PumpLeft' < PumpLeft]_vars
  BY HandlerCounts
<1>2. TypeOK => PumpLeft \in 0 .. (Len(pending) + 1) * StepsOfEvent
  BY PumpBound
<1> QED
  BY <1>1, <1>2, TypeCorrect, PTL DEF Spec, PumpMakesProgress
-------------------------------------------------------------------------------
(* The sizes TickLeft adds up. *)
LEMMA TickSizes ==
    ASSUME TypeOK
    PROVE  /\ StepsOfWallet \in Nat /\ StepsOfWallet = 2 * PollLimit + 1 /\ PollLimit \in Nat
           /\ poll.todo \in SUBSET Wallets /\ poll.rows \in SUBSET Keys
           /\ \A W \in SUBSET Wallets : IsFiniteSet(W) /\ Cardinality(W) \in Nat
           /\ Cardinality(poll.rows) \in Nat
           /\ poll.at = "hasTx" => Cardinality(poll.rows) > 0
<1>1. /\ poll.todo \in SUBSET Wallets /\ poll.rows \in SUBSET Keys
      /\ poll.at = "hasTx" => poll.rows # {}
  BY DEF TypeOK, Polls
<1>2. \A W \in SUBSET Wallets : IsFiniteSet(W) /\ Cardinality(W) \in Nat
  BY DeliveryAssumption, FS_Subset, FS_CardinalityType
<1>3. Cardinality(poll.rows) \in Nat /\ (poll.rows # {} => Cardinality(poll.rows) > 0)
  BY <1>1, SightingsFinite, FS_EmptySet
<1> QED
  BY <1>1, <1>2, <1>3, DeliveryAssumption DEF StepsOfWallet

(* Where a loop goes on at the next row, the next wallet, or ends, its rows  *)
(* and wallets are all it has left.                                          *)
LEMMA NextRowCounts ==
    ASSUME NEW todo \in SUBSET Wallets, NEW rows \in SUBSET Keys, poll' = NextRow(todo, rows)
    PROVE  TickLeft' \in 0 .. Cardinality(todo) * StepsOfWallet + 2 * Cardinality(rows)
<1>1. Cardinality(todo) \in Nat /\ Cardinality(rows) \in Nat /\ StepsOfWallet \in Nat
  BY SightingsFinite, DeliveryAssumption, FS_Subset, FS_CardinalityType DEF StepsOfWallet
<1>2. /\ poll'.todo = todo /\ poll'.rows = rows /\ poll'.at \in {"hasTx", "fetch", "idle"}
  BY DEF NextRow
<1>3. StepsOfWallet' = StepsOfWallet
  BY DEF StepsOfWallet
<1>4. Cardinality(todo) * StepsOfWallet \in Nat
  BY <1>1
<1> QED
  BY <1>1, <1>2, <1>3, <1>4 DEF TickLeft

LEMMA PollCounts ==
    ASSUME TypeOK, TypeOK', PollStep, poll.at # "idle"
    PROVE  TickLeft' < TickLeft
<1> DEFINE S == StepsOfWallet
           n == Cardinality(poll.todo)
           r == Cardinality(poll.rows)
<1>1. /\ S \in Nat /\ n \in Nat /\ r \in Nat /\ n * S \in Nat
      /\ S = 2 * PollLimit + 1 /\ PollLimit \in Nat
      /\ Cardinality(Wallets) \in Nat /\ Cardinality(Wallets) * S \in Nat
  <2>1. /\ S \in Nat /\ n \in Nat /\ r \in Nat /\ Cardinality(Wallets) \in Nat
        /\ S = 2 * PollLimit + 1 /\ PollLimit \in Nat
    BY TickSizes
  <2>2. \A a \in Nat, b \in Nat : a * b \in Nat
    OBVIOUS
  <2> HIDE DEF S, n, r
  <2> QED
    BY <2>1, <2>2
<1>2. CASE PollTick
  BY <1>2 DEF PollTick
<1>3. CASE PollListed
  <2>1. TickLeft' \in 0 .. Cardinality(Wallets) * S + 2 * Cardinality({})
    BY <1>3, NextRowCounts DEF PollListed
  <2>2. TickLeft = Cardinality(Wallets) * S + 1
    BY <1>3 DEF PollListed, TickLeft
  <2> HIDE DEF S
  <2> QED
    BY <1>1, <2>1, <2>2, FS_EmptySet
<1>4. ASSUME NEW w \in Wallets, NEW rows \in Fetched(w, PollLimit), PollFetched(w, rows)
      PROVE  TickLeft' < TickLeft
  <2>1. w \in poll.todo /\ poll.todo \ {w} \in SUBSET Wallets /\ rows \in SUBSET Keys
    BY <1>1, <1>4, TickSizes, FetchedType DEF PollFetched
  <2>2. Cardinality(poll.todo \ {w}) = n - 1 /\ n \in Nat \ {0}
    <3>1. Cardinality(poll.todo \ {w}) \in Nat /\ IsFiniteSet(poll.todo) /\ n \in Nat
      BY <2>1, TickSizes
    <3>2. Cardinality(poll.todo \ {w}) = n - 1
      BY <2>1, <3>1, FS_RemoveElement
    <3> HIDE DEF n
    <3> QED
      BY <3>1, <3>2
  <2>3. TickLeft' \in 0 .. (n - 1) * S + 2 * Cardinality(rows)
    BY <1>4, <2>1, <2>2, NextRowCounts DEF PollFetched
  <2>4. Cardinality(rows) \in 0 .. PollLimit
    BY <1>1, FetchedType
  <2>5. (n - 1) * S + S = n * S /\ (n - 1) * S \in Nat
    BY <1>1, <2>2, OneTimesLess
  <2>6. TickLeft = n * S + 2 * r
    BY <1>4 DEF PollFetched, TickLeft
  <2> HIDE DEF S, n, r
  <2> QED
    BY <1>1, <2>3, <2>4, <2>5, <2>6
<1>5. CASE PollHasTx
  <2>1. PICK k \in Leading(poll.rows) :
            poll' = [poll EXCEPT !.at = "answered", !.rows = @ \ {k}, !.row = k,
                                 !.known = k \in cache]
    BY <1>5 DEF PollHasTx
  <2>2. /\ poll'.at = "answered" /\ poll'.todo = poll.todo /\ poll'.rows = poll.rows \ {k}
        /\ k \in poll.rows /\ poll.at = "hasTx" /\ IsFiniteSet(poll.rows)
    BY <1>5, <2>1, TickSizes, SightingsFinite DEF TypeOK, Polls, Leading, PollHasTx
  <2>3. Cardinality(poll.rows \ {k}) = r - 1
    BY <2>2, FS_RemoveElement
  <2>4. TickLeft = n * S + 2 * r
    BY <2>2 DEF TickLeft
  <2>5. TickLeft' = n * S + 2 * (r - 1) + 1
    BY <2>2, <2>3 DEF TickLeft, StepsOfWallet
  <2> HIDE DEF S, n, r
  <2> QED
    BY <1>1, <2>4, <2>5
<1>6. CASE PollPublishes
  <2>1. /\ poll.at = "answered" /\ poll.rows \in SUBSET Keys
        /\ poll' = NextRow(poll.todo, poll.rows) /\ poll.todo \in SUBSET Wallets
    BY <1>6, TickSizes DEF PollPublishes
  <2>2. TickLeft' \in 0 .. n * S + 2 * r
    BY <2>1, NextRowCounts
  <2>3. TickLeft = n * S + 2 * r + 1
    BY <2>1 DEF TickLeft
  <2> HIDE DEF S, n, r
  <2> QED
    BY <1>1, <2>2, <2>3
<1> QED
  BY <1>2, <1>3, <1>4, <1>5, <1>6 DEF PollStep

LEMMA TickBound == TypeOK => TickLeft \in Nat
<1> SUFFICES ASSUME TypeOK PROVE TickLeft \in Nat
  OBVIOUS
<1> DEFINE n == Cardinality(poll.todo)
           r == Cardinality(poll.rows)
           N == Cardinality(Wallets)
<1>1. /\ StepsOfWallet \in Nat /\ n \in Nat /\ r \in Nat /\ N \in Nat
  BY TickSizes
<1>2. \/ TickLeft \in {0, N * StepsOfWallet + 1, n * StepsOfWallet + 2 * r}
      \/ TickLeft = n * StepsOfWallet + 2 * r + 1
  BY DEF TickLeft
<1> HIDE DEF n, r, N
<1>3. n * StepsOfWallet \in Nat /\ N * StepsOfWallet \in Nat
  BY <1>1
<1> QED
  BY <1>1, <1>2, <1>3

(* A tick ends: each step of it, whatever the LCD answers and the queue      *)
(* takes, leaves fewer wallets and rows to go through (poll.ts).             *)
THEOREM TicksEnd == Spec => TickMakesProgress /\ [](TickLeft \in Nat)
<1>1. TypeOK /\ TypeOK' /\ [Next]_vars =>
         [PollStep => TickLeft' < TickLeft \/ poll.at = "idle"]_vars
  BY PollCounts
<1> QED
  BY <1>1, TickBound, TypeCorrect, PTL DEF Spec, TickMakesProgress
===============================================================================
