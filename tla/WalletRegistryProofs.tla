------------------------- MODULE WalletRegistryProofs -------------------------
(* Proofs about WalletRegistry, for every number of wallets, callers and     *)
(* overlapping calls and every value of the limits.                          *)
EXTENDS WalletRegistry, FiniteSetTheorems, TLAPS

LEMMA LaterIsNat ==
    ASSUME NEW a \in Nat, NEW b \in Nat
    PROVE  Later(a, b) \in Nat /\ Later(a, b) >= a /\ Later(a, b) >= b
BY DEF Later

LEMMA PrunedType ==
    ASSUME TypeOK, NEW S, NEW t \in Nat
    PROVE  Pruned(S, t) \in [Subscribers -> [Wallets -> Nat]]
BY DEF Pruned, TypeOK

LEMMA UpsertedType ==
    ASSUME NEW old \in Row \cup {NoRow}, NEW new \in Row
    PROVE  /\ Upserted(old, new) \in Row
           /\ Upserted(old, new).watch >= new.watch
           /\ Durable /\ old # NoRow => Upserted(old, new).watch >= old.watch
BY DEF Upserted, Row, Later
-------------------------------------------------------------------------------
LEMMA TypeInit == Init => TypeOK
BY SetsAssumption, LimitsAssumption
DEF Init, TypeOK, Labels, Waiting, Outcomes, Requests, NoReq, Row, Subscribers

LEMMA TypeNext == TypeOK /\ [Next]_vars => TypeOK'
<1> SUFFICES ASSUME TypeOK, [Next]_vars PROVE TypeOK'
  OBVIOUS
<1> USE SetsAssumption, LimitsAssumption
<1> USE DEF TypeOK, Labels, Waiting, Outcomes, Goto, End, process, callVars
<1>1. ASSUME NEW c \in Calls, NEW s \in Subscribers, NEW w \in Wallets, NEW push \in BOOLEAN,
             Ensure(c, s, w, push)
      PROVE  TypeOK'
  <2>1. req'[c] \in Requests
    BY <1>1 DEF Ensure, Requests, Subscribers, Watchable
  <2> QED
    BY <1>1, <2>1 DEF Ensure, Watchable
<1>2. ASSUME NEW c \in Calls, GetWallet(c) PROVE TypeOK'
  BY <1>2 DEF GetWallet, Requests
<1>3. ASSUME NEW c \in Calls, Refresh(c) PROVE TypeOK'
  BY <1>3, UpsertedType, LaterIsNat DEF Refresh, Upsert, Requests, Row
<1>4. ASSUME NEW c \in Calls, RefuseQuota(c) PROVE TypeOK'
  BY <1>4, PrunedType DEF RefuseQuota, Requests
<1>5. ASSUME NEW c \in Calls, AdmitQuota(c) PROVE TypeOK'
  <2>1. req[c].at \in Nat
    BY DEF Requests
  <2>2. \A S : Pruned(S, req[c].at) \in [Subscribers -> [Wallets -> Nat]]
    BY <2>1, PrunedType
  <2>3. lastSweepAt' \in Nat /\ registrations' \in [Subscribers -> [Wallets -> Nat]]
    BY <1>5, <2>1, <2>2 DEF AdmitQuota, BeginSweep
  <2> QED
    BY <1>5, <2>3 DEF AdmitQuota, BeginSweep
<1>6. ASSUME NEW c \in Calls, SweepList(c) PROVE TypeOK'
  BY <1>6 DEF SweepList, Evictable, Stored, Requests
<1>7. ASSUME NEW c \in Calls, NEW w \in Wallets, SweepDelete(c, w) PROVE TypeOK'
  BY <1>7 DEF SweepDelete
<1>8. ASSUME NEW c \in Calls, SweepEnd(c) PROVE TypeOK'
  <2>1. CASE req[c].op # "list" /\ forced[c] /\ ~evicted[c]
    BY <1>8, <2>1 DEF SweepEnd
  <2>2. CASE ~(req[c].op # "list" /\ forced[c] /\ ~evicted[c])
    <3> DEFINE label == IF req[c].op = "list" THEN "watchList" ELSE "capList"
    <3>1. pc' = [pc EXCEPT ![c] = label] /\ UNCHANGED outcome
      BY <1>8, <2>2 DEF SweepEnd
    <3>2. label \in Labels /\ (req[c].op = "list" => label = "watchList")
      OBVIOUS
    <3>3. req[c].op # "none"
      BY <1>8 DEF SweepEnd
    <3> HIDE DEF label
    <3> QED
      BY <1>8, <3>1, <3>2, <3>3 DEF SweepEnd
  <2> QED
    BY <2>1, <2>2
<1>9. ASSUME NEW c \in Calls, CapList(c) PROVE TypeOK'
  BY <1>9 DEF CapList
<1>10. ASSUME NEW c \in Calls, ForceSweep(c) PROVE TypeOK'
  BY <1>10, PrunedType DEF ForceSweep, BeginSweep, Requests
<1>11. ASSUME NEW c \in Calls, Create(c) PROVE TypeOK'
  <2>1. [touched |-> req[c].at, watch |-> req[c].watch] \in Row
    BY DEF Requests, Row
  <2>2. rows' \in [Wallets -> Row \cup {NoRow}]
    BY <1>11, <2>1, UpsertedType DEF Create, Upsert
  <2> QED
    BY <1>11, <2>2 DEF Create
<1>12. ASSUME NEW c \in Calls, Created(c) PROVE TypeOK'
  BY <1>12 DEF Created, Requests
<1>13. ASSUME NEW c \in Calls, List(c) PROVE TypeOK'
  <2>1. Pruned(Subscribers, now) \in [Subscribers -> [Wallets -> Nat]]
    BY PrunedType
  <2>2. lastSweepAt' \in Nat /\ registrations' \in [Subscribers -> [Wallets -> Nat]]
    BY <1>13, <2>1 DEF List, BeginSweep
  <2>3. [NoReq EXCEPT !.op = "list", !.at = now] \in Requests
    BY DEF NoReq, Requests, Subscribers
  <2>4. req' = [req EXCEPT ![c] = [NoReq EXCEPT !.op = "list", !.at = now]]
    BY <1>13 DEF List
  <2>5. req'[c].op = "list"
    BY <2>4 DEF NoReq
  <2> QED
    BY <1>13, <2>2, <2>3, <2>4, <2>5 DEF List
<1>14. ASSUME NEW c \in Calls, WatchList(c) PROVE TypeOK'
  BY <1>14 DEF WatchList, Stored
<1>15. ASSUME NEW S, Clear(S) PROVE
          /\ pc' \in [Calls -> Labels]
          /\ req' \in [Calls -> Requests]
          /\ found' \in [Calls -> Row \cup {NoRow}]
          /\ todo' \in [Calls -> SUBSET Wallets]
          /\ forced' \in [Calls -> BOOLEAN] /\ evicted' \in [Calls -> BOOLEAN]
          /\ outcome' \in [Calls -> Outcomes]
          /\ listed' \in [Calls -> SUBSET Wallets]
          /\ \A c \in Calls :
                /\ req'[c].op \in {"ensure", "push"} => req'[c].wallet \in Wallets
                /\ pc'[c] \in Waiting => req'[c].op # "none"
                /\ pc'[c] \in Waiting \ {"sweepList", "sweepDelete", "watchList"}
                      => req'[c].op # "list"
                /\ pc'[c] = "refresh" => found'[c] # NoRow
  BY <1>15 DEF Clear, Requests, NoReq, Subscribers
<1>16. ASSUME NEW c \in Calls, Return(c) PROVE TypeOK'
  BY <1>15, <1>16, LaterIsNat DEF Return, Requests
<1>17. ASSUME NEW c \in Calls, StoreError(c) PROVE TypeOK'
  BY <1>15, <1>17 DEF StoreError
<1>18. CASE Restart
  BY <1>15, <1>18 DEF Restart
<1>19. CASE Tick
  BY <1>19 DEF Tick
<1>20. CASE UNCHANGED vars
  BY <1>20 DEF vars
<1>21. QED
  BY <1>1, <1>2, <1>3, <1>4, <1>5, <1>6, <1>7, <1>8, <1>9, <1>10, <1>11, <1>12, <1>13,
     <1>14, <1>16, <1>17, <1>18, <1>19, <1>20
  DEF Next, StartCall, CallStep, Subscribers

(* Every reachable state of the registry is well typed, and a call holds a   *)
(* wallet and a row whenever it is about to use them.                        *)
THEOREM TypeCorrect == Spec => []TypeOK
BY TypeInit, TypeNext, PTL DEF Spec
-------------------------------------------------------------------------------
(* The cap.  A call that has been let through to its write has reserved its  *)
(* wallet: the rows and the reservations together are what is bounded.  A    *)
(* call reserves on a listing below the cap, when even all the calls         *)
(* reserving at once stay within the bound, or for a wallet whose row it saw,*)
(* and the write only turns the reservation into a row.                      *)
Writing == {"refresh", "create"}
Reserved == {req[c].wallet : c \in {d \in Calls : pc[d] \in Writing}}
Taken == Stored \cup Reserved
CapLimit == MaxWallets - 1 + Cardinality(Calls)
CapInv == Taken \subseteq Wallets /\ Cardinality(Taken) <= CapLimit

LEMMA SubsetOfWallets ==
    ASSUME NEW S \in SUBSET Wallets
    PROVE  IsFiniteSet(S) /\ Cardinality(S) \in Nat
BY SetsAssumption, FS_Subset, FS_CardinalityType

LEMMA Smaller ==
    ASSUME NEW S \in SUBSET Wallets, NEW T \in SUBSET S
    PROVE  Cardinality(T) <= Cardinality(S)
BY SubsetOfWallets, FS_Subset

LEMMA CallsCount == Cardinality(Calls) \in Nat \ {0}
BY SetsAssumption, FS_CardinalityType, FS_EmptySet

(* As many wallets as calls, at most, are named by any set of calls. *)
LEMMA NamedCount ==
    ASSUME NEW C \in SUBSET Calls, NEW f \in [C -> Wallets]
    PROVE  Cardinality({f[c] : c \in C}) <= Cardinality(Calls)
<1> DEFINE T == {f[c] : c \in C}
<1>1. IsFiniteSet(C) /\ Cardinality(C) <= Cardinality(Calls)
  BY SetsAssumption, FS_Subset
<1>2. f \in Surjection(C, T)
  BY DEF Surjection
<1>3. Cardinality(T) <= Cardinality(C)
  BY <1>1, <1>2, FS_Surjection
<1>4. Cardinality(C) \in Nat /\ Cardinality(Calls) \in Nat
  BY <1>1, SetsAssumption, FS_CardinalityType
<1>5. T \in SUBSET Wallets
  OBVIOUS
<1>6. Cardinality(T) \in Nat
  BY <1>5, SubsetOfWallets
<1> QED
  BY <1>1, <1>3, <1>4, <1>6

LEMMA SumBound ==
    ASSUME NEW S \in SUBSET Wallets, NEW T \in SUBSET Wallets,
           NEW n \in Nat, Cardinality(S) < n, Cardinality(T) <= Cardinality(Calls)
    PROVE  Cardinality(S \cup T) <= n - 1 + Cardinality(Calls)
<1>1. /\ IsFiniteSet(S) /\ Cardinality(S) \in Nat
      /\ IsFiniteSet(T) /\ Cardinality(T) \in Nat
      /\ Cardinality(S \cap T) \in Nat
  BY SubsetOfWallets
<1>2. Cardinality(S \cup T) = Cardinality(S) + Cardinality(T) - Cardinality(S \cap T)
  BY <1>1, FS_Union
<1> QED
  BY <1>1, <1>2, CallsCount

LEMMA CapInit == Init => CapInv
<1> SUFFICES ASSUME Init PROVE CapInv
  OBVIOUS
<1>1. PICK legacy \in SUBSET UnsafeWallets :
          /\ Cardinality(legacy) <= MaxWallets
          /\ rows = [w \in Wallets |->
                IF w \in legacy THEN [touched |-> 0, watch |-> 0] ELSE NoRow]
  BY DEF Init
<1>2. Reserved = {}
  BY DEF Init, Reserved, Writing
<1>3. [touched |-> 0, watch |-> 0] # NoRow
  BY SetsAssumption DEF Row
<1>4. Stored = legacy
  BY <1>1, <1>3, SetsAssumption DEF Stored
<1>5. Taken = legacy /\ legacy \in SUBSET Wallets
  BY <1>2, <1>4, SetsAssumption DEF Taken
<1> QED
  BY <1>1, <1>5, SubsetOfWallets, CallsCount, LimitsAssumption DEF CapInv, CapLimit

(* A step that takes no wallet keeps the bound. *)
LEMMA CapKept ==
    ASSUME CapInv, Taken' \subseteq Taken
    PROVE  CapInv'
<1>1. Taken' \in SUBSET Wallets /\ Taken \in SUBSET Wallets
  BY DEF CapInv
<1>2. Cardinality(Taken') <= Cardinality(Taken)
  BY <1>1, Smaller
<1>3. Cardinality(Taken') \in Nat /\ Cardinality(Taken) \in Nat /\ CapLimit \in Nat
  BY <1>1, SubsetOfWallets, CallsCount, LimitsAssumption DEF CapLimit
<1> QED
  BY <1>1, <1>2, <1>3 DEF CapInv, CapLimit

LEMMA CapNext == TypeOK /\ CapInv /\ [Next]_vars => CapInv'
<1> SUFFICES ASSUME TypeOK, CapInv, [Next]_vars PROVE CapInv'
  OBVIOUS
<1> USE DEF Goto, End, process, callVars
<1>1. ASSUME NEW c \in Calls, NEW s \in Subscribers, NEW w \in Wallets, NEW push \in BOOLEAN,
             Ensure(c, s, w, push)
      PROVE  Taken' \subseteq Taken
  BY <1>1 DEF Ensure, TypeOK, Taken, Stored, Reserved, Writing
<1>2. ASSUME NEW c \in Calls, GetWallet(c) PROVE Taken' \subseteq Taken
  <2>1. Stored' = Stored /\ req' = req
    BY <1>2 DEF GetWallet, Stored
  <2>2. pc'[c] \in Writing => req[c].wallet \in Stored
    BY <1>2 DEF GetWallet, TypeOK, Writing, Stored, Waiting, Requests
  <2>3. \A d \in Calls : d # c => pc'[d] = pc[d]
    BY <1>2 DEF GetWallet, TypeOK
  <2> QED
    BY <2>1, <2>2, <2>3 DEF Taken, Reserved
<1>3. ASSUME NEW c \in Calls, Refresh(c) \/ Create(c) PROVE Taken' \subseteq Taken
  <2>1. Stored' \subseteq Stored \cup {req[c].wallet}
    BY <1>3 DEF Refresh, Create, Upsert, TypeOK, Stored
  <2>2. req[c].wallet \in Reserved
    BY <1>3 DEF Refresh, Create, Reserved, Writing
  <2>3. Reserved' \subseteq Reserved
    BY <1>3 DEF Refresh, Create, Reserved, Writing, TypeOK
  <2> QED
    BY <2>1, <2>2, <2>3 DEF Taken
<1>4. ASSUME NEW c \in Calls, RefuseQuota(c) \/ AdmitQuota(c) \/ SweepList(c) \/ SweepEnd(c)
                              \/ ForceSweep(c) \/ Created(c) \/ WatchList(c)
      PROVE  Taken' \subseteq Taken
  <2>1. /\ rows' = rows /\ req' = req
        /\ \A d \in Calls : pc'[d] \in Writing => pc[d] \in Writing
    BY <1>4 DEF RefuseQuota, AdmitQuota, SweepList, SweepEnd, ForceSweep, Created, WatchList,
                TypeOK, Writing
  <2> QED
    BY <2>1 DEF Taken, Stored, Reserved
<1>5. ASSUME NEW c \in Calls, NEW w \in Wallets, SweepDelete(c, w) PROVE Taken' \subseteq Taken
  BY <1>5 DEF SweepDelete, TypeOK, Taken, Stored, Reserved
<1>6. ASSUME NEW c \in Calls, CapList(c) PROVE CapInv'
  <2>1. Stored' = Stored /\ Stored \in SUBSET Wallets /\ req' = req
    BY <1>6 DEF CapList, Stored
  <2>2. CASE ~Full(Cardinality(Stored))
    <3>1. Cardinality(Stored) < MaxWallets
      BY <2>1, <2>2, SubsetOfWallets, LimitsAssumption DEF Full
    <3> DEFINE W == {d \in Calls : pc'[d] \in Writing}
               f == [d \in W |-> req[d].wallet]
    <3>2. f \in [W -> Wallets]
      BY <1>6 DEF CapList, TypeOK, Writing, Waiting, Requests
    <3>3. Reserved' = {f[d] : d \in W}
      BY <2>1 DEF Reserved
    <3>4. W \in SUBSET Calls
      OBVIOUS
    <3> HIDE DEF W, f
    <3>5. Reserved' \in SUBSET Wallets /\ Cardinality(Reserved') <= Cardinality(Calls)
      BY <3>2, <3>3, <3>4, NamedCount
    <3> QED
      BY <2>1, <3>1, <3>5, SumBound, LimitsAssumption DEF CapInv, CapLimit, Taken
  <2>3. CASE Full(Cardinality(Stored))
    BY <1>6, <2>1, <2>3, CapKept DEF CapList, TypeOK, Taken, Reserved, Writing
  <2> QED
    BY <2>2, <2>3
<1>7. ASSUME NEW c \in Calls, List(c) PROVE Taken' \subseteq Taken
  BY <1>7 DEF List, TypeOK, Taken, Stored, Reserved, Writing
<1>8. ASSUME NEW S, Clear(S), Stored' \subseteq Stored PROVE Taken' \subseteq Taken
  BY <1>8 DEF Clear, Taken, Stored, Reserved, Writing
<1>9. ASSUME NEW c \in Calls, Return(c) \/ StoreError(c) PROVE Taken' \subseteq Taken
  BY <1>8, <1>9 DEF Return, StoreError, Stored
<1>10. CASE Restart
  <2>1. Stored' \subseteq Stored
    BY <1>10 DEF Restart, Stored
  <2> QED
    BY <1>8, <1>10, <2>1, CapKept DEF Restart
<1>11. CASE Tick
  BY <1>11, CapKept DEF Tick, Taken, Stored, Reserved
<1>12. CASE UNCHANGED vars
  BY <1>12, CapKept DEF vars, Taken, Stored, Reserved
<1>13. QED
  BY <1>1, <1>2, <1>3, <1>4, <1>5, <1>6, <1>7, <1>9, <1>10, <1>11, <1>12, CapKept
  DEF Next, StartCall, CallStep, Subscribers

(* The table never holds more than one wallet over the cap for each call in  *)
(* flight beyond the first, however many calls there are and however long    *)
(* they go on overlapping (ensure, lines 170-192).                           *)
THEOREM CapIsBounded == Spec => []CapBound
<1>1. CapInv => CapBound
  <2> SUFFICES ASSUME CapInv PROVE CapBound
    OBVIOUS
  <2>1. Taken \in SUBSET Wallets /\ Stored \in SUBSET Taken
    BY DEF CapInv, Taken
  <2>2. Cardinality(Stored) <= Cardinality(Taken)
    BY <2>1, Smaller
  <2>3. Cardinality(Stored) \in Nat /\ Cardinality(Taken) \in Nat
    BY <2>1, SubsetOfWallets
  <2> QED
    BY <2>2, <2>3, CallsCount, LimitsAssumption DEF CapInv, CapLimit, CapBound
<1> QED
  BY <1>1, CapInit, CapNext, TypeCorrect, PTL DEF Spec
-------------------------------------------------------------------------------
(* The quota.  The same argument for one caller: its registrations and the   *)
(* wallets of its calls that passed the quota check are bounded together.    *)
Admitted == {"sweepList", "sweepDelete", "capList", "full", "create", "created"}
AdmittedCalls(s) == {c \in Calls : pc[c] \in Admitted /\ req[c].op # "list" /\ req[c].caller = s}
Registered(s) == {w \in Wallets : registrations[s][w] # 0}
Granted(s) == Registered(s) \cup {req[c].wallet : c \in AdmittedCalls(s)}
QuotaLimit(s) == Quota(s) - 1 + Cardinality(Calls)
QuotaInv == \A s \in Subscribers :
    Granted(s) \subseteq Wallets /\ Cardinality(Granted(s)) <= QuotaLimit(s)

LEMMA QuotaIsNat == \A s \in Subscribers : Quota(s) \in Nat \ {0} /\ QuotaLimit(s) \in Nat
BY LimitsAssumption, CallsCount DEF Quota, QuotaLimit

LEMMA QuotaInit == Init => QuotaInv
<1> SUFFICES ASSUME Init, NEW s \in Subscribers
             PROVE  Granted(s) \subseteq Wallets /\ Cardinality(Granted(s)) <= QuotaLimit(s)
  BY DEF QuotaInv
<1>1. Granted(s) = {}
  BY DEF Init, Granted, Registered, AdmittedCalls, Admitted
<1> QED
  BY <1>1, FS_EmptySet, QuotaIsNat

LEMMA GrantedSmaller ==
    ASSUME QuotaInv, NEW s \in Subscribers, Granted(s)' \subseteq Granted(s)
    PROVE  Granted(s)' \subseteq Wallets /\ Cardinality(Granted(s)') <= QuotaLimit(s)
<1>1. Granted(s) \in SUBSET Wallets /\ Granted(s)' \in SUBSET Wallets
  BY DEF QuotaInv
<1>2. Cardinality(Granted(s)') <= Cardinality(Granted(s))
  BY <1>1, Smaller
<1>3. Cardinality(Granted(s)') \in Nat /\ Cardinality(Granted(s)) \in Nat
  BY <1>1, SubsetOfWallets
<1> QED
  BY <1>1, <1>2, <1>3, QuotaIsNat DEF QuotaInv

LEMMA QuotaKept ==
    ASSUME QuotaInv, \A s \in Subscribers : Granted(s)' \subseteq Granted(s)
    PROVE  QuotaInv'
<1> SUFFICES ASSUME NEW s \in Subscribers
             PROVE  Granted(s)' \subseteq Wallets /\ Cardinality(Granted(s)') <= QuotaLimit(s)
  BY DEF QuotaInv, QuotaLimit, Quota
<1> QED
  BY GrantedSmaller

(* Forgetting expired registrations adds none. *)
LEMMA PrunedRegistered ==
    ASSUME TypeOK, NEW S, NEW t, registrations' = Pruned(S, t), NEW s \in Subscribers
    PROVE  /\ Registered(s)' \subseteq Registered(s)
           /\ s \in S => Registered(s)' = Counted(s, t)
BY DEF TypeOK, Pruned, Registered, Counted

LEMMA QuotaNext == TypeOK /\ QuotaInv /\ [Next]_vars => QuotaInv'
<1> SUFFICES ASSUME TypeOK, QuotaInv, [Next]_vars PROVE QuotaInv'
  OBVIOUS
<1> USE DEF Goto, End, process, callVars
<1>1. ASSUME NEW c \in Calls, NEW s \in Subscribers, NEW w \in Wallets, NEW push \in BOOLEAN,
             Ensure(c, s, w, push)
      PROVE  QuotaInv'
  <2>1. registrations' = registrations
        /\ \A d \in Calls : pc'[d] \in Admitted => d # c /\ pc'[d] = pc[d]
        /\ \A e \in Calls : e # c => req'[e] = req[e]
    BY <1>1 DEF Ensure, TypeOK, Admitted
  <2> QED
    BY <2>1, QuotaKept DEF Granted, Registered, AdmittedCalls
<1>2. ASSUME registrations' = registrations, req' = req,
             \A d \in Calls : pc'[d] \in Admitted /\ req[d].op # "list" => pc[d] \in Admitted
      PROVE  QuotaInv'
  BY <1>2, QuotaKept DEF Granted, Registered, AdmittedCalls
<1>3. ASSUME NEW c \in Calls, GetWallet(c) \/ Refresh(c) \/ SweepList(c) \/ SweepEnd(c)
                              \/ CapList(c) \/ Create(c) \/ WatchList(c)
      PROVE  QuotaInv'
  BY <1>2, <1>3 DEF GetWallet, Refresh, SweepList, SweepEnd, CapList, Create, WatchList,
                    TypeOK, Admitted
<1>4. ASSUME NEW c \in Calls, NEW w \in Wallets, SweepDelete(c, w) PROVE QuotaInv'
  BY <1>2, <1>4 DEF SweepDelete
<1>5. ASSUME req' = req, NEW S, NEW t, registrations' = Pruned(S, t),
             \A d \in Calls : pc'[d] \in Admitted /\ req[d].op # "list" => pc[d] \in Admitted
      PROVE  QuotaInv'
  <2>1. \A s \in Subscribers : Registered(s)' \subseteq Registered(s)
    BY <1>5, PrunedRegistered
  <2> QED
    BY <1>5, <2>1, QuotaKept DEF Granted, AdmittedCalls
<1>6. ASSUME NEW c \in Calls, RefuseQuota(c) \/ ForceSweep(c) PROVE QuotaInv'
  BY <1>5, <1>6 DEF RefuseQuota, ForceSweep, BeginSweep, TypeOK, Admitted
<1>7. ASSUME NEW c \in Calls, AdmitQuota(c) PROVE QuotaInv'
  <2>0. PICK s \in Subscribers, t \in Nat : s = req[c].caller /\ t = req[c].at
    BY DEF TypeOK, Requests
  <2>1. req' = req /\ req[c].wallet \in Wallets
    BY <1>7 DEF AdmitQuota, TypeOK, Requests, Waiting
  <2>2. PICK S : s \in S /\ registrations' = Pruned(S, t)
    BY <1>7, <2>0 DEF AdmitQuota, BeginSweep
  <2>3. \A d \in Calls : d # c => pc'[d] = pc[d]
    BY <1>7 DEF AdmitQuota, TypeOK
  <2>4. \A r \in Subscribers : r # s => Granted(r)' \subseteq Granted(r)
    <3>1. \A r \in Subscribers : Registered(r)' \subseteq Registered(r)
      BY <2>2, PrunedRegistered
    <3>2. \A r \in Subscribers : r # s => AdmittedCalls(r)' \subseteq AdmittedCalls(r)
      BY <2>0, <2>1, <2>3 DEF AdmittedCalls
    <3> QED
      BY <2>1, <3>1, <3>2 DEF Granted
  <2>5. Counted(s, t) \in SUBSET Wallets /\ Registered(s)' = Counted(s, t)
    BY <2>1, <2>2, PrunedRegistered DEF Counted
  <2>6. Cardinality(Counted(s, t)) < Quota(s)
    BY <1>7, <2>0, <2>5, SubsetOfWallets, QuotaIsNat DEF AdmitQuota, OverQuota
  <2>7. AdmittedCalls(s)' \in SUBSET Calls
    BY DEF AdmittedCalls
  <2> DEFINE f == [d \in AdmittedCalls(s)' |-> req[d].wallet]
  <2>8. f \in [AdmittedCalls(s)' -> Wallets]
    <3> SUFFICES ASSUME NEW d \in AdmittedCalls(s)' PROVE req[d].wallet \in Wallets
      OBVIOUS
    <3>1. CASE d = c
      BY <2>1, <3>1
    <3>2. CASE d # c
      <4>1. d \in Calls /\ pc[d] \in Admitted /\ req[d].op # "list"
        BY <2>1, <2>3, <3>2 DEF AdmittedCalls
      <4> QED
        BY <4>1 DEF TypeOK, Requests, Admitted, Waiting
    <3> QED
      BY <3>1, <3>2
  <2>9. {req'[d].wallet : d \in AdmittedCalls(s)'} = {f[d] : d \in AdmittedCalls(s)'}
    BY <2>1
  <2> HIDE DEF f
  <2>10. /\ {f[d] : d \in AdmittedCalls(s)'} \in SUBSET Wallets
         /\ Cardinality({f[d] : d \in AdmittedCalls(s)'}) <= Cardinality(Calls)
    BY <2>7, <2>8, NamedCount
  <2>11. Granted(s)' = Counted(s, t) \cup {f[d] : d \in AdmittedCalls(s)'}
    BY <2>5, <2>9 DEF Granted
  <2>12. Granted(s)' \subseteq Wallets /\ Cardinality(Granted(s)') <= QuotaLimit(s)
    BY <2>5, <2>6, <2>10, <2>11, SumBound, QuotaIsNat DEF QuotaLimit
  <2> QED
    BY <2>4, <2>12, GrantedSmaller DEF QuotaInv, QuotaLimit, Quota
<1>8. ASSUME NEW c \in Calls, Created(c) PROVE QuotaInv'
  <2>1. req[c].caller \in Subscribers /\ c \in AdmittedCalls(req[c].caller) /\ req' = req
    BY <1>8 DEF Created, TypeOK, AdmittedCalls, Admitted, Requests, Waiting
  <2>2. \A s \in Subscribers : Registered(s)' \subseteq Granted(s)
    BY <1>8, <2>1 DEF Created, TypeOK, Registered, Granted
  <2>3. \A s \in Subscribers : AdmittedCalls(s)' \subseteq AdmittedCalls(s)
    BY <1>8, <2>1 DEF Created, TypeOK, AdmittedCalls, Admitted
  <2> QED
    BY <2>1, <2>2, <2>3, QuotaKept DEF Granted
<1>9. ASSUME NEW c \in Calls, List(c) PROVE QuotaInv'
  <2>1. \A d \in Calls : d # c => pc'[d] = pc[d] /\ req'[d] = req[d]
    BY <1>9 DEF List, TypeOK
  <2>2. req'[c].op = "list"
    BY <1>9 DEF List, TypeOK, NoReq
  <2>3. \A s \in Subscribers : AdmittedCalls(s)' \subseteq AdmittedCalls(s) \ {c}
    BY <2>1, <2>2 DEF AdmittedCalls
  <2>4. \A s \in Subscribers : Registered(s)' \subseteq Registered(s)
    BY <1>9, PrunedRegistered DEF List, BeginSweep, Registered
  <2>5. \A s \in Subscribers : \A d \in AdmittedCalls(s)' :
            d \in AdmittedCalls(s) /\ req'[d] = req[d]
    BY <2>1, <2>3 DEF AdmittedCalls
  <2> QED
    BY <2>4, <2>5, QuotaKept DEF Granted
<1>10. ASSUME NEW S, Clear(S), \A s \in Subscribers : Registered(s)' \subseteq Registered(s)
       PROVE  QuotaInv'
  BY <1>10, QuotaKept DEF Clear, Granted, AdmittedCalls, Admitted
<1>11. ASSUME NEW c \in Calls, Return(c) \/ StoreError(c) PROVE QuotaInv'
  BY <1>10, <1>11 DEF Return, StoreError, Registered
<1>12. CASE Restart
  BY <1>10, <1>12 DEF Restart, Registered
<1>13. CASE Tick
  BY <1>2, <1>13 DEF Tick
<1>14. CASE UNCHANGED vars
  BY <1>2, <1>14 DEF vars
<1>15. QED
  BY <1>1, <1>3, <1>4, <1>6, <1>7, <1>8, <1>9, <1>11, <1>12, <1>13, <1>14
  DEF Next, StartCall, CallStep, Subscribers

(* The registrations of a caller exceed its quota by no more than the calls  *)
(* in flight beyond the first (ensure, lines 158-193).                       *)
THEOREM QuotaIsBounded == Spec => []QuotaBound
<1>1. QuotaInv => QuotaBound
  <2> SUFFICES ASSUME QuotaInv, NEW s \in Subscribers
               PROVE  Cardinality(Registered(s)) <= QuotaLimit(s)
    BY DEF QuotaBound, Registered, QuotaLimit
  <2>1. Granted(s) \in SUBSET Wallets /\ Registered(s) \in SUBSET Granted(s)
    BY DEF QuotaInv, Granted
  <2>2. Cardinality(Registered(s)) <= Cardinality(Granted(s))
    BY <2>1, Smaller
  <2>3. Cardinality(Registered(s)) \in Nat /\ Cardinality(Granted(s)) \in Nat
    BY <2>1, SubsetOfWallets
  <2> QED
    BY <2>2, <2>3, QuotaIsNat DEF QuotaInv
<1> QED
  BY <1>1, QuotaInit, QuotaNext, TypeCorrect, PTL DEF Spec
-------------------------------------------------------------------------------
(* Promises, over a durable store that deletes no wallet (Postgres).  A      *)
(* watch end that was written stays: upserts never lower it, and nothing     *)
(* else writes the table.  So it is enough that an accepted push has been    *)
(* written by the time its answer is on its way.                             *)
Kept(w, end) == rows[w] # NoRow /\ rows[w].watch >= end
PushInv(c) ==
    /\ pc[c] \notin {"sweepList", "sweepDelete"}
    /\ pc[c] # "done" => outcome[c] = "none"
    /\ (pc[c] \in Waiting \/ Accepted(c)) /\ req[c].op = "push" => Watchable(req[c].wallet)
    /\ (pc[c] = "created" \/ Accepted(c)) /\ req[c].op = "push"
          => Kept(req[c].wallet, req[c].watch)
PromiseInv ==
    /\ \A c \in Calls : PushInv(c)
    /\ \A w \in Wallets : promised[w] > 0 => Watchable(w) /\ Kept(w, promised[w])

LEMMA PromiseInit == Init => PromiseInv
BY DEF Init, PromiseInv, PushInv, Accepted, Waiting

LEMMA KeptByUpsert ==
    ASSUME Durable, TypeOK, NEW w \in Wallets, NEW row \in Row, Upsert(w, row)
    PROVE  /\ Kept(w, row.watch)'
           /\ \A v \in Wallets : \A end \in Nat : Kept(v, end) => Kept(v, end)'
<1>1. rows' = [rows EXCEPT ![w] = Upserted(rows[w], row)]
  BY DEF Upsert
<1>2. /\ Upserted(rows[w], row) \in Row
      /\ Upserted(rows[w], row).watch >= row.watch
      /\ rows[w] # NoRow => Upserted(rows[w], row).watch >= rows[w].watch
  BY UpsertedType DEF TypeOK
<1>3. \A r \in Row : r # NoRow /\ r.watch \in Nat
  BY SetsAssumption DEF Row
<1>4. \A v \in Wallets : rows[v] \in Row \cup {NoRow} /\ rows'[v] = (IF v = w
          THEN Upserted(rows[w], row) ELSE rows[v])
  BY <1>1 DEF TypeOK
<1>5. \A v \in Wallets : rows[v] # NoRow => rows'[v] \in Row /\ rows'[v].watch >= rows[v].watch
  BY <1>2, <1>3, <1>4
<1>6. rows'[w] = Upserted(rows[w], row)
  BY <1>4
<1>7. Kept(w, row.watch)'
  BY <1>2, <1>3, <1>6 DEF Kept
<1>8. ASSUME NEW v \in Wallets, NEW end \in Nat, Kept(v, end)
      PROVE  Kept(v, end)'
  BY <1>3, <1>4, <1>5, <1>8 DEF Kept
<1> QED
  BY <1>7, <1>8

(* A step that lowers no watch end and changes one call, or none, keeps the  *)
(* invariant of the others.                                                  *)
LEMMA OthersKept ==
    ASSUME TypeOK, PromiseInv, NEW c \in Calls,
           \A v \in Wallets : \A end \in Nat : Kept(v, end) => Kept(v, end)',
           \A d \in Calls \ {c} : pc'[d] = pc[d] /\ req'[d] = req[d] /\ outcome'[d] = outcome[d],
           promised' = promised, PushInv(c)'
    PROVE  PromiseInv'
<1>1. ASSUME NEW d \in Calls, d # c PROVE PushInv(d)'
  <2>1. PushInv(d) /\ pc'[d] = pc[d] /\ req'[d] = req[d] /\ outcome'[d] = outcome[d]
    BY <1>1 DEF PromiseInv
  <2>2. ASSUME pc[d] = "created" \/ Accepted(d), req[d].op = "push"
        PROVE  Kept(req[d].wallet, req[d].watch)'
    <3>1. req[d].wallet \in Wallets /\ req[d].watch \in Nat
      BY <2>2 DEF TypeOK, Requests
    <3>2. Kept(req[d].wallet, req[d].watch)
      BY <2>1, <2>2 DEF PushInv
    <3>3. rows'[req[d].wallet] # NoRow /\ rows'[req[d].wallet].watch >= req[d].watch
      BY <3>1, <3>2 DEF Kept
    <3> QED
      BY <2>1, <3>3 DEF Kept
  <2> QED
    BY <2>1, <2>2 DEF PushInv, Accepted
<1>2. \A w \in Wallets : promised[w] \in Nat
  BY DEF TypeOK
<1>3. \A w \in Wallets : promised'[w] > 0 => Watchable(w) /\ Kept(w, promised[w])'
  BY <1>2 DEF PromiseInv, Kept
<1> QED
  BY <1>1, <1>3 DEF PromiseInv, Kept

LEMMA PromiseNext == ~CanDelete /\ Durable /\ TypeOK /\ PromiseInv /\ [Next]_vars => PromiseInv'
<1> SUFFICES ASSUME ~CanDelete, Durable, TypeOK, PromiseInv, [Next]_vars PROVE PromiseInv'
  OBVIOUS
<1> USE DEF Goto, End, process, callVars
<1>0. ASSUME rows' = rows
      PROVE  \A v \in Wallets : \A end \in Nat : Kept(v, end) => Kept(v, end)'
  BY <1>0 DEF Kept
<1>1. ASSUME NEW c \in Calls, NEW s \in Subscribers, NEW w \in Wallets, NEW push \in BOOLEAN,
             Ensure(c, s, w, push)
      PROVE  PromiseInv'
  <2>1. PushInv(c)'
    BY <1>1 DEF Ensure, TypeOK, PromiseInv, PushInv, Accepted, Waiting
  <2> QED
    BY <1>0, <1>1, <2>1, OthersKept DEF Ensure, TypeOK
<1>2. ASSUME NEW c \in Calls,
             GetWallet(c) \/ RefuseQuota(c) \/ AdmitQuota(c) \/ CapList(c) \/ ForceSweep(c)
      PROVE  PromiseInv'
  <2>1. PushInv(c)'
    BY <1>2 DEF GetWallet, RefuseQuota, AdmitQuota, CapList, ForceSweep, TypeOK, PromiseInv,
                PushInv, Accepted, Waiting
  <2> QED
    BY <1>0, <1>2, <2>1, OthersKept
    DEF GetWallet, RefuseQuota, AdmitQuota, CapList, ForceSweep, TypeOK
<1>3. ASSUME NEW c \in Calls, NEW w \in Wallets, NEW row \in Row,
             w = req[c].wallet, Upsert(w, row), row.watch >= req[c].watch,
             pc[c] \in {"refresh", "create"},
             req' = req, promised' = promised,
             \/ pc' = [pc EXCEPT ![c] = "created"] /\ outcome' = outcome
             \/ pc' = [pc EXCEPT ![c] = "done"] /\ outcome' = [outcome EXCEPT ![c] = "renewed"]
      PROVE  PromiseInv'
  <2>1. /\ rows'[w] # NoRow /\ rows'[w].watch >= row.watch
        /\ \A v \in Wallets : \A end \in Nat : Kept(v, end) => Kept(v, end)'
    BY <1>3, KeptByUpsert DEF Kept
  <2>2. rows'[w].watch \in Nat /\ row.watch \in Nat /\ req[c].watch \in Nat
    <3>1. rows'[w] = Upserted(rows[w], row)
      BY <1>3 DEF Upsert, TypeOK
    <3>0. rows[w] \in Row \cup {NoRow}
      BY DEF TypeOK
    <3>2. rows'[w] \in Row
      BY <3>0, <3>1, UpsertedType
    <3>3. req[c].watch \in Nat
      BY DEF TypeOK, Requests
    <3> QED
      BY <3>2, <3>3 DEF Row
  <2>3. rows'[w].watch >= req[c].watch
    BY <1>3, <2>1, <2>2
  <2>4. req[c].op = "push" => Watchable(w)
    BY <1>3 DEF PromiseInv, PushInv, Waiting
  <2>5. PushInv(c)'
    BY <1>3, <2>1, <2>3, <2>4 DEF PromiseInv, PushInv, Accepted, Kept, TypeOK, Watchable
  <2> QED
    BY <1>3, <2>1, <2>5, OthersKept DEF TypeOK
<1>4. ASSUME NEW c \in Calls, Refresh(c) PROVE PromiseInv'
  <2> DEFINE row == [touched |-> req[c].at, watch |-> Later(found[c].watch, req[c].watch)]
  <2>1. req[c].wallet \in Wallets /\ req[c] \in Requests /\ found[c] \in Row
    BY <1>4 DEF Refresh, TypeOK, Requests, Waiting
  <2>2. req[c].at \in Nat /\ req[c].watch \in Nat /\ found[c].watch \in Nat
    BY <2>1 DEF Requests, Row
  <2>3. row \in Row /\ row.watch >= req[c].watch
    BY <2>2, LaterIsNat DEF Row
  <2>4. Upsert(req[c].wallet, row)
    BY <1>4 DEF Refresh
  <2> HIDE DEF row
  <2> QED
    BY <1>3, <1>4, <2>1, <2>3, <2>4 DEF Refresh
<1>5. ASSUME NEW c \in Calls, Create(c) PROVE PromiseInv'
  <2> DEFINE row == [touched |-> req[c].at, watch |-> req[c].watch]
  <2>1. req[c].wallet \in Wallets /\ req[c] \in Requests
    BY <1>5 DEF Create, TypeOK, Requests, Waiting
  <2>2. req[c].at \in Nat /\ req[c].watch \in Nat
    BY <2>1 DEF Requests
  <2>3. row \in Row /\ row.watch >= req[c].watch
    BY <2>2 DEF Row
  <2>4. Upsert(req[c].wallet, row)
    BY <1>5 DEF Create
  <2> HIDE DEF row
  <2> QED
    BY <1>3, <1>5, <2>1, <2>3, <2>4 DEF Create
<1>6. ASSUME NEW c \in Calls, Created(c) PROVE PromiseInv'
  <2>1. PushInv(c)'
    BY <1>6 DEF Created, TypeOK, PromiseInv, PushInv, Accepted, Waiting, Kept
  <2> QED
    BY <1>0, <1>6, <2>1, OthersKept DEF Created, TypeOK
<1>7. ASSUME NEW c \in Calls, List(c) \/ WatchList(c) PROVE PromiseInv'
  <2>1. ASSUME List(c) PROVE PushInv(c)'
    <3>1. req'[c].op = "list"
      BY <2>1 DEF List, TypeOK, NoReq
    <3> QED
      BY <2>1, <3>1 DEF List, TypeOK, PromiseInv, PushInv, Accepted
  <2>2. ASSUME WatchList(c) PROVE PushInv(c)'
    BY <2>2 DEF WatchList, TypeOK, PromiseInv, PushInv, Accepted, Waiting
  <2> QED
    BY <1>0, <1>7, <2>1, <2>2, OthersKept DEF List, WatchList, TypeOK
<1>8. ASSUME NEW c \in Calls,
             SweepList(c) \/ (\E w \in Wallets : SweepDelete(c, w)) \/ SweepEnd(c)
      PROVE  PromiseInv'
  BY <1>8 DEF SweepList, SweepDelete, SweepEnd, PromiseInv, PushInv
<1>9. ASSUME NEW S, Clear(S), rows' = rows PROVE \A c \in Calls : PushInv(c)'
  BY <1>9 DEF Clear, PromiseInv, PushInv, Accepted, Waiting, Kept
<1>10. ASSUME NEW c \in Calls, Return(c) PROVE PromiseInv'
  <2>1. \A d \in Calls : PushInv(d)'
    BY <1>9, <1>10 DEF Return
  <2>2. ASSUME NEW w \in Wallets, promised'[w] > 0
        PROVE  Watchable(w) /\ Kept(w, promised[w])'
    <3>1. CASE promised'[w] = promised[w]
      BY <1>10, <2>2, <3>1 DEF Return, PromiseInv, Kept
    <3>2. CASE promised'[w] # promised[w]
      <4>1. /\ req[c].op = "push" /\ Accepted(c) /\ w = req[c].wallet
            /\ promised'[w] = Later(promised[w], req[c].watch)
        BY <1>10, <3>2 DEF Return, TypeOK
      <4>2. promised'[w] = req[c].watch
        BY <3>2, <4>1 DEF Later
      <4>3. Watchable(w) /\ Kept(w, req[c].watch)
        BY <4>1 DEF PromiseInv, PushInv
      <4> QED
        BY <1>10, <4>2, <4>3 DEF Return, Kept
    <3> QED
      BY <3>1, <3>2
  <2> QED
    BY <2>1, <2>2 DEF PromiseInv
<1>11. ASSUME NEW c \in Calls, StoreError(c) PROVE PromiseInv'
  BY <1>9, <1>11 DEF StoreError, PromiseInv, Kept
<1>12. CASE Restart
  BY <1>9, <1>12 DEF Restart, PromiseInv, Kept
<1>13. CASE Tick
  BY <1>13 DEF Tick, PromiseInv, PushInv, Accepted, Kept
<1>14. CASE UNCHANGED vars
  BY <1>14 DEF vars, PromiseInv, PushInv, Accepted, Kept
<1>15. ASSUME NEW c \in Calls, StartCall(c) PROVE PromiseInv'
  BY <1>1, <1>7, <1>15 DEF StartCall, Subscribers
<1>16. ASSUME NEW c \in Calls, CallStep(c) PROVE PromiseInv'
  BY <1>2, <1>4, <1>5, <1>6, <1>7, <1>8, <1>10, <1>16 DEF CallStep
<1>17. QED
  BY <1>11, <1>12, <1>13, <1>14, <1>15, <1>16 DEF Next

LEMMA PromiseInvariant == ~CanDelete /\ Durable => (Spec => [](TypeOK /\ PromiseInv))
<1> SUFFICES ASSUME ~CanDelete, Durable PROVE Spec => [](TypeOK /\ PromiseInv)
  OBVIOUS
<1>1. TypeOK /\ PromiseInv /\ [Next]_vars => (TypeOK /\ PromiseInv)'
  BY PromiseNext, TypeNext
<1> QED
  BY <1>1, TypeInit, PromiseInit, PTL DEF Spec

(* Over Postgres, which deletes nothing, an acknowledged push subscription   *)
(* is never lost or cut short (registerPush, laterOf, upsertWallet).         *)
THEOREM PromisesAreKept == ~CanDelete /\ Durable => (Spec => []PromiseKept)
<1> SUFFICES ASSUME ~CanDelete, Durable PROVE Spec => []PromiseKept
  OBVIOUS
<1>1. TypeOK /\ PromiseInv => PromiseKept
  BY DEF TypeOK, PromiseInv, PromiseKept, Kept
<1> QED
  BY <1>1, PromiseInvariant, PTL

(* Over Postgres, which deletes nothing, a listing contains each wallet      *)
(* whose acknowledged watch is running, unless it is full of wallets read at *)
(* least as recently (list, lines 115-124).                                  *)
THEOREM PromisesAreWatched == ~CanDelete /\ Durable => (Spec => PromisedIsWatched)
<1> SUFFICES ASSUME ~CanDelete, Durable PROVE Spec => PromisedIsWatched
  OBVIOUS
<1> DEFINE Watches(c) ==
      WatchList(c) =>
          \A w \in Wallets : promised[w] > req[c].at =>
              \/ w \in listed'[c]
              \/ /\ Cardinality(listed'[c]) = MaxWallets
                 /\ \A v \in listed'[c] : rows[v].touched >= rows[w].touched
<1>1. TypeOK /\ PromiseInv => \A c \in Calls : Watches(c)
  <2> SUFFICES ASSUME TypeOK, PromiseInv, NEW c \in Calls, WatchList(c),
                      NEW w \in Wallets, promised[w] > req[c].at
               PROVE  \/ w \in listed'[c]
                      \/ /\ Cardinality(listed'[c]) = MaxWallets
                         /\ \A v \in listed'[c] : rows[v].touched >= rows[w].touched
    OBVIOUS
  <2>1. IsWatchSet(listed'[c], req[c].at)
    BY DEF WatchList, TypeOK
  <2>2. promised[w] \in Nat /\ req[c].at \in Nat
    BY DEF TypeOK, Requests
  <2>3. Watchable(w) /\ rows[w] # NoRow /\ rows[w].watch >= promised[w]
    BY <2>2 DEF PromiseInv, Kept
  <2>4. rows[w].watch \in Nat
    BY <2>3 DEF TypeOK, Row
  <2>5. w \in Fresh(req[c].at)
    BY <2>2, <2>3, <2>4 DEF Fresh, Stored, Idle
  <2> QED
    BY <2>1, <2>5 DEF IsWatchSet
<1>2. TypeOK /\ PromiseInv => [\A c \in Calls : Watches(c)]_vars
  BY <1>1
<1> QED
  BY <1>2, PromiseInvariant, PTL DEF PromisedIsWatched
-------------------------------------------------------------------------------
(* The watch contract.  A step either leaves the watch ends and the promises *)
(* alone, or writes one row, or acknowledges one end that PromiseInv says is *)
(* stored.                                                                   *)
LEMMA ContractInit == Init => Contract!Init
BY SetsAssumption DEF Init, Contract!Init, WatchEnd, Row

LEMMA UpsertExtends ==
    ASSUME Durable, TypeOK, NEW w \in Wallets, NEW row \in Row, Upsert(w, row), UNCHANGED promised
    PROVE  [Contract!Next]_(Contract!contract)
<1> DEFINE old == rows[w]
           new == Upserted(rows[w], row)
<1>1. rows' = [rows EXCEPT ![w] = new]
  BY DEF Upsert
<1>2. /\ new \in Row /\ new # NoRow
      /\ old # NoRow => old \in Row /\ new.watch >= old.watch
  BY UpsertedType, SetsAssumption DEF TypeOK
<1>3. /\ WatchEnd \in [Wallets -> Nat] /\ new.watch \in Nat
      /\ WatchEnd[w] = IF old = NoRow THEN 0 ELSE old.watch
  BY <1>2 DEF WatchEnd, TypeOK, Row
<1>4. WatchEnd' = [WatchEnd EXCEPT ![w] = new.watch]
  BY <1>1, <1>2 DEF WatchEnd, TypeOK
<1> HIDE DEF old, new
<1>5. CASE new.watch = WatchEnd[w]
  BY <1>3, <1>4, <1>5 DEF Contract!contract
<1>6. CASE new.watch # WatchEnd[w]
  <2>1. WatchEnd'[w] > WatchEnd[w] /\ WatchEnd'[w] = new.watch
    BY <1>2, <1>3, <1>4, <1>6 DEF Row
  <2> QED
    BY <1>4, <2>1 DEF Contract!Next, Contract!Extend
<1> QED
  BY <1>5, <1>6

LEMMA ContractNext ==
    ~CanDelete /\ Durable /\ TypeOK /\ PromiseInv /\ [Next]_vars
        => [Contract!Next]_(Contract!contract)
<1> SUFFICES ASSUME ~CanDelete, Durable, TypeOK, PromiseInv, [Next]_vars
             PROVE  [Contract!Next]_(Contract!contract)
  OBVIOUS
<1> USE DEF process, callVars
<1>1. ASSUME UNCHANGED <<rows, promised>> PROVE [Contract!Next]_(Contract!contract)
  BY <1>1 DEF Contract!contract, WatchEnd
<1>2. ASSUME NEW c \in Calls, Refresh(c) PROVE [Contract!Next]_(Contract!contract)
  <2> DEFINE row == [touched |-> req[c].at, watch |-> Later(found[c].watch, req[c].watch)]
  <2>1. req[c].wallet \in Wallets /\ req[c] \in Requests /\ found[c] \in Row
    BY <1>2 DEF Refresh, TypeOK, Requests, Waiting
  <2>2. row \in Row
    BY <2>1, LaterIsNat DEF Requests, Row
  <2>3. Upsert(req[c].wallet, row) /\ UNCHANGED promised
    BY <1>2 DEF Refresh
  <2> HIDE DEF row
  <2> QED
    BY <2>1, <2>2, <2>3, UpsertExtends
<1>3. ASSUME NEW c \in Calls, Create(c) PROVE [Contract!Next]_(Contract!contract)
  <2> DEFINE row == [touched |-> req[c].at, watch |-> req[c].watch]
  <2>1. req[c].wallet \in Wallets /\ req[c] \in Requests
    BY <1>3 DEF Create, TypeOK, Requests, Waiting
  <2>2. row \in Row
    BY <2>1 DEF Requests, Row
  <2>3. Upsert(req[c].wallet, row) /\ UNCHANGED promised
    BY <1>3 DEF Create
  <2> HIDE DEF row
  <2> QED
    BY <2>1, <2>2, <2>3, UpsertExtends
<1>4. ASSUME NEW c \in Calls, Return(c) PROVE [Contract!Next]_(Contract!contract)
  <2> DEFINE w == req[c].wallet
             end == req[c].watch
  <2>1. CASE promised' = promised
    BY <1>1, <1>4, <2>1 DEF Return
  <2>2. CASE promised' # promised
    <3>1. req[c].op = "push" /\ Accepted(c) /\ promised' = [promised EXCEPT ![w] = Later(@, end)]
      BY <1>4, <2>2 DEF Return
    <3>2. w \in Wallets /\ end \in Nat /\ promised \in [Wallets -> Nat]
      BY <3>1 DEF TypeOK, Requests
    <3>3. rows[w] # NoRow /\ rows[w].watch >= end
      BY <3>1 DEF PromiseInv, PushInv, Kept
    <3>4. promised'[w] = Later(promised[w], end) /\ promised'[w] # promised[w]
      BY <2>2, <3>1, <3>2
    <3>5. promised'[w] = end /\ end > promised[w]
      BY <3>2, <3>4 DEF Later
    <3>6. WatchEnd[w] >= promised'[w]
      BY <3>2, <3>3, <3>5 DEF WatchEnd
    <3>7. WatchEnd[w] \in Nat
      BY <3>2, <3>3 DEF WatchEnd, TypeOK, Row
    <3>8. promised' = [promised EXCEPT ![w] = promised'[w]] /\ WatchEnd' = WatchEnd
      BY <1>4, <3>1, <3>2, <3>4 DEF Return, WatchEnd
    <3> QED
      BY <3>2, <3>5, <3>6, <3>7, <3>8 DEF Contract!Next, Contract!Acknowledge
  <2> QED
    BY <2>1, <2>2
<1>5. ASSUME NEW c \in Calls, NEW w \in Wallets, SweepDelete(c, w) PROVE FALSE
  BY <1>5 DEF SweepDelete, PromiseInv, PushInv
<1>6. ASSUME NEW c \in Calls, StartCall(c) PROVE UNCHANGED <<rows, promised>>
  BY <1>6 DEF StartCall, Ensure, List
<1>7. ASSUME NEW c \in Calls, CallStep(c) PROVE [Contract!Next]_(Contract!contract)
  <2>1. \/ UNCHANGED <<rows, promised>>
        \/ Refresh(c) \/ Create(c) \/ Return(c) \/ \E w \in Wallets : SweepDelete(c, w)
    BY <1>7 DEF CallStep, GetWallet, RefuseQuota, AdmitQuota, SweepList, SweepEnd, CapList,
                ForceSweep, Created, WatchList
  <2> QED
    BY <1>1, <1>2, <1>3, <1>4, <1>5, <2>1
<1>8. ASSUME NEW c \in Calls, StoreError(c) PROVE UNCHANGED <<rows, promised>>
  BY <1>8 DEF StoreError
<1>9. ASSUME Restart \/ Tick \/ UNCHANGED vars PROVE UNCHANGED <<rows, promised>>
  BY <1>9 DEF Restart, Tick, vars
<1> QED
  BY <1>1, <1>6, <1>7, <1>8, <1>9 DEF Next

(* Over Postgres, the registry implements the watch contract: no watch end   *)
(* ever moves back, and none is acknowledged before it is stored             *)
(* (registerPush, ensure, upsertWallet).                                     *)
THEOREM ContractIsImplemented == ~CanDelete /\ Durable => (Spec => WatchesAsPromised)
<1> SUFFICES ASSUME ~CanDelete, Durable PROVE Spec => WatchesAsPromised
  OBVIOUS
<1>1. TypeOK /\ PromiseInv /\ [Next]_vars => [Contract!Next]_(Contract!contract)
  BY ContractNext
<1> QED
  BY <1>1, ContractInit, PromiseInvariant, PTL DEF Spec, WatchesAsPromised, Contract!Spec
===============================================================================
