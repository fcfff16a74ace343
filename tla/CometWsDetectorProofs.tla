------------------------ MODULE CometWsDetectorProofs ------------------------
(* Proofs about CometWsDetector, for any number of wallets, WebSocket        *)
(* objects, overlapping reconciles and endpoints.                            *)
EXTENDS CometWsDetector, TLAPS

LEMMA NewObjectIsUnused ==
    ASSUME NEW id \in Ids, Unused(id) # {}
    PROVE  NewObject(id) \in Objects /\ phase[id][NewObject(id)] = "none"
BY DEF NewObject, Unused

LEMMA NumbersOK ==
    /\ \A n \in 0 .. 2 : (n + 1) % 3 \in 0 .. 2
    /\ \A n \in 0 .. Endpoints - 1 : (n + 1) % Endpoints \in 0 .. Endpoints - 1
    /\ 0 \in 0 .. Endpoints - 1
    /\ \A g \in Objects : g # NoObject
BY DetectorAssumption DEF NoObject

LEMMA TypeInit == Init => TypeOK
BY NumbersOK, DetectorAssumption DEF Init, TypeOK, Phases, Ids, IdsOf

(* What one synchronous pass does to the sockets, seen from one subscription. *)
LEMMA OpenAndCloseType ==
    ASSUME TypeOK, NEW S \in SUBSET Ids, NEW T \in SUBSET Ids, OpenAndClose(S, T),
           \A id \in T : Mapped(id)
    PROVE  /\ phase' \in [Ids -> [Objects -> Phases]]
           /\ endpoint' \in [Ids -> [Objects -> 0 .. Endpoints - 1]]
           /\ current' \in [Ids -> Objects \cup {NoObject}]
           /\ \A id \in S : /\ current'[id] \in Objects
                            /\ phase'[id][current'[id]] = "connecting"
           /\ \A id \in T \ S : current'[id] = NoObject
           /\ \A id \in Ids \ (S \cup T) : current'[id] = current[id] /\ phase'[id] = phase[id]
<1>1. \A id \in S : NewObject(id) \in Objects
  BY NewObjectIsUnused DEF OpenAndClose
<1>2. \A id \in T : current[id] \in Objects
  BY DEF TypeOK, Mapped
<1>3. phase' \in [Ids -> [Objects -> Phases]]
  BY <1>1, <1>2 DEF OpenAndClose, TypeOK, Phases
<1>4. endpoint' \in [Ids -> [Objects -> 0 .. Endpoints - 1]]
  BY <1>1 DEF OpenAndClose, TypeOK
<1>5. current' \in [Ids -> Objects \cup {NoObject}]
  BY <1>1 DEF OpenAndClose, TypeOK
<1>6. ASSUME NEW id \in S
      PROVE  current'[id] \in Objects /\ phase'[id][current'[id]] = "connecting"
  BY <1>1 DEF OpenAndClose, TypeOK
<1>7. /\ \A id \in T \ S : current'[id] = NoObject
      /\ \A id \in Ids \ (S \cup T) : current'[id] = current[id] /\ phase'[id] = phase[id]
  BY DEF OpenAndClose
<1> QED
  BY <1>3, <1>4, <1>5, <1>6, <1>7
-------------------------------------------------------------------------------
DetectorInv == TypeOK /\ BackoffRespected /\ NothingForgotten

LEMMA DetectorInit == Init => DetectorInv
BY TypeInit DEF Init, DetectorInv, BackoffRespected, NothingForgotten, Mapped

(* An event of one object that leaves its subscription with a timer or with  *)
(* the live object it had.                                                   *)
LEMMA ReconcileKeeps ==
    ASSUME DetectorInv, NEW r \in Reconciles, Reconcile(r)
    PROVE  DetectorInv'
<1> DEFINE want == IdsOf(answer[r])
           surplus == {id \in Ids \ want : Mapped(id)}
           missing == Missing(want)
<1>1. want \in SUBSET Ids
  BY DEF DetectorInv, TypeOK, IdsOf, Ids
<1>2. missing \in SUBSET Ids /\ surplus \in SUBSET Ids /\ missing \cap surplus = {}
  BY <1>1 DEF Missing, Covered
<1>3. /\ OpenAndClose(missing, surplus) /\ timers' = timers \ surplus /\ desired' = want
      /\ attempts' = [id \in Ids |-> IF id \in surplus THEN 0 ELSE attempts[id]]
      /\ UNCHANGED <<env, running, endpointIndex, drops>>
      /\ reconciling' = [reconciling EXCEPT ![r] = "idle"]
      /\ answer' = [answer EXCEPT ![r] = {}]
  BY DEF Reconcile
<1>4. \A id \in surplus : Mapped(id)
  OBVIOUS
<1>5. \A id \in missing : id \notin timers /\ ~Mapped(id) /\ id \in want
  BY DEF Missing, Covered
<1>6. \A id \in want : id \in missing \/ Mapped(id) \/ id \in timers
  BY DEF Missing, Covered
<1> HIDE DEF missing
<1>7. /\ phase' \in [Ids -> [Objects -> Phases]]
      /\ endpoint' \in [Ids -> [Objects -> 0 .. Endpoints - 1]]
      /\ current' \in [Ids -> Objects \cup {NoObject}]
      /\ \A id \in missing : /\ current'[id] \in Objects
                             /\ phase'[id][current'[id]] = "connecting"
      /\ \A id \in surplus : current'[id] = NoObject
      /\ \A id \in Ids \ (missing \cup surplus) :
            current'[id] = current[id] /\ phase'[id] = phase[id]
  <2>1. TypeOK
    BY DEF DetectorInv
  <2> HIDE DEF surplus
  <2> QED
    BY <2>1, <1>2, <1>3, <1>4, OpenAndCloseType
<1>8. TypeOK'
  BY <1>1, <1>3, <1>7 DEF DetectorInv, TypeOK, env
<1>9. BackoffRespected'
  <2> SUFFICES ASSUME NEW id \in Ids
               PROVE  /\ ~(Mapped(id)' /\ id \in timers')
                      /\ Mapped(id)' => current'[id] \in Live(id)'
    BY DEF BackoffRespected
  <2>1. CASE id \in missing
    BY <1>3, <1>5, <1>7, <2>1 DEF Live, Mapped
  <2>2. CASE id \in surplus
    BY <1>7, <2>2 DEF Mapped
  <2>3. CASE id \notin missing \cup surplus
    BY <1>3, <1>7, <2>3 DEF DetectorInv, BackoffRespected, Live, Mapped
  <2> QED
    BY <2>1, <2>2, <2>3
<1>10. NothingForgotten'
  BY <1>1, <1>3, <1>6, <1>7, NumbersOK DEF NothingForgotten, Covered, Mapped
<1> QED
  BY <1>8, <1>9, <1>10 DEF DetectorInv

LEMMA CloseKeeps ==
    ASSUME DetectorInv, NEW id \in Ids, NEW g \in Objects, CloseEvent(id, g), drops' \in Nat
    PROVE  DetectorInv'
<1>1. /\ phase' = [phase EXCEPT ![id][g] = "none"]
      /\ endpoint' = [endpoint EXCEPT ![id][g] = 0]
      /\ current' = [current EXCEPT ![id] = NoObject]
      /\ UNCHANGED <<watched, down, running, reconciling, answer, desired>>
  BY DEF CloseEvent, env, calls
<1>2. /\ timers' = timers \cup {id}
      /\ attempts' \in [Ids -> 0 .. 2] /\ endpointIndex' \in 0 .. Endpoints - 1
  <2>1. /\ attempts \in [Ids -> 0 .. 2] /\ endpointIndex \in 0 .. Endpoints - 1
        /\ Rotated \in 0 .. Endpoints - 1
        /\ (attempts[id] + 1) % 3 \in 0 .. 2
    BY NumbersOK DEF Rotated, DetectorInv, TypeOK
  <2>2. CASE id \in timers
    BY <2>1, <2>2 DEF CloseEvent, ScheduleReconnect, retry
  <2>3. CASE id \notin timers
    <3>1. /\ timers' = timers \cup {id}
          /\ attempts' = [attempts EXCEPT ![id] = (@ + 1) % 3]
          /\ endpointIndex' \in {Rotated, endpointIndex}
      BY <2>3 DEF CloseEvent, ScheduleReconnect
    <3> QED
      BY <2>1, <3>1
  <2> QED
    BY <2>2, <2>3
<1>3. TypeOK'
  BY <1>1, <1>2, NumbersOK DEF DetectorInv, TypeOK, Phases
<1>4. \A i \in Ids : i # id => current'[i] = current[i] /\ phase'[i] = phase[i]
  BY <1>1 DEF DetectorInv, TypeOK
<1>5. current'[id] = NoObject
  BY <1>1 DEF DetectorInv, TypeOK
<1>6. BackoffRespected'
  BY <1>2, <1>4, <1>5 DEF DetectorInv, BackoffRespected, Mapped, Live
<1>7. NothingForgotten'
  BY <1>1, <1>2, <1>4 DEF DetectorInv, NothingForgotten, Covered, Mapped, TypeOK
<1> QED
  BY <1>3, <1>6, <1>7 DEF DetectorInv

LEMMA OpensKeeps ==
    ASSUME DetectorInv, NEW id \in Ids, NEW g \in Objects, Opens(id, g)
    PROVE  DetectorInv'
<1>1. /\ phase' = [phase EXCEPT ![id][g] = "open"]
      /\ attempts' = [attempts EXCEPT ![id] = 0]
      /\ UNCHANGED <<watched, down, running, reconciling, answer, endpoint, current, timers,
                     endpointIndex, desired, drops>>
  BY DEF Opens, env, calls
<1>2. TypeOK'
  BY <1>1 DEF DetectorInv, TypeOK, Phases
<1>3. \A i \in Ids : Live(i) \subseteq Live(i)'
  BY <1>1 DEF DetectorInv, TypeOK, Live
<1>4. BackoffRespected' /\ NothingForgotten'
  BY <1>1, <1>3 DEF DetectorInv, BackoffRespected, NothingForgotten, Covered, Mapped
<1> QED
  BY <1>2, <1>4 DEF DetectorInv

LEMMA FireKeeps ==
    ASSUME DetectorInv, NEW id \in Ids, Fire(id)
    PROVE  DetectorInv'
<1> DEFINE S == {id} \cap {i \in Ids : ~Mapped(i)}
<1>1. /\ timers' = timers \ {id} /\ OpenAndClose(S, {})
      /\ UNCHANGED <<watched, down, running, reconciling, answer, attempts, endpointIndex,
                     desired, drops>>
  BY DEF Fire, env, calls
<1>2. S = {id} /\ ~Mapped(id)
  BY DEF Fire, DetectorInv, BackoffRespected
<1>3. /\ phase' \in [Ids -> [Objects -> Phases]]
      /\ endpoint' \in [Ids -> [Objects -> 0 .. Endpoints - 1]]
      /\ current' \in [Ids -> Objects \cup {NoObject}]
      /\ current'[id] \in Objects /\ phase'[id][current'[id]] = "connecting"
      /\ \A i \in Ids \ {id} : current'[i] = current[i] /\ phase'[i] = phase[i]
  <2>1. TypeOK /\ S \in SUBSET Ids /\ {} \in SUBSET Ids /\ (\A i \in {} : Mapped(i))
    BY DEF DetectorInv
  <2> HIDE DEF S
  <2>2. /\ phase' \in [Ids -> [Objects -> Phases]]
        /\ endpoint' \in [Ids -> [Objects -> 0 .. Endpoints - 1]]
        /\ current' \in [Ids -> Objects \cup {NoObject}]
        /\ \A i \in S : /\ current'[i] \in Objects
                         /\ phase'[i][current'[i]] = "connecting"
        /\ \A i \in Ids \ (S \cup {}) : current'[i] = current[i] /\ phase'[i] = phase[i]
    BY <1>1, <2>1, OpenAndCloseType
  <2> QED
    BY <1>2, <2>2
<1>4. TypeOK'
  BY <1>1, <1>3 DEF DetectorInv, TypeOK
<1>5. BackoffRespected'
  BY <1>1, <1>3 DEF DetectorInv, BackoffRespected, Mapped, Live
<1>6. NothingForgotten'
  BY <1>1, <1>3, NumbersOK DEF DetectorInv, NothingForgotten, Covered, Mapped, TypeOK
<1> QED
  BY <1>4, <1>5, <1>6 DEF DetectorInv

LEMMA StopKeeps == ASSUME DetectorInv, Stop PROVE DetectorInv'
<1> DEFINE T == {id \in Ids : Mapped(id)}
<1>1. /\ running' = FALSE /\ timers' = {} /\ OpenAndClose({}, T)
      /\ UNCHANGED <<watched, down, reconciling, answer, attempts, endpointIndex, desired, drops>>
  BY DEF Stop, env
<1>2. /\ phase' \in [Ids -> [Objects -> Phases]]
      /\ endpoint' \in [Ids -> [Objects -> 0 .. Endpoints - 1]]
      /\ current' \in [Ids -> Objects \cup {NoObject}]
      /\ \A id \in T : current'[id] = NoObject
      /\ \A id \in Ids \ T : current'[id] = current[id]
  <2>1. TypeOK /\ T \in SUBSET Ids /\ {} \in SUBSET Ids /\ (\A id \in T : Mapped(id))
    BY DEF DetectorInv
  <2> HIDE DEF T
  <2>2. /\ phase' \in [Ids -> [Objects -> Phases]]
        /\ endpoint' \in [Ids -> [Objects -> 0 .. Endpoints - 1]]
        /\ current' \in [Ids -> Objects \cup {NoObject}]
        /\ \A id \in T \ {} : current'[id] = NoObject
        /\ \A id \in Ids \ ({} \cup T) : current'[id] = current[id] /\ phase'[id] = phase[id]
    BY <1>1, <2>1, OpenAndCloseType
  <2> QED
    BY <2>2
<1>3. \A id \in Ids : ~Mapped(id)'
  BY <1>2 DEF Mapped
<1>4. TypeOK'
  BY <1>1, <1>2 DEF DetectorInv, TypeOK
<1> QED
  BY <1>1, <1>3, <1>4 DEF DetectorInv, BackoffRespected, NothingForgotten

LEMMA DetectorNext == DetectorInv /\ [Next]_vars => DetectorInv'
<1> SUFFICES ASSUME DetectorInv, [Next]_vars PROVE DetectorInv'
  OBVIOUS
<1> DEFINE Same == UNCHANGED <<running, sockets, retry, desired, drops>>
<1>1. ASSUME Same, TypeOK' PROVE DetectorInv'
  BY <1>1 DEF DetectorInv, BackoffRespected, NothingForgotten, Covered, Mapped, Live,
              sockets, retry
<1>2. ASSUME NEW r \in Reconciles, StartReconcile(r) \/ ListAnswers(r) PROVE DetectorInv'
  BY <1>1, <1>2 DEF StartReconcile, ListAnswers, env, sockets, retry, DetectorInv, TypeOK
<1>3. ASSUME NEW id \in Ids, NEW g \in Objects,
             Closed(id, g) \/ Refused(id, g) \/ Drops(id, g)
      PROVE  DetectorInv'
  <2>1. CloseEvent(id, g)
    BY <1>3 DEF Closed, Refused, Drops
  <2>2. drops' \in Nat
    BY <1>3 DEF Closed, Refused, Drops, DetectorInv, TypeOK
  <2> QED
    BY <2>1, <2>2, CloseKeeps
<1>4. CASE Restart
  BY <1>4, NumbersOK DEF Restart, env, DetectorInv, TypeOK, Phases, BackoffRespected,
                         NothingForgotten, Mapped
<1>5. ASSUME NEW W \in SUBSET Wallets, Rewatch(W) PROVE DetectorInv'
  BY <1>1, <1>5 DEF Rewatch, calls, sockets, retry, DetectorInv, TypeOK
<1>6. CASE UNCHANGED vars
  BY <1>1, <1>6 DEF vars, env, calls, sockets, retry, DetectorInv, TypeOK
<1> QED
  BY <1>2, <1>3, <1>4, <1>5, <1>6, ReconcileKeeps, OpensKeeps, FireKeeps, StopKeeps
  DEF Next, DetectorStep

LEMMA DetectorInvariant == Spec => []DetectorInv
BY DetectorInit, DetectorNext, PTL DEF Spec

(* Every reachable state of the detector is well typed. *)
THEOREM TypeCorrect == Spec => []TypeOK
BY DetectorInvariant, PTL DEF DetectorInv

(* A subscription waiting for its backoff has no socket in the map, and the  *)
(* object in the map is connecting or open (reconcile, scheduleReconnect and *)
(* the close handler, lines 70-139 and 201-204).                             *)
THEOREM BackoffIsRespected == Spec => []BackoffRespected
BY DetectorInvariant, PTL DEF DetectorInv

(* What the last reconcile wanted has a socket or a timer until the detector *)
(* is stopped, through any interleaving of drops, overlapping reconciles and *)
(* late close events.                                                        *)
THEOREM NothingIsForgotten == Spec => []NothingForgotten
BY DetectorInvariant, PTL DEF DetectorInv
===============================================================================
