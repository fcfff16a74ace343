-------------------------- MODULE HttpBoundaryProofs --------------------------
(* Theorems about RateLimit and HttpBoundary. *)
EXTENDS HttpBoundary, FiniteSetTheorems, TLAPS, Bech32Proofs

(***************************************************************************)
(* The limiter.  An entry is dropped only when its window has passed, so   *)
(* what is kept of a key is what the log has of the window that ends now.  *)
(***************************************************************************)
LogInv ==
    \A k \in Keys :
        /\ IsFiniteSet(served[k])
        /\ hits[k] \subseteq served[k]
        /\ \A h \in served[k] :
              /\ h.at <= clock /\ h.n < Cardinality(served[k])
              /\ h.at > clock - WindowMs => h \in hits[k]

LimiterInv == LimiterTypeOK /\ LogInv /\ WindowBound

LEMMA LimitType == ASSUME NEW k PROVE Limit(k) \in Nat
BY RateAssumption DEF Limit

LEMMA NoHits == IsFiniteSet({}) /\ Cardinality({}) = 0
BY FS_EmptySet

LEMMA AddOne ==
    ASSUME NEW S, NEW x, IsFiniteSet(S)
    PROVE  IsFiniteSet(S \cup {x}) /\ Cardinality(S \cup {x}) <= Cardinality(S) + 1
<1>1. Cardinality(S) \in Nat
  BY FS_CardinalityType
<1>2. /\ IsFiniteSet(S \cup {x})
      /\ Cardinality(S \cup {x}) = IF x \in S THEN Cardinality(S) ELSE Cardinality(S) + 1
  BY FS_AddElement
<1> QED
  BY <1>1, <1>2

LEMMA LimiterInit == Init => LimiterInv
<1> SUFFICES ASSUME Init PROVE LimiterInv
  OBVIOUS
<1>1. LimiterTypeOK
  BY RateAssumption DEF Init, LimiterTypeOK
<1>2. LogInv
  BY NoHits DEF Init, LogInv
<1>3. WindowBound
  <2> SUFFICES ASSUME NEW k \in Keys, NEW end \in StartTime .. MaxTime
               PROVE Cardinality({h \in served[k] :
                                    h.at > end - WindowMs /\ h.at <= end}) <= Limit(k)
    BY DEF WindowBound
  <2>1. {h \in served[k] : h.at > end - WindowMs /\ h.at <= end} = {}
    BY DEF Init
  <2> QED
    BY <2>1, NoHits, LimitType
<1> QED
  BY <1>1, <1>2, <1>3 DEF LimiterInv

(* What is kept is what the log has of the window. *)
LEMMA KeptIsRecent ==
    ASSUME LimiterTypeOK, LogInv, NEW k \in Keys
    PROVE  Kept(k) = {h \in served[k] : h.at > clock - WindowMs}
BY DEF LogInv, Kept

LEMMA KeptFinite ==
    ASSUME LimiterTypeOK, LogInv, NEW k \in Keys
    PROVE  IsFiniteSet(Kept(k)) /\ Cardinality(Kept(k)) \in Nat
<1>1. Kept(k) \subseteq served[k] /\ IsFiniteSet(served[k])
  BY DEF LogInv, Kept
<1> QED
  BY <1>1, FS_Subset, FS_CardinalityType

LEMMA ServeKeeps ==
    ASSUME LimiterInv, NEW k \in Keys, Serve(k)
    PROVE  LimiterInv'
<1> DEFINE hit == [n |-> Cardinality(served[k]), at |-> clock]
<1>1. /\ served \in [Keys -> SUBSET Hits] /\ hits \in [Keys -> SUBSET Hits]
      /\ clock \in Nat /\ WindowMs \in Nat \ {0} /\ LimiterTypeOK /\ LogInv
  BY RateAssumption DEF LimiterInv, LimiterTypeOK
<1>2. IsFiniteSet(served[k]) /\ Cardinality(served[k]) \in Nat
  BY <1>1, FS_CardinalityType DEF LogInv
<1>3. hit \in Hits
  BY <1>1, <1>2 DEF Hits
<1>4. hit \notin served[k]
  BY <1>2 DEF LimiterInv, LogInv
<1>5. /\ IsFiniteSet(served[k] \cup {hit})
      /\ Cardinality(served[k] \cup {hit}) = Cardinality(served[k]) + 1
  BY <1>2, <1>4, FS_AddElement
<1>6. /\ served' = [served EXCEPT ![k] = served[k] \cup {hit}]
      /\ hits' = [hits EXCEPT ![k] = Kept(k) \cup {hit}]
      /\ clock' = clock /\ apiKey' = apiKey
  BY DEF Serve
<1>7. Kept(k) \subseteq Hits
  BY <1>1 DEF Kept
<1>8. LimiterTypeOK'
  BY <1>1, <1>3, <1>6, <1>7 DEF LimiterTypeOK
<1>9. LogInv'
  <2> SUFFICES ASSUME NEW j \in Keys
               PROVE  /\ IsFiniteSet(served'[j])
                      /\ hits'[j] \subseteq served'[j]
                      /\ \A h \in served'[j] :
                            /\ h.at <= clock' /\ h.n < Cardinality(served'[j])
                            /\ h.at > clock' - WindowMs => h \in hits'[j]
    BY DEF LogInv
  <2>1. CASE j = k
    <3>1. served'[j] = served[k] \cup {hit} /\ hits'[j] = Kept(k) \cup {hit}
      BY <1>1, <1>6, <2>1
    <3>2. Kept(k) = {h \in served[k] : h.at > clock - WindowMs}
      BY <1>1, KeptIsRecent
    <3>3. \A h \in served[k] : h \in Hits /\ h.at <= clock /\ h.n < Cardinality(served[k])
      BY <1>1 DEF LogInv
    <3>4. ASSUME NEW h \in served'[j]
          PROVE  /\ h.at <= clock' /\ h.n < Cardinality(served'[j])
                 /\ h.at > clock' - WindowMs => h \in hits'[j]
      <4>0. Cardinality(served'[j]) = Cardinality(served[k]) + 1 /\ clock' = clock
        BY <1>5, <1>6, <3>1
      <4>1. CASE h = hit
        <5>1. h.at = clock /\ h.n = Cardinality(served[k]) /\ h \in hits'[j]
          BY <3>1, <4>1
        <5> QED
          BY <1>1, <1>2, <4>0, <5>1
      <4>2. CASE h \in served[k]
        <5>1. h.at \in Nat /\ h.n \in Nat /\ h.at <= clock /\ h.n < Cardinality(served[k])
          BY <3>3, <4>2 DEF Hits
        <5>2. h.at > clock - WindowMs => h \in hits'[j]
          BY <3>1, <3>2, <4>2
        <5> QED
          BY <1>1, <1>2, <4>0, <5>1, <5>2
      <4> QED
        BY <3>1, <4>1, <4>2
    <3> QED
      BY <1>5, <3>1, <3>2, <3>4
  <2>2. CASE j # k
    BY <1>1, <1>6, <2>2 DEF LogInv
  <2> QED
    BY <2>1, <2>2
<1>10. WindowBound'
  <2> SUFFICES ASSUME NEW j \in Keys, NEW end \in StartTime .. MaxTime
               PROVE  Cardinality({h \in served'[j] :
                                     h.at > end - WindowMs /\ h.at <= end}) <= Limit(j)'
    BY DEF WindowBound
  <2> DEFINE old == {h \in served[j] : h.at > end - WindowMs /\ h.at <= end}
             new == {h \in served'[j] : h.at > end - WindowMs /\ h.at <= end}
  <2>1. Cardinality(old) <= Limit(j) /\ Limit(j)' = Limit(j) /\ end \in Nat
    BY <1>6, RateAssumption DEF LimiterInv, WindowBound, Limit
  <2>2. CASE j = k /\ end >= clock
    <3>1. served'[j] = served[k] \cup {hit}
      BY <1>1, <1>6, <2>2
    <3>2. new \subseteq Kept(k) \cup {hit}
      BY <1>1, <2>1, <2>2, <3>1, KeptIsRecent DEF Hits
    <3>3. IsFiniteSet(Kept(k)) /\ Cardinality(Kept(k)) \in Nat
      BY <1>1, KeptFinite
    <3>4. /\ IsFiniteSet(Kept(k) \cup {hit})
          /\ Cardinality(Kept(k) \cup {hit}) <= Cardinality(Kept(k)) + 1
      BY <3>3, AddOne
    <3>5. Cardinality(new) <= Cardinality(Kept(k) \cup {hit})
      BY <3>2, <3>4, FS_Subset
    <3>6. Cardinality(new) \in Nat /\ Cardinality(Kept(k) \cup {hit}) \in Nat
      BY <3>2, <3>4, FS_Subset, FS_CardinalityType
    <3>7. Cardinality(Kept(k)) < Limit(k) /\ Limit(k) \in Nat
      BY LimitType DEF Serve
    <3> QED
      BY <2>1, <2>2, <3>3, <3>4, <3>5, <3>6, <3>7
  <2>3. CASE j # k \/ end < clock
    <3>1. new = old
      BY <1>1, <1>6, <2>1, <2>3 DEF Hits
    <3> QED
      BY <2>1, <3>1
  <2> QED
    BY <1>1, <2>1, <2>2, <2>3
<1> QED
  BY <1>8, <1>9, <1>10 DEF LimiterInv

LEMMA LimiterNext == LimiterInv /\ [Next]_limiter => LimiterInv'
<1> SUFFICES ASSUME LimiterInv, [Next]_limiter PROVE LimiterInv'
  OBVIOUS
<1>1. CASE Elapse
  <2>1. /\ clock \in Nat /\ clock' = clock + 1 /\ WindowMs \in Nat
        /\ apiKey' = apiKey /\ hits' = hits /\ served' = served
    BY <1>1, RateAssumption DEF Elapse, LimiterInv, LimiterTypeOK
  <2>2. LimiterTypeOK' /\ WindowBound'
    BY <2>1 DEF LimiterInv, LimiterTypeOK, WindowBound, Limit
  <2>3. \A k \in Keys : \A h \in served[k] : h.at \in Nat
    BY DEF LimiterInv, LimiterTypeOK, Hits
  <2>4. LogInv'
    BY <2>1, <2>3 DEF LimiterInv, LogInv
  <2> QED
    BY <2>2, <2>4 DEF LimiterInv
<1>2. ASSUME NEW k \in Keys, Serve(k) PROVE LimiterInv'
  BY <1>2, ServeKeeps
<1>3. ASSUME NEW k \in Keys, Refuse(k) PROVE LimiterInv'
  BY <1>3 DEF Refuse, LimiterInv, LimiterTypeOK, LogInv, WindowBound, Limit
<1>4. CASE UNCHANGED limiter
  BY <1>4 DEF limiter, LimiterInv, LimiterTypeOK, LogInv, WindowBound, Limit
<1> QED
  BY <1>1, <1>2, <1>3, <1>4 DEF Next
-------------------------------------------------------------------------------
(* Whatever a request does, the limiter takes a step of its own or none.     *)
LEMMA LimiterSteps == [BoundaryNext]_boundary => [Next]_limiter
<1> SUFFICES ASSUME [BoundaryNext]_boundary PROVE [Next]_limiter
  OBVIOUS
<1>1. ASSUME NEW r \in Requests, NEW k \in Keys, Arrive(r, k) PROVE Next
  BY <1>1 DEF Arrive, Next
<1>2. ASSUME NEW r \in Requests,
             Validate(r) \/ History(r) \/ Identify(r) \/ Register(r) \/ Leave(r)
      PROVE  UNCHANGED limiter
  BY <1>2 DEF Validate, History, Identify, Register, Leave
<1>3. CASE ClockTicks
  BY <1>3 DEF ClockTicks, Next
<1>4. CASE UNCHANGED boundary
  BY <1>4 DEF boundary
<1> QED
  BY <1>1, <1>2, <1>3, <1>4 DEF BoundaryNext

LEMMA BoundaryLimiterInv == BoundarySpec => []LimiterInv
<1>1. BoundaryInit => LimiterInv
  BY LimiterInit DEF BoundaryInit
<1>2. LimiterInv /\ [BoundaryNext]_boundary => LimiterInv'
  BY LimiterNext, LimiterSteps
<1> QED
  BY <1>1, <1>2, PTL DEF BoundarySpec

(* WindowBound: no window of the rate limit holds more served requests of a  *)
(* key than its limit (rateLimit).                                           *)
THEOREM WindowIsBounded == BoundarySpec => []WindowBound
<1>1. LimiterInv => WindowBound
  BY DEF LimiterInv
<1> QED
  BY <1>1, BoundaryLimiterInv, PTL

LEMMA SameCardinality == \A S : Window!Cardinality(S) = Cardinality(S)
BY DEF Window!Cardinality, Cardinality, Window!IsFiniteSet, IsFiniteSet

LEMMA ExactInit == Init => Window!Init
BY RateAssumption, LimitType DEF Init, Window!Init, Limits

LEMMA ExactNext == LimiterInv /\ [Next]_limiter => [Window!Next]_(Window!log)
<1> SUFFICES ASSUME LimiterInv, [Next]_limiter PROVE [Window!Next]_(Window!log)
  OBVIOUS
<1>1. clock \in Nat /\ LimiterTypeOK /\ LogInv /\ WindowMs \in Nat
  BY RateAssumption DEF LimiterInv, LimiterTypeOK
<1>2. apiKey' = apiKey => Limits' = Limits
  BY DEF Limits, Limit
<1>3. ASSUME NEW k \in Keys PROVE Window!Recent(k) = Kept(k) /\ Limits[k] = Limit(k)
  <2>1. Kept(k) = {h \in served[k] : h.at > clock - WindowMs}
    BY <1>1, KeptIsRecent
  <2>2. \A h \in served[k] : h.at \in Nat
    BY <1>1 DEF LimiterTypeOK, Hits
  <2>3. \A h \in served[k] : h.at > clock - WindowMs <=> h.at + WindowMs > clock
    BY <1>1, <2>2
  <2> QED
    BY <2>1, <2>3 DEF Window!Recent, Limits
<1>4. CASE Elapse
  BY <1>1, <1>2, <1>4 DEF Elapse, Window!Next, Window!Elapse
<1>5. ASSUME NEW k \in Keys, Serve(k) PROVE Window!Serve(k)
  <2>1. Limits' = Limits /\ clock' = clock
    BY <1>2, <1>5 DEF Serve
  <2>2. Cardinality(Window!Recent(k)) < Limits[k]
    BY <1>3, <1>5 DEF Serve
  <2> QED
    BY <1>5, <2>1, <2>2, SameCardinality DEF Serve, Window!Serve
<1>6. ASSUME NEW k \in Keys, Refuse(k) PROVE Window!Refuse(k)
  <2>1. Limits' = Limits /\ clock' = clock
    BY <1>2, <1>6 DEF Refuse
  <2>2. Cardinality(Window!Recent(k)) >= Limits[k]
    BY <1>3, <1>6 DEF Refuse
  <2> QED
    BY <1>6, <2>1, <2>2, SameCardinality DEF Refuse, Window!Refuse
<1>7. CASE UNCHANGED limiter
  BY <1>2, <1>7 DEF limiter, Window!log
<1> QED
  BY <1>4, <1>5, <1>6, <1>7 DEF Next, Window!Next

(* ExactLimit: the pruned entries of rateLimit() decide as a full log would, *)
(* so a request is refused only for a window full of its own key's requests. *)
THEOREM LimitIsExact == BoundarySpec => ExactLimit
<1>1. BoundaryInit => Window!Init
  BY ExactInit DEF BoundaryInit
<1>2. LimiterInv /\ [BoundaryNext]_boundary => [Window!Next]_(Window!log)
  BY ExactNext, LimiterSteps
<1> QED
  BY <1>1, <1>2, BoundaryLimiterInv, PTL DEF BoundarySpec, ExactLimit, Window!Spec
-------------------------------------------------------------------------------
(***************************************************************************)
(* Identity.  A request that is about to register has the caller that      *)
(* resolveSubscriber() gave it, and the deployment has not changed since.  *)
(***************************************************************************)
IdentityOf(r) ==
    LET device == request[r].device
    IN  \/ ~enforced /\ request[r].caller = Anonymous
        \/ /\ device.token \in tokens
           /\ request[r].caller = CallerOf(device.token, device.subject)

IdentityInv ==
    /\ BoundaryTypeOK
    /\ \A r \in Requests : At(r, "register") => IdentityOf(r)
    /\ \A r \in Requests : ~At(r, "register") => request[r].caller = Anonymous

(* A step that updates one slot leaves the other requests alone. *)
LEMMA SlotUpdated ==
    ASSUME IdentityInv, LimiterTypeOK', UNCHANGED env, NEW r \in Requests,
           NEW value \in RequestStates, Update(r, value),
           value.at = "register" => IdentityOf(r)',
           value.at # "register" => value.caller = Anonymous
    PROVE  IdentityInv'
<1>1. /\ env \in [configured : SUBSET Tokens, production : BOOLEAN]
      /\ request \in [Requests -> RequestStates]
      /\ request' = [request EXCEPT ![r] = value]
  BY DEF IdentityInv, BoundaryTypeOK, Update
<1>2. BoundaryTypeOK'
  BY <1>1 DEF BoundaryTypeOK
<1>3. ASSUME NEW s \in Requests, At(s, "register")' PROVE IdentityOf(s)'
  <2>1. CASE s = r
    BY <1>1, <1>3, <2>1 DEF At
  <2>2. CASE s # r
    <3>1. request'[s] = request[s]
      BY <1>1, <2>2
    <3>2. IdentityOf(s)
      BY <1>3, <3>1 DEF IdentityInv, At
    <3> QED
      BY <3>1, <3>2 DEF IdentityOf, enforced, tokens
  <2> QED
    BY <2>1, <2>2
<1>4. ASSUME NEW s \in Requests, ~At(s, "register")' PROVE request'[s].caller = Anonymous
  BY <1>1, <1>4 DEF IdentityInv, At
<1> QED
  BY <1>2, <1>3, <1>4 DEF IdentityInv

LEMMA NoRequestType ==
    NoRequest \in RequestStates /\ NoRequest.at = "none" /\ NoRequest.caller = Anonymous
BY DEF NoRequest, NoBody, NoDevice, RequestStates, Senders, Callers, SubjectHeaders,
       Routes, Steps, Statuses

(* Answering is an update with a request that is not about to register.      *)
LEMMA AnswerType ==
    ASSUME NEW status \in Statuses
    PROVE  /\ Answered(status) \in RequestStates
           /\ Answered(status).at = "answered" /\ Answered(status).caller = Anonymous
<1>1. NoRequest \in RequestStates /\ NoRequest.caller = Anonymous
  BY NoRequestType
<1>2. "answered" \in Steps
  BY DEF Steps
<1> QED
  BY <1>1, <1>2 DEF Answered, RequestStates

LEMMA AnswerKeeps ==
    ASSUME IdentityInv, LimiterTypeOK', UNCHANGED env, NEW r \in Requests,
           NEW status \in Statuses, Answer(r, status)
    PROVE  IdentityInv'
<1>1. /\ Answered(status) \in RequestStates /\ Update(r, Answered(status))
      /\ Answered(status).at = "answered" /\ Answered(status).caller = Anonymous
  BY AnswerType DEF Answer
<1> QED
  BY <1>1, SlotUpdated

LEMMA ValidateKeeps ==
    ASSUME IdentityInv, LimiterTypeOK', NEW r \in Requests, Validate(r)
    PROVE  IdentityInv'
<1>1. PICK body \in Checked :
         \/ /\ body.rejection = "accepted"
            /\ Update(r, [request[r] EXCEPT !.at = request[r].route, !.body = body])
         \/ /\ body.rejection # "accepted"
            /\ Update(r, [Answered(400) EXCEPT !.body = body])
  BY DEF Validate
<1>2. UNCHANGED env
  BY DEF Validate
<1>3. request[r] \in RequestStates /\ request[r].caller = Anonymous
  BY DEF IdentityInv, BoundaryTypeOK, Validate, At
<1>5. CASE body.rejection = "accepted"
  <2> DEFINE value == [request[r] EXCEPT !.at = request[r].route, !.body = body]
  <2>0. request[r].route \in Routes /\ request[r].route \in Steps
    BY <1>3 DEF RequestStates, Steps
  <2>1. value \in RequestStates /\ value.at = request[r].route /\ value.caller = Anonymous
    BY <1>3, <2>0 DEF RequestStates
  <2>3. Update(r, value)
    BY <1>1, <1>5
  <2>2. value.at # "register"
    BY <2>0, <2>1 DEF Routes
  <2> QED
    BY <1>2, <2>1, <2>2, <2>3, SlotUpdated
<1>6. CASE body.rejection # "accepted"
  <2> DEFINE value == [Answered(400) EXCEPT !.body = body]
  <2>1. /\ Answered(400) \in RequestStates
        /\ Answered(400).at = "answered" /\ Answered(400).caller = Anonymous
    BY AnswerType DEF Statuses
  <2>2. value \in RequestStates /\ value.at = "answered" /\ value.caller = Anonymous
    BY <2>1 DEF RequestStates
  <2>3. Update(r, value)
    BY <1>1, <1>6
  <2> QED
    BY <1>2, <2>2, <2>3, SlotUpdated
<1> QED
  BY <1>5, <1>6

LEMMA IdentifyKeeps ==
    ASSUME IdentityInv, LimiterTypeOK', NEW r \in Requests, Identify(r)
    PROVE  IdentityInv'
<1>1. PICK token \in Tokens \cup {Absent}, subject \in SubjectHeaders :
         LET known == [request[r] EXCEPT !.body = NoBody,
                           !.device = [token |-> token, subject |-> subject]]
         IN  \/ /\ token \in tokens
                /\ Update(r, [known EXCEPT !.at = "register",
                                  !.caller = CallerOf(token, subject)])
             \/ /\ token \notin tokens /\ ~enforced
                /\ Update(r, [known EXCEPT !.at = "register"])
             \/ /\ token \notin tokens /\ enforced
                /\ Answer(r, IF tokens = {} THEN 503 ELSE 401)
  BY DEF Identify
<1> DEFINE device == [token |-> token, subject |-> subject]
           known == [request[r] EXCEPT !.body = NoBody, !.device = device]
<1>2. UNCHANGED env /\ enforced' = enforced /\ tokens' = tokens
  BY DEF Identify, enforced, tokens
<1>3. request[r] \in RequestStates /\ request \in [Requests -> RequestStates]
  BY DEF IdentityInv, BoundaryTypeOK
<1>4. device \in Senders /\ device.token = token /\ device.subject = subject
  BY DEF Senders
<1>5. known \in RequestStates /\ known.device = device
  BY <1>3, <1>4 DEF RequestStates
<1>6. "register" \in Steps
  BY DEF Steps
<1>7. CASE token \in tokens
           /\ Update(r, [known EXCEPT !.at = "register", !.caller = CallerOf(token, subject)])
  <2> DEFINE value == [known EXCEPT !.at = "register", !.caller = CallerOf(token, subject)]
  <2>1. CallerOf(token, subject) \in Callers
    <3>1. token \in Tokens
      BY <1>7, BoundaryAssumption DEF tokens
    <3>2. Trim(subject) \in SubjectHeaders
      BY DEF Trim, SubjectHeaders
    <3> QED
      BY <3>1, <3>2 DEF CallerOf, Callers
  <2>2. /\ value \in RequestStates /\ value.device = device /\ value.at = "register"
        /\ value.caller = CallerOf(token, subject)
    BY <1>5, <1>6, <2>1 DEF RequestStates
  <2>3. request'[r] = value
    BY <1>3, <1>7 DEF Update
  <2>4. IdentityOf(r)'
    BY <1>2, <1>4, <1>7, <2>2, <2>3 DEF IdentityOf
  <2> QED
    BY <1>2, <1>7, <2>2, <2>4, SlotUpdated
<1>8. CASE token \notin tokens /\ ~enforced /\ Update(r, [known EXCEPT !.at = "register"])
  <2> DEFINE value == [known EXCEPT !.at = "register"]
  <2>1. /\ value \in RequestStates /\ value.at = "register"
        /\ value.caller = request[r].caller
    BY <1>3, <1>5, <1>6 DEF RequestStates
  <2>2. request'[r] = value
    BY <1>3, <1>8 DEF Update
  <2>3. request[r].caller = Anonymous
    BY DEF IdentityInv, Identify, At
  <2>4. IdentityOf(r)'
    BY <1>2, <1>8, <2>1, <2>2, <2>3 DEF IdentityOf
  <2> QED
    BY <1>2, <1>8, <2>1, <2>4, SlotUpdated
<1>9. CASE token \notin tokens /\ enforced /\ Answer(r, IF tokens = {} THEN 503 ELSE 401)
  <2>1. (IF tokens = {} THEN 503 ELSE 401) \in Statuses
    BY DEF Statuses
  <2> QED
    BY <1>2, <1>9, <2>1, AnswerKeeps
<1> QED
  BY <1>1, <1>7, <1>8, <1>9

LEMMA ArriveKeeps ==
    ASSUME IdentityInv, LimiterTypeOK', NEW r \in Requests, NEW k \in Keys, Arrive(r, k)
    PROVE  IdentityInv'
<1>1. UNCHANGED env
  BY DEF Arrive
<1>2. ASSUME NEW status \in {401, 429}, Answer(r, status) PROVE IdentityInv'
  BY <1>1, <1>2, AnswerKeeps DEF Statuses
<1>3. ASSUME NEW route \in {"history", "subscribe"},
             Update(r, [NoRequest EXCEPT !.at = "body", !.route = route])
      PROVE  IdentityInv'
  <2> DEFINE value == [NoRequest EXCEPT !.at = "body", !.route = route]
  <2>1. "body" \in Steps /\ route \in Routes
    BY DEF Steps, Routes
  <2>2. value \in RequestStates /\ value.at = "body" /\ value.caller = Anonymous
    BY <2>1, NoRequestType DEF RequestStates
  <2> QED
    BY <1>1, <1>3, <2>2, SlotUpdated
<1> QED
  BY <1>2, <1>3 DEF Arrive

LEMMA IdentityNext == IdentityInv /\ LimiterTypeOK' /\ [BoundaryNext]_boundary => IdentityInv'
<1> SUFFICES ASSUME IdentityInv, LimiterTypeOK', [BoundaryNext]_boundary PROVE IdentityInv'
  OBVIOUS
<1>1. ASSUME NEW r \in Requests, NEW k \in Keys, Arrive(r, k) PROVE IdentityInv'
  BY <1>1, ArriveKeeps
<1>2. ASSUME NEW r \in Requests, Validate(r) PROVE IdentityInv'
  BY <1>2, ValidateKeeps
<1>3. ASSUME NEW r \in Requests, History(r) PROVE IdentityInv'
  <2>1. PICK status \in {200, 500} : Answer(r, status)
    BY <1>3 DEF History
  <2> QED
    BY <1>3, <2>1, AnswerKeeps DEF History, Statuses
<1>4. ASSUME NEW r \in Requests, Identify(r) PROVE IdentityInv'
  BY <1>4, IdentifyKeeps
<1>5. ASSUME NEW r \in Requests, Register(r) PROVE IdentityInv'
  <2>1. PICK status \in {200, 500, 429, 503, 400} : Answer(r, status)
    BY <1>5 DEF Register, DenialStatus
  <2> QED
    BY <1>5, <2>1, AnswerKeeps DEF Register, Statuses
<1>6. ASSUME NEW r \in Requests, Leave(r) PROVE IdentityInv'
  <2> QED
    BY <1>6, NoRequestType, SlotUpdated DEF Leave
<1>7. CASE ClockTicks
  BY <1>7 DEF ClockTicks, IdentityInv, BoundaryTypeOK, At, IdentityOf, enforced, tokens
<1>8. CASE UNCHANGED boundary
  BY <1>8 DEF boundary, IdentityInv, BoundaryTypeOK, At, IdentityOf, enforced, tokens
<1> QED
  BY <1>1, <1>2, <1>3, <1>4, <1>5, <1>6, <1>7, <1>8 DEF BoundaryNext

LEMMA BoundaryIdentity == BoundarySpec => []IdentityInv
<1>1. BoundaryInit => IdentityInv
  <2> SUFFICES ASSUME BoundaryInit PROVE IdentityInv
    OBVIOUS
  <2>1. BoundaryTypeOK
    BY LimiterInit, NoRequestType DEF BoundaryInit, LimiterInv, BoundaryTypeOK
  <2>2. \A r \in Requests : ~At(r, "register") /\ request[r].caller = Anonymous
    BY NoRequestType DEF BoundaryInit, At
  <2> QED
    BY <2>1, <2>2 DEF IdentityInv
<1>2. LimiterInv => LimiterTypeOK
  BY DEF LimiterInv
<1> QED
  BY <1>1, <1>2, IdentityNext, BoundaryLimiterInv, PTL DEF BoundarySpec

(* Every reachable state of the boundary is well typed. *)
THEOREM BoundaryTypes == BoundarySpec => []BoundaryTypeOK
<1>1. IdentityInv => BoundaryTypeOK
  BY DEF IdentityInv
<1> QED
  BY <1>1, BoundaryIdentity, PTL

(* NoOpenDoor: where a token is configured, or in production, nobody         *)
(* registers without a usable token (loadSubscribeAuth, resolveSubscriber).  *)
THEOREM NoDoorIsOpen == BoundarySpec => []NoOpenDoor
<1>1. ASSUME IdentityInv, NEW r \in Requests, At(r, "register"), enforced
      PROVE  /\ request[r].caller # Anonymous
             /\ request[r].device.token \in env.configured \cap UsableTokens
  <2>1. /\ request[r].device.token \in tokens
        /\ request[r].caller = CallerOf(request[r].device.token, request[r].device.subject)
    BY <1>1 DEF IdentityInv, IdentityOf
  <2>2. request[r].device.token \in Tokens
    BY <2>1, BoundaryAssumption DEF tokens
  <2>3. request[r].caller # Anonymous
    BY <2>1, <2>2, BoundaryAssumption DEF CallerOf, Anonymous
  <2> QED
    BY <2>1, <2>3 DEF tokens
<1>2. IdentityInv => NoOpenDoor
  BY <1>1 DEF NoOpenDoor, enforced
<1> QED
  BY <1>2, BoundaryIdentity, PTL

(* DeviceKeepsItsQuota: two registrations are charged to one caller exactly  *)
(* when they come from one device under one token (resolveSubscriber).       *)
THEOREM DevicesKeepTheirQuotas == BoundarySpec => []DeviceKeepsItsQuota
<1>1. ASSUME NEW t, NEW u, NEW c \in SubjectHeaders, NEW d \in SubjectHeaders
      PROVE  CallerOf(t, c) = CallerOf(u, d) <=>
                /\ t = u
                /\ \/ c.value \in SafeSubjects /\ c.value = d.value
                   \/ c.value \notin SafeSubjects /\ d.value \notin SafeSubjects
  <2>1. /\ Trim(c).value = c.value /\ Trim(d).value = d.value
        /\ Trim(c) = Trim(d) <=> c.value = d.value
    BY DEF Trim
  <2>2. CASE c.value \in SafeSubjects /\ d.value \in SafeSubjects
    BY <2>1, <2>2 DEF CallerOf
  <2>3. CASE c.value \notin SafeSubjects \/ d.value \notin SafeSubjects
    BY <2>1, <2>3 DEF CallerOf
  <2> QED
    BY <2>2, <2>3
<1>2. ASSUME IdentityInv, NEW r \in Requests, At(r, "register"),
             request[r].caller # Anonymous
      PROVE  /\ request[r].caller = CallerOf(request[r].device.token, request[r].device.subject)
             /\ request[r].device.subject \in SubjectHeaders
  BY <1>2 DEF IdentityInv, IdentityOf, BoundaryTypeOK, RequestStates, Senders
<1>3. IdentityInv => DeviceKeepsItsQuota
  <2> SUFFICES ASSUME IdentityInv, NEW r \in Requests, NEW s \in Requests,
                      At(r, "register"), At(s, "register"),
                      request[r].caller # Anonymous, request[s].caller # Anonymous
               PROVE  request[r].caller = request[s].caller <=> DeviceOf(r) = DeviceOf(s)
    BY DEF DeviceKeepsItsQuota
  <2> DEFINE c == request[r].device.subject
             d == request[s].device.subject
  <2>1. request[r].caller = request[s].caller <=>
           /\ request[r].device.token = request[s].device.token
           /\ \/ c.value \in SafeSubjects /\ c.value = d.value
              \/ c.value \notin SafeSubjects /\ d.value \notin SafeSubjects
    BY <1>1, <1>2
  <2> QED
    BY <2>1, BoundaryAssumption DEF DeviceOf
<1> QED
  BY <1>3, BoundaryIdentity, PTL
-------------------------------------------------------------------------------
LEMMA CheckSeparates ==
    ASSUME NEW body \in Bodies
    PROVE  /\ Rejection(body) = "accepted" => ~Sent(body).slip /\ ~Sent(body).foreign
           /\ Sent(body).own => Rejection(body) = "accepted"
<1>1. /\ body.meant \in Texts /\ decodeBech32(body.meant) /\ body.text \in Texts
      /\ dataLength(body.meant) \in MinDataLength .. MaxDataLength
      /\ body.home \in ChainIds /\ body.meant.prefix = ChainPrefixes[body.home]
      /\ AllowedPrefixes # AnyPrefix => body.meant.prefix \in AllowedPrefixes
  BY BodiesAssumption
<1>2. ASSUME Sent(body).slip PROVE Rejection(body) # "accepted"
  <2>1. ~decodeBech32(body.text)
    BY <1>1, <1>2, SlipsAreRefused DEF Sent
  <2> QED
    BY <2>1 DEF Rejection, checkAddress
<1>3. ASSUME Sent(body).foreign PROVE Rejection(body) # "accepted"
  <2>1. body.chainId \in DOMAIN ChainPrefixes /\ ChainPrefixes[body.chainId] # body.text.prefix
    BY <1>3 DEF Sent
  <2> QED
    BY <2>1 DEF Rejection, checkAddress
<1>4. ASSUME Sent(body).own PROVE Rejection(body) = "accepted"
  <2>1. body.text = body.meant /\ body.chainId = body.home
    BY <1>4 DEF Sent
  <2> QED
    BY <1>1, <2>1 DEF Rejection, checkAddress
<1> QED
  BY <1>2, <1>3, <1>4

(* AcceptedIsRight: whatever arrives, for whatever chain and whatever the    *)
(* sender meant, nothing miswritten and nothing of another chain passes, and *)
(* what was meant, written as it should be for its own chain, is not refused *)
(* (walletBodySchema, checkAddress, decodeBech32).                           *)
THEOREM OnlyTheRightPass == BoundarySpec => []AcceptedIsRight
<1>1. ASSUME NEW body \in {NoBody} \cup Checked, body.rejection # "unread"
      PROVE  /\ body.rejection = "accepted" => ~body.slip /\ ~body.foreign
             /\ body.own => body.rejection = "accepted"
  <2>1. body \in Checked
    BY <1>1 DEF NoBody
  <2>2. PICK b \in Bodies : body = Sent(b)
    BY <2>1 DEF Checked
  <2>3. body.rejection = Rejection(b)
    BY <2>2 DEF Sent
  <2> QED
    BY <2>2, <2>3, CheckSeparates
<1>2. BoundaryTypeOK => AcceptedIsRight
  BY <1>1 DEF BoundaryTypeOK, RequestStates, AcceptedIsRight
<1> QED
  BY <1>2, BoundaryTypes, PTL
===============================================================================
