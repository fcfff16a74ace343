----------------------------- MODULE HttpBoundary -----------------------------
(***************************************************************************)
(* What a wallet request passes before a handler touches the registry      *)
(* (src/http/app.ts): rate limit, API key, body validation, and for a push *)
(* subscription the identity of the caller.  Limit and key are one         *)
(* synchronous step; the body is awaited, and other requests come between. *)
(*                                                                         *)
(* The registry's answer is an input here (it is WalletRegistry's), and so *)
(* is the history (HistoryRoute's).  One life of the process: limits and   *)
(* requests end with it, and a deployment does not change within it.       *)
(***************************************************************************)
EXTENDS RateLimit, Bech32

CONSTANTS
    Requests,               \* slots for requests under way
    Bodies,                 \* [meant, home, text, chainId]: see BodiesAssumption
    ChainIds,               \* what isChainId accepts
    Tokens, UsableTokens,   \* secrets; those long enough
    Subjects, SafeSubjects, \* device ids; those isQuerySafeValue accepts
    Absent                  \* a header that is not there, or blank

ASSUME BoundaryAssumption ==
    /\ UsableTokens \subseteq Tokens /\ SafeSubjects \subseteq Subjects
    /\ Absent \notin Tokens /\ Absent \notin Subjects
    /\ "anonymous" \notin Tokens

(* A sender means an account of a chain whose prefix is known and served.    *)
(* What arrives, and for which chain, is anything at all.                    *)
ASSUME BodiesAssumption ==
    \A body \in Bodies :
        /\ body.text \in Texts /\ body.meant \in Texts
        /\ body.home \in ChainIds \cap DOMAIN ChainPrefixes
        /\ body.meant.prefix = ChainPrefixes[body.home]
        /\ AllowedPrefixes # AnyPrefix => ChainPrefixes[body.home] \in AllowedPrefixes
        /\ decodeBech32(body.meant)
        /\ dataLength(body.meant) \in MinDataLength .. MaxDataLength

VARIABLES
    env,            \* INDEXER_SUBSCRIBE_TOKEN and NODE_ENV
    request         \* slot -> a request and how far it has come

boundary == <<limiter, env, request>>

Anonymous == <<"anonymous">>

(* A subject header arrives with or without blanks around it. *)
SubjectHeaders == [value : Subjects \cup {Absent}, padded : BOOLEAN]

Trim(header) == [value |-> header.value, padded |-> FALSE]

NoBody == [slip |-> FALSE, foreign |-> FALSE, own |-> FALSE, rejection |-> "unread"]
NoDevice == [token |-> Absent, subject |-> [value |-> Absent, padded |-> FALSE]]

NoRequest ==
    [at |-> "none", route |-> "none", body |-> NoBody, device |-> NoDevice,
     caller |-> Anonymous, status |-> 0]

(* loadSubscribeAuth *)
tokens == env.configured \cap UsableTokens

(* Mutant of enforced: it looks at the tokens that are left. *)
enforcedByTokens == tokens # {} \/ env.production

enforced == env.configured # {} \/ env.production

BoundaryInit ==
    /\ Init
    /\ env \in [configured : SUBSET Tokens, production : BOOLEAN]
    /\ request = [r \in Requests |-> NoRequest]
-------------------------------------------------------------------------------
At(r, step) == request[r].at = step
Update(r, value) == request' = [request EXCEPT ![r] = value]
Answered(status) == [NoRequest EXCEPT !.at = "answered", !.status = status]
Answer(r, status) == Update(r, Answered(status))

(* requireApiKey *)
KeyAccepted(k) == apiKey # Unset => k = apiKey

Arrive(r, k) ==
    /\ At(r, "none")
    /\ \/ /\ Serve(k)
          /\ IF KeyAccepted(k)
             THEN \E route \in {"history", "subscribe"} :
                     Update(r, [NoRequest EXCEPT !.at = "body", !.route = route])
             ELSE Answer(r, 401)
       \/ Refuse(k) /\ Answer(r, 429)
    /\ UNCHANGED env

(* walletBodySchema: the chain id first, then the address against it. *)
Rejection(body) ==
    IF body.chainId \notin ChainIds THEN "chain_id" ELSE checkAddress(body.text, body.chainId)

(* What the sender did, beside what the code made of it: the address meant,  *)
(* on its own chain; a slip in writing it; an address of another chain.      *)
Sent(body) ==
    [own |-> body.text = body.meant /\ body.chainId = body.home,
     slip |-> body.text # body.meant /\ Slip(body.text, body.meant),
     foreign |-> /\ body.chainId \in DOMAIN ChainPrefixes
                 /\ body.text.prefix # ChainPrefixes[body.chainId],
     rejection |-> Rejection(body)]

Checked == {Sent(body) : body \in Bodies}

Validate(r) ==
    /\ At(r, "body")
    /\ \E body \in Checked :
          \/ /\ body.rejection = "accepted"
             /\ Update(r, [request[r] EXCEPT !.at = request[r].route, !.body = body])
          \/ /\ body.rejection # "accepted"
             /\ Update(r, [Answered(400) EXCEPT !.body = body])
    /\ UNCHANGED <<limiter, env>>

(* ensure() with whatever outcome, then getHistory(), which may reject. *)
History(r) ==
    /\ At(r, "history")
    /\ \E status \in {200, 500} : Answer(r, status)
    /\ UNCHANGED <<limiter, env>>

(* Mutant of CallerOf: the header as it came. *)
CallerOfRaw(token, subject) ==
    IF subject.value \in SafeSubjects THEN <<token, subject>> ELSE <<token>>

(* The id of a caller with a known token; fingerprint() tells secrets apart. *)
CallerOf(token, subject) ==
    IF Trim(subject).value \in SafeSubjects THEN <<token, Trim(subject)>> ELSE <<token>>

(* resolveSubscriber *)
Identify(r) ==
    /\ At(r, "subscribe")
    /\ \E token \in Tokens \cup {Absent}, subject \in SubjectHeaders :
          LET known == [request[r] EXCEPT !.body = NoBody,
                            !.device = [token |-> token, subject |-> subject]]
          IN  \/ /\ token \in tokens
                 /\ Update(r, [known EXCEPT !.at = "register",
                                   !.caller = CallerOf(token, subject)])
              \/ /\ token \notin tokens /\ ~enforced
                 /\ Update(r, [known EXCEPT !.at = "register"])
              \/ /\ token \notin tokens /\ enforced
                 /\ Answer(r, IF tokens = {} THEN 503 ELSE 401)
    /\ UNCHANGED <<limiter, env>>

(* Mutant of DenialStatus: a reason without a status of its own. *)
DenialStatusUnmapped ==
    [caller_quota |-> 429, registry_full |-> 503, invalid_wallet |-> 404]

(* DENIAL_STATUS *)
DenialStatus ==
    [caller_quota |-> 429, registry_full |-> 503, invalid_wallet |-> 400]

Register(r) ==
    /\ At(r, "register")
    /\ \E status \in {200, 500} \cup {DenialStatus[d] : d \in DOMAIN DenialStatus} :
          Answer(r, status)
    /\ UNCHANGED <<limiter, env>>

Leave(r) ==
    /\ At(r, "answered")
    /\ Update(r, NoRequest)
    /\ UNCHANGED <<limiter, env>>

ClockTicks == Elapse /\ UNCHANGED <<env, request>>

BoundaryNext ==
    \/ \E r \in Requests :
          \/ \E k \in Keys : Arrive(r, k)
          \/ Validate(r) \/ History(r) \/ Identify(r) \/ Register(r) \/ Leave(r)
    \/ ClockTicks

BoundarySpec == BoundaryInit /\ [][BoundaryNext]_boundary
-------------------------------------------------------------------------------
Callers ==
    {Anonymous} \cup {<<t>> : t \in Tokens} \cup (Tokens \X SubjectHeaders)

Senders == [token : Tokens \cup {Absent}, subject : SubjectHeaders]

Routes == {"none", "history", "subscribe"}
Steps == Routes \cup {"body", "register", "answered"}
Statuses == {0, 200, 400, 401, 429, 500, 503}

RequestStates ==
    [at : Steps, route : Routes, body : {NoBody} \cup Checked, device : Senders,
     caller : Callers, status : Statuses]

(* Every variable has its type. *)
BoundaryTypeOK ==
    /\ LimiterTypeOK
    /\ env \in [configured : SUBSET Tokens, production : BOOLEAN]
    /\ request \in [Requests -> RequestStates]

(* Nothing miswritten passes, on whatever chain it is sent for: no wrong     *)
(* symbols or letters within six neighbouring places, no up to five symbols  *)
(* lost at the end, no upper-case copy; on a chain whose prefix is known no  *)
(* address of another chain passes; and an account of such a chain, written  *)
(* as BIP-173 has it, is not refused there (decodeBech32, checkAddress,      *)
(* walletBodySchema).  Of a chain whose prefix is not known nothing more is  *)
(* said: the code accepts any account for it.                                *)
AcceptedIsRight ==
    \A r \in Requests : request[r].body.rejection # "unread" =>
        LET body == request[r].body
        IN  /\ body.rejection = "accepted" => ~body.slip /\ ~body.foreign
            /\ body.own => body.rejection = "accepted"

(* A deployment that configures any token, or runs in production, registers  *)
(* nobody who has not presented a usable one, even when every configured     *)
(* token is too short to be used (loadSubscribeAuth, resolveSubscriber).     *)
NoOpenDoor ==
    \A r \in Requests :
        At(r, "register") /\ (env.configured # {} \/ env.production) =>
            /\ request[r].caller # Anonymous
            /\ request[r].device.token \in env.configured \cap UsableTokens

(* The device a request comes from, as its sender means it. *)
DeviceOf(r) ==
    <<request[r].device.token,
      IF request[r].device.subject.value \in SafeSubjects
      THEN request[r].device.subject.value ELSE Absent>>

(* Two registrations are charged to one quota exactly when they come from    *)
(* one device under one token: blanks around the id do not make a second     *)
(* quota, and devices of different tokens do not share one                   *)
(* (resolveSubscriber; the quota itself is WalletRegistry's).                *)
DeviceKeepsItsQuota ==
    \A r, s \in Requests :
        At(r, "register") /\ At(s, "register")
        /\ request[r].caller # Anonymous /\ request[s].caller # Anonymous =>
            (request[r].caller = request[s].caller <=> DeviceOf(r) = DeviceOf(s))
===============================================================================
