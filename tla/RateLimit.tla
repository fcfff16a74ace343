------------------------------- MODULE RateLimit -------------------------------
(***************************************************************************)
(* rateLimit() of src/http/middleware.ts: the times of the requests served *)
(* per key, pruned only when a request of that key is served again.  The   *)
(* middleware decides and records in one synchronous step.                 *)
(*                                                                         *)
(* The array of a key is a set of entries with a number each, since only   *)
(* its length and a filter on the times are ever used.                     *)
(***************************************************************************)
EXTENDS Integers, FiniteSets

CONSTANTS
    Keys,           \* x-api-key, else x-forwarded-for, else "anon"
    Unset,          \* no API key is configured
    WindowMs, Max, TrustedMax,
    StartTime, MaxTime      \* bounds of the clock

ASSUME RateAssumption ==
    /\ Unset \notin Keys
    /\ WindowMs \in Nat \ {0} /\ Max \in Nat \ {0} /\ TrustedMax \in Nat \ {0}
    /\ StartTime \in Nat /\ MaxTime \in Nat

VARIABLES
    clock,
    apiKey,         \* the configured key, or Unset
    hits,           \* key -> entries kept
    served,         \* history: key -> every request served
    verdict         \* history: the last decision

limiter == <<clock, apiKey, hits, served, verdict>>

Limit(k) == IF k = apiKey THEN TrustedMax ELSE Max

(* Mutants of Kept: the edge of the window counts; entries are kept for less *)
(* than the window.                                                          *)
KeptToTheEdge(k) == {h \in hits[k] : h.at >= clock - WindowMs}
KeptTooShort(k) == {h \in hits[k] : h.at > clock - WindowMs + 1}

Kept(k) == {h \in hits[k] : h.at > clock - WindowMs}

Init ==
    /\ clock = StartTime
    /\ apiKey \in Keys \cup {Unset}
    /\ hits = [k \in Keys |-> {}]
    /\ served = [k \in Keys |-> {}]
    /\ verdict = [key |-> "none", ok |-> TRUE]

Serve(k) ==
    /\ Cardinality(Kept(k)) < Limit(k)
    /\ LET hit == [n |-> Cardinality(served[k]), at |-> clock]
       IN  /\ hits' = [hits EXCEPT ![k] = Kept(k) \cup {hit}]
           /\ served' = [served EXCEPT ![k] = @ \cup {hit}]
    /\ verdict' = [key |-> k, ok |-> TRUE]
    /\ UNCHANGED <<clock, apiKey>>

(* 429 rate_limited: the entry of the key is left as it was. *)
Refuse(k) ==
    /\ Cardinality(Kept(k)) >= Limit(k)
    /\ verdict' = [key |-> k, ok |-> FALSE]
    /\ UNCHANGED <<clock, apiKey, hits, served>>

Elapse ==
    /\ clock < MaxTime
    /\ clock' = clock + 1
    /\ UNCHANGED <<apiKey, hits, served, verdict>>

Next == Elapse \/ \E k \in Keys : Serve(k) \/ Refuse(k)

Spec == Init /\ [][Next]_limiter
-------------------------------------------------------------------------------
Hits == [n : Nat, at : Nat]

LimiterTypeOK ==
    /\ clock \in Nat
    /\ apiKey \in Keys \cup {Unset}
    /\ hits \in [Keys -> SUBSET Hits]
    /\ served \in [Keys -> SUBSET Hits]

(* No window of WindowMs, wherever it ends, holds more served requests of a  *)
(* key than its limit, although the entries of a key are pruned only when it *)
(* comes back (rateLimit).                                                   *)
WindowBound ==
    \A k \in Keys : \A end \in StartTime .. MaxTime :
        Cardinality({h \in served[k] : h.at > end - WindowMs /\ h.at <= end}) <= Limit(k)

(* The pruned entries decide as the full log would: a request is refused     *)
(* only when the window is full of served requests of its own key.           *)
Limits == [k \in Keys |-> Limit(k)]

Window == INSTANCE SlidingWindow WITH limit <- Limits
ExactLimit == Window!Spec
===============================================================================
