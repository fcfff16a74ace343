----------------------------- MODULE SlidingWindow -----------------------------
(***************************************************************************)
(* What a sliding-window rate limit promises, with a log of every request  *)
(* it ever served: a request is served exactly when fewer than the limit   *)
(* of its key were served in the window that ends now.                     *)
(***************************************************************************)
EXTENDS Naturals, FiniteSets

CONSTANTS Keys, WindowMs

VARIABLES
    clock,
    limit,          \* key -> requests it may have served in a window
    served,         \* key -> log of the requests served: their number and time
    verdict         \* the last decision: the key and whether it was served

log == <<clock, limit, served, verdict>>

Recent(k) == {h \in served[k] : h.at + WindowMs > clock}

Init ==
    /\ clock \in Nat
    /\ limit \in [Keys -> Nat]
    /\ served = [k \in Keys |-> {}]
    /\ verdict = [key |-> "none", ok |-> TRUE]

Serve(k) ==
    /\ Cardinality(Recent(k)) < limit[k]
    /\ served' = [served EXCEPT ![k] = @ \cup {[n |-> Cardinality(@), at |-> clock]}]
    /\ verdict' = [key |-> k, ok |-> TRUE]
    /\ UNCHANGED <<clock, limit>>

Refuse(k) ==
    /\ Cardinality(Recent(k)) >= limit[k]
    /\ verdict' = [key |-> k, ok |-> FALSE]
    /\ UNCHANGED <<clock, limit, served>>

Elapse == clock' > clock /\ UNCHANGED <<limit, served, verdict>>

Next == Elapse \/ \E k \in Keys : Serve(k) \/ Refuse(k)

Spec == Init /\ [][Next]_log
===============================================================================
