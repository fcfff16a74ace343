--------------------------- MODULE AnnounceContract ---------------------------
(***************************************************************************)
(* What a wake-up promises the backend, without queues, detectors, retries *)
(* or crashes: a transaction can be read before the backend is first told  *)
(* of it, what can be read once stays so, and the backend is told of one   *)
(* transaction at a time.  (consumer.ts stores and trims before it         *)
(* notifies; the body of the post names the transaction and no more.)      *)
(***************************************************************************)
EXTENDS Naturals

CONSTANT Keys

VARIABLES
    readable,       \* stored, or behind a full set of others
    told            \* sighting -> posts the backend took

contract == <<readable, told>>

Init ==
    /\ readable = {}
    /\ told = [k \in Keys |-> 0]

Store ==
    /\ readable' \in SUBSET Keys /\ readable \subseteq readable' /\ readable' # readable
    /\ UNCHANGED told

Tell(k) ==
    /\ k \in readable
    /\ told'[k] > told[k] /\ told' = [told EXCEPT ![k] = told'[k]]
    /\ UNCHANGED readable

Next == Store \/ \E k \in Keys : Tell(k)

Spec == Init /\ [][Next]_contract
===============================================================================
