----------------------------- MODULE WatchContract -----------------------------
(***************************************************************************)
(* What registerPush() promises its caller, without calls, stores or       *)
(* clocks: every wallet has a watch end, which only ever moves later, and  *)
(* an end is acknowledged only once the wallet is watched at least that    *)
(* long.  ("The wallet stays watched for pushWatchTtlMs, read or not",     *)
(* src/http/app.ts.)                                                       *)
(***************************************************************************)
EXTENDS Naturals

CONSTANT Wallets

VARIABLES
    until,          \* wallet -> end of its watch, 0 for none
    promised        \* wallet -> latest end that was acknowledged

contract == <<until, promised>>

Init ==
    /\ until = [w \in Wallets |-> 0]
    /\ promised = [w \in Wallets |-> 0]

Extend(w) ==
    /\ until'[w] > until[w]
    /\ until' = [until EXCEPT ![w] = until'[w]]
    /\ UNCHANGED promised

Acknowledge(w) ==
    /\ promised'[w] > promised[w] /\ promised'[w] <= until[w]
    /\ promised' = [promised EXCEPT ![w] = promised'[w]]
    /\ UNCHANGED until

Next == \E w \in Wallets : Extend(w) \/ Acknowledge(w)

Spec == Init /\ [][Next]_contract
===============================================================================
