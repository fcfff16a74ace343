---------------------------- MODULE MCHttpBoundary ----------------------------
(***************************************************************************)
(* A small instance of HttpBoundary for TLC: wallets whose addresses the   *)
(* reference encoder makes, and every text that is one slip away.          *)
(***************************************************************************)
EXTENDS HttpBoundary, BchCode, TLC

osmo == <<111, 115, 109, 111>>
noble == <<110, 111, 98, 108, 101>>
nyx == <<110>>

MCAllowedPrefixes == {osmo, noble}
MCChainPrefixes == "osmosis-1" :> osmo @@ "noble-1" :> noble

(* An account of 32 symbols with its checksum. *)
Text(prefix, data) ==
    [prefix |-> prefix, symbols |-> data \o Checksum(expandPrefix(prefix) \o data)]

Account(n) == [i \in 1 .. 32 |-> (n * i + i * i) % 32]

Slips(text) ==
    LET own == text.symbols
        n == Len(own)
        Mirrored(i, k) ==   \* k symbols from i on, in reverse
            [j \in 1 .. n |-> IF j \in i .. i + k - 1 THEN own[2 * i + k - 1 - j] ELSE own[j]]
    IN  {[text EXCEPT !.symbols[i] = x] : i \in 1 .. n, x \in -1 .. 31}
        \cup UNION {{[text EXCEPT !.symbols = Mirrored(i, k)] : i \in 1 .. n + 1 - k} : k \in {2, 6}}
        \cup {[text EXCEPT !.prefix[i] = x] : i \in DOMAIN text.prefix, x \in 97 .. 122}
        \cup {[text EXCEPT !.symbols = SubSeq(own, 1, n - k)] : k \in 1 .. 5}
        \cup {[prefix |-> [i \in DOMAIN text.prefix |-> text.prefix[i] - 32],
               symbols |-> [i \in 1 .. n |-> -1]]}

Body(meant, home, text, chainId) ==
    [meant |-> meant, home |-> home, text |-> text, chainId |-> chainId]

(* Every slip in an account, for its own chain and for one of no known       *)
(* prefix, and texts that are somebody else's or no account.                 *)
MCBodies ==
    LET w == Text(osmo, Account(3))
        v == Text(noble, Account(11))
        u == Text(nyx, Account(5))
        short == Text(osmo, <<1, 2, 3>>)
    IN  {Body(w, "osmosis-1", t, c) : t \in Slips(w), c \in {"osmosis-1", "unknown-1"}}
        \cup {Body(v, "noble-1", t, c) :
                t \in {v, w, u, short}, c \in {"noble-1", "osmosis-1", "unknown-1", "-bad"}}

(* Requests, keys, usable tokens and usable device ids are interchangeable.  *)
Symmetry ==
    Permutations(Requests) \cup Permutations(Keys)
        \cup Permutations(UsableTokens) \cup Permutations(SafeSubjects)
===============================================================================
