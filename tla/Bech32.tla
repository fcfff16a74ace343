-------------------------------- MODULE Bech32 --------------------------------
(***************************************************************************)
(* The address check of src/address.ts: decodeBech32 with its checksum on  *)
(* 30-bit words, checkAddress and its policy.  A word is the set of its    *)
(* one bits, so that xor is the symmetric difference.                      *)
(*                                                                         *)
(* A text is split at its last "1", as lastIndexOf does: prefix holds      *)
(* character codes, symbols the positions in CHARSET of what follows, with *)
(* -1 for a character that is not in it, as no upper-case letter is.       *)
(***************************************************************************)
EXTENDS Integers, Sequences, FiniteSets

CONSTANTS
    AllowedPrefixes,        \* set of prefixes, or AnyPrefix
    AnyPrefix,
    ChainPrefixes,          \* function on the chains whose prefix is known
    MinDataLength, MaxDataLength

Bits(n) == {i \in 0 .. 29 : (n \div 2 ^ i) % 2 = 1}

Xor(a, b) == (a \ b) \cup (b \ a)

GENERATOR == <<Bits(996825010), Bits(642813549), Bits(513874426),
               Bits(1027748829), Bits(705979059)>>

(* One round: the top five bits leave, the rest moves up by five. *)
Shift(chk, value) == Xor({i + 5 : i \in {j \in chk : j < 25}}, Bits(value))

Round(chk, value) ==
    LET gen[i \in 0 .. 5] ==
            IF i = 0 THEN Shift(chk, value)
            ELSE IF 24 + i \in chk THEN Xor(gen[i - 1], GENERATOR[i]) ELSE gen[i - 1]
    IN  gen[5]

polymod(values) ==
    LET chk[i \in 0 .. Len(values)] ==
            IF i = 0 THEN Bits(1) ELSE Round(chk[i - 1], values[i])
    IN  chk[Len(values)]

expandPrefix(prefix) ==
    [i \in 1 .. Len(prefix) |-> prefix[i] \div 32]
        \o <<0>> \o [i \in 1 .. Len(prefix) |-> prefix[i] % 32]

UpperCase == 65 .. 90

(* Mutant of decodeBech32: the checksum is computed and not compared.        *)
decodeBech32Unchecked(text) ==
    /\ Len(text.prefix) + 1 + Len(text.symbols) \in 8 .. 90
    /\ Len(text.symbols) >= 6
    /\ Len(text.prefix) \in 1 .. 83
    /\ \A i \in DOMAIN text.prefix : text.prefix[i] \in 33 .. 126 \ UpperCase
    /\ \A i \in DOMAIN text.symbols : text.symbols[i] # -1

(* TRUE where the code returns a Bech32Address. *)
decodeBech32(text) ==
    /\ Len(text.prefix) + 1 + Len(text.symbols) \in 8 .. 90
    /\ Len(text.symbols) >= 6
    /\ Len(text.prefix) \in 1 .. 83
    /\ \A i \in DOMAIN text.prefix : text.prefix[i] \in 33 .. 126 \ UpperCase
    /\ \A i \in DOMAIN text.symbols : text.symbols[i] # -1
    /\ polymod(expandPrefix(text.prefix) \o text.symbols) = Bits(1)

dataLength(text) == Len(text.symbols) - 6

(* "accepted" where the code returns undefined. *)
checkAddress(text, chainId) ==
    IF ~decodeBech32(text) THEN "not_bech32"
    ELSE IF dataLength(text) \notin MinDataLength .. MaxDataLength THEN "bad_length"
    ELSE IF AllowedPrefixes # AnyPrefix /\ text.prefix \notin AllowedPrefixes
    THEN "prefix_not_served"
    ELSE IF chainId \in DOMAIN ChainPrefixes /\ ChainPrefixes[chainId] # text.prefix
    THEN "prefix_chain_mismatch"
    ELSE "accepted"
-------------------------------------------------------------------------------
(* The senders' side, none of it the code's: a text, and a text in which     *)
(* the address that was meant can still be recognised.                       *)
Texts == [prefix : Seq(Nat), symbols : Seq(-1 .. 31)]

SameButForSix(s, t) ==
    /\ Len(s) = Len(t)
    /\ \E p \in 0 .. Len(s) : \A i \in 1 .. Len(s) : s[i] # t[i] => i \in p .. p + 5

(* A letter in upper case or a symbol that is none; wrong symbols, or wrong  *)
(* letters of the prefix, within six neighbouring places (two swapped, say); *)
(* up to five symbols lost at the end.                                       *)
Slip(text, meant) ==
    \/ \E i \in DOMAIN text.prefix : text.prefix[i] \in UpperCase
    \/ \E i \in DOMAIN text.symbols : text.symbols[i] = -1
    \/ text.prefix = meant.prefix /\ SameButForSix(text.symbols, meant.symbols)
    \/ /\ text.symbols = meant.symbols /\ SameButForSix(text.prefix, meant.prefix)
       /\ \A i \in 1 .. Len(text.prefix) : text.prefix[i] \div 32 = meant.prefix[i] \div 32
    \/ /\ text.prefix = meant.prefix
       /\ \E k \in 1 .. 5 : text.symbols = SubSeq(meant.symbols, 1, Len(meant.symbols) - k)
===============================================================================
