------------------------------- MODULE BchCode -------------------------------
(***************************************************************************)
(* The definition of the bech32 checksum that the code's bit operations    *)
(* stand for (BIP-173): symbols are the coefficients of a polynomial over  *)
(* GF(32), and six of them are added so that the remainder by the          *)
(* generator is 1.  Nothing here is the code's.                            *)
(***************************************************************************)
EXTENDS Integers, Sequences

(* Addition in GF(2)[a], on numbers below 1024. *)
Plus(x, y) ==
    LET sum[i \in 0 .. 10] ==
            IF i = 0 THEN 0
            ELSE sum[i - 1] + 2 ^ (i - 1) * (((x \div 2 ^ (i - 1)) + (y \div 2 ^ (i - 1))) % 2)
    IN  sum[10]

(* Multiplication by a, reduced by a^5 + a^3 + 1. *)
TimesA(x) == IF x < 16 THEN 2 * x ELSE Plus(2 * x, 41)

GfTimes == [x \in 0 .. 31, y \in 0 .. 31 |->
    LET power[i \in 0 .. 4] == IF i = 0 THEN x ELSE TimesA(power[i - 1])
        product[i \in 0 .. 5] ==
            IF i = 0 THEN 0
            ELSE IF (y \div 2 ^ (i - 1)) % 2 = 1 THEN Plus(product[i - 1], power[i - 1])
            ELSE product[i - 1]
    IN  product[5]]

GfPlus == [x \in 0 .. 31, y \in 0 .. 31 |-> Plus(x, y)]

(* x^6 + 29x^5 + 22x^4 + 20x^3 + 21x^2 + 29x + 18, without its first term. *)
Divisor == <<29, 22, 20, 21, 29, 18>>

(* Long division: what is left of 1 followed by the symbols. *)
Remainder(symbols) ==
    LET rest[i \in 0 .. Len(symbols)] ==
            IF i = 0 THEN <<0, 0, 0, 0, 0, 1>>
            ELSE LET r == rest[i - 1]
                     next == Append(Tail(r), symbols[i])
                 IN  [j \in 1 .. 6 |-> GfPlus[next[j], GfTimes[r[1], Divisor[j]]]]
    IN  rest[Len(symbols)]

(* The six symbols that make a code word of the given ones. *)
Checksum(symbols) ==
    LET r == Remainder(symbols \o <<0, 0, 0, 0, 0, 0>>)
    IN  [j \in 1 .. 6 |-> IF j = 6 THEN GfPlus[r[j], 1] ELSE r[j]]
===============================================================================
