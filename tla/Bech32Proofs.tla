----------------------------- MODULE Bech32Proofs -----------------------------
(***************************************************************************)
(* Proofs about Bech32: the checksum of src/address.ts tells a text from   *)
(* every slip in it, for texts of every length.                            *)
(*                                                                         *)
(* A round of polymod is one to one, because the low five bits of the five *)
(* generators are independent; two runs of rounds that part somewhere      *)
(* never meet again while the symbols are the same, and for six rounds     *)
(* after they part nothing of their difference has left the word, so no    *)
(* symbols can undo it.  The library's induction theorems take an          *)
(* operator; here an induction over the places of a sequence is stated     *)
(* about a set of places (Climb), and the recursive functions of the model *)
(* are shown to exist before they are unfolded (RoundUnfolds, RoundsOf).   *)
(***************************************************************************)
EXTENDS Bech32, WellFoundedInduction, SequenceTheorems, TLAPS

BitOf(n, i) == (n \div 2 ^ i) % 2 = 1

(* The five low bits of a number, in the arithmetic the prover knows.        *)
LEMMA LowBits ==
    ASSUME NEW n \in Nat
    PROVE  /\ 0 \in Bits(n) <=> n % 2 = 1
           /\ 1 \in Bits(n) <=> (n \div 2) % 2 = 1
           /\ 2 \in Bits(n) <=> (n \div 4) % 2 = 1
           /\ 3 \in Bits(n) <=> (n \div 8) % 2 = 1
           /\ 4 \in Bits(n) <=> (n \div 16) % 2 = 1
<1>1. /\ BitOf(n, 0) <=> n % 2 = 1
      /\ BitOf(n, 1) <=> (n \div 2) % 2 = 1
      /\ BitOf(n, 2) <=> (n \div 4) % 2 = 1
      /\ BitOf(n, 3) <=> (n \div 8) % 2 = 1
      /\ BitOf(n, 4) <=> (n \div 16) % 2 = 1
  BY DEF BitOf
<1>2. \A i \in 0 .. 29 : i \in Bits(n) <=> BitOf(n, i)
  BY DEF Bits, BitOf
<1>3. 0 \in 0 .. 29 /\ 1 \in 0 .. 29 /\ 2 \in 0 .. 29 /\ 3 \in 0 .. 29 /\ 4 \in 0 .. 29
  OBVIOUS
<1> QED
  BY <1>1, <1>2, <1>3

LEMMA BitsOfSymbol == ASSUME NEW v \in 0 .. 31 PROVE Bits(v) \subseteq 0 .. 4
<1>1. /\ ~BitOf(v, 5) /\ ~BitOf(v, 6) /\ ~BitOf(v, 7) /\ ~BitOf(v, 8) /\ ~BitOf(v, 9)
      /\ ~BitOf(v, 10) /\ ~BitOf(v, 11) /\ ~BitOf(v, 12) /\ ~BitOf(v, 13) /\ ~BitOf(v, 14)
      /\ ~BitOf(v, 15) /\ ~BitOf(v, 16) /\ ~BitOf(v, 17) /\ ~BitOf(v, 18) /\ ~BitOf(v, 19)
      /\ ~BitOf(v, 20) /\ ~BitOf(v, 21) /\ ~BitOf(v, 22) /\ ~BitOf(v, 23) /\ ~BitOf(v, 24)
      /\ ~BitOf(v, 25) /\ ~BitOf(v, 26) /\ ~BitOf(v, 27) /\ ~BitOf(v, 28) /\ ~BitOf(v, 29)
  BY DEF BitOf
<1>2. \A i \in 5 .. 29 : ~BitOf(v, i)
  BY <1>1
<1>3. \A i \in Bits(v) : i \in 0 .. 29 /\ BitOf(v, i)
  BY DEF Bits, BitOf
<1> QED
  BY <1>2, <1>3

(* Different symbols have different bits.                                    *)
LEMMA BitsTellSymbols ==
    ASSUME NEW v \in 0 .. 31, NEW w \in 0 .. 31, Bits(v) = Bits(w)
    PROVE  v = w
<1>1. /\ v % 2 = w % 2 /\ (v \div 2) % 2 = (w \div 2) % 2
      /\ (v \div 4) % 2 = (w \div 4) % 2 /\ (v \div 8) % 2 = (w \div 8) % 2
      /\ (v \div 16) % 2 = (w \div 16) % 2
  BY LowBits
<1> QED
  BY <1>1

(* The low five bits of the numbers in GENERATOR.                            *)
LEMMA LowOfGenerators ==
    /\ Bits(996825010) \cap (0 .. 4) = {1, 4}
    /\ Bits(642813549) \cap (0 .. 4) = {0, 2, 3}
    /\ Bits(513874426) \cap (0 .. 4) = {1, 3, 4}
    /\ Bits(1027748829) \cap (0 .. 4) = {0, 2, 3, 4}
    /\ Bits(705979059) \cap (0 .. 4) = {0, 1, 4}
<1>1. ASSUME NEW n \in Nat
      PROVE  \A i \in Bits(n) \cap (0 .. 4) :
                \/ i = 0 /\ n % 2 = 1
                \/ i = 1 /\ (n \div 2) % 2 = 1
                \/ i = 2 /\ (n \div 4) % 2 = 1
                \/ i = 3 /\ (n \div 8) % 2 = 1
                \/ i = 4 /\ (n \div 16) % 2 = 1
  <2>1. \A i \in 0 .. 4 : i = 0 \/ i = 1 \/ i = 2 \/ i = 3 \/ i = 4
    OBVIOUS
  <2> QED
    BY <2>1, LowBits
<1>2. Bits(996825010) \cap (0 .. 4) = {1, 4}
  BY <1>1, LowBits
<1>3. Bits(642813549) \cap (0 .. 4) = {0, 2, 3}
  BY <1>1, LowBits
<1>4. Bits(513874426) \cap (0 .. 4) = {1, 3, 4}
  BY <1>1, LowBits
<1>5. Bits(1027748829) \cap (0 .. 4) = {0, 2, 3, 4}
  BY <1>1, LowBits
<1>6. Bits(705979059) \cap (0 .. 4) = {0, 1, 4}
  BY <1>1, LowBits
<1> QED
  BY <1>2, <1>3, <1>4, <1>5, <1>6
-------------------------------------------------------------------------------
Add(chk, k, word) == IF 24 + k \in chk THEN Xor(word, GENERATOR[k]) ELSE word

Reduced(chk) == Add(chk, 5, Add(chk, 4, Add(chk, 3, Add(chk, 2, Add(chk, 1, {})))))

(* Round is a recursive function over the generators: its six values,        *)
(* one by one.                                                               *)
LEMMA RoundUnfolds ==
    ASSUME NEW chk, NEW v
    PROVE  Round(chk, v) =
             Add(chk, 5, Add(chk, 4, Add(chk, 3, Add(chk, 2, Add(chk, 1, Shift(chk, v))))))
<1> DEFINE gen[i \in 0 .. 5] ==
             IF i = 0 THEN Shift(chk, v)
             ELSE IF 24 + i \in chk THEN Xor(gen[i - 1], GENERATOR[i]) ELSE gen[i - 1]
           g1 == Add(chk, 1, Shift(chk, v))
           g2 == Add(chk, 2, g1)
           g3 == Add(chk, 3, g2)
           g4 == Add(chk, 4, g3)
           g5 == Add(chk, 5, g4)
           g == [i \in 0 .. 5 |-> IF i = 0 THEN Shift(chk, v) ELSE IF i = 1 THEN g1
                                  ELSE IF i = 2 THEN g2 ELSE IF i = 3 THEN g3
                                  ELSE IF i = 4 THEN g4 ELSE g5]
           F(f) == [i \in 0 .. 5 |->
                      IF i = 0 THEN Shift(chk, v)
                      ELSE IF 24 + i \in chk THEN Xor(f[i - 1], GENERATOR[i]) ELSE f[i - 1]]
<1>1. Round(chk, v) = gen[5]
  BY DEF Round
<1>2. g = F(g)
  <2>1. ASSUME NEW i \in 0 .. 5 PROVE g[i] = F(g)[i]
    <3>1. i = 0 \/ i = 1 \/ i = 2 \/ i = 3 \/ i = 4 \/ i = 5
      OBVIOUS
    <3> QED
      BY <3>1 DEF Add
  <2> QED
    BY <2>1
<1>3. gen = F(gen)
  <2> HIDE DEF g, F
  <2>1. gen = CHOOSE f : f = F(f)
    BY DEF F
  <2> HIDE DEF gen
  <2> QED
    BY <1>2, <2>1
<1> HIDE DEF gen
<1>4. gen[1] = g1 /\ gen[2] = g2 /\ gen[3] = g3 /\ gen[4] = g4 /\ gen[5] = g5
  <2>0. gen[0] = Shift(chk, v)
    BY <1>3
  <2>1. gen[1] = g1
    BY <1>3, <2>0 DEF Add
  <2>2. gen[2] = g2
    BY <1>3, <2>1 DEF Add
  <2>3. gen[3] = g3
    BY <1>3, <2>2 DEF Add
  <2>4. gen[4] = g4
    BY <1>3, <2>3 DEF Add
  <2>5. gen[5] = g5
    BY <1>3, <2>4 DEF Add
  <2> QED
    BY <2>1, <2>2, <2>3, <2>4, <2>5
<1> QED
  BY <1>1, <1>4

Word == SUBSET (0 .. 29)

LEMMA InXor == ASSUME NEW a, NEW b, NEW i PROVE i \in Xor(a, b) <=> (i \in a <=> i \notin b)
BY DEF Xor

LEMMA AddMoves ==
    ASSUME NEW chk, NEW k, NEW x, NEW y
    PROVE  Add(chk, k, Xor(x, y)) = Xor(x, Add(chk, k, y))
<1>1. Xor(Xor(x, y), GENERATOR[k]) = Xor(x, Xor(y, GENERATOR[k]))
  BY DEF Xor
<1> QED
  BY <1>1 DEF Add

(* A round moves the word up with the new symbol and adds what the bits that *)
(* leave it at the top are worth.                                            *)
LEMMA RoundIs ==
    ASSUME NEW chk, NEW v PROVE Round(chk, v) = Xor(Shift(chk, v), Reduced(chk))
<1>1. Shift(chk, v) = Xor(Shift(chk, v), {})
  BY DEF Xor, Shift
<1> QED
  BY <1>1, AddMoves, RoundUnfolds DEF Reduced

LEMMA Generators ==
    /\ GENERATOR[1] \cap (0 .. 4) = {1, 4}
    /\ GENERATOR[2] \cap (0 .. 4) = {0, 2, 3}
    /\ GENERATOR[3] \cap (0 .. 4) = {1, 3, 4}
    /\ GENERATOR[4] \cap (0 .. 4) = {0, 2, 3, 4}
    /\ GENERATOR[5] \cap (0 .. 4) = {0, 1, 4}
    /\ \A k \in 1 .. 5 : GENERATOR[k] \in Word
<1>1. \A n : Bits(n) \in Word
  BY DEF Bits, Word
<1> HIDE DEF Word
<1>2. /\ GENERATOR[1] = Bits(996825010) /\ GENERATOR[2] = Bits(642813549)
      /\ GENERATOR[3] = Bits(513874426) /\ GENERATOR[4] = Bits(1027748829)
      /\ GENERATOR[5] = Bits(705979059)
  BY DEF GENERATOR
<1>3. \A k \in 1 .. 5 : GENERATOR[k] \in Word
  BY <1>1, <1>2
<1> QED
  BY <1>2, <1>3, LowOfGenerators

LEMMA ReducedLow ==
    ASSUME NEW a
    PROVE  /\ 0 \in Reduced(a) <=> (26 \in a <=> (28 \in a <=> 29 \in a))
           /\ 1 \in Reduced(a) <=> (25 \in a <=> (27 \in a <=> 29 \in a))
           /\ 2 \in Reduced(a) <=> ~(26 \in a <=> 28 \in a)
           /\ 3 \in Reduced(a) <=> (26 \in a <=> (27 \in a <=> 28 \in a))
           /\ 4 \in Reduced(a) <=> ~(25 \in a <=> (27 \in a <=> (28 \in a <=> 29 \in a)))
<1>1. ASSUME NEW i \in 0 .. 4, NEW k \in 1 .. 5, NEW x
      PROVE  i \in Add(a, k, x) <=>
                IF 24 + k \in a /\ i \in GENERATOR[k] THEN i \notin x ELSE i \in x
  BY InXor DEF Add
<1>2. /\ \A i \in 0 .. 4 : i \in GENERATOR[1] <=> i \in {1, 4}
      /\ \A i \in 0 .. 4 : i \in GENERATOR[2] <=> i \in {0, 2, 3}
      /\ \A i \in 0 .. 4 : i \in GENERATOR[3] <=> i \in {1, 3, 4}
      /\ \A i \in 0 .. 4 : i \in GENERATOR[4] <=> i \in {0, 2, 3, 4}
      /\ \A i \in 0 .. 4 : i \in GENERATOR[5] <=> i \in {0, 1, 4}
  BY Generators
<1> DEFINE x1 == Add(a, 1, {})
           x2 == Add(a, 2, x1)
           x3 == Add(a, 3, x2)
           x4 == Add(a, 4, x3)
           x5 == Add(a, 5, x4)
<1>3. \A i \in 0 .. 4 : i \in x1 <=> 25 \in a /\ i \in {1, 4}
  BY <1>1, <1>2
<1>4. \A i \in 0 .. 4 : i \in x2 <=> IF 26 \in a /\ i \in {0, 2, 3} THEN i \notin x1 ELSE i \in x1
  BY <1>1, <1>2
<1>5. \A i \in 0 .. 4 : i \in x3 <=> IF 27 \in a /\ i \in {1, 3, 4} THEN i \notin x2 ELSE i \in x2
  BY <1>1, <1>2
<1>6. \A i \in 0 .. 4 : i \in x4 <=> IF 28 \in a /\ i \in {0, 2, 3, 4} THEN i \notin x3 ELSE i \in x3
  BY <1>1, <1>2
<1>7. \A i \in 0 .. 4 : i \in x5 <=> IF 29 \in a /\ i \in {0, 1, 4} THEN i \notin x4 ELSE i \in x4
  BY <1>1, <1>2
<1>8. Reduced(a) = x5
  BY DEF Reduced
<1> HIDE DEF x1, x2, x3, x4, x5
<1> QED
  BY <1>3, <1>4, <1>5, <1>6, <1>7, <1>8

(* Words that differ in their top five bits are reduced differently.         *)
LEMMA ReducedTells ==
    ASSUME NEW a, NEW b, \A i \in 0 .. 4 : i \in Reduced(a) <=> i \in Reduced(b)
    PROVE  \A i \in 25 .. 29 : i \in a <=> i \in b
<1>1. /\ 0 \in Reduced(a) <=> 0 \in Reduced(b)
      /\ 1 \in Reduced(a) <=> 1 \in Reduced(b)
      /\ 2 \in Reduced(a) <=> 2 \in Reduced(b)
      /\ 3 \in Reduced(a) <=> 3 \in Reduced(b)
      /\ 4 \in Reduced(a) <=> 4 \in Reduced(b)
  OBVIOUS
<1>2. /\ 25 \in a <=> 25 \in b
      /\ 26 \in a <=> 26 \in b
      /\ 27 \in a <=> 27 \in b
      /\ 28 \in a <=> 28 \in b
      /\ 29 \in a <=> 29 \in b
  BY <1>1, ReducedLow
<1>3. \A i \in 25 .. 29 : i = 25 \/ i = 26 \/ i = 27 \/ i = 28 \/ i = 29
  OBVIOUS
<1> QED
  BY <1>2, <1>3

LEMMA ReducedSame ==
    ASSUME NEW a, NEW b, \A i \in 25 .. 29 : i \in a <=> i \in b
    PROVE  Reduced(a) = Reduced(b)
<1>1. ASSUME NEW k \in 1 .. 5, NEW x PROVE Add(a, k, x) = Add(b, k, x)
  <2>1. 24 + k \in 25 .. 29
    OBVIOUS
  <2> QED
    BY <2>1 DEF Add
<1> QED
  BY <1>1 DEF Reduced

LEMMA ReducedWord == ASSUME NEW a PROVE Reduced(a) \in Word
<1>1. ASSUME NEW k \in 1 .. 5, NEW x \in Word PROVE Add(a, k, x) \in Word
  BY Generators DEF Add, Xor, Word
<1>2. {} \in Word
  BY DEF Word
<1> QED
  BY <1>1, <1>2 DEF Reduced

LEMMA InShift ==
    ASSUME NEW a \in Word, NEW v \in 0 .. 31
    PROVE  /\ Shift(a, v) \in Word
           /\ \A i \in 0 .. 4 : i \in Shift(a, v) <=> i \in Bits(v)
           /\ \A i \in 0 .. 24 : i + 5 \in Shift(a, v) <=> i \in a
<1> DEFINE up == {i + 5 : i \in {j \in a : j < 25}}
<1>1. a \subseteq 0 .. 29 /\ Bits(v) \subseteq 0 .. 4
  BY BitsOfSymbol DEF Word
<1>2. \A n \in Int : n \in up <=> n - 5 \in a /\ n - 5 < 25
  <2>1. ASSUME NEW n \in Int, n \in up PROVE n - 5 \in a /\ n - 5 < 25
    BY <2>1, <1>1
  <2>2. ASSUME NEW n \in Int, n - 5 \in a, n - 5 < 25 PROVE n \in up
    <3>1. n = (n - 5) + 5
      OBVIOUS
    <3> QED
      BY <2>2, <3>1
  <2> QED
    BY <2>1, <2>2
<1>3. up \subseteq 5 .. 29
  BY <1>1
<1>4. Shift(a, v) = Xor(up, Bits(v))
  BY DEF Shift
<1> HIDE DEF up
<1>5. Shift(a, v) \in Word
  <2>1. \A i \in Xor(up, Bits(v)) : i \in up \/ i \in Bits(v)
    BY InXor
  <2>2. \A i \in Xor(up, Bits(v)) : i \in 0 .. 29
    <3>1. 0 .. 4 \subseteq 0 .. 29 /\ 5 .. 29 \subseteq 0 .. 29
      OBVIOUS
    <3> QED
      BY <3>1, <2>1, <1>1, <1>3
  <2> QED
    BY <2>2, <1>4 DEF Word
<1>6. \A i \in 0 .. 4 : i \in Shift(a, v) <=> i \in Bits(v)
  BY <1>3, <1>4 DEF Xor
<1>7. ASSUME NEW i \in 0 .. 24 PROVE i + 5 \in Shift(a, v) <=> i \in a
  <2>1. (i + 5) - 5 = i /\ i < 25 /\ i + 5 \in Int /\ i + 5 \notin 0 .. 4
    OBVIOUS
  <2>2. i + 5 \in up <=> i \in a
    BY <2>1, <1>2
  <2>3. i + 5 \in Xor(up, Bits(v)) <=> i + 5 \in up
    BY <2>1, <1>1, InXor
  <2> QED
    BY <2>2, <2>3, <1>4
<1> QED
  BY <1>5, <1>6, <1>7

LEMMA RoundWord == ASSUME NEW a \in Word, NEW v \in 0 .. 31 PROVE Round(a, v) \in Word
<1>1. Shift(a, v) \in Word /\ Reduced(a) \in Word
  BY InShift, ReducedWord
<1> QED
  BY <1>1, RoundIs DEF Xor, Word

(* With the same next symbol, different words stay different. *)
LEMMA RoundTellsWords ==
    ASSUME NEW a \in Word, NEW b \in Word, NEW v \in 0 .. 31, Round(a, v) = Round(b, v)
    PROVE  a = b
<1>1. \A i : (i \in Shift(a, v) <=> i \notin Reduced(a)) <=> (i \in Shift(b, v) <=> i \notin Reduced(b))
  <2>1. ASSUME NEW i, NEW c \in {a, b}
        PROVE  i \in Round(c, v) <=> (i \in Shift(c, v) <=> i \notin Reduced(c))
    BY RoundIs, InXor
  <2> QED
    BY <2>1
<1>2. \A i \in 0 .. 4 : i \in Shift(a, v) <=> i \in Shift(b, v)
  BY InShift
<1>3. \A i \in 0 .. 4 : i \in Reduced(a) <=> i \in Reduced(b)
  BY <1>1, <1>2
<1>4. \A i \in 25 .. 29 : i \in a <=> i \in b
  BY <1>3, ReducedTells
<1>5. Reduced(a) = Reduced(b)
  BY <1>4, ReducedSame
<1>6. \A i : i \in Shift(a, v) <=> i \in Shift(b, v)
  BY <1>1, <1>5
<1>7. \A i \in 0 .. 24 : i \in a <=> i \in b
  BY <1>6, InShift
<1>8. \A i \in 0 .. 29 : i \in a <=> i \in b
  <2>1. \A i \in 0 .. 29 : i \in 0 .. 24 \/ i \in 25 .. 29
    OBVIOUS
  <2> QED
    BY <1>4, <1>7, <2>1
<1> QED
  BY <1>8 DEF Word

(* Words whose top five bits agree: their difference moves up, and the low   *)
(* five bits are where the new symbols differ.                               *)
LEMMA DifferenceMovesUp ==
    ASSUME NEW a \in Word, NEW b \in Word, NEW v \in 0 .. 31, NEW w \in 0 .. 31,
           NEW m \in 0 .. 25, Xor(a, b) \subseteq 0 .. m - 1
    PROVE  /\ Xor(Round(a, v), Round(b, w)) \subseteq 0 .. m + 4
           /\ a # b \/ v # w => Round(a, v) # Round(b, w)
<1>1. \A i \in 25 .. 29 : i \in a <=> i \in b
  <2>1. \A i \in 25 .. 29 : i \notin Xor(a, b)
    OBVIOUS
  <2> QED
    BY <2>1, InXor
<1>2. Reduced(a) = Reduced(b)
  BY <1>1, ReducedSame
<1>3. \A i : i \in Xor(Round(a, v), Round(b, w)) <=> ~(i \in Shift(a, v) <=> i \in Shift(b, w))
  BY <1>2, RoundIs, InXor
<1>4. \A i \in 0 .. 24 : i + 5 \in Xor(Round(a, v), Round(b, w)) <=> i \in Xor(a, b)
  BY <1>3, InShift, InXor
<1>5. Xor(Round(a, v), Round(b, w)) \subseteq 0 .. m + 4
  <2> SUFFICES ASSUME NEW i \in Xor(Round(a, v), Round(b, w)) PROVE i \in 0 .. m + 4
    OBVIOUS
  <2>1. i \in 0 .. 29
    BY RoundWord DEF Xor, Word
  <2>2. CASE i \in 0 .. 4
    BY <2>2
  <2>3. CASE i \in 5 .. 29
    <3>1. i - 5 \in 0 .. 24 /\ (i - 5) + 5 = i
      BY <2>3
    <3>2. i - 5 \in Xor(a, b)
      BY <3>1, <1>4
    <3> QED
      BY <3>2, <2>3
  <2> QED
    BY <2>1, <2>2, <2>3
<1>6. ASSUME a # b PROVE Round(a, v) # Round(b, w)
  <2>1. PICK i \in 0 .. 29 : ~(i \in a <=> i \in b)
    BY <1>6 DEF Word
  <2>2. i \in 0 .. 24 /\ i \in Xor(a, b)
    BY <2>1, <1>1, InXor
  <2>3. i + 5 \in Xor(Round(a, v), Round(b, w))
    BY <2>2, <1>4
  <2> QED
    BY <2>3 DEF Xor
<1>7. ASSUME a = b, v # w PROVE Round(a, v) # Round(b, w)
  <2>1. Bits(v) # Bits(w) /\ Bits(v) \subseteq 0 .. 4 /\ Bits(w) \subseteq 0 .. 4
    BY <1>7, BitsTellSymbols, BitsOfSymbol
  <2>2. PICK i \in 0 .. 4 : ~(i \in Bits(v) <=> i \in Bits(w))
    BY <2>1
  <2>3. ~(i \in Shift(a, v) <=> i \in Shift(b, w))
    BY <2>2, InShift
  <2>4. i \in Xor(Round(a, v), Round(b, w))
    BY <2>3, <1>3
  <2> QED
    BY <2>4 DEF Xor
<1> QED
  BY <1>5, <1>6, <1>7
-------------------------------------------------------------------------------
(* Induction over the places of a sequence, about a set of places.           *)
LEMMA Climb ==
    ASSUME NEW S, 0 \in S, \A n \in Nat : n \in S => n + 1 \in S
    PROVE  Nat \subseteq S
<1> DEFINE T == Nat \ S
<1> SUFFICES ASSUME T # {} PROVE FALSE
  OBVIOUS
<1>1. IsWellFoundedOn(OpToRel(<, Nat), Nat) /\ T \subseteq Nat
  BY NatLessThanWellFounded
<1>2. PICK m \in T : \A n \in T : <<n, m>> \notin OpToRel(<, Nat)
  BY <1>1, WFMin
<1>3. \A n \in T : ~(n < m)
  BY <1>1, <1>2 DEF OpToRel
<1>4. m - 1 \in Nat /\ m - 1 < m /\ m = (m - 1) + 1
  OBVIOUS
<1>5. m - 1 \in S
  BY <1>3, <1>4
<1> QED
  BY <1>4, <1>5

(* The intermediate words of polymod. *)
LEMMA RoundsOf ==
    ASSUME NEW values, Len(values) \in Nat
    PROVE  \E chk : /\ chk[0] = Bits(1)
                    /\ \A i \in 1 .. Len(values) : chk[i] = Round(chk[i - 1], values[i])
                    /\ polymod(values) = chk[Len(values)]
<1> DEFINE chk[i \in 0 .. Len(values)] ==
             IF i = 0 THEN Bits(1) ELSE Round(chk[i - 1], values[i])
           F(f, n) == [i \in 0 .. n |-> IF i = 0 THEN Bits(1) ELSE Round(f[i - 1], values[i])]
           S == {n \in Nat : \E f : f = F(f, n)}
<1>1. 0 \in S
  <2> DEFINE f == [i \in 0 .. 0 |-> Bits(1)]
  <2>1. f = F(f, 0)
    OBVIOUS
  <2> QED
    BY <2>1
<1>2. ASSUME NEW n \in Nat, n \in S PROVE n + 1 \in S
  <2>1. PICK f : f = F(f, n)
    BY <1>2
  <2> DEFINE g == [i \in 0 .. n + 1 |->
                     IF i = n + 1 THEN Round(f[n], values[n + 1]) ELSE f[i]]
  <2>2. ASSUME NEW i \in 0 .. n + 1 PROVE g[i] = F(g, n + 1)[i]
    <3>1. CASE i = 0
      BY <2>1, <3>1
    <3>2. CASE i = n + 1
      BY <2>1, <3>2
    <3>3. CASE i \in 1 .. n
      <4>1. f[i] = Round(f[i - 1], values[i])
        BY <2>1, <3>3
      <4>2. g[i] = f[i] /\ g[i - 1] = f[i - 1]
        BY <3>3
      <4> QED
        BY <4>1, <4>2, <3>3
    <3> QED
      BY <3>1, <3>2, <3>3
  <2>3. g = F(g, n + 1)
    BY <2>2
  <2> HIDE DEF g, F
  <2> QED
    BY <2>3
<1> HIDE DEF S
<1>3. Len(values) \in S
  BY <1>1, <1>2, Climb
<1> USE DEF S
<1>4. chk = F(chk, Len(values))
  <2> HIDE DEF F
  <2>1. chk = CHOOSE f : f = F(f, Len(values))
    BY DEF F
  <2>2. \E f : f = F(f, Len(values))
    BY <1>3
  <2> HIDE DEF chk
  <2> QED
    BY <2>1, <2>2
<1>5. polymod(values) = chk[Len(values)]
  BY DEF polymod
<1> HIDE DEF chk
<1>6. chk[0] = Bits(1) /\ \A i \in 1 .. Len(values) : chk[i] = Round(chk[i - 1], values[i])
  BY <1>4
<1> QED
  BY <1>5, <1>6

Symbols == Seq(0 .. 31)

(* The checksum catches a burst: differences within six neighbouring symbols *)
(* leave different words (polymod).                                          *)
LEMMA BurstIsCaught ==
    ASSUME NEW x \in Symbols, NEW y \in Symbols, SameButForSix(x, y), x # y
    PROVE  polymod(x) # polymod(y)
<1> DEFINE n == Len(x)
<1>1. n \in Nat /\ Len(y) = n
  BY DEF SameButForSix, Symbols
<1>2. PICK p \in 0 .. Len(x) : \A i \in 1 .. Len(x) : x[i] # y[i] => i \in p .. p + 5
  BY DEF SameButForSix
<1> p \in Nat
  BY <1>1
<1>3. PICK a : /\ a[0] = Bits(1)
               /\ \A i \in 1 .. n : a[i] = Round(a[i - 1], x[i])
               /\ polymod(x) = a[n]
  BY <1>1, RoundsOf
<1>4. PICK b : /\ b[0] = Bits(1)
               /\ \A i \in 1 .. n : b[i] = Round(b[i - 1], y[i])
               /\ polymod(y) = b[n]
  BY <1>1, RoundsOf
<1>5. \A i \in 1 .. n : x[i] \in 0 .. 31 /\ y[i] \in 0 .. 31
  <2>1. x \in Seq(0 .. 31) /\ y \in Seq(0 .. 31)
    BY DEF Symbols
  <2>2. \A s \in Seq(0 .. 31) : \A i \in 1 .. Len(s) : s[i] \in 0 .. 31
    BY ElementOfSeq
  <2> QED
    BY <2>1, <2>2, <1>1
<1> DEFINE Same(i) == a[i] = b[i] /\ \A j \in 1 .. i : x[j] = y[j]
           Near(i) == /\ i < p => Same(i)
                      /\ i \in p .. p + 5 => Xor(a[i], b[i]) \subseteq 0 .. 5 * (i - p) + 4
           S == {i \in Nat : i <= n => /\ a[i] \in Word /\ b[i] \in Word
                                       /\ Same(i) \/ a[i] # b[i]
                                       /\ Near(i)}
<1>6. Bits(1) \in Word
  BY DEF Bits, Word
<1>7. \A c : Xor(c, c) = {}
  BY DEF Xor
<1>8. 0 \in S
  BY <1>3, <1>4, <1>6, <1>7
<1>9. ASSUME NEW i \in Nat, i \in S PROVE i + 1 \in S
  <2> SUFFICES ASSUME i + 1 <= n
               PROVE  /\ a[i + 1] \in Word /\ b[i + 1] \in Word
                      /\ Same(i + 1) \/ a[i + 1] # b[i + 1]
                      /\ Near(i + 1)
    OBVIOUS
  <2>1. /\ a[i] \in Word /\ b[i] \in Word /\ Near(i)
        /\ Same(i) \/ a[i] # b[i]
    BY <1>9, <1>1
  <2>2. /\ a[i + 1] = Round(a[i], x[i + 1]) /\ x[i + 1] \in 0 .. 31
        /\ b[i + 1] = Round(b[i], y[i + 1]) /\ y[i + 1] \in 0 .. 31
    <3>1. i + 1 \in 1 .. n /\ (i + 1) - 1 = i
      BY <1>1
    <3> QED
      BY <3>1, <1>3, <1>4, <1>5
  <2>3. a[i + 1] \in Word /\ b[i + 1] \in Word
    BY <2>1, <2>2, RoundWord
  <2>4. Xor(a[i + 1], b[i + 1]) = {} <=> a[i + 1] = b[i + 1]
    BY <1>7 DEF Xor
  <2>5. CASE i + 1 < p
    <3>1. Same(i)
      BY <2>1, <2>5
    <3>2. x[i + 1] = y[i + 1]
      BY <1>2, <1>1, <2>5
    <3>3. Same(i + 1)
      BY <2>2, <3>1, <3>2
    <3> QED
      BY <2>3, <2>5, <3>3
  <2>6. CASE i + 1 \in p .. p + 5
    <3> DEFINE m == 5 * (i + 1 - p)
    <3>1. m \in 0 .. 25
      BY <2>6
    <3>2. Xor(a[i], b[i]) \subseteq 0 .. m - 1
      <4>1. CASE i < p
        BY <2>1, <4>1, <1>7
      <4>2. CASE i >= p
        <5>1. i \in p .. p + 5 /\ m - 1 = 5 * (i - p) + 4
          BY <2>6, <4>2
        <5> QED
          BY <2>1, <5>1
      <4> QED
        BY <4>1, <4>2
    <3>3. /\ Xor(a[i + 1], b[i + 1]) \subseteq 0 .. m + 4
          /\ a[i] # b[i] \/ x[i + 1] # y[i + 1] => a[i + 1] # b[i + 1]
      <4> HIDE DEF m, S, Near, Same
      <4>1. /\ Xor(Round(a[i], x[i + 1]), Round(b[i], y[i + 1])) \subseteq 0 .. m + 4
            /\ a[i] # b[i] \/ x[i + 1] # y[i + 1]
                  => Round(a[i], x[i + 1]) # Round(b[i], y[i + 1])
        BY <2>1, <2>2, <3>1, <3>2, DifferenceMovesUp
      <4> QED
        BY <2>2, <4>1
    <3>4. Same(i + 1) \/ a[i + 1] # b[i + 1]
      BY <2>1, <2>2, <3>3
    <3> QED
      BY <2>3, <2>6, <3>3, <3>4
  <2>7. CASE i + 1 > p + 5
    <3>1. x[i + 1] = y[i + 1]
      BY <1>2, <1>1, <2>7
    <3>2. Same(i + 1) \/ a[i + 1] # b[i + 1]
      <4>1. CASE Same(i)
        BY <2>2, <3>1, <4>1
      <4>2. CASE a[i] # b[i]
        <5> HIDE DEF S, Near, Same
        <5>1. Round(a[i], x[i + 1]) # Round(b[i], x[i + 1])
          BY <2>1, <2>2, <4>2, RoundTellsWords
        <5> QED
          BY <2>2, <3>1, <5>1
      <4> QED
        BY <2>1, <4>1, <4>2
    <3> QED
      BY <2>3, <2>7, <3>2
  <2> QED
    BY <2>5, <2>6, <2>7
<1>10. n \in S
  <2> HIDE DEF S
  <2>1. Nat \subseteq S
    BY <1>8, <1>9, Climb
  <2> QED
    BY <2>1, <1>1
<1>11. ~Same(n)
  BY <1>1, <1>5, SeqEqual DEF Symbols
<1> QED
  BY <1>1, <1>3, <1>4, <1>10, <1>11

LEMMA NotUnit ==
    ASSUME NEW k \in 1 .. 5, NEW a, 5 * k \in a PROVE a # Bits(1)
<1>1. Bits(1) \subseteq 0 .. 4
  BY BitsOfSymbol
<1> QED
  BY <1>1

LEMMA ZeroInUnit == 0 \in Bits(1) /\ Bits(1) \in Word
<1>1. 1 % 2 = 1
  OBVIOUS
<1> QED
  BY <1>1, LowBits DEF Bits, Word

LEMMA NothingReduced == ASSUME NEW a, a \subseteq 0 .. 24 PROVE Reduced(a) = {}
<1>1. \A i \in 25 .. 29 : i \in a <=> i \in {}
  OBVIOUS
<1>2. Reduced(a) = Reduced({})
  BY <1>1, ReducedSame
<1>3. \A k \in 1 .. 5 : \A x : Add({}, k, x) = x
  BY DEF Add
<1> QED
  BY <1>2, <1>3 DEF Reduced

(* For as long as nothing has left the word, it gains five bits a round.     *)
LEMMA UnitMovesUp ==
    ASSUME NEW a \in Word, NEW v \in 0 .. 31, NEW k \in 0 .. 4,
           a \subseteq 0 .. 5 * k + 4, 5 * k \in a
    PROVE  /\ Round(a, v) \subseteq 0 .. 5 * (k + 1) + 4
           /\ 5 * (k + 1) \in Round(a, v)
<1>1. 5 * k \in 0 .. 24 /\ 5 * k + 4 <= 24 /\ 5 * (k + 1) = 5 * k + 5
  OBVIOUS
<1>2. a \subseteq 0 .. 24
  BY <1>1
<1>3. \A i : i \in Round(a, v) <=> i \in Shift(a, v)
  BY <1>2, NothingReduced, RoundIs, InXor
<1>4. 5 * (k + 1) \in Round(a, v)
  BY <1>1, <1>3, InShift
<1>5. ASSUME NEW i \in Round(a, v) PROVE i \in 0 .. 5 * (k + 1) + 4
  <2>1. i \in 0 .. 29
    BY RoundWord DEF Word
  <2>2. CASE i \in 0 .. 4
    BY <2>2
  <2>3. CASE i \in 5 .. 29
    <3>1. i - 5 \in 0 .. 24 /\ (i - 5) + 5 = i
      BY <2>3
    <3>2. i - 5 \in a
      BY <3>1, <1>3, InShift
    <3> QED
      BY <3>2, <2>3
  <2> QED
    BY <2>1, <2>2, <2>3
<1> QED
  BY <1>4, <1>5

(* A text that lost up to five symbols at its end has another checksum.      *)
LEMMA CutIsCaught ==
    ASSUME NEW x \in Symbols, NEW k \in 1 .. 5, k <= Len(x),
           polymod(x) = Bits(1)
    PROVE  polymod(SubSeq(x, 1, Len(x) - k)) # Bits(1)
<1> SUFFICES ASSUME polymod(SubSeq(x, 1, Len(x) - k)) = Bits(1) PROVE FALSE
  OBVIOUS
<1> DEFINE n == Len(x)
           m == n - k
           y == SubSeq(x, 1, m)
<1>1. n \in Nat /\ m \in Nat /\ n = m + k /\ \A i \in 1 .. n : x[i] \in 0 .. 31
  BY LenProperties, ElementOfSeq DEF Symbols
<1>2. Len(y) = m /\ \A i \in 1 .. m : y[i] = x[i]
  <2> HIDE DEF n, m
  <2>1. 1 \in Int /\ m \in Int /\ \A i \in 1 .. m : x[i] \in 0 .. 31
    BY <1>1
  <2>2. /\ Len(y) = IF 1 <= m THEN m - 1 + 1 ELSE 0
        /\ \A i \in 1 .. m - 1 + 1 : y[i] = x[1 + i - 1]
    BY <2>1, SubSeqProperties
  <2> QED
    BY <2>2, <1>1
<1>3. PICK a : /\ a[0] = Bits(1)
               /\ \A i \in 1 .. n : a[i] = Round(a[i - 1], x[i])
               /\ polymod(x) = a[n]
  BY <1>1, RoundsOf
<1>4. PICK b : /\ b[0] = Bits(1)
               /\ \A i \in 1 .. m : b[i] = Round(b[i - 1], y[i])
               /\ polymod(y) = b[m]
  BY <1>1, <1>2, RoundsOf
<1>5. b[m] = Bits(1)
  BY <1>4
<1> HIDE DEF n, m, y
<1> DEFINE S == {i \in Nat : i <= m => a[i] = b[i]}
<1>6. a[m] = Bits(1)
  <2>1. 0 \in S
    BY <1>3, <1>4
  <2>2. ASSUME NEW i \in Nat, i \in S PROVE i + 1 \in S
    <3> SUFFICES ASSUME i + 1 <= m PROVE a[i + 1] = b[i + 1]
      OBVIOUS
    <3>1. /\ a[i] = b[i] /\ i + 1 \in 1 .. m /\ i + 1 \in 1 .. n /\ (i + 1) - 1 = i
      BY <1>1, <2>2
    <3> QED
      BY <3>1, <1>2, <1>3, <1>4
  <2>3. m \in S
    <3> HIDE DEF S
    <3> QED
      BY <2>1, <2>2, <1>1, Climb
  <2> QED
    BY <2>3, <1>1, <1>5
<1> DEFINE P(i) == /\ a[m + i] \in Word /\ a[m + i] \subseteq 0 .. 5 * i + 4
                   /\ 5 * i \in a[m + i]
           T == {i \in Nat : i <= k => P(i)}
<1>7. 0 \in T
  BY <1>1, <1>6, ZeroInUnit, BitsOfSymbol
<1>8. ASSUME NEW i \in Nat, i \in T PROVE i + 1 \in T
  <2> SUFFICES ASSUME i + 1 <= k PROVE P(i + 1)
    OBVIOUS
  <2>1. P(i) /\ i \in 0 .. 4
    BY <1>8
  <2>2. /\ m + (i + 1) \in 1 .. n /\ (m + (i + 1)) - 1 = m + i
    BY <1>1
  <2>3. a[m + (i + 1)] = Round(a[m + i], x[m + (i + 1)]) /\ x[m + (i + 1)] \in 0 .. 31
    BY <2>2, <1>1, <1>3
  <2> QED
    BY <2>1, <2>3, UnitMovesUp, RoundWord
<1>9. k \in T
  <2> HIDE DEF T
  <2> QED
    BY <1>7, <1>8, Climb
<1>10. 5 * k \in a[n]
  BY <1>9, <1>1
<1> QED
  BY <1>10, <1>3, NotUnit DEF n

LEMMA FunctionIsSeq ==
    ASSUME NEW S, NEW n \in Nat, NEW f \in [1 .. n -> S]
    PROVE  f \in Seq(S) /\ Len(f) = n
BY SeqDef

LEMMA ConcatSymbols ==
    ASSUME NEW s \in Symbols, NEW t \in Symbols
    PROVE  /\ s \o t \in Symbols /\ Len(s) \in Nat /\ Len(t) \in Nat
           /\ Len(s \o t) = Len(s) + Len(t)
           /\ \A i \in 1 .. Len(s) + Len(t) :
                 (s \o t)[i] = IF i <= Len(s) THEN s[i] ELSE t[i - Len(s)]
<1> DEFINE S == 0 .. 31
<1>1. s \in Seq(S) /\ t \in Seq(S)
  BY DEF Symbols
<1> HIDE DEF S
<1>2. /\ s \o t \in Seq(S) /\ Len(s) \in Nat /\ Len(t) \in Nat
      /\ Len(s \o t) = Len(s) + Len(t)
      /\ \A i \in 1 .. Len(s) + Len(t) :
            (s \o t)[i] = IF i <= Len(s) THEN s[i] ELSE t[i - Len(s)]
  BY <1>1, ConcatProperties, LenProperties
<1> QED
  BY <1>2 DEF S, Symbols

(* What expandPrefix makes of a prefix, place by place.                      *)
LEMMA Expanded ==
    ASSUME NEW p \in Seq(33 .. 126)
    PROVE  /\ expandPrefix(p) \in Symbols
           /\ Len(expandPrefix(p)) = 2 * Len(p) + 1
           /\ \A i \in 1 .. Len(p) : /\ expandPrefix(p)[i] = p[i] \div 32
                                     /\ expandPrefix(p)[Len(p) + 1 + i] = p[i] % 32
           /\ expandPrefix(p)[Len(p) + 1] = 0
<1> DEFINE n == Len(p)
           high == [i \in 1 .. n |-> p[i] \div 32]
           low == [i \in 1 .. n |-> p[i] % 32]
<1>1. n \in Nat /\ \A i \in 1 .. n : p[i] \in 33 .. 126
  BY LenProperties, ElementOfSeq
<1>2. \A c \in 33 .. 126 : c \div 32 \in 0 .. 31 /\ c % 32 \in 0 .. 31
  OBVIOUS
<1>3. high \in Symbols /\ Len(high) = n
  <2>1. \A i \in 1 .. n : p[i] \div 32 \in 0 .. 31
    BY <1>1, <1>2
  <2>2. high \in [1 .. n -> 0 .. 31] /\ n \in Nat
    BY <1>1, <2>1
  <2> HIDE DEF high, low, n
  <2> QED
    BY <2>2, FunctionIsSeq DEF Symbols
<1>4. low \in Symbols /\ Len(low) = n
  <2>1. \A i \in 1 .. n : p[i] % 32 \in 0 .. 31
    BY <1>1, <1>2
  <2>2. low \in [1 .. n -> 0 .. 31] /\ n \in Nat
    BY <1>1, <2>1
  <2> HIDE DEF high, low, n
  <2> QED
    BY <2>2, FunctionIsSeq DEF Symbols
<1>5. <<0>> \in Symbols /\ Len(<<0>>) = 1 /\ <<0>>[1] = 0
  BY DEF Symbols
<1>6. expandPrefix(p) = (high \o <<0>>) \o low
  BY DEF expandPrefix
<1>7. \A i \in 1 .. n : high[i] = p[i] \div 32 /\ low[i] = p[i] % 32
  OBVIOUS
<1> HIDE DEF high, low, n
<1>8. /\ high \o <<0>> \in Symbols /\ Len(high \o <<0>>) = n + 1
      /\ \A i \in 1 .. n + 1 : (high \o <<0>>)[i] = IF i <= n THEN high[i] ELSE <<0>>[i - n]
  BY <1>3, <1>5, ConcatSymbols
<1>9. /\ expandPrefix(p) \in Symbols /\ Len(expandPrefix(p)) = (n + 1) + n
      /\ \A i \in 1 .. (n + 1) + n : expandPrefix(p)[i] =
            IF i <= n + 1 THEN (high \o <<0>>)[i] ELSE low[i - (n + 1)]
  <2> DEFINE h == high \o <<0>>
  <2>1. h \in Symbols /\ low \in Symbols /\ Len(low) = n /\ Len(h) = n + 1
    BY <1>4, <1>8
  <2> HIDE DEF h
  <2>2. /\ h \o low \in Symbols /\ Len(h \o low) = Len(h) + Len(low)
        /\ \A i \in 1 .. Len(h) + Len(low) :
              (h \o low)[i] = IF i <= Len(h) THEN h[i] ELSE low[i - Len(h)]
    BY <2>1, ConcatSymbols
  <2>3. expandPrefix(p) = h \o low
    BY <1>6 DEF h
  <2>4. /\ h \o low \in Symbols /\ Len(h \o low) = (n + 1) + n
        /\ \A i \in 1 .. (n + 1) + n :
              (h \o low)[i] = IF i <= n + 1 THEN h[i] ELSE low[i - (n + 1)]
    BY <2>1, <2>2
  <2> QED
    BY <2>3, <2>4 DEF h
<1>10. ASSUME NEW i \in 1 .. n
       PROVE  /\ expandPrefix(p)[i] = p[i] \div 32
              /\ expandPrefix(p)[n + 1 + i] = p[i] % 32
  <2>1. /\ i \in 1 .. (n + 1) + n /\ i <= n + 1 /\ i \in 1 .. n + 1 /\ i <= n
        /\ n + 1 + i \in 1 .. (n + 1) + n /\ ~(n + 1 + i <= n + 1)
        /\ (n + 1 + i) - (n + 1) = i
    BY <1>1
  <2> QED
    BY <2>1, <1>7, <1>8, <1>9
<1>11. expandPrefix(p)[n + 1] = 0
  <2>1. n + 1 \in 1 .. (n + 1) + n /\ n + 1 \in 1 .. n + 1 /\ ~(n + 1 <= n) /\ (n + 1) - n = 1
    BY <1>1
  <2> QED
    BY <2>1, <1>5, <1>8, <1>9
<1> QED
  BY <1>1, <1>9, <1>10, <1>11 DEF n

(* The window of a slip stays six places wide behind equal symbols ...       *)
LEMMA AfterTheSame ==
    ASSUME NEW u \in Symbols, NEW x \in Symbols, NEW y \in Symbols,
           SameButForSix(x, y), x # y
    PROVE  SameButForSix(u \o x, u \o y) /\ u \o x # u \o y
<1> DEFINE m == Len(u)
           n == Len(x)
<1>1. m \in Nat /\ n \in Nat /\ Len(y) = n
  BY LenProperties DEF Symbols, SameButForSix
<1>2. PICK p \in 0 .. n : \A i \in 1 .. n : x[i] # y[i] => i \in p .. p + 5
  BY DEF SameButForSix
<1>3. /\ Len(u \o x) = m + n /\ Len(u \o y) = m + n
      /\ \A i \in 1 .. m + n : /\ (u \o x)[i] = IF i <= m THEN u[i] ELSE x[i - m]
                               /\ (u \o y)[i] = IF i <= m THEN u[i] ELSE y[i - m]
  BY <1>1, ConcatSymbols
<1> HIDE DEF m, n
<1>4. m + p \in 0 .. m + n
  BY <1>1
<1>5. ASSUME NEW i \in 1 .. m + n, (u \o x)[i] # (u \o y)[i] PROVE i \in m + p .. m + p + 5
  <2>1. ~(i <= m) /\ x[i - m] # y[i - m]
    BY <1>3, <1>5
  <2>2. i - m \in 1 .. n
    BY <2>1, <1>1
  <2>3. i - m \in p .. p + 5
    BY <2>1, <2>2, <1>2
  <2> QED
    BY <2>3, <1>1
<1>6. SameButForSix(u \o x, u \o y)
  BY <1>3, <1>4, <1>5 DEF SameButForSix
<1>7. u \o x # u \o y
  <2>1. PICK i \in 1 .. n : x[i] # y[i]
    BY <1>1, SeqEqual DEF Symbols, n
  <2>2. m + i \in 1 .. m + n /\ ~(m + i <= m) /\ (m + i) - m = i
    BY <1>1
  <2> QED
    BY <2>1, <2>2, <1>3
<1> QED
  BY <1>6, <1>7

(* ... and before them.                                                      *)
LEMMA BeforeTheSame ==
    ASSUME NEW u \in Symbols, NEW v \in Symbols, NEW x \in Symbols,
           SameButForSix(u, v), u # v
    PROVE  SameButForSix(u \o x, v \o x) /\ u \o x # v \o x
<1> DEFINE m == Len(u)
           n == Len(x)
<1>1. m \in Nat /\ n \in Nat /\ Len(v) = m
  BY LenProperties DEF Symbols, SameButForSix
<1>2. PICK p \in 0 .. m : \A i \in 1 .. m : u[i] # v[i] => i \in p .. p + 5
  BY DEF SameButForSix
<1>3. /\ Len(u \o x) = m + n /\ Len(v \o x) = m + n
      /\ \A i \in 1 .. m + n : /\ (u \o x)[i] = IF i <= m THEN u[i] ELSE x[i - m]
                               /\ (v \o x)[i] = IF i <= m THEN v[i] ELSE x[i - m]
  <2>1. /\ Len(u \o x) = m + n
        /\ \A i \in 1 .. m + n : (u \o x)[i] = IF i <= m THEN u[i] ELSE x[i - m]
    BY ConcatSymbols
  <2>2. /\ Len(v \o x) = Len(v) + n
        /\ \A i \in 1 .. Len(v) + n : (v \o x)[i] = IF i <= Len(v) THEN v[i] ELSE x[i - Len(v)]
    BY ConcatSymbols
  <2> HIDE DEF m, n
  <2>3. Len(v) = m
    BY <1>1
  <2> QED
    BY <2>1, <2>2, <2>3
<1> HIDE DEF m, n
<1>4. p \in 0 .. m + n
  BY <1>1
<1>5. ASSUME NEW i \in 1 .. m + n, (u \o x)[i] # (v \o x)[i] PROVE i \in p .. p + 5
  <2>1. i <= m /\ u[i] # v[i]
    BY <1>3, <1>5
  <2> QED
    BY <2>1, <1>1, <1>2
<1>6. SameButForSix(u \o x, v \o x)
  BY <1>3, <1>4, <1>5 DEF SameButForSix
<1>7. u \o x # v \o x
  <2>1. PICK i \in 1 .. m : u[i] # v[i]
    BY <1>1, SeqEqual DEF Symbols, m
  <2>2. i \in 1 .. m + n /\ i <= m
    BY <1>1
  <2> QED
    BY <2>1, <2>2, <1>3
<1> QED
  BY <1>6, <1>7

(* What decodeBech32 has found of a text it accepts.                         *)
LEMMA DecodedText ==
    ASSUME NEW text \in Texts, decodeBech32(text)
    PROVE  /\ text.prefix \in Seq(33 .. 126)
           /\ text.symbols \in Symbols
           /\ Len(text.symbols) \in Nat /\ Len(text.symbols) >= 6
           /\ expandPrefix(text.prefix) \in Symbols
           /\ polymod(expandPrefix(text.prefix) \o text.symbols) = Bits(1)
<1> DEFINE p == text.prefix
           s == text.symbols
           S == -1 .. 31
<1>1. /\ \A i \in DOMAIN p : p[i] \in 33 .. 126
      /\ \A i \in DOMAIN s : s[i] # -1
      /\ Len(s) >= 6
      /\ polymod(expandPrefix(p) \o s) = Bits(1)
  BY DEF decodeBech32
<1>2. p \in Seq(Nat) /\ s \in Seq(S)
  BY DEF Texts
<1> HIDE DEF p, s, S
<1>3. /\ Len(p) \in Nat /\ DOMAIN p = 1 .. Len(p) /\ p \in [1 .. Len(p) -> Nat]
      /\ Len(s) \in Nat /\ DOMAIN s = 1 .. Len(s) /\ s \in [1 .. Len(s) -> S]
  BY <1>2, LenProperties
<1>4. p \in Seq(33 .. 126)
  <2> DEFINE C == 33 .. 126
  <2>1. p \in [1 .. Len(p) -> C]
    BY <1>1, <1>3
  <2> HIDE DEF C
  <2>2. p \in Seq(C)
    BY <1>3, <2>1, FunctionIsSeq
  <2> QED
    BY <2>2 DEF C
<1>5. s \in Symbols
  <2> DEFINE C == 0 .. 31
  <2>1. \A v \in S : v # -1 => v \in C
    BY DEF S
  <2>2. s \in [1 .. Len(s) -> C]
    BY <1>1, <1>3, <2>1
  <2> HIDE DEF C
  <2>3. s \in Seq(C)
    BY <1>3, <2>2, FunctionIsSeq
  <2> QED
    BY <2>3 DEF C, Symbols
<1>6. expandPrefix(p) \in Symbols
  BY <1>4, Expanded
<1> QED
  BY <1>1, <1>3, <1>4, <1>5, <1>6 DEF p, s

LEMMA SameTexts ==
    ASSUME NEW text \in Texts, NEW meant \in Texts,
           text.prefix = meant.prefix, text.symbols = meant.symbols
    PROVE  text = meant
BY DEF Texts

(* The slips one by one: wrong symbols behind the right prefix, wrong letters *)
(* of the prefix, symbols lost at the end.                                   *)
LEMMA WrongSymbols ==
    ASSUME NEW text \in Texts, NEW meant \in Texts,
           decodeBech32(meant), decodeBech32(text), text.prefix = meant.prefix,
           SameButForSix(text.symbols, meant.symbols)
    PROVE  text.symbols = meant.symbols
<1> SUFFICES ASSUME text.symbols # meant.symbols PROVE FALSE
  OBVIOUS
<1> DEFINE u == expandPrefix(meant.prefix)
           x == text.symbols
           y == meant.symbols
<1>1. /\ u \in Symbols /\ x \in Symbols /\ y \in Symbols
      /\ polymod(u \o x) = Bits(1) /\ polymod(u \o y) = Bits(1)
  BY DecodedText
<1>2. SameButForSix(x, y) /\ x # y
  OBVIOUS
<1> HIDE DEF u, x, y
<1>3. SameButForSix(u \o x, u \o y) /\ u \o x # u \o y
  BY <1>1, <1>2, AfterTheSame
<1>4. u \o x \in Symbols /\ u \o y \in Symbols
  BY <1>1, ConcatSymbols
<1> QED
  BY <1>1, <1>3, <1>4, BurstIsCaught

LEMMA WrongPrefix ==
    ASSUME NEW text \in Texts, NEW meant \in Texts,
           decodeBech32(meant), decodeBech32(text), text.symbols = meant.symbols,
           SameButForSix(text.prefix, meant.prefix),
           \A i \in 1 .. Len(text.prefix) : text.prefix[i] \div 32 = meant.prefix[i] \div 32
    PROVE  text.prefix = meant.prefix
<1> SUFFICES ASSUME text.prefix # meant.prefix PROVE FALSE
  OBVIOUS
<1> DEFINE p == text.prefix
           q == meant.prefix
           u == expandPrefix(p)
           v == expandPrefix(q)
           x == meant.symbols
           n == Len(p)
           C == 33 .. 126
<1>1. /\ p \in Seq(C) /\ q \in Seq(C)
      /\ u \in Symbols /\ v \in Symbols /\ x \in Symbols
      /\ polymod(u \o x) = Bits(1) /\ polymod(v \o x) = Bits(1)
  BY DecodedText
<1>2. /\ SameButForSix(p, q) /\ p # q /\ Len(q) = n
      /\ \A i \in 1 .. n : p[i] \div 32 = q[i] \div 32
  BY DEF SameButForSix
<1>3. /\ Len(u) = 2 * n + 1 /\ Len(v) = 2 * n + 1
      /\ \A i \in 1 .. n : /\ u[i] = p[i] \div 32 /\ u[n + 1 + i] = p[i] % 32
                           /\ v[i] = q[i] \div 32 /\ v[n + 1 + i] = q[i] % 32
      /\ u[n + 1] = v[n + 1]
  <2>1. p \in Seq(33 .. 126) /\ q \in Seq(33 .. 126)
    BY <1>1
  <2>2. /\ Len(u) = 2 * Len(p) + 1 /\ u[Len(p) + 1] = 0
        /\ \A i \in 1 .. Len(p) : u[i] = p[i] \div 32 /\ u[Len(p) + 1 + i] = p[i] % 32
    BY <2>1, Expanded
  <2>3. /\ Len(v) = 2 * Len(q) + 1 /\ v[Len(q) + 1] = 0
        /\ \A i \in 1 .. Len(q) : v[i] = q[i] \div 32 /\ v[Len(q) + 1 + i] = q[i] % 32
    BY <2>1, Expanded
  <2> HIDE DEF p, q, u, v
  <2> QED
    BY <2>2, <2>3, <1>2
<1> HIDE DEF p, q, u, v, x, C
<1>4. n \in Nat /\ \A i \in 1 .. n : p[i] \in C /\ q[i] \in C
  <2>1. \A i \in 1 .. Len(p) : p[i] \in C
    BY <1>1, ElementOfSeq
  <2>2. \A i \in 1 .. Len(q) : q[i] \in C
    BY <1>1, ElementOfSeq
  <2>3. Len(p) \in Nat
    BY <1>1, LenProperties
  <2> QED
    BY <2>1, <2>2, <2>3, <1>2
<1>5. PICK j \in 0 .. n : \A i \in 1 .. n : p[i] # q[i] => i \in j .. j + 5
  BY <1>2 DEF SameButForSix
<1> HIDE DEF n
<1>6. \A a, b \in C : a \div 32 = b \div 32 /\ a % 32 = b % 32 => a = b
  BY DEF C
<1>7. SameButForSix(u, v)
  <2>1. n + 1 + j \in 0 .. 2 * n + 1
    BY <1>4
  <2>2. ASSUME NEW i \in 1 .. 2 * n + 1, u[i] # v[i] PROVE i \in n + 1 + j .. n + 1 + j + 5
    <3>1. CASE i \in 1 .. n
      BY <3>1, <2>2, <1>2, <1>3
    <3>2. CASE i = n + 1
      BY <3>2, <2>2, <1>3
    <3>3. CASE i \in n + 2 .. 2 * n + 1
      <4> DEFINE k == i - (n + 1)
      <4>1. k \in 1 .. n /\ n + 1 + k = i
        BY <3>3, <1>4
      <4> HIDE DEF k
      <4>2. p[k] # q[k]
        BY <4>1, <2>2, <1>3
      <4>3. k \in j .. j + 5
        BY <4>1, <4>2, <1>5
      <4> QED
        BY <4>1, <4>3, <1>4
    <3> QED
      BY <3>1, <3>2, <3>3, <1>4
  <2> QED
    BY <1>3, <2>1, <2>2 DEF SameButForSix
<1>8. u # v
  <2>1. PICK i \in 1 .. n : p[i] # q[i]
    BY <1>1, <1>2, SeqEqual DEF n
  <2>2. p[i] % 32 # q[i] % 32
    BY <2>1, <1>2, <1>4, <1>6
  <2> QED
    BY <2>1, <2>2, <1>3
<1>9. SameButForSix(u \o x, v \o x) /\ u \o x # v \o x
  BY <1>1, <1>7, <1>8, BeforeTheSame
<1>10. u \o x \in Symbols /\ v \o x \in Symbols
  BY <1>1, ConcatSymbols
<1> QED
  BY <1>1, <1>9, <1>10, BurstIsCaught

LEMMA LostSymbols ==
    ASSUME NEW text \in Texts, NEW meant \in Texts,
           decodeBech32(meant), decodeBech32(text), text.prefix = meant.prefix,
           NEW k \in 1 .. 5,
           text.symbols = SubSeq(meant.symbols, 1, Len(meant.symbols) - k)
    PROVE  FALSE
<1> DEFINE u == expandPrefix(meant.prefix)
           x == text.symbols
           y == meant.symbols
           n == Len(y)
           z == u \o y
           c == SubSeq(z, 1, Len(z) - k)
<1>1. /\ u \in Symbols /\ x \in Symbols /\ y \in Symbols /\ n \in Nat /\ n >= 6
      /\ polymod(u \o x) = Bits(1) /\ polymod(z) = Bits(1)
  BY DecodedText
<1>2. x = SubSeq(y, 1, n - k)
  OBVIOUS
<1> HIDE DEF u, x, y
<1>3. z \in Symbols /\ Len(u) \in Nat /\ Len(z) = Len(u) + n /\ k <= Len(z)
  <2>1. z \in Symbols /\ Len(u) \in Nat /\ Len(z) = Len(u) + n
    BY <1>1, ConcatSymbols
  <2> HIDE DEF z, n
  <2> QED
    BY <2>1, <1>1
<1> HIDE DEF z
<1>4. polymod(c) # Bits(1)
  BY <1>1, <1>3, CutIsCaught
<1> HIDE DEF n
<1>5. Len(x) = n - k /\ \A i \in 1 .. n - k : x[i] = y[i]
  <2>1. \A i \in 1 .. n - k : y[i] \in 0 .. 31
    <3>1. \A i \in 1 .. n : y[i] \in 0 .. 31
      BY <1>1, ElementOfSeq DEF Symbols, n
    <3> QED
      BY <3>1, <1>1
  <2>2. 1 \in Int /\ n - k \in Int /\ 1 <= n - k
    BY <1>1
  <2>3. /\ Len(SubSeq(y, 1, n - k)) = n - k - 1 + 1
        /\ \A i \in 1 .. n - k - 1 + 1 : SubSeq(y, 1, n - k)[i] = y[1 + i - 1]
    BY <2>1, <2>2, SubSeqProperties
  <2> QED
    BY <2>2, <2>3, <1>2
<1> DEFINE m == Len(u) + n - k
<1>6. c \in Symbols /\ Len(c) = m /\ \A i \in 1 .. m : c[i] = z[i]
  <2>1. \A i \in 1 .. m : z[i] \in 0 .. 31
    <3>1. \A i \in 1 .. Len(z) : z[i] \in 0 .. 31
      BY <1>3, ElementOfSeq DEF Symbols
    <3>2. m \in Nat /\ m <= Len(z)
      BY <1>1, <1>3
    <3> HIDE DEF m
    <3> QED
      BY <3>1, <3>2, <1>1, <1>3
  <2>2. 1 \in Int /\ m \in Int /\ 1 <= m /\ Len(z) - k = m
    BY <1>1, <1>3
  <2> HIDE DEF m
  <2>3. /\ SubSeq(z, 1, m) \in Seq(0 .. 31)
        /\ Len(SubSeq(z, 1, m)) = m - 1 + 1
        /\ \A i \in 1 .. m - 1 + 1 : SubSeq(z, 1, m)[i] = z[1 + i - 1]
    BY <2>1, <2>2, SubSeqProperties
  <2>4. c = SubSeq(z, 1, m)
    BY <2>2
  <2> QED
    BY <2>2, <2>3, <2>4 DEF Symbols
<1>7. /\ u \o x \in Symbols /\ Len(u \o x) = m
      /\ \A i \in 1 .. m : (u \o x)[i] = IF i <= Len(u) THEN u[i] ELSE x[i - Len(u)]
  <2>1. Len(u) + Len(x) = m
    BY <1>1, <1>3, <1>5
  <2> HIDE DEF m
  <2> QED
    BY <2>1, <1>1, ConcatSymbols
<1>8. \A i \in 1 .. m : z[i] = IF i <= Len(u) THEN u[i] ELSE y[i - Len(u)]
  <2>1. \A i \in 1 .. Len(u) + n : z[i] = IF i <= Len(u) THEN u[i] ELSE y[i - Len(u)]
    BY <1>1, ConcatSymbols DEF z, n
  <2> QED
    BY <2>1, <1>1, <1>3
<1>9. \A i \in 1 .. m : (u \o x)[i] = c[i]
  <2> SUFFICES ASSUME NEW i \in 1 .. m PROVE (u \o x)[i] = c[i]
    OBVIOUS
  <2>1. CASE i <= Len(u)
    BY <2>1, <1>6, <1>7, <1>8
  <2>2. CASE ~(i <= Len(u))
    <3>1. i - Len(u) \in 1 .. n - k
      BY <2>2, <1>1, <1>3
    <3> QED
      BY <2>2, <3>1, <1>5, <1>6, <1>7, <1>8
  <2> QED
    BY <2>1, <2>2
<1>10. u \o x = c
  <2> HIDE DEF c, m
  <2> QED
    BY <1>6, <1>7, <1>9, SeqEqual DEF Symbols
<1> QED
  BY <1>1, <1>4, <1>10

(* A slip never makes another address: of a text that decodeBech32 accepts,  *)
(* no copy in upper case, with wrong symbols or wrong letters of the prefix  *)
(* within six neighbouring places, or with up to five symbols lost at the    *)
(* end, is accepted too, however long the text and whatever its prefix       *)
(* (decodeBech32, polymod).                                                  *)
THEOREM SlipsAreRefused ==
    ASSUME NEW meant \in Texts, decodeBech32(meant),
           NEW text \in Texts, Slip(text, meant), text # meant
    PROVE  ~decodeBech32(text)
<1> SUFFICES ASSUME decodeBech32(text) PROVE FALSE
  OBVIOUS
<1>1. /\ \A i \in DOMAIN text.prefix : text.prefix[i] \notin UpperCase
      /\ \A i \in DOMAIN text.symbols : text.symbols[i] # -1
  BY DEF decodeBech32
<1>2. CASE text.prefix = meant.prefix /\ SameButForSix(text.symbols, meant.symbols)
  BY <1>1, <1>2, WrongSymbols, SameTexts
<1>3. CASE /\ text.symbols = meant.symbols /\ SameButForSix(text.prefix, meant.prefix)
           /\ \A i \in 1 .. Len(text.prefix) :
                 text.prefix[i] \div 32 = meant.prefix[i] \div 32
  BY <1>1, <1>3, WrongPrefix, SameTexts
<1>4. CASE /\ text.prefix = meant.prefix
           /\ \E k \in 1 .. 5 :
                 text.symbols = SubSeq(meant.symbols, 1, Len(meant.symbols) - k)
  BY <1>4, LostSymbols
<1> QED
  BY <1>1, <1>2, <1>3, <1>4 DEF Slip
-------------------------------------------------------------------------------
(* One more symbol is one more round. *)
LEMMA PolymodAppend ==
    ASSUME NEW x \in Symbols, NEW v \in 0 .. 31
    PROVE  /\ Append(x, v) \in Symbols
           /\ polymod(x) \in Word
           /\ polymod(Append(x, v)) = Round(polymod(x), v)
<1> DEFINE n == Len(x)
           y == Append(x, v)
<1>1. n \in Nat /\ \A i \in 1 .. n : x[i] \in 0 .. 31
  BY LenProperties, ElementOfSeq DEF Symbols
<1>2. y \in Symbols /\ Len(y) = n + 1 /\ y[n + 1] = v /\ \A i \in 1 .. n : y[i] = x[i]
  BY AppendProperties DEF Symbols
<1>3. PICK a : /\ a[0] = Bits(1)
               /\ \A i \in 1 .. n : a[i] = Round(a[i - 1], x[i])
               /\ polymod(x) = a[n]
  BY <1>1, RoundsOf
<1>4. PICK b : /\ b[0] = Bits(1)
               /\ \A i \in 1 .. n + 1 : b[i] = Round(b[i - 1], y[i])
               /\ polymod(y) = b[n + 1]
  <2> HIDE DEF n, y
  <2> QED
    BY <1>1, <1>2, RoundsOf
<1> HIDE DEF n, y
<1> DEFINE S == {i \in Nat : i <= n => a[i] = b[i] /\ a[i] \in Word}
<1>5. 0 \in S
  BY <1>3, <1>4, ZeroInUnit
<1>6. ASSUME NEW i \in Nat, i \in S PROVE i + 1 \in S
  <2> SUFFICES ASSUME i + 1 <= n PROVE a[i + 1] = b[i + 1] /\ a[i + 1] \in Word
    OBVIOUS
  <2>1. /\ a[i] = b[i] /\ a[i] \in Word /\ i + 1 \in 1 .. n /\ i + 1 \in 1 .. n + 1
        /\ (i + 1) - 1 = i
    BY <1>1, <1>6
  <2>2. a[i + 1] = Round(a[i], x[i + 1]) /\ b[i + 1] = Round(b[i], x[i + 1])
    BY <2>1, <1>2, <1>3, <1>4
  <2> QED
    BY <2>1, <2>2, <1>1, RoundWord
<1>7. n \in S
  <2> HIDE DEF S
  <2> QED
    BY <1>1, <1>5, <1>6, Climb
<1>8. b[n + 1] = Round(b[n], v)
  BY <1>1, <1>2, <1>4
<1> QED
  BY <1>1, <1>2, <1>3, <1>4, <1>7, <1>8 DEF y

(* Where the checksum ends: a text that ends in "p" (symbol 1) keeps it when *)
(* a "q" (symbol 0) is put before that "p", as BIP-173 has it, so nothing is *)
(* said here of symbols that are inserted (polymod).                         *)
THEOREM InsertionIsNotSeen ==
    ASSUME NEW x \in Symbols, polymod(Append(x, 1)) = Bits(1)
    PROVE  polymod(Append(Append(x, 0), 1)) = Bits(1)
<1>1. {} \in Word /\ 0 \in 0 .. 31 /\ 1 \in 0 .. 31
  BY DEF Word
<1>2. \A v \in 0 .. 31 : Round({}, v) = Bits(v)
  <2>1. Reduced({}) = {}
    BY NothingReduced
  <2>2. \A v \in 0 .. 31 : Shift({}, v) = Bits(v)
    BY DEF Shift, Xor
  <2> QED
    BY <2>1, <2>2, RoundIs DEF Xor
<1>3. Bits(0) = {}
  <2>1. Bits(0) \subseteq 0 .. 4 /\ \A i \in 0 .. 4 : i = 0 \/ i = 1 \/ i = 2 \/ i = 3 \/ i = 4
    BY BitsOfSymbol
  <2> QED
    BY <2>1, LowBits
<1>4. polymod(x) \in Word /\ Round(polymod(x), 1) = Round({}, 1)
  BY <1>1, <1>2, PolymodAppend
<1>5. polymod(x) = {}
  BY <1>1, <1>4, RoundTellsWords
<1>6. Append(x, 0) \in Symbols /\ polymod(Append(x, 0)) = {}
  BY <1>1, <1>2, <1>3, <1>5, PolymodAppend
<1> QED
  BY <1>1, <1>2, <1>6, PolymodAppend
===============================================================================
