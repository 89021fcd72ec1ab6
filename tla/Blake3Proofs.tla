---------------------------- MODULE Blake3Proofs ----------------------------
(***************************************************************************)
(* The lanes of the vector code get the counters that 64-bit sums would    *)
(* give them, whichever way they find the carry, and so hash_many and      *)
(* xof_many give each input and each block its own, however many there are *)
(* and on whatever processor.  All the rounds mix the words that the       *)
(* portable ones mix, and all the transposes are transposes.  The hasher   *)
(* over them computes the tree of BLAKE3: a chunk is determined by how     *)
(* much of it there is, the stack by a layout of complete subtrees, and    *)
(* update leads from a hasher given n bytes to one given more.             *)
(***************************************************************************)
EXTENDS Blake3Hasher, Integers, FiniteSetTheorems, SequenceTheorems, WellFoundedInduction, TLAPS

-----------------------------------------------------------------------------
(* The counters of the lanes.                                              *)

\* What is added to the counter of a lane fits into half a word.
LEMMA DeltaSmall ==
    ASSUME NEW increment_counter \in BOOLEAN, NEW i \in Lane
    PROVE  /\ Delta(increment_counter, i) \in Nat
           /\ 2 * Delta(increment_counter, i) < Word
BY WordAssumption DEF Delta, Lane

\* Quotient and remainder of a division by Word are unique.
LEMMA Division ==
    ASSUME NEW q \in Nat, NEW r \in 0 .. (Word - 1)
    PROVE  (q * Word + r) \div Word = q /\ (q * Word + r) % Word = r
<1> DEFINE n == q * Word + r
           p == n \div Word
<1>1. n \in Nat
  BY WordAssumption
<1>2. p \in Int /\ n % Word \in 0 .. (Word - 1) /\ n = p * Word + (n % Word)
  BY <1>1, WordAssumption
<1>3. p = q
  BY <1>2, WordAssumption
<1>4. n % Word = r
  <2> HIDE DEF p
  <2> QED BY <1>2, <1>3, WordAssumption
<1> QED BY <1>3, <1>4

\* What the division of a counter yields.
LEMMA Parts ==
    ASSUME NEW counter \in Nat
    PROVE  /\ counter \div Word \in Nat
           /\ counter % Word \in 0 .. (Word - 1)
           /\ counter = (counter \div Word) * Word + (counter % Word)
BY WordAssumption

\* A sum that passes the end of the word at most once.
LEMMA Wrapped ==
    ASSUME NEW r \in 0 .. (Word - 1), NEW d \in Nat, d < Word
    PROVE  (r + d) % Word = IF r + d < Word THEN r + d ELSE r + d - Word
<1>1. CASE r + d < Word
  <2>1. (0 * Word + (r + d)) % Word = r + d
    BY <1>1, Division, WordAssumption
  <2> QED BY <1>1, <2>1, WordAssumption
<1>2. CASE ~(r + d < Word)
  <2>1. r + d - Word \in 0 .. (Word - 1)
    BY <1>2, WordAssumption
  <2>2. (1 * Word + (r + d - Word)) % Word = r + d - Word
    BY <2>1, Division
  <2> QED BY <1>2, <2>2, WordAssumption
<1> QED BY <1>1, <1>2

\* The high word takes the carry whether it is reduced before or after.
LEMMA HighCarry ==
    ASSUME NEW q \in Nat
    PROVE  (q % Word) % Word = q % Word /\ ((q % Word) + 1) % Word = (q + 1) % Word
<1> DEFINE a == q \div Word
           b == q % Word
<1>1. a \in Nat /\ b \in 0 .. (Word - 1) /\ q = a * Word + b
  BY Parts
<1> HIDE DEF a, b
<1>2. b % Word = b
  <2>1. (0 * Word + b) % Word = b
    BY <1>1, Division
  <2> QED BY <1>1, <2>1, WordAssumption
<1>3. (b + 1) % Word = (q + 1) % Word
  <2>1. CASE b + 1 < Word
    <3>1. (a * Word + (b + 1)) % Word = b + 1
      BY <1>1, <2>1, Division, WordAssumption
    <3> QED BY <1>1, <2>1, <3>1, Wrapped, WordAssumption
  <2>2. CASE ~(b + 1 < Word)
    <3>1. ((a + 1) * Word + 0) % Word = 0
      BY <1>1, Division, WordAssumption
    <3>2. (a + 1) * Word + 0 = q + 1 /\ b + 1 - Word = 0
      BY <1>1, <2>2, WordAssumption
    <3>3. (b + 1) % Word = 0
      BY <1>1, <2>2, <3>2, Wrapped, WordAssumption
    <3> QED BY <3>1, <3>2, <3>3
  <2> QED BY <2>1, <2>2
<1> QED BY <1>2, <1>3 DEF b

\* The words of a counter after an addition: the low word wraps at most once.
LEMMA WordsAfter ==
    ASSUME NEW counter \in Nat, NEW d \in Nat, d < Word
    PROVE  LET q == counter \div Word
               r == counter % Word
           IN  Words(counter + d) = IF r + d < Word
                                    THEN <<r + d, q % Word>>
                                    ELSE <<r + d - Word, (q + 1) % Word>>
<1> DEFINE q == counter \div Word
           r == counter % Word
<1>1. q \in Nat /\ r \in 0 .. (Word - 1) /\ counter = q * Word + r
  BY Parts
<1>2. CASE r + d < Word
  <2>1. counter + d = q * Word + (r + d) /\ r + d \in 0 .. (Word - 1)
    BY <1>1, <1>2, WordAssumption
  <2> HIDE DEF q, r
  <2>2. (counter + d) \div Word = q /\ (counter + d) % Word = r + d
    BY <1>1, <2>1, Division
  <2> QED BY <1>2, <2>2 DEF Words, counter_low, counter_high, q, r
<1>3. CASE ~(r + d < Word)
  <2>1. counter + d = (q + 1) * Word + (r + d - Word) /\ r + d - Word \in 0 .. (Word - 1)
    BY <1>1, <1>3, WordAssumption
  <2> HIDE DEF q, r
  <2>2. (counter + d) \div Word = q + 1 /\ (counter + d) % Word = r + d - Word
    BY <1>1, <2>1, Division
  <2> QED BY <1>3, <2>2 DEF Words, counter_low, counter_high, q, r
<1> QED BY <1>2, <1>3

\* SSE2, SSE4.1 and AVX2 (load_counters): comparing the low word with what was
\* added finds the carry.  Lane i has both words of the counter that is i higher,
\* or of the counter itself, for every counter and every width of the words.
THEOREM CompareExact ==
    ASSUME NEW counter \in Nat, NEW increment_counter \in BOOLEAN, NEW i \in Lane
    PROVE  load_counters(counter, increment_counter, i)
               = Words(counter + Delta(increment_counter, i))
<1> DEFINE d == Delta(increment_counter, i)
           q == counter \div Word
           r == counter % Word
<1>1. d \in Nat /\ 2 * d < Word /\ d < Word
  BY DeltaSmall, WordAssumption
<1>2. q \in Nat /\ r \in 0 .. (Word - 1)
  BY Parts
<1>3. Words(counter + d) = IF r + d < Word THEN <<r + d, q % Word>>
                           ELSE <<r + d - Word, (q + 1) % Word>>
  BY <1>1, WordsAfter
<1> HIDE DEF d, q, r
<1>4. (r + d) % Word = IF r + d < Word THEN r + d ELSE r + d - Word
  BY <1>1, <1>2, Wrapped
<1>5. (q % Word) % Word = q % Word /\ ((q % Word) + 1) % Word = (q + 1) % Word
  BY <1>2, HighCarry
<1>6. load_counters(counter, increment_counter, i)
        = <<(r + d) % Word, ((q % Word) + (IF d > (r + d) % Word THEN 1 ELSE 0)) % Word>>
  BY DEF load_counters, counter_low, counter_high, d, q, r
<1>7. d > (r + d) % Word <=> ~(r + d < Word)
  BY <1>1, <1>2, <1>4, WordAssumption
<1>8. q % Word \in Nat /\ (q % Word) + 0 = q % Word
  BY <1>2, Parts
<1>9. CASE r + d < Word
  BY <1>3, <1>4, <1>5, <1>6, <1>7, <1>8, <1>9 DEF d
<1>10. CASE ~(r + d < Word)
  BY <1>3, <1>4, <1>5, <1>6, <1>7, <1>10 DEF d
<1> QED BY <1>9, <1>10

\* AVX-512 with sixteen lanes (blake3_avx512.c, load_counters16): a high bit that
\* the addition clears is a carry, and there is no other, because what is added is
\* less than half a word.
THEOREM HighBitExact ==
    ASSUME NEW counter \in Nat, NEW increment_counter \in BOOLEAN, NEW i \in Lane
    PROVE  load_counters16(counter, increment_counter, i)
               = Words(counter + Delta(increment_counter, i))
<1> DEFINE d == Delta(increment_counter, i)
           q == counter \div Word
           r == counter % Word
           half == Word \div 2
<1>1. d \in Nat /\ 2 * d < Word /\ d < Word
  BY DeltaSmall, WordAssumption
<1>2. q \in Nat /\ r \in 0 .. (Word - 1)
  BY Parts
<1>3. Words(counter + d) = IF r + d < Word THEN <<r + d, q % Word>>
                           ELSE <<r + d - Word, (q + 1) % Word>>
  BY <1>1, WordsAfter
<1>4. half \in Nat /\ Word = 2 * half
  BY WordAssumption
<1> HIDE DEF d, q, r, half
<1>5. (r + d) % Word = IF r + d < Word THEN r + d ELSE r + d - Word
  BY <1>1, <1>2, Wrapped
<1>6. (q % Word) % Word = q % Word /\ ((q % Word) + 1) % Word = (q + 1) % Word
  BY <1>2, HighCarry
<1>7. load_counters16(counter, increment_counter, i)
        = <<(r + d) % Word,
            ((q % Word) + (IF r >= half /\ ~((r + d) % Word >= half) THEN 1 ELSE 0)) % Word>>
  BY DEF load_counters16, counter_low, counter_high, d, q, r, half
<1>8. r >= half /\ ~((r + d) % Word >= half) <=> ~(r + d < Word)
  BY <1>1, <1>2, <1>4, <1>5, WordAssumption
<1>9. q % Word \in Nat /\ (q % Word) + 0 = q % Word
  BY <1>2, Parts
<1>10. CASE r + d < Word
  BY <1>3, <1>5, <1>6, <1>7, <1>8, <1>9, <1>10 DEF d
<1>11. CASE ~(r + d < Word)
  BY <1>3, <1>5, <1>6, <1>7, <1>8, <1>11 DEF d
<1> QED BY <1>10, <1>11

-----------------------------------------------------------------------------
(* The passes.                                                             *)

Codes == {"portable", "sse2", "sse41", "avx2", "avx512", "neon"}

\* There is a pass for whatever number of inputs is left.
LEMMA WidthIs ==
    ASSUME NEW code \in Codes, NEW left \in Nat \ {0}
    PROVE  /\ Width(code, left) \in Widths[code]
           /\ Width(code, left) \in 1 .. left
           /\ Width(code, left) <= 16
<1> DEFINE Widest(w) == w <= left /\ \A v \in Widths[code] : v <= left => v <= w
<1>1. Widths[code] \in {{1}, {1, 4}, {1, 4, 8}, {1, 4, 8, 16}} BY DEF Widths, Codes
<1>2. \E w \in Widths[code] : Widest(w)
  <2>1. 1 \in Widths[code] BY <1>1
  <2>2. CASE 16 \in Widths[code] /\ 16 <= left BY <1>1, <2>2
  <2>3. CASE ~(16 \in Widths[code] /\ 16 <= left) /\ 8 \in Widths[code] /\ 8 <= left
    BY <1>1, <2>3
  <2>4. CASE ~(8 \in Widths[code] /\ 8 <= left) /\ 4 \in Widths[code] /\ 4 <= left
    BY <1>1, <2>4
  <2>5. CASE ~(4 \in Widths[code] /\ 4 <= left) BY <1>1, <2>1, <2>5
  <2> QED BY <1>1, <2>2, <2>3, <2>4, <2>5
<1>3. Width(code, left) \in Widths[code] /\ Widest(Width(code, left))
  BY <1>2 DEF Width
<1> QED BY <1>1, <1>3

\* Each implementation loads the counter that is due to each of its lanes.
LEMMA LaneExact ==
    ASSUME NEW code \in Codes, NEW width \in Widths[code], NEW counter \in Nat,
           NEW increment_counter \in BOOLEAN, NEW i \in 0 .. (width - 1)
    PROVE  CounterOfLane(code, width, counter, increment_counter, i)
               = Words(counter + Delta(increment_counter, i))
<1>1. width \in {1, 4, 8, 16} BY DEF Widths, Codes
<1>2. i \in Lane BY <1>1 DEF Lane
<1>3. CASE width = 1
  <2>1. counter + Delta(increment_counter, i) = counter BY <1>3 DEF Delta
  <2> QED BY <1>3, <2>1 DEF CounterOfLane
<1>4. CASE width # 1 BY <1>2, <1>4, CompareExact, HighBitExact DEF CounterOfLane, load_counters4
<1> QED BY <1>3, <1>4

\* What is left, from a number of inputs on.
LEMMA Concatenated ==
    ASSUME NEW G, NEW base \in Nat, NEW v \in Nat, NEW n \in Nat
    PROVE  [i \in 1 .. v |-> G[base + i]] \o [i \in 1 .. n |-> G[base + v + i]]
               = [i \in 1 .. (v + n) |-> G[base + i]]
<1> DEFINE S == {G[base + i] : i \in 1 .. (v + n)}
           s == [i \in 1 .. v |-> G[base + i]]
           t == [i \in 1 .. n |-> G[base + v + i]]
           r == [i \in 1 .. (v + n) |-> G[base + i]]
<1>0. \A i \in 1 .. (v + n) : G[base + i] \in S OBVIOUS
<1>1. s \in Seq(S) /\ Len(s) = v
  <2>1. \A i \in 1 .. v : i \in 1 .. (v + n) OBVIOUS
  <2> HIDE DEF S
  <2> QED BY <1>0, <2>1
<1>2. t \in Seq(S) /\ Len(t) = n
  <2>1. \A i \in 1 .. n : v + i \in 1 .. (v + n) /\ base + (v + i) = base + v + i OBVIOUS
  <2>2. \A i \in 1 .. n : G[base + v + i] \in S BY <2>1
  <2> HIDE DEF S
  <2> QED BY <2>2
<1>3. r \in Seq(S) /\ Len(r) = v + n
  <2> HIDE DEF S
  <2> QED BY <1>0
<1>4. /\ s \o t \in Seq(S)
      /\ Len(s \o t) = v + n
      /\ \A i \in 1 .. (v + n) : (s \o t)[i] = IF i <= v THEN s[i] ELSE t[i - v]
  <2> HIDE DEF S, s, t
  <2> QED BY <1>1, <1>2, ConcatProperties
<1>5. \A i \in 1 .. (v + n) : (s \o t)[i] = r[i]
  <2> SUFFICES ASSUME NEW i \in 1 .. (v + n) PROVE (s \o t)[i] = r[i] OBVIOUS
  <2>1. CASE i <= v BY <1>4, <2>1
  <2>2. CASE ~(i <= v)
    <3>1. i - v \in 1 .. n /\ base + v + (i - v) = base + i BY <2>2
    <3>2. t[i - v] = G[base + i] BY <3>1
    <3> HIDE DEF s, t
    <3> QED BY <1>4, <2>2, <3>2
  <2> QED BY <2>1, <2>2
<1> HIDE DEF S, s, t, r
<1> QED BY <1>3, <1>4, <1>5, SeqEqual DEF s, t, r

-----------------------------------------------------------------------------
(* Induction, from the least element of a set of natural numbers.          *)

LEMMA SmallestExists ==
    ASSUME NEW T \in SUBSET Nat, T # {}
    PROVE  \E n \in T : \A m \in T : n <= m
<1>1. IsWellFoundedOn(OpToRel(<, Nat), Nat) BY NatLessThanWellFounded
<1>2. PICK x \in T : \A y \in T : ~(<<y, x>> \in OpToRel(<, Nat))
  BY <1>1, WFMin
<1>3. ASSUME NEW y \in T PROVE x <= y
  <2>1. ~(<<y, x>> \in OpToRel(<, Nat)) BY <1>2
  <2>2. x \in Nat /\ y \in Nat OBVIOUS
  <2>3. ~(y < x) BY <2>1, <2>2 DEF OpToRel
  <2> QED BY <2>2, <2>3
<1> QED BY <1>3

\* A loop that takes V[left] of what is left, over the last n of all.
Loops(total, n, V, G, f) ==
    f = [left \in 0 .. n |->
            IF left = 0
            THEN <<>>
            ELSE [i \in 1 .. V[left] |-> G[total - left + i]] \o f[left - V[left]]]

LEMMA LoopsExist ==
    ASSUME NEW total \in Nat, NEW V, NEW G, \A left \in 1 .. total : V[left] \in 1 .. left
    PROVE  \E f : Loops(total, total, V, G, f)
<1> DEFINE T == {n \in 0 .. total : ~ \E f : Loops(total, n, V, G, f)}
<1> SUFFICES ASSUME T # {} PROVE FALSE OBVIOUS
<1>1. PICK n \in T : \A m \in T : n <= m
  <2>1. T \in SUBSET Nat OBVIOUS
  <2> HIDE DEF T
  <2> QED BY <2>1, SmallestExists
<1>2. n # 0
  <2> DEFINE f == [left \in 0 .. 0 |-> <<>>]
  <2>1. Loops(total, 0, V, G, f) BY DEF Loops
  <2> QED BY <2>1
<1>3. n \in 1 .. total /\ n - 1 \in 0 .. total /\ n - 1 \notin T BY <1>1, <1>2
<1>4. PICK f : Loops(total, n - 1, V, G, f) BY <1>3
<1> DEFINE step(h, left) ==
               IF left = 0
               THEN <<>>
               ELSE [i \in 1 .. V[left] |-> G[total - left + i]] \o h[left - V[left]]
           longer == [left \in 0 .. n |-> IF left = n THEN step(f, n) ELSE f[left]]
<1>5. \A left \in 0 .. (n - 1) : f[left] = step(f, left) BY <1>4 DEF Loops
<1>6. ASSUME NEW left \in 0 .. n PROVE longer[left] = step(longer, left)
  <2>1. left = 0 => step(f, left) = step(longer, left) OBVIOUS
  <2>2. left # 0 => left - V[left] \in 0 .. (n - 1) BY <1>3
  <2>3. left # 0 => longer[left - V[left]] = f[left - V[left]] BY <1>3, <2>2
  <2>4. step(f, left) = step(longer, left)
    <3> HIDE DEF longer
    <3> QED BY <2>1, <2>3
  <2>5. longer[left] = step(f, left)
    <3>1. CASE left = n BY <3>1
    <3>2. CASE left # n
      <4>1. left \in 0 .. (n - 1) BY <1>3, <3>2
      <4> HIDE DEF step
      <4> QED BY <1>5, <3>2, <4>1
    <3> QED BY <3>1, <3>2
  <2> QED BY <2>4, <2>5
<1>7. Loops(total, n, V, G, longer)
  <2> DEFINE h == [left \in 0 .. n |-> step(longer, left)]
  <2>1. longer = h
    <3>1. \A left \in 0 .. n : longer[left] = h[left] BY <1>6
    <3>2. DOMAIN longer = 0 .. n /\ longer = [left \in 0 .. n |-> longer[left]] OBVIOUS
    <3> HIDE DEF longer, step
    <3> QED BY <3>1, <3>2
  <2> HIDE DEF longer
  <2> QED BY <2>1 DEF Loops
<1> QED BY <1>7

\* The first total outputs.
InOrder(total, G) == [i \in 1 .. total |-> G[i]]

\* Whatever the passes, the outputs are in the order of the inputs.
LEMMA LoopsYield ==
    ASSUME NEW total \in Nat, NEW V, NEW G, \A left \in 1 .. total : V[left] \in 1 .. left,
           NEW f, Loops(total, total, V, G, f)
    PROVE  f[total] = InOrder(total, G)
<1> DEFINE Last(n) == [i \in 1 .. n |-> G[total - n + i]]
           Wrong(n) == f[n] # Last(n)
           T == {n \in 0 .. total : Wrong(n)}
<1>0. /\ f[0] = <<>>
      /\ \A n \in 1 .. total :
            f[n] = [i \in 1 .. V[n] |-> G[total - n + i]] \o f[n - V[n]]
  <2> DEFINE some(n) == [i \in 1 .. V[n] |-> G[total - n + i]] \o f[n - V[n]]
  <2>1. f = [n \in 0 .. total |-> IF n = 0 THEN <<>> ELSE some(n)] BY DEF Loops
  <2> HIDE DEF some
  <2>2. f[0] = <<>> /\ \A n \in 1 .. total : f[n] = some(n) BY <2>1
  <2> QED BY <2>2 DEF some
<1>1. ASSUME T # {} PROVE FALSE
  <2>1. PICK n \in T : \A m \in T : n <= m
    <3>1. T \in SUBSET Nat OBVIOUS
    <3> HIDE DEF T
    <3> QED BY <1>1, <3>1, SmallestExists
  <2>2. n # 0
    <3>1. Last(0) = <<>> OBVIOUS
    <3> QED BY <1>0, <2>1, <3>1
  <2> DEFINE v == V[n]
  <2>3. v \in 1 .. n /\ n \in 1 .. total /\ Wrong(n)
    <3> HIDE DEF Wrong
    <3> QED BY <2>2
  <2>4. f[n - v] = Last(n - v)
    <3>1. n - v \in 0 .. total /\ ~(n <= n - v) BY <2>3
    <3>2. n - v \notin T BY <2>1, <3>1
    <3>3. ~Wrong(n - v)
      <4> HIDE DEF Wrong
      <4> QED BY <3>1, <3>2
    <3> QED BY <3>3
  <2>5. f[n] = [i \in 1 .. v |-> G[total - n + i]] \o f[n - v] BY <1>0, <2>3
  <2> DEFINE base == total - n
  <2>6. base \in Nat /\ v \in Nat /\ n - v \in Nat /\ total - (n - v) = base + v /\ v + (n - v) = n
    BY <2>3
  <2>7. Last(n - v) = [i \in 1 .. (n - v) |-> G[base + v + i]] BY <2>6
  <2> HIDE DEF v, T, Wrong
  <2>8. Last(n) = [i \in 1 .. n |-> G[base + i]] OBVIOUS
  <2>9. f[n] = [i \in 1 .. v |-> G[base + i]] \o [i \in 1 .. (n - v) |-> G[base + v + i]]
    BY <2>4, <2>5, <2>7
  <2> HIDE DEF Last, base
  <2>10. f[n] = [i \in 1 .. (v + (n - v)) |-> G[base + i]] BY <2>6, <2>9, Concatenated
  <2>11. f[n] = Last(n) BY <2>6, <2>8, <2>10
  <2> QED BY <2>3, <2>11 DEF Wrong
<1>2. f[total] = Last(total)
  <2> HIDE DEF Last
  <2> QED BY <1>1
<1>3. total - total = 0 /\ \A i \in 1 .. total : 0 + i = i OBVIOUS
<1> QED BY <1>2, <1>3 DEF InOrder

-----------------------------------------------------------------------------
(* hash_many and xof_many.                                                 *)

\* What the code gives input number i is what it is due.
LEMMA HashManyIs ==
    ASSUME NEW code \in Codes, NEW inputs, Len(inputs) \in Nat, NEW key, NEW counter \in Nat,
           NEW increment_counter \in BOOLEAN, NEW flags
    PROVE  HashMany(code, inputs, key, counter, increment_counter, flags)
             = [i \in 1 .. Len(inputs) |->
                   hash_one(inputs[i], key,
                            Words(counter + Delta(increment_counter, i - 1)), flags)]
<1> DEFINE total == Len(inputs)
           V == [left \in 1 .. total |-> Width(code, left)]
           G == [i \in 1 .. total |->
                   hash_one(inputs[i], key,
                            Words(counter + Delta(increment_counter, i - 1)), flags)]
           lane(left, i) ==
               LET first == total - left
               IN  hash_one(inputs[first + i], key,
                         CounterOfLane(code, Width(code, left),
                                       counter + Delta(increment_counter, first),
                                       increment_counter, i - 1),
                         flags)
           H(f) == f = [left \in 0 .. total |->
                          IF left = 0
                          THEN <<>>
                          ELSE [i \in 1 .. Width(code, left) |-> lane(left, i)]
                               \o f[left - Width(code, left)]]
           hashed == CHOOSE f : H(f)
<1>1. HashMany(code, inputs, key, counter, increment_counter, flags) = hashed[total]
  BY DEF HashMany
<1>2. \A left \in 1 .. total : V[left] = Width(code, left) /\ V[left] \in 1 .. left
  BY WidthIs
<1>3. ASSUME NEW left \in 1 .. total, NEW i \in 1 .. Width(code, left)
      PROVE  lane(left, i) = G[total - left + i]
  <2> DEFINE first == total - left
             w == Width(code, left)
  <2>1. w \in Widths[code] /\ w \in 1 .. left BY WidthIs
  <2>2. first \in Nat /\ i - 1 \in 0 .. (w - 1) /\ first + i \in 1 .. total BY <2>1
  <2>3. counter + Delta(increment_counter, first) \in Nat BY <2>2 DEF Delta
  <2>4. CounterOfLane(code, w, counter + Delta(increment_counter, first), increment_counter, i - 1)
          = Words(counter + Delta(increment_counter, first) + Delta(increment_counter, i - 1))
    <3> HIDE DEF w, first
    <3> QED BY <2>1, <2>2, <2>3, LaneExact
  <2>5. counter + Delta(increment_counter, first) + Delta(increment_counter, i - 1)
          = counter + Delta(increment_counter, first + i - 1)
    <3> HIDE DEF first
    <3> QED BY <2>1, <2>2 DEF Delta
  <2>6. lane(left, i)
          = hash_one(inputs[first + i], key,
                     Words(counter + Delta(increment_counter, first + i - 1)), flags)
    BY <2>4, <2>5
  <2> HIDE DEF first, lane, w
  <2>7. G[first + i]
          = hash_one(inputs[first + i], key,
                     Words(counter + Delta(increment_counter, first + i - 1)), flags)
    BY <2>2
  <2> QED BY <2>6, <2>7 DEF first
<1>4. ASSUME NEW f PROVE H(f) <=> Loops(total, total, V, G, f)
  <2> DEFINE a(left) == IF left = 0 THEN <<>>
                        ELSE [i \in 1 .. Width(code, left) |-> lane(left, i)]
                             \o f[left - Width(code, left)]
             b(left) == IF left = 0 THEN <<>>
                        ELSE [i \in 1 .. V[left] |-> G[total - left + i]] \o f[left - V[left]]
  <2>1. \A left \in 0 .. total : a(left) = b(left)
    <3> SUFFICES ASSUME NEW left \in 1 .. total PROVE a(left) = b(left)
      <4>1. a(0) = b(0) OBVIOUS
      <4> HIDE DEF a, b
      <4> QED BY <4>1
    <3>1. V[left] = Width(code, left) BY <1>2
    <3>2. [i \in 1 .. Width(code, left) |-> lane(left, i)]
            = [i \in 1 .. V[left] |-> G[total - left + i]]
      <4> HIDE DEF V, lane, G, total
      <4> QED BY <1>3, <3>1
    <3> HIDE DEF lane, G, V
    <3> QED BY <3>1, <3>2
  <2>2. H(f) <=> f = [left \in 0 .. total |-> a(left)] OBVIOUS
  <2>3. Loops(total, total, V, G, f) <=> f = [left \in 0 .. total |-> b(left)] BY DEF Loops
  <2> HIDE DEF a, b, H, V, G, total
  <2> QED BY <2>1, <2>2, <2>3
<1>5. \E f : H(f)
  <2> HIDE DEF H, V, G
  <2> QED BY <1>2, <1>4, LoopsExist
<1>6. H(hashed)
  <2> HIDE DEF H
  <2> QED BY <1>5
<1>7. hashed[total] = InOrder(total, G)
  <2> HIDE DEF H, V, G, hashed
  <2>1. Loops(total, total, V, G, hashed) BY <1>4, <1>6
  <2>2. \A left \in 1 .. total : V[left] \in 1 .. left BY <1>2
  <2> HIDE DEF total
  <2> QED BY <2>1, <2>2, LoopsYield DEF total
<1>8. InOrder(total, G) = G BY DEF InOrder
<1> HIDE DEF hashed, total, G
<1> QED BY <1>1, <1>7, <1>8 DEF G, total

LEMMA XofManyIs ==
    ASSUME NEW output, NEW counter \in Nat, NEW outblocks \in Nat
    PROVE  blake3_xof_many_avx512(output, counter, outblocks)
             = [i \in 1 .. outblocks |-> OutputBlock(output, Words(counter + i - 1))]
<1> DEFINE V == [left \in 1 .. outblocks |-> Width("avx512", left)]
           G == [i \in 1 .. outblocks |-> OutputBlock(output, Words(counter + i - 1))]
           lane(left, i) ==
               OutputBlock(output, CounterOfLane("avx512", Width("avx512", left),
                                                 counter + outblocks - left, TRUE, i - 1))
           H(f) == f = [left \in 0 .. outblocks |->
                          IF left = 0
                          THEN <<>>
                          ELSE [i \in 1 .. Width("avx512", left) |-> lane(left, i)]
                               \o f[left - Width("avx512", left)]]
           written == CHOOSE f : H(f)
<1>0. "avx512" \in Codes BY DEF Codes
<1>1. blake3_xof_many_avx512(output, counter, outblocks) = written[outblocks]
  BY DEF blake3_xof_many_avx512
<1>2. \A left \in 1 .. outblocks : V[left] = Width("avx512", left) /\ V[left] \in 1 .. left
  BY <1>0, WidthIs
<1>3. ASSUME NEW left \in 1 .. outblocks, NEW i \in 1 .. Width("avx512", left)
      PROVE  lane(left, i) = G[outblocks - left + i]
  <2> DEFINE w == Width("avx512", left)
  <2>1. w \in Widths["avx512"] /\ w \in 1 .. left BY <1>0, WidthIs
  <2>2. counter + outblocks - left \in Nat /\ i - 1 \in 0 .. (w - 1)
        /\ outblocks - left + i \in 1 .. outblocks
    BY <2>1
  <2>3. CounterOfLane("avx512", w, counter + outblocks - left, TRUE, i - 1)
          = Words(counter + outblocks - left + Delta(TRUE, i - 1))
    <3> HIDE DEF w
    <3> QED BY <1>0, <2>1, <2>2, LaneExact
  <2>4. counter + outblocks - left + Delta(TRUE, i - 1) = counter + (outblocks - left + i) - 1
    <3> HIDE DEF w
    <3> QED BY <2>1, <2>2 DEF Delta
  <2>5. lane(left, i) = OutputBlock(output, Words(counter + (outblocks - left + i) - 1))
    BY <2>3, <2>4
  <2>6. G[outblocks - left + i] = OutputBlock(output, Words(counter + (outblocks - left + i) - 1))
    BY <2>2
  <2> HIDE DEF lane, G
  <2> QED BY <2>5, <2>6
<1>4. ASSUME NEW f PROVE H(f) <=> Loops(outblocks, outblocks, V, G, f)
  <2> DEFINE a(left) == IF left = 0 THEN <<>>
                        ELSE [i \in 1 .. Width("avx512", left) |-> lane(left, i)]
                             \o f[left - Width("avx512", left)]
             b(left) == IF left = 0 THEN <<>>
                        ELSE [i \in 1 .. V[left] |-> G[outblocks - left + i]] \o f[left - V[left]]
  <2>1. \A left \in 0 .. outblocks : a(left) = b(left)
    <3> SUFFICES ASSUME NEW left \in 1 .. outblocks PROVE a(left) = b(left)
      <4>1. a(0) = b(0) OBVIOUS
      <4> HIDE DEF a, b
      <4> QED BY <4>1
    <3>1. V[left] = Width("avx512", left) BY <1>2
    <3>2. [i \in 1 .. Width("avx512", left) |-> lane(left, i)]
            = [i \in 1 .. V[left] |-> G[outblocks - left + i]]
      <4> HIDE DEF V, lane, G
      <4> QED BY <1>3, <3>1
    <3> HIDE DEF lane, G, V
    <3> QED BY <3>1, <3>2
  <2>2. H(f) <=> f = [left \in 0 .. outblocks |-> a(left)] OBVIOUS
  <2>3. Loops(outblocks, outblocks, V, G, f) <=> f = [left \in 0 .. outblocks |-> b(left)]
    BY DEF Loops
  <2> HIDE DEF a, b, H, V, G
  <2> QED BY <2>1, <2>2, <2>3
<1>5. \E f : H(f)
  <2> HIDE DEF H, V, G
  <2> QED BY <1>2, <1>4, LoopsExist
<1>6. H(written)
  <2> HIDE DEF H
  <2> QED BY <1>5
<1>7. written[outblocks] = InOrder(outblocks, G)
  <2> HIDE DEF H, V, G, written
  <2>1. Loops(outblocks, outblocks, V, G, written) BY <1>4, <1>6
  <2>2. \A left \in 1 .. outblocks : V[left] \in 1 .. left BY <1>2
  <2> QED BY <2>1, <2>2, LoopsYield
<1>8. InOrder(outblocks, G) = G BY DEF InOrder
<1> HIDE DEF written, G
<1> QED BY <1>1, <1>7, <1>8 DEF G

-----------------------------------------------------------------------------
(* The dispatch, and the calls.                                            *)

\* blake3_hash_many (blake3_dispatch.c): whatever features the processor has, and
\* however many inputs there are, every input is hashed once, in its place and with
\* its own counter.
THEOREM HashManyDispatched ==
    ASSUME NEW cpu, NEW inputs, Len(inputs) \in Nat, NEW key, NEW counter \in Nat,
           NEW increment_counter \in BOOLEAN, NEW flags
    PROVE  blake3_hash_many(cpu, inputs, key, counter, increment_counter, flags)
             = [i \in 1 .. Len(inputs) |->
                   hash_one(inputs[i], key,
                            Words(counter + Delta(increment_counter, i - 1)), flags)]
<1> DEFINE hashed(code) == HashMany(code, inputs, key, counter, increment_counter, flags)
           out == [i \in 1 .. Len(inputs) |->
                     hash_one(inputs[i], key,
                              Words(counter + Delta(increment_counter, i - 1)), flags)]
<1>1. \A code \in Codes : hashed(code) = out BY HashManyIs
<1>2. \E code \in Codes :
         blake3_hash_many(cpu, inputs, key, counter, increment_counter, flags) = hashed(code)
  <2> HIDE DEF hashed
  <2>1. /\ hashed("portable") = blake3_hash_many_portable(inputs, key, counter, increment_counter, flags)
        /\ hashed("sse2") = blake3_hash_many_sse2(inputs, key, counter, increment_counter, flags)
        /\ hashed("sse41") = blake3_hash_many_sse41(inputs, key, counter, increment_counter, flags)
        /\ hashed("avx2") = blake3_hash_many_avx2(inputs, key, counter, increment_counter, flags)
        /\ hashed("avx512") = blake3_hash_many_avx512(inputs, key, counter, increment_counter, flags)
        /\ hashed("neon") = blake3_hash_many_neon(inputs, key, counter, increment_counter, flags)
    BY DEF hashed, blake3_hash_many_portable, blake3_hash_many_sse2, blake3_hash_many_sse41,
           blake3_hash_many_avx2, blake3_hash_many_avx512, blake3_hash_many_neon
  <2> QED BY <2>1 DEF blake3_hash_many, Codes
<1> HIDE DEF hashed
<1> QED BY <1>1, <1>2

\* blake3_xof_many (blake3_dispatch.c): the blocks of the output are numbered one by
\* one from the counter, with and without AVX-512.
THEOREM XofManyDispatched ==
    ASSUME NEW cpu, NEW output, NEW counter \in Nat, NEW outblocks \in Nat
    PROVE  blake3_xof_many(cpu, output, counter, outblocks)
             = [i \in 1 .. outblocks |-> OutputBlock(output, Words(counter + i - 1))]
BY XofManyIs DEF blake3_xof_many

\* The vector code called by itself (blake3_dispatch.c): for every processor, number of
\* inputs or blocks, counter and width of the words, hash_many hashes each input with
\* its own counter and xof_many numbers its blocks one by one.
THEOREM CallsRight == CallsSpec => []CallsExact
<1>1. CallsInit => CallsExact BY DEF CallsInit, NoCall, CallsExact, HashManyExact, XofManyExact
<1>2. CallsExact /\ [DirectCall \/ Forget]_calls_vars => CallsExact'
  <2> SUFFICES ASSUME CallsExact, [DirectCall \/ Forget]_calls_vars PROVE CallsExact' OBVIOUS
  <2>1. ASSUME NEW n \in ManyInputs, NEW counter \in Counters, NEW increment_counter \in BOOLEAN,
               CallHashMany(n, counter, increment_counter)
        PROVE  CallsExact'
    <3> DEFINE out == blake3_hash_many(features, Inputs(n), KEY, counter, increment_counter,
                                       ManyFlags)
    <3>1. /\ call'.fn = "hash_many" /\ call'.n = n /\ call'.counter = counter
          /\ call'.increment_counter = increment_counter /\ call'.out = out
      <4> HIDE DEF out
      <4> QED BY <2>1 DEF CallHashMany, Call, out
    <3>2. n \in Nat /\ counter \in Nat BY CallAssumption
    <3>3. Len(Inputs(n)) = n /\ \A i \in 1 .. n : Inputs(n)[i] = <<i>> BY <3>2 DEF Inputs
    <3>4. out = [i \in 1 .. Len(Inputs(n)) |->
                   hash_one(Inputs(n)[i], KEY,
                            Words(counter + Delta(increment_counter, i - 1)), ManyFlags)]
      BY <3>2, <3>3, HashManyDispatched
    <3> HIDE DEF out
    <3>5. out = [i \in 1 .. n |->
                   hash_one(<<i>>, KEY,
                            Words(counter + (IF increment_counter THEN i - 1 ELSE 0)), ManyFlags)]
      BY <3>3, <3>4 DEF Delta
    <3>6. HashManyExact' BY <3>1, <3>5 DEF HashManyExact
    <3>7. XofManyExact' BY <3>1 DEF XofManyExact
    <3> QED BY <3>6, <3>7 DEF CallsExact
  <2>2. ASSUME NEW n \in ManyInputs, NEW counter \in Counters, CallXofMany(n, counter)
        PROVE  CallsExact'
    <3>1. /\ call'.fn = "xof_many" /\ call'.n = n /\ call'.counter = counter
          /\ call'.out = blake3_xof_many(features, KEY, counter, n)
      BY <2>2 DEF CallXofMany, Call
    <3>2. n \in Nat /\ counter \in Nat BY CallAssumption
    <3>3. XofManyExact' BY <3>1, <3>2, XofManyDispatched DEF XofManyExact
    <3>4. HashManyExact' BY <3>1 DEF HashManyExact
    <3> QED BY <3>3, <3>4 DEF CallsExact
  <2>3. CASE CallCompress \/ CallLanes \/ Forget
    <3>1. call'.fn \in {"compress", "lanes", "none"}
      BY <2>3 DEF CallCompress, CallLanes, Call, Forget, NoCall
    <3> QED BY <3>1 DEF CallsExact, HashManyExact, XofManyExact
  <2>4. CASE UNCHANGED calls_vars
    BY <2>4 DEF calls_vars, CallsExact, HashManyExact, XofManyExact
  <2> QED BY <2>1, <2>2, <2>3, <2>4 DEF DirectCall
<1> QED BY <1>1, <1>2, PTL DEF CallsSpec

-----------------------------------------------------------------------------
(* The schedule of the message, and the rounds of the portable code.       *)

\* The schedule is the permutation, round by round.
LEMMA ScheduleStep ==
    ASSUME NEW r \in 1 .. 6, NEW i \in 0 .. 15
    PROVE  Scheduled(r, i) = Scheduled(r - 1, Permutation[i + 1])
<1> DEFINE Good(n) == \A j \in 0 .. 15 : Scheduled(n, j) = Scheduled(n - 1, Permutation[j + 1])
<1>1. Good(1) BY DEF Scheduled, MSG_SCHEDULE, Permutation
<1>2. Good(2) BY DEF Scheduled, MSG_SCHEDULE, Permutation
<1>3. Good(3) BY DEF Scheduled, MSG_SCHEDULE, Permutation
<1>4. Good(4) BY DEF Scheduled, MSG_SCHEDULE, Permutation
<1>5. Good(5) BY DEF Scheduled, MSG_SCHEDULE, Permutation
<1>6. Good(6) BY DEF Scheduled, MSG_SCHEDULE, Permutation
<1>7. Good(r)
  <2> HIDE DEF Good
  <2> QED BY <1>1, <1>2, <1>3, <1>4, <1>5, <1>6
<1> QED BY <1>7

LEMMA ScheduleFirst ==
    ASSUME NEW i \in 0 .. 15 PROVE Scheduled(0, i) = i
BY DEF Scheduled, MSG_SCHEDULE

LEMMA PermutationIn == \A i \in 0 .. 15 : Permutation[i + 1] \in 0 .. 15
BY DEF Permutation

Words16(r) == [i \in 0 .. 15 |-> Scheduled(r, i)]

LEMMA MessageIs ==
    ASSUME NEW r \in Rounds PROVE Message[r] = Words16(r)
<1> DEFINE H(f) == f = [n \in Rounds |-> IF n = 0 THEN [i \in 0 .. 15 |-> i]
                                         ELSE [i \in 0 .. 15 |-> f[n - 1][Permutation[i + 1]]]]
           words == [n \in Rounds |-> Words16(n)]
<1>1. Words16(0) = [i \in 0 .. 15 |-> i] BY ScheduleFirst DEF Words16
<1>2. \A n \in 1 .. 6 : Words16(n) = [i \in 0 .. 15 |-> Words16(n - 1)[Permutation[i + 1]]]
  BY ScheduleStep, PermutationIn DEF Words16
<1>3. H(words)
  <2> DEFINE step(n) == IF n = 0 THEN [i \in 0 .. 15 |-> i]
                        ELSE [i \in 0 .. 15 |-> words[n - 1][Permutation[i + 1]]]
  <2>1. \A n \in Rounds : n # 0 => n \in 1 .. 6 /\ n - 1 \in Rounds BY DEF Rounds
  <2>2. \A n \in Rounds : n # 0 => words[n - 1] = Words16(n - 1) BY <2>1
  <2>3. \A n \in Rounds : words[n] = step(n) BY <1>1, <1>2, <2>1, <2>2
  <2>4. words = [n \in Rounds |-> step(n)]
    <3> HIDE DEF step
    <3> QED BY <2>3
  <2> QED BY <2>4
<1>4. H(Message)
  <2>1. Message = CHOOSE f : H(f) BY DEF Message
  <2> HIDE DEF H, words
  <2> QED BY <1>3, <2>1
<1>5. Message[0] = Words16(0) BY <1>1, <1>4 DEF Rounds
<1>6. ASSUME NEW n \in 1 .. 6, Message[n - 1] = Words16(n - 1)
      PROVE  Message[n] = Words16(n)
  <2>1. n \in Rounds /\ n # 0 BY DEF Rounds
  <2>2. Message[n] = [i \in 0 .. 15 |-> Message[n - 1][Permutation[i + 1]]] BY <1>4, <2>1
  <2> HIDE DEF H, words
  <2> QED BY <1>2, <1>6, <2>2
<1> HIDE DEF H, words
<1>7. Message[1] = Words16(1) BY <1>5, <1>6
<1>8. Message[2] = Words16(2) BY <1>6, <1>7
<1>9. Message[3] = Words16(3) BY <1>6, <1>8
<1>10. Message[4] = Words16(4) BY <1>6, <1>9
<1>11. Message[5] = Words16(5) BY <1>6, <1>10
<1>12. Message[6] = Words16(6) BY <1>6, <1>11
<1> QED BY <1>5, <1>7, <1>8, <1>9, <1>10, <1>11, <1>12 DEF Rounds

\* The steps of a round, in terms of the schedule.
LEMMA MixingIs == Mixing = round_fn
<1> DEFINE word(k, row, diagonal) == 4 * row + ((k + row * diagonal) % 4)
           step(r, diagonal, half) ==
               {Mix(word(k, 0, diagonal), word(k, 1, diagonal), word(k, 2, diagonal),
                    word(k, 3, diagonal), Message[r][8 * diagonal + 2 * k + half],
                    IF half = 0 THEN <<16, 12>> ELSE <<8, 7>>) : k \in Quad}
<1>1. ASSUME NEW r \in Rounds
      PROVE  /\ step(r, 0, 0) = {Mix(k, 4 + k, 8 + k, 12 + k, Scheduled(r, 2 * k), First) : k \in Quad}
             /\ step(r, 0, 1) = {Mix(k, 4 + k, 8 + k, 12 + k, Scheduled(r, 2 * k + 1), Second) : k \in Quad}
             /\ step(r, 1, 0) = {Mix(k, 4 + ((k + 1) % 4), 8 + ((k + 2) % 4), 12 + ((k + 3) % 4),
                                     Scheduled(r, 8 + 2 * k), First) : k \in Quad}
             /\ step(r, 1, 1) = {Mix(k, 4 + ((k + 1) % 4), 8 + ((k + 2) % 4), 12 + ((k + 3) % 4),
                                     Scheduled(r, 9 + 2 * k), Second) : k \in Quad}
  <2>1. \A i \in 0 .. 15 : Message[r][i] = Scheduled(r, i) BY MessageIs DEF Words16
  <2>2. ASSUME NEW k \in Quad
        PROVE  /\ word(k, 0, 0) = k /\ word(k, 1, 0) = 4 + k
               /\ word(k, 2, 0) = 8 + k /\ word(k, 3, 0) = 12 + k
               /\ word(k, 0, 1) = k /\ word(k, 1, 1) = 4 + ((k + 1) % 4)
               /\ word(k, 2, 1) = 8 + ((k + 2) % 4) /\ word(k, 3, 1) = 12 + ((k + 3) % 4)
    BY DEF Quad
  <2>3. ASSUME NEW k \in Quad
        PROVE  /\ Message[r][8 * 0 + 2 * k + 0] = Scheduled(r, 2 * k)
               /\ Message[r][8 * 0 + 2 * k + 1] = Scheduled(r, 2 * k + 1)
               /\ Message[r][8 * 1 + 2 * k + 0] = Scheduled(r, 8 + 2 * k)
               /\ Message[r][8 * 1 + 2 * k + 1] = Scheduled(r, 9 + 2 * k)
    <3>1. /\ 2 * k \in 0 .. 15 /\ 2 * k + 1 \in 0 .. 15
          /\ 8 + 2 * k \in 0 .. 15 /\ 9 + 2 * k \in 0 .. 15
      BY DEF Quad
    <3>2. /\ 8 * 0 + 2 * k + 0 = 2 * k /\ 8 * 0 + 2 * k + 1 = 2 * k + 1
          /\ 8 * 1 + 2 * k + 0 = 8 + 2 * k /\ 8 * 1 + 2 * k + 1 = 9 + 2 * k
      BY DEF Quad
    <3> QED BY <2>1, <3>1, <3>2
  <2> HIDE DEF word
  <2> QED BY <2>2, <2>3 DEF First, Second
<1> HIDE DEF step
<1>2. Mixing = [r \in Rounds |-> <<step(r, 0, 0), step(r, 0, 1), step(r, 1, 0), step(r, 1, 1)>>]
  BY DEF Mixing, step
<1> QED BY <1>1, <1>2 DEF round_fn

LEMMA Joined ==
    ASSUME NEW a, NEW b, NEW c, NEW d
    PROVE  <<a, b>> \o <<c, d>> = <<a, b, c, d>>
<1> DEFINE S == {a, b, c, d}
           s == <<a, b>>
           t == <<c, d>>
<1>1. s \in Seq(S) /\ t \in Seq(S) /\ Len(s) = 2 /\ Len(t) = 2 OBVIOUS
<1>2. <<a, b, c, d>> \in Seq(S) /\ Len(<<a, b, c, d>>) = 4 OBVIOUS
<1>3. s[1] = a /\ s[2] = b /\ t[1] = c /\ t[2] = d OBVIOUS
<1> HIDE DEF s, t, S
<1>4. /\ s \o t \in Seq(S)
      /\ Len(s \o t) = Len(s) + Len(t)
      /\ \A i \in 1 .. Len(s) + Len(t) :
            (s \o t)[i] = IF i <= Len(s) THEN s[i] ELSE t[i - Len(s)]
  BY <1>1, ConcatProperties
<1>5. \A i \in 1 .. 4 : (s \o t)[i] = <<a, b, c, d>>[i] BY <1>1, <1>3, <1>4
<1>6. /\ Len(s \o t) = Len(<<a, b, c, d>>)
      /\ \A i \in 1 .. Len(s \o t) : (s \o t)[i] = <<a, b, c, d>>[i]
  BY <1>1, <1>2, <1>4, <1>5
<1>7. s \o t = <<a, b, c, d>> BY <1>2, <1>4, <1>6, SeqEqual
<1> QED BY <1>7 DEF s, t

LEMMA PortableIs == compress_pre_portable = round_fn
<1>1. ASSUME NEW r \in Rounds
      PROVE  g(Columns, r, 0) \o g(Diagonals, r, 8) = round_fn[r]
  <2>1. ASSUME NEW k \in 1 .. 4
        PROVE  /\ Columns[k][1] = k - 1 /\ Columns[k][2] = 4 + (k - 1)
               /\ Columns[k][3] = 8 + (k - 1) /\ Columns[k][4] = 12 + (k - 1)
               /\ Diagonals[k][1] = k - 1 /\ Diagonals[k][2] = 4 + (((k - 1) + 1) % 4)
               /\ Diagonals[k][3] = 8 + (((k - 1) + 2) % 4)
               /\ Diagonals[k][4] = 12 + (((k - 1) + 3) % 4)
    BY DEF Columns, Diagonals
  <2>2. /\ \A k \in 1 .. 4 : k - 1 \in Quad
        /\ \A k \in Quad : k + 1 \in 1 .. 4 /\ (k + 1) - 1 = k
    BY DEF Quad
  <2>3. \A k \in 1 .. 4 : /\ 0 + 2 * (k - 1) = 2 * (k - 1)
                          /\ 0 + 2 * (k - 1) + 1 = 2 * (k - 1) + 1
                          /\ 8 + 2 * (k - 1) + 1 = 9 + 2 * (k - 1)
    OBVIOUS
  <2>4. {Mix(Columns[k][1], Columns[k][2], Columns[k][3], Columns[k][4],
             Scheduled(r, 0 + 2 * (k - 1)), First) : k \in 1 .. 4}
          = {Mix(k, 4 + k, 8 + k, 12 + k, Scheduled(r, 2 * k), First) : k \in Quad}
    BY <2>1, <2>2, <2>3
  <2>5. {Mix(Columns[k][1], Columns[k][2], Columns[k][3], Columns[k][4],
             Scheduled(r, 0 + 2 * (k - 1) + 1), Second) : k \in 1 .. 4}
          = {Mix(k, 4 + k, 8 + k, 12 + k, Scheduled(r, 2 * k + 1), Second) : k \in Quad}
    BY <2>1, <2>2, <2>3
  <2>6. {Mix(Diagonals[k][1], Diagonals[k][2], Diagonals[k][3], Diagonals[k][4],
             Scheduled(r, 8 + 2 * (k - 1)), First) : k \in 1 .. 4}
          = {Mix(k, 4 + ((k + 1) % 4), 8 + ((k + 2) % 4), 12 + ((k + 3) % 4),
                 Scheduled(r, 8 + 2 * k), First) : k \in Quad}
    BY <2>1, <2>2, <2>3
  <2>7. {Mix(Diagonals[k][1], Diagonals[k][2], Diagonals[k][3], Diagonals[k][4],
             Scheduled(r, 8 + 2 * (k - 1) + 1), Second) : k \in 1 .. 4}
          = {Mix(k, 4 + ((k + 1) % 4), 8 + ((k + 2) % 4), 12 + ((k + 3) % 4),
                 Scheduled(r, 9 + 2 * k), Second) : k \in Quad}
    BY <2>1, <2>2, <2>3
  <2> DEFINE s == round_fn[r]
  <2>8. s = <<s[1], s[2], s[3], s[4]>> BY DEF round_fn
  <2>9. g(Columns, r, 0) = <<s[1], s[2]>> BY <2>4, <2>5 DEF g, round_fn
  <2>10. g(Diagonals, r, 8) = <<s[3], s[4]>> BY <2>6, <2>7 DEF g, round_fn
  <2> HIDE DEF s
  <2>11. <<s[1], s[2]>> \o <<s[3], s[4]>> = <<s[1], s[2], s[3], s[4]>> BY Joined
  <2>12. g(Columns, r, 0) \o g(Diagonals, r, 8) = s BY <2>8, <2>9, <2>10, <2>11
  <2> QED BY <2>12 DEF s
<1> QED BY <1>1 DEF compress_pre_portable, round_fn

-----------------------------------------------------------------------------
(* The rounds of the row code.                                             *)

\* A vector of four words.
Vector(a, b, c, d) ==
    [i \in Quad |-> IF i = 0 THEN a ELSE IF i = 1 THEN b ELSE IF i = 2 THEN c ELSE d]

LEMMA VectorReads ==
    ASSUME NEW a, NEW b, NEW c, NEW d
    PROVE  /\ Vector(a, b, c, d)[0] = a /\ Vector(a, b, c, d)[1] = b
           /\ Vector(a, b, c, d)[2] = c /\ Vector(a, b, c, d)[3] = d
           /\ DOMAIN Vector(a, b, c, d) = Quad
BY DEF Vector, Quad

\* What the instructions make of two vectors.
LEMMA ShufflePs ==
    ASSUME NEW a, NEW b, NEW z, NEW y, NEW x, NEW w
    PROVE  shuffle_ps2(a, b, z, y, x, w) = Vector(a[w], a[x], b[y], b[z])
BY DEF shuffle_ps2, Vector, Quad

LEMMA ShuffleEpi ==
    ASSUME NEW a, NEW z, NEW y, NEW x, NEW w
    PROVE  shuffle_epi32(a, z, y, x, w) = Vector(a[w], a[x], a[y], a[z])
BY ShufflePs DEF shuffle_epi32

LEMMA Unpacks ==
    ASSUME NEW a, NEW b, DOMAIN a = Quad
    PROVE  /\ unpacklo_epi32(a, b) = Vector(a[0], b[0], a[1], b[1])
           /\ unpackhi_epi32(a, b) = Vector(a[2], b[2], a[3], b[3])
           /\ unpacklo_epi64(a, b) = Vector(a[0], a[1], b[0], b[1])
<1>1. \A i \in Quad : i = 0 \/ i = 1 \/ i = 2 \/ i = 3 BY DEF Quad
<1>2. /\ 4 * (0 \div 4) + (0 % 4) \div 2 = 0 /\ 4 * (1 \div 4) + (1 % 4) \div 2 = 0
      /\ 4 * (2 \div 4) + (2 % 4) \div 2 = 1 /\ 4 * (3 \div 4) + (3 % 4) \div 2 = 1
      /\ 4 * (0 \div 4) + 2 + (0 % 4) \div 2 = 2 /\ 4 * (1 \div 4) + 2 + (1 % 4) \div 2 = 2
      /\ 4 * (2 \div 4) + 2 + (2 % 4) \div 2 = 3 /\ 4 * (3 \div 4) + 2 + (3 % 4) \div 2 = 3
      /\ 0 % 2 = 0 /\ 1 % 2 = 1 /\ 2 % 2 = 0 /\ 3 % 2 = 1
      /\ 0 % 4 = 0 /\ 1 % 4 = 1 /\ 2 % 4 = 2 /\ 3 % 4 = 3
  OBVIOUS
<1>3. unpacklo_epi32(a, b) = Vector(a[0], b[0], a[1], b[1])
  BY <1>1, <1>2 DEF unpacklo_epi32, Vector
<1>4. unpackhi_epi32(a, b) = Vector(a[2], b[2], a[3], b[3])
  BY <1>1, <1>2 DEF unpackhi_epi32, Vector
<1>5. unpacklo_epi64(a, b) = Vector(a[0], a[1], b[0], b[1])
  BY <1>1, <1>2 DEF unpacklo_epi64, Vector
<1> QED BY <1>3, <1>4, <1>5

LEMMA Blends ==
    ASSUME NEW a, NEW b
    PROVE  /\ mm_blend_epi16(a, b, 204) = Vector(a[0], b[1], a[2], b[3])
           /\ mm_blend_epi16(a, b, 192) = Vector(a[0], a[1], a[2], b[3])
           /\ blend_epi16(a, b, 204) = Vector(a[0], b[1], a[2], b[3])
           /\ blend_epi16(a, b, 192) = Vector(a[0], a[1], a[2], b[3])
<1>1. \A i \in Quad : i = 0 \/ i = 1 \/ i = 2 \/ i = 3 BY DEF Quad
<1>2. /\ ~BothBits(204, 0) /\ BothBits(204, 1) /\ ~BothBits(204, 2) /\ BothBits(204, 3)
      /\ ~BothBits(192, 0) /\ ~BothBits(192, 1) /\ ~BothBits(192, 2) /\ BothBits(192, 3)
  BY DEF BothBits
<1>3. /\ mm_blend_epi16(a, b, 204) = Vector(a[0], b[1], a[2], b[3])
      /\ mm_blend_epi16(a, b, 192) = Vector(a[0], a[1], a[2], b[3])
  BY <1>1, <1>2 DEF mm_blend_epi16, Vector
<1> DEFINE from_b(imm8, lane) == (imm8 \div <<1, 2, 4, 8, 16, 32, 64, 128>>[lane + 1]) % 2 = 1
           blended(imm8) ==
              [i \in Quad |-> CASE from_b(imm8, 2 * i) /\ from_b(imm8, 2 * i + 1) -> b[i]
                                [] ~from_b(imm8, 2 * i) /\ ~from_b(imm8, 2 * i + 1) -> a[i]
                                [] OTHER -> <<a[i], b[i]>>]
<1>4. /\ \A lane \in {2, 3, 6, 7} : from_b(204, lane)
      /\ \A lane \in {0, 1, 4, 5} : ~from_b(204, lane)
      /\ \A lane \in {6, 7} : from_b(192, lane)
      /\ \A lane \in {0, 1, 2, 3, 4, 5} : ~from_b(192, lane)
  OBVIOUS
<1> HIDE DEF from_b
<1>5. blended(204) = Vector(a[0], b[1], a[2], b[3]) BY <1>1, <1>4 DEF Vector
<1>6. blended(192) = Vector(a[0], a[1], a[2], b[3]) BY <1>1, <1>4 DEF Vector
<1>7. blend_epi16(a, b, 204) = blended(204) /\ blend_epi16(a, b, 192) = blended(192)
  BY DEF blend_epi16, from_b
<1> HIDE DEF blended
<1> QED BY <1>3, <1>5, <1>6, <1>7

\* The message vectors of a round whose words are w.
MessageVectors(w) ==
    << Vector(w[0], w[2], w[4], w[6]), Vector(w[1], w[3], w[5], w[7]),
       Vector(w[14], w[8], w[10], w[12]), Vector(w[15], w[9], w[11], w[13]) >>

LEMMA MessagesFirst ==
    FirstMessages([k \in 1 .. 4 |-> Load(4 * (k - 1))]) = MessageVectors([i \in 0 .. 15 |-> i])
<1> DEFINE m == [k \in 1 .. 4 |-> Load(4 * (k - 1))]
<1>1. /\ m[1] = Vector(0, 1, 2, 3) /\ m[2] = Vector(4, 5, 6, 7)
      /\ m[3] = Vector(8, 9, 10, 11) /\ m[4] = Vector(12, 13, 14, 15)
  BY DEF Load, Vector, Quad
<1> HIDE DEF m
<1>2. shuffle_ps2(m[1], m[2], 2, 0, 2, 0) = Vector(0, 2, 4, 6)
  BY <1>1, ShufflePs, VectorReads
<1>3. shuffle_ps2(m[1], m[2], 3, 1, 3, 1) = Vector(1, 3, 5, 7)
  BY <1>1, ShufflePs, VectorReads
<1>4. shuffle_ps2(m[3], m[4], 2, 0, 2, 0) = Vector(8, 10, 12, 14)
  BY <1>1, ShufflePs, VectorReads
<1>5. shuffle_ps2(m[3], m[4], 3, 1, 3, 1) = Vector(9, 11, 13, 15)
  BY <1>1, ShufflePs, VectorReads
<1>6. shuffle_epi32(Vector(8, 10, 12, 14), 2, 1, 0, 3) = Vector(14, 8, 10, 12)
  BY ShuffleEpi, VectorReads
<1>7. shuffle_epi32(Vector(9, 11, 13, 15), 2, 1, 0, 3) = Vector(15, 9, 11, 13)
  BY ShuffleEpi, VectorReads
<1>8. FirstMessages(m) = << Vector(0, 2, 4, 6), Vector(1, 3, 5, 7),
                            Vector(14, 8, 10, 12), Vector(15, 9, 11, 13) >>
  BY <1>2, <1>3, <1>4, <1>5, <1>6, <1>7 DEF FirstMessages
<1> QED BY <1>8 DEF MessageVectors, m

\* Between two rounds the words are permuted, as in the schedule.
Permuted(w) == [i \in 0 .. 15 |-> w[Permutation[i + 1]]]

LEMMA MessagesLater ==
    ASSUME NEW w
    PROVE  LET m == MessageVectors(w)
           IN  /\ LaterMessages(m, mm_blend_epi16) = MessageVectors(Permuted(w))
               /\ LaterMessages(m, blend_epi16) = MessageVectors(Permuted(w))
<1> DEFINE m == MessageVectors(w)
           p == Permuted(w)
<1>1. /\ m[1] = Vector(w[0], w[2], w[4], w[6]) /\ m[2] = Vector(w[1], w[3], w[5], w[7])
      /\ m[3] = Vector(w[14], w[8], w[10], w[12]) /\ m[4] = Vector(w[15], w[9], w[11], w[13])
  BY DEF MessageVectors
<1>2. /\ p[0] = w[2] /\ p[1] = w[6] /\ p[2] = w[3] /\ p[3] = w[10]
      /\ p[4] = w[7] /\ p[5] = w[0] /\ p[6] = w[4] /\ p[7] = w[13]
      /\ p[8] = w[1] /\ p[9] = w[11] /\ p[10] = w[12] /\ p[11] = w[5]
      /\ p[12] = w[9] /\ p[13] = w[14] /\ p[14] = w[15] /\ p[15] = w[8]
  BY DEF Permuted, Permutation
<1> HIDE DEF m, p
<1>3. shuffle_epi32(shuffle_ps2(m[1], m[2], 3, 1, 1, 2), 0, 3, 2, 1)
        = Vector(p[0], p[2], p[4], p[6])
  <2>1. shuffle_ps2(m[1], m[2], 3, 1, 1, 2) = Vector(w[4], w[2], w[3], w[7])
    BY <1>1, ShufflePs, VectorReads
  <2> QED BY <1>2, <2>1, ShuffleEpi, VectorReads
<1>4. /\ mm_blend_epi16(shuffle_epi32(m[1], 0, 0, 3, 3), shuffle_ps2(m[3], m[4], 3, 3, 2, 2), 204)
           = Vector(p[1], p[3], p[5], p[7])
      /\ blend_epi16(shuffle_epi32(m[1], 0, 0, 3, 3), shuffle_ps2(m[3], m[4], 3, 3, 2, 2), 204)
           = Vector(p[1], p[3], p[5], p[7])
  <2>1. shuffle_epi32(m[1], 0, 0, 3, 3) = Vector(w[6], w[6], w[0], w[0])
    BY <1>1, ShuffleEpi, VectorReads
  <2>2. shuffle_ps2(m[3], m[4], 3, 3, 2, 2) = Vector(w[10], w[10], w[13], w[13])
    BY <1>1, ShufflePs, VectorReads
  <2> QED BY <1>2, <2>1, <2>2, Blends, VectorReads
<1>5. unpacklo_epi64(m[4], m[2]) = Vector(w[15], w[9], w[1], w[3])
  BY <1>1, Unpacks, VectorReads
<1>6. /\ shuffle_epi32(mm_blend_epi16(unpacklo_epi64(m[4], m[2]), m[3], 192), 1, 3, 2, 0)
           = Vector(p[14], p[8], p[10], p[12])
      /\ shuffle_epi32(blend_epi16(unpacklo_epi64(m[4], m[2]), m[3], 192), 1, 3, 2, 0)
           = Vector(p[14], p[8], p[10], p[12])
  <2>1. /\ mm_blend_epi16(unpacklo_epi64(m[4], m[2]), m[3], 192) = Vector(w[15], w[9], w[1], w[12])
        /\ blend_epi16(unpacklo_epi64(m[4], m[2]), m[3], 192) = Vector(w[15], w[9], w[1], w[12])
    BY <1>1, <1>5, Blends, VectorReads
  <2> QED BY <1>2, <2>1, ShuffleEpi, VectorReads
<1>7. shuffle_epi32(unpacklo_epi32(m[3], unpackhi_epi32(m[2], m[4])), 0, 1, 3, 2)
        = Vector(p[15], p[9], p[11], p[13])
  <2>1. unpackhi_epi32(m[2], m[4]) = Vector(w[5], w[11], w[7], w[13])
    BY <1>1, Unpacks, VectorReads
  <2>2. unpacklo_epi32(m[3], unpackhi_epi32(m[2], m[4])) = Vector(w[14], w[5], w[8], w[11])
    BY <1>1, <2>1, Unpacks, VectorReads
  <2> QED BY <1>2, <2>2, ShuffleEpi, VectorReads
<1> QED BY <1>3, <1>4, <1>6, <1>7 DEF LaterMessages, MessageVectors, m, p

\* What the rows of the state are before every round.
Rows == [k \in Quad |-> Load(4 * k)]

LEMMA RowsReads ==
    \A k \in Quad : Rows[k] = Vector(4 * k, 4 * k + 1, 4 * k + 2, 4 * k + 3)
BY DEF Rows, Load, Vector, Quad

LEMMA RowsBack ==
    /\ diagonalize(Rows)[0] = Vector(3, 0, 1, 2) /\ diagonalize(Rows)[1] = Vector(4, 5, 6, 7)
    /\ diagonalize(Rows)[2] = Vector(9, 10, 11, 8) /\ diagonalize(Rows)[3] = Vector(14, 15, 12, 13)
    /\ undiagonalize(diagonalize(Rows)) = Rows
<1> DEFINE R == Rows
           D == diagonalize(R)
           U == undiagonalize(D)
<1>1. /\ R[0] = Vector(0, 1, 2, 3) /\ R[1] = Vector(4, 5, 6, 7)
      /\ R[2] = Vector(8, 9, 10, 11) /\ R[3] = Vector(12, 13, 14, 15)
  BY RowsReads DEF Quad
<1>2. DOMAIN R = Quad BY DEF Rows
<1> HIDE DEF R
<1>3. /\ shuffle_epi32(R[0], 2, 1, 0, 3) = Vector(3, 0, 1, 2)
      /\ shuffle_epi32(R[2], 0, 3, 2, 1) = Vector(9, 10, 11, 8)
      /\ shuffle_epi32(R[3], 1, 0, 3, 2) = Vector(14, 15, 12, 13)
  BY <1>1, ShuffleEpi, VectorReads
<1>4. /\ D[0] = Vector(3, 0, 1, 2) /\ D[1] = Vector(4, 5, 6, 7)
      /\ D[2] = Vector(9, 10, 11, 8) /\ D[3] = Vector(14, 15, 12, 13)
      /\ DOMAIN D = Quad
  BY <1>1, <1>2, <1>3 DEF diagonalize, Quad
<1> HIDE DEF D
<1>5. /\ shuffle_epi32(D[0], 0, 3, 2, 1) = Vector(0, 1, 2, 3)
      /\ shuffle_epi32(D[2], 2, 1, 0, 3) = Vector(8, 9, 10, 11)
      /\ shuffle_epi32(D[3], 1, 0, 3, 2) = Vector(12, 13, 14, 15)
  BY <1>4, ShuffleEpi, VectorReads
<1>6. /\ U[0] = R[0] /\ U[1] = R[1] /\ U[2] = R[2] /\ U[3] = R[3]
      /\ U = [k \in Quad |-> U[k]]
  <2> DEFINE a == shuffle_epi32(D[0], 0, 3, 2, 1)
             b == shuffle_epi32(D[3], 1, 0, 3, 2)
             c == shuffle_epi32(D[2], 2, 1, 0, 3)
  <2>1. U = [D EXCEPT ![0] = a, ![3] = b, ![2] = c] BY DEF undiagonalize
  <2>2. a = R[0] /\ b = R[3] /\ c = R[2] BY <1>1, <1>5
  <2> HIDE DEF a, b, c, U
  <2>3. DOMAIN U = Quad BY <1>4, <2>1
  <2>4. U = [k \in Quad |-> U[k]] BY <2>1, <2>3
  <2>5. U[0] = a /\ U[3] = b /\ U[2] = c /\ U[1] = D[1] BY <1>4, <2>1 DEF Quad
  <2> QED BY <1>1, <1>4, <2>2, <2>4, <2>5
<1>7. R = [k \in Quad |-> R[k]] BY DEF R, Rows
<1> HIDE DEF U
<1>8. \A k \in Quad : U[k] = R[k] BY <1>6 DEF Quad
<1>9. U = R BY <1>6, <1>7, <1>8
<1> QED BY <1>4, <1>9 DEF R, D, U

\* A function of the rounds that is given by its first value and a step.
LEMMA RowsOfRounds ==
    ASSUME NEW f, f = CHOOSE f0 : f0 = [r \in Rounds |-> IF r = 0 THEN [k \in Quad |-> Load(4 * k)]
                                        ELSE undiagonalize(diagonalize(f0[r - 1]))]
    PROVE  \A r \in Rounds : f[r] = Rows
<1> DEFINE H(f0) == f0 = [r \in Rounds |-> IF r = 0 THEN [k \in Quad |-> Load(4 * k)]
                                        ELSE undiagonalize(diagonalize(f0[r - 1]))]
           rows == [r \in Rounds |-> Rows]
<1>1. H(rows)
  <2> DEFINE step(n) == IF n = 0 THEN [k \in Quad |-> Load(4 * k)]
                        ELSE undiagonalize(diagonalize(rows[n - 1]))
  <2>1. \A n \in Rounds : n # 0 => n - 1 \in Rounds BY DEF Rounds
  <2>2. \A n \in Rounds : n # 0 => rows[n - 1] = Rows BY <2>1
  <2>3. \A n \in Rounds : rows[n] = step(n) BY <2>2, RowsBack DEF Rows
  <2>4. rows = [n \in Rounds |-> step(n)]
    <3> HIDE DEF step
    <3> QED BY <2>3
  <2> QED BY <2>4
<1>2. H(f)
  <2>1. f = CHOOSE f0 : H(f0) OBVIOUS
  <2> HIDE DEF H, rows
  <2> QED BY <1>1, <2>1
<1> DEFINE next(n) == undiagonalize(diagonalize(f[n - 1]))
<1>3. f[0] = Rows BY <1>2 DEF Rounds, Rows
<1>4. \A n \in Rounds : n # 0 => f[n] = next(n) BY <1>2
<1> HIDE DEF H
<1>5. ASSUME NEW n \in 1 .. 6, f[n - 1] = Rows
      PROVE  f[n] = Rows
  <2>1. n \in Rounds /\ n # 0 BY DEF Rounds
  <2> QED BY <1>4, <1>5, <2>1, RowsBack
<1> HIDE DEF next
<1>6. f[1] = Rows BY <1>3, <1>5
<1>7. f[2] = Rows BY <1>5, <1>6
<1>8. f[3] = Rows BY <1>5, <1>7
<1>9. f[4] = Rows BY <1>5, <1>8
<1>10. f[5] = Rows BY <1>5, <1>9
<1>11. f[6] = Rows BY <1>5, <1>10
<1> QED BY <1>3, <1>6, <1>7, <1>8, <1>9, <1>10, <1>11 DEF Rounds

\* The vectors of the message before every round.
LEMMA MessagesOfRounds ==
    ASSUME NEW f,
           \/ f = CHOOSE f0 : f0 = [r \in Rounds |->
                    IF r = 0 THEN FirstMessages([k \in 1 .. 4 |-> Load(4 * (k - 1))])
                    ELSE LaterMessages(f0[r - 1], mm_blend_epi16)]
           \/ f = CHOOSE f0 : f0 = [r \in Rounds |->
                    IF r = 0 THEN FirstMessages([k \in 1 .. 4 |-> Load(4 * (k - 1))])
                    ELSE LaterMessages(f0[r - 1], blend_epi16)]
    PROVE  \A r \in Rounds : f[r] = MessageVectors(Words16(r))
<1> DEFINE first == FirstMessages([k \in 1 .. 4 |-> Load(4 * (k - 1))])
           later1(m) == LaterMessages(m, mm_blend_epi16)
           later2(m) == LaterMessages(m, blend_epi16)
           H1(f0) == f0 = [r \in Rounds |-> IF r = 0 THEN first ELSE later1(f0[r - 1])]
           H2(f0) == f0 = [r \in Rounds |-> IF r = 0 THEN first ELSE later2(f0[r - 1])]
           M(n) == MessageVectors(Words16(n))
           all == [n \in Rounds |-> M(n)]
<1>1. first = M(0)
  <2>1. Words16(0) = [i \in 0 .. 15 |-> i] BY ScheduleFirst DEF Words16
  <2> QED BY <2>1, MessagesFirst
<1>2. ASSUME NEW n \in 1 .. 6 PROVE later1(M(n - 1)) = M(n) /\ later2(M(n - 1)) = M(n)
  <2>1. Permuted(Words16(n - 1)) = Words16(n)
    BY ScheduleStep, PermutationIn DEF Words16, Permuted
  <2> QED BY <2>1, MessagesLater
<1>3. \A n \in Rounds : n # 0 => n \in 1 .. 6 /\ n - 1 \in Rounds BY DEF Rounds
<1> HIDE DEF first, later1, later2, M
<1>4. \A n \in Rounds : n # 0 => all[n - 1] = M(n - 1) BY <1>3
<1>5. H1(all) /\ H2(all)
  <2> DEFINE step1(n) == IF n = 0 THEN first ELSE later1(all[n - 1])
             step2(n) == IF n = 0 THEN first ELSE later2(all[n - 1])
  <2>1. \A n \in Rounds : all[n] = step1(n) /\ all[n] = step2(n) BY <1>1, <1>2, <1>3, <1>4
  <2>2. all = [n \in Rounds |-> step1(n)] /\ all = [n \in Rounds |-> step2(n)]
    <3> HIDE DEF step1, step2
    <3> QED BY <2>1
  <2> QED BY <2>2
<1>6. H1(f) \/ H2(f)
  <2>1. f = (CHOOSE f0 : H1(f0)) \/ f = (CHOOSE f0 : H2(f0))
    BY DEF first, later1, later2
  <2> HIDE DEF H1, H2, all
  <2> QED BY <1>5, <2>1
<1>7. f[0] = M(0) BY <1>1, <1>6 DEF Rounds
<1>8. \A n \in Rounds : n # 0 => f[n] = later1(f[n - 1]) \/ f[n] = later2(f[n - 1]) BY <1>6
<1> HIDE DEF H1, H2, all
<1>9. ASSUME NEW n \in 1 .. 6, f[n - 1] = M(n - 1)
      PROVE  f[n] = M(n)
  <2>1. n \in Rounds /\ n # 0 BY DEF Rounds
  <2> QED BY <1>2, <1>8, <1>9, <2>1
<1>10. f[1] = M(1) BY <1>7, <1>9
<1>11. f[2] = M(2) BY <1>9, <1>10
<1>12. f[3] = M(3) BY <1>9, <1>11
<1>13. f[4] = M(4) BY <1>9, <1>12
<1>14. f[5] = M(5) BY <1>9, <1>13
<1>15. f[6] = M(6) BY <1>9, <1>14
<1>16. \A r \in Rounds : f[r] = M(r)
  BY <1>7, <1>10, <1>11, <1>12, <1>13, <1>14, <1>15 DEF Rounds
<1> QED BY <1>16 DEF M

\* One round of the row code; lane i is diagonal (i + 3) % 4.
LEMMA RowRound ==
    ASSUME NEW r \in Rounds
    PROVE  LET m == MessageVectors(Words16(r))
           IN  << MixRows(Rows, m[1], First), MixRows(Rows, m[2], Second),
                  MixRows(diagonalize(Rows), m[3], First),
                  MixRows(diagonalize(Rows), m[4], Second) >> = round_fn[r]
<1> DEFINE m == MessageVectors(Words16(r))
           D == diagonalize(Rows)
           turned(i) == (i + 3) % 4
<1>1. \A i \in Quad : i = 0 \/ i = 1 \/ i = 2 \/ i = 3 BY DEF Quad
<1>2. \A i \in 0 .. 15 : Words16(r)[i] = Scheduled(r, i) BY DEF Words16
<1>3. /\ m[1] = Vector(Scheduled(r, 0), Scheduled(r, 2), Scheduled(r, 4), Scheduled(r, 6))
      /\ m[2] = Vector(Scheduled(r, 1), Scheduled(r, 3), Scheduled(r, 5), Scheduled(r, 7))
      /\ m[3] = Vector(Scheduled(r, 14), Scheduled(r, 8), Scheduled(r, 10), Scheduled(r, 12))
      /\ m[4] = Vector(Scheduled(r, 15), Scheduled(r, 9), Scheduled(r, 11), Scheduled(r, 13))
  BY <1>2 DEF MessageVectors
<1> HIDE DEF m
<1>4. \A i \in Quad : m[1][i] = Scheduled(r, 2 * i) /\ m[2][i] = Scheduled(r, 2 * i + 1)
  BY <1>1, <1>3, VectorReads
<1>5. \A i \in Quad : /\ m[3][i] = Scheduled(r, 8 + 2 * turned(i))
                      /\ m[4][i] = Scheduled(r, 9 + 2 * turned(i))
  BY <1>1, <1>3, VectorReads
<1>6. \A i \in Quad : /\ Rows[0][i] = i /\ Rows[1][i] = 4 + i
                      /\ Rows[2][i] = 8 + i /\ Rows[3][i] = 12 + i
  BY DEF Rows, Load, Quad
<1>7. \A i \in Quad : /\ D[0][i] = turned(i) /\ D[1][i] = 4 + ((turned(i) + 1) % 4)
                      /\ D[2][i] = 8 + ((turned(i) + 2) % 4)
                      /\ D[3][i] = 12 + ((turned(i) + 3) % 4)
  BY <1>1, RowsBack, VectorReads
<1>8. /\ \A i \in Quad : turned(i) \in Quad
      /\ \A k \in Quad : (k + 1) % 4 \in Quad /\ turned((k + 1) % 4) = k
  BY DEF Quad
<1> HIDE DEF D, turned
<1>9. /\ MixRows(Rows, m[1], First)
           = {Mix(k, 4 + k, 8 + k, 12 + k, Scheduled(r, 2 * k), First) : k \in Quad}
      /\ MixRows(Rows, m[2], Second)
           = {Mix(k, 4 + k, 8 + k, 12 + k, Scheduled(r, 2 * k + 1), Second) : k \in Quad}
  BY <1>4, <1>6 DEF MixRows
<1>10. MixRows(D, m[3], First)
         = {Mix(k, 4 + ((k + 1) % 4), 8 + ((k + 2) % 4), 12 + ((k + 3) % 4),
                Scheduled(r, 8 + 2 * k), First) : k \in Quad}
  BY <1>5, <1>7, <1>8 DEF MixRows
<1>11. MixRows(D, m[4], Second)
         = {Mix(k, 4 + ((k + 1) % 4), 8 + ((k + 2) % 4), 12 + ((k + 3) % 4),
                Scheduled(r, 9 + 2 * k), Second) : k \in Quad}
  BY <1>5, <1>7, <1>8 DEF MixRows
<1> QED BY <1>9, <1>10, <1>11 DEF round_fn, m, D

LEMMA RowsAre ==
    /\ compress_pre_sse2 = round_fn
    /\ compress_pre_sse41 = round_fn
    /\ compress_pre_avx512 = round_fn
<1> DEFINE messages1 == CHOOSE f0 : f0 = [r \in Rounds |->
                    IF r = 0 THEN FirstMessages([k \in 1 .. 4 |-> Load(4 * (k - 1))])
                    ELSE LaterMessages(f0[r - 1], mm_blend_epi16)]
           messages2 == CHOOSE f0 : f0 = [r \in Rounds |->
                    IF r = 0 THEN FirstMessages([k \in 1 .. 4 |-> Load(4 * (k - 1))])
                    ELSE LaterMessages(f0[r - 1], blend_epi16)]
           rows == CHOOSE f0 : f0 = [r \in Rounds |-> IF r = 0 THEN [k \in Quad |-> Load(4 * k)]
                                        ELSE undiagonalize(diagonalize(f0[r - 1]))]
           mixed(m) == [r \in Rounds |->
            << MixRows(rows[r], m[r][1], First),
               MixRows(rows[r], m[r][2], Second),
               MixRows(diagonalize(rows[r]), m[r][3], First),
               MixRows(diagonalize(rows[r]), m[r][4], Second) >>]
<1>1. \A r \in Rounds : rows[r] = Rows BY RowsOfRounds
<1>2. \A r \in Rounds : messages1[r] = MessageVectors(Words16(r)) BY MessagesOfRounds
<1>3. \A r \in Rounds : messages2[r] = MessageVectors(Words16(r)) BY MessagesOfRounds
<1>4. /\ compress_pre_sse41 = mixed(messages1) /\ compress_pre_avx512 = mixed(messages1)
  BY DEF compress_pre_sse41, compress_pre_avx512, RowRounds
<1>5. compress_pre_sse2 = mixed(messages2) BY DEF compress_pre_sse2, RowRounds
<1> HIDE DEF rows, messages1, messages2
<1>6. mixed(messages1) = round_fn /\ mixed(messages2) = round_fn
  <2>1. \A r \in Rounds : /\ mixed(messages1)[r] = round_fn[r]
                          /\ mixed(messages2)[r] = round_fn[r]
    BY <1>1, <1>2, <1>3, RowRound
  <2>2. round_fn = [r \in Rounds |-> round_fn[r]] BY DEF round_fn
  <2> QED BY <2>1, <2>2
<1> QED BY <1>4, <1>5, <1>6

-----------------------------------------------------------------------------
(* The transposes, and what the lane code loads and stores.                *)

\* n vectors of n words, and what is made of them.
Square(n, vecs) == \A v \in 0 .. n - 1 : DOMAIN vecs[v] = 0 .. n - 1

Transposed(n, t, vecs) ==
    \A v \in 0 .. n - 1 : /\ DOMAIN t[v] = 0 .. n - 1
                          /\ \A i \in 0 .. n - 1 : t[v][i] = vecs[i][v]

\* A word of the group of four that word i is in.
Place(vecs, first, q, i) == vecs[first + (i % 4)][4 * (i \div 4) + q]

\* Four vectors, interleaved: the groups of four words are transposed.
LEMMA InterleavedIs ==
    ASSUME NEW n \in {4, 8, 16}, NEW vecs, Square(n, vecs),
           NEW first \in Nat, first + 2 <= n - 1, NEW q \in Quad
    PROVE  /\ DOMAIN Interleaved(vecs, first)[q] = 0 .. n - 1
           /\ \A i \in 0 .. n - 1 : Interleaved(vecs, first)[q][i] = Place(vecs, first, q, i)
<1> DEFINE a == vecs[first]
           b == vecs[first + 1]
           c == vecs[first + 2]
           d == vecs[first + 3]
           I == 0 .. n - 1
           ab_lo == unpacklo_epi32(a, b)
           ab_hi == unpackhi_epi32(a, b)
           cd_lo == unpacklo_epi32(c, d)
           cd_hi == unpackhi_epi32(c, d)
           at(i) == 4 * (i \div 4)
<1>1. /\ Interleaved(vecs, first)[0] = unpacklo_epi64(ab_lo, cd_lo)
      /\ Interleaved(vecs, first)[1] = unpackhi_epi64(ab_lo, cd_lo)
      /\ Interleaved(vecs, first)[2] = unpacklo_epi64(ab_hi, cd_hi)
      /\ Interleaved(vecs, first)[3] = unpackhi_epi64(ab_hi, cd_hi)
  BY DEF Interleaved, Quad
<1>2. DOMAIN a = I /\ DOMAIN c = I BY DEF Square
<1>3. ASSUME NEW i \in I
      PROVE  /\ i % 4 \in {0, 1, 2, 3} /\ at(i) \in Nat
             /\ i % 4 < 2 => i + 2 \in I /\ i + 2 \in Int
             /\ i % 4 >= 2 => i - 2 \in I
             /\ i % 4 = 0 => i % 2 = 0 /\ (i % 4) \div 2 = 0
             /\ i % 4 = 1 => i % 2 = 1 /\ (i % 4) \div 2 = 0
             /\ i % 4 = 2 => i % 2 = 0 /\ (i % 4) \div 2 = 1
             /\ i % 4 = 3 => i % 2 = 1 /\ (i % 4) \div 2 = 1
             /\ i % 4 < 2 => (i + 2) % 4 = (i % 4) + 2 /\ at(i + 2) = at(i)
             /\ i % 4 >= 2 => (i - 2) % 4 = (i % 4) - 2 /\ at(i - 2) = at(i)
  <2>1. CASE n = 4 BY <2>1
  <2>2. CASE n = 8 BY <2>2
  <2>3. CASE n = 16 BY <2>3
  <2> QED BY <2>1, <2>2, <2>3
<1>4. /\ DOMAIN ab_lo = I /\ DOMAIN ab_hi = I /\ DOMAIN cd_lo = I /\ DOMAIN cd_hi = I
      /\ \A i \in I :
            /\ ab_lo[i] = IF i % 2 = 0 THEN a[at(i) + (i % 4) \div 2] ELSE b[at(i) + (i % 4) \div 2]
            /\ cd_lo[i] = IF i % 2 = 0 THEN c[at(i) + (i % 4) \div 2] ELSE d[at(i) + (i % 4) \div 2]
            /\ ab_hi[i] = IF i % 2 = 0 THEN a[at(i) + 2 + (i % 4) \div 2]
                                       ELSE b[at(i) + 2 + (i % 4) \div 2]
            /\ cd_hi[i] = IF i % 2 = 0 THEN c[at(i) + 2 + (i % 4) \div 2]
                                       ELSE d[at(i) + 2 + (i % 4) \div 2]
  BY <1>2 DEF unpacklo_epi32, unpackhi_epi32
<1> HIDE DEF a, b, c, d, I, ab_lo, ab_hi, cd_lo, cd_hi, at
<1>5. ASSUME NEW i \in I, i % 4 = 0
      PROVE  /\ ab_lo[i] = a[at(i)] /\ ab_lo[i + 2] = a[at(i) + 1]
             /\ ab_hi[i] = a[at(i) + 2] /\ ab_hi[i + 2] = a[at(i) + 3]
  <2>1. i + 2 \in I /\ (i + 2) % 4 = 2 /\ at(i + 2) = at(i) BY <1>3, <1>5
  <2> QED BY <1>3, <1>4, <1>5, <2>1
<1>6. ASSUME NEW i \in I, i % 4 = 1
      PROVE  /\ ab_lo[i] = b[at(i)] /\ ab_lo[i + 2] = b[at(i) + 1]
             /\ ab_hi[i] = b[at(i) + 2] /\ ab_hi[i + 2] = b[at(i) + 3]
  <2>1. i + 2 \in I /\ (i + 2) % 4 = 3 /\ at(i + 2) = at(i) BY <1>3, <1>6
  <2> QED BY <1>3, <1>4, <1>6, <2>1
<1>7. ASSUME NEW i \in I, i % 4 = 2
      PROVE  /\ cd_lo[i - 2] = c[at(i)] /\ cd_lo[i] = c[at(i) + 1]
             /\ cd_hi[i - 2] = c[at(i) + 2] /\ cd_hi[i] = c[at(i) + 3]
  <2>1. i - 2 \in I /\ (i - 2) % 4 = 0 /\ at(i - 2) = at(i) BY <1>3, <1>7
  <2> QED BY <1>3, <1>4, <1>7, <2>1
<1>8. ASSUME NEW i \in I, i % 4 = 3
      PROVE  /\ cd_lo[i - 2] = d[at(i)] /\ cd_lo[i] = d[at(i) + 1]
             /\ cd_hi[i - 2] = d[at(i) + 2] /\ cd_hi[i] = d[at(i) + 3]
  <2>1. i - 2 \in I /\ (i - 2) % 4 = 1 /\ at(i - 2) = at(i) BY <1>3, <1>8
  <2> QED BY <1>3, <1>4, <1>8, <2>1
<1>9. /\ \A p \in Quad : DOMAIN Interleaved(vecs, first)[p] = I
      /\ \A i \in I :
            /\ Interleaved(vecs, first)[0][i] = IF i % 4 < 2 THEN ab_lo[i] ELSE cd_lo[i - 2]
            /\ Interleaved(vecs, first)[1][i] = IF i % 4 < 2 THEN ab_lo[i + 2] ELSE cd_lo[i]
            /\ Interleaved(vecs, first)[2][i] = IF i % 4 < 2 THEN ab_hi[i] ELSE cd_hi[i - 2]
            /\ Interleaved(vecs, first)[3][i] = IF i % 4 < 2 THEN ab_hi[i + 2] ELSE cd_hi[i]
  BY <1>1, <1>4 DEF unpacklo_epi64, unpackhi_epi64, Quad
<1> DEFINE x == Interleaved(vecs, first)
<1> HIDE DEF x
<1>10. ASSUME NEW i \in I
       PROVE  /\ x[0][i] = vecs[first + (i % 4)][at(i)]
              /\ x[1][i] = vecs[first + (i % 4)][at(i) + 1]
              /\ x[2][i] = vecs[first + (i % 4)][at(i) + 2]
              /\ x[3][i] = vecs[first + (i % 4)][at(i) + 3]
  <2>1. CASE i % 4 = 0
    <3>1. vecs[first + (i % 4)] = a BY <2>1 DEF a
    <3> QED BY <1>5, <1>9, <2>1, <3>1 DEF x
  <2>2. CASE i % 4 = 1
    <3>1. vecs[first + (i % 4)] = b BY <2>2 DEF b
    <3> QED BY <1>6, <1>9, <2>2, <3>1 DEF x
  <2>3. CASE i % 4 = 2
    <3>1. vecs[first + (i % 4)] = c BY <2>3 DEF c
    <3> QED BY <1>7, <1>9, <2>3, <3>1 DEF x
  <2>4. CASE i % 4 = 3
    <3>1. vecs[first + (i % 4)] = d BY <2>4 DEF d
    <3> QED BY <1>8, <1>9, <2>4, <3>1 DEF x
  <2> QED BY <1>3, <2>1, <2>2, <2>3, <2>4
<1>11. ASSUME NEW i \in I PROVE x[q][i] = vecs[first + (i % 4)][at(i) + q]
  <2>1. at(i) + 0 = at(i) BY <1>3
  <2> QED BY <1>10, <2>1 DEF Quad
<1> QED BY <1>9, <1>11 DEF I, at, x, Place

LEMMA Transpose128 ==
    ASSUME NEW vecs, Square(4, vecs)
    PROVE  Transposed(4, transpose_vecs_128(vecs), vecs)
<1>1. ASSUME NEW v \in 0 .. 4 - 1
      PROVE  /\ DOMAIN Interleaved(vecs, 0)[v] = 0 .. 4 - 1
             /\ \A i \in 0 .. 4 - 1 : Interleaved(vecs, 0)[v][i] = Place(vecs, 0, v, i)
  BY InterleavedIs DEF Quad
<1>2. \A i, v \in 0 .. 4 - 1 : Place(vecs, 0, v, i) = vecs[i][v]
  <2>1. \A i, v \in 0 .. 4 - 1 : 0 + (i % 4) = i /\ 4 * (i \div 4) + v = v OBVIOUS
  <2> QED BY <2>1 DEF Place
<1> QED BY <1>1, <1>2 DEF Transposed, transpose_vecs_128

LEMMA TransposeNeon ==
    ASSUME NEW vecs, Square(4, vecs)
    PROVE  Transposed(4, transpose_vecs_neon(vecs), vecs)
<1> DEFINE rows01 == vtrnq_u32(vecs[0], vecs[1])
           rows23 == vtrnq_u32(vecs[2], vecs[3])
           t == transpose_vecs_neon(vecs)
<1>1. /\ \A i \in Quad : /\ rows01[0][i] = IF i % 2 = 0 THEN vecs[0][i + 0] ELSE vecs[1][i - 1 + 0]
                         /\ rows01[1][i] = IF i % 2 = 0 THEN vecs[0][i + 1] ELSE vecs[1][i - 1 + 1]
                         /\ rows23[0][i] = IF i % 2 = 0 THEN vecs[2][i + 0] ELSE vecs[3][i - 1 + 0]
                         /\ rows23[1][i] = IF i % 2 = 0 THEN vecs[2][i + 1] ELSE vecs[3][i - 1 + 1]
  BY DEF vtrnq_u32
<1>2. /\ rows01[0][0] = vecs[0][0] /\ rows01[0][1] = vecs[1][0]
      /\ rows01[0][2] = vecs[0][2] /\ rows01[0][3] = vecs[1][2]
      /\ rows01[1][0] = vecs[0][1] /\ rows01[1][1] = vecs[1][1]
      /\ rows01[1][2] = vecs[0][3] /\ rows01[1][3] = vecs[1][3]
      /\ rows23[0][0] = vecs[2][0] /\ rows23[0][1] = vecs[3][0]
      /\ rows23[0][2] = vecs[2][2] /\ rows23[0][3] = vecs[3][2]
      /\ rows23[1][0] = vecs[2][1] /\ rows23[1][1] = vecs[3][1]
      /\ rows23[1][2] = vecs[2][3] /\ rows23[1][3] = vecs[3][3]
  <2> HIDE DEF rows01, rows23
  <2> QED BY <1>1 DEF Quad
<1> HIDE DEF rows01, rows23
<1>3. t = [v \in Quad |-> IF v < 2
                          THEN [i \in Quad |-> IF i < 2 THEN rows01[v][i] ELSE rows23[v][i - 2]]
                          ELSE [i \in Quad |-> IF i < 2 THEN rows01[v - 2][i + 2] ELSE rows23[v - 2][i]]]
  BY DEF transpose_vecs_neon, rows01, rows23
<1>4. Quad = 0 .. 4 - 1 /\ \A i \in Quad : i = 0 \/ i = 1 \/ i = 2 \/ i = 3 BY DEF Quad
<1> HIDE DEF t
<1>5. \A v \in Quad : DOMAIN t[v] = Quad BY <1>3
<1>6. \A i \in Quad : /\ t[0][i] = IF i < 2 THEN rows01[0][i] ELSE rows23[0][i - 2]
                      /\ t[1][i] = IF i < 2 THEN rows01[1][i] ELSE rows23[1][i - 2]
                      /\ t[2][i] = IF i < 2 THEN rows01[0][i + 2] ELSE rows23[0][i]
                      /\ t[3][i] = IF i < 2 THEN rows01[1][i + 2] ELSE rows23[1][i]
  BY <1>3 DEF Quad
<1>7. \A i \in Quad : /\ t[0][i] = vecs[i][0] /\ t[1][i] = vecs[i][1]
                      /\ t[2][i] = vecs[i][2] /\ t[3][i] = vecs[i][3]
  BY <1>2, <1>4, <1>6
<1> QED BY <1>4, <1>5, <1>7 DEF Transposed, t

LEMMA Transpose256 ==
    ASSUME NEW vecs, Square(8, vecs)
    PROVE  Transposed(8, transpose_vecs_256(vecs), vecs)
<1> DEFINE I == 0 .. 8 - 1
           abcd == Interleaved(vecs, 0)
           efgh == Interleaved(vecs, 4)
           t == transpose_vecs_256(vecs)
<1>2. ASSUME NEW q \in Quad, NEW i \in I
      PROVE  /\ abcd[q][i] = vecs[0 + (i % 4)][4 * (i \div 4) + q]
             /\ efgh[q][i] = vecs[4 + (i % 4)][4 * (i \div 4) + q]
  <2>1. abcd[q][i] = Place(vecs, 0, q, i) BY InterleavedIs
  <2>2. efgh[q][i] = Place(vecs, 4, q, i) BY InterleavedIs
  <2> HIDE DEF abcd, efgh
  <2> QED BY <2>1, <2>2 DEF Place
<1> HIDE DEF abcd, efgh
<1>3. t = [v \in 0 .. 7 |-> IF v < 4 THEN permute2x128_lo(abcd[v], efgh[v])
                                     ELSE permute2x128_hi(abcd[v - 4], efgh[v - 4])]
  BY DEF transpose_vecs_256, abcd, efgh
<1>4. I = 0 .. 7 OBVIOUS
<1> HIDE DEF t, I
<1>5. \A v \in I : DOMAIN t[v] = I
  BY <1>3, <1>4 DEF permute2x128_lo, permute2x128_hi
<1>6. ASSUME NEW v \in I, NEW i \in I PROVE t[v][i] = vecs[i][v]
  <2>1. CASE v < 4 /\ i < 4
    <3>1. t[v][i] = abcd[v][i] BY <1>3, <1>4, <2>1 DEF permute2x128_lo
    <3>2. v \in Quad /\ 0 + (i % 4) = i /\ 4 * (i \div 4) + v = v BY <1>4, <2>1 DEF Quad
    <3> QED BY <1>2, <3>1, <3>2
  <2>2. CASE v < 4 /\ ~(i < 4)
    <3>1. t[v][i] = efgh[v][i - 4] BY <1>3, <1>4, <2>2 DEF permute2x128_lo
    <3>2. v \in Quad /\ i - 4 \in I /\ 4 + ((i - 4) % 4) = i /\ 4 * ((i - 4) \div 4) + v = v
      BY <1>4, <2>2 DEF Quad
    <3> QED BY <1>2, <3>1, <3>2
  <2>3. CASE ~(v < 4) /\ i < 4
    <3>1. t[v][i] = abcd[v - 4][i + 4] BY <1>3, <1>4, <2>3 DEF permute2x128_hi
    <3>2. /\ v - 4 \in Quad /\ i + 4 \in I
          /\ 0 + ((i + 4) % 4) = i /\ 4 * ((i + 4) \div 4) + (v - 4) = v
      BY <1>4, <2>3 DEF Quad
    <3> QED BY <1>2, <3>1, <3>2
  <2>4. CASE ~(v < 4) /\ ~(i < 4)
    <3>1. t[v][i] = efgh[v - 4][i] BY <1>3, <1>4, <2>4 DEF permute2x128_hi
    <3>2. v - 4 \in Quad /\ 4 + (i % 4) = i /\ 4 * (i \div 4) + (v - 4) = v
      BY <1>4, <2>4 DEF Quad
    <3> QED BY <1>2, <3>1, <3>2
  <2> QED BY <2>1, <2>2, <2>3, <2>4
<1> QED BY <1>5, <1>6 DEF Transposed, t, I

\* Eight of sixteen vectors: what the halves of transpose_vecs_512 are.
Halves(vecs, first) ==
    [v \in 0 .. 7 |->
        IF v < 4
        THEN unpack_lo_128(Interleaved(vecs, first)[v], Interleaved(vecs, first + 4)[v])
        ELSE unpack_hi_128(Interleaved(vecs, first)[v - 4], Interleaved(vecs, first + 4)[v - 4])]

LEMMA HalvesAre ==
    ASSUME NEW vecs, Square(16, vecs), NEW first \in {0, 8},
           NEW v \in 0 .. 7, NEW i \in 0 .. 15
    PROVE  Halves(vecs, first)[v][i]
             = vecs[first + 4 * (i \div 8) + (i % 4)][8 * ((i \div 4) % 2) + v]
<1> DEFINE I == 0 .. 16 - 1
           lower == Interleaved(vecs, first)
           upper == Interleaved(vecs, first + 4)
           from(odd) == 8 * ((i \div 4) % 2) + 4 * odd + (i % 4)
           h == Halves(vecs, first)
<1>2. ASSUME NEW q \in Quad, NEW j \in I
      PROVE  /\ lower[q][j] = vecs[first + (j % 4)][4 * (j \div 4) + q]
             /\ upper[q][j] = vecs[(first + 4) + (j % 4)][4 * (j \div 4) + q]
  <2> /\ first \in Nat /\ first + 4 \in Nat
      /\ first + 2 <= 16 - 1 /\ (first + 4) + 2 <= 16 - 1
    OBVIOUS
  <2>1. lower[q][j] = Place(vecs, first, q, j) BY InterleavedIs
  <2>2. upper[q][j] = Place(vecs, first + 4, q, j) BY InterleavedIs
  <2> HIDE DEF lower, upper
  <2> QED BY <2>1, <2>2 DEF Place
<1> HIDE DEF lower, upper
<1>3. h[v] = IF v < 4 THEN unpack_lo_128(lower[v], upper[v])
                      ELSE unpack_hi_128(lower[v - 4], upper[v - 4])
  BY DEF Halves, lower, upper
<1> HIDE DEF h
<1>4. /\ from(0) \in I /\ from(1) \in I
      /\ from(0) % 4 = i % 4 /\ from(1) % 4 = i % 4
      /\ v < 4 => 4 * (from(0) \div 4) + v = 8 * ((i \div 4) % 2) + v
      /\ v >= 4 => 4 * (from(1) \div 4) + (v - 4) = 8 * ((i \div 4) % 2) + v
      /\ i < 8 => first + 4 * (i \div 8) + (i % 4) = first + (i % 4)
      /\ i >= 8 => first + 4 * (i \div 8) + (i % 4) = (first + 4) + (i % 4)
  OBVIOUS
<1> DEFINE place == vecs[first + 4 * (i \div 8) + (i % 4)][8 * ((i \div 4) % 2) + v]
<1>5. CASE v < 4
  <2>1. h[v][i] = IF i < 8 THEN lower[v][from(0)] ELSE upper[v][from(0)]
    BY <1>3, <1>5 DEF unpack_lo_128, EveryOther
  <2>2. v \in Quad BY <1>5 DEF Quad
  <2> HIDE DEF from
  <2>3. lower[v][from(0)] = vecs[first + (i % 4)][8 * ((i \div 4) % 2) + v]
    BY <1>2, <1>4, <1>5, <2>2
  <2>4. upper[v][from(0)] = vecs[(first + 4) + (i % 4)][8 * ((i \div 4) % 2) + v]
    BY <1>2, <1>4, <1>5, <2>2
  <2>5. i < 8 \/ i >= 8 OBVIOUS
  <2>6. h[v][i] = place BY <1>4, <2>1, <2>3, <2>4, <2>5
  <2> QED BY <2>6 DEF h
<1>6. CASE v >= 4
  <2>1. ~(v < 4) /\ v - 4 \in Quad BY <1>6 DEF Quad
  <2>2. h[v][i] = IF i < 8 THEN lower[v - 4][from(1)] ELSE upper[v - 4][from(1)]
    BY <1>3, <2>1 DEF unpack_hi_128, EveryOther
  <2> HIDE DEF from
  <2>3. h[v][i] = place BY <1>2, <1>4, <1>6, <2>1, <2>2
  <2> QED BY <2>3 DEF h
<1> QED BY <1>5, <1>6

LEMMA Transpose512 ==
    ASSUME NEW vecs, Square(16, vecs)
    PROVE  Transposed(16, transpose_vecs_512(vecs), vecs)
<1> DEFINE I == 0 .. 16 - 1
           lower == Halves(vecs, 0)
           upper == Halves(vecs, 8)
           t == transpose_vecs_512(vecs)
           from(i, odd) == 8 * ((i \div 4) % 2) + 4 * odd + (i % 4)
<1>1. ASSUME NEW v \in 0 .. 7, NEW i \in I
      PROVE  /\ lower[v][i] = vecs[0 + 4 * (i \div 8) + (i % 4)][8 * ((i \div 4) % 2) + v]
             /\ upper[v][i] = vecs[8 + 4 * (i \div 8) + (i % 4)][8 * ((i \div 4) % 2) + v]
  <2>1. i \in 0 .. 15 OBVIOUS
  <2> QED BY <2>1, HalvesAre
<1>2. t = [v \in 0 .. 15 |-> IF v < 8 THEN unpack_lo_128(lower[v], upper[v])
                                      ELSE unpack_hi_128(lower[v - 8], upper[v - 8])]
  BY DEF transpose_vecs_512, Halves
<1>3. I = 0 .. 15 OBVIOUS
<1> HIDE DEF t, I, lower, upper
<1>4. \A v \in I : DOMAIN t[v] = I
  BY <1>2, <1>3 DEF unpack_lo_128, unpack_hi_128, EveryOther
<1>5. ASSUME NEW v \in I, NEW i \in I PROVE t[v][i] = vecs[i][v]
  <2>1. /\ from(i, 0) \in I /\ from(i, 1) \in I
        /\ from(i, 0) % 4 = i % 4 /\ from(i, 1) % 4 = i % 4
        /\ from(i, 0) \div 8 = (i \div 4) % 2 /\ from(i, 1) \div 8 = (i \div 4) % 2
        /\ (from(i, 0) \div 4) % 2 = 0 /\ (from(i, 1) \div 4) % 2 = 1
        /\ i < 8 => 0 + 4 * ((i \div 4) % 2) + (i % 4) = i
        /\ i >= 8 => 8 + 4 * ((i \div 4) % 2) + (i % 4) = i
    BY <1>3
  <2>2. CASE v < 8
    <3>1. t[v][i] = IF i < 8 THEN lower[v][from(i, 0)] ELSE upper[v][from(i, 0)]
      BY <1>2, <1>3, <2>2 DEF unpack_lo_128, EveryOther
    <3>2. v \in 0 .. 7 /\ 8 * 0 + v = v BY <1>3, <2>2
    <3> HIDE DEF from
    <3>3. /\ lower[v][from(i, 0)] = vecs[0 + 4 * ((i \div 4) % 2) + (i % 4)][v]
          /\ upper[v][from(i, 0)] = vecs[8 + 4 * ((i \div 4) % 2) + (i % 4)][v]
      <4> DEFINE j == from(i, 0)
      <4>1. j \in I /\ j % 4 = i % 4 /\ j \div 8 = (i \div 4) % 2 /\ (j \div 4) % 2 = 0 BY <2>1
      <4> HIDE DEF j
      <4>2. lower[v][j] = vecs[0 + 4 * (j \div 8) + (j % 4)][8 * ((j \div 4) % 2) + v]
        BY <1>1, <3>2, <4>1
      <4>3. upper[v][j] = vecs[8 + 4 * (j \div 8) + (j % 4)][8 * ((j \div 4) % 2) + v]
        BY <1>1, <3>2, <4>1
      <4> QED BY <3>2, <4>1, <4>2, <4>3 DEF j
    <3>4. i < 8 \/ i >= 8 BY <1>3
    <3> QED BY <1>3, <2>1, <3>1, <3>3, <3>4
  <2>3. CASE ~(v < 8)
    <3>1. t[v][i] = IF i < 8 THEN lower[v - 8][from(i, 1)] ELSE upper[v - 8][from(i, 1)]
      BY <1>2, <1>3, <2>3 DEF unpack_hi_128, EveryOther
    <3>2. v - 8 \in 0 .. 7 /\ 8 * 1 + (v - 8) = v BY <1>3, <2>3
    <3> HIDE DEF from
    <3>3. /\ lower[v - 8][from(i, 1)] = vecs[0 + 4 * ((i \div 4) % 2) + (i % 4)][v]
          /\ upper[v - 8][from(i, 1)] = vecs[8 + 4 * ((i \div 4) % 2) + (i % 4)][v]
      <4> DEFINE u == v - 8
                 j == from(i, 1)
      <4>1. u \in 0 .. 7 /\ j \in I /\ 8 * 1 + u = v BY <2>1, <3>2
      <4>2. j % 4 = i % 4 /\ j \div 8 = (i \div 4) % 2 /\ (j \div 4) % 2 = 1 BY <2>1
      <4> HIDE DEF u, j
      <4>3. lower[u][j] = vecs[0 + 4 * (j \div 8) + (j % 4)][8 * ((j \div 4) % 2) + u]
        BY <1>1, <4>1
      <4>4. upper[u][j] = vecs[8 + 4 * (j \div 8) + (j % 4)][8 * ((j \div 4) % 2) + u]
        BY <1>1, <4>1
      <4> QED BY <4>1, <4>2, <4>3, <4>4 DEF u, j
    <3>4. i < 8 \/ i >= 8 BY <1>3
    <3> QED BY <1>3, <2>1, <3>1, <3>3, <3>4
  <2> QED BY <2>2, <2>3
<1> QED BY <1>4, <1>5 DEF Transposed, t, I

\* The groups of n vectors that transpose_msg_vecs and Stored transpose.
LoadGroup(n, k) == [v \in 0 .. n - 1 |-> [i \in 0 .. n - 1 |-> <<v, n * k + i>>]]
StoreGroup(n, count, k) ==
    [v \in 0 .. n - 1 |-> [i \in 0 .. n - 1 |->
        IF n * k + v < count THEN <<i, n * k + v>> ELSE <<>>]]

LEMMA GroupsSquare ==
    ASSUME NEW n, NEW count, NEW k
    PROVE  Square(n, LoadGroup(n, k)) /\ Square(n, StoreGroup(n, count, k))
BY DEF Square, LoadGroup, StoreGroup

LEMMA WordOfGroup ==
    ASSUME NEW n \in {4, 8, 16}, NEW w \in 0 .. 15
    PROVE  w % n \in 0 .. n - 1 /\ w \div n \in 0 .. 3 /\ n * (w \div n) + (w % n) = w
<1>1. CASE n = 4 BY <1>1
<1>2. CASE n = 8 BY <1>2
<1>3. CASE n = 16 BY <1>3
<1> QED BY <1>1, <1>2, <1>3

\* The groups t are the transposed groups of the words loaded, or stored.
LoadsAll(n, t) == \A k \in 0 .. 3 : Transposed(n, t[k], LoadGroup(n, k))
StoresAll(n, count, t) == \A k \in 0 .. 3 : Transposed(n, t[k], StoreGroup(n, count, k))

\* The place of word w among the transposed groups t.
LoadedWord(n, t, w) == t[w \div n][w % n]
StoredWord(n, t, lane, w) == t[w \div n][lane][w % n]

\* Every word is where a transposition puts it.
WordsLoaded(n, t) ==
    \A w \in 0 .. 15 : /\ DOMAIN LoadedWord(n, t, w) = 0 .. n - 1
                       /\ \A i \in 0 .. n - 1 : LoadedWord(n, t, w)[i] = <<i, w>>
WordsStored(n, count, t) ==
    \A lane \in 0 .. n - 1 : \A w \in 0 .. count - 1 : StoredWord(n, t, lane, w) = <<lane, w>>

LEMMA LoadedRight ==
    ASSUME NEW n \in {4, 8, 16}, NEW t, LoadsAll(n, t)
    PROVE  WordsLoaded(n, t)
<1> SUFFICES \A w \in 0 .. 15 :
                /\ DOMAIN LoadedWord(n, t, w) = 0 .. n - 1
                /\ \A i \in 0 .. n - 1 : LoadedWord(n, t, w)[i] = <<i, w>>
  BY DEF WordsLoaded
<1> TAKE w \in 0 .. 15
<1> DEFINE k == w \div n
           v == w % n
<1>1. k \in 0 .. 3 /\ v \in 0 .. n - 1 /\ n * k + v = w BY WordOfGroup
<1> HIDE DEF k, v
<1>2. Transposed(n, t[k], LoadGroup(n, k)) BY <1>1 DEF LoadsAll
<1>3. /\ DOMAIN t[k][v] = 0 .. n - 1
      /\ \A i \in 0 .. n - 1 : t[k][v][i] = LoadGroup(n, k)[i][v]
  BY <1>1, <1>2 DEF Transposed
<1>4. \A i \in 0 .. n - 1 : LoadGroup(n, k)[i][v] = <<i, n * k + v>> BY <1>1 DEF LoadGroup
<1>5. \A i \in 0 .. n - 1 : t[k][v][i] = <<i, w>> BY <1>1, <1>3, <1>4
<1> QED BY <1>3, <1>5 DEF k, v, LoadedWord

LEMMA StoredRight ==
    ASSUME NEW n \in {4, 8, 16}, NEW count \in {8, 16}, NEW t, StoresAll(n, count, t)
    PROVE  WordsStored(n, count, t)
<1> SUFFICES \A lane \in 0 .. n - 1 : \A w \in 0 .. count - 1 :
                StoredWord(n, t, lane, w) = <<lane, w>>
  BY DEF WordsStored
<1> TAKE lane \in 0 .. n - 1
<1> TAKE w \in 0 .. count - 1
<1> DEFINE k == w \div n
           v == w % n
<1>1. w \in 0 .. 15 /\ w < count OBVIOUS
<1>2. k \in 0 .. 3 /\ v \in 0 .. n - 1 /\ n * k + v = w BY <1>1, WordOfGroup
<1> HIDE DEF k, v
<1>3. Transposed(n, t[k], StoreGroup(n, count, k)) BY <1>2 DEF StoresAll
<1>4. t[k][lane][v] = StoreGroup(n, count, k)[v][lane] BY <1>2, <1>3 DEF Transposed
<1>5. StoreGroup(n, count, k)[v][lane] = IF n * k + v < count THEN <<lane, n * k + v>> ELSE <<>>
  BY <1>2 DEF StoreGroup
<1>6. t[k][lane][v] = <<lane, w>> BY <1>1, <1>2, <1>4, <1>5
<1> QED BY <1>6 DEF k, v, StoredWord

\* What RoundsAgree says of the lane code.
CodeRight(code) ==
    /\ code.mixing = Mixing
    /\ \A w \in DOMAIN code.loaded :
          \A i \in DOMAIN code.loaded[w] : code.loaded[w][i] = <<i, w>>
    /\ \A i \in DOMAIN code.stored :
          \A w \in DOMAIN code.stored[i] : code.stored[i][w] = <<i, w>>

\* What is loaded and stored by way of the transposed groups load and store.
LoadedBy(n, load) == [w \in 0 .. 15 |-> LoadedWord(n, load, w)]
StoredBy(n, count, store) ==
    [lane \in 0 .. n - 1 |-> [w \in 0 .. count - 1 |-> StoredWord(n, store, lane, w)]]

HashBy(n, load, store) ==
    [loaded |-> LoadedBy(n, load), mixing |-> round_fn, stored |-> StoredBy(n, 8, store)]
XofBy(n, store) ==
    [loaded |-> [w \in 0 .. 15 |-> [i \in 0 .. n - 1 |-> <<i, w>>]], mixing |-> round_fn,
     stored |-> StoredBy(n, 16, store)]

LEMMA StoredByRight ==
    ASSUME NEW n \in {4, 8, 16}, NEW count \in {8, 16}, NEW store,
           StoresAll(n, count, store)
    PROVE  \A i \in DOMAIN StoredBy(n, count, store) :
              \A w \in DOMAIN StoredBy(n, count, store)[i] :
                 StoredBy(n, count, store)[i][w] = <<i, w>>
<1>1. WordsStored(n, count, store) BY StoredRight
<1> QED BY <1>1 DEF StoredBy, WordsStored

LEMMA HashByRight ==
    ASSUME NEW n \in {4, 8, 16}, NEW load, NEW store,
           LoadsAll(n, load), StoresAll(n, 8, store)
    PROVE  CodeRight(HashBy(n, load, store))
<1>1. WordsLoaded(n, load) BY LoadedRight
<1>2. \A w \in DOMAIN LoadedBy(n, load) :
         \A i \in DOMAIN LoadedBy(n, load)[w] : LoadedBy(n, load)[w][i] = <<i, w>>
  BY <1>1 DEF LoadedBy, WordsLoaded
<1>3. \A i \in DOMAIN StoredBy(n, 8, store) :
         \A w \in DOMAIN StoredBy(n, 8, store)[i] : StoredBy(n, 8, store)[i][w] = <<i, w>>
  BY StoredByRight
<1> QED BY <1>2, <1>3, MixingIs DEF CodeRight, HashBy

LEMMA XofByRight ==
    ASSUME NEW n \in {4, 8, 16}, NEW store, StoresAll(n, 16, store)
    PROVE  CodeRight(XofBy(n, store))
<1> DEFINE loaded == [w \in 0 .. 15 |-> [i \in 0 .. n - 1 |-> <<i, w>>]]
<1>1. \A w \in DOMAIN loaded : \A i \in DOMAIN loaded[w] : loaded[w][i] = <<i, w>> OBVIOUS
<1> HIDE DEF loaded
<1>2. XofBy(n, store) = [loaded |-> loaded, mixing |-> round_fn, stored |-> StoredBy(n, 16, store)]
  BY DEF XofBy, loaded
<1>3. \A i \in DOMAIN StoredBy(n, 16, store) :
         \A w \in DOMAIN StoredBy(n, 16, store)[i] : StoredBy(n, 16, store)[i][w] = <<i, w>>
  BY StoredByRight
<1> QED BY <1>1, <1>2, <1>3, MixingIs DEF CodeRight

LEMMA Codes128 ==
    /\ CodeRight(hash4_sse2)
    /\ CodeRight(hash4_sse41)
    /\ CodeRight(hash4_avx512)
    /\ CodeRight(xof4_avx512)
<1> DEFINE load == [k \in 0 .. 3 |-> transpose_vecs_128(LoadGroup(4, k))]
           store(count) == [k \in 0 .. 3 |-> transpose_vecs_128(StoreGroup(4, count, k))]
<1>1. LoadsAll(4, load) /\ StoresAll(4, 8, store(8)) /\ StoresAll(4, 16, store(16))
  BY GroupsSquare, Transpose128 DEF LoadsAll, StoresAll
<1>2. \A w \in 0 .. 15 : w \div 4 \in 0 .. 3 OBVIOUS
<1>3. transpose_msg_vecs(4, transpose_vecs_128) = LoadedBy(4, load)
  BY <1>2 DEF transpose_msg_vecs, LoadedBy, LoadedWord, LoadGroup
<1>4. ASSUME NEW count \in {8, 16}
      PROVE  Stored(4, count, transpose_vecs_128) = StoredBy(4, count, store(count))
  <2>1. \A w \in 0 .. count - 1 : w \div 4 \in 0 .. 3 BY <1>2
  <2> QED BY <2>1 DEF Stored, StoredBy, StoredWord, StoreGroup
<1>5. Hash(4, transpose_vecs_128) = HashBy(4, load, store(8)) BY <1>3, <1>4 DEF Hash, HashBy
<1>6. Xof(4, transpose_vecs_128) = XofBy(4, store(16)) BY <1>4 DEF Xof, XofBy
<1> HIDE DEF load, store
<1>7. CodeRight(HashBy(4, load, store(8))) /\ CodeRight(XofBy(4, store(16)))
  BY <1>1, HashByRight, XofByRight
<1> QED BY <1>5, <1>6, <1>7 DEF hash4_sse2, hash4_sse41, hash4_avx512, xof4_avx512

LEMMA CodesNeon ==
    /\ CodeRight(hash4_neon)
<1> DEFINE load == [k \in 0 .. 3 |-> transpose_vecs_neon(LoadGroup(4, k))]
           store(count) == [k \in 0 .. 3 |-> transpose_vecs_neon(StoreGroup(4, count, k))]
<1>1. LoadsAll(4, load) /\ StoresAll(4, 8, store(8)) /\ StoresAll(4, 16, store(16))
  BY GroupsSquare, TransposeNeon DEF LoadsAll, StoresAll
<1>2. \A w \in 0 .. 15 : w \div 4 \in 0 .. 3 OBVIOUS
<1>3. transpose_msg_vecs(4, transpose_vecs_neon) = LoadedBy(4, load)
  BY <1>2 DEF transpose_msg_vecs, LoadedBy, LoadedWord, LoadGroup
<1>4. ASSUME NEW count \in {8, 16}
      PROVE  Stored(4, count, transpose_vecs_neon) = StoredBy(4, count, store(count))
  <2>1. \A w \in 0 .. count - 1 : w \div 4 \in 0 .. 3 BY <1>2
  <2> QED BY <2>1 DEF Stored, StoredBy, StoredWord, StoreGroup
<1>5. Hash(4, transpose_vecs_neon) = HashBy(4, load, store(8)) BY <1>3, <1>4 DEF Hash, HashBy
<1> HIDE DEF load, store
<1>6. CodeRight(HashBy(4, load, store(8))) BY <1>1, HashByRight
<1> QED BY <1>5, <1>6 DEF hash4_neon

LEMMA Codes256 ==
    /\ CodeRight(hash8_avx2)
    /\ CodeRight(hash8_avx512)
    /\ CodeRight(xof8_avx512)
<1> DEFINE load == [k \in 0 .. 3 |-> transpose_vecs_256(LoadGroup(8, k))]
           store(count) == [k \in 0 .. 3 |-> transpose_vecs_256(StoreGroup(8, count, k))]
<1>1. LoadsAll(8, load) /\ StoresAll(8, 8, store(8)) /\ StoresAll(8, 16, store(16))
  BY GroupsSquare, Transpose256 DEF LoadsAll, StoresAll
<1>2. \A w \in 0 .. 15 : w \div 8 \in 0 .. 3 OBVIOUS
<1>3. transpose_msg_vecs(8, transpose_vecs_256) = LoadedBy(8, load)
  BY <1>2 DEF transpose_msg_vecs, LoadedBy, LoadedWord, LoadGroup
<1>4. ASSUME NEW count \in {8, 16}
      PROVE  Stored(8, count, transpose_vecs_256) = StoredBy(8, count, store(count))
  <2>1. \A w \in 0 .. count - 1 : w \div 8 \in 0 .. 3 BY <1>2
  <2> QED BY <2>1 DEF Stored, StoredBy, StoredWord, StoreGroup
<1>5. Hash(8, transpose_vecs_256) = HashBy(8, load, store(8)) BY <1>3, <1>4 DEF Hash, HashBy
<1>6. Xof(8, transpose_vecs_256) = XofBy(8, store(16)) BY <1>4 DEF Xof, XofBy
<1> HIDE DEF load, store
<1>7. CodeRight(HashBy(8, load, store(8))) /\ CodeRight(XofBy(8, store(16)))
  BY <1>1, HashByRight, XofByRight
<1> QED BY <1>5, <1>6, <1>7 DEF hash8_avx2, hash8_avx512, xof8_avx512

LEMMA Codes512 ==
    /\ CodeRight(hash16_avx512)
    /\ CodeRight(xof16_avx512)
<1> DEFINE load == [k \in 0 .. 3 |-> transpose_vecs_512(LoadGroup(16, k))]
           store(count) == [k \in 0 .. 3 |-> transpose_vecs_512(StoreGroup(16, count, k))]
<1>1. LoadsAll(16, load) /\ StoresAll(16, 8, store(8)) /\ StoresAll(16, 16, store(16))
  BY GroupsSquare, Transpose512 DEF LoadsAll, StoresAll
<1>2. \A w \in 0 .. 15 : w \div 16 \in 0 .. 3 OBVIOUS
<1>3. transpose_msg_vecs(16, transpose_vecs_512) = LoadedBy(16, load)
  BY <1>2 DEF transpose_msg_vecs, LoadedBy, LoadedWord, LoadGroup
<1>4. ASSUME NEW count \in {8, 16}
      PROVE  Stored(16, count, transpose_vecs_512) = StoredBy(16, count, store(count))
  <2>1. \A w \in 0 .. count - 1 : w \div 16 \in 0 .. 3 BY <1>2
  <2> QED BY <2>1 DEF Stored, StoredBy, StoredWord, StoreGroup
<1>5. Hash(16, transpose_vecs_512) = HashBy(16, load, store(8)) BY <1>3, <1>4 DEF Hash, HashBy
<1>6. Xof(16, transpose_vecs_512) = XofBy(16, store(16)) BY <1>4 DEF Xof, XofBy
<1> HIDE DEF load, store
<1>7. CodeRight(HashBy(16, load, store(8))) /\ CodeRight(XofBy(16, store(16)))
  BY <1>1, HashByRight, XofByRight
<1> QED BY <1>5, <1>6, <1>7 DEF hash16_avx512, xof16_avx512

\* Whatever the processor has, the C code chosen for it mixes as it should and its
\* lanes are right.
LEMMA CodeOfProcessor ==
    ASSUME NEW f
    PROVE  /\ blake3_compress_in_place(f) = Mixing
           /\ \A code \in LaneCode(f) : CodeRight(code)
<1>1. blake3_compress_in_place(f) = Mixing
  BY MixingIs, PortableIs, RowsAre DEF blake3_compress_in_place
<1>2. \A code \in LaneCode(f) :
         code \in {hash4_sse2, hash4_sse41, hash8_avx2, hash4_avx512, hash8_avx512, hash16_avx512,
                   hash4_neon, xof4_avx512, xof8_avx512, xof16_avx512}
  BY DEF LaneCode
<1> QED BY <1>1, <1>2, Codes128, CodesNeon, Codes256, Codes512

\* The C code for each instruction set, called by itself: whichever of it the features
\* choose (blake3_dispatch.c), its rounds mix the words that the specification of BLAKE3
\* mixes, in the same order, and its lanes load and store every word for the input it
\* belongs to.
THEOREM RoundsRight == CallsSpec => []RoundsAgree
<1>1. CallsInit => RoundsAgree BY DEF CallsInit, NoCall, RoundsAgree
<1>2. ASSUME RoundsAgree, [DirectCall \/ Forget]_calls_vars
      PROVE  RoundsAgree'
  <2>1. CASE call'.fn \notin {"compress", "lanes"} BY <2>1 DEF RoundsAgree
  <2>2. CASE CallCompress
    <3>1. call'.fn = "compress" /\ call'.mixing = blake3_compress_in_place(features)
      BY <2>2 DEF CallCompress, Call
    <3> QED BY <3>1, CodeOfProcessor DEF RoundsAgree
  <2>3. CASE CallLanes
    <3>1. PICK code \in LaneCode(features) : call' = [fn |-> "lanes", code |-> code]
      BY <2>3 DEF CallLanes, Call
    <3>2. CodeRight(code) BY CodeOfProcessor
    <3>3. call'.fn = "lanes" /\ call'.code = code BY <3>1
    <3> QED BY <3>2, <3>3 DEF RoundsAgree, CodeRight
  <2>4. CASE UNCHANGED calls_vars BY <1>2, <2>4 DEF RoundsAgree, calls_vars
  <2>5. CASE Forget BY <2>1, <2>5 DEF Forget, NoCall
  <2>6. ASSUME NEW n, NEW counter, NEW increment_counter,
               CallHashMany(n, counter, increment_counter)
        PROVE  RoundsAgree'
    BY <2>1, <2>6 DEF CallHashMany, Call
  <2>7. ASSUME NEW n, NEW counter, CallXofMany(n, counter)
        PROVE  RoundsAgree'
    BY <2>1, <2>7 DEF CallXofMany, Call
  <2> QED BY <1>2, <2>2, <2>3, <2>4, <2>5, <2>6, <2>7 DEF DirectCall
<1> QED BY <1>1, <1>2, PTL DEF CallsSpec

-----------------------------------------------------------------------------
(* Sequences of known length.                                              *)

IsSeq(s, n) == n \in Nat /\ s = [i \in 1 .. n |-> s[i]]

LEMMA SeqIn ==
    ASSUME NEW s, NEW n, IsSeq(s, n), NEW S, \A i \in 1 .. n : s[i] \in S
    PROVE  s \in Seq(S) /\ Len(s) = n
<1>1. n \in Nat /\ s = [i \in 1 .. n |-> s[i]] BY DEF IsSeq
<1>2. s \in [1 .. n -> S] BY <1>1
<1> QED BY <1>1, <1>2

LEMMA SeqLen ==
    ASSUME NEW s, NEW n, IsSeq(s, n)
    PROVE  n \in Nat /\ Len(s) = n /\ DOMAIN s = 1 .. n
<1> DEFINE S == {s[i] : i \in 1 .. n}
<1>1. \A i \in 1 .. n : s[i] \in S OBVIOUS
<1> HIDE DEF S
<1>2. n \in Nat /\ s = [i \in 1 .. n |-> s[i]] BY DEF IsSeq
<1>3. DOMAIN s = 1 .. n BY <1>2
<1> QED BY <1>1, <1>2, <1>3, SeqIn

LEMMA SeqSame ==
    ASSUME NEW s, NEW t, NEW n, IsSeq(s, n), IsSeq(t, n), \A i \in 1 .. n : s[i] = t[i]
    PROVE  s = t
BY DEF IsSeq

LEMMA SeqOf ==
    ASSUME NEW S, NEW s \in Seq(S)
    PROVE  IsSeq(s, Len(s))
BY LenProperties DEF IsSeq

Concat(s, t) == s \o t

LEMMA ConcatIs ==
    ASSUME NEW s, NEW m, IsSeq(s, m), NEW t, NEW n, IsSeq(t, n)
    PROVE  /\ IsSeq(Concat(s, t), m + n)
           /\ \A i \in 1 .. m : Concat(s, t)[i] = s[i]
           /\ \A i \in 1 .. n : Concat(s, t)[m + i] = t[i]
<1> DEFINE S == {s[i] : i \in 1 .. m} \cup {t[i] : i \in 1 .. n}
<1>1. \A i \in 1 .. m : s[i] \in S OBVIOUS
<1>2. \A i \in 1 .. n : t[i] \in S OBVIOUS
<1> HIDE DEF S
<1>3. s \in Seq(S) /\ Len(s) = m BY <1>1, SeqIn
<1>4. t \in Seq(S) /\ Len(t) = n BY <1>2, SeqIn
<1>5. m \in Nat /\ n \in Nat BY SeqLen
<1>6. /\ s \o t \in Seq(S) /\ Len(s \o t) = m + n
      /\ \A i \in 1 .. m + n : (s \o t)[i] = IF i <= m THEN s[i] ELSE t[i - m]
  BY <1>3, <1>4, ConcatProperties
<1>7. IsSeq(s \o t, m + n) BY <1>6, SeqOf
<1>8. ASSUME NEW i \in 1 .. m PROVE (s \o t)[i] = s[i] BY <1>5, <1>6
<1>9. ASSUME NEW i \in 1 .. n PROVE (s \o t)[m + i] = t[i]
  <2>1. m + i \in 1 .. m + n /\ ~(m + i <= m) /\ (m + i) - m = i BY <1>5
  <2> QED BY <1>6, <2>1
<1> QED BY <1>7, <1>8, <1>9 DEF Concat

LEMMA SubSeqIs ==
    ASSUME NEW s, NEW a \in Int, NEW b \in Int, NEW n \in Nat, b + 1 = a + n
    PROVE  /\ IsSeq(SubSeq(s, a, b), n)
           /\ \A i \in 1 .. n : SubSeq(s, a, b)[i] = s[(a + i) - 1]
<1> DEFINE S == {s[i] : i \in a .. b}
<1>1. \A i \in a .. b : s[i] \in S OBVIOUS
<1>2. (IF a <= b THEN (b - a) + 1 ELSE 0) = n /\ (b - a) + 1 = n OBVIOUS
<1>3. \A i \in 1 .. n : a + (i - 1) = (a + i) - 1 OBVIOUS
<1> HIDE DEF S
<1>4. /\ SubSeq(s, a, b) \in Seq(S) /\ Len(SubSeq(s, a, b)) = n
      /\ \A i \in 1 .. n : SubSeq(s, a, b)[i] = s[(a + i) - 1]
  BY <1>1, <1>2, <1>3, SubSeqProperties
<1>5. IsSeq(SubSeq(s, a, b), n) BY <1>4, SeqOf
<1> QED BY <1>4, <1>5

\* A value more on top.
With(s, n, e) == [i \in 1 .. n + 1 |-> IF i = n + 1 THEN e ELSE s[i]]

LEMMA AppendWith ==
    ASSUME NEW s, NEW n, IsSeq(s, n), NEW e
    PROVE  Append(s, e) = With(s, n, e)
<1> DEFINE S == {s[i] : i \in 1 .. n} \cup {e}
           x == Append(s, e)
<1>1. (\A i \in 1 .. n : s[i] \in S) /\ e \in S OBVIOUS
<1> HIDE DEF S
<1>2. s \in Seq(S) /\ Len(s) = n /\ n \in Nat BY <1>1, SeqIn, SeqLen
<1>3. /\ x \in Seq(S) /\ Len(x) = n + 1
      /\ \A i \in 1 .. n : x[i] = s[i]
      /\ x[n + 1] = e
  BY <1>1, <1>2, AppendProperties
<1> HIDE DEF x
<1>4. IsSeq(x, n + 1) BY <1>3, SeqOf
<1>5. \A i \in 1 .. n + 1 : x[i] = IF i = n + 1 THEN e ELSE s[i]
  <2>1. \A i \in 1 .. n + 1 : i # n + 1 => i \in 1 .. n BY <1>2
  <2> QED BY <1>3, <2>1
<1>6. x = With(s, n, e) BY <1>4, <1>5 DEF IsSeq, With
<1> QED BY <1>6 DEF x

LEMMA WithIs ==
    ASSUME NEW s, NEW n, IsSeq(s, n), NEW e
    PROVE  /\ IsSeq(With(s, n, e), n + 1)
           /\ \A i \in 1 .. n : With(s, n, e)[i] = s[i]
           /\ With(s, n, e)[n + 1] = e
<1>1. n \in Nat BY SeqLen
<1>2. IsSeq(With(s, n, e), n + 1) BY <1>1 DEF With, IsSeq
<1>3. /\ \A i \in 1 .. n : With(s, n, e)[i] = s[i]
      /\ With(s, n, e)[n + 1] = e
  BY <1>1 DEF With
<1> QED BY <1>2, <1>3

-----------------------------------------------------------------------------
(* Multiples and powers of two.                                            *)

Mult(m, a) == a % m = 0

LEMMA DivisionBy ==
    ASSUME NEW m \in Nat \ {0}, NEW q \in Nat, NEW r \in 0 .. (m - 1)
    PROVE  (q * m + r) \div m = q /\ (q * m + r) % m = r
<1> DEFINE n == q * m + r
           p == n \div m
<1>1. n \in Nat OBVIOUS
<1>2. p \in Int /\ n % m \in 0 .. (m - 1) /\ n = p * m + (n % m) BY <1>1
<1>3. p = q BY <1>2
<1>4. n % m = r
  <2> HIDE DEF p
  <2> QED BY <1>2, <1>3
<1> QED BY <1>3, <1>4

LEMMA PartsBy ==
    ASSUME NEW m \in Nat \ {0}, NEW a \in Nat
    PROVE  a \div m \in Nat /\ a % m \in 0 .. (m - 1) /\ a = (a \div m) * m + (a % m)
OBVIOUS

LEMMA MultIs ==
    ASSUME NEW m \in Nat \ {0}, NEW a \in Nat
    PROVE  Mult(m, a) <=> \E k \in Nat : a = m * k
<1>1. ASSUME Mult(m, a) PROVE \E k \in Nat : a = m * k
  <2>1. a \div m \in Nat /\ a = m * (a \div m) BY <1>1, PartsBy DEF Mult
  <2> QED BY <2>1
<1>2. ASSUME NEW k \in Nat, a = m * k PROVE Mult(m, a)
  <2>1. 0 \in 0 .. (m - 1) /\ k * m + 0 = a BY <1>2
  <2> QED BY <2>1, DivisionBy DEF Mult
<1> QED BY <1>1, <1>2

LEMMA MultSum ==
    ASSUME NEW m \in Nat \ {0}, NEW a \in Nat, NEW b \in Nat, Mult(m, a), Mult(m, b)
    PROVE  Mult(m, a + b) /\ (b <= a => Mult(m, a - b))
<1>1. PICK k \in Nat : a = m * k BY MultIs
<1>2. PICK l \in Nat : b = m * l BY MultIs
<1>3. a + b = m * (k + l) /\ k + l \in Nat BY <1>1, <1>2
<1>4. Mult(m, a + b) BY <1>3, MultIs
<1>5. ASSUME b <= a PROVE Mult(m, a - b)
  <2>1. m * l <= m * k BY <1>1, <1>2, <1>5
  <2>2. l <= k BY <2>1
  <2>3. a - b = m * (k - l) /\ k - l \in Nat /\ a - b \in Nat BY <1>1, <1>2, <2>2, <1>5
  <2> QED BY <2>3, MultIs
<1> QED BY <1>4, <1>5

\* A multiple below the number itself is zero.
LEMMA MultBelow ==
    ASSUME NEW m \in Nat \ {0}, NEW a \in Nat, Mult(m, a), a < m
    PROVE  a = 0
<1>1. PICK k \in Nat : a = m * k BY MultIs
<1>2. k < 1 BY <1>1
<1> QED BY <1>1, <1>2

LEMMA MultSelf ==
    ASSUME NEW m \in Nat \ {0}
    PROVE  Mult(m, 0) /\ Mult(m, m) /\ Mult(m, 2 * m)
<1>1. 0 = m * 0 /\ m = m * 1 /\ 2 * m = m * 2 /\ 2 * m \in Nat OBVIOUS
<1> QED BY <1>1, MultIs

LEMMA MultOfMult ==
    ASSUME NEW m \in Nat \ {0}, NEW b \in Nat \ {0}, NEW a \in Nat, Mult(m, b), Mult(b, a)
    PROVE  Mult(m, a)
<1>1. PICK k \in Nat : b = m * k BY MultIs
<1>2. PICK l \in Nat : a = b * l BY MultIs
<1>3. a = m * (k * l) /\ k * l \in Nat BY <1>1, <1>2
<1> QED BY <1>3, MultIs

LEMMA MultDouble ==
    ASSUME NEW m \in Nat \ {0}, NEW a \in Nat
    PROVE  Mult(m, a) <=> Mult(2 * m, 2 * a)
<1>1. 2 * m \in Nat \ {0} /\ 2 * a \in Nat OBVIOUS
<1>2. ASSUME NEW k \in Nat PROVE a = m * k <=> 2 * a = (2 * m) * k
  <2> DEFINE x == m * k
  <2>1. (2 * m) * k = 2 * x /\ x \in Nat OBVIOUS
  <2> HIDE DEF x
  <2>2. a = x <=> 2 * a = (2 * m) * k BY <2>1
  <2> QED BY <2>2 DEF x
<1>3. Mult(m, a) <=> \E k \in Nat : a = m * k BY MultIs
<1>4. Mult(2 * m, 2 * a) <=> \E k \in Nat : 2 * a = (2 * m) * k BY <1>1, MultIs
<1> QED BY <1>2, <1>3, <1>4

Powers == {p \in Nat : IsPower(p)}

LEMMA PowerIs ==
    ASSUME NEW p \in Nat
    PROVE  IsPower(p) <=> p > 0 /\ \A d \in Nat \ {0} : ~Mult(2 * d + 1, p)
<1>1. ASSUME NEW d \in Nat \ {0}, d > p, p > 0 PROVE ~Mult(2 * d + 1, p)
  <2>1. 2 * d + 1 \in Nat \ {0} /\ p < 2 * d + 1 BY <1>1
  <2> QED BY <1>1, <2>1, MultBelow
<1>2. IsPower(p) <=> p > 0 /\ \A d \in 1 .. p : ~Mult(2 * d + 1, p) BY DEF IsPower, Mult
<1>3. \A d \in 1 .. p : d \in Nat \ {0} OBVIOUS
<1>4. \A d \in Nat \ {0} : d > p \/ d \in 1 .. p OBVIOUS
<1> QED BY <1>1, <1>2, <1>3, <1>4

LEMMA PowerOne == 1 \in Powers
<1>1. ASSUME NEW d \in Nat \ {0} PROVE ~Mult(2 * d + 1, 1)
  <2>1. 2 * d + 1 \in Nat \ {0} /\ 1 < 2 * d + 1 OBVIOUS
  <2> QED BY <2>1, MultBelow
<1> QED BY <1>1, PowerIs DEF Powers

LEMMA PowerDouble ==
    ASSUME NEW h \in Nat
    PROVE  2 * h \in Powers <=> h \in Powers
<1>1. ASSUME NEW d \in Nat \ {0} PROVE Mult(2 * d + 1, 2 * h) <=> Mult(2 * d + 1, h)
  <2>1. 2 * d + 1 \in Nat \ {0} /\ 2 * h \in Nat OBVIOUS
  <2>2. ASSUME Mult(2 * d + 1, h) PROVE Mult(2 * d + 1, 2 * h)
    <3>1. h + h = 2 * h OBVIOUS
    <3> QED BY <2>1, <2>2, <3>1, MultSum
  <2>3. ASSUME Mult(2 * d + 1, 2 * h) PROVE Mult(2 * d + 1, h)
    <3>1. PICK k \in Nat : 2 * h = (2 * d + 1) * k BY <2>1, <2>3, MultIs
    <3> DEFINE x == d * k
    <3>2. x \in Nat /\ 2 * h = 2 * x + k BY <3>1
    <3> HIDE DEF x
    <3>3. k = 2 * (h - x) /\ h - x \in Nat BY <3>2
    <3>4. 2 * h = (2 * d + 1) * (2 * (h - x)) BY <3>1, <3>3
    <3> DEFINE y == h - x
    <3> HIDE DEF y
    <3>5. y \in Nat /\ 2 * h = (2 * d + 1) * (2 * y) BY <3>3, <3>4 DEF y
    <3>6. h = (2 * d + 1) * y BY <3>5
    <3> QED BY <2>1, <3>5, <3>6, MultIs
  <2> QED BY <2>2, <2>3
<1>2. 2 * h \in Nat /\ (2 * h > 0 <=> h > 0) OBVIOUS
<1>3. IsPower(h) <=> h > 0 /\ \A d \in Nat \ {0} : ~Mult(2 * d + 1, h) BY PowerIs
<1>4. IsPower(2 * h) <=> 2 * h > 0 /\ \A d \in Nat \ {0} : ~Mult(2 * d + 1, 2 * h)
  BY <1>2, PowerIs
<1> QED BY <1>1, <1>2, <1>3, <1>4 DEF Powers

LEMMA PowerHalf ==
    ASSUME NEW p \in Powers, p # 1
    PROVE  \E h \in Powers : p = 2 * h
<1>1. p \in Nat /\ IsPower(p) /\ p > 0 BY DEF Powers, IsPower
<1>2. PICK h \in Nat : p = 2 * h \/ p = 2 * h + 1 
  <2>1. p \div 2 \in Nat /\ p = 2 * (p \div 2) + (p % 2) /\ p % 2 \in {0, 1} BY <1>1
  <2> QED BY <2>1
<1>3. CASE p = 2 * h BY <1>3, PowerDouble
<1>4. CASE p = 2 * h + 1
  <2>1. h \in Nat \ {0} BY <1>4
  <2>2. Mult(2 * h + 1, p) BY <1>1, <1>4, MultSelf
  <2> QED BY <1>1, <2>1, <2>2, PowerIs
<1> QED BY <1>2, <1>3, <1>4

\* Powers are apart: a larger one is a multiple of the double.
LEMMA PowersApart ==
    ASSUME NEW p \in Powers, NEW q \in Powers, p < q
    PROVE  Mult(2 * p, q) /\ Mult(p, q) /\ 2 * p <= q
<1> DEFINE Wrong(x) == \E y \in Powers : x < y /\ ~Mult(2 * x, y)
           T == {x \in Powers : Wrong(x)}
<1>0. \A x \in Powers : x \in Nat \ {0} BY DEF Powers, IsPower
<1>1. ASSUME T # {} PROVE FALSE
  <2>1. T \subseteq Nat BY <1>0
  <2>2. PICK x \in T : \A z \in T : x <= z
    <3> HIDE DEF T
    <3> QED BY <1>1, <2>1, SmallestExists
  <2>3. PICK y \in Powers : x < y /\ ~Mult(2 * x, y) OBVIOUS
  <2>4. x \in Powers /\ x \in Nat \ {0} /\ y \in Nat \ {0} BY <1>0
  <2>5. PICK k \in Powers : y = 2 * k BY <2>3, <2>4, PowerHalf
  <2>6. k \in Nat \ {0} BY <1>0
  <2>7. CASE x = 1
    <3>1. Mult(2, y) BY <2>5, <2>6, MultIs
    <3> QED BY <2>3, <2>7, <3>1
  <2>8. CASE x # 1
    <3>1. PICK h \in Powers : x = 2 * h BY <2>4, <2>8, PowerHalf
    <3>2. h \in Nat \ {0} /\ h < x /\ h < k BY <1>0, <2>3, <2>5, <2>6, <3>1
    <3>3. h \notin T
      <4> HIDE DEF T
      <4> QED BY <2>2, <2>4, <3>2
    <3>4. Mult(2 * h, k)
      <4>1. ~Wrong(h) BY <3>3
      <4> QED BY <3>2, <4>1
    <3>5. 2 * h \in Nat \ {0} BY <3>2
    <3>6. Mult(2 * (2 * h), 2 * k) BY <2>6, <3>4, <3>5, MultDouble
    <3> QED BY <2>3, <2>5, <3>1, <3>6
  <2> QED BY <2>7, <2>8
<1>2. Mult(2 * p, q)
  <2>1. p \notin T BY <1>1
  <2> QED BY <2>1
<1>3. p \in Nat \ {0} /\ q \in Nat \ {0} /\ 2 * p \in Nat \ {0} BY <1>0
<1>4. 2 * p <= q BY <1>2, <1>3, MultBelow
<1>5. Mult(p, q) BY <1>2, <1>3, MultSelf, MultOfMult
<1> QED BY <1>2, <1>4, <1>5

LEMMA PowerBelow ==
    ASSUME NEW x \in Nat \ {0}
    PROVE  \E p \in Powers : p <= x /\ x < 2 * p
<1> DEFINE Right(y) == \E p \in Powers : p <= y /\ y < 2 * p
           T == {y \in Nat \ {0} : ~Right(y)}
<1>0. \A p \in Powers : p \in Nat \ {0} BY DEF Powers, IsPower
<1> SUFFICES ASSUME T # {} PROVE FALSE OBVIOUS
<1>1. PICK y \in T : \A z \in T : y <= z
  <2>1. T \subseteq Nat OBVIOUS
  <2> HIDE DEF T
  <2> QED BY <2>1, SmallestExists
<1>2. y # 1
  <2>1. 1 <= 1 /\ 1 < 2 * 1 OBVIOUS
  <2>2. Right(1) BY <2>1, PowerOne
  <2> QED BY <2>2
<1>3. PICK h \in Nat : y = 2 * h \/ y = 2 * h + 1
  <2>1. y \div 2 \in Nat /\ y = 2 * (y \div 2) + (y % 2) /\ y % 2 \in {0, 1} OBVIOUS
  <2> QED BY <2>1
<1>4. h \in Nat \ {0} /\ h < y BY <1>2, <1>3
<1>5. Right(h)
  <2> HIDE DEF Right
  <2> QED BY <1>1, <1>4
<1>6. PICK p \in Powers : p <= h /\ h < 2 * p BY <1>5
<1>7. p \in Nat \ {0} /\ 2 * p \in Powers BY <1>0, PowerDouble
<1>8. 2 * p <= y /\ y < 2 * (2 * p) BY <1>3, <1>4, <1>6, <1>7
<1>9. Right(y) BY <1>7, <1>8
<1> QED BY <1>9

LEMMA LargestIs ==
    ASSUME NEW S \in SUBSET Nat, NEW m \in S, \A q \in S : q <= m
    PROVE  Largest(S) = m
<1>1. Largest(S) \in S /\ \A q \in S : q <= Largest(S) BY DEF Largest
<1>2. Largest(S) \in Nat /\ m \in Nat /\ m <= Largest(S) /\ Largest(S) <= m BY <1>1
<1> QED BY <1>2

LEMMA LargestExists ==
    ASSUME NEW S \in SUBSET Nat, NEW n \in Nat, \A q \in S : q <= n, S # {}
    PROVE  Largest(S) \in S /\ \A q \in S : q <= Largest(S)
<1> DEFINE T == {n - q : q \in S}
<1>1. T \subseteq Nat /\ T # {}
  <2>1. PICK q \in S : TRUE OBVIOUS
  <2>2. n - q \in T OBVIOUS
  <2>3. \A r \in S : n - r \in Nat OBVIOUS
  <2>4. T \subseteq Nat BY <2>3
  <2> QED BY <2>2, <2>4
<1>2. PICK d \in T : \A e \in T : d <= e
  <2> HIDE DEF T
  <2> QED BY <1>1, SmallestExists
<1>3. PICK m \in S : d = n - m OBVIOUS
<1>4. ASSUME NEW q \in S PROVE q <= m
  <2>1. n - q \in T /\ q \in Nat /\ m \in Nat OBVIOUS
  <2> QED BY <1>2, <1>3, <2>1
<1> QED BY <1>4, LargestIs

LEMMA PowersToIs ==
    ASSUME NEW n \in Nat
    PROVE  PowersTo(n) = {p \in Powers : p <= n}
<1>1. \A p \in Powers : p \in Nat /\ p > 0 BY DEF Powers, IsPower
<1>2. ASSUME NEW p \in Powers, p <= n PROVE p \in PowersTo(n)
  <2>1. p \in 1 .. n BY <1>1, <1>2
  <2> QED BY <2>1 DEF PowersTo, Powers
<1>3. ASSUME NEW p \in PowersTo(n) PROVE p \in Powers /\ p <= n
  <2>1. p \in 1 .. n /\ IsPower(p) BY DEF PowersTo
  <2> QED BY <2>1 DEF Powers
<1> QED BY <1>2, <1>3

LEMMA PowerPositive ==
    ASSUME NEW p \in Powers
    PROVE  p \in Nat \ {0} /\ 2 * p \in Nat \ {0} /\ 2 * p \in Powers
<1>1. p \in Nat \ {0} BY DEF Powers, IsPower
<1> QED BY <1>1, PowerDouble

LEMMA RoundDown ==
    ASSUME NEW x \in Nat \ {0}
    PROVE  /\ round_down_to_power_of_2(x) \in Powers
           /\ round_down_to_power_of_2(x) <= x
           /\ x < 2 * round_down_to_power_of_2(x)
<1>1. PICK p \in Powers : p <= x /\ x < 2 * p BY PowerBelow
<1>2. p \in Nat \ {0} BY PowerPositive
<1>3. p \in PowersTo(x) BY <1>1, PowersToIs
<1>4. x \div p = 1
  <2>1. x - p \in 0 .. (p - 1) /\ x = 1 * p + (x - p) BY <1>1, <1>2
  <2> QED BY <1>2, <2>1, DivisionBy
<1>5. p \in Bits(x) BY <1>3, <1>4 DEF Bits
<1>6. \A q \in Bits(x) : q \in Powers /\ q \in Nat /\ q <= x BY PowersToIs, PowerPositive DEF Bits
<1>7. ASSUME NEW q \in Bits(x) PROVE q <= p
  <2>1. ~(p < q) BY <1>1, <1>6, PowersApart, <1>2
  <2> QED BY <1>2, <1>6, <2>1
<1>8. Bits(x) \in SUBSET Nat BY <1>6
<1>9. Largest(Bits(x)) = p BY <1>5, <1>7, <1>8, LargestIs
<1> QED BY <1>1, <1>9 DEF round_down_to_power_of_2, highest_one

\* The left subtree of n chunks.
LEMMA LargestPowerIs ==
    ASSUME NEW n \in Nat, NEW p \in Powers, p < n, n <= 2 * p
    PROVE  LargestPower(n) = p
<1>1. p \in Nat \ {0} /\ n - 1 \in Nat /\ p <= n - 1 BY PowerPositive
<1>2. p \in PowersTo(n - 1) BY <1>1, PowersToIs
<1>3. \A q \in PowersTo(n - 1) : q \in Powers /\ q \in Nat /\ q <= n - 1
  BY <1>1, PowersToIs, PowerPositive
<1>4. ASSUME NEW q \in PowersTo(n - 1) PROVE q <= p
  <2>1. ~(p < q) BY <1>1, <1>3, PowersApart
  <2> QED BY <1>1, <1>3, <2>1
<1>5. PowersTo(n - 1) \in SUBSET Nat BY <1>3
<1> QED BY <1>2, <1>4, <1>5, LargestIs DEF LargestPower

LEMMA LargestPowerExists ==
    ASSUME NEW n \in Nat, n >= 2
    PROVE  /\ LargestPower(n) \in Powers
           /\ LargestPower(n) \in 1 .. (n - 1)
           /\ n <= 2 * LargestPower(n)
<1>1. n - 1 \in Nat \ {0} OBVIOUS
<1>2. PICK p \in Powers : p <= n - 1 /\ n - 1 < 2 * p BY <1>1, PowerBelow
<1>3. p \in Nat \ {0} /\ p < n /\ n <= 2 * p BY <1>2, PowerPositive
<1>4. LargestPower(n) = p BY <1>3, LargestPowerIs
<1> QED BY <1>3, <1>4

LEMMA LargestPowerOfPower ==
    ASSUME NEW p \in Powers
    PROVE  LargestPower(2 * p) = p
<1>1. p \in Nat \ {0} /\ 2 * p \in Nat BY PowerPositive
<1> QED BY <1>1, LargestPowerIs

LEMMA MultGap ==
    ASSUME NEW m \in Nat \ {0}, NEW a \in Nat, NEW b \in Nat, Mult(m, a), Mult(m, b), a < b
    PROVE  a + m <= b
<1>1. b - a \in Nat \ {0} /\ Mult(m, b - a) BY MultSum
<1>2. ~(b - a < m) BY <1>1, MultBelow
<1> QED BY <1>1, <1>2

-----------------------------------------------------------------------------
(* The layout of the stack: n subtrees of pos[i] - pos[i - 1] chunks each  *)
(* over the first c chunks.  What is above a subtree is no larger.         *)

Size(pos, i) == pos[i] - pos[i - 1]

Layout(pos, n, c) ==
    /\ n \in Nat /\ c \in Nat
    /\ pos \in [0 .. n -> Nat] /\ pos[0] = 0 /\ pos[n] = c
    /\ \A i, j \in 0 .. n : i <= j => pos[i] <= pos[j]
    /\ \A i \in 1 .. n : Size(pos, i) \in Powers /\ Mult(Size(pos, i), pos[i])
    /\ \A i \in 1 .. n : i < n => c - pos[i] <= Size(pos, i)

Strict(pos, n, c) ==
    /\ Layout(pos, n, c)
    /\ \A i \in 1 .. n : c - pos[i] < Size(pos, i)

LEMMA LayoutFacts ==
    ASSUME NEW pos, NEW n, NEW c, Layout(pos, n, c), NEW i \in 1 .. n
    PROVE  /\ n \in Nat /\ i \in Nat \ {0} /\ c \in Nat
           /\ pos[i] \in Nat /\ pos[i - 1] \in Nat /\ pos[i] <= c
           /\ Size(pos, i) \in Powers /\ Size(pos, i) \in Nat \ {0}
           /\ pos[i] = pos[i - 1] + Size(pos, i)
           /\ Mult(Size(pos, i), pos[i]) /\ Mult(Size(pos, i), pos[i - 1])
<1>1. n \in Nat /\ c \in Nat /\ pos[n] = c BY DEF Layout
<1>2. i \in 0 .. n /\ i - 1 \in 0 .. n /\ n \in 0 .. n /\ i <= n BY <1>1
<1>3. pos[i] \in Nat /\ pos[i - 1] \in Nat BY <1>2 DEF Layout
<1>4. pos[i] <= c BY <1>1, <1>2 DEF Layout
<1>5. Size(pos, i) \in Powers /\ Mult(Size(pos, i), pos[i]) BY DEF Layout
<1>6. Size(pos, i) \in Nat \ {0} BY <1>5, PowerPositive
<1>7. pos[i] = pos[i - 1] + Size(pos, i) BY <1>3 DEF Size
<1>8. Mult(Size(pos, i), pos[i - 1])
  <2>1. Mult(Size(pos, i), Size(pos, i)) BY <1>6, MultSelf
  <2>2. Size(pos, i) <= pos[i] /\ pos[i - 1] = pos[i] - Size(pos, i) BY <1>3, <1>6, <1>7
  <2> QED BY <1>3, <1>5, <1>6, <2>1, <2>2, MultSum
<1> QED BY <1>1, <1>2, <1>3, <1>4, <1>5, <1>6, <1>7, <1>8

\* Merged subtrees are each larger than those above.
LEMMA StrictOrder ==
    ASSUME NEW pos, NEW n, NEW c, Strict(pos, n, c), NEW i \in 1 .. n, NEW j \in 1 .. n, i < j
    PROVE  Size(pos, j) < Size(pos, i)
<1>1. Layout(pos, n, c) /\ c - pos[i] < Size(pos, i) BY DEF Strict
<1>2. i \in 0 .. n /\ j - 1 \in 0 .. n /\ i <= j - 1 BY <1>1 DEF Layout
<1>3. pos[i] <= pos[j - 1] BY <1>1, <1>2 DEF Layout
<1> QED BY <1>1, <1>3, LayoutFacts

\* The subtrees before one are larger: their chunks are a multiple of its double.
LEMMA StrictMult ==
    ASSUME NEW pos, NEW n, NEW c, Strict(pos, n, c), NEW i \in 0 .. n, NEW p \in Powers,
           i = 0 \/ p < Size(pos, i)
    PROVE  Mult(2 * p, pos[i])
<1>1. Layout(pos, n, c) BY DEF Strict
<1>2. 2 * p \in Nat \ {0} BY PowerPositive
<1>3. CASE i = 0
  <2>1. pos[i] = 0 BY <1>1, <1>3 DEF Layout
  <2> QED BY <1>2, <2>1, MultSelf
<1>4. CASE i # 0
  <2>1. i \in 1 .. n BY <1>4
  <2>2. Mult(2 * p, Size(pos, i)) BY <1>1, <1>4, <2>1, LayoutFacts, PowersApart
  <2> QED BY <1>1, <1>2, <2>1, <2>2, LayoutFacts, MultOfMult
<1> QED BY <1>3, <1>4

\* Bit p of a number of chunks, from what is before and after.
LEMMA BitOf ==
    ASSUME NEW p \in Powers, NEW a \in Nat, Mult(2 * p, a), NEW r \in 0 .. (p - 1)
    PROVE  ((a + r) \div p) % 2 = 0 /\ ((a + p + r) \div p) % 2 = 1
<1>1. p \in Nat \ {0} /\ 2 * p \in Nat \ {0} BY PowerPositive
<1>2. PICK k \in Nat : a = (2 * p) * k BY <1>1, MultIs
<1>3. a + r = (2 * k) * p + r /\ a + p + r = (2 * k + 1) * p + r BY <1>1, <1>2
<1>4. ((2 * k) * p + r) \div p = 2 * k
  <2>1. 2 * k \in Nat OBVIOUS
  <2> QED BY <1>1, <2>1, DivisionBy, Zenon
<1>5. ((2 * k + 1) * p + r) \div p = 2 * k + 1
  <2>1. 2 * k + 1 \in Nat OBVIOUS
  <2> QED BY <1>1, <2>1, DivisionBy, Zenon
<1>6. (a + r) \div p = 2 * k /\ (a + p + r) \div p = 2 * k + 1 BY <1>3, <1>4, <1>5, Zenon
<1>7. (2 * k) % 2 = 0 /\ (2 * k + 1) % 2 = 1 OBVIOUS
<1> QED BY <1>6, <1>7, Zenon

\* The bits of the number of chunks are the sizes of the merged subtrees.
LEMMA StrictBits ==
    ASSUME NEW pos, NEW n, NEW c, Strict(pos, n, c)
    PROVE  Bits(c) = {Size(pos, i) : i \in 1 .. n}
<1>1. Layout(pos, n, c) /\ n \in Nat /\ c \in Nat BY DEF Strict, Layout
<1>2. ASSUME NEW i \in 1 .. n PROVE Size(pos, i) \in Bits(c)
  <2> DEFINE p == Size(pos, i)
  <2>1. p \in Powers /\ p \in Nat \ {0} /\ p <= c BY <1>1, LayoutFacts
  <2>2. Mult(2 * p, pos[i - 1])
    <3>1. i - 1 \in 0 .. n BY <1>1
    <3>2. i - 1 = 0 \/ p < Size(pos, i - 1)
      <4>1. i - 1 # 0 => i - 1 \in 1 .. n /\ i - 1 < i BY <1>1
      <4> QED BY <4>1, StrictOrder
    <3> HIDE DEF p
    <3> QED BY <2>1, <3>1, <3>2, StrictMult
  <2>3. c - pos[i] \in 0 .. (p - 1) /\ c = pos[i - 1] + p + (c - pos[i]) /\ pos[i - 1] \in Nat
    BY <1>1, LayoutFacts DEF Strict
  <2> DEFINE r == c - pos[i]
             a == pos[i - 1]
  <2> HIDE DEF p, r, a
  <2>4. ((a + p + r) \div p) % 2 = 1 BY <2>1, <2>2, <2>3, BitOf DEF r, a
  <2>5. (c \div p) % 2 = 1 BY <2>3, <2>4 DEF r, a
  <2>6. p \in PowersTo(c) BY <1>1, <2>1, PowersToIs
  <2> QED BY <2>5, <2>6 DEF Bits, p
<1>3. ASSUME NEW p \in Bits(c) PROVE \E i \in 1 .. n : p = Size(pos, i)
  <2> SUFFICES ASSUME \A i \in 1 .. n : p # Size(pos, i) PROVE FALSE OBVIOUS
  <2>1. p \in Powers /\ p \in Nat \ {0} /\ p <= c /\ (c \div p) % 2 = 1
    BY <1>1, PowersToIs, PowerPositive DEF Bits
  <2> DEFINE S == {i \in 0 .. n : i = 0 \/ p < Size(pos, i)}
  <2>2. S \in SUBSET Nat /\ 0 \in S /\ \A i \in S : i <= n BY <1>1
  <2>3. PICK i \in S : \A j \in S : j <= i
    <3> HIDE DEF S
    <3> QED BY <1>1, <2>2, LargestExists
  <2>4. i \in 0 .. n /\ (i = 0 \/ p < Size(pos, i)) OBVIOUS
  <2>5. Mult(2 * p, pos[i]) BY <2>1, <2>4, StrictMult
  <2>6. pos[i] \in Nat BY <1>1, <2>4 DEF Layout
  <2>7. c - pos[i] \in 0 .. (p - 1)
    <3>1. CASE i = n BY <1>1, <2>1, <3>1 DEF Layout
    <3>2. CASE i # n
      <4>1. i + 1 \in 1 .. n /\ i + 1 \in 0 .. n /\ (i + 1) - 1 = i /\ ~(i + 1 <= i)
        BY <1>1, <2>4, <3>2
      <4>2. i + 1 \notin S
        <5> HIDE DEF S
        <5> QED BY <2>3, <4>1
      <4>3. ~(p < Size(pos, i + 1)) BY <4>1, <4>2
      <4>4. Size(pos, i + 1) < p BY <1>1, <2>1, <4>1, <4>3, LayoutFacts
      <4>5. Size(pos, i + 1) \in Powers /\ Size(pos, i + 1) \in Nat
            /\ pos[i + 1] = pos[i] + Size(pos, i + 1) /\ pos[i + 1] <= c /\ pos[i + 1] \in Nat
        BY <1>1, <4>1, LayoutFacts
      <4>6. 2 * Size(pos, i + 1) <= p BY <2>1, <4>4, <4>5, PowersApart
      <4>7. c - pos[i + 1] < Size(pos, i + 1) BY <4>1 DEF Strict
      <4> QED BY <1>1, <2>1, <2>6, <4>5, <4>6, <4>7
    <3> QED BY <3>1, <3>2
  <2> DEFINE r == c - pos[i]
             a == pos[i]
  <2> HIDE DEF r, a
  <2>8. ((a + r) \div p) % 2 = 0 BY <2>1, <2>5, <2>6, <2>7, BitOf DEF r, a
  <2>9. a + r = c BY <1>1, <2>6 DEF r, a
  <2> QED BY <2>1, <2>8, <2>9
<1> QED BY <1>2, <1>3

LEMMA CountSizes ==
    ASSUME NEW pos, NEW n, NEW c, Strict(pos, n, c), NEW k \in 0 .. n
    PROVE  Cardinality({Size(pos, i) : i \in 1 .. k}) = k
<1> DEFINE S == {Size(pos, i) : i \in 1 .. k}
           f == [i \in 1 .. k |-> Size(pos, i)]
<1>1. Layout(pos, n, c) /\ n \in Nat BY DEF Strict, Layout
<1>2. \A i \in 1 .. k : i \in 1 .. n BY <1>1
<1>3. f \in [1 .. k -> S] OBVIOUS
<1>4. \A i, j \in 1 .. k : f[i] = f[j] => i = j
  <2> SUFFICES ASSUME NEW i \in 1 .. k, NEW j \in 1 .. k, i < j PROVE f[i] # f[j]
    <3>1. \A i, j \in 1 .. k : i # j => i < j \/ j < i OBVIOUS
    <3> HIDE DEF f
    <3> QED BY <3>1
  <2>1. Size(pos, j) < Size(pos, i) BY <1>2, StrictOrder
  <2>2. Size(pos, j) \in Nat /\ Size(pos, i) \in Nat BY <1>1, <1>2, LayoutFacts
  <2> QED BY <2>1, <2>2
<1>5. \A x \in S : \E i \in 1 .. k : f[i] = x OBVIOUS
<1>6. f \in Bijection(1 .. k, S)
  <2> HIDE DEF f, S
  <2>1. f \in Injection(1 .. k, S) BY <1>3, <1>4 DEF Injection, IsInjective
  <2>2. f \in Surjection(1 .. k, S) BY <1>3, <1>5 DEF Surjection
  <2> QED BY <2>1, <2>2 DEF Bijection
<1>7. ExistsBijection(1 .. k, S)
  <2> HIDE DEF f, S
  <2> QED BY <1>6 DEF ExistsBijection
<1>8. k \in Nat BY <1>1
<1> HIDE DEF S
<1> QED BY <1>7, <1>8, FS_CountingElements DEF S

LEMMA StrictCount ==
    ASSUME NEW pos, NEW n, NEW c, Strict(pos, n, c)
    PROVE  popcnt(c) = n
<1>1. n \in 0 .. n BY DEF Strict, Layout
<1> QED BY <1>1, StrictBits, CountSizes DEF popcnt

\* Unless the two subtrees on top are of one size, all are merged.
LEMMA LayoutStrict ==
    ASSUME NEW pos, NEW n, NEW c, Layout(pos, n, c),
           n >= 2 => Size(pos, n - 1) # Size(pos, n)
    PROVE  Strict(pos, n, c)
<1> DEFINE Tight(i) == c - pos[i] = Size(pos, i)
           S == {i \in 1 .. n : i < n /\ Tight(i)}
<1>1. n \in Nat /\ c \in Nat /\ pos[n] = c BY DEF Layout
<1>2. ASSUME S # {} PROVE FALSE
  <2>1. S \in SUBSET Nat /\ \A i \in S : i <= n BY <1>1
  <2>2. PICK i \in S : \A j \in S : j <= i
    <3> HIDE DEF S
    <3> QED BY <1>1, <1>2, <2>1, LargestExists
  <2>3. i \in 1 .. n /\ i < n /\ Tight(i) OBVIOUS
  <2>4. i + 1 \in 1 .. n /\ (i + 1) - 1 = i /\ ~(i + 1 <= i) BY <1>1, <2>3
  <2>5. i + 1 \notin S
    <3> HIDE DEF S
    <3> QED BY <2>2, <2>4
  <2> DEFINE s == Size(pos, i)
             t == Size(pos, i + 1)
  <2>6. s \in Powers /\ s \in Nat \ {0} /\ pos[i] \in Nat BY <2>3, LayoutFacts
  <2>7. /\ t \in Powers /\ t \in Nat \ {0}
        /\ pos[i + 1] = pos[i] + t /\ pos[i + 1] \in Nat /\ pos[i + 1] <= c
    BY <2>4, LayoutFacts
  <2>8. CASE i + 1 = n
    <3>1. n >= 2 /\ n - 1 = i BY <2>3, <2>8
    <3>2. s # t BY <3>1, <2>8
    <3>3. c - pos[i] = t BY <1>1, <2>6, <2>7, <2>8
    <3> QED BY <2>3, <3>2, <3>3
  <2>9. CASE i + 1 # n
    <3>1. i + 1 < n BY <1>1, <2>4, <2>9
    <3>2. c - pos[i + 1] <= t /\ ~Tight(i + 1)
      <4> HIDE DEF Tight
      <4> QED BY <2>4, <2>5, <3>1 DEF Layout
    <3>3. i + 2 \in 1 .. n /\ (i + 2) - 1 = i + 1 BY <1>1, <2>4, <3>1
    <3>4. /\ pos[i + 2] = pos[i + 1] + Size(pos, i + 2) /\ Size(pos, i + 2) \in Nat \ {0}
          /\ pos[i + 2] <= c /\ pos[i + 2] \in Nat
      BY <3>3, LayoutFacts
    <3>5. t < s BY <1>1, <2>3, <2>6, <2>7, <3>4
    <3>6. 2 * t <= s BY <2>6, <2>7, <3>5, PowersApart
    <3>7. s = t + (c - pos[i + 1]) BY <1>1, <2>3, <2>6, <2>7
    <3>8. c - pos[i + 1] < t BY <1>1, <2>7, <3>2
    <3> QED BY <1>1, <2>6, <2>7, <3>6, <3>7, <3>8
  <2> QED BY <2>8, <2>9
<1>3. ASSUME NEW i \in 1 .. n PROVE c - pos[i] < Size(pos, i)
  <2>1. pos[i] \in Nat /\ Size(pos, i) \in Nat \ {0} BY LayoutFacts
  <2>2. CASE i = n BY <1>1, <2>1, <2>2
  <2>3. CASE i # n
    <3>1. i < n BY <1>1, <2>3
    <3>2. ~Tight(i)
      <4>1. i \notin S BY <1>2
      <4> QED BY <3>1, <4>1
    <3>3. c - pos[i] <= Size(pos, i) BY <3>1 DEF Layout
    <3> QED BY <1>1, <2>1, <3>2, <3>3
  <2> QED BY <2>2, <2>3
<1> QED BY <1>3 DEF Strict

\* The two subtrees on top become one.
Merged(pos, n) == [i \in 0 .. (n - 1) |-> IF i = n - 1 THEN pos[n] ELSE pos[i]]

LEMMA LayoutMerged ==
    ASSUME NEW pos, NEW n, NEW c, Layout(pos, n, c), n >= 2, Size(pos, n - 1) = Size(pos, n)
    PROVE  /\ Layout(Merged(pos, n), n - 1, c)
           /\ Size(Merged(pos, n), n - 1) = 2 * Size(pos, n)
           /\ pos[n - 1] = pos[n - 2] + Size(pos, n) /\ pos[n] = pos[n - 1] + Size(pos, n)
           /\ \A i \in 1 .. n - 2 : Size(Merged(pos, n), i) = Size(pos, i)
<1> DEFINE m == Merged(pos, n)
           s == Size(pos, n)
<1>1. n \in Nat /\ c \in Nat /\ pos[n] = c /\ pos[0] = 0 /\ n - 1 \in Nat BY DEF Layout
<1>2. n \in 1 .. n /\ n - 1 \in 1 .. n /\ (n - 1) - 1 = n - 2 BY <1>1
<1>3. /\ s \in Powers /\ s \in Nat \ {0} /\ pos[n] = pos[n - 1] + s /\ pos[n - 1] = pos[n - 2] + s
      /\ pos[n - 2] \in Nat /\ pos[n - 1] \in Nat
  <2>1. pos[n] = pos[n - 1] + s /\ s \in Powers /\ s \in Nat \ {0} BY <1>2, LayoutFacts
  <2>2. pos[n - 1] = pos[(n - 1) - 1] + Size(pos, n - 1) /\ pos[(n - 1) - 1] \in Nat
        /\ pos[n - 1] \in Nat
    BY <1>2, LayoutFacts
  <2> QED BY <1>2, <2>1, <2>2
<1>4. /\ m \in [0 .. n - 1 -> Nat] /\ m[0] = 0 /\ m[n - 1] = c
      /\ \A i \in 0 .. n - 2 : m[i] = pos[i]
  <2>1. \A i \in 0 .. n - 1 : i \in 0 .. n BY <1>1
  <2>2. \A i \in 0 .. n : pos[i] \in Nat BY DEF Layout
  <2>3. \A i \in 0 .. n - 1 : m[i] = IF i = n - 1 THEN c ELSE pos[i] BY <1>1 DEF Merged
  <2>4. DOMAIN m = 0 .. n - 1 /\ m = [i \in 0 .. n - 1 |-> m[i]] BY DEF Merged
  <2>5. 0 \in 0 .. n - 1 /\ 0 # n - 1 /\ n - 1 \in 0 .. n - 1 BY <1>1
  <2>6. \A i \in 0 .. n - 2 : i \in 0 .. n - 1 /\ i # n - 1 BY <1>1
  <2> HIDE DEF m
  <2> QED BY <1>1, <2>1, <2>2, <2>3, <2>4, <2>5, <2>6
<1> HIDE DEF m, s
<1>5. Size(m, n - 1) = 2 * s
  <2>1. n - 2 \in 0 .. n - 2 BY <1>1
  <2>2. m[n - 2] = pos[n - 2] BY <1>4, <2>1
  <2>3. Size(m, n - 1) = m[n - 1] - m[n - 2] BY <1>2 DEF Size
  <2>4. Size(m, n - 1) = c - pos[n - 2] BY <1>4, <2>2, <2>3
  <2> QED BY <1>1, <1>3, <2>4
<1>6. ASSUME NEW i \in 1 .. n - 2
      PROVE  /\ i \in 1 .. n /\ i < n /\ m[i] = pos[i] /\ Size(m, i) = Size(pos, i)
  <2>1. i \in 0 .. n - 2 /\ i - 1 \in 0 .. n - 2 BY <1>1
  <2> QED BY <1>1, <1>4, <2>1 DEF Size
<1>7. \A i, j \in 0 .. n - 1 : i <= j => m[i] <= m[j]
  <2> SUFFICES ASSUME NEW i \in 0 .. n - 1, NEW j \in 0 .. n - 1, i <= j PROVE m[i] <= m[j]
    OBVIOUS
  <2>1. i \in 0 .. n /\ j \in 0 .. n /\ n \in 0 .. n /\ i <= n BY <1>1
  <2>2. pos[i] <= pos[j] /\ pos[i] <= pos[n] BY <2>1 DEF Layout
  <2>3. CASE j = n - 1
    <3>1. m[i] = c \/ m[i] = pos[i]
      <4>1. i = n - 1 \/ i \in 0 .. n - 2 BY <1>1
      <4> QED BY <1>4, <4>1
    <3> QED BY <1>1, <1>4, <2>2, <2>3, <3>1
  <2>4. CASE j # n - 1
    <3>1. i \in 0 .. n - 2 /\ j \in 0 .. n - 2 BY <1>1, <2>4
    <3> QED BY <1>4, <2>2, <3>1
  <2> QED BY <2>3, <2>4
<1>8. 2 * s \in Powers /\ 2 * s \in Nat \ {0} BY <1>3, PowerPositive
<1>9. Mult(2 * s, c)
  <2>1. c = pos[n - 2] + 2 * s BY <1>1, <1>3
  <2>2. Mult(2 * s, 2 * s) BY <1>8, MultSelf
  <2>3. Mult(2 * s, pos[n - 2])
    <3>1. CASE n - 2 = 0 BY <1>1, <1>8, <3>1, MultSelf
    <3>2. CASE n - 2 # 0
      <4>1. n - 2 \in 1 .. n /\ n - 2 < n BY <1>1, <3>2
      <4> DEFINE t == Size(pos, n - 2)
      <4>2. t \in Powers /\ t \in Nat \ {0} /\ Mult(t, pos[n - 2]) BY <4>1, LayoutFacts
      <4>3. c - pos[n - 2] <= t BY <4>1 DEF Layout
      <4> HIDE DEF t
      <4>4. 2 * s <= t BY <1>3, <2>1, <4>2, <4>3
      <4>5. Mult(2 * s, t)
        <5>1. CASE 2 * s = t BY <1>8, <5>1, MultSelf
        <5>2. CASE 2 * s # t
          <6>1. 2 * s < t BY <1>8, <4>2, <4>4, <5>2
          <6> QED BY <1>8, <4>2, <6>1, PowersApart
        <5> QED BY <5>1, <5>2
      <4> QED BY <1>3, <1>8, <4>2, <4>5, MultOfMult
    <3> QED BY <3>1, <3>2
  <2> QED BY <1>3, <1>8, <2>1, <2>2, <2>3, MultSum
<1>10. ASSUME NEW i \in 1 .. n - 1
       PROVE  /\ Size(m, i) \in Powers /\ Mult(Size(m, i), m[i])
              /\ i < n - 1 => c - m[i] <= Size(m, i)
  <2>1. CASE i = n - 1 BY <1>1, <1>4, <1>5, <1>8, <1>9, <2>1
  <2>2. CASE i # n - 1
    <3>1. i \in 1 .. n - 2 BY <1>1, <2>2
    <3>2. i \in 1 .. n /\ i < n /\ m[i] = pos[i] /\ Size(m, i) = Size(pos, i) BY <1>6, <3>1
    <3>3. Size(pos, i) \in Powers /\ Mult(Size(pos, i), pos[i]) /\ c - pos[i] <= Size(pos, i)
      BY <3>2 DEF Layout
    <3> QED BY <3>2, <3>3
  <2> QED BY <2>1, <2>2
<1>11. Layout(m, n - 1, c) BY <1>1, <1>4, <1>7, <1>10 DEF Layout
<1> QED BY <1>3, <1>5, <1>6, <1>11 DEF m, s

\* A subtree goes on top of merged ones.
Pushed(pos, n, d) == [i \in 0 .. (n + 1) |-> IF i = n + 1 THEN d ELSE pos[i]]

LEMMA LayoutPushed ==
    ASSUME NEW pos, NEW n, NEW c, Strict(pos, n, c), NEW s \in Powers, Mult(s, c)
    PROVE  /\ Layout(Pushed(pos, n, c + s), n + 1, c + s)
           /\ Size(Pushed(pos, n, c + s), n + 1) = s
           /\ \A i \in 1 .. n : /\ Size(Pushed(pos, n, c + s), i) = Size(pos, i)
                                /\ (c + s) - pos[i] <= Size(pos, i)
<1> DEFINE d == c + s
           m == Pushed(pos, n, d)
<1>1. Layout(pos, n, c) /\ n \in Nat /\ c \in Nat /\ pos[n] = c /\ pos[0] = 0
  BY DEF Strict, Layout
<1>2. s \in Nat \ {0} /\ d \in Nat
  <2>1. s \in Nat \ {0} BY PowerPositive
  <2> QED BY <1>1, <2>1
<1>3. /\ m \in [0 .. n + 1 -> Nat] /\ m[n + 1] = d
      /\ \A i \in 0 .. n : m[i] = pos[i]
  <2>1. \A i \in 0 .. n + 1 : i = n + 1 \/ (i \in 0 .. n /\ i # n + 1) BY <1>1
  <2>2. \A i \in 0 .. n : pos[i] \in Nat /\ i \in 0 .. n + 1 /\ i # n + 1 BY <1>1 DEF Layout
  <2>3. \A i \in 0 .. n + 1 : m[i] = IF i = n + 1 THEN d ELSE pos[i] BY DEF Pushed
  <2>4. DOMAIN m = 0 .. n + 1 /\ m = [i \in 0 .. n + 1 |-> m[i]] BY DEF Pushed
  <2>5. n + 1 \in 0 .. n + 1 BY <1>1
  <2> HIDE DEF m, d
  <2> QED BY <1>1, <1>2, <2>1, <2>2, <2>3, <2>4, <2>5
<1> HIDE DEF m
<1>4. ASSUME NEW i \in 1 .. n
      PROVE  i \in 0 .. n /\ m[i] = pos[i] /\ Size(m, i) = Size(pos, i)
  <2>1. i \in 0 .. n /\ i - 1 \in 0 .. n BY <1>1
  <2> QED BY <1>1, <1>3, <2>1 DEF Size
<1>5. Size(m, n + 1) = s
  <2>1. n \in 0 .. n /\ (n + 1) - 1 = n BY <1>1
  <2> QED BY <1>1, <1>2, <1>3, <2>1 DEF Size
<1>6. Mult(s, s) /\ Mult(s, d) BY <1>1, <1>2, MultSelf, MultSum
<1>7. ASSUME NEW i \in 1 .. n PROVE d - pos[i] <= Size(pos, i)
  <2> DEFINE t == Size(pos, i)
  <2>1. /\ t \in Powers /\ t \in Nat \ {0} /\ pos[i] \in Nat /\ pos[i] <= c /\ Mult(t, pos[i])
        /\ pos[i] = pos[i - 1] + t /\ pos[i - 1] \in Nat
    BY <1>1, LayoutFacts
  <2>2. c - pos[i] < t BY DEF Strict
  <2>3. Mult(2 * t, pos[i - 1])
    <3>1. i - 1 \in 0 .. n BY <1>1
    <3>2. i - 1 = 0 \/ t < Size(pos, i - 1)
      <4>1. i - 1 # 0 => i - 1 \in 1 .. n /\ i - 1 < i BY <1>1
      <4> QED BY <4>1, StrictOrder
    <3> HIDE DEF t
    <3> QED BY <2>1, <3>1, <3>2, StrictMult
  <2> HIDE DEF t
  <2>4. 2 * t \in Nat \ {0} BY <2>1
  <2>5. ~(t < s)
    <3> SUFFICES ASSUME t < s PROVE FALSE OBVIOUS
    <3>1. Mult(2 * t, s) BY <2>1, PowersApart
    <3>2. Mult(2 * t, c) BY <1>1, <1>2, <2>4, <3>1, MultOfMult
    <3> DEFINE x == c - pos[i - 1]
    <3>3. x \in Nat \ {0} /\ x < 2 * t /\ pos[i - 1] <= c BY <1>1, <2>1, <2>2
    <3>4. Mult(2 * t, x) BY <1>1, <2>1, <2>3, <2>4, <3>2, <3>3, MultSum
    <3> HIDE DEF x
    <3> QED BY <2>4, <3>3, <3>4, MultBelow
  <2>6. Mult(s, t)
    <3>1. CASE s = t BY <1>6, <3>1
    <3>2. CASE s # t
      <4>1. s < t BY <1>2, <2>1, <2>5, <3>2
      <4> QED BY <2>1, <4>1, PowersApart
    <3> QED BY <3>1, <3>2
  <2>7. Mult(s, pos[i]) BY <1>2, <2>1, <2>6, MultOfMult
  <2>8. Mult(s, c - pos[i]) BY <1>1, <1>2, <2>1, <2>7, MultSum
  <2>9. (c - pos[i]) + s <= t
    <3> DEFINE x == c - pos[i]
    <3>1. x \in Nat /\ x < t BY <1>1, <2>1, <2>2
    <3> HIDE DEF x
    <3> QED BY <1>2, <2>1, <2>6, <2>8, <3>1, MultGap DEF x
  <2> QED BY <1>1, <1>2, <2>1, <2>9 DEF t
<1>8. \A i, j \in 0 .. n + 1 : i <= j => m[i] <= m[j]
  <2> SUFFICES ASSUME NEW i \in 0 .. n + 1, NEW j \in 0 .. n + 1, i <= j PROVE m[i] <= m[j]
    OBVIOUS
  <2>1. CASE i = n + 1
    <3>1. j = n + 1 BY <1>1, <2>1
    <3> QED BY <1>2, <1>3, <2>1, <3>1
  <2>2. CASE i # n + 1 /\ j = n + 1
    <3>1. i \in 0 .. n /\ n \in 0 .. n /\ i <= n BY <1>1, <2>2
    <3>2. pos[i] <= c /\ pos[i] \in Nat BY <1>1, <3>1 DEF Layout
    <3> QED BY <1>1, <1>2, <1>3, <2>2, <3>1, <3>2
  <2>3. CASE j # n + 1
    <3>1. i \in 0 .. n /\ j \in 0 .. n BY <1>1, <2>3
    <3> QED BY <1>1, <1>3, <3>1 DEF Layout
  <2> QED BY <2>1, <2>2, <2>3
<1>9. ASSUME NEW i \in 1 .. n + 1
      PROVE  /\ Size(m, i) \in Powers /\ Mult(Size(m, i), m[i])
             /\ i < n + 1 => d - m[i] <= Size(m, i)
  <2>1. CASE i = n + 1 BY <1>3, <1>5, <1>6, <2>1
  <2>2. CASE i # n + 1
    <3>1. i \in 1 .. n BY <1>1, <2>2
    <3>2. m[i] = pos[i] /\ Size(m, i) = Size(pos, i) BY <1>4, <3>1
    <3>3. Size(pos, i) \in Powers /\ Mult(Size(pos, i), pos[i]) BY <1>1, <3>1 DEF Layout
    <3>4. d - pos[i] <= Size(pos, i) BY <1>7, <3>1
    <3> QED BY <3>2, <3>3, <3>4
  <2> QED BY <2>1, <2>2
<1>10. m[0] = 0 /\ n + 1 \in Nat
  <2>1. 0 \in 0 .. n BY <1>1
  <2> QED BY <1>1, <1>3, <2>1
<1>11. Layout(m, n + 1, d) BY <1>2, <1>3, <1>8, <1>9, <1>10 DEF Layout
<1>12. Layout(m, n + 1, c + s) /\ Size(m, n + 1) = s BY <1>5, <1>11
<1>13. ASSUME NEW i \in 1 .. n
       PROVE  Size(m, i) = Size(pos, i) /\ (c + s) - pos[i] <= Size(pos, i)
  <2>1. d - pos[i] <= Size(pos, i) BY <1>7
  <2> QED BY <1>1, <1>2, <1>4, <2>1
<1> QED BY <1>12, <1>13 DEF m

\* A smaller subtree leaves room for one more.
LEMMA StrictPushed ==
    ASSUME NEW pos, NEW n, NEW c, Strict(pos, n, c), NEW h \in Powers, Mult(2 * h, c)
    PROVE  Strict(Pushed(pos, n, c + h), n + 1, c + h) /\ Mult(h, c + h)
<1> DEFINE m == Pushed(pos, n, c + h)
<1>1. n \in Nat /\ c \in Nat BY DEF Strict, Layout
<1>2. h \in Nat \ {0} /\ 2 * h \in Nat \ {0} /\ 2 * h \in Powers BY PowerPositive
<1>3. Mult(h, c) /\ Mult(h, h) BY <1>1, <1>2, MultSelf, MultOfMult
<1>4. Mult(h, c + h) BY <1>1, <1>2, <1>3, MultSum
<1>5. /\ Layout(m, n + 1, c + h) /\ Size(m, n + 1) = h
      /\ \A i \in 1 .. n : Size(m, i) = Size(pos, i)
  BY <1>3, LayoutPushed
<1>6. \A i \in 1 .. n : (c + 2 * h) - pos[i] <= Size(pos, i) BY <1>2, LayoutPushed
<1>7. \A i \in 1 .. n : m[i] = pos[i] /\ pos[i] \in Nat /\ Size(pos, i) \in Nat
  <2>1. Layout(pos, n, c) BY DEF Strict
  <2>2. \A i \in 1 .. n : i \in 0 .. n + 1 /\ i # n + 1 BY <1>1
  <2> QED BY <2>1, <2>2, LayoutFacts DEF Pushed
<1>8. m[n + 1] = c + h
  <2>1. n + 1 \in 0 .. n + 1 BY <1>1
  <2> QED BY <2>1 DEF Pushed
<1> HIDE DEF m
<1>9. ASSUME NEW i \in 1 .. n + 1 PROVE (c + h) - m[i] < Size(m, i)
  <2>1. CASE i = n + 1 BY <1>1, <1>2, <1>5, <1>8, <2>1
  <2>2. CASE i # n + 1
    <3>1. i \in 1 .. n BY <1>1, <2>2
    <3>2. m[i] = pos[i] /\ pos[i] \in Nat /\ Size(m, i) = Size(pos, i) /\ Size(pos, i) \in Nat
      BY <1>5, <1>7, <3>1
    <3>3. (c + 2 * h) - pos[i] <= Size(pos, i) BY <1>6, <3>1
    <3> QED BY <1>1, <1>2, <3>2, <3>3
  <2> QED BY <2>1, <2>2
<1>10. Strict(m, n + 1, c + h) BY <1>1, <1>2, <1>5, <1>9 DEF Strict
<1> QED BY <1>4, <1>10 DEF m

\* The loop of hasher_merge_cv_stack merges subtrees of one size, and stops when
\* all are merged.
LEMMA LayoutCount ==
    ASSUME NEW pos, NEW n, NEW c, Layout(pos, n, c)
    PROVE  /\ popcnt(c) \in Nat /\ popcnt(c) <= n
           /\ popcnt(c) = n => Strict(pos, n, c)
           /\ popcnt(c) < n => n >= 2 /\ Size(pos, n - 1) = Size(pos, n)
<1> DEFINE Wrong(k) == \E q : Layout(q, k, c) /\ ~(popcnt(c) \in Nat /\ popcnt(c) <= k)
           T == {k \in Nat : Wrong(k)}
<1>0. \A q, k : Layout(q, k, c) => k \in Nat BY DEF Layout
<1>1. ASSUME NEW q, NEW k, Layout(q, k, c), ~(k >= 2 /\ Size(q, k - 1) = Size(q, k))
      PROVE  Strict(q, k, c) /\ popcnt(c) = k
  <2>1. Strict(q, k, c) BY <1>1, LayoutStrict
  <2> QED BY <2>1, StrictCount
<1>2. ASSUME T # {} PROVE FALSE
  <2>1. PICK k \in T : \A l \in T : k <= l
    <3>1. T \in SUBSET Nat OBVIOUS
    <3> HIDE DEF T
    <3> QED BY <1>2, <3>1, SmallestExists
  <2>2. k \in Nat /\ Wrong(k) OBVIOUS
  <2>3. PICK q : Layout(q, k, c) /\ ~(popcnt(c) \in Nat /\ popcnt(c) <= k) BY <2>2
  <2>4. k >= 2 /\ Size(q, k - 1) = Size(q, k) BY <1>1, <2>2, <2>3
  <2>5. Layout(Merged(q, k), k - 1, c) BY <2>3, <2>4, LayoutMerged
  <2>6. k - 1 \in Nat /\ ~(k <= k - 1) BY <2>2, <2>4
  <2>7. k - 1 \notin T
    <3> HIDE DEF T
    <3> QED BY <2>1, <2>6
  <2>8. ~Wrong(k - 1) BY <2>6, <2>7
  <2>9. popcnt(c) \in Nat /\ popcnt(c) <= k - 1 BY <2>5, <2>8
  <2> QED BY <2>2, <2>3, <2>9
<1>3. ASSUME NEW q, NEW k, Layout(q, k, c) PROVE popcnt(c) \in Nat /\ popcnt(c) <= k
  <2>1. k \in Nat /\ k \notin T BY <1>0, <1>2, <1>3
  <2>2. ~Wrong(k) BY <2>1
  <2> QED BY <1>3, <2>2
<1>4. popcnt(c) \in Nat /\ popcnt(c) <= n /\ n \in Nat BY <1>0, <1>3
<1>5. CASE n >= 2 /\ Size(pos, n - 1) = Size(pos, n)
  <2>1. Layout(Merged(pos, n), n - 1, c) BY <1>5, LayoutMerged
  <2>2. popcnt(c) <= n - 1 BY <1>3, <2>1
  <2> QED BY <1>4, <1>5, <2>2
<1>6. CASE ~(n >= 2 /\ Size(pos, n - 1) = Size(pos, n))
  BY <1>1, <1>4, <1>6
<1> QED BY <1>5, <1>6

\* There are at least as many powers of two up to c as there are subtrees.
LEMMA LayoutDepth ==
    ASSUME NEW pos, NEW n, NEW c, Layout(pos, n, c)
    PROVE  n <= Cardinality(PowersTo(c))
<1> DEFINE Room(i) == n - i <= Cardinality(PowersTo(c - pos[i]))
           S == {i \in 0 .. n : ~Room(i)}
<1>1. n \in Nat /\ c \in Nat /\ pos[0] = 0 /\ pos[n] = c BY DEF Layout
<1>2. \A i \in 0 .. n : pos[i] \in Nat /\ pos[i] <= c
  <2>1. n \in 0 .. n /\ \A i \in 0 .. n : i <= n BY <1>1
  <2> QED BY <1>1, <2>1 DEF Layout
<1>3. \A x \in Nat : IsFiniteSet(PowersTo(x)) /\ Cardinality(PowersTo(x)) \in Nat
  <2>1. \A x \in Nat : IsFiniteSet(1 .. x) /\ PowersTo(x) \subseteq 1 .. x
    BY FS_Interval DEF PowersTo
  <2>2. \A x \in Nat : IsFiniteSet(PowersTo(x)) BY <2>1, FS_Subset
  <2> QED BY <2>2, FS_CardinalityType
<1>4. ASSUME S # {} PROVE FALSE
  <2>1. S \in SUBSET Nat /\ \A i \in S : i <= n BY <1>1
  <2>2. PICK i \in S : \A j \in S : j <= i
    <3> HIDE DEF S
    <3> QED BY <1>1, <1>4, <2>1, LargestExists
  <2>3. i \in 0 .. n /\ ~Room(i) OBVIOUS
  <2> DEFINE x == c - pos[i]
             y == c - pos[i + 1]
             s == Size(pos, i + 1)
             card(z) == Cardinality(PowersTo(z))
  <2>4. i # n
    <3> SUFFICES ASSUME i = n PROVE FALSE OBVIOUS
    <3>1. x \in Nat BY <1>1, <1>2, <2>3
    <3>2. card(x) \in Nat BY <1>3, <3>1
    <3>3. n - i = 0 BY <1>1
    <3> HIDE DEF x
    <3> QED BY <2>3, <3>2, <3>3 DEF x
  <2>5. i + 1 \in 1 .. n /\ i + 1 \in 0 .. n /\ ~(i + 1 <= i) /\ (i + 1) - 1 = i
    BY <1>1, <2>3, <2>4
  <2>6. Room(i + 1)
    <3>1. i + 1 \notin S
      <4> HIDE DEF S
      <4> QED BY <2>2, <2>5
    <3> QED BY <2>5, <3>1
  <2>7. s \in Powers /\ s \in Nat \ {0} /\ x = s + y /\ x \in Nat /\ y \in Nat
    BY <1>1, <1>2, <2>3, <2>5, LayoutFacts
  <2>8. y <= s
    <3>1. CASE i + 1 = n BY <1>1, <2>7, <3>1
    <3>2. CASE i + 1 # n
      <4>1. i + 1 < n BY <1>1, <2>5, <3>2
      <4> QED BY <2>5, <4>1 DEF Layout
    <3> QED BY <3>1, <3>2
  <2> HIDE DEF x, y, s
  <2>9. PICK p \in Powers : p <= x /\ y < p
    <3>1. CASE y < s BY <2>7, <3>1
    <3>2. CASE ~(y < s)
      <4>1. y = s /\ 2 * s <= x /\ y < 2 * s /\ 2 * s \in Powers BY <2>7, <2>8, <3>2, PowerPositive
      <4> QED BY <4>1
    <3> QED BY <3>1, <3>2
  <2>10. PowersTo(y) \cup {p} \subseteq PowersTo(x) /\ p \notin PowersTo(y)
    <3>1. p \in Nat BY PowerPositive
    <3>2. PowersTo(y) = {q \in Powers : q <= y} /\ PowersTo(x) = {q \in Powers : q <= x}
      BY <2>7, PowersToIs
    <3>3. \A q \in Powers : q \in Nat BY PowerPositive
    <3>4. \A q \in Powers : q <= y => q <= x BY <2>7, <2>9, <3>1, <3>3
    <3>5. ~(p <= y) BY <2>7, <2>9, <3>1
    <3> QED BY <2>9, <3>2, <3>4, <3>5
  <2>11. card(y) + 1 <= card(x)
    <3>1. IsFiniteSet(PowersTo(y)) /\ IsFiniteSet(PowersTo(x)) BY <1>3, <2>7
    <3>2. Cardinality(PowersTo(y) \cup {p}) = Cardinality(PowersTo(y)) + 1
      BY <2>10, <3>1, FS_AddElement
    <3>3. Cardinality(PowersTo(y) \cup {p}) <= Cardinality(PowersTo(x))
      BY <2>10, <3>1, FS_Subset
    <3> QED BY <3>2, <3>3
  <2>12. card(x) \in Nat /\ card(y) \in Nat BY <1>3, <2>7
  <2>13. n - (i + 1) <= card(y) /\ ~(n - i <= card(x)) BY <2>3, <2>6 DEF x, y
  <2> HIDE DEF card
  <2> QED BY <1>1, <2>3, <2>11, <2>12, <2>13
<1>5. Room(0)
  <2>1. 0 \in 0 .. n /\ 0 \notin S BY <1>1, <1>4
  <2> QED BY <2>1
<1>6. n - 0 = n /\ c - pos[0] = c BY <1>1
<1> QED BY <1>5, <1>6

-----------------------------------------------------------------------------
(* Induction over the steps of a loop.                                     *)

LEMMA ByStep ==
    ASSUME NEW n \in Nat, NEW T, 0 \in T, \A i \in 1 .. n : i - 1 \in T => i \in T
    PROVE  \A i \in 0 .. n : i \in T
<1> DEFINE U == {i \in 0 .. n : i \notin T}
<1> SUFFICES ASSUME U # {} PROVE FALSE OBVIOUS
<1>1. PICK i \in U : \A j \in U : i <= j
  <2>1. U \in SUBSET Nat OBVIOUS
  <2> HIDE DEF U
  <2> QED BY <2>1, SmallestExists
<1>2. i \in 0 .. n /\ i \notin T OBVIOUS
<1>3. i \in 1 .. n /\ i - 1 \in 0 .. n /\ ~(i <= i - 1)
  <2>1. i # 0 BY <1>2
  <2> QED BY <1>2, <2>1
<1>4. i - 1 \notin U
  <2> HIDE DEF U
  <2> QED BY <1>1, <1>3
<1>5. i - 1 \in T BY <1>3, <1>4
<1> QED BY <1>2, <1>3, <1>5

LEMMA SameByStep ==
    ASSUME NEW n \in Nat, NEW f, NEW h, f[0] = h[0],
           \A i \in 1 .. n : f[i - 1] = h[i - 1] => f[i] = h[i]
    PROVE  \A i \in 0 .. n : f[i] = h[i]
<1> DEFINE T == {i \in 0 .. n : f[i] = h[i]}
<1>1. 0 \in T OBVIOUS
<1>2. \A i \in 1 .. n : i - 1 \in T => i \in T OBVIOUS
<1>3. \A i \in 0 .. n : i \in T
  <2> HIDE DEF T
  <2> QED BY <1>1, <1>2, ByStep
<1> QED BY <1>3

\* Induction from all smaller numbers.
LEMMA BySmaller ==
    ASSUME NEW T, \A i \in Nat : (\A j \in 0 .. (i - 1) : j \in T) => i \in T
    PROVE  \A i \in Nat : i \in T
<1> DEFINE U == {i \in Nat : i \notin T}
<1> SUFFICES ASSUME U # {} PROVE FALSE OBVIOUS
<1>1. PICK i \in U : \A j \in U : i <= j
  <2>1. U \in SUBSET Nat OBVIOUS
  <2> HIDE DEF U
  <2> QED BY <2>1, SmallestExists
<1>2. i \in Nat /\ i \notin T OBVIOUS
<1>3. ASSUME NEW j \in 0 .. (i - 1) PROVE j \in T
  <2>1. j \in Nat /\ ~(i <= j) BY <1>2
  <2>2. j \notin U
    <3> HIDE DEF U
    <3> QED BY <1>1, <2>1
  <2> QED BY <2>1, <2>2
<1> QED BY <1>2, <1>3

-----------------------------------------------------------------------------
(* The input, and the state of a chunk after r bytes.                      *)

LEMMA InputIs ==
    ASSUME NEW a \in Nat, NEW n \in Nat
    PROVE  /\ IsSeq(Input(a + 1, a + n), n) /\ Len(Input(a + 1, a + n)) = n
           /\ \A i \in 1 .. n : Input(a + 1, a + n)[i] = a + i
<1>1. (a + n) - (a + 1) + 1 = n /\ \A i \in 1 .. n : (a + 1) + i - 1 = a + i OBVIOUS
<1>2. Input(a + 1, a + n) = [i \in 1 .. n |-> a + i] BY <1>1 DEF Input
<1>3. IsSeq(Input(a + 1, a + n), n) BY <1>2 DEF IsSeq
<1> QED BY <1>2, <1>3, SeqLen

LEMMA InputPart ==
    ASSUME NEW a \in Nat, NEW n \in Nat, NEW i \in 0 .. n, NEW j \in i .. n
    PROVE  /\ SubSeq(Input(a + 1, a + n), i + 1, j) = Input((a + i) + 1, a + j)
           /\ Rest(Input(a + 1, a + n), i) = Input((a + i) + 1, a + n)
<1>1. ASSUME NEW k \in i .. n
      PROVE  SubSeq(Input(a + 1, a + n), i + 1, k) = Input((a + i) + 1, a + k)
  <2> DEFINE m == k - i
             s == SubSeq(Input(a + 1, a + n), i + 1, k)
             t == Input((a + i) + 1, (a + i) + m)
  <2>1. m \in Nat /\ k + 1 = (i + 1) + m /\ (a + i) + m = a + k /\ a + i \in Nat
        /\ k \in Int /\ i + 1 \in Int /\ m <= n
    OBVIOUS
  <2> HIDE DEF m
  <2>2. IsSeq(s, m) /\ \A x \in 1 .. m : s[x] = Input(a + 1, a + n)[((i + 1) + x) - 1]
    BY <2>1, SubSeqIs
  <2>3. \A x \in 1 .. m : ((i + 1) + x) - 1 = i + x /\ i + x \in 1 .. n /\ a + (i + x) = (a + i) + x
    BY <2>1
  <2>b. \A x \in 1 .. n : Input(a + 1, a + n)[x] = a + x BY InputIs
  <2>4. \A x \in 1 .. m : s[x] = (a + i) + x
    <3> HIDE DEF s
    <3> QED BY <2>2, <2>3, <2>b
  <2>5. IsSeq(t, m) /\ \A x \in 1 .. m : t[x] = (a + i) + x BY <2>1, InputIs
  <2>a. t = Input((a + i) + 1, a + k) BY <2>1
  <2> HIDE DEF s, t
  <2>6. s = t BY <2>2, <2>4, <2>5, SeqSame
  <2> QED BY <2>a, <2>6 DEF s
<1>2. n \in i .. n /\ Len(Input(a + 1, a + n)) = n BY InputIs
<1> QED BY <1>1, <1>2 DEF Rest

Base(c) == c * CHUNK_LEN
Offset(b) == b * BLOCK_LEN
Blocks == CHUNK_LEN \div BLOCK_LEN

LEMMA Lengths ==
    /\ BLOCK_LEN \in Nat \ {0} /\ CHUNK_LEN \in Nat \ {0} /\ CHUNK_LEN \in Powers
    /\ Blocks \in Nat \ {0} /\ CHUNK_LEN = Offset(Blocks)
    /\ Offset(0) = 0 /\ Base(0) = 0
    /\ \A c \in Nat : Base(c) \in Nat /\ Base(c + 1) = Base(c) + CHUNK_LEN
    /\ \A b \in Nat : Offset(b) \in Nat /\ Offset(b + 1) = Offset(b) + BLOCK_LEN
    /\ \A b \in Nat \ {0} : Offset(b) = Offset(b - 1) + BLOCK_LEN
<1>1. BLOCK_LEN \in Nat \ {0} BY BlockAssumption
<1>2. CHUNK_LEN \in Nat /\ IsPower(CHUNK_LEN) /\ CHUNK_LEN % BLOCK_LEN = 0 BY ChunkAssumption
<1>3. CHUNK_LEN \in Powers BY <1>2 DEF Powers
<1>4. CHUNK_LEN \in Nat \ {0} BY <1>3, PowerPositive
<1>5. Blocks \in Nat /\ CHUNK_LEN = Blocks * BLOCK_LEN
  <2>1. /\ CHUNK_LEN \div BLOCK_LEN \in Nat
        /\ CHUNK_LEN = (CHUNK_LEN \div BLOCK_LEN) * BLOCK_LEN + (CHUNK_LEN % BLOCK_LEN)
    BY <1>1, <1>4, PartsBy, Zenon
  <2>2. Blocks \in Nat /\ CHUNK_LEN = Blocks * BLOCK_LEN + 0 BY <1>2, <2>1, Zenon DEF Blocks
  <2> QED BY <1>1, <2>2
<1>6. Blocks # 0 BY <1>1, <1>4, <1>5
<1>7. Offset(0) = 0 /\ Base(0) = 0 BY <1>1, <1>4 DEF Offset, Base
<1>8. \A c \in Nat : Base(c) \in Nat /\ Base(c + 1) = Base(c) + CHUNK_LEN BY <1>4 DEF Base
<1>9. \A b \in Nat : Offset(b) \in Nat /\ Offset(b + 1) = Offset(b) + BLOCK_LEN BY <1>1 DEF Offset
<1>10. \A b \in Nat \ {0} : Offset(b) = Offset(b - 1) + BLOCK_LEN BY <1>1 DEF Offset
<1> QED BY <1>1, <1>3, <1>4, <1>5, <1>6, <1>7, <1>8, <1>9, <1>10 DEF Offset

LEMMA BaseIs ==
    ASSUME NEW c \in Nat
    PROVE  Base(c) \in Nat /\ Base(c + 1) = Base(c) + CHUNK_LEN
BY Lengths

LEMMA OffsetIs ==
    ASSUME NEW b \in Nat
    PROVE  /\ Offset(b) \in Nat /\ Offset(b + 1) = Offset(b) + BLOCK_LEN
           /\ b # 0 => Offset(b) = Offset(b - 1) + BLOCK_LEN
BY Lengths

\* The bytes of block b of a chunk, and the chaining value after each block but
\* the last.
Block(c, b) == Input((Base(c) + Offset(b - 1)) + 1, Base(c) + Offset(b))

StartFlag(b) == IF b = 0 THEN {"CHUNK_START"} ELSE {}

CvStep(key, flags, c, b, cv) ==
    compress(cv, Block(c, b), BLOCK_LEN, Words(c), flags \cup StartFlag(b - 1))

Chained(key, flags, c, f, n) ==
    f[0] = key /\ \A b \in 1 .. n : f[b] = CvStep(key, flags, c, b, f[b - 1])

Cvs(key, flags, c) == CHOOSE f : Chained(key, flags, c, f, Blocks)

LEMMA CvsAre ==
    ASSUME NEW key, NEW flags, NEW c
    PROVE  Chained(key, flags, c, Cvs(key, flags, c), Blocks)
<1> DEFINE T == {n \in Nat : \E f : Chained(key, flags, c, f, n)}
<1>1. 0 \in T
  <2> DEFINE f == [b \in 0 .. 0 |-> key]
  <2>1. Chained(key, flags, c, f, 0) BY DEF Chained
  <2> QED BY <2>1
<1>2. ASSUME NEW n \in 1 .. Blocks, n - 1 \in T PROVE n \in T
  <2>1. PICK f : Chained(key, flags, c, f, n - 1) BY <1>2
  <2> DEFINE h == [b \in 0 .. n |-> IF b = n THEN CvStep(key, flags, c, n, f[n - 1]) ELSE f[b]]
  <2>2. h[0] = f[0] /\ h[n] = CvStep(key, flags, c, n, f[n - 1])
        /\ \A b \in 0 .. (n - 1) : h[b] = f[b]
    <3>1. 0 \in 0 .. n /\ n \in 0 .. n /\ 0 # n /\ \A b \in 0 .. (n - 1) : b \in 0 .. n /\ b # n
      OBVIOUS
    <3> QED BY <3>1
  <2> HIDE DEF h
  <2>3. ASSUME NEW b \in 1 .. n PROVE h[b] = CvStep(key, flags, c, b, h[b - 1])
    <3>1. b - 1 \in 0 .. (n - 1) /\ (b = n \/ (b \in 1 .. (n - 1) /\ b \in 0 .. (n - 1))) OBVIOUS
    <3> QED BY <2>1, <2>2, <3>1 DEF Chained
  <2>4. Chained(key, flags, c, h, n) BY <2>1, <2>2, <2>3 DEF Chained
  <2> QED BY <2>4
<1>3. Blocks \in T
  <2>1. Blocks \in Nat /\ Blocks \in 0 .. Blocks BY Lengths
  <2> HIDE DEF T
  <2> QED BY <1>1, <1>2, <2>1, ByStep
<1>4. \E f : Chained(key, flags, c, f, Blocks) BY <1>3
<1> QED BY <1>4 DEF Cvs

\* The state when b blocks are compressed and len bytes are in the buffer.
Buffer(c, b, len) ==
    [i \in 1 .. BLOCK_LEN |-> IF i <= len THEN (Base(c) + Offset(b)) + i ELSE 0]

ChunkState(cv, c, buf, len, b, flags) ==
    [cv |-> cv, chunk_counter |-> c, buf |-> buf, buf_len |-> len, blocks_compressed |-> b,
     flags |-> flags]

LEMMA ChunkStateFields ==
    ASSUME NEW cv, NEW c, NEW buf, NEW len, NEW b, NEW flags
    PROVE  LET self == ChunkState(cv, c, buf, len, b, flags)
           IN  /\ self.cv = cv /\ self.chunk_counter = c /\ self.buf = buf /\ self.buf_len = len
               /\ self.blocks_compressed = b /\ self.flags = flags
BY DEF ChunkState

WithBuffer(self, x, y) == [self EXCEPT !.buf = x, !.buf_len = y]

LEMMA BufferSet ==
    ASSUME NEW cv, NEW c, NEW buf, NEW len, NEW b, NEW flags, NEW x, NEW y
    PROVE  WithBuffer(ChunkState(cv, c, buf, len, b, flags), x, y) = ChunkState(cv, c, x, y, b, flags)
<1> DEFINE self == ChunkState(cv, c, buf, len, b, flags)
           t == ChunkState(cv, c, x, len, b, flags)
           u == ChunkState(cv, c, x, y, b, flags)
<1>1. [self EXCEPT !.buf = x] = t BY DEF ChunkState
<1>2. [t EXCEPT !.buf_len = y] = u BY DEF ChunkState
<1>3. WithBuffer(self, x, y) = u
  <2> HIDE DEF self, t, u
  <2> QED BY <1>1, <1>2 DEF WithBuffer
<1> QED BY <1>3

Cleared(self, x, y) == [self EXCEPT !.buf_len = x, !.buf = y]

LEMMA BufferCleared ==
    ASSUME NEW cv, NEW c, NEW buf, NEW len, NEW b, NEW flags, NEW x, NEW y
    PROVE  Cleared(ChunkState(cv, c, buf, len, b, flags), x, y) = ChunkState(cv, c, y, x, b, flags)
<1> DEFINE self == ChunkState(cv, c, buf, len, b, flags)
           t == ChunkState(cv, c, buf, x, b, flags)
           u == ChunkState(cv, c, y, x, b, flags)
<1>1. [self EXCEPT !.buf_len = x] = t BY DEF ChunkState
<1>2. [t EXCEPT !.buf = y] = u BY DEF ChunkState
<1>3. Cleared(self, x, y) = u
  <2> HIDE DEF self, t, u
  <2> QED BY <1>1, <1>2 DEF Cleared
<1> QED BY <1>3

Done(self, x, y) == [self EXCEPT !.cv = x, !.blocks_compressed = y]

LEMMA BlockDone ==
    ASSUME NEW cv, NEW c, NEW buf, NEW len, NEW b, NEW flags, NEW x, NEW y
    PROVE  Done(ChunkState(cv, c, buf, len, b, flags), x, y) = ChunkState(x, c, buf, len, y, flags)
<1> DEFINE self == ChunkState(cv, c, buf, len, b, flags)
           t == ChunkState(x, c, buf, len, b, flags)
           u == ChunkState(x, c, buf, len, y, flags)
<1>1. [self EXCEPT !.cv = x] = t BY DEF ChunkState
<1>2. [t EXCEPT !.blocks_compressed = y] = u BY DEF ChunkState
<1>3. Done(self, x, y) = u
  <2> HIDE DEF self, t, u
  <2> QED BY <1>1, <1>2 DEF Done
<1> QED BY <1>3

Filling(key, flags, c, b, len) ==
    ChunkState(Cvs(key, flags, c)[b], c, Buffer(c, b, len), len, b, flags)

LEMMA FillBuf ==
    ASSUME NEW key, NEW flags, NEW c \in Nat, NEW b \in Nat, NEW len \in 0 .. BLOCK_LEN,
           NEW m \in Nat
    PROVE  LET p == (Base(c) + Offset(b)) + len
               self == Filling(key, flags, c, b, len)
               input == Input(p + 1, p + m)
           IN  /\ Take(self, input) = Least(BLOCK_LEN - len, m)
               /\ chunk_state_fill_buf(self, input)
                    = Filling(key, flags, c, b, len + Least(BLOCK_LEN - len, m))
<1> DEFINE a == Base(c) + Offset(b)
           p == a + len
           self == Filling(key, flags, c, b, len)
           input == Input(p + 1, p + m)
           take == Least(BLOCK_LEN - len, m)
<1>1. BLOCK_LEN \in Nat \ {0} /\ a \in Nat
  <2>1. Base(c) \in Nat /\ Offset(b) \in Nat BY BaseIs, OffsetIs
  <2>2. BLOCK_LEN \in Nat \ {0} BY Lengths
  <2> QED BY <2>1, <2>2
<1>2. p \in Nat /\ take \in Nat /\ take <= m /\ len + take <= BLOCK_LEN BY <1>1 DEF Least
<1>3. Len(input) = m /\ \A i \in 1 .. m : input[i] = p + i BY <1>2, InputIs
<1>4. self.buf_len = len /\ self.buf = Buffer(c, b, len) BY ChunkStateFields DEF Filling
<1>5. Take(self, input) = take BY <1>3, <1>4 DEF Take
<1> DEFINE filled == [i \in 1 .. BLOCK_LEN |->
                        IF i \in len + 1 .. len + take THEN input[i - len] ELSE self.buf[i]]
<1>6. filled = Buffer(c, b, len + take)
  <2>1. ASSUME NEW i \in 1 .. BLOCK_LEN
        PROVE  filled[i] = IF i <= len + take THEN a + i ELSE 0
    <3>1. CASE i \in len + 1 .. len + take
      <4>1. i - len \in 1 .. m /\ p + (i - len) = a + i /\ i <= len + take BY <1>1, <1>2, <3>1
      <4>2. filled[i] = input[i - len] BY <3>1
      <4> QED BY <1>3, <4>1, <4>2
    <3>2. CASE i \notin len + 1 .. len + take
      <4>1. i <= len <=> i <= len + take BY <1>2, <3>2
      <4>2. filled[i] = self.buf[i] BY <3>2
      <4>3. self.buf[i] = IF i <= len THEN a + i ELSE 0 BY <1>4 DEF Buffer
      <4> QED BY <4>1, <4>2, <4>3
    <3> QED BY <3>1, <3>2
  <2>2. Buffer(c, b, len + take) = [i \in 1 .. BLOCK_LEN |-> IF i <= len + take THEN a + i ELSE 0]
    BY DEF Buffer
  <2>3. filled = [i \in 1 .. BLOCK_LEN |-> filled[i]] OBVIOUS
  <2> HIDE DEF filled, a
  <2> QED BY <2>1, <2>2, <2>3
<1> DEFINE x == len + take
           cv == Cvs(key, flags, c)[b]
           buf == Buffer(c, b, len)
           new == Buffer(c, b, x)
<1>7. chunk_state_fill_buf(self, input) = WithBuffer(self, new, x)
  <2>1. chunk_state_fill_buf(self, input) = WithBuffer(self, filled, x)
    BY <1>4, <1>5 DEF chunk_state_fill_buf, WithBuffer
  <2> HIDE DEF filled, x, self, take
  <2> QED BY <1>6, <2>1 DEF x
<1>8. chunk_state_fill_buf(self, input) = Filling(key, flags, c, b, x)
  <2>1. self = ChunkState(cv, c, buf, len, b, flags) BY DEF Filling
  <2>2. Filling(key, flags, c, b, x) = ChunkState(cv, c, new, x, b, flags) BY DEF Filling
  <2>3. WithBuffer(ChunkState(cv, c, buf, len, b, flags), new, x)
          = ChunkState(cv, c, new, x, b, flags)
    <3> HIDE DEF x, cv, buf, new
    <3> QED BY BufferSet
  <2> HIDE DEF self, x, cv, buf, new, input
  <2> QED BY <1>7, <2>1, <2>2, <2>3
<1> QED BY <1>5, <1>8

LEMMA NextBlock ==
    ASSUME NEW key, NEW flags, NEW c, NEW buf, NEW len, NEW b \in Nat, b < Blocks
    PROVE  CompressBlock(ChunkState(Cvs(key, flags, c)[b], c, buf, len, b, flags), Block(c, b + 1))
             = ChunkState(Cvs(key, flags, c)[b + 1], c, buf, len, b + 1, flags)
<1> DEFINE cv == Cvs(key, flags, c)[b]
           next == Cvs(key, flags, c)[b + 1]
           self == ChunkState(cv, c, buf, len, b, flags)
           block == Block(c, b + 1)
           made == compress(cv, block, BLOCK_LEN, Words(c), flags \cup StartFlag(b))
<1>1. next = made
  <2>1. b + 1 \in 1 .. Blocks /\ (b + 1) - 1 = b BY Lengths
  <2>2. Chained(key, flags, c, Cvs(key, flags, c), Blocks) BY CvsAre
  <2>3. next = CvStep(key, flags, c, b + 1, Cvs(key, flags, c)[(b + 1) - 1])
    BY <2>1, <2>2 DEF Chained
  <2> QED BY <2>1, <2>3 DEF CvStep
<1>2. /\ self.cv = cv /\ self.chunk_counter = c /\ self.flags = flags
      /\ self.blocks_compressed = b
  BY ChunkStateFields
<1>3. chunk_state_maybe_start_flag(self) = StartFlag(b)
  BY <1>2 DEF chunk_state_maybe_start_flag, StartFlag
<1> HIDE DEF self, block
<1>4. CompressBlock(self, block)
        = Done(self, compress(self.cv, block, BLOCK_LEN, Words(self.chunk_counter),
                              self.flags \cup chunk_state_maybe_start_flag(self)),
               self.blocks_compressed + 1)
  BY DEF CompressBlock, Done
<1>5. CompressBlock(self, block) = Done(self, made, b + 1) BY <1>2, <1>3, <1>4
<1>6. Done(ChunkState(cv, c, buf, len, b, flags), made, b + 1)
        = ChunkState(made, c, buf, len, b + 1, flags)
  <2> DEFINE n == b + 1
  <2> HIDE DEF made, cv, n
  <2> QED BY BlockDone DEF n
<1>7. CompressBlock(self, block) = ChunkState(next, c, buf, len, b + 1, flags)
  <2> HIDE DEF made, next, cv
  <2> QED BY <1>1, <1>5, <1>6 DEF self
<1> QED BY <1>7 DEF self, block

LEMMA FullBuffer ==
    ASSUME NEW key, NEW flags, NEW c \in Nat, NEW b \in Nat, b < Blocks
    PROVE  CompressBuffer(Filling(key, flags, c, b, BLOCK_LEN)) = Filling(key, flags, c, b + 1, 0)
<1> DEFINE cvs == Cvs(key, flags, c)
           self == Filling(key, flags, c, b, BLOCK_LEN)
           buf == Buffer(c, b, BLOCK_LEN)
           zeros == Zeros(BLOCK_LEN)
<1>1. BLOCK_LEN \in Nat /\ Base(c) \in Nat /\ Offset(b) \in Nat /\ (b + 1) - 1 = b
      /\ Offset(b + 1) = Offset(b) + BLOCK_LEN
  <2>1. BLOCK_LEN \in Nat BY BlockAssumption
  <2>2. Base(c) \in Nat BY BaseIs
  <2>3. Offset(b) \in Nat /\ Offset(b + 1) = Offset(b) + BLOCK_LEN BY OffsetIs
  <2> QED BY <2>1, <2>2, <2>3
<1>2. buf = Block(c, b + 1)
  <2> DEFINE a == Base(c) + Offset(b)
  <2>1. a \in Nat /\ Base(c) + Offset(b + 1) = a + BLOCK_LEN BY <1>1
  <2>2. Block(c, b + 1) = Input(a + 1, a + BLOCK_LEN) BY <1>1, <2>1 DEF Block
  <2>3. IsSeq(Input(a + 1, a + BLOCK_LEN), BLOCK_LEN)
        /\ \A i \in 1 .. BLOCK_LEN : Input(a + 1, a + BLOCK_LEN)[i] = a + i
    <3> HIDE DEF a
    <3> QED BY <1>1, <2>1, InputIs
  <2>4. IsSeq(buf, BLOCK_LEN) /\ \A i \in 1 .. BLOCK_LEN : buf[i] = a + i
    BY <1>1 DEF Buffer, IsSeq
  <2> HIDE DEF buf, a
  <2> QED BY <2>2, <2>3, <2>4, SeqSame
<1>3. Buffer(c, b + 1, 0) = zeros BY DEF Buffer, Zeros
<1>4. self = ChunkState(cvs[b], c, buf, BLOCK_LEN, b, flags) /\ self.buf = buf
  BY ChunkStateFields DEF Filling
<1> DEFINE done == ChunkState(cvs[b + 1], c, buf, BLOCK_LEN, b + 1, flags)
<1>5. CompressBlock(self, self.buf) = done
  <2>1. CompressBlock(ChunkState(cvs[b], c, buf, BLOCK_LEN, b, flags), Block(c, b + 1)) = done
    <3> HIDE DEF buf
    <3> QED BY NextBlock
  <2> HIDE DEF self, buf, cvs, done
  <2> QED BY <1>2, <1>4, <2>1
<1>6. CompressBuffer(self) = Cleared(done, 0, zeros)
  <2>1. CompressBuffer(self) = Cleared(CompressBlock(self, self.buf), 0, zeros)
    BY DEF CompressBuffer, Cleared
  <2> HIDE DEF self, done, zeros
  <2> QED BY <1>5, <2>1
<1>7. Cleared(done, 0, zeros) = ChunkState(cvs[b + 1], c, zeros, 0, b + 1, flags)
  <2> DEFINE n == b + 1
             cv == cvs[n]
  <2>1. Cleared(ChunkState(cv, c, buf, BLOCK_LEN, n, flags), 0, zeros)
          = ChunkState(cv, c, zeros, 0, n, flags)
    <3> HIDE DEF n, cv, buf, zeros
    <3> QED BY BufferCleared
  <2> QED BY <2>1
<1> HIDE DEF self, done, zeros
<1> QED BY <1>3, <1>6, <1>7 DEF Filling, self

\* How many blocks are compressed before the buffer holds byte number r.
Full(r) == IF r = 0 THEN 0 ELSE (r - 1) \div BLOCK_LEN

LEMMA FullIs ==
    ASSUME NEW r \in Nat
    PROVE  /\ Full(r) \in Nat /\ r - Offset(Full(r)) \in 0 .. BLOCK_LEN
           /\ r > 0 => r - Offset(Full(r)) > 0
<1>1. BLOCK_LEN \in Nat \ {0} BY BlockAssumption
<1>2. CASE r = 0
  <2>1. Full(r) = 0 /\ Offset(0) = 0 BY <1>2, Lengths DEF Full
  <2> QED BY <1>1, <1>2, <2>1
<1>3. CASE r # 0
  <2> DEFINE q == (r - 1) \div BLOCK_LEN
             s == (r - 1) % BLOCK_LEN
  <2>1. r - 1 \in Nat BY <1>3
  <2>2. q \in Nat /\ s \in 0 .. (BLOCK_LEN - 1) /\ r - 1 = q * BLOCK_LEN + s
    BY <1>1, <2>1, PartsBy, Zenon
  <2>3. Full(r) = q BY <1>3 DEF Full
  <2> HIDE DEF q, s
  <2>4. Offset(q) = q * BLOCK_LEN /\ Offset(q) \in Nat BY <2>2, OffsetIs DEF Offset
  <2>5. r - Offset(q) = s + 1 BY <2>2, <2>4, <1>1
  <2> QED BY <1>1, <2>2, <2>3, <2>5
<1> QED BY <1>2, <1>3

LEMMA FullOf ==
    ASSUME NEW b \in Nat, NEW len \in 1 .. BLOCK_LEN
    PROVE  Full(Offset(b) + len) = b
<1>1. BLOCK_LEN \in Nat \ {0} BY BlockAssumption
<1>2. Offset(b) \in Nat /\ len - 1 \in 0 .. (BLOCK_LEN - 1) BY <1>1, OffsetIs
<1>3. (b * BLOCK_LEN + (len - 1)) \div BLOCK_LEN = b BY <1>1, <1>2, DivisionBy
<1>4. (Offset(b) + len) - 1 = b * BLOCK_LEN + (len - 1) /\ Offset(b) + len # 0
  <2>1. (Offset(b) + len) - 1 = Offset(b) + (len - 1) /\ Offset(b) + len # 0 BY <1>1, <1>2
  <2> QED BY <2>1 DEF Offset
<1> QED BY <1>3, <1>4, Zenon DEF Full

LEMMA OffsetSum ==
    ASSUME NEW a \in Nat, NEW b \in Nat
    PROVE  /\ Offset(a + b) = Offset(a) + Offset(b)
           /\ a < b <=> Offset(a) < Offset(b)
<1>1. BLOCK_LEN \in Nat \ {0} BY BlockAssumption
<1> QED BY <1>1 DEF Offset

LEMMA FullBlocks ==
    ASSUME NEW b \in Nat, NEW m \in Nat, Offset(b) + m <= CHUNK_LEN, m > 0
    PROVE  /\ b + Full(m) < Blocks /\ Full(Offset(b) + m) = b + Full(m)
           /\ m - Offset(Full(m)) = (Offset(b) + m) - Offset(b + Full(m))
           /\ m - Offset(Full(m)) \in 1 .. BLOCK_LEN
<1> DEFINE n == Full(m)
           len == m - Offset(n)
<1>1. n \in Nat /\ len \in 1 .. BLOCK_LEN /\ Offset(b) \in Nat /\ Offset(n) \in Nat
  <2>1. n \in Nat /\ len \in 0 .. BLOCK_LEN /\ len > 0 BY FullIs
  <2>2. Offset(b) \in Nat /\ Offset(n) \in Nat BY <2>1, OffsetIs
  <2> HIDE DEF n
  <2> QED BY <2>1, <2>2, BlockAssumption
<1> HIDE DEF n
<1>2. b + n \in Nat /\ Offset(b + n) = Offset(b) + Offset(n) /\ Offset(b + n) \in Nat
  BY <1>1, OffsetSum, OffsetIs
<1>3. m = Offset(n) + len BY <1>1
<1>4. Offset(b) + m = Offset(b + n) + len /\ len = (Offset(b) + m) - Offset(b + n)
  BY <1>1, <1>2, <1>3
<1>5. Full(Offset(b) + m) = b + n
  <2> HIDE DEF len
  <2> QED BY <1>1, <1>2, <1>4, FullOf
<1>6. b + n < Blocks
  <2>1. Blocks \in Nat /\ CHUNK_LEN = Offset(Blocks) /\ CHUNK_LEN \in Nat BY Lengths
  <2>2. Offset(b + n) < Offset(Blocks) BY <1>1, <1>2, <1>4, <2>1
  <2> QED BY <1>2, <2>1, <2>2, OffsetSum
<1> QED BY <1>1, <1>4, <1>5, <1>6 DEF n

\* Blocks that are not the last are compressed, the last one waits in the buffer.
LEMMA UpdateBlocksIs ==
    ASSUME NEW key, NEW flags, NEW c \in Nat, NEW b \in Nat, NEW m \in Nat,
           Offset(b) + m <= CHUNK_LEN
    PROVE  LET p == Base(c) + Offset(b)
           IN  UpdateBlocks(Filling(key, flags, c, b, 0), Input(p + 1, p + m))
                 = Filling(key, flags, c, b + Full(m), m - Offset(Full(m)))
<1> DEFINE p == Base(c) + Offset(b)
           input == Input(p + 1, p + m)
           self == Filling(key, flags, c, b, 0)
           n == IF input = <<>> THEN 0 ELSE (Len(input) - 1) \div BLOCK_LEN
           block(i) == SubSeq(input, (i - 1) * BLOCK_LEN + 1, i * BLOCK_LEN)
           last == m - Offset(n)
           H(f) == f = [i \in 0 .. n |->
                          IF i = 0 THEN self ELSE CompressBlock(f[i - 1], block(i))]
<1>1. BLOCK_LEN \in Nat \ {0} /\ Base(c) \in Nat /\ Offset(b) \in Nat /\ p \in Nat
  <2>1. Base(c) \in Nat /\ Offset(b) \in Nat BY BaseIs, OffsetIs
  <2> QED BY <2>1, BlockAssumption
<1>2. IsSeq(input, m) /\ Len(input) = m
  <2> HIDE DEF p
  <2> QED BY <1>1, InputIs
<1>3. n = Full(m)
  <2>1. input = <<>> <=> m = 0
    <3>1. IsSeq(<<>>, 0) BY DEF IsSeq
    <3>2. Len(<<>>) = 0 BY <3>1, SeqLen
    <3>3. m = 0 => input = <<>>
      <4>1. \A i \in 1 .. 0 : input[i] = <<>>[i] OBVIOUS
      <4> HIDE DEF input
      <4> QED BY <1>2, <3>1, <4>1, SeqSame
    <3> HIDE DEF input
    <3> QED BY <1>2, <3>2, <3>3
  <2> HIDE DEF input
  <2> QED BY <1>2, <2>1 DEF Full
<1>4. /\ n \in Nat /\ last \in 0 .. BLOCK_LEN /\ Offset(n) \in Nat /\ Offset(n) <= m
      /\ b + n = b \/ b + n < Blocks
  <2>1. n \in Nat /\ last \in 0 .. BLOCK_LEN
    <3> HIDE DEF n
    <3> QED BY <1>3, FullIs
  <2>2. Offset(n) \in Nat
    <3> HIDE DEF n
    <3> QED BY <2>1, OffsetIs
  <2>3. b + n = b \/ b + n < Blocks
    <3>1. CASE m = 0
      <4>1. n = 0 BY <1>3, <3>1 DEF Full
      <4> HIDE DEF n
      <4> QED BY <4>1
    <3>2. CASE m # 0
      <4> HIDE DEF n
      <4> QED BY <1>3, <3>2, FullBlocks
    <3> QED BY <3>1, <3>2
  <2> HIDE DEF n
  <2> QED BY <1>1, <2>1, <2>2, <2>3
<1> HIDE DEF n
<1>5. ASSUME NEW i \in 1 .. n PROVE block(i) = Block(c, b + i)
  <2>1. i \in Nat /\ i - 1 \in Nat /\ b + i \in Nat /\ (b + i) - 1 = b + (i - 1) BY <1>4
  <2>2. /\ Offset(i) = Offset(i - 1) + BLOCK_LEN /\ Offset(i - 1) \in Nat /\ Offset(i) \in Nat
        /\ Offset(b + i) = Offset(b) + Offset(i)
        /\ Offset(b + (i - 1)) = Offset(b) + Offset(i - 1)
    <3>1. Offset(i - 1) \in Nat /\ Offset(i) \in Nat BY <2>1, OffsetIs
    <3>2. Offset(i) = Offset(i - 1) + BLOCK_LEN BY <2>1, OffsetIs
    <3>3. Offset(b + i) = Offset(b) + Offset(i) BY <2>1, OffsetSum
    <3>4. Offset(b + (i - 1)) = Offset(b) + Offset(i - 1) BY <2>1, OffsetSum
    <3> QED BY <3>1, <3>2, <3>3, <3>4
  <2>3. Offset(i) <= Offset(n)
    <3>1. i = n \/ i < n BY <1>4
    <3> QED BY <1>4, <2>1, <2>2, <3>1, OffsetSum
  <2>4. Offset(i - 1) \in 0 .. m /\ Offset(i) \in Offset(i - 1) .. m BY <1>1, <1>4, <2>2, <2>3
  <2>5. SubSeq(input, Offset(i - 1) + 1, Offset(i))
          = Input((p + Offset(i - 1)) + 1, p + Offset(i))
    <3> HIDE DEF p
    <3> QED BY <1>1, <2>4, InputPart
  <2>6. p + Offset(i - 1) = Base(c) + Offset((b + i) - 1) /\ p + Offset(i) = Base(c) + Offset(b + i)
    BY <1>1, <2>1, <2>2
  <2>7. block(i) = SubSeq(input, Offset(i - 1) + 1, Offset(i)) BY DEF Offset
  <2> HIDE DEF input, p, block
  <2> QED BY <2>5, <2>6, <2>7 DEF Block
<1> HIDE DEF block
<1> DEFINE f == [i \in 0 .. n |-> Filling(key, flags, c, b + i, 0)]
           step(i) == IF i = 0 THEN self ELSE CompressBlock(f[i - 1], block(i))
<1>6. ASSUME NEW i \in 1 .. n PROVE f[i] = CompressBlock(f[i - 1], block(i))
  <2> DEFINE j == b + (i - 1)
  <2>1. j \in Nat /\ j < Blocks /\ b + i = j + 1 /\ i - 1 \in 0 .. n /\ i \in 0 .. n
    <3>1. Blocks \in Nat BY Lengths
    <3> QED BY <1>4, <3>1
  <2>2. f[i] = Filling(key, flags, c, b + i, 0) /\ f[i - 1] = Filling(key, flags, c, j, 0)
    BY <2>1
  <2>3. Buffer(c, j, 0) = Zeros(BLOCK_LEN) /\ Buffer(c, b + i, 0) = Zeros(BLOCK_LEN)
    BY DEF Buffer, Zeros
  <2> HIDE DEF f, j
  <2> DEFINE zeros == Zeros(BLOCK_LEN)
  <2>4. CompressBlock(ChunkState(Cvs(key, flags, c)[j], c, zeros, 0, j, flags), Block(c, j + 1))
          = ChunkState(Cvs(key, flags, c)[j + 1], c, zeros, 0, j + 1, flags)
    <3> HIDE DEF zeros
    <3> QED BY <2>1, NextBlock
  <2> QED BY <1>5, <2>1, <2>2, <2>3, <2>4 DEF Filling
<1>7. H(f)
  <2>1. \A i \in 0 .. n : f[i] = step(i)
    <3> SUFFICES ASSUME NEW i \in 0 .. n PROVE f[i] = step(i) OBVIOUS
    <3>1. CASE i = 0
      <4>1. f[0] = Filling(key, flags, c, b + 0, 0) /\ b + 0 = b BY <1>4
      <4> HIDE DEF f
      <4> QED BY <3>1, <4>1
    <3>2. CASE i # 0
      <4>1. i \in 1 .. n BY <3>2
      <4> HIDE DEF f
      <4> QED BY <1>6, <3>2, <4>1
    <3> QED BY <3>1, <3>2
  <2>2. f = [i \in 0 .. n |-> f[i]] OBVIOUS
  <2> HIDE DEF f
  <2> QED BY <2>1, <2>2
<1> DEFINE compressed == CHOOSE h : H(h)
<1>8. H(compressed)
  <2> HIDE DEF H, f
  <2> QED BY <1>7
<1>9. compressed[n] = f[n]
  <2>1. /\ compressed[0] = self
        /\ \A i \in 1 .. n : compressed[i] = CompressBlock(compressed[i - 1], block(i))
    <3> DEFINE all(i) == IF i = 0 THEN self ELSE CompressBlock(compressed[i - 1], block(i))
    <3>1. compressed = [i \in 0 .. n |-> all(i)]
      <4> HIDE DEF compressed
      <4> QED BY <1>8
    <3>2. 0 \in 0 .. n /\ \A i \in 1 .. n : i \in 0 .. n /\ i # 0 BY <1>4
    <3>3. \A i \in 0 .. n : compressed[i] = all(i)
      <4> HIDE DEF compressed, all
      <4> QED BY <3>1
    <3> HIDE DEF compressed
    <3> QED BY <3>2, <3>3
  <2>2. f[0] = self
    <3>1. 0 \in 0 .. n /\ b + 0 = b BY <1>4
    <3> QED BY <3>1
  <2> HIDE DEF compressed, f
  <2>3. \A i \in 1 .. n : compressed[i - 1] = f[i - 1] => compressed[i] = f[i]
    BY <1>6, <2>1
  <2>4. n \in Nat /\ n \in 0 .. n BY <1>4
  <2>5. \A i \in 0 .. n : compressed[i] = f[i] BY <2>1, <2>2, <2>3, <2>4, SameByStep
  <2> QED BY <2>4, <2>5
<1>10. f[n] = Filling(key, flags, c, b + n, 0)
  <2>1. n \in 0 .. n BY <1>4
  <2> QED BY <2>1
<1>11. Rest(input, n * BLOCK_LEN) = Input((p + Offset(n)) + 1, (p + Offset(n)) + last)
  <2>1. Offset(n) \in 0 .. m /\ m \in Offset(n) .. m /\ (p + Offset(n)) + last = p + m BY <1>1, <1>4
  <2>2. Rest(input, Offset(n)) = Input((p + Offset(n)) + 1, p + m)
    <3> HIDE DEF p
    <3> QED BY <1>1, <2>1, InputPart
  <2> HIDE DEF p, input, last
  <2> QED BY <2>1, <2>2 DEF Offset
<1>12. UpdateBlocks(self, input)
         = chunk_state_fill_buf(compressed[n], Rest(input, n * BLOCK_LEN))
  BY DEF UpdateBlocks, n, block
<1>13. chunk_state_fill_buf(Filling(key, flags, c, b + n, 0),
                            Input((p + Offset(n)) + 1, (p + Offset(n)) + last))
         = Filling(key, flags, c, b + n, last)
  <2>1. b + n \in Nat /\ 0 \in 0 .. BLOCK_LEN /\ last \in Nat BY <1>1, <1>4
  <2>2. Offset(b + n) = Offset(b) + Offset(n) BY <1>4, OffsetSum
  <2>3. (Base(c) + Offset(b + n)) + 0 = p + Offset(n) BY <1>1, <1>4, <2>2
  <2>4. 0 + Least(BLOCK_LEN - 0, last) = last
    <3> HIDE DEF last
    <3> QED BY <1>1, <1>4 DEF Least
  <2> DEFINE q == (Base(c) + Offset(b + n)) + 0
             k == b + n
  <2>5. chunk_state_fill_buf(Filling(key, flags, c, k, 0), Input(q + 1, q + last))
          = Filling(key, flags, c, k, 0 + Least(BLOCK_LEN - 0, last))
    <3> HIDE DEF last
    <3> QED BY <2>1, FillBuf
  <2> HIDE DEF last, p
  <2> QED BY <2>3, <2>4, <2>5
<1> HIDE DEF input, self, compressed, f, last, p
<1> QED BY <1>3, <1>9, <1>10, <1>11, <1>12, <1>13 DEF input, self, last, p

\* The state of chunk number c after its first r bytes.
Canon(key, flags, c, r) == Filling(key, flags, c, Full(r), r - Offset(Full(r)))

LEMMA CanonFields ==
    ASSUME NEW key, NEW flags, NEW c, NEW r \in Nat
    PROVE  LET self == Canon(key, flags, c, r)
           IN  /\ chunk_state_len(self) = r /\ self.flags = flags /\ self.chunk_counter = c
               /\ (self.buf_len = 0 <=> r = 0) /\ self.buf_len = r - Offset(Full(r))
               /\ self.buf = Buffer(c, Full(r), r - Offset(Full(r)))
               /\ self.blocks_compressed = Full(r) /\ self.cv = Cvs(key, flags, c)[Full(r)]
<1> DEFINE self == Canon(key, flags, c, r)
           b == Full(r)
           len == r - Offset(b)
<1>1. /\ self.flags = flags /\ self.chunk_counter = c /\ self.buf_len = len
      /\ self.buf = Buffer(c, b, len)
      /\ self.blocks_compressed = b /\ self.cv = Cvs(key, flags, c)[b]
  BY ChunkStateFields DEF Canon, Filling
<1>2. b \in Nat /\ len \in Int /\ Offset(b) \in Nat /\ (len = 0 <=> r = 0)
  <2>1. b \in Nat /\ len \in 0 .. BLOCK_LEN /\ (r > 0 => len > 0) BY FullIs
  <2>2. Offset(b) \in Nat BY <2>1, OffsetIs
  <2>3. r = 0 => b = 0 BY DEF Full
  <2>4. Offset(0) = 0 BY Lengths
  <2> HIDE DEF b
  <2> QED BY <2>1, <2>2, <2>3, <2>4
<1>3. chunk_state_len(self) = r
  <2>1. BLOCK_LEN * b = Offset(b)
    <3> HIDE DEF b
    <3> QED BY <1>2, BlockAssumption DEF Offset
  <2>2. chunk_state_len(self) = BLOCK_LEN * self.blocks_compressed + self.buf_len
    BY DEF chunk_state_len
  <2> HIDE DEF self
  <2>3. chunk_state_len(self) = Offset(b) + len BY <1>1, <2>1, <2>2
  <2> HIDE DEF b
  <2> QED BY <1>2, <2>3
<1> QED BY <1>1, <1>2, <1>3

\* Bytes that a chunk is given in pieces leave it as if given at once.
LEMMA UpdateIs ==
    ASSUME NEW key, NEW flags, NEW c \in Nat, NEW r \in Nat, NEW m \in Nat, r + m <= CHUNK_LEN
    PROVE  LET p == Base(c) + r
           IN  chunk_state_update(Canon(key, flags, c, r), Input(p + 1, p + m))
                 = Canon(key, flags, c, r + m)
<1> DEFINE p == Base(c) + r
           input == Input(p + 1, p + m)
           self == Canon(key, flags, c, r)
           b == Full(r)
           len == r - Offset(b)
           take == Take(self, input)
           filled == chunk_state_fill_buf(self, input)
<1> SUFFICES chunk_state_update(self, input) = Canon(key, flags, c, r + m) OBVIOUS
<1>1. /\ BLOCK_LEN \in Nat \ {0} /\ CHUNK_LEN \in Nat /\ Base(c) \in Nat
      /\ b \in Nat /\ len \in 0 .. BLOCK_LEN /\ (r > 0 => len > 0) /\ Offset(b) \in Nat
      /\ Offset(b + 1) = Offset(b) + BLOCK_LEN
  <2>1. b \in Nat /\ len \in 0 .. BLOCK_LEN /\ (r > 0 => len > 0) BY FullIs
  <2>2. Offset(b) \in Nat /\ Offset(b + 1) = Offset(b) + BLOCK_LEN BY <2>1, OffsetIs
  <2>3. Base(c) \in Nat BY BaseIs
  <2>4. CHUNK_LEN \in Nat BY ChunkAssumption
  <2> QED BY <2>1, <2>2, <2>3, <2>4, BlockAssumption
<1>2. self.buf_len = 0 <=> r = 0 BY CanonFields
<1>3. Len(input) = m
  <2>1. p \in Nat BY <1>1
  <2> HIDE DEF p
  <2> QED BY <2>1, InputIs
<1>4. CASE r = 0
  <2>1. b = 0 /\ Offset(0) = 0 /\ len = 0 BY <1>4, Lengths DEF Full
  <2>2. self = Filling(key, flags, c, 0, 0) BY <2>1 DEF Canon
  <2>3. Base(c) + Offset(0) = p /\ 0 + Full(m) = Full(m) /\ Offset(0) + m <= CHUNK_LEN
        /\ r + m = m
    <3>1. Full(m) \in Nat BY FullIs
    <3> HIDE DEF b
    <3> QED BY <1>1, <1>4, <2>1, <3>1
  <2>4. LET q == Base(c) + Offset(0)
        IN  UpdateBlocks(Filling(key, flags, c, 0, 0), Input(q + 1, q + m))
              = Filling(key, flags, c, 0 + Full(m), m - Offset(Full(m)))
    BY <2>3, UpdateBlocksIs
  <2>5. UpdateBlocks(self, input) = Canon(key, flags, c, r + m) BY <2>2, <2>3, <2>4 DEF Canon
  <2>6. chunk_state_update(self, input) = UpdateBlocks(self, input)
    BY <1>2, <1>4 DEF chunk_state_update
  <2> QED BY <2>5, <2>6
<1>5. CASE r # 0
  <2> DEFINE least == Least(BLOCK_LEN - len, m)
  <2>1. take = least /\ filled = Filling(key, flags, c, b, len + least)
    <3> DEFINE q == (Base(c) + Offset(b)) + len
               x == len
               y == b
    <3>1. q = p BY <1>1
    <3>2. /\ Take(Filling(key, flags, c, y, x), Input(q + 1, q + m)) = Least(BLOCK_LEN - x, m)
          /\ chunk_state_fill_buf(Filling(key, flags, c, y, x), Input(q + 1, q + m))
               = Filling(key, flags, c, y, x + Least(BLOCK_LEN - x, m))
      <4>1. q = (Base(c) + Offset(y)) + x /\ y \in Nat /\ x \in 0 .. BLOCK_LEN BY <1>1
      <4> HIDE DEF x, y, q
      <4> QED BY <4>1, FillBuf
    <3>3. self = Filling(key, flags, c, y, x) BY DEF Canon
    <3> HIDE DEF q, p, self, x, y
    <3>4. Take(self, Input(p + 1, p + m)) = Least(BLOCK_LEN - x, m) BY <3>1, <3>2, <3>3
    <3>5. chunk_state_fill_buf(self, Input(p + 1, p + m))
            = Filling(key, flags, c, y, x + Least(BLOCK_LEN - x, m))
      BY <3>1, <3>2, <3>3
    <3> QED BY <3>4, <3>5 DEF x, y
  <2>2. b < Blocks
    <3>1. Offset(0) = 0 BY Lengths
    <3>2. 0 \in Nat /\ Offset(0) + r <= CHUNK_LEN /\ r > 0 /\ 0 + b = b BY <1>1, <1>5, <3>1
    <3> QED BY <3>2, FullBlocks
  <2>3. CASE Len(input) > take
    <3> DEFINE n == m - take
               q == Base(c) + Offset(b + 1)
    <3>1. take = BLOCK_LEN - len /\ m > take /\ n \in Nat \ {0}
          /\ len + take = BLOCK_LEN /\ p + take = q /\ q + n = p + m
      <4>1. m > least BY <1>3, <2>1, <2>3
      <4>2. least = BLOCK_LEN - len
        <5> HIDE DEF len
        <5> QED BY <1>1, <4>1 DEF Least
      <4>3. take = BLOCK_LEN - len /\ m > take BY <2>1, <4>1, <4>2
      <4> HIDE DEF take, least, b
      <4> QED BY <1>1, <4>3
    <3>2. CompressBuffer(filled) = Filling(key, flags, c, b + 1, 0)
      <4>1. filled = Filling(key, flags, c, b, BLOCK_LEN) BY <2>1, <3>1
      <4> HIDE DEF filled, b
      <4> QED BY <1>1, <2>2, <4>1, FullBuffer
    <3>3. Rest(input, take) = Input(q + 1, q + n)
      <4>1. take \in 0 .. m /\ m \in take .. m /\ p \in Nat
        <5> HIDE DEF take, b
        <5> QED BY <1>1, <3>1
      <4>2. Rest(input, take) = Input((p + take) + 1, p + m)
        <5> HIDE DEF p, take
        <5> QED BY <4>1, InputPart
      <4> HIDE DEF p, q, input, take, n
      <4> QED BY <3>1, <4>2
    <3>4. Offset(b + 1) + n = r + m /\ Offset(b + 1) + n <= CHUNK_LEN /\ b + 1 \in Nat
      <4> DEFINE x == b + 1
      <4>1. Offset(x) = Offset(b) + BLOCK_LEN /\ n = m - (BLOCK_LEN - len) BY <1>1, <3>1
      <4> HIDE DEF take, b, n, x
      <4>2. Offset(x) + n = r + m BY <1>1, <4>1
      <4>3. x \in Nat BY <1>1 DEF x
      <4> QED BY <4>2, <4>3 DEF x
    <3>5. UpdateBlocks(Filling(key, flags, c, b + 1, 0), Input(q + 1, q + n))
            = Filling(key, flags, c, (b + 1) + Full(n), n - Offset(Full(n)))
      <4> DEFINE x == b + 1
      <4> HIDE DEF b, n, x
      <4> QED BY <3>1, <3>4, UpdateBlocksIs DEF x
    <3>6. Full(r + m) = (b + 1) + Full(n) /\ n - Offset(Full(n)) = (r + m) - Offset(Full(r + m))
      <4> DEFINE x == b + 1
      <4> HIDE DEF n, x
      <4>1. /\ Full(Offset(x) + n) = x + Full(n)
            /\ n - Offset(Full(n)) = (Offset(x) + n) - Offset(x + Full(n))
        BY <3>1, <3>4, FullBlocks DEF x
      <4> QED BY <3>4, <4>1 DEF x
    <3>7. chunk_state_update(self, input) = UpdateBlocks(CompressBuffer(filled), Rest(input, take))
      BY <1>2, <1>5, <2>3 DEF chunk_state_update
    <3> HIDE DEF self, input, filled, take, n, q, b
    <3> QED BY <3>2, <3>3, <3>5, <3>6, <3>7 DEF Canon
  <2>4. CASE ~(Len(input) > take)
    <3>1. least = m /\ len + m <= BLOCK_LEN
      <4>1. ~(m > least) BY <1>3, <2>1, <2>4
      <4> HIDE DEF len
      <4> QED BY <1>1, <4>1 DEF Least
    <3>2. Offset(b) + (len + m) = r + m /\ len + m \in 1 .. BLOCK_LEN
      <4> HIDE DEF b
      <4> QED BY <1>1, <1>5, <3>1
    <3>3. Full(r + m) = b
      <4> DEFINE x == len + m
      <4> HIDE DEF b, x
      <4> QED BY <1>1, <3>2, FullOf DEF x
    <3>4. (r + m) - Offset(b) = len + m
      <4> HIDE DEF b
      <4> QED BY <1>1
    <3>5. chunk_state_update(self, input) = filled BY <1>2, <1>5, <2>4 DEF chunk_state_update
    <3> HIDE DEF self, input, filled, b
    <3>6. filled = Filling(key, flags, c, b, len + m) BY <2>1, <3>1
    <3> HIDE DEF len
    <3> QED BY <3>3, <3>4, <3>5, <3>6 DEF Canon
  <2> QED BY <2>3, <2>4
<1> QED BY <1>4, <1>5

\* A buffer that is full holds a block.
LEMMA BufferBlock ==
    ASSUME NEW c \in Nat, NEW b \in Nat, NEW len \in Int, len >= BLOCK_LEN
    PROVE  Buffer(c, b, len) = Block(c, b + 1)
<1> DEFINE a == Base(c) + Offset(b)
           buf == Buffer(c, b, len)
<1>1. BLOCK_LEN \in Nat /\ Base(c) \in Nat /\ Offset(b) \in Nat /\ (b + 1) - 1 = b
      /\ Offset(b + 1) = Offset(b) + BLOCK_LEN
  <2>1. BLOCK_LEN \in Nat BY BlockAssumption
  <2>2. Base(c) \in Nat BY BaseIs
  <2>3. Offset(b) \in Nat /\ Offset(b + 1) = Offset(b) + BLOCK_LEN BY OffsetIs
  <2> QED BY <2>1, <2>2, <2>3
<1>2. a \in Nat /\ Base(c) + Offset(b + 1) = a + BLOCK_LEN BY <1>1
<1>3. Block(c, b + 1) = Input(a + 1, a + BLOCK_LEN) BY <1>1, <1>2 DEF Block
<1>4. IsSeq(Input(a + 1, a + BLOCK_LEN), BLOCK_LEN)
      /\ \A i \in 1 .. BLOCK_LEN : Input(a + 1, a + BLOCK_LEN)[i] = a + i
  <2> HIDE DEF a
  <2> QED BY <1>1, <1>2, InputIs
<1>5. IsSeq(buf, BLOCK_LEN) /\ \A i \in 1 .. BLOCK_LEN : buf[i] = a + i
  <2>1. \A i \in 1 .. BLOCK_LEN : i <= len BY <1>1
  <2> QED BY <1>1, <2>1 DEF Buffer, IsSeq
<1> HIDE DEF a
<1> DEFINE x == Input(a + 1, a + BLOCK_LEN)
<1> HIDE DEF buf, x
<1>6. buf = x BY <1>4, <1>5, SeqSame DEF x
<1> QED BY <1>3, <1>6 DEF buf, x

\* The output of a chunk of len bytes.
Out(key, flags, c, len) == chunk_state_output(Canon(key, flags, c, len))

LastBlock(key, flags, c, b, len) ==
    make_output(Cvs(key, flags, c)[b], Buffer(c, b, len), len, c,
                (flags \cup StartFlag(b)) \cup {"CHUNK_END"})

LEMMA OutIs ==
    ASSUME NEW key, NEW flags, NEW c, NEW len \in Nat
    PROVE  Out(key, flags, c, len)
             = LastBlock(key, flags, c, Full(len), len - Offset(Full(len)))
<1> DEFINE self == Canon(key, flags, c, len)
<1>1. /\ self.flags = flags /\ self.chunk_counter = c
      /\ self.buf_len = len - Offset(Full(len))
      /\ self.buf = Buffer(c, Full(len), len - Offset(Full(len)))
      /\ self.blocks_compressed = Full(len) /\ self.cv = Cvs(key, flags, c)[Full(len)]
  BY CanonFields
<1>2. chunk_state_maybe_start_flag(self) = StartFlag(Full(len))
  BY <1>1 DEF chunk_state_maybe_start_flag, StartFlag
<1>3. Out(key, flags, c, len) = chunk_state_output(self) BY DEF Out
<1> HIDE DEF self
<1> QED BY <1>1, <1>2, <1>3 DEF chunk_state_output, LastBlock

\* The output of a block that is not the last is the next chaining value.
LEMMA CvOf ==
    ASSUME NEW key, NEW flags, NEW c, NEW b \in 1 .. Blocks
    PROVE  output_chaining_value(make_output(Cvs(key, flags, c)[b - 1], Block(c, b), BLOCK_LEN, c,
                                             flags \cup StartFlag(b - 1)))
             = Cvs(key, flags, c)[b]
<1> DEFINE cv == Cvs(key, flags, c)[b - 1]
           block == Block(c, b)
           all == flags \cup StartFlag(b - 1)
<1>1. output_chaining_value(make_output(cv, block, BLOCK_LEN, c, all))
        = compress(cv, block, BLOCK_LEN, Words(c), all)
  <2> HIDE DEF cv, block, all
  <2> QED BY DEF output_chaining_value, make_output
<1>2. Chained(key, flags, c, Cvs(key, flags, c), Blocks) BY CvsAre
<1>3. Cvs(key, flags, c)[b] = CvStep(key, flags, c, b, cv) BY <1>2 DEF Chained
<1>4. CvStep(key, flags, c, b, cv) = compress(cv, block, BLOCK_LEN, Words(c), all) BY DEF CvStep
<1> QED BY <1>1, <1>3, <1>4

LEMMA TreeChunkIs ==
    ASSUME NEW key, NEW flags, NEW c \in Nat, NEW n \in Nat, Base(c) <= n
    PROVE  TreeChunk(c, n, key, flags) = Out(key, flags, c, Least(CHUNK_LEN, n - Base(c)))
<1> DEFINE len == Least(CHUNK_LEN, n - Base(c))
           last == IF len = 0 THEN 1 ELSE (len - 1) \div BLOCK_LEN + 1
           byte(i) == IF i < len THEN c * CHUNK_LEN + i + 1 ELSE 0
           block(b) == [i \in 1 .. BLOCK_LEN |-> byte((b - 1) * BLOCK_LEN + i - 1)]
           size(b) == IF b < last THEN BLOCK_LEN ELSE len - (last - 1) * BLOCK_LEN
           all(b) == flags \cup (IF b = 1 THEN {"CHUNK_START"} ELSE {})
                           \cup (IF b = last THEN {"CHUNK_END"} ELSE {})
           Is(b, f) == make_output(IF b = 1 THEN key ELSE output_chaining_value(f[b - 1]),
                                   block(b), size(b), c, all(b))
           H(f) == f = [b \in 1 .. last |-> Is(b, f)]
           cvs == Cvs(key, flags, c)
           f == [b \in 1 .. last |->
                   IF b < last
                   THEN make_output(cvs[b - 1], Block(c, b), BLOCK_LEN, c,
                                    flags \cup StartFlag(b - 1))
                   ELSE Out(key, flags, c, len)]
<1>1. BLOCK_LEN \in Nat \ {0} /\ CHUNK_LEN \in Nat /\ Base(c) \in Nat /\ len \in Nat
      /\ len <= CHUNK_LEN
  <2>1. BLOCK_LEN \in Nat \ {0} BY BlockAssumption
  <2>2. CHUNK_LEN \in Nat BY ChunkAssumption
  <2>3. Base(c) \in Nat BY BaseIs
  <2> QED BY <2>1, <2>2, <2>3 DEF Least
<1>2. TreeChunk(c, n, key, flags) = (CHOOSE h : H(h))[last] BY DEF TreeChunk, Base
<1> HIDE DEF len
<1> DEFINE y == Full(len)
<1>3. /\ last = y + 1 /\ y \in Nat /\ y < Blocks /\ Blocks \in Nat
      /\ Offset(y) \in Nat /\ (len # 0 => Offset(y) < len) /\ Offset(y) <= len
  <2>1. y \in Nat /\ len - Offset(y) \in 0 .. BLOCK_LEN /\ (len > 0 => len - Offset(y) > 0)
    BY <1>1, FullIs
  <2>2. Offset(y) \in Nat
    <3> HIDE DEF y
    <3> QED BY <2>1, OffsetIs
  <2>3. last = y + 1 BY DEF Full
  <2>4. Blocks \in Nat \ {0} BY Lengths
  <2>5. y < Blocks
    <3>1. CASE len = 0
      <4>1. y = 0 BY <3>1 DEF Full
      <4> HIDE DEF y
      <4> QED BY <2>4, <4>1
    <3>2. CASE len # 0
      <4>1. Offset(0) + len <= CHUNK_LEN /\ len > 0 /\ 0 \in Nat
        <5>1. Offset(0) = 0 BY Lengths
        <5> QED BY <1>1, <3>2, <5>1
      <4>2. 0 + y < Blocks BY <1>1, <4>1, FullBlocks
      <4> HIDE DEF y
      <4> QED BY <2>1, <4>2
    <3> QED BY <3>1, <3>2
  <2> HIDE DEF y, last
  <2> QED BY <1>1, <2>1, <2>2, <2>3, <2>4, <2>5
<1> HIDE DEF last
<1>4. ASSUME NEW b \in 1 .. last PROVE block(b) = Buffer(c, b - 1, len - Offset(b - 1))
  <2> DEFINE x == b - 1
  <2>1. x \in Nat BY <1>3
  <2> HIDE DEF x
  <2>2. Offset(x) \in Nat /\ Offset(x) = x * BLOCK_LEN BY <2>1, OffsetIs DEF Offset
  <2>3. ASSUME NEW i \in 1 .. BLOCK_LEN
        PROVE  byte(x * BLOCK_LEN + i - 1)
                 = IF i <= len - Offset(x) THEN (Base(c) + Offset(x)) + i ELSE 0
    <3> DEFINE o == x * BLOCK_LEN
    <3>1. o = Offset(x) /\ c * CHUNK_LEN = Base(c) BY <2>2 DEF Base
    <3> HIDE DEF o
    <3>2. (o + i - 1 < len <=> i <= len - o) /\ Base(c) + (o + i - 1) + 1 = (Base(c) + o) + i
      BY <1>1, <2>2, <3>1
    <3>3. byte(o + i - 1) = IF o + i - 1 < len THEN Base(c) + (o + i - 1) + 1 ELSE 0 BY <3>1
    <3> HIDE DEF byte
    <3>4. byte(o + i - 1) = IF i <= len - Offset(x) THEN (Base(c) + Offset(x)) + i ELSE 0
      BY <3>1, <3>2, <3>3
    <3> QED BY <3>4 DEF o
  <2> HIDE DEF byte
  <2>4. [i \in 1 .. BLOCK_LEN |-> byte(x * BLOCK_LEN + i - 1)] = Buffer(c, x, len - Offset(x))
    BY <2>3 DEF Buffer
  <2> QED BY <2>4 DEF x
<1>5. ASSUME NEW b \in 1 .. last, b < last
      PROVE  block(b) = Block(c, b) /\ size(b) = BLOCK_LEN /\ all(b) = flags \cup StartFlag(b - 1)
  <2>1. b - 1 \in Nat /\ (b - 1) + 1 = b /\ b # last BY <1>3, <1>5
  <2>2. len - Offset(b - 1) >= BLOCK_LEN /\ len - Offset(b - 1) \in Int
    <3>1. Offset(b) \in Nat /\ Offset(b - 1) \in Nat BY <2>1, OffsetIs
    <3>2. Offset(b) = Offset(b - 1) + BLOCK_LEN BY <2>1, OffsetIs
    <3>3. Offset(b) <= Offset(y)
      <4>1. b = y \/ b < y
        <5> HIDE DEF y
        <5> QED BY <1>3, <1>5
      <4> HIDE DEF y
      <4> QED BY <1>3, <3>1, <4>1, OffsetSum
    <3> HIDE DEF y
    <3> QED BY <1>1, <1>3, <3>1, <3>2, <3>3
  <2>3. Buffer(c, b - 1, len - Offset(b - 1)) = Block(c, b)
    <3> DEFINE z == len - Offset(b - 1)
               x == b - 1
    <3> HIDE DEF z, x
    <3>1. Buffer(c, x, z) = Block(c, x + 1) BY <2>1, <2>2, BufferBlock DEF z, x
    <3> QED BY <2>1, <3>1 DEF z, x
  <2>4. all(b) = flags \cup StartFlag(b - 1)
    <3>1. all(b) = (flags \cup (IF b = 1 THEN {"CHUNK_START"} ELSE {})) \cup {} BY <2>1
    <3>2. (IF b = 1 THEN {"CHUNK_START"} ELSE {}) = StartFlag(b - 1) BY DEF StartFlag
    <3> HIDE DEF all
    <3> QED BY <3>1, <3>2
  <2>5. block(b) = Block(c, b) BY <1>4, <2>3
  <2> QED BY <1>5, <2>4, <2>5
<1>6. /\ block(last) = Buffer(c, y, len - Offset(y)) /\ size(last) = len - Offset(y)
      /\ all(last) = (flags \cup StartFlag(y)) \cup {"CHUNK_END"}
  <2>1. last \in 1 .. last /\ last - 1 = y BY <1>3
  <2>2. block(last) = Buffer(c, y, len - Offset(y)) BY <1>4, <2>1
  <2>3. size(last) = len - Offset(y) BY <2>1, <1>3 DEF Offset
  <2>4. all(last) = (flags \cup StartFlag(y)) \cup {"CHUNK_END"}
    <3>1. all(last) = (flags \cup (IF last = 1 THEN {"CHUNK_START"} ELSE {})) \cup {"CHUNK_END"}
      OBVIOUS
    <3>2. (IF last = 1 THEN {"CHUNK_START"} ELSE {}) = StartFlag(y)
      <4>1. last = 1 <=> y = 0
        <5> HIDE DEF y
        <5> QED BY <1>3
      <4> QED BY <4>1 DEF StartFlag
    <3> HIDE DEF all
    <3> QED BY <3>1, <3>2
  <2> QED BY <2>2, <2>3, <2>4
<1> HIDE DEF block, size, all, y
\* What comes before block b.
<1>7. ASSUME NEW b \in 1 .. last, NEW h, b # 1 => h[b - 1] = f[b - 1]
      PROVE  Is(b, h) = f[b]
  <2> DEFINE cv == IF b = 1 THEN key ELSE output_chaining_value(h[b - 1])
  <2>1. cv = cvs[b - 1]
    <3>1. CASE b = 1
      <4>1. Chained(key, flags, c, cvs, Blocks) BY CvsAre
      <4>2. cvs[0] = key BY <4>1 DEF Chained
      <4> QED BY <3>1, <4>2
    <3>2. CASE b # 1
      <4> DEFINE d == b - 1
      <4>1. d \in 1 .. last /\ d < last /\ d \in 1 .. Blocks BY <1>3, <3>2
      <4>2. f[d] = make_output(cvs[d - 1], Block(c, d), BLOCK_LEN, c, flags \cup StartFlag(d - 1))
        BY <4>1
      <4> HIDE DEF d, f, cvs
      <4>3. output_chaining_value(make_output(cvs[d - 1], Block(c, d), BLOCK_LEN, c,
                                              flags \cup StartFlag(d - 1)))
              = cvs[d]
        BY <4>1, CvOf DEF cvs
      <4>4. h[d] = f[d] BY <1>7, <3>2 DEF d
      <4> QED BY <3>2, <4>2, <4>3, <4>4 DEF d
    <3> QED BY <3>1, <3>2
  <2>2. Is(b, h) = make_output(cv, block(b), size(b), c, all(b)) OBVIOUS
  <2> HIDE DEF Is, cv
  <2>3. CASE b < last
    <3>1. f[b] = make_output(cvs[b - 1], Block(c, b), BLOCK_LEN, c, flags \cup StartFlag(b - 1))
      BY <2>3
    <3> HIDE DEF f, cvs
    <3> QED BY <1>5, <2>1, <2>2, <2>3, <3>1
  <2>4. CASE ~(b < last)
    <3>1. b = last /\ b - 1 = y BY <1>3, <2>4
    <3>2. f[b] = Out(key, flags, c, len) BY <2>4
    <3>3. Out(key, flags, c, len)
            = make_output(cvs[y], Buffer(c, y, len - Offset(y)), len - Offset(y), c,
                          (flags \cup StartFlag(y)) \cup {"CHUNK_END"})
      <4>1. len \in Nat BY <1>1
      <4>2. Out(key, flags, c, len) = LastBlock(key, flags, c, Full(len), len - Offset(Full(len)))
        BY <4>1, OutIs
      <4> QED BY <4>2, Zenon DEF y, cvs, LastBlock
    <3> HIDE DEF f, cvs
    <3> QED BY <1>6, <2>1, <2>2, <3>1, <3>2, <3>3
  <2> QED BY <2>3, <2>4
<1>8. H(f)
  <2>1. \A b \in 1 .. last : f[b] = Is(b, f)
    <3> HIDE DEF f, Is
    <3> QED BY <1>7
  <2>2. f = [b \in 1 .. last |-> f[b]] OBVIOUS
  <2> HIDE DEF f, Is
  <2> QED BY <2>1, <2>2
<1> DEFINE output == CHOOSE h : H(h)
<1>9. H(output)
  <2> HIDE DEF H, f
  <2> QED BY <1>8
<1>10. output[last] = f[last]
  <2> DEFINE T == {b \in Nat : output[b + 1] = f[b + 1]}
  <2>1. ASSUME NEW b \in 1 .. last, b # 1 => output[b - 1] = f[b - 1] PROVE output[b] = f[b]
    <3>1. Is(b, output) = f[b]
      <4> HIDE DEF Is, output, f
      <4> QED BY <1>7, <2>1
    <3>2. output[b] = Is(b, output)
      <4> HIDE DEF output, Is
      <4>1. output = [x \in 1 .. last |-> Is(x, output)] BY <1>9
      <4> QED BY <4>1
    <3> QED BY <3>1, <3>2
  <2> HIDE DEF output, f
  <2>2. 0 \in T
    <3>1. 1 \in 1 .. last /\ 0 + 1 = 1 BY <1>3
    <3>2. output[1] = f[1] BY <2>1, <3>1
    <3> QED BY <3>1, <3>2
  <2>3. ASSUME NEW i \in 1 .. y, i - 1 \in T PROVE i \in T
    <3>1. i + 1 \in 1 .. last /\ (i + 1) - 1 = i /\ i \in Nat /\ (i - 1) + 1 = i BY <1>3
    <3>2. output[i] = f[i] BY <2>3, <3>1
    <3>3. output[i + 1] = f[i + 1] BY <2>1, <3>1, <3>2
    <3> QED BY <3>1, <3>3
  <2>4. y \in T
    <3>1. y \in 0 .. y BY <1>3
    <3> HIDE DEF T
    <3> QED BY <1>3, <2>2, <2>3, <3>1, ByStep
  <2> QED BY <1>3, <2>4
<1>11. f[last] = Out(key, flags, c, len)
  <2>1. last \in 1 .. last /\ ~(last < last) BY <1>3
  <2> QED BY <2>1
<1> QED BY <1>2, <1>10, <1>11 DEF len

-----------------------------------------------------------------------------
(* The tree that the hasher has to agree with.                             *)

Joined2(key, flags, left, right) ==
    make_output(key, << output_chaining_value(left), output_chaining_value(right) >>,
                BLOCK_LEN, 0, flags \cup {"PARENT"})

TreeStep(n, key, flags, t, size, first) ==
    IF size = 1
    THEN TreeChunk(first, n, key, flags)
    ELSE Joined2(key, flags, t[LargestPower(size)][first],
                 t[size - LargestPower(size)][first + LargestPower(size)])

TreeTo(n, key, flags, t, k) ==
    \A size \in 1 .. k : \A first \in 0 .. (Chunks(n) - size) :
        t[size][first] = TreeStep(n, key, flags, t, size, first)

LEMMA ChunksIs ==
    ASSUME NEW n \in Nat
    PROVE  Chunks(n) \in Nat \ {0}
<1>1. CHUNK_LEN \in Nat \ {0} BY Lengths
<1>2. CASE n = 0 BY <1>2 DEF Chunks
<1>3. CASE n # 0
  <2>1. n - 1 \in Nat BY <1>3
  <2>2. (n - 1) \div CHUNK_LEN \in Nat BY <1>1, <2>1, PartsBy, Zenon
  <2> DEFINE q == (n - 1) \div CHUNK_LEN
  <2>3. Chunks(n) = q + 1 /\ q \in Nat BY <1>3, <2>2, Zenon DEF Chunks
  <2> HIDE DEF q
  <2> QED BY <2>3
<1> QED BY <1>2, <1>3

\* The children of a subtree are smaller and inside of it.
LEMMA Children ==
    ASSUME NEW s \in Nat, s >= 2, NEW f \in Nat, NEW n \in Nat, f + s <= n
    PROVE  LET left == LargestPower(s)
           IN  /\ left \in 1 .. (s - 1) /\ s - left \in 1 .. (s - 1) /\ left \in Powers
               /\ f \in 0 .. (n - left) /\ f + left \in 0 .. (n - (s - left))
               /\ f + left \in Nat /\ f + left <= n /\ (f + left) + (s - left) = f + s
<1>1. LargestPower(s) \in Powers /\ LargestPower(s) \in 1 .. (s - 1) BY LargestPowerExists
<1> QED BY <1>1

LEMMA TreeExists ==
    ASSUME NEW n \in Nat, NEW key, NEW flags
    PROVE  \E t : TreeTo(n, key, flags, t, Chunks(n))
<1> DEFINE C == Chunks(n)
           T == {k \in Nat : \E t : TreeTo(n, key, flags, t, k)}
<1>1. C \in Nat BY ChunksIs
<1> HIDE DEF C
<1>2. 0 \in T
  <2>1. TreeTo(n, key, flags, <<>>, 0) BY DEF TreeTo
  <2> QED BY <2>1
<1>3. ASSUME NEW k \in 1 .. C, k - 1 \in T PROVE k \in T
  <2>1. PICK t : TreeTo(n, key, flags, t, k - 1) BY <1>3
  <2> DEFINE h == [size \in 1 .. k |-> [first \in 0 .. (C - size) |->
                     IF size = k THEN TreeStep(n, key, flags, t, k, first) ELSE t[size][first]]]
  <2>2. ASSUME NEW size \in 1 .. k, NEW first \in 0 .. (C - size)
        PROVE  h[size][first] = IF size = k THEN TreeStep(n, key, flags, t, k, first)
                                ELSE t[size][first]
    OBVIOUS
  <2> HIDE DEF h
  <2>3. ASSUME NEW size \in 1 .. k, NEW first \in 0 .. (C - size)
        PROVE  TreeStep(n, key, flags, h, size, first) = TreeStep(n, key, flags, t, size, first)
    <3>1. CASE size = 1 BY <3>1 DEF TreeStep
    <3>2. CASE size # 1
      <4> DEFINE left == LargestPower(size)
      <4>1. size \in Nat /\ size >= 2 /\ first \in Nat /\ first + size <= C BY <1>1, <3>2
      <4>2. /\ left \in 1 .. (size - 1) /\ size - left \in 1 .. (size - 1)
            /\ first \in 0 .. (C - left) /\ first + left \in 0 .. (C - (size - left))
        BY <1>1, <4>1, Children
      <4> HIDE DEF left
      <4>3. left \in 1 .. k /\ left # k /\ size - left \in 1 .. k /\ size - left # k BY <4>1, <4>2
      <4>4. h[left][first] = t[left][first] BY <2>2, <4>2, <4>3
      <4>5. h[size - left][first + left] = t[size - left][first + left] BY <2>2, <4>2, <4>3
      <4> QED BY <4>4, <4>5 DEF TreeStep, left
    <3> QED BY <3>1, <3>2
  <2>4. ASSUME NEW size \in 1 .. k, NEW first \in 0 .. (C - size)
        PROVE  h[size][first] = TreeStep(n, key, flags, h, size, first)
    <3>1. size = k \/ size \in 1 .. (k - 1) OBVIOUS
    <3>2. size \in 1 .. (k - 1) => t[size][first] = TreeStep(n, key, flags, t, size, first)
      BY <2>1 DEF TreeTo, C
    <3> QED BY <2>2, <2>3, <3>1, <3>2
  <2>5. TreeTo(n, key, flags, h, k) BY <2>4 DEF TreeTo, C
  <2> QED BY <2>5
<1>4. C \in T
  <2>1. C \in 0 .. C BY <1>1
  <2> HIDE DEF T
  <2> QED BY <1>1, <1>2, <1>3, <2>1, ByStep
<1> QED BY <1>4 DEF C

LEMMA TreeIs ==
    ASSUME NEW n \in Nat, NEW key, NEW flags
    PROVE  TreeTo(n, key, flags, Tree(n, key, flags), Chunks(n))
<1> DEFINE C == Chunks(n)
           all(t) == [size \in 1 .. C |-> [first \in 0 .. (C - size) |->
                        LET left == LargestPower(size)
                        IN  IF size = 1
                            THEN TreeChunk(first, n, key, flags)
                            ELSE make_output(key,
                                   << output_chaining_value(t[left][first]),
                                      output_chaining_value(t[size - left][first + left]) >>,
                                   BLOCK_LEN, 0, flags \cup {"PARENT"})]]
           step(t) == [size \in 1 .. C |-> [first \in 0 .. (C - size) |->
                         TreeStep(n, key, flags, t, size, first)]]
           H(t) == t = all(t)
<1>0. \A t : all(t) = step(t) BY DEF TreeStep, Joined2
<1>1. Tree(n, key, flags) = CHOOSE t : H(t) BY DEF Tree
<1> HIDE DEF C
<1> HIDE DEF all
<1>2. PICK t : TreeTo(n, key, flags, t, C) BY TreeExists DEF C
<1> DEFINE h == [size \in 1 .. C |-> [first \in 0 .. (C - size) |-> t[size][first]]]
<1>3. C \in Nat BY ChunksIs DEF C
<1>4. ASSUME NEW size \in 1 .. C, NEW first \in 0 .. (C - size)
      PROVE  h[size][first] = t[size][first]
  OBVIOUS
<1>5. ASSUME NEW size \in 1 .. C, NEW first \in 0 .. (C - size)
      PROVE  TreeStep(n, key, flags, t, size, first) = TreeStep(n, key, flags, h, size, first)
  <2> HIDE DEF h
  <2>1. CASE size = 1 BY <2>1 DEF TreeStep
  <2>2. CASE size # 1
    <3> DEFINE left == LargestPower(size)
    <3>1. size \in Nat /\ size >= 2 /\ first \in Nat /\ first + size <= C BY <1>3, <2>2
    <3>2. /\ left \in 1 .. (size - 1) /\ size - left \in 1 .. (size - 1)
          /\ first \in 0 .. (C - left) /\ first + left \in 0 .. (C - (size - left))
      BY <1>3, <3>1, Children
    <3> HIDE DEF left
    <3>3. left \in 1 .. C /\ size - left \in 1 .. C BY <1>3, <3>1, <3>2
    <3>4. h[left][first] = t[left][first] BY <1>4, <3>2, <3>3
    <3>5. h[size - left][first + left] = t[size - left][first + left] BY <1>4, <3>2, <3>3
    <3> QED BY <3>4, <3>5 DEF TreeStep, left
  <2> QED BY <2>1, <2>2
<1>6. H(h)
  <2>1. ASSUME NEW size \in 1 .. C, NEW first \in 0 .. (C - size)
        PROVE  t[size][first] = TreeStep(n, key, flags, h, size, first)
    <3> HIDE DEF h
    <3> QED BY <1>2, <1>5 DEF TreeTo, C
  <2>2. h = step(h)
    <3> DEFINE o == h
    <3>1. \A size \in 1 .. C : \A first \in 0 .. (C - size) :
             t[size][first] = TreeStep(n, key, flags, o, size, first)
      BY <2>1
    <3> HIDE DEF o
    <3>2. h = step(o) BY <3>1
    <3> QED BY <3>2 DEF o
  <2> HIDE DEF step, h
  <2> QED BY <1>0, <2>2
<1> DEFINE tree == CHOOSE o : H(o)
<1>7. tree = step(tree)
  <2>1. H(tree)
    <3> HIDE DEF H, h
    <3> QED BY <1>6
  <2> HIDE DEF tree, step
  <2> QED BY <1>0, <2>1
<1> HIDE DEF tree
<1>8. ASSUME NEW size \in 1 .. C, NEW first \in 0 .. (C - size)
      PROVE  tree[size][first] = TreeStep(n, key, flags, tree, size, first)
  <2> DEFINE s(o) == TreeStep(n, key, flags, tree, o, first)
  <2>1. step(tree)[size][first] = TreeStep(n, key, flags, tree, size, first) OBVIOUS
  <2> HIDE DEF step
  <2> QED BY <1>7, <2>1
<1>9. TreeTo(n, key, flags, tree, C) BY <1>8 DEF TreeTo, C
<1> QED BY <1>1, <1>9 DEF tree, C

LEMMA BaseSum ==
    ASSUME NEW a \in Nat, NEW b \in Nat
    PROVE  Base(a + b) = Base(a) + Base(b) /\ (a <= b <=> Base(a) <= Base(b))
<1>1. CHUNK_LEN \in Nat \ {0} BY Lengths
<1> QED BY <1>1 DEF Base

\* How many chunks a message has that ends in chunk number c.
LEMMA ChunksOf ==
    ASSUME NEW c \in Nat, NEW r \in 1 .. CHUNK_LEN
    PROVE  Chunks(Base(c) + r) = c + 1
<1>1. CHUNK_LEN \in Nat \ {0} BY Lengths
<1>2. Base(c) \in Nat /\ r - 1 \in 0 .. (CHUNK_LEN - 1) BY <1>1, BaseIs
<1>3. (c * CHUNK_LEN + (r - 1)) \div CHUNK_LEN = c BY <1>1, <1>2, DivisionBy
<1>4. (Base(c) + r) - 1 = c * CHUNK_LEN + (r - 1) /\ Base(c) + r # 0
  <2>1. (Base(c) + r) - 1 = Base(c) + (r - 1) /\ Base(c) + r # 0 BY <1>1, <1>2
  <2> QED BY <2>1 DEF Base
<1> QED BY <1>3, <1>4, Zenon DEF Chunks

LEMMA ChunksWithin ==
    ASSUME NEW m \in Nat \ {0}, NEW n \in Nat, Base(m) <= n
    PROVE  m <= Chunks(n) /\ Chunks(Base(m)) = m
<1>1. CHUNK_LEN \in Nat \ {0} BY Lengths
<1>2. m - 1 \in Nat /\ (m - 1) + 1 = m OBVIOUS
<1>3. Base(m) = Base(m - 1) + CHUNK_LEN /\ Base(m) \in Nat /\ Base(m - 1) \in Nat
  <2>1. Base(m - 1) \in Nat /\ Base((m - 1) + 1) = Base(m - 1) + CHUNK_LEN BY <1>2, BaseIs
  <2>2. Base(m) \in Nat BY BaseIs
  <2> QED BY <1>2, <2>1, <2>2
<1>4. Chunks(Base(m)) = m
  <2>1. CHUNK_LEN \in 1 .. CHUNK_LEN BY <1>1
  <2>2. Chunks(Base(m - 1) + CHUNK_LEN) = (m - 1) + 1 BY <1>2, <2>1, ChunksOf
  <2> QED BY <1>2, <1>3, <2>2
<1>5. m <= Chunks(n)
  <2> DEFINE q == (n - 1) \div CHUNK_LEN
             s == (n - 1) % CHUNK_LEN
  <2>1. n # 0 /\ n - 1 \in Nat BY <1>1, <1>3
  <2>2. q \in Nat /\ s \in 0 .. (CHUNK_LEN - 1) /\ n - 1 = q * CHUNK_LEN + s
    BY <1>1, <2>1, PartsBy, Zenon
  <2>3. Chunks(n) = q + 1 BY <2>1 DEF Chunks
  <2> HIDE DEF q, s
  <2>4. n <= Base(q + 1)
    <3>1. Base(q + 1) = Base(q) + CHUNK_LEN /\ Base(q) \in Nat BY <2>2, BaseIs
    <3>2. Base(q) = q * CHUNK_LEN BY DEF Base
    <3> QED BY <1>1, <2>2, <3>1, <3>2
  <2>5. q + 1 \in Nat /\ Base(q + 1) \in Nat BY <2>2, BaseIs
  <2>6. Base(m) <= Base(q + 1) BY <1>3, <2>4, <2>5
  <2> QED BY <2>3, <2>5, <2>6, BaseSum
<1> QED BY <1>4, <1>5

LEMMA TreeAt ==
    ASSUME NEW n \in Nat, NEW key, NEW flags, NEW s \in Nat \ {0}, NEW f \in Nat,
           f + s <= Chunks(n)
    PROVE  Tree(n, key, flags)[s][f] = TreeStep(n, key, flags, Tree(n, key, flags), s, f)
<1>1. Chunks(n) \in Nat BY ChunksIs
<1>2. s \in 1 .. Chunks(n) /\ f \in 0 .. (Chunks(n) - s) BY <1>1
<1>3. TreeTo(n, key, flags, Tree(n, key, flags), Chunks(n)) BY TreeIs
<1> QED BY <1>2, <1>3 DEF TreeTo

\* What follows a complete subtree does not matter to it.
LEMMA TreeComplete ==
    ASSUME NEW key, NEW flags
    PROVE  \A s \in Nat \ {0}, f, n \in Nat :
              Base(f + s) <= n
                 => Tree(n, key, flags)[s][f] = Tree(Base(f + s), key, flags)[s][f]
<1> DEFINE tree(n) == Tree(n, key, flags)
           Right(s) == \A f, n \in Nat : Base(f + s) <= n => tree(n)[s][f] = tree(Base(f + s))[s][f]
           T == {s \in Nat : s # 0 => Right(s)}
<1>1. ASSUME NEW s \in Nat, \A j \in 0 .. (s - 1) : j \in T, s # 0,
             NEW f \in Nat, NEW n \in Nat, Base(f + s) <= n
      PROVE  tree(n)[s][f] = tree(Base(f + s))[s][f]
  <2> DEFINE m == Base(f + s)
  <2>1. f + s \in Nat \ {0} /\ m \in Nat /\ m <= m
    <3>1. f + s \in Nat \ {0} BY <1>1
    <3> QED BY <3>1, BaseIs
  <2>2. f + s <= Chunks(n) /\ Chunks(m) = f + s BY <1>1, <2>1, ChunksWithin
  <2>3. tree(n)[s][f] = TreeStep(n, key, flags, tree(n), s, f) BY <1>1, <2>2, TreeAt
  <2>4. tree(m)[s][f] = TreeStep(m, key, flags, tree(m), s, f)
    <3> HIDE DEF m
    <3>1. f + s <= Chunks(m) BY <2>1, <2>2
    <3> QED BY <1>1, <2>1, <3>1, TreeAt
  <2>5. CASE s = 1
    <3>1. CHUNK_LEN \in Nat /\ Base(f) \in Nat /\ m = Base(f) + CHUNK_LEN
      <4>1. Base(f) \in Nat /\ Base(f + 1) = Base(f) + CHUNK_LEN BY BaseIs
      <4> QED BY <2>5, <4>1, ChunkAssumption
    <3>2. TreeChunk(f, n, key, flags) = Out(key, flags, f, Least(CHUNK_LEN, n - Base(f)))
      <4>1. Base(f) <= n BY <1>1, <3>1
      <4> QED BY <4>1, TreeChunkIs
    <3>3. TreeChunk(f, m, key, flags) = Out(key, flags, f, Least(CHUNK_LEN, m - Base(f)))
      <4>1. Base(f) <= m BY <3>1
      <4> HIDE DEF m
      <4> QED BY <2>1, <4>1, TreeChunkIs
    <3>4. Least(CHUNK_LEN, n - Base(f)) = CHUNK_LEN /\ Least(CHUNK_LEN, m - Base(f)) = CHUNK_LEN
      <4>1. m <= n BY <1>1
      <4> HIDE DEF m
      <4> QED BY <3>1, <4>1 DEF Least
    <3> HIDE DEF tree, m
    <3>5. tree(n)[s][f] = TreeChunk(f, n, key, flags) BY <2>3, <2>5 DEF TreeStep
    <3>6. tree(m)[s][f] = TreeChunk(f, m, key, flags) BY <2>4, <2>5 DEF TreeStep
    <3> QED BY <3>2, <3>3, <3>4, <3>5, <3>6 DEF m
  <2>6. CASE s # 1
    <3> DEFINE l == LargestPower(s)
               k == s - l
               x == f + l
    <3>1. /\ l \in 1 .. (s - 1) /\ k \in 1 .. (s - 1) /\ x \in Nat /\ f + l <= f + s
          /\ x + k = f + s
      <4>1. s >= 2 /\ f + s <= f + s /\ f + s \in Nat BY <1>1, <2>6
      <4>2. l \in 1 .. (s - 1) /\ k \in 1 .. (s - 1) /\ x \in Nat /\ x <= f + s /\ x + k = f + s
        BY <4>1, Children
      <4> QED BY <4>2
    <3> HIDE DEF l
    <3>2. l \in 0 .. (s - 1) /\ k \in 0 .. (s - 1) /\ l # 0 /\ k # 0 BY <3>1
    <3> HIDE DEF k, x
    <3>3. Right(l) /\ Right(k)
      <4> HIDE DEF Right
      <4> QED BY <1>1, <3>2
    <3>4. Base(f + l) <= m /\ f + l \in Nat /\ Base(f + l) \in Nat
      <4>1. f + l \in Nat BY <3>1
      <4>2. Base(f + l) \in Nat BY <4>1, BaseIs
      <4> QED BY <2>1, <3>1, <4>1, <4>2, BaseSum
    <3>5. tree(n)[l][f] = tree(Base(f + l))[l][f] /\ tree(m)[l][f] = tree(Base(f + l))[l][f]
      <4>1. Base(f + l) <= n BY <1>1, <2>1, <3>4
      <4> HIDE DEF tree, m
      <4> QED BY <2>1, <3>3, <3>4, <4>1
    <3>6. tree(n)[k][x] = tree(m)[k][x]
      <4>1. Base(x + k) <= n /\ Base(x + k) = m BY <1>1, <3>1
      <4> HIDE DEF tree, m
      <4> QED BY <3>1, <3>3, <4>1
    <3>7. tree(n)[s][f] = Joined2(key, flags, tree(n)[l][f], tree(n)[k][x])
      <4> HIDE DEF tree
      <4> QED BY <2>3, <2>6 DEF TreeStep, l, k, x
    <3>8. tree(m)[s][f] = Joined2(key, flags, tree(m)[l][f], tree(m)[k][x])
      <4> HIDE DEF tree, m
      <4> QED BY <2>4, <2>6 DEF TreeStep, l, k, x
    <3> HIDE DEF tree, m
    <3>9. tree(n)[s][f] = tree(m)[s][f] BY <3>5, <3>6, <3>7, <3>8
    <3> QED BY <3>9 DEF m
  <2> QED BY <2>5, <2>6
<1>2. \A s \in Nat : (\A j \in 0 .. (s - 1) : j \in T) => s \in T
  <2> SUFFICES ASSUME NEW s \in Nat, \A j \in 0 .. (s - 1) : j \in T PROVE s \in T OBVIOUS
  <2>1. s # 0 => Right(s)
    <3> HIDE DEF T, tree
    <3> QED BY <1>1
  <2> QED BY <2>1
<1>3. \A s \in Nat : s \in T
  <2> HIDE DEF T
  <2> QED BY <1>2, BySmaller
<1>4. \A s \in Nat \ {0} : Right(s) BY <1>3
<1> QED BY <1>4

\* The chaining value of the complete subtree of s chunks from number f on.
Node(key, flags, s, f) == output_chaining_value(Tree(Base(f + s), key, flags)[s][f])

LEMMA NodeIs ==
    ASSUME NEW key, NEW flags, NEW s \in Nat \ {0}, NEW f \in Nat, NEW n \in Nat, Base(f + s) <= n
    PROVE  output_chaining_value(Tree(n, key, flags)[s][f]) = Node(key, flags, s, f)
<1>1. Tree(n, key, flags)[s][f] = Tree(Base(f + s), key, flags)[s][f] BY TreeComplete
<1> QED BY <1>1 DEF Node

LEMMA NodeOne ==
    ASSUME NEW key, NEW flags, NEW f \in Nat
    PROVE  Node(key, flags, 1, f) = output_chaining_value(Out(key, flags, f, CHUNK_LEN))
<1> DEFINE m == Base(f + 1)
           tree == Tree(m, key, flags)
<1>1. m \in Nat /\ f + 1 \in Nat \ {0} /\ m <= m
  <2>1. f + 1 \in Nat \ {0} OBVIOUS
  <2>2. m \in Nat BY <2>1, BaseIs
  <2> HIDE DEF m
  <2> QED BY <2>1, <2>2
<1>2. CHUNK_LEN \in Nat /\ Base(f) \in Nat /\ m = Base(f) + CHUNK_LEN
  <2>1. Base(f) \in Nat /\ Base(f + 1) = Base(f) + CHUNK_LEN BY BaseIs
  <2> QED BY <2>1, ChunkAssumption
<1>3. f + 1 <= Chunks(m) BY <1>1, ChunksWithin
<1> HIDE DEF m
<1>4. tree[1][f] = TreeStep(m, key, flags, tree, 1, f) BY <1>1, <1>3, TreeAt
<1>5. TreeChunk(f, m, key, flags) = Out(key, flags, f, Least(CHUNK_LEN, m - Base(f)))
  <2>1. Base(f) <= m BY <1>2
  <2> QED BY <1>1, <2>1, TreeChunkIs
<1>6. Least(CHUNK_LEN, m - Base(f)) = CHUNK_LEN BY <1>2 DEF Least
<1> HIDE DEF tree
<1>7. tree[1][f] = Out(key, flags, f, CHUNK_LEN) BY <1>4, <1>5, <1>6 DEF TreeStep
<1> QED BY <1>7 DEF Node, tree, m

LEMMA NodeDouble ==
    ASSUME NEW key, NEW flags, NEW p \in Powers, NEW f \in Nat
    PROVE  Node(key, flags, 2 * p, f)
             = output_chaining_value(parent_output(Node(key, flags, p, f), Node(key, flags, p, f + p),
                                                   key, flags))
<1> DEFINE s == 2 * p
           m == Base(f + s)
           tree == Tree(m, key, flags)
           x == f + p
<1>1. p \in Nat \ {0} /\ s \in Nat \ {0} /\ s # 1 /\ f + s \in Nat \ {0} /\ x \in Nat
      /\ x + p = f + s /\ x <= f + s /\ s - p = p
  <2>1. p \in Nat \ {0} BY PowerPositive
  <2> QED BY <2>1
<1>2. m \in Nat /\ m <= m
  <2>1. m \in Nat BY <1>1, BaseIs
  <2> HIDE DEF m
  <2> QED BY <2>1
<1>3. f + s <= Chunks(m) BY <1>1, <1>2, ChunksWithin
<1>4. LargestPower(s) = p BY LargestPowerOfPower
<1>5. Base(x) <= m /\ Base(x + p) <= m
  <2>1. Base(x) <= Base(f + s)
    <3> HIDE DEF s, x
    <3> QED BY <1>1, BaseSum
  <2> HIDE DEF s, x
  <2> QED BY <1>1, <1>2, <2>1
<1> HIDE DEF m, s
<1>6. tree[s][f] = TreeStep(m, key, flags, tree, s, f) BY <1>1, <1>2, <1>3, TreeAt
<1>7. output_chaining_value(tree[p][f]) = Node(key, flags, p, f) BY <1>1, <1>2, <1>5, NodeIs
<1>8. output_chaining_value(tree[p][x]) = Node(key, flags, p, x)
  <2> HIDE DEF x
  <2> QED BY <1>1, <1>2, <1>5, NodeIs
<1> HIDE DEF tree
<1>9. tree[s][f] = Joined2(key, flags, tree[p][f], tree[p][x])
  <2> HIDE DEF x
  <2>1. tree[s][f] = Joined2(key, flags, tree[p][f], tree[s - p][f + p])
    BY <1>1, <1>4, <1>6 DEF TreeStep
  <2> QED BY <1>1, <2>1 DEF x
<1>10. tree[s][f] = parent_output(Node(key, flags, p, f), Node(key, flags, p, x), key, flags)
  <2> HIDE DEF x
  <2> QED BY <1>7, <1>8, <1>9 DEF Joined2, parent_output
<1> QED BY <1>10 DEF Node, tree, m, s

-----------------------------------------------------------------------------
(* Subtrees of complete chunks.                                            *)

ChunkFlags(flags) == [all |-> flags, start |-> {"CHUNK_START"}, end |-> {"CHUNK_END"}]

LEMMA FullChunk ==
    ASSUME NEW key, NEW flags, NEW c \in Nat
    PROVE  output_chaining_value(Out(key, flags, c, CHUNK_LEN))
             = compress(Cvs(key, flags, c)[Blocks - 1], Block(c, Blocks), BLOCK_LEN, Words(c),
                        (flags \cup StartFlag(Blocks - 1)) \cup {"CHUNK_END"})
<1> DEFINE b == Blocks - 1
<1>1. CHUNK_LEN \in Nat /\ BLOCK_LEN \in Nat \ {0} /\ b \in Nat /\ b + 1 = Blocks
  <2>1. CHUNK_LEN \in Nat \ {0} /\ BLOCK_LEN \in Nat \ {0} /\ Blocks \in Nat \ {0} BY Lengths
  <2> QED BY <2>1
<1> HIDE DEF b
<1>2. Full(CHUNK_LEN) = b /\ CHUNK_LEN - Offset(b) = BLOCK_LEN
  <2>1. Offset(b + 1) = Offset(b) + BLOCK_LEN /\ Offset(b) \in Nat BY <1>1, OffsetIs
  <2>2. CHUNK_LEN = Offset(b) + BLOCK_LEN BY <1>1, <2>1, Lengths
  <2>3. BLOCK_LEN \in 1 .. BLOCK_LEN BY <1>1
  <2>4. Full(Offset(b) + BLOCK_LEN) = b BY <1>1, <2>3, FullOf
  <2> QED BY <1>1, <2>1, <2>2, <2>4
<1>3. Out(key, flags, c, CHUNK_LEN) = LastBlock(key, flags, c, b, BLOCK_LEN)
  <2>1. Out(key, flags, c, CHUNK_LEN)
          = LastBlock(key, flags, c, Full(CHUNK_LEN), CHUNK_LEN - Offset(Full(CHUNK_LEN)))
    BY <1>1, OutIs
  <2> QED BY <1>2, <2>1
<1>4. Buffer(c, b, BLOCK_LEN) = Block(c, b + 1) BY <1>1, BufferBlock
<1> DEFINE cv == Cvs(key, flags, c)[b]
           all == (flags \cup StartFlag(b)) \cup {"CHUNK_END"}
           block == Block(c, b + 1)
<1>5. LastBlock(key, flags, c, b, BLOCK_LEN) = make_output(cv, block, BLOCK_LEN, c, all)
  BY <1>4 DEF LastBlock
<1>6. output_chaining_value(make_output(cv, block, BLOCK_LEN, c, all))
        = compress(cv, block, BLOCK_LEN, Words(c), all)
  <2> HIDE DEF cv, block, all
  <2> QED BY DEF output_chaining_value, make_output
<1>7. output_chaining_value(Out(key, flags, c, CHUNK_LEN))
        = compress(cv, block, BLOCK_LEN, Words(c), all)
  <2> HIDE DEF cv, block, all
  <2> QED BY <1>3, <1>5, <1>6
<1> QED BY <1>1, <1>7 DEF b

\* hash_one and the chunk state hash a chunk alike.
LEMMA HashOneIs ==
    ASSUME NEW key, NEW flags, NEW c \in Nat, NEW blocks, IsSeq(blocks, Blocks),
           \A b \in 1 .. Blocks : blocks[b] = Block(c, b)
    PROVE  hash_one(blocks, key, Words(c), ChunkFlags(flags)) = Node(key, flags, 1, c)
<1> DEFINE n == Len(blocks)
           fl == ChunkFlags(flags)
           all(b) == fl.all \cup (IF b = 1 THEN fl.start ELSE {})
                            \cup (IF b = n THEN fl.end ELSE {})
           Is(b, f) == IF b = 0
                       THEN key
                       ELSE compress(f[b - 1], blocks[b], BLOCK_LEN, Words(c), all(b))
           H(f) == f = [b \in 0 .. n |-> Is(b, f)]
           cvs == Cvs(key, flags, c)
           f == [b \in 0 .. n |-> IF b < n THEN cvs[b] ELSE Node(key, flags, 1, c)]
<1>1. hash_one(blocks, key, Words(c), fl) = (CHOOSE h : H(h))[n] BY DEF hash_one
<1>2. n = Blocks /\ n \in Nat \ {0}
  <2>1. Blocks \in Nat \ {0} BY Lengths
  <2>2. Len(blocks) = Blocks BY SeqLen
  <2> QED BY <2>1, <2>2
<1> HIDE DEF n
<1>3. fl.all = flags /\ fl.start = {"CHUNK_START"} /\ fl.end = {"CHUNK_END"} BY DEF ChunkFlags
<1> HIDE DEF fl
<1>4. ASSUME NEW b \in 1 .. n
      PROVE  all(b) = IF b < n THEN flags \cup StartFlag(b - 1)
                      ELSE (flags \cup StartFlag(b - 1)) \cup {"CHUNK_END"}
  <2> DEFINE start == IF b = 1 THEN {"CHUNK_START"} ELSE {}
             end == IF b = n THEN {"CHUNK_END"} ELSE {}
  <2>1. start = StartFlag(b - 1) BY DEF StartFlag
  <2>2. all(b) = (flags \cup start) \cup end BY <1>3
  <2>3. b < n => end = {} BY <1>2
  <2>4. ~(b < n) => end = {"CHUNK_END"} BY <1>2
  <2> HIDE DEF all, start, end
  <2> QED BY <2>1, <2>2, <2>3, <2>4
<1> HIDE DEF all
<1>5. Chained(key, flags, c, cvs, Blocks) BY CvsAre
<1>6. ASSUME NEW b \in 0 .. n, NEW h, b # 0 => h[b - 1] = f[b - 1] PROVE Is(b, h) = f[b]
  <2>1. CASE b = 0
    <3>1. f[0] = cvs[0] BY <1>2
    <3>2. cvs[0] = key BY <1>5 DEF Chained
    <3> HIDE DEF f, cvs
    <3> QED BY <2>1, <3>1, <3>2
  <2>2. CASE b # 0
    <3>1. b \in 1 .. Blocks /\ b - 1 \in 0 .. n /\ b - 1 < n BY <1>2, <2>2
    <3>2. h[b - 1] = cvs[b - 1] BY <1>6, <2>2, <3>1
    <3>3. Is(b, h) = compress(cvs[b - 1], Block(c, b), BLOCK_LEN, Words(c), all(b))
      BY <2>2, <3>1, <3>2
    <3> HIDE DEF Is
    <3>4. CASE b < n
      <4>1. cvs[b] = CvStep(key, flags, c, b, cvs[b - 1]) BY <1>5, <3>1 DEF Chained
      <4>2. f[b] = cvs[b] BY <3>4
      <4>3. all(b) = flags \cup StartFlag(b - 1) BY <1>4, <2>2, <3>4
      <4> HIDE DEF f, cvs
      <4> QED BY <3>3, <4>1, <4>2, <4>3 DEF CvStep
    <3>5. CASE ~(b < n)
      <4>1. b = Blocks BY <1>2, <3>1, <3>5
      <4>2. f[b] = Node(key, flags, 1, c) BY <3>5
      <4>3. all(b) = (flags \cup StartFlag(b - 1)) \cup {"CHUNK_END"} BY <1>4, <2>2, <3>5
      <4>4. Node(key, flags, 1, c) = output_chaining_value(Out(key, flags, c, CHUNK_LEN))
        BY NodeOne
      <4>5. output_chaining_value(Out(key, flags, c, CHUNK_LEN))
              = compress(cvs[Blocks - 1], Block(c, Blocks), BLOCK_LEN, Words(c),
                         (flags \cup StartFlag(Blocks - 1)) \cup {"CHUNK_END"})
        BY FullChunk
      <4> HIDE DEF f, cvs
      <4> QED BY <3>3, <4>1, <4>2, <4>3, <4>4, <4>5
    <3> QED BY <3>4, <3>5
  <2> QED BY <2>1, <2>2
<1>7. H(f)
  <2>1. \A b \in 0 .. n : f[b] = Is(b, f)
    <3> HIDE DEF f, Is
    <3> QED BY <1>6
  <2>2. f = [b \in 0 .. n |-> f[b]] OBVIOUS
  <2> HIDE DEF f, Is
  <2> QED BY <2>1, <2>2
<1> DEFINE chain == CHOOSE h : H(h)
<1>8. \A b \in 0 .. n : chain[b] = Is(b, chain)
  <2>1. H(chain)
    <3> HIDE DEF H, f
    <3> QED BY <1>7
  <2> HIDE DEF chain, Is
  <2> QED BY <2>1
<1> HIDE DEF chain
<1>9. chain[n] = f[n]
  <2>1. ASSUME NEW b \in 0 .. n, b # 0 => chain[b - 1] = f[b - 1] PROVE chain[b] = f[b]
    <3>1. Is(b, chain) = f[b]
      <4> HIDE DEF Is, f
      <4> QED BY <1>6, <2>1
    <3> HIDE DEF Is, f
    <3> QED BY <1>8, <3>1
  <2> HIDE DEF f
  <2>2. chain[0] = f[0]
    <3>1. 0 \in 0 .. n BY <1>2
    <3> QED BY <2>1, <3>1
  <2>3. \A b \in 1 .. n : chain[b - 1] = f[b - 1] => chain[b] = f[b]
    <3>1. \A b \in 1 .. n : b \in 0 .. n OBVIOUS
    <3> QED BY <2>1, <3>1
  <2>4. n \in Nat /\ n \in 0 .. n BY <1>2
  <2>5. \A b \in 0 .. n : chain[b] = f[b] BY <2>2, <2>3, <2>4, SameByStep
  <2> QED BY <2>4, <2>5
<1>10. f[n] = Node(key, flags, 1, c)
  <2>1. n \in 0 .. n /\ ~(n < n) BY <1>2
  <2> QED BY <2>1
<1> QED BY <1>1, <1>9, <1>10 DEF chain, fl

Hashes(inputs, key, counter, increment_counter, flags) ==
    [i \in 1 .. Len(inputs) |->
        hash_one(inputs[i], key, Words(counter + Delta(increment_counter, i - 1)), flags)]

LEMMA HashesAre ==
    ASSUME NEW cpu, NEW inputs, Len(inputs) \in Nat, NEW key, NEW counter \in Nat,
           NEW increment_counter \in BOOLEAN, NEW flags
    PROVE  blake3_hash_many(cpu, inputs, key, counter, increment_counter, flags)
             = Hashes(inputs, key, counter, increment_counter, flags)
BY HashManyDispatched DEF Hashes

\* One counter for all inputs, or one for each.
CountedMany(cpu, inputs, key, counter, flags) ==
    blake3_hash_many(cpu, inputs, key, counter, TRUE, flags)
EqualMany(cpu, inputs, key, counter, flags) ==
    blake3_hash_many(cpu, inputs, key, counter, FALSE, flags)

CountedHashes(inputs, key, counter, flags) ==
    [i \in 1 .. Len(inputs) |-> hash_one(inputs[i], key, Words(counter + (i - 1)), flags)]
EqualHashes(inputs, key, counter, flags) ==
    [i \in 1 .. Len(inputs) |-> hash_one(inputs[i], key, Words(counter), flags)]

LEMMA CountedAre ==
    ASSUME NEW cpu, NEW inputs, Len(inputs) \in Nat, NEW key, NEW counter \in Nat, NEW flags
    PROVE  CountedMany(cpu, inputs, key, counter, flags) = CountedHashes(inputs, key, counter, flags)
<1>1. blake3_hash_many(cpu, inputs, key, counter, TRUE, flags)
        = Hashes(inputs, key, counter, TRUE, flags)
  <2>1. \A increment_counter \in BOOLEAN :
           blake3_hash_many(cpu, inputs, key, counter, increment_counter, flags)
             = Hashes(inputs, key, counter, increment_counter, flags)
    BY HashesAre
  <2> QED BY <2>1, Zenon
<1>2. Hashes(inputs, key, counter, TRUE, flags) = CountedHashes(inputs, key, counter, flags)
  BY DEF Hashes, CountedHashes, Delta
<1> QED BY <1>1, <1>2, Zenon DEF CountedMany

LEMMA EqualAre ==
    ASSUME NEW cpu, NEW inputs, Len(inputs) \in Nat, NEW key, NEW counter \in Nat, NEW flags
    PROVE  EqualMany(cpu, inputs, key, counter, flags) = EqualHashes(inputs, key, counter, flags)
<1>1. blake3_hash_many(cpu, inputs, key, counter, FALSE, flags)
        = Hashes(inputs, key, counter, FALSE, flags)
  <2>1. \A increment_counter \in BOOLEAN :
           blake3_hash_many(cpu, inputs, key, counter, increment_counter, flags)
             = Hashes(inputs, key, counter, increment_counter, flags)
    BY HashesAre
  <2> QED BY <2>1, Zenon
<1>2. Hashes(inputs, key, counter, FALSE, flags) = EqualHashes(inputs, key, counter, flags)
  <2>1. counter + 0 = counter OBVIOUS
  <2> QED BY <2>1 DEF Hashes, EqualHashes, Delta
<1> QED BY <1>1, <1>2, Zenon DEF EqualMany

\* The chaining values of w subtrees of p chunks each.
Layer(key, flags, f, p, w) == [i \in 1 .. w |-> Node(key, flags, p, f + (i - 1) * p)]

LEMMA ChunkBlock ==
    ASSUME NEW c \in Nat, NEW s \in Nat, NEW chunk \in 0 .. (s - 1), NEW b \in 1 .. Blocks
    PROVE  SubSeq(Input(Base(c) + 1, Base(c) + Base(s)),
                  chunk * CHUNK_LEN + (b - 1) * BLOCK_LEN + 1, chunk * CHUNK_LEN + b * BLOCK_LEN)
             = Block(c + chunk, b)
<1> DEFINE a == Base(c)
           m == Base(s)
           i == Base(chunk) + Offset(b - 1)
           j == Base(chunk) + Offset(b)
<1>1. b - 1 \in Nat /\ b \in Nat /\ b # 0 /\ chunk \in Nat /\ chunk + 1 \in Nat /\ chunk + 1 <= s
      /\ Blocks \in Nat /\ b <= Blocks
  <2>1. Blocks \in Nat BY Lengths
  <2> QED BY <2>1
<1>2. /\ Offset(b) \in Nat /\ Offset(b - 1) \in Nat /\ Offset(b) = Offset(b - 1) + BLOCK_LEN
      /\ BLOCK_LEN \in Nat /\ CHUNK_LEN \in Nat
  <2>1. Offset(b) \in Nat /\ Offset(b) = Offset(b - 1) + BLOCK_LEN BY <1>1, OffsetIs
  <2>2. Offset(b - 1) \in Nat BY <1>1, OffsetIs
  <2> QED BY <2>1, <2>2, BlockAssumption, ChunkAssumption
<1>3. a \in Nat /\ m \in Nat /\ Base(chunk) \in Nat /\ Base(chunk + 1) = Base(chunk) + CHUNK_LEN
  <2>1. a \in Nat BY BaseIs
  <2>2. m \in Nat BY BaseIs
  <2>3. Base(chunk) \in Nat /\ Base(chunk + 1) = Base(chunk) + CHUNK_LEN BY <1>1, BaseIs
  <2> QED BY <2>1, <2>2, <2>3
<1>4. Offset(b) <= CHUNK_LEN
  <2>1. CHUNK_LEN = Offset(Blocks) BY Lengths
  <2>2. b = Blocks \/ b < Blocks BY <1>1
  <2>3. b < Blocks => Offset(b) < Offset(Blocks) BY <1>1, OffsetSum
  <2> QED BY <1>2, <2>1, <2>2, <2>3
<1>5. Base(chunk + 1) <= m BY <1>1, BaseSum
<1> HIDE DEF a, m
<1>6. i \in 0 .. m /\ j \in i .. m BY <1>2, <1>3, <1>4, <1>5
<1>7. SubSeq(Input(a + 1, a + m), i + 1, j) = Input((a + i) + 1, a + j)
  <2> HIDE DEF i, j
  <2> QED BY <1>3, <1>6, InputPart
<1>8. Base(c + chunk) = a + Base(chunk) BY <1>1, BaseSum DEF a
<1>9. a + i = Base(c + chunk) + Offset(b - 1) /\ a + j = Base(c + chunk) + Offset(b)
  BY <1>2, <1>3, <1>8
<1>10. i + 1 = chunk * CHUNK_LEN + (b - 1) * BLOCK_LEN + 1 /\ j = chunk * CHUNK_LEN + b * BLOCK_LEN
  <2>1. i + 1 = Base(chunk) + Offset(b - 1) + 1 BY <1>2, <1>3
  <2> QED BY <2>1, Zenon DEF Base, Offset
<1> HIDE DEF i, j
<1> QED BY <1>7, <1>9, <1>10, Zenon DEF Block, a, m

LEMMA ChunksParallelIs ==
    ASSUME NEW cpu, NEW key, NEW flags, NEW c \in Nat, NEW s \in Nat \ {0}
    PROVE  compress_chunks_parallel(cpu, Input(Base(c) + 1, Base(c) + Base(s)), key, c, flags)
             = Layer(key, flags, c, 1, s)
<1> DEFINE input == Input(Base(c) + 1, Base(c) + Base(s))
           n == Len(input) \div CHUNK_LEN
           block(chunk, b) ==
               SubSeq(input, chunk * CHUNK_LEN + (b - 1) * BLOCK_LEN + 1,
                      chunk * CHUNK_LEN + b * BLOCK_LEN)
           chunks == [i \in 1 .. n |-> [b \in 1 .. CHUNK_LEN \div BLOCK_LEN |-> block(i - 1, b)]]
           partial == Rest(input, n * CHUNK_LEN)
           hashed == CountedMany(cpu, chunks, key, c, ChunkFlags(flags))
           layer == Layer(key, flags, c, 1, s)
<1>1. CHUNK_LEN \in Nat \ {0} /\ Base(c) \in Nat /\ Base(s) \in Nat /\ Blocks \in Nat
  <2>1. CHUNK_LEN \in Nat \ {0} /\ Blocks \in Nat BY Lengths
  <2>2. Base(c) \in Nat BY BaseIs
  <2>3. Base(s) \in Nat BY BaseIs
  <2> QED BY <2>1, <2>2, <2>3
<1>2. Len(input) = Base(s) BY <1>1, InputIs
<1>3. n = s
  <2>1. (s * CHUNK_LEN + 0) \div CHUNK_LEN = s
    <3>1. 0 \in 0 .. (CHUNK_LEN - 1) /\ s \in Nat BY <1>1
    <3> QED BY <1>1, <3>1, DivisionBy
  <2>2. s * CHUNK_LEN + 0 = Base(s) BY <1>1 DEF Base
  <2> HIDE DEF input
  <2> QED BY <1>2, <2>1, <2>2
<1> HIDE DEF n
<1>4. partial = <<>>
  <2>1. n * CHUNK_LEN = Base(s) BY <1>3 DEF Base
  <2>2. Base(s) \in 0 .. Base(s) /\ Base(s) \in Base(s) .. Base(s) BY <1>1
  <2>3. Rest(input, Base(s)) = Input((Base(c) + Base(s)) + 1, Base(c) + Base(s))
    BY <1>1, <2>2, InputPart
  <2> DEFINE e == Base(c) + Base(s)
  <2>4. e \in Nat /\ e + 0 = e BY <1>1
  <2> HIDE DEF e
  <2>5. IsSeq(Input(e + 1, e + 0), 0) BY <2>4, InputIs
  <2>6. IsSeq(<<>>, 0) BY DEF IsSeq
  <2>7. Input(e + 1, e + 0) = <<>>
    <3> DEFINE x == Input(e + 1, e + 0)
    <3>1. \A k \in 1 .. 0 : x[k] = <<>>[k] OBVIOUS
    <3> HIDE DEF x
    <3> QED BY <2>5, <2>6, <3>1, SeqSame DEF x
  <2> HIDE DEF input
  <2> QED BY <2>1, <2>3, <2>4, <2>7 DEF e
<1>5. IsSeq(chunks, s) /\ \A i \in 1 .. s : chunks[i] = [b \in 1 .. Blocks |-> block(i - 1, b)]
  BY <1>3 DEF IsSeq, Blocks
<1>6. Len(chunks) = s
  <2> HIDE DEF chunks
  <2> QED BY <1>5, SeqLen
<1>7. ASSUME NEW i \in 1 .. s
      PROVE  hash_one(chunks[i], key, Words(c + (i - 1)), ChunkFlags(flags))
               = Node(key, flags, 1, c + (i - 1) * 1)
  <2> DEFINE blocks == chunks[i]
             d == c + (i - 1)
  <2>1. d \in Nat /\ (i - 1) * 1 = i - 1 /\ i - 1 \in 0 .. (s - 1) OBVIOUS
  <2>2. IsSeq(blocks, Blocks) /\ \A b \in 1 .. Blocks : blocks[b] = block(i - 1, b)
    <3>1. blocks = [b \in 1 .. Blocks |-> block(i - 1, b)]
      <4> HIDE DEF chunks, block
      <4> QED BY <1>5
    <3> HIDE DEF blocks, block
    <3> QED BY <1>1, <3>1 DEF IsSeq
  <2>3. \A b \in 1 .. Blocks : block(i - 1, b) = Block(d, b)
    <3> SUFFICES ASSUME NEW b \in 1 .. Blocks PROVE block(i - 1, b) = Block(d, b) OBVIOUS
    <3> DEFINE x == i - 1
    <3>1. x \in 0 .. (s - 1) /\ s \in Nat BY <2>1
    <3> HIDE DEF x
    <3>2. block(x, b) = Block(c + x, b) BY <3>1, ChunkBlock, Zenon
    <3> QED BY <3>2 DEF x
  <2> HIDE DEF blocks, block, d
  <2>4. hash_one(blocks, key, Words(d), ChunkFlags(flags)) = Node(key, flags, 1, d)
    BY <2>1, <2>2, <2>3, HashOneIs
  <2> QED BY <2>1, <2>4 DEF d, blocks
<1>8. hashed = layer
  <2>1. Len(chunks) \in Nat BY <1>6
  <2>2. hashed = CountedHashes(chunks, key, c, ChunkFlags(flags))
    <3> HIDE DEF chunks
    <3> QED BY <2>1, CountedAre
  <2> HIDE DEF chunks, hashed
  <2> QED BY <1>6, <1>7, <2>2 DEF Layer, CountedHashes
<1>9. hashed \o <<>> = layer
  <2>1. layer \in Seq({layer[i] : i \in 1 .. s})
    <3>1. IsSeq(layer, s) BY DEF Layer, IsSeq
    <3> DEFINE S == {layer[i] : i \in 1 .. s}
    <3>2. \A i \in 1 .. s : layer[i] \in S OBVIOUS
    <3> HIDE DEF S, layer
    <3>3. layer \in Seq(S) BY <3>1, <3>2, SeqIn
    <3> QED BY <3>3 DEF S
  <2> HIDE DEF hashed, layer
  <2> QED BY <1>8, <2>1, ConcatEmptySeq
<1>10. compress_chunks_parallel(cpu, input, key, c, flags)
         = hashed \o IF partial = <<>>
                     THEN <<>>
                     ELSE << output_chaining_value(chunk_state_output(
                                ChunkOf(partial, key, c + n, flags))) >>
  BY Zenon DEF compress_chunks_parallel, ChunkFlags, CountedMany, n
<1> HIDE DEF hashed, partial, layer
<1> QED BY <1>4, <1>9, <1>10 DEF layer

ParentFlags(flags) == [all |-> flags \cup {"PARENT"}, start |-> {}, end |-> {}]

LEMMA HashOneBlock ==
    ASSUME NEW block, NEW key, NEW words, NEW flags
    PROVE  hash_one(<<block>>, key, words, ParentFlags(flags))
             = compress(key, block, BLOCK_LEN, words, flags \cup {"PARENT"})
<1> DEFINE blocks == <<block>>
           n == Len(blocks)
           fl == ParentFlags(flags)
           all(b) == fl.all \cup (IF b = 1 THEN fl.start ELSE {})
                            \cup (IF b = n THEN fl.end ELSE {})
           Is(b, f) == IF b = 0
                       THEN key
                       ELSE compress(f[b - 1], blocks[b], BLOCK_LEN, words, all(b))
           H(f) == f = [b \in 0 .. n |-> Is(b, f)]
           last == compress(key, block, BLOCK_LEN, words, flags \cup {"PARENT"})
           f == [b \in 0 .. 1 |-> IF b = 0 THEN key ELSE last]
<1>1. hash_one(blocks, key, words, fl) = (CHOOSE h : H(h))[n] BY DEF hash_one
<1>2. n = 1 /\ blocks[1] = block OBVIOUS
<1> HIDE DEF n, blocks
<1>3. \A b : all(b) = flags \cup {"PARENT"}
  <2>1. fl.all = flags \cup {"PARENT"} /\ fl.start = {} /\ fl.end = {} BY DEF ParentFlags
  <2> DEFINE x == flags \cup {"PARENT"}
  <2> HIDE DEF x, fl
  <2>2. fl.all = x BY <2>1 DEF x
  <2>3. \A b : all(b) = x BY <2>1, <2>2
  <2> HIDE DEF all
  <2> QED BY <2>3 DEF x
<1> HIDE DEF all, fl
<1>4. ASSUME NEW h, h[0] = key PROVE Is(1, h) = last
  <2>1. Is(1, h) = compress(h[1 - 1], blocks[1], BLOCK_LEN, words, all(1)) OBVIOUS
  <2>2. 1 - 1 = 0 OBVIOUS
  <2> HIDE DEF Is
  <2>3. h[1 - 1] = key BY <1>4, <2>2
  <2>4. all(1) = flags \cup {"PARENT"} BY <1>3
  <2> QED BY <1>2, <2>1, <2>3, <2>4
<1>5. \A h : Is(0, h) = key OBVIOUS
<1> HIDE DEF Is, last
<1>6. H(f)
  <2>1. f[0] = key /\ f[1] = last OBVIOUS
  <2>2. f = [b \in 0 .. 1 |-> f[b]] OBVIOUS
  <2> HIDE DEF f
  <2>3. \A b \in 0 .. 1 : f[b] = Is(b, f)
    <3>1. \A b \in 0 .. 1 : b = 0 \/ b = 1 OBVIOUS
    <3>2. Is(1, f) = last /\ Is(0, f) = key BY <1>4, <1>5, <2>1
    <3> QED BY <2>1, <3>1, <3>2
  <2> QED BY <1>2, <2>2, <2>3
<1> DEFINE chain == CHOOSE h : H(h)
<1>7. \A b \in 0 .. 1 : chain[b] = Is(b, chain)
  <2>1. H(chain)
    <3> HIDE DEF H, f
    <3> QED BY <1>6
  <2> HIDE DEF chain
  <2> QED BY <1>2, <2>1
<1> HIDE DEF chain
<1>8. chain[0] = key /\ chain[1] = Is(1, chain)
  <2>1. 0 \in 0 .. 1 /\ 1 \in 0 .. 1 OBVIOUS
  <2> QED BY <1>5, <1>7, <2>1
<1>9. chain[1] = last BY <1>4, <1>8
<1> QED BY <1>1, <1>2, <1>9 DEF chain, fl, last, blocks

LEMMA LayerIs ==
    ASSUME NEW key, NEW flags, NEW f, NEW p, NEW w \in Nat
    PROVE  /\ IsSeq(Layer(key, flags, f, p, w), w) /\ Len(Layer(key, flags, f, p, w)) = w
           /\ \A i \in 1 .. w : Layer(key, flags, f, p, w)[i] = Node(key, flags, p, f + (i - 1) * p)
<1> DEFINE layer == Layer(key, flags, f, p, w)
<1>1. IsSeq(layer, w) BY DEF Layer, IsSeq
<1>2. \A i \in 1 .. w : layer[i] = Node(key, flags, p, f + (i - 1) * p) BY DEF Layer
<1>3. Len(layer) = w
  <2> HIDE DEF layer
  <2> QED BY <1>1, SeqLen
<1> QED BY <1>1, <1>2, <1>3

\* The rest of a sequence that is used up.
LEMMA RestEmpty ==
    ASSUME NEW s, NEW n, IsSeq(s, n)
    PROVE  Rest(s, n) = <<>>
<1>1. n \in Nat /\ Len(s) = n BY SeqLen
<1>2. IsSeq(SubSeq(s, n + 1, n), 0)
  <2> DEFINE a == n + 1
  <2>1. a \in Int /\ n \in Int /\ 0 \in Nat /\ n + 1 = a + 0 BY <1>1
  <2> HIDE DEF a
  <2>2. IsSeq(SubSeq(s, a, n), 0) BY <2>1, SubSeqIs
  <2> QED BY <2>2 DEF a
<1>3. IsSeq(<<>>, 0) BY DEF IsSeq
<1> DEFINE r == SubSeq(s, n + 1, n)
<1>4. Rest(s, n) = r BY <1>1 DEF Rest
<1>5. \A k \in 1 .. 0 : r[k] = <<>>[k] OBVIOUS
<1> HIDE DEF r
<1>6. IsSeq(r, 0) BY <1>2 DEF r
<1>7. r = <<>> BY <1>3, <1>5, <1>6, SeqSame
<1> QED BY <1>4, <1>7

LEMMA ConcatEmpty ==
    ASSUME NEW s, NEW n, IsSeq(s, n)
    PROVE  s \o <<>> = s
<1> DEFINE S == {s[i] : i \in 1 .. n}
<1>1. \A i \in 1 .. n : s[i] \in S OBVIOUS
<1> HIDE DEF S
<1>2. s \in Seq(S) BY <1>1, SeqIn
<1> QED BY <1>2, ConcatEmptySeq

LEMMA ParentsParallelIs ==
    ASSUME NEW cpu, NEW key, NEW flags, NEW f \in Nat, NEW p \in Powers, NEW h \in Nat
    PROVE  compress_parents_parallel(cpu, Layer(key, flags, f, p, 2 * h), key, flags)
             = Layer(key, flags, f, 2 * p, h)
<1> DEFINE cvs == Layer(key, flags, f, p, 2 * h)
           n == Len(cvs) \div 2
           parents == [i \in 1 .. n |-> << <<cvs[2 * i - 1], cvs[2 * i]>> >>]
           hashed == EqualMany(cpu, parents, key, 0, ParentFlags(flags))
           layer == Layer(key, flags, f, 2 * p, h)
<1>1. 2 * h \in Nat /\ p \in Nat \ {0} BY PowerPositive
<1>2. /\ IsSeq(cvs, 2 * h) /\ Len(cvs) = 2 * h
      /\ \A i \in 1 .. 2 * h : cvs[i] = Node(key, flags, p, f + (i - 1) * p)
  BY <1>1, LayerIs
<1>3. n = h
  <2> HIDE DEF cvs
  <2> QED BY <1>2
<1> HIDE DEF n
<1>4. IsSeq(parents, h) /\ \A i \in 1 .. h : parents[i] = << <<cvs[2 * i - 1], cvs[2 * i]>> >>
  <2> HIDE DEF cvs
  <2> QED BY <1>3 DEF IsSeq
<1>5. Len(parents) = h
  <2> HIDE DEF parents
  <2> QED BY <1>4, SeqLen
<1>6. ASSUME NEW i \in 1 .. h
      PROVE  hash_one(parents[i], key, Words(0), ParentFlags(flags))
               = Node(key, flags, 2 * p, f + (i - 1) * (2 * p))
  <2> DEFINE x == (i - 1) * p
             d == f + (i - 1) * (2 * p)
             left == Node(key, flags, p, d)
             right == Node(key, flags, p, d + p)
  <2>1. i - 1 \in Nat /\ 2 * i - 1 \in 1 .. 2 * h /\ 2 * i \in 1 .. 2 * h OBVIOUS
  <2>2. x \in Nat /\ (i - 1) * (2 * p) = 2 * x /\ ((2 * i - 1) - 1) * p = 2 * x
        /\ (2 * i - 1) * p = 2 * x + p
    BY <1>1, <2>1
  <2>3. f + ((2 * i - 1) - 1) * p = d /\ f + (2 * i - 1) * p = d + p /\ d \in Nat
    <3> HIDE DEF x
    <3>1. d = f + 2 * x BY <2>2
    <3>2. f + ((2 * i - 1) - 1) * p = f + 2 * x /\ f + (2 * i - 1) * p = f + (2 * x + p) BY <2>2
    <3> HIDE DEF d
    <3> QED BY <1>1, <2>2, <3>1, <3>2
  <2>4. cvs[2 * i - 1] = left /\ cvs[2 * i] = right
    <3>1. cvs[2 * i - 1] = Node(key, flags, p, f + ((2 * i - 1) - 1) * p) BY <1>2, <2>1
    <3>2. cvs[2 * i] = Node(key, flags, p, f + (2 * i - 1) * p) BY <1>2, <2>1
    <3> HIDE DEF cvs, d
    <3> QED BY <2>3, <3>1, <3>2
  <2> HIDE DEF d
  <2>5. parents[i] = << <<left, right>> >>
    <3> HIDE DEF cvs, left, right, parents
    <3> QED BY <1>4, <2>4
  <2>6. hash_one(<< <<left, right>> >>, key, Words(0), ParentFlags(flags))
          = compress(key, <<left, right>>, BLOCK_LEN, Words(0), flags \cup {"PARENT"})
    <3> DEFINE block == <<left, right>>
    <3> HIDE DEF block
    <3>1. hash_one(<<block>>, key, Words(0), ParentFlags(flags))
            = compress(key, block, BLOCK_LEN, Words(0), flags \cup {"PARENT"})
      BY HashOneBlock, SMTT(30)
    <3> QED BY <3>1 DEF block
  <2>7. Node(key, flags, 2 * p, d)
          = output_chaining_value(parent_output(left, right, key, flags))
    BY <2>3, NodeDouble
  <2>8. output_chaining_value(parent_output(left, right, key, flags))
          = compress(key, <<left, right>>, BLOCK_LEN, Words(0), flags \cup {"PARENT"})
    <3> DEFINE block == <<left, right>>
               all == flags \cup {"PARENT"}
    <3>1. parent_output(left, right, key, flags) = make_output(key, block, BLOCK_LEN, 0, all)
      BY DEF parent_output
    <3> HIDE DEF block, all, left, right
    <3>2. output_chaining_value(make_output(key, block, BLOCK_LEN, 0, all))
            = compress(key, block, BLOCK_LEN, Words(0), all)
      BY DEF output_chaining_value, make_output
    <3> QED BY <3>1, <3>2, Zenon DEF block, all
  <2> HIDE DEF left, right, parents
  <2>9. hash_one(parents[i], key, Words(0), ParentFlags(flags)) = Node(key, flags, 2 * p, d)
    BY <2>5, <2>6, <2>7, <2>8
  <2> QED BY <2>9 DEF d
<1>7. hashed = layer
  <2>1. Len(parents) \in Nat /\ 0 \in Nat BY <1>5
  <2>2. hashed = EqualHashes(parents, key, 0, ParentFlags(flags))
    <3> HIDE DEF parents
    <3> QED BY <2>1, EqualAre
  <2> HIDE DEF parents, hashed
  <2> QED BY <1>5, <1>6, <2>2 DEF Layer, EqualHashes
<1>8. Rest(cvs, 2 * n) = <<>>
  <2> HIDE DEF cvs
  <2> QED BY <1>2, <1>3, RestEmpty
<1>9. layer \o <<>> = layer
  <2>1. IsSeq(layer, h) BY LayerIs
  <2> HIDE DEF layer
  <2> QED BY <2>1, ConcatEmpty
<1>10. compress_parents_parallel(cpu, cvs, key, flags) = hashed \o Rest(cvs, 2 * n)
  BY Zenon DEF compress_parents_parallel, ParentFlags, EqualMany, n
<1> HIDE DEF hashed, cvs, layer
<1> QED BY <1>7, <1>8, <1>9, <1>10 DEF cvs, layer

-----------------------------------------------------------------------------
(* Subtrees.                                                               *)

Degree(cpu, left_len) ==
    IF left_len > CHUNK_LEN /\ blake3_simd_degree(cpu) = 1 THEN 2 ELSE blake3_simd_degree(cpu)

SideBySide(left, right, degree) ==
    [i \in 1 .. degree + Len(right) |->
        IF i > degree THEN right[i - degree]
        ELSE IF i <= Len(left) THEN left[i] ELSE "uninitialized"]

JoinWide(cpu, left, right, degree, key, flags) ==
    IF Len(left) = 1
    THEN SubSeq(SideBySide(left, right, degree), 1, 2)
    ELSE compress_parents_parallel(cpu, SubSeq(SideBySide(left, right, degree), 1, Len(left) + Len(right)),
                                   key, flags)

WideStep(cpu, input, key, counter, flags, wide, len, at) ==
    IF len <= blake3_simd_degree(cpu) * CHUNK_LEN
    THEN compress_chunks_parallel(cpu, SubSeq(input, at + 1, at + len), key,
                                  counter + at \div CHUNK_LEN, flags)
    ELSE JoinWide(cpu, wide[left_subtree_len(len)][at],
                  wide[len - left_subtree_len(len)][at + left_subtree_len(len)],
                  Degree(cpu, left_subtree_len(len)), key, flags)

WideTo(cpu, input, key, counter, flags, wide, k) ==
    \A len \in 1 .. k : \A at \in 0 .. (Len(input) - len) :
        wide[len][at] = WideStep(cpu, input, key, counter, flags, wide, len, at)

LEMMA DegreeIs ==
    ASSUME NEW cpu
    PROVE  /\ blake3_simd_degree(cpu) \in {1, 4, 8, 16}
           /\ blake3_simd_degree(cpu) \in Powers
<1>1. blake3_simd_degree(cpu) \in {1, 4, 8, 16} BY DEF blake3_simd_degree
<1>2. 1 \in Powers BY PowerOne
<1>3. 2 * 1 \in Powers BY <1>2, PowerPositive
<1>4. 2 * (2 * 1) \in Powers BY <1>3, PowerPositive
<1>5. 2 * (2 * (2 * 1)) \in Powers BY <1>4, PowerPositive
<1>6. 2 * (2 * (2 * (2 * 1))) \in Powers BY <1>5, PowerPositive
<1>7. 2 * (2 * 1) = 4 /\ 2 * (2 * (2 * 1)) = 8 /\ 2 * (2 * (2 * (2 * 1))) = 16 OBVIOUS
<1>8. 4 \in Powers /\ 8 \in Powers /\ 16 \in Powers BY <1>4, <1>5, <1>6, <1>7
<1> QED BY <1>1, <1>2, <1>8

\* What does not fit into the lanes has two parts.
LEMMA LeftLen ==
    ASSUME NEW cpu, NEW len \in Nat, len > blake3_simd_degree(cpu) * CHUNK_LEN
    PROVE  left_subtree_len(len) \in 1 .. (len - 1)
<1> DEFINE q == (len - 1) \div CHUNK_LEN
           s == (len - 1) % CHUNK_LEN
           r == round_down_to_power_of_2(q)
<1>1. CHUNK_LEN \in Nat \ {0} /\ blake3_simd_degree(cpu) \in {1, 4, 8, 16} BY Lengths, DegreeIs
<1>2. CHUNK_LEN <= blake3_simd_degree(cpu) * CHUNK_LEN /\ blake3_simd_degree(cpu) * CHUNK_LEN \in Nat
  BY <1>1
<1>3. len - 1 \in Nat /\ len - 1 >= CHUNK_LEN BY <1>1, <1>2
<1>4. q \in Nat /\ s \in 0 .. (CHUNK_LEN - 1) /\ len - 1 = q * CHUNK_LEN + s
  BY <1>1, <1>3, PartsBy, Zenon
<1>5. left_subtree_len(len) = r * CHUNK_LEN BY DEF left_subtree_len
<1> HIDE DEF q, s
<1>6. q # 0
  <2>1. q = 0 => q * CHUNK_LEN = 0 BY <1>1
  <2> QED BY <1>1, <1>3, <1>4, <2>1
<1>7. r \in Powers /\ r <= q BY <1>4, <1>6, RoundDown
<1>8. r \in Nat \ {0} BY <1>7, PowerPositive
<1> HIDE DEF r
<1>9. r * CHUNK_LEN \in Nat \ {0} /\ r * CHUNK_LEN <= q * CHUNK_LEN BY <1>1, <1>4, <1>7, <1>8
<1>10. q * CHUNK_LEN \in Nat BY <1>1, <1>4
<1> QED BY <1>1, <1>4, <1>5, <1>9, <1>10

LEMMA LeftOfPower ==
    ASSUME NEW q \in Powers
    PROVE  left_subtree_len(Base(2 * q)) = Base(q)
<1>1. CHUNK_LEN \in Nat \ {0} BY Lengths
<1>2. q \in Nat \ {0} /\ 2 * q - 1 \in Nat \ {0} BY PowerPositive
<1> DEFINE x == 2 * q - 1
           r == round_down_to_power_of_2(x)
<1>3. (Base(2 * q) - 1) \div CHUNK_LEN = x
  <2>1. Base(x + 1) = Base(x) + CHUNK_LEN /\ Base(x) \in Nat /\ x + 1 = 2 * q BY <1>2, BaseIs
  <2> HIDE DEF x
  <2>2. Base(2 * q) - 1 = Base(x) + (CHUNK_LEN - 1) BY <1>1, <2>1
  <2>3. CHUNK_LEN - 1 \in 0 .. (CHUNK_LEN - 1) BY <1>1
  <2>4. (x * CHUNK_LEN + (CHUNK_LEN - 1)) \div CHUNK_LEN = x
    <3>1. x \in Nat BY <1>2 DEF x
    <3> QED BY <1>1, <2>3, <3>1, DivisionBy
  <2> QED BY <2>2, <2>4, Zenon DEF Base
<1>4. r \in Powers /\ r <= x /\ x < 2 * r BY <1>2, RoundDown
<1>5. r = q
  <2>1. r \in Nat BY <1>4, PowerPositive
  <2>2. q <= x /\ x < 2 * q BY <1>2
  <2> HIDE DEF r
  <2>3. ~(r < q)
    <3>1. r < q => 2 * r <= q BY <1>4, PowersApart
    <3> HIDE DEF x
    <3>2. x \in Nat BY <1>2 DEF x
    <3> QED BY <1>2, <1>4, <2>1, <2>2, <3>1, <3>2
  <2>4. ~(q < r)
    <3>1. q < r => 2 * q <= r BY <1>4, PowersApart
    <3> HIDE DEF x
    <3>2. x \in Nat BY <1>2 DEF x
    <3> QED BY <1>2, <1>4, <2>1, <2>2, <3>1, <3>2
  <2> QED BY <1>2, <2>1, <2>3, <2>4
<1> HIDE DEF x
<1>6. left_subtree_len(Base(2 * q)) = r * CHUNK_LEN BY <1>3, Zenon DEF left_subtree_len
<1> HIDE DEF r
<1> QED BY <1>5, <1>6 DEF Base

\* A subtree is made from smaller ones.
LEMMA WideLocal ==
    ASSUME NEW cpu, NEW input, Len(input) \in Nat, NEW key, NEW counter, NEW flags,
           NEW h, NEW t, NEW len \in 1 .. Len(input), NEW at \in 0 .. (Len(input) - len),
           \A l \in 1 .. (len - 1) : \A x \in 0 .. (Len(input) - l) : h[l][x] = t[l][x]
    PROVE  WideStep(cpu, input, key, counter, flags, h, len, at)
             = WideStep(cpu, input, key, counter, flags, t, len, at)
<1> DEFINE N == Len(input)
           d == blake3_simd_degree(cpu)
           left == left_subtree_len(len)
<1>1. N \in Nat OBVIOUS
<1>2. CASE len <= d * CHUNK_LEN BY <1>2 DEF WideStep
<1>3. CASE ~(len <= d * CHUNK_LEN)
  <2>1. len \in Nat /\ at \in Nat /\ at + len <= N BY <1>1
  <2>2. left \in 1 .. (len - 1)
    <3>1. d * CHUNK_LEN \in Int
      <4>1. CHUNK_LEN \in Nat \ {0} /\ d \in {1, 4, 8, 16} BY Lengths, DegreeIs
      <4> HIDE DEF d
      <4> QED BY <4>1
    <3>2. len > d * CHUNK_LEN BY <1>3, <2>1, <3>1
    <3> QED BY <2>1, <3>2, LeftLen
  <2> HIDE DEF left
  <2>3. /\ len - left \in 1 .. (len - 1)
        /\ at \in 0 .. (N - left) /\ at + left \in 0 .. (N - (len - left))
    BY <1>1, <2>1, <2>2
  <2>4. h[left][at] = t[left][at] BY <2>2, <2>3
  <2>5. h[len - left][at + left] = t[len - left][at + left] BY <2>3
  <2> QED BY <1>3, <2>4, <2>5 DEF WideStep, left
<1> QED BY <1>2, <1>3

LEMMA WideExists ==
    ASSUME NEW cpu, NEW input, Len(input) \in Nat, NEW key, NEW counter, NEW flags
    PROVE  \E t : WideTo(cpu, input, key, counter, flags, t, Len(input))
<1> DEFINE N == Len(input)
           step(t, len, at) == WideStep(cpu, input, key, counter, flags, t, len, at)
           to(t, k) == WideTo(cpu, input, key, counter, flags, t, k)
           T == {k \in Nat : \E t : to(t, k)}
<1>1. N \in Nat OBVIOUS
<1>0. \A t, k : to(t, k) <=> \A len \in 1 .. k : \A at \in 0 .. (N - len) : t[len][at] = step(t, len, at)
  BY DEF WideTo
<1>l. ASSUME NEW h, NEW t, NEW len \in 1 .. N, NEW at \in 0 .. (N - len),
             \A l \in 1 .. (len - 1) : \A x \in 0 .. (N - l) : h[l][x] = t[l][x]
      PROVE  step(h, len, at) = step(t, len, at)
  BY <1>l, WideLocal
<1> HIDE DEF N, step, to
<1>2. 0 \in T
  <2>1. to(<<>>, 0) BY <1>0
  <2> QED BY <2>1
<1>3. ASSUME NEW k \in 1 .. N, k - 1 \in T PROVE k \in T
  <2>1. PICK t : to(t, k - 1) BY <1>3
  <2> DEFINE h == [len \in 1 .. k |-> [at \in 0 .. (N - len) |->
                     IF len = k THEN step(t, k, at) ELSE t[len][at]]]
  <2>2. ASSUME NEW len \in 1 .. k, NEW at \in 0 .. (N - len)
        PROVE  h[len][at] = IF len = k THEN step(t, k, at) ELSE t[len][at]
    OBVIOUS
  <2> HIDE DEF h
  <2>3. ASSUME NEW len \in 1 .. k, NEW at \in 0 .. (N - len)
        PROVE  step(h, len, at) = step(t, len, at)
    <3>1. \A l \in 1 .. (len - 1) : \A x \in 0 .. (N - l) : h[l][x] = t[l][x]
      <4>1. \A l \in 1 .. (len - 1) : l \in 1 .. k /\ l # k BY <1>1
      <4> QED BY <2>2, <4>1
    <3>2. len \in 1 .. N BY <1>1
    <3> QED BY <1>l, <3>1, <3>2
  <2>4. ASSUME NEW len \in 1 .. k, NEW at \in 0 .. (N - len)
        PROVE  h[len][at] = step(h, len, at)
    <3>1. len = k \/ len \in 1 .. (k - 1) OBVIOUS
    <3>2. len \in 1 .. (k - 1) => t[len][at] = step(t, len, at) BY <1>0, <2>1
    <3> QED BY <2>2, <2>3, <3>1, <3>2
  <2>5. to(h, k) BY <1>0, <2>4
  <2> QED BY <2>5
<1>4. N \in T
  <2>1. N \in 0 .. N BY <1>1
  <2> HIDE DEF T
  <2> QED BY <1>1, <1>2, <1>3, <2>1, ByStep
<1> QED BY <1>4 DEF N, to

LEMMA WideIs ==
    ASSUME NEW cpu, NEW input, Len(input) \in Nat \ {0}, NEW key, NEW counter, NEW flags
    PROVE  \E t : /\ WideTo(cpu, input, key, counter, flags, t, Len(input))
                  /\ blake3_compress_subtree_wide(cpu, input, key, counter, flags)
                       = t[Len(input)][0]
<1> DEFINE N == Len(input)
           step(t, len, at) == WideStep(cpu, input, key, counter, flags, t, len, at)
           to(t, k) == WideTo(cpu, input, key, counter, flags, t, k)
           all(t) == [len \in 1 .. N |-> [at \in 0 .. N - len |->
            LET left_len == left_subtree_len(len)
                degree == IF left_len > CHUNK_LEN /\ blake3_simd_degree(cpu) = 1
                          THEN 2
                          ELSE blake3_simd_degree(cpu)
                left == t[left_len][at]
                right == t[len - left_len][at + left_len]
                cv_array == [i \in 1 .. degree + Len(right) |->
                                IF i > degree THEN right[i - degree]
                                ELSE IF i <= Len(left) THEN left[i] ELSE "uninitialized"]
            IN  IF len <= blake3_simd_degree(cpu) * CHUNK_LEN
                THEN compress_chunks_parallel(cpu, SubSeq(input, at + 1, at + len), key,
                                              counter + at \div CHUNK_LEN, flags)
                ELSE IF Len(left) = 1
                THEN SubSeq(cv_array, 1, 2)
                ELSE compress_parents_parallel(cpu, SubSeq(cv_array, 1, Len(left) + Len(right)),
                                               key, flags)]]
           next(t) == [len \in 1 .. N |-> [at \in 0 .. N - len |-> step(t, len, at)]]
           H(t) == t = all(t)
<1>0. \A t : all(t) = next(t) BY DEF WideStep, JoinWide, SideBySide, Degree
<1>1. blake3_compress_subtree_wide(cpu, input, key, counter, flags) = (CHOOSE t : H(t))[N][0]
  BY DEF blake3_compress_subtree_wide
<1> HIDE DEF all
<1>2. N \in Nat \ {0} OBVIOUS
<1>3. \A t, k : to(t, k) <=> \A len \in 1 .. k : \A at \in 0 .. (N - len) : t[len][at] = step(t, len, at)
  BY DEF WideTo
<1>4. PICK t : to(t, N) BY WideExists
<1>l. ASSUME NEW h, NEW len \in 1 .. N, NEW at \in 0 .. (N - len),
             \A l \in 1 .. N : \A x \in 0 .. (N - l) : h[l][x] = t[l][x]
      PROVE  step(h, len, at) = step(t, len, at)
  <2> HIDE DEF N
  <2>1. \A l \in 1 .. (len - 1) : \A x \in 0 .. (N - l) : h[l][x] = t[l][x]
    <3>1. \A l \in 1 .. (len - 1) : l \in 1 .. N BY <1>2
    <3> QED BY <1>l, <3>1
  <2> USE DEF N
  <2> QED BY <2>1, WideLocal
<1> HIDE DEF N, step, to
<1> DEFINE h == [len \in 1 .. N |-> [at \in 0 .. N - len |-> t[len][at]]]
<1>5. \A len \in 1 .. N : \A at \in 0 .. (N - len) : h[len][at] = t[len][at] OBVIOUS
<1>6. h = next(h)
  <2>1. \A len \in 1 .. N : \A at \in 0 .. (N - len) : t[len][at] = step(t, len, at) BY <1>3, <1>4
  <2>2. \A len \in 1 .. N : \A at \in 0 .. (N - len) : step(h, len, at) = step(t, len, at)
    <3> HIDE DEF h
    <3> QED BY <1>5, <1>l
  <2> DEFINE o == h
  <2>3. \A len \in 1 .. N : \A at \in 0 .. (N - len) : t[len][at] = step(o, len, at) BY <2>1, <2>2
  <2> HIDE DEF o
  <2>4. h = next(o) BY <2>3
  <2> QED BY <2>4 DEF o
<1>7. H(h)
  <2> HIDE DEF h, next
  <2> QED BY <1>0, <1>6
<1> DEFINE wide == CHOOSE o : H(o)
<1>8. wide = next(wide)
  <2>1. H(wide)
    <3> HIDE DEF H, h
    <3> QED BY <1>7
  <2> HIDE DEF wide, next
  <2> QED BY <1>0, <2>1
<1> HIDE DEF wide
<1>9. ASSUME NEW len \in 1 .. N, NEW at \in 0 .. (N - len)
      PROVE  wide[len][at] = step(wide, len, at)
  <2>1. next(wide)[len][at] = step(wide, len, at) OBVIOUS
  <2> HIDE DEF next
  <2> QED BY <1>8, <2>1
<1>10. to(wide, N) BY <1>3, <1>9
<1>11. blake3_compress_subtree_wide(cpu, input, key, counter, flags) = wide[N][0] BY <1>1 DEF wide
<1> QED BY <1>10, <1>11 DEF to, N

\* Two layers side by side are one.
LEMMA SideBySideIs ==
    ASSUME NEW key, NEW flags, NEW f \in Nat, NEW p \in Nat, NEW w \in Nat
    PROVE  SideBySide(Layer(key, flags, f, p, w), Layer(key, flags, f + w * p, p, w), w)
             = Layer(key, flags, f, p, 2 * w)
<1> DEFINE left == Layer(key, flags, f, p, w)
           right == Layer(key, flags, f + w * p, p, w)
           all == Layer(key, flags, f, p, 2 * w)
           x == SideBySide(left, right, w)
<1>1. Len(left) = w /\ \A i \in 1 .. w : left[i] = Node(key, flags, p, f + (i - 1) * p)
  BY LayerIs
<1>2. /\ Len(right) = w
      /\ \A i \in 1 .. w : right[i] = Node(key, flags, p, (f + w * p) + (i - 1) * p)
  <2> DEFINE e == f + w * p
  <2> HIDE DEF e
  <2>1. /\ Len(Layer(key, flags, e, p, w)) = w
        /\ \A i \in 1 .. w : Layer(key, flags, e, p, w)[i] = Node(key, flags, p, e + (i - 1) * p)
    BY LayerIs
  <2> QED BY <2>1 DEF e
<1>3. IsSeq(all, 2 * w) /\ \A i \in 1 .. 2 * w : all[i] = Node(key, flags, p, f + (i - 1) * p)
  <2>1. 2 * w \in Nat OBVIOUS
  <2> QED BY <2>1, LayerIs
<1> HIDE DEF left, right, all
<1>4. w + w = 2 * w /\ 2 * w \in Nat OBVIOUS
<1>5. IsSeq(x, 2 * w) BY <1>2, <1>4 DEF SideBySide, IsSeq
<1>6. ASSUME NEW i \in 1 .. 2 * w PROVE x[i] = all[i]
  <2>1. x[i] = IF i > w THEN right[i - w] ELSE IF i <= Len(left) THEN left[i] ELSE "uninitialized"
    BY <1>2, <1>4 DEF SideBySide
  <2>2. CASE i > w
    <3>1. i - w \in 1 .. w BY <2>2
    <3>2. (f + w * p) + ((i - w) - 1) * p = f + (i - 1) * p
      <4> DEFINE k == (i - w) - 1
      <4>1. k \in Nat /\ i - 1 = w + k BY <2>2
      <4>2. (w + k) * p = w * p + k * p /\ w * p \in Nat /\ k * p \in Nat BY <4>1
      <4> HIDE DEF k
      <4>3. (f + w * p) + k * p = f + (w + k) * p BY <4>2
      <4> QED BY <4>1, <4>3 DEF k
    <3> QED BY <1>2, <1>3, <2>1, <2>2, <3>1, <3>2
  <2>3. CASE ~(i > w)
    <3>1. i \in 1 .. w BY <2>3
    <3> QED BY <1>1, <1>3, <2>1, <3>1
  <2> QED BY <2>2, <2>3
<1> HIDE DEF x
<1>7. x = all BY <1>3, <1>5, <1>6, SeqSame
<1> QED BY <1>7 DEF x, all, left, right

LEMMA JoinWideIs ==
    ASSUME NEW cpu, NEW key, NEW flags, NEW f \in Nat, NEW p \in Powers, NEW w \in Nat \ {0}
    PROVE  JoinWide(cpu, Layer(key, flags, f, p, w), Layer(key, flags, f + w * p, p, w), w, key, flags)
             = IF w = 1 THEN Layer(key, flags, f, p, 2) ELSE Layer(key, flags, f, 2 * p, w)
<1> DEFINE left == Layer(key, flags, f, p, w)
           right == Layer(key, flags, f + w * p, p, w)
           all == Layer(key, flags, f, p, 2 * w)
<1>1. p \in Nat /\ w \in Nat /\ 2 * w \in Nat /\ w + w = 2 * w BY PowerPositive
<1>2. SideBySide(left, right, w) = all BY <1>1, SideBySideIs
<1>3. Len(left) = w BY LayerIs
<1>4. Len(right) = w
  <2> DEFINE e == f + w * p
  <2> HIDE DEF e
  <2>1. Len(Layer(key, flags, e, p, w)) = w BY LayerIs
  <2> QED BY <2>1 DEF e
<1>5. IsSeq(all, 2 * w) BY <1>1, LayerIs
<1> HIDE DEF left, right
<1>6. SubSeq(all, 1, 2 * w) = all
  <2> DEFINE m == 2 * w
  <2> HIDE DEF all
  <2>0. m \in Nat BY <1>1
  <2>5. IsSeq(all, m) BY <1>5
  <2> HIDE DEF m
  <2>1. 1 \in Int /\ m \in Int /\ m + 1 = 1 + m BY <2>0
  <2>2. IsSeq(SubSeq(all, 1, m), m) /\ \A i \in 1 .. m : SubSeq(all, 1, m)[i] = all[(1 + i) - 1]
    BY <2>0, <2>1, SubSeqIs
  <2>3. \A i \in 1 .. m : (1 + i) - 1 = i OBVIOUS
  <2> DEFINE s == SubSeq(all, 1, m)
  <2>4. IsSeq(s, m) /\ \A i \in 1 .. m : s[i] = all[i] BY <2>2, <2>3
  <2> HIDE DEF s
  <2>6. s = all BY <2>4, <2>5, SeqSame
  <2> QED BY <2>6 DEF s, m
<1>7. compress_parents_parallel(cpu, all, key, flags) = Layer(key, flags, f, 2 * p, w)
  BY <1>1, ParentsParallelIs
<1>8. w = 1 => all = Layer(key, flags, f, p, 2)
  <2>1. w = 1 => 2 * w = 2 OBVIOUS
  <2> QED BY <2>1
<1>9. JoinWide(cpu, left, right, w, key, flags)
        = IF w = 1 THEN SubSeq(all, 1, 2) ELSE compress_parents_parallel(cpu, SubSeq(all, 1, 2 * w), key, flags)
  <2> HIDE DEF all
  <2>1. Len(left) + Len(right) = 2 * w BY <1>1, <1>3, <1>4
  <2> QED BY <1>2, <1>3, <2>1 DEF JoinWide
<1>10. w = 1 => SubSeq(all, 1, 2) = all
  <2>1. w = 1 => 2 * w = 2 OBVIOUS
  <2> HIDE DEF all
  <2> QED BY <1>6, <2>1
<1> HIDE DEF all
<1>11. JoinWide(cpu, left, right, w, key, flags)
         = IF w = 1 THEN Layer(key, flags, f, p, 2) ELSE Layer(key, flags, f, 2 * p, w)
  BY <1>6, <1>7, <1>8, <1>9, <1>10
<1> QED BY <1>11 DEF left, right

\* How many values a subtree of s chunks is reduced to at once.
Width2(cpu, s) ==
    IF s <= blake3_simd_degree(cpu) THEN s
    ELSE IF blake3_simd_degree(cpu) = 1 THEN 2 ELSE blake3_simd_degree(cpu)

IsWide(cpu, key, flags, f, s, layer) ==
    \E w \in Nat \ {0}, p \in Powers :
        w = Width2(cpu, s) /\ s = w * p /\ layer = Layer(key, flags, f, p, w)

WideAt(cpu, key, flags, c, n, wide, s) ==
    \A x \in Nat : Base(x) + Base(s) <= n => IsWide(cpu, key, flags, c + x, s, wide[Base(s)][Base(x)])

LEMMA BaseDegree ==
    ASSUME NEW s \in Nat, NEW d \in Nat
    PROVE  Base(s) <= d * CHUNK_LEN <=> s <= d
<1>1. Base(d) = d * CHUNK_LEN BY DEF Base
<1>2. s <= d <=> Base(s) <= Base(d) BY BaseSum
<1> QED BY <1>1, <1>2

LEMMA WideAtSmall ==
    ASSUME NEW cpu, NEW key, NEW flags, NEW c \in Nat, NEW n \in Nat, NEW t,
           WideTo(cpu, Input(Base(c) + 1, Base(c) + n), key, c, flags, t, n),
           NEW s \in Nat \ {0}, s <= blake3_simd_degree(cpu)
    PROVE  WideAt(cpu, key, flags, c, n, t, s)
<1> DEFINE input == Input(Base(c) + 1, Base(c) + n)
           d == blake3_simd_degree(cpu)
<1> SUFFICES ASSUME NEW x \in Nat, Base(x) + Base(s) <= n
             PROVE  IsWide(cpu, key, flags, c + x, s, t[Base(s)][Base(x)])
  BY DEF WideAt
<1>1. d \in Nat BY DegreeIs
<1>2. CHUNK_LEN \in Nat \ {0} /\ Base(c) \in Nat /\ Base(x) \in Nat /\ Base(s) \in Nat \ {0}
      /\ Base(c + x) = Base(c) + Base(x) /\ c + x \in Nat
  <2>1. Base(c) \in Nat BY BaseIs
  <2>2. Base(x) \in Nat BY BaseIs
  <2>3. Base(c + x) = Base(c) + Base(x) BY BaseSum
  <2>4. CHUNK_LEN \in Nat \ {0} BY Lengths
  <2>5. Base(s) \in Nat \ {0} BY <2>4 DEF Base
  <2> QED BY <2>1, <2>2, <2>3, <2>4, <2>5
<1>3. Len(input) = n BY <1>2, InputIs
<1>4. t[Base(s)][Base(x)] = WideStep(cpu, input, key, c, flags, t, Base(s), Base(x))
  <2>1. Base(s) \in 1 .. n /\ Base(x) \in 0 .. (n - Base(s)) BY <1>2
  <2> HIDE DEF input
  <2>2. WideTo(cpu, input, key, c, flags, t, n) BY DEF input
  <2> QED BY <1>3, <2>1, <2>2 DEF WideTo
<1>5. Base(s) <= d * CHUNK_LEN BY <1>1, BaseDegree
<1>6. SubSeq(input, Base(x) + 1, Base(x) + Base(s)) = Input(Base(c + x) + 1, Base(c + x) + Base(s))
  <2> DEFINE a == Base(c)
             i == Base(x)
             j == Base(x) + Base(s)
  <2>1. a \in Nat /\ i \in 0 .. n /\ j \in i .. n /\ a + j = (a + i) + Base(s) BY <1>2
  <2> HIDE DEF a, i, j
  <2>2. SubSeq(Input(a + 1, a + n), i + 1, j) = Input((a + i) + 1, a + j) BY <2>1, InputPart
  <2> QED BY <1>2, <2>1, <2>2 DEF a, i, j
<1>7. c + Base(x) \div CHUNK_LEN = c + x
  <2>1. (x * CHUNK_LEN + 0) \div CHUNK_LEN = x
    <3>1. 0 \in 0 .. (CHUNK_LEN - 1) BY <1>2
    <3> QED BY <1>2, <3>1, DivisionBy
  <2>2. x * CHUNK_LEN + 0 = Base(x) BY <1>2 DEF Base
  <2> QED BY <2>1, <2>2
<1>8. compress_chunks_parallel(cpu, Input(Base(c + x) + 1, Base(c + x) + Base(s)), key, c + x, flags)
        = Layer(key, flags, c + x, 1, s)
  BY <1>2, ChunksParallelIs
<1> DEFINE layer == t[Base(s)][Base(x)]
<1>9. layer = Layer(key, flags, c + x, 1, s)
  <2> HIDE DEF input, d
  <2>1. layer = compress_chunks_parallel(cpu, SubSeq(input, Base(x) + 1, Base(x) + Base(s)), key,
                                         c + Base(x) \div CHUNK_LEN, flags)
    BY <1>4, <1>5 DEF WideStep, d
  <2> QED BY <1>6, <1>7, <1>8, <2>1
<1> HIDE DEF layer
<1>10. s = Width2(cpu, s) /\ s = s * 1 /\ 1 \in Powers
  <2>1. s = Width2(cpu, s) BY DEF Width2
  <2> QED BY <2>1, PowerOne
<1>11. IsWide(cpu, key, flags, c + x, s, layer) BY <1>9, <1>10 DEF IsWide
<1> QED BY <1>11 DEF layer

LEMMA WideAtDouble ==
    ASSUME NEW cpu, NEW key, NEW flags, NEW c \in Nat, NEW n \in Nat, NEW t,
           WideTo(cpu, Input(Base(c) + 1, Base(c) + n), key, c, flags, t, n),
           NEW q \in Powers, 2 * q > blake3_simd_degree(cpu),
           WideAt(cpu, key, flags, c, n, t, q)
    PROVE  WideAt(cpu, key, flags, c, n, t, 2 * q)
<1> DEFINE input == Input(Base(c) + 1, Base(c) + n)
           d == blake3_simd_degree(cpu)
           s == 2 * q
           w == Width2(cpu, q)
<1> SUFFICES ASSUME NEW x \in Nat, Base(x) + Base(s) <= n
             PROVE  IsWide(cpu, key, flags, c + x, s, t[Base(s)][Base(x)])
  BY DEF WideAt
<1>1. d \in {1, 4, 8, 16} /\ d \in Powers BY DegreeIs
<1>2. q \in Nat \ {0} /\ s \in Nat \ {0} /\ s = q + q /\ x + q \in Nat BY PowerPositive
<1>3. CHUNK_LEN \in Nat \ {0} /\ Base(c) \in Nat /\ Base(x) \in Nat /\ Base(q) \in Nat \ {0}
      /\ Base(s) = Base(q) + Base(q) /\ c + x \in Nat /\ Base(x + q) = Base(x) + Base(q)
  <2>1. Base(c) \in Nat BY BaseIs
  <2>2. Base(x) \in Nat BY BaseIs
  <2>3. Base(q + q) = Base(q) + Base(q)
    <3>1. q \in Nat BY <1>2
    <3> QED BY <3>1, BaseSum
  <2>4. CHUNK_LEN \in Nat \ {0} BY Lengths
  <2>5. Base(q) \in Nat \ {0} BY <1>2, <2>4 DEF Base
  <2>6. Base(x + q) = Base(x) + Base(q) BY <1>2, BaseSum
  <2> QED BY <1>2, <2>1, <2>2, <2>3, <2>4, <2>5, <2>6
<1>4. Len(input) = n BY <1>3, InputIs
<1> HIDE DEF d
<1>5. d <= q
  <2>1. d < s BY <1>1, <1>2 DEF d
  <2>2. q < d => 2 * q <= d BY <1>1, PowersApart
  <2> QED BY <1>1, <1>2, <2>1, <2>2
<1>6. t[Base(s)][Base(x)] = WideStep(cpu, input, key, c, flags, t, Base(s), Base(x))
  <2>1. Base(s) \in 1 .. n /\ Base(x) \in 0 .. (n - Base(s)) BY <1>3
  <2> HIDE DEF input, s
  <2>2. WideTo(cpu, input, key, c, flags, t, n) BY DEF input
  <2> QED BY <1>4, <2>1, <2>2 DEF WideTo
<1>7. left_subtree_len(Base(s)) = Base(q) BY LeftOfPower
<1>8. Base(s) - Base(q) = Base(q) BY <1>3
<1>9. ~(Base(s) <= d * CHUNK_LEN)
  <2> HIDE DEF s
  <2>1. d \in Nat /\ s \in Nat BY <1>1, <1>2
  <2>2. ~(s <= d) BY <1>1, <1>2, <1>5
  <2> QED BY <2>1, <2>2, BaseDegree
<1>10. Degree(cpu, Base(q)) = w
  <2>1. Base(q) > CHUNK_LEN <=> q > 1
    <3>1. Base(1) = CHUNK_LEN /\ Base(1) \in Nat BY <1>3 DEF Base
    <3>2. q <= 1 <=> Base(q) <= Base(1) BY <1>2, BaseSum
    <3> QED BY <1>2, <1>3, <3>1, <3>2
  <2> QED BY <1>1, <1>2, <1>5, <2>1 DEF Degree, Width2, d
<1>11. Base(x) + Base(q) <= n /\ Base(x + q) + Base(q) <= n
  <2> HIDE DEF s
  <2> QED BY <1>3
<1>12. PICK p \in Powers : q = w * p /\ w \in Nat \ {0}
                           /\ t[Base(q)][Base(x)] = Layer(key, flags, c + x, p, w)
  <2>1. IsWide(cpu, key, flags, c + x, q, t[Base(q)][Base(x)]) BY <1>11 DEF WideAt
  <2> QED BY <2>1 DEF IsWide
<1>13. PICK r \in Powers : q = w * r
                           /\ t[Base(q)][Base(x + q)] = Layer(key, flags, c + (x + q), r, w)
  <2>1. IsWide(cpu, key, flags, c + (x + q), q, t[Base(q)][Base(x + q)]) BY <1>2, <1>11 DEF WideAt
  <2> QED BY <2>1 DEF IsWide
<1>14. r = p
  <2>1. r \in Nat /\ p \in Nat BY PowerPositive
  <2> HIDE DEF w
  <2>2. w * p = w * r /\ w \in Nat \ {0} BY <1>12, <1>13
  <2> QED BY <2>1, <2>2
<1> DEFINE f == c + x
           layer == t[Base(s)][Base(x)]
<1>15. c + (x + q) = f + w * p
  <2> HIDE DEF w
  <2> QED BY <1>2, <1>3, <1>12
<1>16. layer = JoinWide(cpu, Layer(key, flags, f, p, w), Layer(key, flags, f + w * p, p, w), w, key, flags)
  <2> DEFINE a == Base(s)
             b == Base(q)
             y == Base(x)
  <2>1. a - b = b /\ left_subtree_len(a) = b /\ y + b = Base(x + q) BY <1>3, <1>7, <1>8
  <2> HIDE DEF a, b, y, w, input, f
  <2>2. WideStep(cpu, input, key, c, flags, t, a, y)
          = JoinWide(cpu, t[b][y], t[b][y + b], Degree(cpu, b), key, flags)
    BY <1>9, <2>1 DEF WideStep, d, a
  <2>3. t[b][y] = Layer(key, flags, f, p, w) BY <1>12 DEF b, y, f
  <2>4. t[b][y + b] = Layer(key, flags, f + w * p, p, w) BY <1>13, <1>14, <1>15, <2>1 DEF b
  <2>5. Degree(cpu, b) = w BY <1>10 DEF b
  <2>6. layer = WideStep(cpu, input, key, c, flags, t, a, y) BY <1>6 DEF a, y
  <2> HIDE DEF layer
  <2> QED BY <2>2, <2>3, <2>4, <2>5, <2>6
<1>17. JoinWide(cpu, Layer(key, flags, f, p, w), Layer(key, flags, f + w * p, p, w), w, key, flags)
         = IF w = 1 THEN Layer(key, flags, f, p, 2) ELSE Layer(key, flags, f, 2 * p, w)
  <2>1. f \in Nat /\ w \in Nat \ {0} BY <1>3, <1>12
  <2> HIDE DEF f, w
  <2> QED BY <2>1, JoinWideIs
<1> HIDE DEF layer, f
<1>18. CASE w = 1
  <2>1. Width2(cpu, s) = 2 /\ d = 1
    <3>1. q = 1 \/ q # 1 OBVIOUS
    <3>2. d = 1 BY <1>1, <1>2, <1>5, <1>18 DEF Width2, d
    <3> QED BY <1>1, <1>2, <1>18, <3>2 DEF Width2, d
  <2>2. s = 2 * p
    <3>1. p \in Nat BY PowerPositive
    <3> HIDE DEF w
    <3> QED BY <1>12, <1>18, <3>1
  <2>3. layer = Layer(key, flags, f, p, 2)
    <3> HIDE DEF w
    <3> QED BY <1>16, <1>17, <1>18
  <2> HIDE DEF s
  <2>4. 2 \in Nat \ {0} OBVIOUS
  <2>5. IsWide(cpu, key, flags, f, s, layer) BY <2>1, <2>2, <2>3, <2>4 DEF IsWide
  <2> QED BY <2>5 DEF layer, f
<1>19. CASE w # 1
  <2>1. Width2(cpu, s) = w BY <1>1, <1>2, <1>5, <1>19 DEF Width2, d
  <2>2. s = w * (2 * p) /\ 2 * p \in Powers
    <3>1. p \in Nat /\ 2 * p \in Powers BY PowerPositive
    <3> HIDE DEF w
    <3>2. w * (2 * p) = 2 * (w * p) BY <1>12, <3>1
    <3> QED BY <1>12, <3>1, <3>2
  <2>3. layer = Layer(key, flags, f, 2 * p, w)
    <3> HIDE DEF w
    <3> QED BY <1>16, <1>17, <1>19
  <2> HIDE DEF s, w
  <2> DEFINE r2 == 2 * p
  <2> HIDE DEF r2
  <2>4. s = w * r2 /\ r2 \in Powers /\ layer = Layer(key, flags, f, r2, w) BY <2>2, <2>3 DEF r2
  <2>5. IsWide(cpu, key, flags, f, s, layer) BY <1>12, <2>1, <2>4 DEF IsWide
  <2> QED BY <2>5 DEF layer, f
<1> QED BY <1>18, <1>19

LEMMA WideAtPower ==
    ASSUME NEW cpu, NEW key, NEW flags, NEW c \in Nat, NEW n \in Nat, NEW t,
           WideTo(cpu, Input(Base(c) + 1, Base(c) + n), key, c, flags, t, n)
    PROVE  \A s \in Powers : WideAt(cpu, key, flags, c, n, t, s)
<1> DEFINE T == {s \in Nat : s \in Powers => WideAt(cpu, key, flags, c, n, t, s)}
           d == blake3_simd_degree(cpu)
<1>1. d \in Nat \ {0} BY DegreeIs
<1>2. ASSUME NEW s \in Nat, \A j \in 0 .. (s - 1) : j \in T, s \in Powers
      PROVE  WideAt(cpu, key, flags, c, n, t, s)
  <2>1. s \in Nat \ {0} BY <1>2, PowerPositive
  <2>2. CASE s <= d BY <2>1, <2>2, WideAtSmall
  <2>3. CASE ~(s <= d)
    <3>1. s # 1 BY <1>1, <2>3
    <3>2. PICK h \in Powers : s = 2 * h BY <1>2, <3>1, PowerHalf
    <3>3. h \in 0 .. (s - 1)
      <4>1. h \in Nat \ {0} BY PowerPositive
      <4> QED BY <3>2, <4>1
    <3>4. WideAt(cpu, key, flags, c, n, t, h) BY <1>2, <3>3
    <3>5. 2 * h > d BY <1>1, <2>3, <3>2
    <3> HIDE DEF d
    <3>6. WideAt(cpu, key, flags, c, n, t, 2 * h)
      <4> USE DEF d
      <4> QED BY <3>4, <3>5, WideAtDouble
    <3> QED BY <3>2, <3>6
  <2> QED BY <2>2, <2>3
<1>3. \A s \in Nat : (\A j \in 0 .. (s - 1) : j \in T) => s \in T
  <2> SUFFICES ASSUME NEW s \in Nat, \A j \in 0 .. (s - 1) : j \in T PROVE s \in T OBVIOUS
  <2>1. s \in Powers => WideAt(cpu, key, flags, c, n, t, s)
    <3> HIDE DEF T
    <3> QED BY <1>2
  <2> QED BY <2>1
<1>4. \A s \in Nat : s \in T
  <2> HIDE DEF T
  <2> QED BY <1>3, BySmaller
<1>5. \A s \in Powers : s \in Nat BY PowerPositive
<1> QED BY <1>4, <1>5

LEMMA SubtreeWideIs ==
    ASSUME NEW cpu, NEW key, NEW flags, NEW c \in Nat, NEW s \in Powers
    PROVE  IsWide(cpu, key, flags, c, s,
                  blake3_compress_subtree_wide(cpu, Input(Base(c) + 1, Base(c) + Base(s)), key, c, flags))
<1> DEFINE n == Base(s)
           input == Input(Base(c) + 1, Base(c) + n)
           out == blake3_compress_subtree_wide(cpu, input, key, c, flags)
<1>1. n \in Nat \ {0} /\ Base(c) \in Nat /\ Base(0) = 0
  <2>1. s \in Nat \ {0} /\ CHUNK_LEN \in Nat \ {0} /\ Base(0) = 0 BY Lengths, PowerPositive
  <2>2. Base(c) \in Nat BY BaseIs
  <2> QED BY <2>1, <2>2 DEF Base
<1> HIDE DEF n
<1>2. Len(input) = n BY <1>1, InputIs
<1> HIDE DEF out
<1>3. PICK t : WideTo(cpu, input, key, c, flags, t, n) /\ out = t[n][0]
  <2> HIDE DEF input
  <2>1. \E t : /\ WideTo(cpu, input, key, c, flags, t, Len(input))
               /\ blake3_compress_subtree_wide(cpu, input, key, c, flags) = t[Len(input)][0]
    BY <1>1, <1>2, WideIs
  <2> QED BY <1>2, <2>1 DEF out
<1>4. WideAt(cpu, key, flags, c, n, t, s) BY <1>1, <1>3, WideAtPower
<1>5. Base(0) + Base(s) <= n /\ 0 \in Nat BY <1>1 DEF n
<1>6. IsWide(cpu, key, flags, c + 0, s, t[Base(s)][Base(0)]) BY <1>4, <1>5 DEF WideAt
<1>7. c + 0 = c OBVIOUS
<1>8. IsWide(cpu, key, flags, c, s, out) BY <1>1, <1>3, <1>6, <1>7 DEF n
<1> QED BY <1>8 DEF out, input, n

-----------------------------------------------------------------------------
(* Layer by layer down to two.                                             *)

CondenseStep(cpu, below, key, flags) ==
    IF Len(below) > 2 THEN compress_parents_parallel(cpu, below, key, flags) ELSE below

CondenseTo(cpu, cvs, key, flags, t, n) ==
    t[0] = cvs /\ \A i \in 1 .. n : t[i] = CondenseStep(cpu, t[i - 1], key, flags)

LEMMA CondenseIs ==
    ASSUME NEW cpu, NEW cvs, Len(cvs) \in Nat, NEW key, NEW flags
    PROVE  \E t : /\ CondenseTo(cpu, cvs, key, flags, t, Len(cvs))
                  /\ Condense(cpu, cvs, key, flags) = t[Len(cvs)]
<1> DEFINE n == Len(cvs)
           step(b) == CondenseStep(cpu, b, key, flags)
           to(t, k) == CondenseTo(cpu, cvs, key, flags, t, k)
           T == {k \in Nat : \E t : to(t, k)}
           next(t) == [i \in 0 .. n |-> IF i = 0 THEN cvs ELSE step(t[i - 1])]
           H(t) == t = next(t)
           all(t) == [i \in 0 .. n |-> IF i = 0 THEN cvs
                                       ELSE IF Len(t[i - 1]) > 2
                                            THEN compress_parents_parallel(cpu, t[i - 1], key, flags)
                                            ELSE t[i - 1]]
           J(t) == t = all(t)
<1>0. \A t, k : to(t, k) <=> t[0] = cvs /\ \A i \in 1 .. k : t[i] = step(t[i - 1]) BY DEF CondenseTo
<1>1. Condense(cpu, cvs, key, flags) = (CHOOSE t : J(t))[n] BY DEF Condense
<1>2. \A t : all(t) = next(t) BY DEF CondenseStep
<1> HIDE DEF all
<1>3. (CHOOSE t : J(t)) = (CHOOSE t : H(t)) BY <1>2
<1> HIDE DEF n, step, to, next, J
<1>4. 0 \in T
  <2> DEFINE t == [i \in 0 .. 0 |-> cvs]
  <2>1. t[0] = cvs OBVIOUS
  <2> HIDE DEF t
  <2>2. to(t, 0) BY <1>0, <2>1
  <2> QED BY <2>2
<1>5. ASSUME NEW k \in 1 .. n, k - 1 \in T PROVE k \in T
  <2>1. PICK t : to(t, k - 1) BY <1>5
  <2> DEFINE h == [i \in 0 .. k |-> IF i = k THEN step(t[k - 1]) ELSE t[i]]
  <2>2. \A i \in 0 .. k : h[i] = IF i = k THEN step(t[k - 1]) ELSE t[i] OBVIOUS
  <2> HIDE DEF h
  <2>3. h[0] = cvs BY <1>0, <2>1, <2>2
  <2>4. ASSUME NEW i \in 1 .. k PROVE h[i] = step(h[i - 1])
    <3>1. i \in 0 .. k /\ i - 1 \in 0 .. k /\ i - 1 # k OBVIOUS
    <3>2. h[i - 1] = t[i - 1] BY <2>2, <3>1
    <3>3. i # k => i \in 1 .. (k - 1) OBVIOUS
    <3> QED BY <1>0, <2>1, <2>2, <3>1, <3>2, <3>3
  <2>5. to(h, k) BY <1>0, <2>3, <2>4
  <2> QED BY <2>5
<1>6. n \in Nat BY DEF n
<1>7. PICK t : to(t, n)
  <2>1. n \in 0 .. n BY <1>6
  <2> HIDE DEF T
  <2>2. n \in T BY <1>4, <1>5, <1>6, <2>1, ByStep
  <2> QED BY <2>2 DEF T
<1> DEFINE h == [i \in 0 .. n |-> t[i]]
           chain == CHOOSE o : H(o)
<1>8. H(h)
  <2>1. \A i \in 0 .. n : h[i] = t[i] OBVIOUS
  <2>2. \A i \in 0 .. n : h[i] = IF i = 0 THEN cvs ELSE step(h[i - 1])
    <3> HIDE DEF h
    <3>1. \A i \in 0 .. n : i # 0 => i \in 1 .. n /\ i - 1 \in 0 .. n BY <1>6
    <3> QED BY <1>0, <1>7, <2>1, <3>1
  <2>3. h = [i \in 0 .. n |-> h[i]] OBVIOUS
  <2> HIDE DEF h
  <2> QED BY <2>2, <2>3 DEF next
<1>9. H(chain)
  <2> HIDE DEF H, h
  <2> QED BY <1>8
<1> HIDE DEF chain
<1>10. \A i \in 0 .. n : chain[i] = IF i = 0 THEN cvs ELSE step(chain[i - 1]) BY <1>9 DEF next
<1>11. to(chain, n)
  <2>1. 0 \in 0 .. n /\ \A i \in 1 .. n : i \in 0 .. n /\ i # 0 BY <1>6
  <2> QED BY <1>0, <1>10, <2>1
<1>12. Condense(cpu, cvs, key, flags) = chain[n]
  <2> HIDE DEF H
  <2> QED BY <1>1, <1>3 DEF chain
<1> QED BY <1>11, <1>12 DEF to, n

Lanes2 == {2, 4, 8, 16}

LEMMA Width2Is ==
    ASSUME NEW cpu, NEW s \in Powers, s # 1
    PROVE  Width2(cpu, s) \in Lanes2
<1> DEFINE d == blake3_simd_degree(cpu)
<1>1. d \in {1, 4, 8, 16} BY DegreeIs
<1>2. s \in Nat \ {0} BY PowerPositive
<1>3. 1 \in Powers /\ 2 \in Powers /\ 4 \in Powers /\ 8 \in Powers
  <2>1. 1 \in Powers BY PowerOne
  <2>2. 2 * 1 \in Powers BY <2>1, PowerPositive
  <2>3. 2 * (2 * 1) \in Powers BY <2>2, PowerPositive
  <2>4. 2 * (2 * (2 * 1)) \in Powers BY <2>3, PowerPositive
  <2>5. 2 * 1 = 2 /\ 2 * (2 * 1) = 4 /\ 2 * (2 * (2 * 1)) = 8 OBVIOUS
  <2> QED BY <2>1, <2>2, <2>3, <2>4, <2>5
<1>4. 2 < s => 4 <= s
  <2>1. 2 < s => 2 * 2 <= s BY <1>3, PowersApart
  <2> QED BY <2>1
<1>5. 4 < s => 8 <= s
  <2>1. 4 < s => 2 * 4 <= s BY <1>3, PowersApart
  <2> QED BY <2>1
<1>6. 8 < s => 16 <= s
  <2>1. 8 < s => 2 * 8 <= s BY <1>3, PowersApart
  <2> QED BY <2>1
<1>7. Width2(cpu, s) = IF s <= d THEN s ELSE IF d = 1 THEN 2 ELSE d BY DEF Width2
<1> HIDE DEF d
<1>8. s <= 16 => s \in {2, 4, 8, 16} BY <1>2, <1>4, <1>5, <1>6
<1> QED BY <1>1, <1>2, <1>7, <1>8 DEF Lanes2

\* After i steps there are two values, or fewer than at first by i.
Condensed(key, flags, f, s, w, i, layer) ==
    \E v \in Lanes2, p \in Powers :
        layer = Layer(key, flags, f, p, v) /\ v * p = s /\ (v = 2 \/ v + i <= w)

LEMMA CondensedStep ==
    ASSUME NEW cpu, NEW key, NEW flags, NEW f \in Nat, NEW s \in Nat, NEW w \in Nat, NEW i \in Nat,
           NEW layer, Condensed(key, flags, f, s, w, i, layer)
    PROVE  Condensed(key, flags, f, s, w, i + 1, CondenseStep(cpu, layer, key, flags))
<1>1. PICK v \in Lanes2, p \in Powers :
         layer = Layer(key, flags, f, p, v) /\ v * p = s /\ (v = 2 \/ v + i <= w)
  BY DEF Condensed
<1>2. v \in {2, 4, 8, 16} BY DEF Lanes2
<1>3. Len(layer) = v
  <2>1. v \in Nat BY <1>2
  <2>2. Len(Layer(key, flags, f, p, v)) = v BY <2>1, LayerIs
  <2> QED BY <1>1, <2>2
<1> DEFINE next == CondenseStep(cpu, layer, key, flags)
<1>4. CASE v = 2
  <2>1. next = layer BY <1>3, <1>4 DEF CondenseStep
  <2> HIDE DEF next
  <2>2. layer = Layer(key, flags, f, p, v) /\ v * p = s /\ v = 2 BY <1>1, <1>4
  <2>3. Condensed(key, flags, f, s, w, i + 1, layer) BY <2>2 DEF Condensed
  <2>4. Condensed(key, flags, f, s, w, i + 1, next) BY <2>1, <2>3
  <2> QED BY <2>4 DEF next
<1>5. CASE v # 2
  <2> DEFINE h == v \div 2
             q == 2 * p
  <2>1. h \in Lanes2 /\ v = 2 * h /\ h \in Nat /\ h + 1 <= v BY <1>2, <1>5 DEF Lanes2
  <2> HIDE DEF h
  <2>2. next = compress_parents_parallel(cpu, layer, key, flags)
    <3>1. Len(layer) > 2 BY <1>2, <1>3, <1>5
    <3> QED BY <3>1 DEF CondenseStep
  <2>3. compress_parents_parallel(cpu, Layer(key, flags, f, p, 2 * h), key, flags)
          = Layer(key, flags, f, q, h)
    BY <2>1, ParentsParallelIs
  <2>4. q \in Powers /\ h * q = s
    <3>1. p \in Nat /\ q \in Powers BY PowerPositive
    <3>2. h * (2 * p) = (2 * h) * p BY <2>1, <3>1
    <3> QED BY <1>1, <2>1, <3>1, <3>2
  <2>5. h + (i + 1) <= w BY <1>1, <1>2, <1>5, <2>1
  <2> HIDE DEF q, next
  <2>6. next = Layer(key, flags, f, q, h) BY <1>1, <2>1, <2>2, <2>3
  <2>7. Condensed(key, flags, f, s, w, i + 1, next) BY <2>1, <2>4, <2>5, <2>6 DEF Condensed
  <2> QED BY <2>7 DEF next
<1> QED BY <1>4, <1>5

LEMMA CondenseTwo ==
    ASSUME NEW cpu, NEW key, NEW flags, NEW f \in Nat, NEW h \in Powers, NEW cvs,
           IsWide(cpu, key, flags, f, 2 * h, cvs)
    PROVE  Condense(cpu, cvs, key, flags) = Layer(key, flags, f, h, 2)
<1> DEFINE s == 2 * h
           w == Width2(cpu, s)
<1>1. s \in Powers /\ s # 1 /\ h \in Nat \ {0} /\ s \in Nat
  <2>1. h \in Nat \ {0} /\ s \in Powers BY PowerPositive
  <2> QED BY <2>1
<1> HIDE DEF s
<1>2. w \in Lanes2 BY <1>1, Width2Is
<1> HIDE DEF w
<1>3. PICK p \in Powers : s = w * p /\ cvs = Layer(key, flags, f, p, w)
  <2>1. IsWide(cpu, key, flags, f, s, cvs) BY DEF s
  <2> QED BY <2>1 DEF IsWide, w
<1>4. w \in {2, 4, 8, 16} /\ w \in Nat BY <1>2 DEF Lanes2
<1>5. Len(cvs) = w
  <2>1. Len(Layer(key, flags, f, p, w)) = w BY <1>4, LayerIs
  <2> QED BY <1>3, <2>1
<1>6. PICK t : /\ CondenseTo(cpu, cvs, key, flags, t, w)
               /\ Condense(cpu, cvs, key, flags) = t[w]
  <2>1. \E t : /\ CondenseTo(cpu, cvs, key, flags, t, Len(cvs))
               /\ Condense(cpu, cvs, key, flags) = t[Len(cvs)]
    BY <1>4, <1>5, CondenseIs
  <2> QED BY <1>5, <2>1
<1> DEFINE T == {i \in Nat : Condensed(key, flags, f, s, w, i, t[i])}
<1>7. 0 \in T
  <2>1. t[0] = cvs BY <1>6 DEF CondenseTo
  <2>2. w + 0 <= w BY <1>4
  <2>3. Condensed(key, flags, f, s, w, 0, cvs) BY <1>2, <1>3, <2>2 DEF Condensed
  <2> QED BY <2>1, <2>3
<1>8. \A i \in 1 .. w : i - 1 \in T => i \in T
  <2> SUFFICES ASSUME NEW i \in 1 .. w, i - 1 \in T PROVE i \in T OBVIOUS
  <2>1. i - 1 \in Nat /\ (i - 1) + 1 = i /\ i \in Nat OBVIOUS
  <2>2. t[i] = CondenseStep(cpu, t[i - 1], key, flags) BY <1>6 DEF CondenseTo
  <2>3. Condensed(key, flags, f, s, w, (i - 1) + 1, CondenseStep(cpu, t[i - 1], key, flags))
    BY <1>1, <1>4, <2>1, CondensedStep
  <2> QED BY <2>1, <2>2, <2>3
<1>9. w \in T
  <2>1. w \in 0 .. w BY <1>4
  <2> HIDE DEF T
  <2> QED BY <1>4, <1>7, <1>8, <2>1, ByStep
<1>10. PICK v \in Lanes2, q \in Powers :
         t[w] = Layer(key, flags, f, q, v) /\ v * q = s /\ (v = 2 \/ v + w <= w)
  BY <1>9 DEF Condensed
<1>11. v = 2 BY <1>4, <1>10 DEF Lanes2
<1>12. q = h
  <2>1. q \in Nat BY PowerPositive
  <2>2. 2 * q = 2 * h BY <1>10, <1>11 DEF s
  <2> QED BY <1>1, <2>1, <2>2
<1> QED BY <1>6, <1>10, <1>11, <1>12

\* A subtree is reduced to its two halves.
LEMMA ParentNodeIs ==
    ASSUME NEW cpu, NEW key, NEW flags, NEW c \in Nat, NEW h \in Powers
    PROVE  compress_subtree_to_parent_node(cpu, Input(Base(c) + 1, Base(c) + Base(2 * h)), key, c, flags)
             = Layer(key, flags, c, h, 2)
<1> DEFINE s == 2 * h
           input == Input(Base(c) + 1, Base(c) + Base(s))
           cvs == blake3_compress_subtree_wide(cpu, input, key, c, flags)
<1>1. s \in Powers BY PowerPositive
<1> HIDE DEF s
<1>2. IsWide(cpu, key, flags, c, s, cvs) BY <1>1, SubtreeWideIs
<1> HIDE DEF cvs
<1>3. IsWide(cpu, key, flags, c, 2 * h, cvs) BY <1>2 DEF s
<1>4. Condense(cpu, cvs, key, flags) = Layer(key, flags, c, h, 2) BY <1>3, CondenseTwo
<1>5. compress_subtree_to_parent_node(cpu, input, key, c, flags) = Layer(key, flags, c, h, 2)
  <2> HIDE DEF input
  <2> QED BY <1>4 DEF compress_subtree_to_parent_node, cvs
<1> QED BY <1>5 DEF input, s

-----------------------------------------------------------------------------
(* A chunk that is not begun.                                              *)

WithCounter(self, c) == [self EXCEPT !.chunk_counter = c]

LEMMA CanonStart ==
    ASSUME NEW key, NEW flags, NEW c
    PROVE  Canon(key, flags, c, 0) = ChunkState(key, c, Zeros(BLOCK_LEN), 0, 0, flags)
<1>1. Full(0) = 0 /\ Offset(0) = 0 BY Lengths DEF Full
<1>2. 0 - Offset(Full(0)) = 0 BY <1>1
<1>3. Cvs(key, flags, c)[0] = key
  <2>1. Blocks \in Nat BY Lengths
  <2> QED BY <2>1, CvsAre DEF Chained
<1>4. Buffer(c, 0, 0) = Zeros(BLOCK_LEN)
  <2>1. \A i \in 1 .. BLOCK_LEN : ~(i <= 0) OBVIOUS
  <2> QED BY <2>1 DEF Buffer, Zeros
<1>5. Canon(key, flags, c, 0) = Filling(key, flags, c, 0, 0) BY <1>1, <1>2 DEF Canon
<1> QED BY <1>3, <1>4, <1>5 DEF Filling

LEMMA Counted ==
    ASSUME NEW cv, NEW c, NEW buf, NEW len, NEW b, NEW flags, NEW d
    PROVE  WithCounter(ChunkState(cv, c, buf, len, b, flags), d) = ChunkState(cv, d, buf, len, b, flags)
BY DEF WithCounter, ChunkState

LEMMA InitIs ==
    ASSUME NEW key, NEW flags
    PROVE  chunk_state_init(key, flags) = Canon(key, flags, 0, 0)
<1>1. chunk_state_init(key, flags) = ChunkState(key, 0, Zeros(BLOCK_LEN), 0, 0, flags)
  BY Zenon DEF chunk_state_init, ChunkState
<1> QED BY <1>1, CanonStart

LEMMA CountedCanon ==
    ASSUME NEW key, NEW flags, NEW c, NEW d
    PROVE  WithCounter(Canon(key, flags, c, 0), d) = Canon(key, flags, d, 0)
BY CanonStart, Counted

LEMMA ResetIs ==
    ASSUME NEW self, NEW key, NEW c
    PROVE  chunk_state_reset(self, key, c) = Canon(key, self.flags, c, 0)
<1>1. chunk_state_reset(self, key, c) = WithCounter(chunk_state_init(key, self.flags), c)
  BY Zenon DEF chunk_state_reset, WithCounter
<1> QED BY <1>1, InitIs, CountedCanon

\* A chunk that is hashed by itself.
LEMMA ChunkOfIs ==
    ASSUME NEW key, NEW flags, NEW c \in Nat
    PROVE  chunk_state_output(ChunkOf(Input(Base(c) + 1, Base(c) + CHUNK_LEN), key, c, flags))
             = Out(key, flags, c, CHUNK_LEN)
<1> DEFINE input == Input(Base(c) + 1, Base(c) + CHUNK_LEN)
<1>1. CHUNK_LEN \in Nat /\ 0 + CHUNK_LEN = CHUNK_LEN /\ Base(c) + 0 = Base(c) /\ 0 \in Nat
  <2>1. CHUNK_LEN \in Nat BY Lengths
  <2>2. Base(c) \in Nat BY BaseIs
  <2> QED BY <2>1, <2>2
<1>2. ChunkOf(input, key, c, flags) = chunk_state_update(WithCounter(chunk_state_init(key, flags), c), input)
  BY Zenon DEF ChunkOf, WithCounter
<1>3. WithCounter(chunk_state_init(key, flags), c) = Canon(key, flags, c, 0) BY InitIs, CountedCanon
<1>4. chunk_state_update(Canon(key, flags, c, 0), input) = Canon(key, flags, c, CHUNK_LEN)
  <2>1. 0 + CHUNK_LEN <= CHUNK_LEN BY <1>1
  <2> DEFINE p == Base(c) + 0
  <2>2. chunk_state_update(Canon(key, flags, c, 0), Input(p + 1, p + CHUNK_LEN))
          = Canon(key, flags, c, 0 + CHUNK_LEN)
    BY <1>1, <2>1, UpdateIs
  <2>3. p = Base(c) BY <1>1
  <2> HIDE DEF p
  <2> QED BY <1>1, <2>2, <2>3
<1> HIDE DEF input
<1>5. chunk_state_output(ChunkOf(input, key, c, flags)) = Out(key, flags, c, CHUNK_LEN)
  BY <1>2, <1>3, <1>4 DEF Out
<1> QED BY <1>5 DEF input

-----------------------------------------------------------------------------
(* The hasher and its stack.                                               *)

Hasher(key, chunk, stack) == [key |-> key, chunk |-> chunk, cv_stack |-> stack]

LEMMA HasherFields ==
    ASSUME NEW key, NEW chunk, NEW stack
    PROVE  LET self == Hasher(key, chunk, stack)
           IN  self.key = key /\ self.chunk = chunk /\ self.cv_stack = stack
BY DEF Hasher

WithStack(self, stack) == [self EXCEPT !.cv_stack = stack]
WithChunk(self, chunk) == [self EXCEPT !.chunk = chunk]

LEMMA StackSet ==
    ASSUME NEW key, NEW chunk, NEW stack, NEW x
    PROVE  WithStack(Hasher(key, chunk, stack), x) = Hasher(key, chunk, x)
BY DEF WithStack, Hasher

LEMMA ChunkSet ==
    ASSUME NEW key, NEW chunk, NEW stack, NEW x
    PROVE  WithChunk(Hasher(key, chunk, stack), x) = Hasher(key, x, stack)
BY DEF WithChunk, Hasher

StackOf(key, flags, pos, n) == [i \in 1 .. n |-> Node(key, flags, Size(pos, i), pos[i - 1])]

LEMMA StackIs ==
    ASSUME NEW key, NEW flags, NEW pos, NEW n \in Nat
    PROVE  /\ IsSeq(StackOf(key, flags, pos, n), n) /\ Len(StackOf(key, flags, pos, n)) = n
           /\ \A i \in 1 .. n :
                 StackOf(key, flags, pos, n)[i] = Node(key, flags, Size(pos, i), pos[i - 1])
<1> DEFINE stack == StackOf(key, flags, pos, n)
<1>1. IsSeq(stack, n) BY DEF StackOf, IsSeq
<1>2. \A i \in 1 .. n : stack[i] = Node(key, flags, Size(pos, i), pos[i - 1]) BY DEF StackOf
<1>3. Len(stack) = n
  <2> HIDE DEF stack
  <2> QED BY <1>1, SeqLen
<1> QED BY <1>1, <1>2, <1>3

MergedStack(stack, key, flags) ==
    Append(SubSeq(stack, 1, Len(stack) - 2),
           output_chaining_value(parent_output(stack[Len(stack) - 1], stack[Len(stack)], key, flags)))

LEMMA MergeTopIs ==
    ASSUME NEW key, NEW chunk, NEW stack
    PROVE  MergeTop(Hasher(key, chunk, stack)) = Hasher(key, chunk, MergedStack(stack, key, chunk.flags))
<1> DEFINE self == Hasher(key, chunk, stack)
<1>1. self.key = key /\ self.chunk = chunk /\ self.cv_stack = stack BY HasherFields
<1>2. MergeTop(self)
        = WithStack(self, MergedStack(self.cv_stack, self.key, self.chunk.flags))
  <2> HIDE DEF self
  <2> QED BY Zenon DEF MergeTop, WithStack, MergedStack
<1>3. MergeTop(self) = WithStack(self, MergedStack(stack, key, chunk.flags))
  <2> HIDE DEF self
  <2> QED BY <1>1, <1>2
<1> QED BY <1>3, StackSet

LEMMA MergedStackIs ==
    ASSUME NEW key, NEW flags, NEW pos, NEW n, NEW c, Layout(pos, n, c), n >= 2,
           Size(pos, n - 1) = Size(pos, n)
    PROVE  MergedStack(StackOf(key, flags, pos, n), key, flags)
             = StackOf(key, flags, Merged(pos, n), n - 1)
<1> DEFINE stack == StackOf(key, flags, pos, n)
           m == Merged(pos, n)
           next == StackOf(key, flags, m, n - 1)
           s == Size(pos, n)
           k == n - 2
           e == output_chaining_value(parent_output(stack[n - 1], stack[n], key, flags))
<1>1. /\ Layout(m, n - 1, c) /\ Size(m, n - 1) = 2 * s
      /\ pos[n - 1] = pos[n - 2] + s /\ pos[n] = pos[n - 1] + s
      /\ \A i \in 1 .. n - 2 : Size(m, i) = Size(pos, i)
  BY LayoutMerged
<1>2. n \in Nat /\ k \in Nat /\ n - 1 = k + 1 /\ n - 1 \in Nat /\ n - 1 \in 1 .. n /\ n \in 1 .. n
  BY DEF Layout
<1>3. s \in Powers /\ pos[k] \in Nat
  <2>1. s \in Powers BY <1>2, LayoutFacts
  <2>2. pos[(n - 1) - 1] \in Nat BY <1>2, LayoutFacts
  <2> QED BY <1>2, <2>1, <2>2
<1>4. /\ Len(stack) = n
      /\ \A i \in 1 .. n : stack[i] = Node(key, flags, Size(pos, i), pos[i - 1])
  BY <1>2, StackIs
<1>5. /\ IsSeq(next, n - 1)
      /\ \A i \in 1 .. (n - 1) : next[i] = Node(key, flags, Size(m, i), m[i - 1])
  <2> DEFINE l == n - 1
  <2>1. l \in Nat BY <1>2
  <2> HIDE DEF l, m
  <2> QED BY <2>1, StackIs DEF l
<1>6. \A i \in 0 .. k : m[i] = pos[i] BY <1>2 DEF Merged
<1> HIDE DEF m, s
<1>7. stack[n - 1] = Node(key, flags, s, pos[k]) /\ stack[n] = Node(key, flags, s, pos[k] + s)
  <2>1. stack[n - 1] = Node(key, flags, Size(pos, n - 1), pos[(n - 1) - 1]) BY <1>2, <1>4
  <2>2. stack[n] = Node(key, flags, Size(pos, n), pos[n - 1]) BY <1>2, <1>4
  <2>3. (n - 1) - 1 = k BY <1>2
  <2> HIDE DEF stack
  <2> QED BY <1>1, <2>1, <2>2, <2>3 DEF s
<1>8. e = Node(key, flags, 2 * s, pos[k])
  <2> HIDE DEF stack
  <2>1. Node(key, flags, 2 * s, pos[k])
          = output_chaining_value(parent_output(Node(key, flags, s, pos[k]),
                                                Node(key, flags, s, pos[k] + s), key, flags))
    <3> DEFINE x == pos[k]
    <3>1. x \in Nat BY <1>3
    <3> HIDE DEF x
    <3>2. Node(key, flags, 2 * s, x)
            = output_chaining_value(parent_output(Node(key, flags, s, x), Node(key, flags, s, x + s),
                                                  key, flags))
      BY <1>3, <3>1, NodeDouble
    <3> QED BY <3>2 DEF x
  <2> QED BY <1>7, <2>1
<1> DEFINE below == SubSeq(stack, 1, n - 2)
<1>9. IsSeq(below, k) /\ \A i \in 1 .. k : below[i] = stack[i]
  <2> HIDE DEF stack
  <2>1. 1 \in Int /\ k \in Int /\ k + 1 = 1 + k BY <1>2
  <2> HIDE DEF k
  <2>2. IsSeq(SubSeq(stack, 1, k), k) /\ \A i \in 1 .. k : SubSeq(stack, 1, k)[i] = stack[(1 + i) - 1]
    BY <1>2, <2>1, SubSeqIs, ZenonT(60)
  <2>3. \A i \in 1 .. k : (1 + i) - 1 = i OBVIOUS
  <2>4. below = SubSeq(stack, 1, k) BY DEF k
  <2> HIDE DEF below
  <2> QED BY <2>2, <2>3, <2>4
<1> HIDE DEF below, e, k
<1> DEFINE all == With(below, k, e)
<1>10. IsSeq(all, k + 1) /\ all[k + 1] = e /\ \A i \in 1 .. k : all[i] = below[i]
  BY <1>9, WithIs
<1> HIDE DEF all
<1> HIDE DEF stack, next
<1>11. ASSUME NEW i \in 1 .. (n - 1) PROVE all[i] = next[i]
  <2>1. CASE i = n - 1
    <3>1. i = k + 1 /\ i - 1 = k /\ k \in 0 .. k BY <1>2, <2>1
    <3>2. next[i] = Node(key, flags, Size(m, n - 1), m[k]) BY <1>5, <2>1, <3>1
    <3>3. m[k] = pos[k] BY <1>6, <3>1
    <3> QED BY <1>1, <1>8, <1>10, <3>1, <3>2, <3>3
  <2>2. CASE i # n - 1
    <3>1. i \in 1 .. k /\ i \in 1 .. n - 2 /\ i \in 1 .. n /\ i - 1 \in 0 .. k BY <1>2, <2>2 DEF k
    <3>2. next[i] = Node(key, flags, Size(pos, i), pos[i - 1])
      <4>1. Size(m, i) = Size(pos, i) BY <1>1, <3>1
      <4>2. m[i - 1] = pos[i - 1] BY <1>6, <3>1
      <4> QED BY <1>5, <4>1, <4>2
    <3>3. stack[i] = Node(key, flags, Size(pos, i), pos[i - 1]) BY <1>4, <3>1
    <3> QED BY <1>9, <1>10, <3>1, <3>2, <3>3
  <2> QED BY <2>1, <2>2
<1>12. all = next
  <2> DEFINE l == n - 1
             x == all
  <2>1. IsSeq(x, l) BY <1>2, <1>10
  <2>2. IsSeq(next, l) /\ \A i \in 1 .. l : x[i] = next[i] BY <1>5, <1>11
  <2> HIDE DEF x, l
  <2>3. x = next BY <2>1, <2>2, SeqSame
  <2> QED BY <2>3 DEF x
<1>13. MergedStack(stack, key, flags) = Append(below, e) BY <1>4, Zenon DEF MergedStack, below, e
<1>14. Append(below, e) = all BY <1>9, AppendWith DEF all
<1> QED BY <1>12, <1>13, <1>14 DEF stack, next, m

-----------------------------------------------------------------------------
(* Merging.                                                                *)

MergeTo(self, t, n) == t[0] = self /\ \A i \in 1 .. n : t[i] = MergeTop(t[i - 1])

LEMMA MergesIs ==
    ASSUME NEW self, NEW total_len,
           NEW n \in Nat \ {0}, n = Len(self.cv_stack) - popcnt(total_len)
    PROVE  \E t : MergeTo(self, t, n) /\ hasher_merge_cv_stack(self, total_len) = t[n]
<1> DEFINE step(b) == MergeTop(b)
           to(t, k) == MergeTo(self, t, k)
           T == {k \in Nat : \E t : to(t, k)}
           H(t) == t = [i \in 0 .. n |-> IF i = 0 THEN self ELSE step(t[i - 1])]
<1>0. \A t, k : to(t, k) <=> t[0] = self /\ \A i \in 1 .. k : t[i] = step(t[i - 1]) BY DEF MergeTo
<1>1. hasher_merge_cv_stack(self, total_len) = (CHOOSE t : H(t))[n]
  <2> DEFINE excess == Len(self.cv_stack) - popcnt(total_len)
             J(t) == t = [i \in 0 .. excess |-> IF i = 0 THEN self ELSE MergeTop(t[i - 1])]
  <2>1. hasher_merge_cv_stack(self, total_len)
          = IF excess > 0 THEN (CHOOSE t : J(t))[excess] ELSE self
    BY DEF hasher_merge_cv_stack
  <2>2. excess = n /\ n > 0 OBVIOUS
  <2> HIDE DEF excess
  <2>3. (CHOOSE t : J(t)) = (CHOOSE t : H(t)) BY <2>2
  <2> HIDE DEF J, H
  <2> QED BY <2>1, <2>2, <2>3
<1> HIDE DEF step, to
<1>4. 0 \in T
  <2> DEFINE t == [i \in 0 .. 0 |-> self]
  <2>1. t[0] = self OBVIOUS
  <2> HIDE DEF t
  <2>2. to(t, 0) BY <1>0, <2>1
  <2> QED BY <2>2
<1>5. ASSUME NEW k \in 1 .. n, k - 1 \in T PROVE k \in T
  <2>1. PICK t : to(t, k - 1) BY <1>5
  <2> DEFINE h == [i \in 0 .. k |-> IF i = k THEN step(t[k - 1]) ELSE t[i]]
  <2>2. \A i \in 0 .. k : h[i] = IF i = k THEN step(t[k - 1]) ELSE t[i] OBVIOUS
  <2> HIDE DEF h
  <2>3. h[0] = self BY <1>0, <2>1, <2>2
  <2>4. ASSUME NEW i \in 1 .. k PROVE h[i] = step(h[i - 1])
    <3>1. i \in 0 .. k /\ i - 1 \in 0 .. k /\ i - 1 # k OBVIOUS
    <3>2. h[i - 1] = t[i - 1] BY <2>2, <3>1
    <3>3. i # k => i \in 1 .. (k - 1) OBVIOUS
    <3> QED BY <1>0, <2>1, <2>2, <3>1, <3>2, <3>3
  <2>5. to(h, k) BY <1>0, <2>3, <2>4
  <2> QED BY <2>5
<1>7. PICK t : to(t, n)
  <2>1. n \in 0 .. n OBVIOUS
  <2> HIDE DEF T
  <2>2. n \in T BY <1>4, <1>5, <2>1, ByStep
  <2> QED BY <2>2 DEF T
<1> DEFINE h == [i \in 0 .. n |-> t[i]]
           chain == CHOOSE o : H(o)
<1>8. H(h)
  <2>1. \A i \in 0 .. n : h[i] = t[i] OBVIOUS
  <2>2. \A i \in 0 .. n : h[i] = IF i = 0 THEN self ELSE step(h[i - 1])
    <3> HIDE DEF h
    <3>1. \A i \in 0 .. n : i # 0 => i \in 1 .. n /\ i - 1 \in 0 .. n OBVIOUS
    <3> QED BY <1>0, <1>7, <2>1, <3>1
  <2>3. h = [i \in 0 .. n |-> h[i]] OBVIOUS
  <2> HIDE DEF h
  <2> QED BY <2>2, <2>3
<1>9. H(chain)
  <2> HIDE DEF H, h
  <2> QED BY <1>8
<1> HIDE DEF chain
<1>10. \A i \in 0 .. n : chain[i] = IF i = 0 THEN self ELSE step(chain[i - 1]) BY <1>9
<1>11. to(chain, n)
  <2>1. 0 \in 0 .. n /\ \A i \in 1 .. n : i \in 0 .. n /\ i # 0 OBVIOUS
  <2> HIDE DEF H
  <2> QED BY <1>0, <1>10, <2>1
<1>12. hasher_merge_cv_stack(self, total_len) = chain[n]
  <2> HIDE DEF H
  <2> QED BY <1>1 DEF chain
<1> QED BY <1>11, <1>12 DEF to

\* The stack is merged until it has as many values as the number of chunks has bits.
LEMMA MergeIs ==
    ASSUME NEW key, NEW chunk, NEW pos, NEW n, NEW c, Layout(pos, n, c)
    PROVE  \E q, m : /\ Strict(q, m, c)
                     /\ hasher_merge_cv_stack(Hasher(key, chunk, StackOf(key, chunk.flags, pos, n)), c)
                          = Hasher(key, chunk, StackOf(key, chunk.flags, q, m))
<1> DEFINE flags == chunk.flags
           stack == StackOf(key, flags, pos, n)
           self == Hasher(key, chunk, stack)
           b == popcnt(c)
           excess == n - b
<1>1. n \in Nat /\ c \in Nat BY DEF Layout
<1>2. b \in Nat /\ b <= n /\ (b = n => Strict(pos, n, c)) BY LayoutCount
<1>3. self.cv_stack = stack /\ Len(stack) = n
  <2>1. self.cv_stack = stack
    <3> HIDE DEF stack
    <3> QED BY HasherFields
  <2>2. Len(stack) = n BY <1>1, StackIs
  <2> QED BY <2>1, <2>2
<1> HIDE DEF flags
<1>4. CASE b = n
  <2>1. hasher_merge_cv_stack(self, c) = self
    <3> DEFINE x == Len(self.cv_stack) - popcnt(c)
    <3>1. ~(x > 0)
      <4>1. x = n - b
        <5> HIDE DEF stack, self
        <5> QED BY <1>3
      <4> HIDE DEF x, b
      <4> QED BY <1>1, <1>4, <4>1
    <3> HIDE DEF self
    <3> QED BY <3>1, Zenon DEF hasher_merge_cv_stack
  <2> QED BY <1>2, <1>4, <2>1 DEF flags
<1>5. CASE b # n
  <2>1. excess \in Nat \ {0} /\ excess <= n
    <3> HIDE DEF b
    <3> QED BY <1>1, <1>2, <1>5
  <2>2. excess = Len(self.cv_stack) - popcnt(c) BY <1>3
  <2> HIDE DEF self, excess
  <2>3. PICK t : MergeTo(self, t, excess) /\ hasher_merge_cv_stack(self, c) = t[excess]
    BY <2>1, <2>2, MergesIs
  <2> DEFINE Merged2(i) == \E q : Layout(q, n - i, c) /\ t[i] = Hasher(key, chunk, StackOf(key, flags, q, n - i))
             T == {i \in Nat : Merged2(i)}
  <2>4. 0 \in T
    <3>1. t[0] = self BY <2>3 DEF MergeTo
    <3>2. n - 0 = n BY <1>1
    <3>3. Layout(pos, n - 0, c) /\ t[0] = Hasher(key, chunk, StackOf(key, flags, pos, n - 0))
      BY <3>1, <3>2 DEF self
    <3> QED BY <3>3
  <2>5. ASSUME NEW i \in 1 .. excess, i - 1 \in T PROVE i \in T
    <3> DEFINE k == n - (i - 1)
    <3>1. PICK q : Layout(q, k, c) /\ t[i - 1] = Hasher(key, chunk, StackOf(key, flags, q, k))
      BY <2>5
    <3>2. k - 1 = n - i /\ b < k /\ i \in Nat /\ k \in Nat BY <1>1, <1>2, <2>1 DEF excess
    <3> HIDE DEF k
    <3>3. k >= 2 /\ Size(q, k - 1) = Size(q, k) BY <3>1, <3>2, LayoutCount
    <3>4. Layout(Merged(q, k), k - 1, c) BY <3>1, <3>3, LayoutMerged
    <3>5. MergedStack(StackOf(key, flags, q, k), key, flags) = StackOf(key, flags, Merged(q, k), k - 1)
      BY <3>1, <3>3, MergedStackIs
    <3>6. t[i] = MergeTop(t[i - 1]) BY <2>3 DEF MergeTo
    <3>7. t[i] = Hasher(key, chunk, StackOf(key, flags, Merged(q, k), k - 1))
      <4> DEFINE x == StackOf(key, flags, q, k)
      <4> HIDE DEF x
      <4>1. MergeTop(Hasher(key, chunk, x)) = Hasher(key, chunk, MergedStack(x, key, chunk.flags))
        BY MergeTopIs
      <4> QED BY <3>1, <3>5, <3>6, <4>1 DEF x, flags
    <3>8. Merged2(i) BY <3>2, <3>4, <3>7
    <3> QED BY <3>2, <3>8
  <2>6. excess \in T
    <3>1. excess \in 0 .. excess BY <2>1
    <3> HIDE DEF T
    <3> QED BY <2>1, <2>4, <2>5, <3>1, ByStep
  <2>7. n - excess = b
    <3> HIDE DEF b
    <3> QED BY <1>1, <1>2 DEF excess
  <2>8. PICK q : Layout(q, b, c) /\ t[excess] = Hasher(key, chunk, StackOf(key, flags, q, b))
    BY <2>6, <2>7
  <2>9. Strict(q, b, c) BY <2>8, LayoutCount
  <2> QED BY <2>3, <2>8, <2>9 DEF self, flags
<1> QED BY <1>4, <1>5

-----------------------------------------------------------------------------
(* Pushing.                                                                *)

Stacked(key, flags, c, stack) == \E pos, n : Layout(pos, n, c) /\ stack = StackOf(key, flags, pos, n)
Tidy(key, flags, c, stack) == \E pos, n : Strict(pos, n, c) /\ stack = StackOf(key, flags, pos, n)

\* The two subtrees on top are of one size.
Twins(key, flags, c, stack) ==
    \E pos, n : /\ Layout(pos, n, c) /\ stack = StackOf(key, flags, pos, n)
                /\ n >= 2 /\ Size(pos, n - 1) = Size(pos, n)

LEMMA MergeNone ==
    ASSUME NEW key, NEW chunk, NEW flags, NEW pos, NEW n, NEW c, Strict(pos, n, c)
    PROVE  hasher_merge_cv_stack(Hasher(key, chunk, StackOf(key, flags, pos, n)), c)
             = Hasher(key, chunk, StackOf(key, flags, pos, n))
<1> DEFINE stack == StackOf(key, flags, pos, n)
           self == Hasher(key, chunk, stack)
           x == Len(self.cv_stack) - popcnt(c)
<1>1. n \in Nat BY DEF Strict, Layout
<1>2. Len(stack) = n BY <1>1, StackIs
<1>3. self.cv_stack = stack
  <2> HIDE DEF stack
  <2> QED BY HasherFields
<1>4. popcnt(c) = n BY StrictCount
<1> HIDE DEF stack, self
<1>5. ~(x > 0) BY <1>1, <1>2, <1>3, <1>4
<1>6. hasher_merge_cv_stack(self, c) = self BY <1>5, Zenon DEF hasher_merge_cv_stack
<1> QED BY <1>6 DEF self, stack

LEMMA StackPushed ==
    ASSUME NEW key, NEW flags, NEW pos, NEW n, NEW c, Strict(pos, n, c), NEW p \in Nat
    PROVE  Append(StackOf(key, flags, pos, n), Node(key, flags, p, c))
             = StackOf(key, flags, Pushed(pos, n, c + p), n + 1)
<1> DEFINE stack == StackOf(key, flags, pos, n)
           e == Node(key, flags, p, c)
           d == c + p
           m == Pushed(pos, n, d)
           next == StackOf(key, flags, m, n + 1)
           all == With(stack, n, e)
<1>1. n \in Nat /\ n + 1 \in Nat /\ pos[n] = c /\ c \in Nat BY DEF Strict, Layout
<1>2. IsSeq(stack, n) /\ \A i \in 1 .. n : stack[i] = Node(key, flags, Size(pos, i), pos[i - 1])
  BY <1>1, StackIs
<1>3. /\ IsSeq(next, n + 1)
      /\ \A i \in 1 .. n + 1 : next[i] = Node(key, flags, Size(m, i), m[i - 1])
  <2> HIDE DEF m
  <2> QED BY <1>1, StackIs
<1>4. \A i \in 0 .. n + 1 : m[i] = IF i = n + 1 THEN d ELSE pos[i] BY <1>1 DEF Pushed
<1> HIDE DEF stack, next, m
<1>5. IsSeq(all, n + 1) /\ all[n + 1] = e /\ \A i \in 1 .. n : all[i] = stack[i] BY <1>2, WithIs
<1>6. Append(stack, e) = all BY <1>2, AppendWith
<1> HIDE DEF all, e
<1>7. ASSUME NEW i \in 1 .. n + 1 PROVE all[i] = next[i]
  <2>1. next[i] = Node(key, flags, Size(m, i), m[i - 1]) BY <1>3
  <2>2. CASE i = n + 1
    <3>1. m[i] = d /\ m[i - 1] = c
      <4>1. i \in 0 .. n + 1 /\ i - 1 \in 0 .. n + 1 /\ i - 1 # n + 1 /\ i - 1 = n BY <1>1, <2>2
      <4> QED BY <1>1, <1>4, <2>2, <4>1
    <3>2. Size(m, i) = p BY <1>1, <3>1 DEF Size
    <3> QED BY <1>5, <2>1, <2>2, <3>1, <3>2 DEF e
  <2>3. CASE i # n + 1
    <3>1. i \in 1 .. n /\ i \in 0 .. n + 1 /\ i - 1 \in 0 .. n + 1 /\ i - 1 # n + 1 BY <1>1, <2>3
    <3>2. m[i] = pos[i] /\ m[i - 1] = pos[i - 1] BY <1>4, <2>3, <3>1
    <3>3. Size(m, i) = Size(pos, i) BY <3>2 DEF Size
    <3> QED BY <1>2, <1>5, <2>1, <3>1, <3>2, <3>3
  <2> QED BY <2>2, <2>3
<1>8. all = next BY <1>3, <1>5, <1>7, SeqSame
<1>9. Append(stack, e) = next BY <1>6, <1>8
<1> QED BY <1>9 DEF stack, e, next, m

LEMMA PushOnMerged ==
    ASSUME NEW self, NEW key, NEW chunk, NEW stack, NEW c, NEW e,
           hasher_merge_cv_stack(self, c) = Hasher(key, chunk, stack)
    PROVE  hasher_push_cv(self, e, c) = Hasher(key, chunk, Append(stack, e))
<1> DEFINE merged == hasher_merge_cv_stack(self, c)
<1>1. hasher_push_cv(self, e, c) = WithStack(merged, Append(merged.cv_stack, e))
  BY Zenon DEF hasher_push_cv, WithStack
<1>2. merged.cv_stack = stack
  <2>1. Hasher(key, chunk, stack).cv_stack = stack BY HasherFields
  <2> QED BY <2>1
<1> HIDE DEF merged
<1>3. merged = Hasher(key, chunk, stack) BY DEF merged
<1>4. hasher_push_cv(self, e, c) = WithStack(Hasher(key, chunk, stack), Append(stack, e))
  BY <1>1, <1>2, <1>3
<1> QED BY <1>4, StackSet

LEMMA PushIs ==
    ASSUME NEW key, NEW chunk, NEW flags, chunk.flags = flags, NEW c, NEW stack,
           Stacked(key, flags, c, stack), NEW p \in Powers, Mult(p, c)
    PROVE  \E q, m : /\ Strict(q, m, c)
                     /\ hasher_push_cv(Hasher(key, chunk, stack), Node(key, flags, p, c), c)
                          = Hasher(key, chunk, StackOf(key, flags, Pushed(q, m, c + p), m + 1))
<1> DEFINE e == Node(key, flags, p, c)
           self == Hasher(key, chunk, stack)
<1>1. PICK pos, n : Layout(pos, n, c) /\ stack = StackOf(key, flags, pos, n) BY DEF Stacked
<1>2. PICK q, m : /\ Strict(q, m, c)
                  /\ hasher_merge_cv_stack(Hasher(key, chunk, StackOf(key, chunk.flags, pos, n)), c)
                       = Hasher(key, chunk, StackOf(key, chunk.flags, q, m))
  BY <1>1, MergeIs
<1> DEFINE merged == StackOf(key, flags, q, m)
<1>3. hasher_merge_cv_stack(self, c) = Hasher(key, chunk, merged) BY <1>1, <1>2
<1> HIDE DEF self, merged
<1>4. hasher_push_cv(self, e, c) = Hasher(key, chunk, Append(merged, e)) BY <1>3, PushOnMerged
<1>5. p \in Nat BY PowerPositive
<1>6. Append(merged, e) = StackOf(key, flags, Pushed(q, m, c + p), m + 1)
  BY <1>2, <1>5, StackPushed DEF merged
<1>7. hasher_push_cv(self, e, c) = Hasher(key, chunk, StackOf(key, flags, Pushed(q, m, c + p), m + 1))
  BY <1>4, <1>6
<1> QED BY <1>2, <1>7 DEF self, e

LEMMA PushChunk ==
    ASSUME NEW key, NEW chunk, NEW flags, chunk.flags = flags, NEW c, NEW stack,
           Stacked(key, flags, c, stack), NEW p \in Powers, Mult(p, c)
    PROVE  \E next : /\ Stacked(key, flags, c + p, next)
                     /\ hasher_push_cv(Hasher(key, chunk, stack), Node(key, flags, p, c), c)
                          = Hasher(key, chunk, next)
<1>1. PICK q, m : /\ Strict(q, m, c)
                  /\ hasher_push_cv(Hasher(key, chunk, stack), Node(key, flags, p, c), c)
                       = Hasher(key, chunk, StackOf(key, flags, Pushed(q, m, c + p), m + 1))
  BY PushIs
<1>2. Layout(Pushed(q, m, c + p), m + 1, c + p) BY <1>1, LayoutPushed
<1>3. Stacked(key, flags, c + p, StackOf(key, flags, Pushed(q, m, c + p), m + 1)) BY <1>2 DEF Stacked
<1> QED BY <1>1, <1>3

\* A subtree is pushed as its two halves.
HalvesPushed(self, key, flags, c, h) ==
    hasher_push_cv(hasher_push_cv(self, Node(key, flags, h, c), c),
                   Node(key, flags, h, c + h), c + h)

LEMMA PushPair ==
    ASSUME NEW key, NEW chunk, NEW flags, chunk.flags = flags, NEW c \in Nat, NEW stack,
           Stacked(key, flags, c, stack), NEW h \in Powers, Mult(2 * h, c)
    PROVE  \E next :
              /\ Twins(key, flags, c + 2 * h, next)
              /\ HalvesPushed(Hasher(key, chunk, stack), key, flags, c, h) = Hasher(key, chunk, next)
<1> DEFINE first == hasher_push_cv(Hasher(key, chunk, stack), Node(key, flags, h, c), c)
           d == c + h
           e == d + h
<1>1. h \in Nat \ {0} /\ 2 * h \in Nat \ {0} /\ d \in Nat /\ e = c + 2 * h BY PowerPositive
<1>2. Mult(h, c)
  <2>1. Mult(h, 2 * h) BY <1>1, MultSelf
  <2> QED BY <1>1, <2>1, MultOfMult
<1>3. PICK q, m : Strict(q, m, c)
                  /\ first = Hasher(key, chunk, StackOf(key, flags, Pushed(q, m, d), m + 1))
  BY <1>2, PushIs
<1> DEFINE x == Pushed(q, m, d)
           k == m + 1
           y == Pushed(x, k, e)
           next == StackOf(key, flags, y, k + 1)
<1>4. Strict(x, k, d) /\ Mult(h, d) BY <1>3, StrictPushed
<1>5. Size(x, k) = h BY <1>2, <1>3, LayoutPushed
<1>6. m \in Nat BY <1>3 DEF Strict, Layout
<1>7. k \in 1 .. k /\ (k + 1) - 1 = k /\ k + 1 >= 2 BY <1>6
<1> HIDE DEF first, d, x, k
<1>8. first = Hasher(key, chunk, StackOf(key, flags, x, k)) BY <1>3 DEF x, k
<1>9. hasher_merge_cv_stack(first, d) = Hasher(key, chunk, StackOf(key, flags, x, k))
  BY <1>4, <1>8, MergeNone
<1>10. hasher_push_cv(first, Node(key, flags, h, d), d)
         = Hasher(key, chunk, Append(StackOf(key, flags, x, k), Node(key, flags, h, d)))
  BY <1>9, PushOnMerged
<1>11. Append(StackOf(key, flags, x, k), Node(key, flags, h, d)) = next
  <2>1. h \in Nat BY <1>1
  <2>2. Strict(x, k, d) BY <1>4
  <2>3. Append(StackOf(key, flags, x, k), Node(key, flags, h, d))
          = StackOf(key, flags, Pushed(x, k, d + h), k + 1)
    BY <2>1, <2>2, StackPushed
  <2> QED BY <2>3
<1>12. /\ Layout(y, k + 1, e) /\ Size(y, k + 1) = h
       /\ \A i \in 1 .. k : Size(y, i) = Size(x, i)
  BY <1>4, LayoutPushed
<1>13. Size(y, (k + 1) - 1) = Size(y, k + 1)
  <2>1. Size(y, k) = Size(x, k) BY <1>7, <1>12
  <2> QED BY <1>5, <1>7, <1>12, <2>1
<1> HIDE DEF e, y
<1>14. Twins(key, flags, e, next) BY <1>7, <1>12, <1>13 DEF Twins
<1> HIDE DEF next
<1>15. hasher_push_cv(first, Node(key, flags, h, d), d) = Hasher(key, chunk, next) BY <1>10, <1>11
<1>16. HalvesPushed(Hasher(key, chunk, stack), key, flags, c, h) = Hasher(key, chunk, next)
  BY <1>15 DEF HalvesPushed, first, d
<1> QED BY <1>1, <1>14, <1>16

-----------------------------------------------------------------------------
(* How long a subtree may be.                                              *)

LEMMA PowerQuotient ==
    ASSUME NEW p \in Powers, NEW q \in Nat \ {0}, NEW k \in Nat, p = q * k
    PROVE  k \in Powers
<1>1. p \in Nat \ {0} /\ \A d \in Nat \ {0} : ~Mult(2 * d + 1, p)
  <2>1. p \in Nat \ {0} BY PowerPositive
  <2>2. IsPower(p) BY DEF Powers
  <2> QED BY <2>1, <2>2, PowerIs
<1>2. k > 0
  <2>1. k = 0 => q * k = 0 OBVIOUS
  <2> QED BY <1>1, <2>1
<1>3. ASSUME NEW d \in Nat \ {0}, Mult(2 * d + 1, k) PROVE FALSE
  <2> DEFINE m == 2 * d + 1
  <2>1. m \in Nat \ {0} OBVIOUS
  <2> HIDE DEF m
  <2>2. PICK j \in Nat : k = m * j
    <3>1. Mult(m, k) BY <1>3 DEF m
    <3> QED BY <2>1, <3>1, MultIs
  <2>3. p = m * (q * j) /\ q * j \in Nat
    <3>1. q * (m * j) = m * (q * j) /\ q * j \in Nat BY <2>1
    <3> QED BY <2>2, <3>1
  <2>4. Mult(m, p)
    <3> DEFINE x == q * j
    <3>1. p = m * x /\ x \in Nat BY <2>3
    <3> HIDE DEF x
    <3> QED BY <1>1, <2>1, <3>1, MultIs
  <2> QED BY <1>1, <2>4 DEF m
<1>4. IsPower(k) BY <1>2, <1>3, PowerIs
<1> QED BY <1>4 DEF Powers

\* A power of two of chunks that divides those before it.
LEMMA SubtreeLen ==
    ASSUME NEW c \in Nat, NEW l \in Nat, l > CHUNK_LEN
    PROVE  \E s \in Powers :
              /\ Shrunk(round_down_to_power_of_2(l), c * CHUNK_LEN) = Base(s)
              /\ Mult(s, c) /\ Base(s) <= l /\ Base(s) \in Nat \ {0}
<1> DEFINE top == round_down_to_power_of_2(l)
           a == c * CHUNK_LEN
           S == {p \in PowersTo(top) : Mult(p, a)}
           r == Largest(S)
<1>1. CHUNK_LEN \in Nat \ {0} /\ CHUNK_LEN \in Powers BY Lengths
<1>2. a \in Nat /\ a = CHUNK_LEN * c BY <1>1
<1> HIDE DEF a
<1>3. top \in Powers /\ top <= l /\ l < 2 * top
  <2>1. l \in Nat \ {0} BY <1>1
  <2> QED BY <2>1, RoundDown
<1>4. top \in Nat /\ CHUNK_LEN <= top
  <2>1. top \in Nat BY <1>3, PowerPositive
  <2>2. top < CHUNK_LEN => 2 * top <= CHUNK_LEN BY <1>1, <1>3, PowersApart
  <2> HIDE DEF top
  <2> QED BY <1>1, <1>3, <2>1, <2>2
<1> HIDE DEF top
<1>5. PowersTo(top) = {p \in Powers : p <= top} BY <1>4, PowersToIs
<1>6. S \in SUBSET Nat /\ (\A p \in S : p <= top) /\ CHUNK_LEN \in S
  <2>1. \A p \in S : p \in Powers /\ p <= top BY <1>5
  <2>2. \A p \in S : p \in Nat BY <2>1, PowerPositive
  <2>3. Mult(CHUNK_LEN, a) BY <1>1, <1>2, MultIs
  <2>4. CHUNK_LEN \in PowersTo(top) BY <1>1, <1>4, <1>5
  <2> QED BY <2>1, <2>2, <2>3, <2>4
<1>7. Shrunk(top, a) = r BY DEF Shrunk, Mult
<1> HIDE DEF S
<1>8. r \in S /\ \A q \in S : q <= r BY <1>4, <1>6, LargestExists
<1> HIDE DEF r
<1>9. r \in Powers /\ r <= top /\ Mult(r, a) BY <1>5, <1>8 DEF S
<1>10. r \in Nat \ {0} /\ CHUNK_LEN <= r BY <1>6, <1>8, <1>9, PowerPositive
<1>11. Mult(CHUNK_LEN, r)
  <2>1. CASE r = CHUNK_LEN BY <1>1, <2>1, MultSelf
  <2>2. CASE r # CHUNK_LEN
    <3>1. CHUNK_LEN < r BY <1>1, <1>10, <2>2
    <3> QED BY <1>1, <1>9, <3>1, PowersApart
  <2> QED BY <2>1, <2>2
<1>12. PICK s \in Nat : r = CHUNK_LEN * s BY <1>1, <1>10, <1>11, MultIs
<1>13. s \in Powers BY <1>1, <1>9, <1>12, PowerQuotient
<1>14. s \in Nat \ {0} BY <1>13, PowerPositive
<1>15. r = Base(s) BY <1>1, <1>12 DEF Base
<1>16. Mult(s, c)
  <2>1. PICK j \in Nat : a = r * j BY <1>2, <1>9, <1>10, MultIs
  <2>2. (CHUNK_LEN * s) * j = CHUNK_LEN * (s * j) /\ s * j \in Nat BY <1>1
  <2>3. CHUNK_LEN * c = CHUNK_LEN * (s * j) BY <1>2, <1>12, <2>1, <2>2
  <2> DEFINE x == s * j
  <2>4. x \in Nat /\ CHUNK_LEN * c = CHUNK_LEN * x BY <2>2, <2>3
  <2>5. c = s * j
    <3> HIDE DEF x
    <3>1. c = x BY <1>1, <2>4
    <3> QED BY <3>1 DEF x
  <2> QED BY <1>14, <2>5, MultIs
<1>17. Base(s) <= l /\ Base(s) \in Nat \ {0} BY <1>3, <1>4, <1>9, <1>10, <1>15
<1>18. Shrunk(top, a) = Base(s) BY <1>7, <1>15
<1> QED BY <1>13, <1>16, <1>17, <1>18 DEF top, a

-----------------------------------------------------------------------------
(* The loop over subtrees.                                                 *)

CountOn(self, d) == [self EXCEPT !.chunk.chunk_counter = @ + d]

LEMMA CountOnIs ==
    ASSUME NEW key, NEW flags, NEW c, NEW stack, NEW d
    PROVE  CountOn(Hasher(key, Canon(key, flags, c, 0), stack), d)
             = Hasher(key, Canon(key, flags, c + d, 0), stack)
<1> DEFINE zeros == Zeros(BLOCK_LEN)
<1>1. Canon(key, flags, c, 0) = ChunkState(key, c, zeros, 0, 0, flags) BY CanonStart
<1>2. Canon(key, flags, c + d, 0) = ChunkState(key, c + d, zeros, 0, 0, flags) BY CanonStart
<1> HIDE DEF zeros
<1>3. CountOn(Hasher(key, ChunkState(key, c, zeros, 0, 0, flags), stack), d)
        = Hasher(key, ChunkState(key, c + d, zeros, 0, 0, flags), stack)
  BY DEF CountOn, Hasher, ChunkState
<1> QED BY <1>1, <1>2, <1>3

Pushes(self, cpu, input) ==
    LET counter == self.chunk.chunk_counter
        chunks == Len(input) \div CHUNK_LEN
        pair == compress_subtree_to_parent_node(cpu, input, self.key, counter, self.chunk.flags)
    IN  IF Len(input) <= CHUNK_LEN
        THEN hasher_push_cv(self, output_chaining_value(chunk_state_output(
                 ChunkOf(input, self.key, counter, self.chunk.flags))), counter)
        ELSE hasher_push_cv(hasher_push_cv(self, pair[1], counter),
                            pair[2], counter + chunks \div 2)

LEMMA AddSubtreeIs ==
    ASSUME NEW cpu, NEW key, NEW flags, NEW c \in Nat, NEW stack, Stacked(key, flags, c, stack),
           NEW s \in Powers, Mult(s, c)
    PROVE  \E next :
              /\ AddSubtree(Hasher(key, Canon(key, flags, c, 0), stack), cpu,
                            Input(Base(c) + 1, Base(c) + Base(s)))
                   = Hasher(key, Canon(key, flags, c + s, 0), next)
              /\ Stacked(key, flags, c + s, next)
              /\ s # 1 => Twins(key, flags, c + s, next)
<1> DEFINE chunk == Canon(key, flags, c, 0)
           self == Hasher(key, chunk, stack)
           input == Input(Base(c) + 1, Base(c) + Base(s))
           chunks == Len(input) \div CHUNK_LEN
<1>1. CHUNK_LEN \in Nat \ {0} /\ Base(c) \in Nat /\ Base(s) \in Nat /\ s \in Nat \ {0}
      /\ Base(1) = CHUNK_LEN
  <2>1. CHUNK_LEN \in Nat \ {0} BY Lengths
  <2>2. s \in Nat \ {0} BY PowerPositive
  <2>3. Base(c) \in Nat BY BaseIs
  <2>4. Base(s) \in Nat BY <2>2, BaseIs
  <2>5. Base(1) = CHUNK_LEN BY <2>1 DEF Base
  <2> QED BY <2>1, <2>2, <2>3, <2>4, <2>5
<1>2. Len(input) = Base(s) BY <1>1, InputIs
<1>3. chunks = s
  <2>1. (s * CHUNK_LEN + 0) \div CHUNK_LEN = s
    <3>1. 0 \in 0 .. (CHUNK_LEN - 1) /\ s \in Nat BY <1>1
    <3> QED BY <1>1, <3>1, DivisionBy
  <2>2. s * CHUNK_LEN + 0 = Base(s) BY <1>1 DEF Base
  <2> HIDE DEF input
  <2> QED BY <1>2, <2>1, <2>2
<1>4. Len(input) <= CHUNK_LEN <=> s = 1
  <2>1. s <= 1 <=> Base(s) <= Base(1) BY <1>1, BaseSum
  <2> HIDE DEF input
  <2> QED BY <1>1, <1>2, <2>1
<1>5. chunk.flags = flags /\ chunk.chunk_counter = c BY CanonFields
<1> HIDE DEF chunk
<1>6. self.key = key /\ self.chunk = chunk BY HasherFields
<1> HIDE DEF self, input, chunks
<1>7. AddSubtree(self, cpu, input) = CountOn(Pushes(self, cpu, input), s)
  <2>1. AddSubtree(self, cpu, input) = CountOn(Pushes(self, cpu, input), chunks)
    BY Zenon DEF AddSubtree, CountOn, Pushes, PushBoth, chunks
  <2> QED BY <1>3, <2>1
<1>8. \E next :
         /\ Pushes(self, cpu, input) = Hasher(key, chunk, next)
         /\ Stacked(key, flags, c + s, next)
         /\ s # 1 => Twins(key, flags, c + s, next)
  <2>1. CASE s = 1
    <3> DEFINE e == output_chaining_value(chunk_state_output(ChunkOf(input, key, c, flags)))
    <3>1. e = Node(key, flags, s, c)
      <4>1. chunk_state_output(ChunkOf(input, key, c, flags)) = Out(key, flags, c, CHUNK_LEN)
        <5>1. input = Input(Base(c) + 1, Base(c) + CHUNK_LEN) BY <1>1, <2>1 DEF input
        <5> QED BY <5>1, ChunkOfIs
      <4>2. Node(key, flags, 1, c) = output_chaining_value(Out(key, flags, c, CHUNK_LEN)) BY NodeOne
      <4> QED BY <2>1, <4>1, <4>2
    <3> HIDE DEF e
    <3>2. Pushes(self, cpu, input) = hasher_push_cv(self, e, c)
      BY <1>4, <1>5, <1>6, <2>1, Zenon DEF Pushes, e
    <3>3. PICK next : /\ Stacked(key, flags, c + s, next)
                      /\ hasher_push_cv(Hasher(key, chunk, stack), Node(key, flags, s, c), c)
                           = Hasher(key, chunk, next)
      BY <1>5, PushChunk
    <3>4. Pushes(self, cpu, input) = Hasher(key, chunk, next) BY <3>1, <3>2, <3>3 DEF self
    <3> QED BY <2>1, <3>3, <3>4
  <2>2. CASE s # 1
    <3>1. PICK h \in Powers : s = 2 * h BY <2>2, PowerHalf
    <3> DEFINE pair == compress_subtree_to_parent_node(cpu, input, key, c, flags)
               left == Node(key, flags, h, c)
               right == Node(key, flags, h, c + h)
    <3>2. h \in Nat \ {0} /\ chunks \div 2 = h
      <4>1. h \in Nat \ {0} BY PowerPositive
      <4> QED BY <1>3, <3>1, <4>1
    <3>3. pair = Layer(key, flags, c, h, 2) BY <3>1, ParentNodeIs DEF input
    <3>4. pair[1] = left /\ pair[2] = right
      <4> DEFINE layer == Layer(key, flags, c, h, 2)
      <4>1. \A i \in 1 .. 2 : layer[i] = Node(key, flags, h, c + (i - 1) * h)
        <5>1. 2 \in Nat OBVIOUS
        <5> QED BY <5>1, LayerIs
      <4>2. 1 \in 1 .. 2 /\ 2 \in 1 .. 2 /\ c + (1 - 1) * h = c /\ c + (2 - 1) * h = c + h BY <3>2
      <4> HIDE DEF layer
      <4>3. layer[1] = left /\ layer[2] = right
        <5>1. layer[1] = Node(key, flags, h, c + (1 - 1) * h) BY <4>1, <4>2
        <5>2. layer[2] = Node(key, flags, h, c + (2 - 1) * h) BY <4>1, <4>2
        <5> QED BY <4>2, <5>1, <5>2
      <4> HIDE DEF pair, left, right
      <4> QED BY <3>3, <4>3 DEF layer
    <3> HIDE DEF pair, left, right
    <3>5. Pushes(self, cpu, input) = hasher_push_cv(hasher_push_cv(self, left, c), right, c + h)
      <4>1. ~(Len(input) <= CHUNK_LEN) BY <1>4, <2>2
      <4>2. Pushes(self, cpu, input)
              = hasher_push_cv(hasher_push_cv(self, pair[1], c), pair[2], c + chunks \div 2)
        BY <1>5, <1>6, <4>1, Zenon DEF Pushes, pair, chunks
      <4> QED BY <3>2, <3>4, <4>2
    <3>6. PICK next :
              /\ Twins(key, flags, c + 2 * h, next)
              /\ HalvesPushed(Hasher(key, chunk, stack), key, flags, c, h) = Hasher(key, chunk, next)
      <4>1. Mult(2 * h, c) BY <3>1
      <4>2. chunk.flags = flags BY <1>5
      <4> QED BY <4>1, <4>2, PushPair
    <3>7. Twins(key, flags, c + s, next) BY <3>1, <3>6
    <3>8. Stacked(key, flags, c + s, next) BY <3>7 DEF Twins, Stacked
    <3>9. Pushes(self, cpu, input) = Hasher(key, chunk, next) BY <3>5, <3>6 DEF HalvesPushed, self, left, right
    <3> QED BY <3>7, <3>8, <3>9
  <2> QED BY <2>1, <2>2
<1>9. PICK next :
         /\ Pushes(self, cpu, input) = Hasher(key, chunk, next)
         /\ Stacked(key, flags, c + s, next)
         /\ s # 1 => Twins(key, flags, c + s, next)
  BY <1>8
<1>10. CountOn(Hasher(key, chunk, next), s) = Hasher(key, Canon(key, flags, c + s, 0), next)
  BY CountOnIs DEF chunk
<1>11. AddSubtree(self, cpu, input) = Hasher(key, Canon(key, flags, c + s, 0), next)
  BY <1>7, <1>9, <1>10
<1> QED BY <1>9, <1>11 DEF self, chunk, input

-----------------------------------------------------------------------------
(* All of the loop.                                                        *)

Left(self, input) == [self |-> self, input |-> input]

LEMMA LeftFields ==
    ASSUME NEW self, NEW input
    PROVE  Left(self, input).self = self /\ Left(self, input).input = input
BY DEF Left

NextLen(done) ==
    Shrunk(round_down_to_power_of_2(Len(done.input)), done.self.chunk.chunk_counter * CHUNK_LEN)

AddStep(cpu, done) ==
    IF Len(done.input) > CHUNK_LEN
    THEN Left(AddSubtree(done.self, cpu, SubSeq(done.input, 1, NextLen(done))),
              Rest(done.input, NextLen(done)))
    ELSE done

AddLast(last) ==
    IF last.input # <<>>
    THEN hasher_merge_cv_stack(WithChunk(last.self, chunk_state_update(last.self.chunk, last.input)),
                               last.self.chunk.chunk_counter)
    ELSE last.self

AddTo(cpu, start, t, n) == t[0] = start /\ \A i \in 1 .. n : t[i] = AddStep(cpu, t[i - 1])

LEMMA AddsAre ==
    ASSUME NEW self, NEW cpu, NEW input, NEW n \in Nat, n = Len(input) \div CHUNK_LEN
    PROVE  \E t : AddTo(cpu, Left(self, input), t, n) /\ AddSubtrees(self, cpu, input) = AddLast(t[n])
<1> DEFINE start == Left(self, input)
           step(b) == AddStep(cpu, b)
           to(t, k) == AddTo(cpu, start, t, k)
           T == {k \in Nat : \E t : to(t, k)}
           H(t) == t = [i \in 0 .. n |-> IF i = 0 THEN start ELSE step(t[i - 1])]
<1>0. \A t, k : to(t, k) <=> t[0] = start /\ \A i \in 1 .. k : t[i] = step(t[i - 1]) BY DEF AddTo
<1>1. AddSubtrees(self, cpu, input) = AddLast((CHOOSE t : H(t))[n])
  <2> DEFINE k == Len(input) \div CHUNK_LEN
             one(done) == IF Len(done.input) > CHUNK_LEN
                          THEN [self |-> AddSubtree(done.self, cpu, SubSeq(done.input, 1, NextLen(done))),
                                input |-> Rest(done.input, NextLen(done))]
                          ELSE done
             J(t) == t = [i \in 0 .. k |-> IF i = 0 THEN [self |-> self, input |-> input] ELSE one(t[i - 1])]
             last == (CHOOSE t : J(t))[k]
  <2>1. AddSubtrees(self, cpu, input) = AddLast(last)
    BY Zenon DEF AddSubtrees, AddNext, AddRest, AddLast, WithChunk, NextLen
  <2>2. \A done : one(done) = step(done) BY DEF AddStep, Left
  <2>3. [self |-> self, input |-> input] = start BY DEF Left
  <2> HIDE DEF one, start, step
  <2>4. \A t : J(t) <=> H(t) BY <2>2, <2>3
  <2>5. (CHOOSE t : J(t)) = (CHOOSE t : H(t))
    <3> HIDE DEF J, H
    <3> QED BY <2>4
  <2>6. last = (CHOOSE t : H(t))[n]
    <3> HIDE DEF J, H
    <3> QED BY <2>5
  <2> HIDE DEF last
  <2> QED BY <2>1, <2>6
<1> HIDE DEF step, to, start
<1>4. 0 \in T
  <2> DEFINE t == [i \in 0 .. 0 |-> start]
  <2>1. t[0] = start OBVIOUS
  <2> HIDE DEF t
  <2>2. to(t, 0) BY <1>0, <2>1
  <2> QED BY <2>2
<1>5. ASSUME NEW k \in 1 .. n, k - 1 \in T PROVE k \in T
  <2>1. PICK t : to(t, k - 1) BY <1>5
  <2> DEFINE h == [i \in 0 .. k |-> IF i = k THEN step(t[k - 1]) ELSE t[i]]
  <2>2. \A i \in 0 .. k : h[i] = IF i = k THEN step(t[k - 1]) ELSE t[i] OBVIOUS
  <2> HIDE DEF h
  <2>3. h[0] = start BY <1>0, <2>1, <2>2
  <2>4. ASSUME NEW i \in 1 .. k PROVE h[i] = step(h[i - 1])
    <3>1. i \in 0 .. k /\ i - 1 \in 0 .. k /\ i - 1 # k OBVIOUS
    <3>2. h[i - 1] = t[i - 1] BY <2>2, <3>1
    <3>3. i # k => i \in 1 .. (k - 1) OBVIOUS
    <3> QED BY <1>0, <2>1, <2>2, <3>1, <3>2, <3>3
  <2>5. to(h, k) BY <1>0, <2>3, <2>4
  <2> QED BY <2>5
<1>7. PICK t : to(t, n)
  <2>1. n \in 0 .. n OBVIOUS
  <2> HIDE DEF T
  <2>2. n \in T BY <1>4, <1>5, <2>1, ByStep
  <2> QED BY <2>2 DEF T
<1> DEFINE h == [i \in 0 .. n |-> t[i]]
           chain == CHOOSE o : H(o)
<1>8. H(h)
  <2>1. \A i \in 0 .. n : h[i] = t[i] OBVIOUS
  <2>2. \A i \in 0 .. n : h[i] = IF i = 0 THEN start ELSE step(h[i - 1])
    <3> HIDE DEF h
    <3>1. \A i \in 0 .. n : i # 0 => i \in 1 .. n /\ i - 1 \in 0 .. n OBVIOUS
    <3> QED BY <1>0, <1>7, <2>1, <3>1
  <2>3. h = [i \in 0 .. n |-> h[i]] OBVIOUS
  <2> HIDE DEF h
  <2> QED BY <2>2, <2>3
<1>9. H(chain)
  <2> HIDE DEF H, h
  <2> QED BY <1>8
<1> HIDE DEF chain
<1>10. \A i \in 0 .. n : chain[i] = IF i = 0 THEN start ELSE step(chain[i - 1]) BY <1>9
<1>11. to(chain, n)
  <2>1. 0 \in 0 .. n /\ \A i \in 1 .. n : i \in 0 .. n /\ i # 0 OBVIOUS
  <2> HIDE DEF H
  <2> QED BY <1>0, <1>10, <2>1
<1>12. AddSubtrees(self, cpu, input) = AddLast(chain[n])
  <2> HIDE DEF H
  <2> QED BY <1>1 DEF chain
<1> QED BY <1>11, <1>12 DEF to, start

\* Subtrees up to chunk number d of the bytes up to e are on the stack.
Adding(key, flags, c, e, d, state) ==
    \E stack : /\ d \in Nat /\ c <= d /\ Base(d) <= e
               /\ Stacked(key, flags, d, stack)
               /\ d > c /\ Base(d) = e => Twins(key, flags, d, stack)
               /\ state = Left(Hasher(key, Canon(key, flags, d, 0), stack), Input(Base(d) + 1, e))

\* Each step adds a chunk at least.
LEMMA AddOne ==
    ASSUME NEW cpu, NEW key, NEW flags, NEW c \in Nat, NEW e \in Nat, NEW d, NEW state,
           Adding(key, flags, c, e, d, state)
    PROVE  \E k : /\ Adding(key, flags, c, e, k, AddStep(cpu, state))
                  /\ d <= k /\ (e - Base(d) > CHUNK_LEN => d + 1 <= k)
<1>1. PICK stack : /\ d \in Nat /\ c <= d /\ Base(d) <= e
                   /\ Stacked(key, flags, d, stack)
                   /\ d > c /\ Base(d) = e => Twins(key, flags, d, stack)
                   /\ state = Left(Hasher(key, Canon(key, flags, d, 0), stack), Input(Base(d) + 1, e))
  BY DEF Adding
<1> DEFINE l == e - Base(d)
           chunk == Canon(key, flags, d, 0)
           self == Hasher(key, chunk, stack)
           input == Input(Base(d) + 1, e)
<1>2. Base(d) \in Nat /\ l \in Nat /\ e = Base(d) + l /\ CHUNK_LEN \in Nat \ {0}
  <2>1. Base(d) \in Nat BY <1>1, BaseIs
  <2>2. CHUNK_LEN \in Nat \ {0} BY Lengths
  <2>3. Base(d) <= e BY <1>1
  <2> QED BY <2>1, <2>2, <2>3
<1> HIDE DEF l
<1>3. Len(input) = l BY <1>2, InputIs
<1>4. chunk.chunk_counter = d BY CanonFields
<1> HIDE DEF chunk
<1>5. self.chunk = chunk BY HasherFields
<1> HIDE DEF self, input
<1>6. state = Left(self, input) BY <1>1 DEF self, chunk, input
<1>7. state.self = self /\ state.input = input BY <1>6, LeftFields
<1>8. CASE ~(l > CHUNK_LEN)
  <2>1. AddStep(cpu, state) = state BY <1>3, <1>7, <1>8 DEF AddStep
  <2>2. Adding(key, flags, c, e, d, AddStep(cpu, state)) BY <2>1
  <2> QED BY <1>1, <1>8, <2>2 DEF l
<1>9. CASE l > CHUNK_LEN
  <2>1. PICK s \in Powers :
              /\ Shrunk(round_down_to_power_of_2(l), d * CHUNK_LEN) = Base(s)
              /\ Mult(s, d) /\ Base(s) <= l /\ Base(s) \in Nat \ {0}
    BY <1>1, <1>2, <1>9, SubtreeLen
  <2> DEFINE b == Base(s)
             k == d + s
             piece == SubSeq(input, 1, b)
             rest == Rest(input, b)
  <2>2. s \in Nat \ {0} /\ k \in Nat /\ d + 1 <= k /\ Base(k) = Base(d) + b
    <3>1. s \in Nat \ {0} BY PowerPositive
    <3> QED BY <1>1, <3>1, BaseSum
  <2>3. NextLen(state) = b
    <3>1. NextLen(state) = Shrunk(round_down_to_power_of_2(Len(state.input)),
                                  state.self.chunk.chunk_counter * CHUNK_LEN)
      BY DEF NextLen
    <3> QED BY <1>3, <1>4, <1>5, <1>7, <2>1, <3>1
  <2>4. AddStep(cpu, state) = Left(AddSubtree(self, cpu, piece), rest)
    <3> HIDE DEF b
    <3> QED BY <1>3, <1>7, <1>9, <2>3 DEF AddStep
  <2>5. piece = Input(Base(d) + 1, Base(d) + b) /\ rest = Input(Base(k) + 1, e)
    <3> DEFINE a == Base(d)
    <3>1. a \in Nat /\ l \in Nat /\ b \in 0 .. l /\ 0 \in 0 .. l /\ b \in 0 .. b /\ a + 0 = a /\ 0 + 1 = 1
          /\ e = a + l /\ Base(k) = a + b
      BY <1>2, <2>1, <2>2
    <3> HIDE DEF a, b, k
    <3>2. SubSeq(Input(a + 1, a + l), 0 + 1, b) = Input((a + 0) + 1, a + b) BY <3>1, InputPart
    <3>3. Rest(Input(a + 1, a + l), b) = Input((a + b) + 1, a + l)
      <4>1. l \in l .. l /\ l \in b .. l BY <3>1
      <4> QED BY <3>1, <4>1, InputPart
    <3>4. input = Input(a + 1, a + l) BY <3>1 DEF input, a
    <3> QED BY <3>1, <3>2, <3>3, <3>4 DEF a
  <2>6. PICK next :
              /\ AddSubtree(Hasher(key, Canon(key, flags, d, 0), stack), cpu,
                            Input(Base(d) + 1, Base(d) + Base(s)))
                   = Hasher(key, Canon(key, flags, d + s, 0), next)
              /\ Stacked(key, flags, d + s, next)
              /\ s # 1 => Twins(key, flags, d + s, next)
    BY <1>1, <2>1, AddSubtreeIs, ZenonT(60)
  <2>7. AddSubtree(self, cpu, piece) = Hasher(key, Canon(key, flags, k, 0), next)
    <3> HIDE DEF piece
    <3> QED BY <2>5, <2>6 DEF self, chunk
  <2>8. Base(k) <= e /\ c <= k BY <1>1, <1>2, <2>1, <2>2
  <2>9. Base(k) = e => Twins(key, flags, k, next)
    <3>1. Base(k) = e => Base(s) = l BY <1>2, <2>1, <2>2
    <3>2. Base(1) = CHUNK_LEN BY <1>2 DEF Base
    <3>3. Base(s) = l => s # 1 BY <1>2, <1>9, <3>2
    <3> QED BY <2>6, <3>1, <3>3
  <2> HIDE DEF piece, rest
  <2>10. AddStep(cpu, state) = Left(Hasher(key, Canon(key, flags, k, 0), next), Input(Base(k) + 1, e))
    BY <2>4, <2>5, <2>7
  <2>11. Stacked(key, flags, k, next) BY <2>6
  <2> HIDE DEF k
  <2>12. Adding(key, flags, c, e, k, AddStep(cpu, state))
    BY <2>2, <2>8, <2>9, <2>10, <2>11 DEF Adding
  <2>13. d <= k BY <1>1, <2>2
  <2> QED BY <2>2, <2>12, <2>13
<1> QED BY <1>2, <1>8, <1>9

-----------------------------------------------------------------------------
(* The state of a hasher that was given n bytes.                           *)

Hashed(key, flags, n, c, r, stack) ==
    /\ c \in Nat /\ r \in 0 .. CHUNK_LEN /\ n = Base(c) + r
    /\ r > 0 => Tidy(key, flags, c, stack)
    /\ r = 0 /\ c > 0 => Twins(key, flags, c, stack)
    /\ c = 0 => stack = <<>>

Given(key, flags, n, self) ==
    \E c, r, stack : Hashed(key, flags, n, c, r, stack)
                     /\ self = Hasher(key, Canon(key, flags, c, r), stack)

LEMMA LayoutZero ==
    ASSUME NEW pos, NEW n, Layout(pos, n, 0)
    PROVE  n = 0
<1> SUFFICES ASSUME n # 0 PROVE FALSE OBVIOUS
<1>1. n \in Nat BY DEF Layout
<1>2. n \in 1 .. n BY <1>1
<1>3. pos[n] = pos[n - 1] + Size(pos, n) /\ pos[n - 1] \in Nat /\ Size(pos, n) \in Nat \ {0}
  BY <1>2, LayoutFacts
<1>4. pos[n] = 0 BY DEF Layout
<1> QED BY <1>3, <1>4

LEMMA StackZero ==
    ASSUME NEW key, NEW flags, NEW stack, Stacked(key, flags, 0, stack)
    PROVE  stack = <<>>
<1>1. PICK pos, n : Layout(pos, n, 0) /\ stack = StackOf(key, flags, pos, n) BY DEF Stacked
<1>2. n = 0 BY <1>1, LayoutZero
<1>3. IsSeq(stack, 0)
  <2>1. 0 \in Nat OBVIOUS
  <2>2. IsSeq(StackOf(key, flags, pos, 0), 0) BY <2>1, StackIs
  <2> QED BY <1>1, <1>2, <2>2
<1>4. IsSeq(<<>>, 0) BY DEF IsSeq
<1>5. \A i \in 1 .. 0 : stack[i] = <<>>[i] OBVIOUS
<1> QED BY <1>3, <1>4, <1>5, SeqSame

LEMMA StackedZero ==
    ASSUME NEW key, NEW flags
    PROVE  Tidy(key, flags, 0, <<>>) /\ Stacked(key, flags, 0, <<>>)
<1> DEFINE pos == [i \in 0 .. 0 |-> 0]
<1>1. pos[0] = 0 /\ pos \in [0 .. 0 -> Nat] OBVIOUS
<1> HIDE DEF pos
<1>2. Layout(pos, 0, 0) BY <1>1 DEF Layout
<1>3. Strict(pos, 0, 0) BY <1>2 DEF Strict
<1>4. StackOf(key, flags, pos, 0) = <<>>
  <2>1. Stacked(key, flags, 0, StackOf(key, flags, pos, 0)) BY <1>2 DEF Stacked
  <2> QED BY <2>1, StackZero
<1> QED BY <1>2, <1>3, <1>4 DEF Tidy, Stacked

LEMMA TidyStacked ==
    ASSUME NEW key, NEW flags, NEW c, NEW stack
    PROVE  /\ Tidy(key, flags, c, stack) => Stacked(key, flags, c, stack)
           /\ Twins(key, flags, c, stack) => Stacked(key, flags, c, stack)
BY DEF Tidy, Twins, Stacked, Strict

LEMMA HashedStacked ==
    ASSUME NEW key, NEW flags, NEW n, NEW c, NEW r, NEW stack, Hashed(key, flags, n, c, r, stack)
    PROVE  Stacked(key, flags, c, stack)
<1>1. CHUNK_LEN \in Nat BY Lengths
<1>2. r > 0 \/ r = 0 BY <1>1 DEF Hashed
<1>3. c > 0 \/ c = 0 BY DEF Hashed
<1>4. CASE r > 0 BY <1>4, TidyStacked DEF Hashed
<1>5. CASE r = 0 /\ c > 0 BY <1>5, TidyStacked DEF Hashed
<1>6. CASE r = 0 /\ c = 0
  <2>1. stack = <<>> /\ c = 0 BY <1>6 DEF Hashed
  <2> QED BY <2>1, StackedZero
<1> QED BY <1>2, <1>3, <1>4, <1>5, <1>6

LEMMA InputEmpty ==
    ASSUME NEW a \in Nat, NEW m \in Nat
    PROVE  Input(a + 1, a + m) = <<>> <=> m = 0
<1> DEFINE x == Input(a + 1, a + m)
<1>1. IsSeq(x, m) /\ Len(x) = m BY InputIs
<1> HIDE DEF x
<1>2. x = <<>> => m = 0
  <2>1. Len(<<>>) = 0 OBVIOUS
  <2> QED BY <1>1, <2>1
<1>3. m = 0 => x = <<>>
  <2>1. IsSeq(<<>>, 0) BY DEF IsSeq
  <2>2. \A i \in 1 .. 0 : x[i] = <<>>[i] OBVIOUS
  <2>3. m = 0 => IsSeq(x, 0) BY <1>1
  <2> QED BY <2>1, <2>2, <2>3, SeqSame
<1> QED BY <1>2, <1>3 DEF x

\* What is left after the loop is not more than a chunk.
LEMMA AddLoop ==
    ASSUME NEW cpu, NEW key, NEW flags, NEW c \in Nat, NEW l \in Nat, NEW n \in Nat,
           n = l \div CHUNK_LEN, NEW t, NEW start, AddTo(cpu, start, t, n),
           Adding(key, flags, c, Base(c) + l, c, start)
    PROVE  \E d : /\ Adding(key, flags, c, Base(c) + l, d, t[n])
                  /\ (Base(c) + l) - Base(d) \in 0 .. CHUNK_LEN
<1> DEFINE e == Base(c) + l
           Far(i, d) == e - Base(d) <= CHUNK_LEN \/ c + i <= d
           After(i) == \E d : Adding(key, flags, c, e, d, t[i]) /\ Far(i, d)
           T == {i \in Nat : After(i)}
<1>1. CHUNK_LEN \in Nat \ {0} /\ Base(c) \in Nat /\ e \in Nat
  <2>1. CHUNK_LEN \in Nat \ {0} BY Lengths
  <2>2. Base(c) \in Nat BY BaseIs
  <2> QED BY <2>1, <2>2
<1>2. 0 \in T
  <2>1. t[0] = start BY DEF AddTo
  <2>2. c + 0 <= c OBVIOUS
  <2>3. Adding(key, flags, c, e, c, t[0]) BY <2>1
  <2> QED BY <2>2, <2>3
<1> HIDE DEF e
<1>3. ASSUME NEW i \in 1 .. n, i - 1 \in T PROVE i \in T
  <2>1. i - 1 \in Nat /\ i \in Nat OBVIOUS
  <2>2. PICK d : Adding(key, flags, c, e, d, t[i - 1]) /\ Far(i - 1, d) BY <1>3
  <2>3. t[i] = AddStep(cpu, t[i - 1]) BY DEF AddTo
  <2>4. PICK k : /\ Adding(key, flags, c, e, k, AddStep(cpu, t[i - 1]))
                 /\ d <= k /\ (e - Base(d) > CHUNK_LEN => d + 1 <= k)
    BY <1>1, <2>2, AddOne
  <2>5. d \in Nat /\ k \in Nat BY <2>2, <2>4 DEF Adding
  <2>6. Base(d) \in Nat /\ Base(k) \in Nat
    <3>1. Base(d) \in Nat BY <2>5, BaseIs
    <3>2. Base(k) \in Nat BY <2>5, BaseIs
    <3> QED BY <3>1, <3>2
  <2>7. Base(d) <= Base(k) BY <2>4, <2>5, BaseSum
  <2>8. Far(i, k)
    <3>1. CASE e - Base(d) > CHUNK_LEN
      <4>1. c + (i - 1) <= d BY <1>1, <2>2, <2>6, <3>1
      <4> QED BY <2>1, <2>4, <2>5, <3>1, <4>1
    <3>2. CASE ~(e - Base(d) > CHUNK_LEN)
      <4>1. e - Base(k) <= CHUNK_LEN BY <1>1, <2>6, <2>7, <3>2
      <4> QED BY <4>1
    <3> QED BY <3>1, <3>2
  <2>9. After(i) BY <2>3, <2>4, <2>8
  <2> QED BY <2>1, <2>9
<1>4. n \in T
  <2>1. n \in 0 .. n OBVIOUS
  <2> HIDE DEF T
  <2> QED BY <1>2, <1>3, <2>1, ByStep
<1>5. PICK d : Adding(key, flags, c, e, d, t[n]) /\ Far(n, d) BY <1>4
<1>6. d \in Nat /\ Base(d) <= e BY <1>5 DEF Adding
<1>7. Base(d) \in Nat BY <1>6, BaseIs
<1>8. e - Base(d) <= CHUNK_LEN
  <2>1. CASE c + n <= d
    <3>1. Base(c + n) <= Base(d) /\ Base(c + n) = Base(c) + Base(n)
      <4>1. c + n \in Nat OBVIOUS
      <4>2. Base(c + n) <= Base(d) BY <1>6, <2>1, <4>1, BaseSum
      <4>3. Base(c + n) = Base(c) + Base(n) BY BaseSum
      <4> QED BY <4>2, <4>3
    <3>2. l - Base(n) <= CHUNK_LEN /\ Base(n) \in Nat
      <4>1. l % CHUNK_LEN \in 0 .. (CHUNK_LEN - 1) /\ l = (l \div CHUNK_LEN) * CHUNK_LEN + (l % CHUNK_LEN)
        BY <1>1, PartsBy, Zenon
      <4> DEFINE s == l % CHUNK_LEN
      <4>2. l = Base(n) + s /\ s \in 0 .. (CHUNK_LEN - 1) BY <4>1 DEF Base
      <4> HIDE DEF s
      <4>3. Base(n) \in Nat BY BaseIs
      <4> QED BY <1>1, <4>2, <4>3
    <3> QED BY <1>1, <1>7, <3>1, <3>2 DEF e
  <2>2. CASE e - Base(d) <= CHUNK_LEN BY <2>2
  <2> QED BY <1>5, <2>1, <2>2
<1>9. e - Base(d) \in 0 .. CHUNK_LEN BY <1>1, <1>6, <1>7, <1>8
<1> QED BY <1>5, <1>9 DEF e

LEMMA MergedTidy ==
    ASSUME NEW key, NEW chunk, NEW flags, chunk.flags = flags, NEW c, NEW stack,
           Stacked(key, flags, c, stack)
    PROVE  \E next : /\ Tidy(key, flags, c, next)
                     /\ hasher_merge_cv_stack(Hasher(key, chunk, stack), c) = Hasher(key, chunk, next)
<1>1. PICK pos, n : Layout(pos, n, c) /\ stack = StackOf(key, flags, pos, n) BY DEF Stacked
<1>2. PICK q, m : /\ Strict(q, m, c)
                  /\ hasher_merge_cv_stack(Hasher(key, chunk, StackOf(key, chunk.flags, pos, n)), c)
                       = Hasher(key, chunk, StackOf(key, chunk.flags, q, m))
  BY <1>1, MergeIs
<1>3. Tidy(key, flags, c, StackOf(key, flags, q, m)) BY <1>2 DEF Tidy
<1> QED BY <1>1, <1>2, <1>3

\* A piece of input that starts with a chunk.
LEMMA AddSubtreesIs ==
    ASSUME NEW cpu, NEW key, NEW flags, NEW c \in Nat, NEW stack, Stacked(key, flags, c, stack),
           NEW l \in Nat \ {0}
    PROVE  Given(key, flags, Base(c) + l,
                 AddSubtrees(Hasher(key, Canon(key, flags, c, 0), stack), cpu,
                             Input(Base(c) + 1, Base(c) + l)))
<1> DEFINE e == Base(c) + l
           input == Input(Base(c) + 1, e)
           self == Hasher(key, Canon(key, flags, c, 0), stack)
           n == l \div CHUNK_LEN
           out == AddSubtrees(self, cpu, input)
<1>1. CHUNK_LEN \in Nat \ {0} /\ Base(c) \in Nat /\ l \in Nat
  <2>1. CHUNK_LEN \in Nat \ {0} BY Lengths
  <2>2. Base(c) \in Nat BY BaseIs
  <2> QED BY <2>1, <2>2
<1>2. Len(input) = l BY <1>1, InputIs
<1>3. n \in Nat BY <1>1, PartsBy, Zenon
<1>4. Adding(key, flags, c, e, c, Left(self, input))
  <2>1. Base(c) <= e BY <1>1
  <2> QED BY <2>1 DEF Adding
<1> HIDE DEF self
<1>5. PICK t : AddTo(cpu, Left(self, input), t, n) /\ out = AddLast(t[n])
  <2>1. n = Len(input) \div CHUNK_LEN BY <1>2
  <2> HIDE DEF input, n
  <2> QED BY <1>3, <2>1, AddsAre
<1>6. PICK d : /\ Adding(key, flags, c, e, d, t[n])
               /\ e - Base(d) \in 0 .. CHUNK_LEN
  <2> DEFINE start == Left(self, input)
  <2> HIDE DEF start
  <2>1. AddTo(cpu, start, t, n) /\ Adding(key, flags, c, e, c, start) BY <1>4, <1>5 DEF start
  <2> QED BY <1>1, <1>3, <2>1, AddLoop
<1> HIDE DEF e, n, out, input
<1>7. PICK top : /\ d \in Nat /\ c <= d /\ Base(d) <= e
                 /\ Stacked(key, flags, d, top)
                 /\ d > c /\ Base(d) = e => Twins(key, flags, d, top)
                 /\ t[n] = Left(Hasher(key, Canon(key, flags, d, 0), top), Input(Base(d) + 1, e))
  BY <1>6 DEF Adding
<1> DEFINE m == e - Base(d)
           chunk == Canon(key, flags, d, 0)
           h == Hasher(key, chunk, top)
           i == Input(Base(d) + 1, e)
           last == t[n]
<1>8. Base(d) \in Nat /\ m \in 0 .. CHUNK_LEN /\ e = Base(d) + m /\ m \in Nat /\ e \in Nat
  <2>1. Base(d) \in Nat BY <1>7, BaseIs
  <2>2. e \in Nat BY <1>1 DEF e
  <2> QED BY <1>1, <1>6, <2>1, <2>2
<1>9. chunk.chunk_counter = d BY CanonFields
<1>10. h.chunk = chunk
  <2> HIDE DEF chunk
  <2> QED BY HasherFields
<1> HIDE DEF m
<1>11. i = <<>> <=> m = 0 BY <1>8, InputEmpty
<1> HIDE DEF h, chunk, i
<1>12. last = Left(h, i) BY <1>7 DEF h, chunk, i
<1>13. last.self = h /\ last.input = i BY <1>12, LeftFields
<1> HIDE DEF last
<1>14. CASE m = 0
  <2>1. out = h BY <1>5, <1>11, <1>13, <1>14 DEF AddLast, last
  <2>2. d > c
    <3>1. d # c BY <1>1, <1>8, <1>14 DEF e
    <3> QED BY <1>7, <3>1
  <2>3. Twins(key, flags, d, top) BY <1>7, <1>8, <1>14, <2>2
  <2>4. Hashed(key, flags, e, d, 0, top)
    <3>1. d # 0 /\ 0 \in 0 .. CHUNK_LEN /\ e = Base(d) + 0 BY <1>1, <1>7, <1>8, <1>14, <2>2
    <3> QED BY <1>7, <2>3, <3>1 DEF Hashed
  <2>5. Given(key, flags, e, out) BY <2>1, <2>4 DEF Given, h, chunk
  <2> QED BY <2>5 DEF out, self, input, e
<1>15. CASE m # 0
  <2> DEFINE full == Canon(key, flags, d, m)
  <2>1. chunk_state_update(chunk, i) = full
    <3> DEFINE p == Base(d) + 0
    <3>1. 0 \in Nat /\ 0 + m <= CHUNK_LEN /\ 0 + m = m /\ p = Base(d) BY <1>1, <1>8
    <3>2. chunk_state_update(Canon(key, flags, d, 0), Input(p + 1, p + m)) = Canon(key, flags, d, 0 + m)
      BY <1>7, <1>8, <3>1, UpdateIs
    <3> HIDE DEF p
    <3> QED BY <1>8, <3>1, <3>2 DEF chunk, i
  <2>2. full.flags = flags BY <1>8, CanonFields
  <2> HIDE DEF full
  <2>3. WithChunk(h, full) = Hasher(key, full, top) BY ChunkSet DEF h
  <2>4. out = hasher_merge_cv_stack(Hasher(key, full, top), d)
    <3>1. AddLast(last) = hasher_merge_cv_stack(WithChunk(last.self, chunk_state_update(last.self.chunk, last.input)),
                                                last.self.chunk.chunk_counter)
      BY <1>11, <1>13, <1>15 DEF AddLast
    <3> QED BY <1>5, <1>9, <1>10, <1>13, <2>1, <2>3, <3>1 DEF last
  <2>5. PICK next : /\ Tidy(key, flags, d, next)
                    /\ hasher_merge_cv_stack(Hasher(key, full, top), d) = Hasher(key, full, next)
    BY <1>7, <2>2, MergedTidy
  <2>6. d = 0 => next = <<>>
    <3>1. Stacked(key, flags, d, next) BY <2>5, TidyStacked
    <3> QED BY <3>1, StackZero
  <2>7. Hashed(key, flags, e, d, m, next) BY <1>7, <1>8, <1>15, <2>5, <2>6 DEF Hashed
  <2>8. out = Hasher(key, Canon(key, flags, d, m), next) BY <2>4, <2>5 DEF full
  <2>9. Given(key, flags, e, out) BY <2>7, <2>8 DEF Given
  <2> QED BY <2>9 DEF out, self, input, e
<1> QED BY <1>14, <1>15

-----------------------------------------------------------------------------
(* A piece of input.                                                       *)

\* The pieces that a piece is cut into where a chunk ends.
LEMMA Cut ==
    ASSUME NEW a \in Nat, NEW n \in Nat, NEW m \in 0 .. n
    PROVE  /\ SubSeq(Input(a + 1, a + n), 1, m) = Input(a + 1, a + m)
           /\ Rest(Input(a + 1, a + n), m) = Input((a + m) + 1, (a + m) + (n - m))
<1>1. 0 \in 0 .. n /\ m \in 0 .. m /\ n \in m .. n /\ a + 0 = a /\ 0 + 1 = 1
      /\ (a + m) + (n - m) = a + n
  OBVIOUS
<1>2. SubSeq(Input(a + 1, a + n), 0 + 1, m) = Input((a + 0) + 1, a + m) BY <1>1, InputPart
<1>3. Rest(Input(a + 1, a + n), m) = Input((a + m) + 1, a + n) BY <1>1, InputPart
<1> QED BY <1>1, <1>2, <1>3

LEMMA FillIs ==
    ASSUME NEW key, NEW flags, NEW c \in Nat, NEW r \in Nat, NEW m \in Nat, r + m <= CHUNK_LEN,
           NEW had, had = Base(c) + r
    PROVE  chunk_state_update(Canon(key, flags, c, r), Input(had + 1, had + m)) = Canon(key, flags, c, r + m)
<1> DEFINE p == Base(c) + r
<1>1. chunk_state_update(Canon(key, flags, c, r), Input(p + 1, p + m)) = Canon(key, flags, c, r + m)
  BY UpdateIs
<1> QED BY <1>1

Filled(self, piece) == WithChunk(self, chunk_state_update(self.chunk, piece))

LEMMA UpdateCases ==
    ASSUME NEW self, NEW cpu, NEW input, input # <<>>, chunk_state_len(self.chunk) # 0
    PROVE  LET take == Least(CHUNK_LEN - chunk_state_len(self.chunk), Len(input))
               filled == Filled(self, SubSeq(input, 1, take))
               counter == self.chunk.chunk_counter
               pushed == hasher_push_cv(filled,
                             output_chaining_value(chunk_state_output(filled.chunk)), counter)
           IN  blake3_hasher_update_base(self, cpu, input)
                 = IF Len(input) > take
                   THEN AddSubtrees(WithChunk(pushed, chunk_state_reset(pushed.chunk, self.key, counter + 1)),
                                    cpu, Rest(input, take))
                   ELSE filled
BY Zenon DEF blake3_hasher_update_base, Filled, WithChunk

LEMMA UpdateBaseIs ==
    ASSUME NEW cpu, NEW key, NEW flags, NEW had \in Nat, NEW n \in Nat, NEW self,
           Given(key, flags, had, self)
    PROVE  Given(key, flags, had + n, blake3_hasher_update_base(self, cpu, Input(had + 1, had + n)))
<1> DEFINE input == Input(had + 1, had + n)
           out == blake3_hasher_update_base(self, cpu, input)
<1>1. PICK c, r, stack : Hashed(key, flags, had, c, r, stack)
                         /\ self = Hasher(key, Canon(key, flags, c, r), stack)
  BY DEF Given
<1> DEFINE chunk == Canon(key, flags, c, r)
<1>2. /\ c \in Nat /\ r \in Nat /\ r <= CHUNK_LEN /\ had = Base(c) + r
      /\ CHUNK_LEN \in Nat \ {0} /\ Base(c) \in Nat /\ Base(c + 1) = Base(c) + CHUNK_LEN
  <2>1. CHUNK_LEN \in Nat \ {0} BY Lengths
  <2>2. c \in Nat /\ r \in 0 .. CHUNK_LEN /\ had = Base(c) + r BY <1>1 DEF Hashed
  <2>3. Base(c) \in Nat /\ Base(c + 1) = Base(c) + CHUNK_LEN BY <2>2, BaseIs
  <2> QED BY <2>1, <2>2, <2>3
<1>3. Stacked(key, flags, c, stack) BY <1>1, HashedStacked
<1>4. /\ chunk_state_len(chunk) = r /\ chunk.flags = flags /\ chunk.chunk_counter = c
  BY <1>2, CanonFields
<1> HIDE DEF chunk
<1>5. self = Hasher(key, chunk, stack) BY <1>1 DEF chunk
<1>6. self.key = key /\ self.chunk = chunk /\ self.cv_stack = stack BY <1>5, HasherFields
<1>7. Len(input) = n BY <1>2, InputIs
<1>8. input = <<>> <=> n = 0 BY InputEmpty
<1> HIDE DEF input
<1>9. CASE n = 0
  <2>1. out = self BY <1>8, <1>9, Zenon DEF blake3_hasher_update_base
  <2>2. had + n = had BY <1>9
  <2> HIDE DEF out
  <2>3. Given(key, flags, had + n, out) BY <2>1, <2>2
  <2> QED BY <2>3 DEF out, input
<1>10. CASE n # 0 /\ r = 0
  <2>1. out = AddSubtrees(self, cpu, input)
    BY <1>4, <1>6, <1>8, <1>10, Zenon DEF blake3_hasher_update_base
  <2>2. had = Base(c) /\ n \in Nat \ {0} BY <1>2, <1>10
  <2>3. Given(key, flags, Base(c) + n,
              AddSubtrees(Hasher(key, Canon(key, flags, c, 0), stack), cpu,
                          Input(Base(c) + 1, Base(c) + n)))
    BY <1>2, <1>3, <2>2, AddSubtreesIs
  <2>4. self = Hasher(key, Canon(key, flags, c, 0), stack) BY <1>5, <1>10 DEF chunk
  <2> HIDE DEF out
  <2>5. Given(key, flags, had + n, out) BY <2>1, <2>2, <2>3, <2>4 DEF input
  <2> QED BY <2>5 DEF out, input
<1>11. CASE n # 0 /\ r # 0
  <2> DEFINE take == Least(CHUNK_LEN - chunk_state_len(self.chunk), Len(input))
             filled == Filled(self, SubSeq(input, 1, take))
             counter == self.chunk.chunk_counter
             pushed == hasher_push_cv(filled,
                           output_chaining_value(chunk_state_output(filled.chunk)), counter)
             rest == AddSubtrees(WithChunk(pushed, chunk_state_reset(pushed.chunk, self.key, counter + 1)),
                                 cpu, Rest(input, take))
             full == Canon(key, flags, c, r + take)
  <2>1. out = IF Len(input) > take THEN rest ELSE filled
    <3>1. input # <<>> /\ chunk_state_len(self.chunk) # 0 BY <1>4, <1>6, <1>8, <1>11
    <3> QED BY <3>1, UpdateCases, Zenon
  <2>2. take = Least(CHUNK_LEN - r, n) BY <1>4, <1>6, <1>7
  <2>3. take \in 0 .. n /\ take \in Nat /\ r + take <= CHUNK_LEN
        /\ (n > take => r + take = CHUNK_LEN) /\ r + take \in Nat
    BY <1>2, <2>2 DEF Least
  <2> HIDE DEF take
  <2>4. /\ SubSeq(input, 1, take) = Input(had + 1, had + take)
        /\ Rest(input, take) = Input((had + take) + 1, (had + take) + (n - take))
    BY <2>3, Cut DEF input
  <2>5. filled = Hasher(key, full, stack)
    <3>0. chunk_state_update(Canon(key, flags, c, r), Input(had + 1, had + take))
            = Canon(key, flags, c, r + take)
      BY <1>2, <2>3, FillIs
    <3>1. chunk_state_update(chunk, SubSeq(input, 1, take)) = full BY <2>4, <3>0 DEF chunk
    <3> HIDE DEF full
    <3>2. filled = WithChunk(Hasher(key, chunk, stack), full) BY <1>5, <1>6, <3>1 DEF Filled
    <3> QED BY <3>2, ChunkSet
  <2>6. full.flags = flags BY <2>3, CanonFields
  <2> HIDE DEF filled
  <2>7. CASE ~(n > take)
    <3>1. out = filled
      <4> HIDE DEF out, rest
      <4> QED BY <1>7, <2>1, <2>7
    <3>2. take = n BY <2>3, <2>7
    <3>3. Tidy(key, flags, c, stack) BY <1>1, <1>2, <1>11 DEF Hashed
    <3>4. c = 0 => stack = <<>> BY <1>1 DEF Hashed
    <3>5. r + n \in 0 .. CHUNK_LEN /\ had + n = Base(c) + (r + n) /\ r + n # 0 BY <1>2, <1>11, <2>3, <3>2
    <3>6. Hashed(key, flags, had + n, c, r + n, stack) BY <1>2, <3>3, <3>4, <3>5 DEF Hashed
    <3> HIDE DEF out
    <3>7. out = Hasher(key, Canon(key, flags, c, r + n), stack) BY <2>5, <3>1, <3>2 DEF full
    <3>8. Given(key, flags, had + n, out) BY <3>6, <3>7 DEF Given
    <3> QED BY <3>8 DEF out, input
  <2>8. CASE n > take
    <3> DEFINE e == output_chaining_value(chunk_state_output(filled.chunk))
               d == c + 1
               l == n - take
    <3>1. out = rest
      <4> HIDE DEF out, rest
      <4> QED BY <1>7, <2>1, <2>8
    <3>2. had + take = Base(d) /\ l \in Nat \ {0} /\ had + n = Base(d) + l /\ d \in Nat BY <1>2, <2>3, <2>8
    <3>3. full = Canon(key, flags, c, CHUNK_LEN) BY <2>3, <2>8
    <3>4. filled.chunk = full BY <2>5, HasherFields
    <3>5. e = Node(key, flags, 1, c)
      <4>1. Node(key, flags, 1, c) = output_chaining_value(Out(key, flags, c, CHUNK_LEN))
        BY <1>2, NodeOne
      <4> HIDE DEF full
      <4> QED BY <3>3, <3>4, <4>1 DEF Out
    <3> HIDE DEF full, e, d, l
    <3>6. PICK next : /\ Stacked(key, flags, c + 1, next)
                      /\ hasher_push_cv(Hasher(key, full, stack), Node(key, flags, 1, c), c)
                           = Hasher(key, full, next)
      <4>1. 1 \in Powers BY PowerOne
      <4>2. Mult(1, c) BY <1>2 DEF Mult
      <4> DEFINE p == 1
      <4> HIDE DEF p
      <4>3. p \in Powers /\ Mult(p, c) BY <4>1, <4>2 DEF p
      <4>4. \E next : /\ Stacked(key, flags, c + p, next)
                      /\ hasher_push_cv(Hasher(key, full, stack), Node(key, flags, p, c), c)
                           = Hasher(key, full, next)
        BY <1>3, <2>6, <4>3, PushChunk
      <4> QED BY <4>4 DEF p
    <3>7. pushed = Hasher(key, full, next)
      <4>1. counter = c BY <1>4, <1>6
      <4>2. pushed = hasher_push_cv(filled, e, counter) BY DEF e
      <4> HIDE DEF pushed, counter
      <4> QED BY <2>5, <3>5, <3>6, <4>1, <4>2
    <3>8. pushed.chunk = full
      <4> HIDE DEF pushed
      <4> QED BY <3>7, HasherFields
    <3>9. counter + 1 = d BY <1>4, <1>6 DEF d
    <3>10. chunk_state_reset(full, key, d) = Canon(key, flags, d, 0) BY <2>6, ResetIs
    <3>11. WithChunk(pushed, chunk_state_reset(pushed.chunk, self.key, counter + 1))
             = Hasher(key, Canon(key, flags, d, 0), next)
      <4> HIDE DEF pushed, counter
      <4>1. chunk_state_reset(pushed.chunk, self.key, counter + 1) = Canon(key, flags, d, 0)
        BY <1>6, <3>8, <3>9, <3>10
      <4> DEFINE x == Canon(key, flags, d, 0)
      <4> HIDE DEF x
      <4>2. WithChunk(Hasher(key, full, next), x) = Hasher(key, x, next) BY ChunkSet
      <4> QED BY <3>7, <4>1, <4>2 DEF x
    <3>12. Rest(input, take) = Input(Base(d) + 1, Base(d) + l) BY <2>4, <3>2 DEF l
    <3>13. Given(key, flags, Base(d) + l,
                 AddSubtrees(Hasher(key, Canon(key, flags, d, 0), next), cpu,
                             Input(Base(d) + 1, Base(d) + l)))
      <4>1. Stacked(key, flags, d, next) BY <3>6 DEF d
      <4> QED BY <3>2, <4>1, AddSubtreesIs
    <3>14. rest = AddSubtrees(Hasher(key, Canon(key, flags, d, 0), next), cpu,
                              Input(Base(d) + 1, Base(d) + l))
      <4> HIDE DEF pushed, counter
      <4> QED BY <3>11, <3>12
    <3> HIDE DEF out, rest
    <3>15. Given(key, flags, had + n, out) BY <3>1, <3>2, <3>13, <3>14
    <3> QED BY <3>15 DEF out, input
  <2> QED BY <2>7, <2>8
<1> QED BY <1>9, <1>10, <1>11

-----------------------------------------------------------------------------
(* The root.                                                               *)

\* The part of the tree from chunk number a on.
Onward(n, key, flags, a) == Tree(n, key, flags)[Chunks(n) - a][a]

LEMMA OnwardStep ==
    ASSUME NEW n \in Nat, NEW key, NEW flags, NEW a \in Nat, NEW p \in Powers,
           Base(a + p) <= n, a + p < Chunks(n), Chunks(n) - (a + p) <= p
    PROVE  parent_output(Node(key, flags, p, a),
                         output_chaining_value(Onward(n, key, flags, a + p)), key, flags)
             = Onward(n, key, flags, a)
<1> DEFINE s == Chunks(n) - a
           k == Chunks(n) - (a + p)
           x == a + p
           tree == Tree(n, key, flags)
<1>1. Chunks(n) \in Nat \ {0} BY ChunksIs
<1>2. p \in Nat \ {0} BY PowerPositive
<1>3. /\ s \in Nat \ {0} /\ s # 1 /\ p < s /\ s <= 2 * p /\ a + s <= Chunks(n) /\ s - p = k
      /\ x \in Nat
  BY <1>1, <1>2
<1> HIDE DEF s, k
<1>4. LargestPower(s) = p BY <1>3, LargestPowerIs
<1>5. tree[s][a] = TreeStep(n, key, flags, tree, s, a) BY <1>3, TreeAt
<1>6. output_chaining_value(tree[p][a]) = Node(key, flags, p, a) BY <1>2, NodeIs
<1> HIDE DEF tree, x
<1>7. tree[s][a] = Joined2(key, flags, tree[p][a], tree[k][x])
  <2>1. tree[s][a] = Joined2(key, flags, tree[p][a], tree[s - p][a + p])
    BY <1>3, <1>4, <1>5 DEF TreeStep
  <2> QED BY <1>3, <2>1 DEF x
<1>8. tree[s][a] = parent_output(Node(key, flags, p, a), output_chaining_value(tree[k][x]), key, flags)
  BY <1>6, <1>7 DEF Joined2, parent_output
<1>9. Onward(n, key, flags, a) = tree[s][a] BY DEF Onward, s, tree
<1>10. Onward(n, key, flags, x) = tree[k][x] BY DEF Onward, k, tree, x
<1>11. parent_output(Node(key, flags, p, a), output_chaining_value(Onward(n, key, flags, x)), key, flags)
         = Onward(n, key, flags, a)
  BY <1>8, <1>9, <1>10
<1> QED BY <1>11 DEF x

LEMMA OnwardChunk ==
    ASSUME NEW key, NEW flags, NEW c \in Nat, NEW r \in 0 .. CHUNK_LEN, r > 0 \/ c = 0,
           NEW n, n = Base(c) + r
    PROVE  /\ n \in Nat /\ Chunks(n) = c + 1
           /\ Onward(n, key, flags, c) = Out(key, flags, c, r)
<1>1. CHUNK_LEN \in Nat \ {0} /\ Base(c) \in Nat /\ Base(0) = 0 /\ r \in Nat /\ r <= CHUNK_LEN
  <2>1. CHUNK_LEN \in Nat \ {0} /\ Base(0) = 0 BY Lengths
  <2>2. Base(c) \in Nat BY BaseIs
  <2> QED BY <2>1, <2>2
<1>2. n \in Nat BY <1>1
<1>3. Chunks(n) = c + 1
  <2>1. CASE r > 0
    <3>1. r \in 1 .. CHUNK_LEN BY <1>1, <2>1
    <3> QED BY <3>1, ChunksOf
  <2>2. CASE ~(r > 0)
    <3>1. c = 0 /\ n = 0 BY <1>1, <2>2
    <3> QED BY <3>1 DEF Chunks
  <2> QED BY <2>1, <2>2
<1> DEFINE tree == Tree(n, key, flags)
<1>4. tree[1][c] = TreeStep(n, key, flags, tree, 1, c)
  <2>1. c + 1 <= Chunks(n) /\ 1 \in Nat \ {0} BY <1>3
  <2> DEFINE s == 1
  <2>2. s \in Nat \ {0} /\ c + s <= Chunks(n) BY <2>1
  <2> HIDE DEF s
  <2>3. tree[s][c] = TreeStep(n, key, flags, tree, s, c) BY <1>2, <2>2, TreeAt
  <2> QED BY <2>3 DEF s
<1>5. TreeChunk(c, n, key, flags) = Out(key, flags, c, Least(CHUNK_LEN, n - Base(c)))
  <2>1. Base(c) <= n BY <1>1
  <2> QED BY <1>2, <2>1, TreeChunkIs
<1>6. Least(CHUNK_LEN, n - Base(c)) = r BY <1>1 DEF Least
<1>7. Chunks(n) - c = 1 BY <1>3
<1> HIDE DEF tree
<1>8. tree[1][c] = Out(key, flags, c, r) BY <1>4, <1>5, <1>6 DEF TreeStep
<1>9. Onward(n, key, flags, c) = tree[1][c] BY <1>7 DEF Onward, tree
<1> QED BY <1>2, <1>3, <1>8, <1>9

RollStep(self, k, i, output) ==
    parent_output(self.cv_stack[k + 1 - i], output_chaining_value(output), self.key, self.chunk.flags)

RollTo(self, output, k, t, n) ==
    t[0] = output /\ \A i \in 1 .. n : t[i] = RollStep(self, k, i, t[i - 1])

LEMMA RollsAre ==
    ASSUME NEW self, NEW output, NEW n \in Nat
    PROVE  \E t : RollTo(self, output, n, t, n) /\ RollUp(self, output, n) = t[n]
<1> DEFINE step(i, b) == RollStep(self, n, i, b)
           to(t, k) == RollTo(self, output, n, t, k)
           T == {k \in Nat : \E t : to(t, k)}
           H(t) == t = [i \in 0 .. n |-> IF i = 0 THEN output ELSE step(i, t[i - 1])]
<1>0. \A t, k : to(t, k) <=> t[0] = output /\ \A i \in 1 .. k : t[i] = step(i, t[i - 1]) BY DEF RollTo
<1>1. RollUp(self, output, n) = (CHOOSE t : H(t))[n]
  <2> DEFINE J(t) == t = [i \in 0 .. n |->
                            IF i = 0 THEN output
                            ELSE parent_output(self.cv_stack[n + 1 - i], output_chaining_value(t[i - 1]),
                                               self.key, self.chunk.flags)]
  <2>1. RollUp(self, output, n) = (CHOOSE t : J(t))[n] BY DEF RollUp
  <2>2. \A t : J(t) <=> H(t) BY DEF RollStep
  <2>3. (CHOOSE t : J(t)) = (CHOOSE t : H(t))
    <3> HIDE DEF J, H
    <3> QED BY <2>2
  <2> HIDE DEF J, H
  <2> QED BY <2>1, <2>3
<1> HIDE DEF step, to
<1>4. 0 \in T
  <2> DEFINE t == [i \in 0 .. 0 |-> output]
  <2>1. t[0] = output OBVIOUS
  <2> HIDE DEF t
  <2>2. to(t, 0) BY <1>0, <2>1
  <2> QED BY <2>2
<1>5. ASSUME NEW k \in 1 .. n, k - 1 \in T PROVE k \in T
  <2>1. PICK t : to(t, k - 1) BY <1>5
  <2> DEFINE h == [i \in 0 .. k |-> IF i = k THEN step(k, t[k - 1]) ELSE t[i]]
  <2>2. \A i \in 0 .. k : h[i] = IF i = k THEN step(k, t[k - 1]) ELSE t[i] OBVIOUS
  <2> HIDE DEF h
  <2>3. h[0] = output BY <1>0, <2>1, <2>2
  <2>4. ASSUME NEW i \in 1 .. k PROVE h[i] = step(i, h[i - 1])
    <3>1. i \in 0 .. k /\ i - 1 \in 0 .. k /\ i - 1 # k OBVIOUS
    <3>2. h[i - 1] = t[i - 1] BY <2>2, <3>1
    <3>3. i # k => i \in 1 .. (k - 1) OBVIOUS
    <3> QED BY <1>0, <2>1, <2>2, <3>1, <3>2, <3>3
  <2>5. to(h, k) BY <1>0, <2>3, <2>4
  <2> QED BY <2>5
<1>7. PICK t : to(t, n)
  <2>1. n \in 0 .. n OBVIOUS
  <2> HIDE DEF T
  <2>2. n \in T BY <1>4, <1>5, <2>1, ByStep
  <2> QED BY <2>2 DEF T
<1> DEFINE h == [i \in 0 .. n |-> t[i]]
           chain == CHOOSE o : H(o)
<1>8. H(h)
  <2>1. \A i \in 0 .. n : h[i] = t[i] OBVIOUS
  <2>2. \A i \in 0 .. n : h[i] = IF i = 0 THEN output ELSE step(i, h[i - 1])
    <3> HIDE DEF h
    <3>1. \A i \in 0 .. n : i # 0 => i \in 1 .. n /\ i - 1 \in 0 .. n OBVIOUS
    <3> QED BY <1>0, <1>7, <2>1, <3>1
  <2>3. h = [i \in 0 .. n |-> h[i]] OBVIOUS
  <2> HIDE DEF h
  <2> QED BY <2>2, <2>3
<1>9. H(chain)
  <2> HIDE DEF H, h
  <2> QED BY <1>8
<1> HIDE DEF chain
<1>10. \A i \in 0 .. n : chain[i] = IF i = 0 THEN output ELSE step(i, chain[i - 1]) BY <1>9
<1>11. to(chain, n)
  <2>1. 0 \in 0 .. n /\ \A i \in 1 .. n : i \in 0 .. n /\ i # 0 OBVIOUS
  <2> HIDE DEF H
  <2> QED BY <1>0, <1>10, <2>1
<1>12. RollUp(self, output, n) = chain[n]
  <2> HIDE DEF H
  <2> QED BY <1>1 DEF chain
<1> QED BY <1>11, <1>12 DEF to

\* What follows a value of the stack fits into a subtree of its size.
Before(n, pos, i) ==
    Base(pos[i]) <= n /\ pos[i] < Chunks(n) /\ Chunks(n) - pos[i] <= Size(pos, i)

LeftOf(key, flags, chunk, n, stack, pos, m, k) ==
    /\ chunk.flags = flags
    /\ \E c : Layout(pos, m, c)
    /\ stack = StackOf(key, flags, pos, m)
    /\ n \in Nat /\ k \in 0 .. m
    /\ \A i \in 1 .. k : Before(n, pos, i)

\* The values on the stack are the left subtrees on the way from the root.
LEMMA RollUpIs ==
    ASSUME NEW key, NEW flags, NEW chunk, NEW n, NEW stack, NEW pos, NEW m, NEW k,
           LeftOf(key, flags, chunk, n, stack, pos, m, k)
    PROVE  RollUp(Hasher(key, chunk, stack), Onward(n, key, flags, pos[k]), k)
             = Onward(n, key, flags, 0)
<1> DEFINE self == Hasher(key, chunk, stack)
           start == Onward(n, key, flags, pos[k])
<1>0. PICK c : Layout(pos, m, c) /\ n \in Nat /\ k \in 0 .. m /\ stack = StackOf(key, flags, pos, m)
                 /\ chunk.flags = flags
  BY DEF LeftOf
<1>1. m \in Nat /\ k \in Nat /\ k <= m /\ pos[0] = 0 BY <1>0 DEF Layout
<1>2. \A i \in 1 .. m : stack[i] = Node(key, flags, Size(pos, i), pos[i - 1])
  BY <1>0, <1>1, StackIs
<1>3. self.key = key /\ self.chunk = chunk /\ self.cv_stack = stack BY HasherFields
<1> HIDE DEF self, start
<1>4. PICK t : RollTo(self, start, k, t, k) /\ RollUp(self, start, k) = t[k] BY <1>1, RollsAre
<1> DEFINE T == {i \in Nat : i <= k => t[i] = Onward(n, key, flags, pos[k - i])}
<1>5. 0 \in T
  <2>1. k - 0 = k BY <1>1
  <2>2. t[0] = start BY <1>4 DEF RollTo
  <2>3. t[0] = Onward(n, key, flags, pos[k - 0]) BY <2>1, <2>2 DEF start
  <2> QED BY <2>3
<1>6. ASSUME NEW i \in 1 .. k, i - 1 \in T PROVE i \in T
  <2> DEFINE j == k + 1 - i
             a == pos[j - 1]
             p == Size(pos, j)
  <2>1. j \in 1 .. k /\ j \in 1 .. m /\ j = k - (i - 1) /\ j - 1 = k - i /\ i - 1 <= k /\ i \in Nat
    BY <1>1
  <2>2. t[i] = RollStep(self, k, i, t[i - 1]) BY <1>4 DEF RollTo
  <2>3. t[i - 1] = Onward(n, key, flags, pos[j]) BY <1>6, <2>1
  <2>4. t[i] = parent_output(self.cv_stack[j], output_chaining_value(t[i - 1]), self.key, self.chunk.flags)
    BY <2>2 DEF RollStep
  <2> HIDE DEF j
  <2>5. t[i] = parent_output(stack[j], output_chaining_value(Onward(n, key, flags, pos[j])), key, flags)
    BY <1>0, <1>3, <2>3, <2>4
  <2>6. stack[j] = Node(key, flags, p, a) BY <1>2, <2>1
  <2>7. a \in Nat /\ p \in Powers /\ pos[j] = a + p BY <1>0, <2>1, LayoutFacts
  <2>8. Base(pos[j]) <= n /\ pos[j] < Chunks(n) /\ Chunks(n) - pos[j] <= p
    BY <2>1 DEF LeftOf, Before
  <2> HIDE DEF a, p
  <2>9. t[i] = parent_output(Node(key, flags, p, a),
                             output_chaining_value(Onward(n, key, flags, a + p)), key, flags)
    BY <2>5, <2>6, <2>7
  <2>10. t[i] = Onward(n, key, flags, a)
    <3>1. Base(a + p) <= n /\ a + p < Chunks(n) /\ Chunks(n) - (a + p) <= p BY <2>7, <2>8
    <3>2. parent_output(Node(key, flags, p, a),
                        output_chaining_value(Onward(n, key, flags, a + p)), key, flags)
            = Onward(n, key, flags, a)
      BY <1>0, <2>7, <3>1, OnwardStep
    <3> QED BY <2>9, <3>2
  <2>11. t[i] = Onward(n, key, flags, pos[k - i]) BY <2>1, <2>10 DEF a
  <2> QED BY <2>1, <2>11
<1>7. t[k] = Onward(n, key, flags, 0)
  <2>1. k \in 0 .. k /\ k - k = 0 BY <1>1
  <2>2. k \in T
    <3> HIDE DEF T
    <3> QED BY <1>1, <1>5, <1>6, <2>1, ByStep
  <2>3. t[k] = Onward(n, key, flags, pos[k - k]) BY <1>1, <2>2
  <2> QED BY <1>1, <2>1, <2>3
<1> QED BY <1>4, <1>7 DEF self, start

Root(self) ==
    LET n == Len(self.cv_stack)
    IN  IF n = 0
        THEN chunk_state_output(self.chunk)
        ELSE IF chunk_state_len(self.chunk) > 0
        THEN RollUp(self, chunk_state_output(self.chunk), n)
        ELSE RollUp(self, parent_output(self.cv_stack[n - 1], self.cv_stack[n], self.key,
                                        self.chunk.flags), n - 2)

\* With a chunk begun the chunk is the last subtree.
LEMMA RootOfChunk ==
    ASSUME NEW key, NEW flags, NEW n, NEW c, NEW r, NEW stack,
           Hashed(key, flags, n, c, r, stack), r > 0 \/ c = 0
    PROVE  Root(Hasher(key, Canon(key, flags, c, r), stack)) = Onward(n, key, flags, 0)
<1> DEFINE chunk == Canon(key, flags, c, r)
           self == Hasher(key, chunk, stack)
           output == chunk_state_output(chunk)
<1>1. c \in Nat /\ r \in 0 .. CHUNK_LEN /\ n = Base(c) + r /\ r \in Nat BY Lengths DEF Hashed
<1>2. n \in Nat /\ Chunks(n) = c + 1 /\ Onward(n, key, flags, c) = Out(key, flags, c, r)
  BY <1>1, OnwardChunk
<1>3. output = Onward(n, key, flags, c) BY <1>2 DEF Out
<1>4. chunk_state_len(chunk) = r /\ chunk.flags = flags BY <1>1, CanonFields
<1> HIDE DEF chunk, output
<1>5. self.key = key /\ self.chunk = chunk /\ self.cv_stack = stack BY HasherFields
<1>6. Tidy(key, flags, c, stack)
  <2>1. CASE r > 0 BY <2>1 DEF Hashed
  <2>2. CASE c = 0
    <3>1. stack = <<>> BY <2>2 DEF Hashed
    <3> QED BY <2>2, <3>1, StackedZero
  <2> QED BY <2>1, <2>2
<1>7. PICK pos, m : Strict(pos, m, c) /\ stack = StackOf(key, flags, pos, m) BY <1>6 DEF Tidy
<1>8. Layout(pos, m, c) /\ m \in Nat /\ pos[0] = 0 /\ pos[m] = c BY <1>7 DEF Strict, Layout
<1>9. Len(stack) = m BY <1>7, <1>8, StackIs
<1>10. CASE m = 0
  <2>1. Root(self) = output
    <3> HIDE DEF self
    <3> QED BY <1>5, <1>9, <1>10, Zenon DEF Root, output
  <2>2. c = 0 BY <1>8, <1>10
  <2> QED BY <1>3, <2>1, <2>2 DEF self, chunk
<1>11. CASE m # 0
  <2>1. r > 0
    <3>1. c # 0
      <4>1. c = 0 => m = 0 BY <1>8, LayoutZero
      <4> QED BY <1>11, <4>1
    <3> QED BY <3>1
  <2>2. Root(self) = RollUp(self, output, m)
    <3> HIDE DEF self
    <3>1. Len(self.cv_stack) = m /\ m # 0 BY <1>5, <1>9, <1>11
    <3>2. chunk_state_len(self.chunk) > 0 BY <1>4, <1>5, <2>1
    <3>3. Root(self) = RollUp(self, chunk_state_output(self.chunk), m)
      BY <3>1, <3>2, Zenon DEF Root
    <3> QED BY <1>5, <3>3 DEF output
  <2>3. ASSUME NEW i \in 1 .. m PROVE Before(n, pos, i)
    <3>1. pos[i] \in Nat /\ pos[i] <= c /\ Size(pos, i) \in Nat BY <1>8, LayoutFacts
    <3>2. c - pos[i] < Size(pos, i) BY <1>7 DEF Strict
    <3>3. Base(pos[i]) <= Base(c) /\ Base(c) \in Nat /\ Base(pos[i]) \in Nat
      <4>1. Base(pos[i]) <= Base(c) BY <1>1, <3>1, BaseSum
      <4>2. Base(c) \in Nat BY <1>1, BaseIs
      <4>3. Base(pos[i]) \in Nat BY <3>1, BaseIs
      <4> QED BY <4>1, <4>2, <4>3
    <3> QED BY <1>1, <1>2, <3>1, <3>2, <3>3 DEF Before
  <2>4. m \in 0 .. m BY <1>8
  <2>5. RollUp(Hasher(key, chunk, stack), output, m) = Onward(n, key, flags, 0)
    <3>1. LeftOf(key, flags, chunk, n, stack, pos, m, m) BY <1>2, <1>4, <1>7, <1>8, <2>3, <2>4 DEF LeftOf
    <3>2. RollUp(Hasher(key, chunk, stack), Onward(n, key, flags, pos[m]), m)
            = Onward(n, key, flags, 0)
      BY <3>1, RollUpIs
    <3> QED BY <1>3, <1>8, <3>2
  <2>6. Root(self) = Onward(n, key, flags, 0) BY <2>2, <2>5
  <2> QED BY <2>6 DEF self, chunk
<1> QED BY <1>10, <1>11

\* Without one, the two subtrees on top are the last.
LEMMA RootOfTwins ==
    ASSUME NEW key, NEW flags, NEW n, NEW c, NEW r, NEW stack,
           Hashed(key, flags, n, c, r, stack), ~(r > 0), c # 0
    PROVE  Root(Hasher(key, Canon(key, flags, c, r), stack)) = Onward(n, key, flags, 0)
<1> DEFINE chunk == Canon(key, flags, c, r)
           self == Hasher(key, chunk, stack)
<1>1. c \in Nat \ {0} /\ n = Base(c) /\ r = 0 /\ n \in Nat
  <2>1. c \in Nat /\ r \in 0 .. CHUNK_LEN /\ n = Base(c) + r /\ CHUNK_LEN \in Nat BY Lengths DEF Hashed
  <2>2. Base(c) \in Nat BY <2>1, BaseIs
  <2> QED BY <2>1, <2>2
<1>2. Chunks(n) = c
  <2>1. Base(c) <= n BY <1>1
  <2> QED BY <1>1, <2>1, ChunksWithin
<1>3. chunk_state_len(chunk) = 0 /\ chunk.flags = flags
  <2>1. r \in Nat BY <1>1
  <2> QED BY <1>1, <2>1, CanonFields
<1> HIDE DEF chunk
<1>4. self.key = key /\ self.chunk = chunk /\ self.cv_stack = stack BY HasherFields
<1>5. Twins(key, flags, c, stack) BY <1>1 DEF Hashed
<1>6. PICK pos, m : /\ Layout(pos, m, c) /\ stack = StackOf(key, flags, pos, m)
                    /\ m >= 2 /\ Size(pos, m - 1) = Size(pos, m)
  BY <1>5 DEF Twins
<1> DEFINE k == m - 2
           s == Size(pos, m)
           output == parent_output(stack[m - 1], stack[m], key, flags)
           a == pos[k]
           b == pos[m - 1]
<1>7. /\ m \in Nat /\ k \in Nat /\ k \in 0 .. m /\ m - 1 \in 1 .. m /\ m \in 1 .. m
      /\ (m - 1) - 1 = k /\ pos[m] = c
  BY <1>6 DEF Layout
<1>8. /\ Len(stack) = m
      /\ \A i \in 1 .. m : stack[i] = Node(key, flags, Size(pos, i), pos[i - 1])
  BY <1>6, <1>7, StackIs
<1>9. /\ a \in Nat /\ s \in Powers /\ s \in Nat \ {0} /\ b = a + s /\ c = b + s
  <2>1. pos[(m - 1) - 1] \in Nat /\ pos[m - 1] = pos[(m - 1) - 1] + Size(pos, m - 1)
    BY <1>6, <1>7, LayoutFacts
  <2>2. pos[m] = pos[m - 1] + Size(pos, m) /\ Size(pos, m) \in Powers /\ Size(pos, m) \in Nat \ {0}
    BY <1>6, <1>7, LayoutFacts
  <2> QED BY <1>6, <1>7, <2>1, <2>2
<1>10. stack[m - 1] = Node(key, flags, s, a) /\ stack[m] = Node(key, flags, s, b)
  BY <1>6, <1>7, <1>8
<1>11. Root(self) = RollUp(self, output, k)
  <2> HIDE DEF self
  <2>1. Len(self.cv_stack) = m /\ m # 0 /\ ~(chunk_state_len(self.chunk) > 0)
    BY <1>3, <1>4, <1>6, <1>7, <1>8
  <2>2. Root(self) = RollUp(self, parent_output(self.cv_stack[m - 1], self.cv_stack[m], self.key,
                                                self.chunk.flags), m - 2)
    BY <2>1, Zenon DEF Root
  <2> QED BY <1>3, <1>4, <2>2
<1>12. ASSUME NEW i \in 1 .. k PROVE Before(n, pos, i)
  <2>1. i \in 1 .. m /\ i < m /\ i \in 0 .. m /\ m - 1 \in 0 .. m /\ i <= m - 1 BY <1>7
  <2>2. pos[i] \in Nat /\ pos[i] <= c /\ Size(pos, i) \in Nat BY <1>6, <2>1, LayoutFacts
  <2>3. c - pos[i] <= Size(pos, i) /\ pos[i] <= pos[m - 1] BY <1>6, <2>1 DEF Layout
  <2>4. pos[i] < c
    <3> HIDE DEF s, a
    <3> QED BY <1>9, <2>2, <2>3
  <2>5. Base(pos[i]) <= Base(c) BY <1>1, <2>2, BaseSum
  <2> QED BY <1>1, <1>2, <2>2, <2>3, <2>4, <2>5 DEF Before
<1>13. output = Onward(n, key, flags, a)
  <2>1. Base(b) <= n /\ b < Chunks(n) /\ Chunks(n) - b <= s /\ Chunks(n) - b = s /\ b \in Nat
    <3>1. b \in Nat /\ b < c /\ c - b = s
      <4> HIDE DEF a, b, s
      <4> QED BY <1>9
    <3>2. Base(b) <= Base(c)
      <4>1. b <= c BY <1>1, <3>1
      <4> HIDE DEF b
      <4> QED BY <1>1, <3>1, <4>1, BaseSum
    <3> HIDE DEF b, s
    <3> QED BY <1>1, <1>2, <1>9, <3>1, <3>2
  <2> HIDE DEF a, b, s
  <2>2. output_chaining_value(Onward(n, key, flags, b)) = Node(key, flags, s, b)
    <3>1. Base(b + s) <= n BY <1>1, <1>9
    <3>2. output_chaining_value(Tree(n, key, flags)[s][b]) = Node(key, flags, s, b)
      BY <1>1, <1>9, <2>1, <3>1, NodeIs
    <3> QED BY <2>1, <3>2 DEF Onward
  <2>3. parent_output(Node(key, flags, s, a),
                      output_chaining_value(Onward(n, key, flags, a + s)), key, flags)
          = Onward(n, key, flags, a)
    <3>1. Base(a + s) <= n /\ a + s < Chunks(n) /\ Chunks(n) - (a + s) <= s BY <1>9, <2>1
    <3> QED BY <1>1, <1>9, <3>1, OnwardStep
  <2> QED BY <1>9, <1>10, <2>2, <2>3
<1>14. RollUp(Hasher(key, chunk, stack), output, k) = Onward(n, key, flags, 0)
  <2> HIDE DEF output, s, a, b, k
  <2>1. LeftOf(key, flags, chunk, n, stack, pos, m, k) BY <1>1, <1>3, <1>6, <1>7, <1>12 DEF LeftOf
  <2>2. RollUp(Hasher(key, chunk, stack), Onward(n, key, flags, pos[k]), k)
          = Onward(n, key, flags, 0)
    BY <2>1, RollUpIs
  <2> QED BY <1>13, <2>2 DEF a
<1>15. Root(self) = Onward(n, key, flags, 0) BY <1>11, <1>14
<1> QED BY <1>15 DEF self, chunk

LEMMA RootIs ==
    ASSUME NEW key, NEW flags, NEW n, NEW self, Given(key, flags, n, self)
    PROVE  Root(self) = Tree(n, key, flags)[Chunks(n)][0]
<1>1. PICK c, r, stack : Hashed(key, flags, n, c, r, stack)
                         /\ self = Hasher(key, Canon(key, flags, c, r), stack)
  BY DEF Given
<1>2. r > 0 \/ ~(r > 0) OBVIOUS
<1>3. Root(self) = Onward(n, key, flags, 0)
  <2>1. CASE r > 0 \/ c = 0 BY <1>1, <2>1, RootOfChunk
  <2>2. CASE ~(r > 0) /\ c # 0 BY <1>1, <2>2, RootOfTwins
  <2> QED BY <2>1, <2>2
<1>4. n \in Nat
  <2>1. c \in Nat /\ r \in 0 .. CHUNK_LEN /\ n = Base(c) + r /\ CHUNK_LEN \in Nat
    BY <1>1, Lengths DEF Hashed
  <2>2. Base(c) \in Nat BY <2>1, BaseIs
  <2> QED BY <2>1, <2>2
<1>5. Chunks(n) - 0 = Chunks(n)
  <2>1. Chunks(n) \in Nat BY <1>4, ChunksIs
  <2> QED BY <2>1
<1> QED BY <1>3, <1>5 DEF Onward

-----------------------------------------------------------------------------
(* The bytes of the output.                                                *)

Byte(block, offset) == [block |-> block, offset |-> offset]

ByteAt(root, p) == Byte(OutputBlock(root, Words(p \div BLOCK_LEN)), p % BLOCK_LEN)

Span(root, seek, n) == [i \in 1 .. n |-> ByteAt(root, (seek + i) - 1)]

LEMMA ByteIn ==
    ASSUME NEW root, NEW q \in Nat, NEW r \in 0 .. (BLOCK_LEN - 1)
    PROVE  ByteAt(root, Offset(q) + r) = Byte(OutputBlock(root, Words(q)), r)
<1>1. BLOCK_LEN \in Nat \ {0} BY Lengths
<1>2. (q * BLOCK_LEN + r) \div BLOCK_LEN = q /\ (q * BLOCK_LEN + r) % BLOCK_LEN = r
  BY <1>1, DivisionBy
<1> QED BY <1>2, Zenon DEF ByteAt, Offset

LEMMA SpanIs ==
    ASSUME NEW root, NEW seek, NEW n \in Nat
    PROVE  /\ IsSeq(Span(root, seek, n), n)
           /\ \A i \in 1 .. n : Span(root, seek, n)[i] = ByteAt(root, (seek + i) - 1)
BY DEF Span, IsSeq

LEMMA SpanConcat ==
    ASSUME NEW root, NEW a \in Nat, NEW m \in Nat, NEW n \in Nat
    PROVE  Span(root, a, m) \o Span(root, a + m, n) = Span(root, a, m + n)
<1> DEFINE s == Span(root, a, m)
           t == Span(root, a + m, n)
           u == Span(root, a, m + n)
<1>1. IsSeq(s, m) /\ \A i \in 1 .. m : s[i] = ByteAt(root, (a + i) - 1) BY SpanIs
<1>2. IsSeq(t, n) /\ \A i \in 1 .. n : t[i] = ByteAt(root, ((a + m) + i) - 1) BY SpanIs
<1>3. IsSeq(u, m + n) /\ \A i \in 1 .. m + n : u[i] = ByteAt(root, (a + i) - 1)
  <2> DEFINE k == m + n
  <2>1. k \in Nat OBVIOUS
  <2> HIDE DEF k
  <2>2. IsSeq(Span(root, a, k), k) /\ \A i \in 1 .. k : Span(root, a, k)[i] = ByteAt(root, (a + i) - 1)
    BY <2>1, SpanIs
  <2> QED BY <2>2 DEF k
<1> HIDE DEF s, t, u
<1> DEFINE all == Concat(s, t)
<1>4. /\ IsSeq(all, m + n)
      /\ \A i \in 1 .. m : all[i] = s[i]
      /\ \A i \in 1 .. n : all[m + i] = t[i]
  <2>1. IsSeq(s, m) /\ IsSeq(t, n) BY <1>1, <1>2
  <2> QED BY <2>1, ConcatIs
<1> HIDE DEF all
<1>5. ASSUME NEW i \in 1 .. m + n PROVE all[i] = u[i]
  <2>1. CASE i \in 1 .. m BY <1>1, <1>3, <1>4, <2>1
  <2>2. CASE i \notin 1 .. m
    <3> DEFINE j == i - m
    <3>1. j \in 1 .. n /\ i = m + j /\ ((a + m) + j) - 1 = (a + i) - 1 BY <2>2
    <3> HIDE DEF j
    <3>2. all[m + j] = t[j] BY <1>4, <3>1
    <3>3. t[j] = ByteAt(root, ((a + m) + j) - 1) BY <1>2, <3>1
    <3> QED BY <1>3, <3>1, <3>2, <3>3
  <2> QED BY <2>1, <2>2
<1>6. all = u BY <1>3, <1>4, <1>5, SeqSame
<1> QED BY <1>6 DEF all, s, t, u, Concat

LEMMA BytesIs ==
    ASSUME NEW root, NEW q \in Nat, NEW r \in Nat, NEW n \in Nat, r + n <= BLOCK_LEN
    PROVE  Bytes(OutputBlock(root, Words(q)), r, n) = Span(root, Offset(q) + r, n)
<1> DEFINE block == OutputBlock(root, Words(q))
           x == Bytes(block, r, n)
           a == Offset(q) + r
           y == Span(root, a, n)
<1>1. IsSeq(x, n) /\ \A i \in 1 .. n : x[i] = Byte(block, (r + i) - 1)
  <2>1. x = [i \in 1 .. n |-> Byte(block, r + i - 1)] BY DEF Bytes, Byte
  <2> HIDE DEF x, block
  <2>2. \A i \in 1 .. n : x[i] = Byte(block, (r + i) - 1) BY <2>1
  <2>3. IsSeq(x, n) BY <2>1 DEF IsSeq
  <2> QED BY <2>2, <2>3
<1>2. IsSeq(y, n) /\ \A i \in 1 .. n : y[i] = ByteAt(root, (a + i) - 1)
  <2> HIDE DEF a
  <2> QED BY SpanIs
<1>3. ASSUME NEW i \in 1 .. n PROVE x[i] = y[i]
  <2> DEFINE o == (r + i) - 1
  <2>1. Offset(q) \in Nat BY OffsetIs
  <2>2. o \in 0 .. (BLOCK_LEN - 1) /\ (a + i) - 1 = Offset(q) + o BY <2>1, Lengths
  <2> HIDE DEF o
  <2>3. ByteAt(root, Offset(q) + o) = Byte(block, o) BY <2>2, ByteIn
  <2>4. y[i] = ByteAt(root, Offset(q) + o)
    <3> HIDE DEF y
    <3> QED BY <1>2, <2>2
  <2>5. x[i] = Byte(block, o)
    <3> HIDE DEF x, block
    <3> QED BY <1>1 DEF o
  <2> HIDE DEF x, y, block
  <2> QED BY <2>3, <2>4, <2>5
<1> HIDE DEF x, y
<1>4. x = y BY <1>1, <1>2, <1>3, SeqSame
<1> QED BY <1>4 DEF x, y

\* The blocks in between are those of the vector code.
WholeBytes(blocks, w) ==
    [i \in 1 .. w * BLOCK_LEN |->
        [block |-> blocks[(i - 1) \div BLOCK_LEN + 1], offset |-> (i - 1) % BLOCK_LEN]]

LEMMA WholeBytesIs ==
    ASSUME NEW cpu, NEW root, NEW next \in Nat, NEW w \in Nat
    PROVE  WholeBytes(blake3_xof_many(cpu, root, next, w), w) = Span(root, Offset(next), Offset(w))
<1> DEFINE blocks == blake3_xof_many(cpu, root, next, w)
           n == Offset(w)
           x == WholeBytes(blocks, w)
           y == Span(root, Offset(next), n)
<1>1. n \in Nat /\ Offset(next) \in Nat /\ BLOCK_LEN \in Nat \ {0}
  <2>1. Offset(w) \in Nat BY OffsetIs
  <2>2. Offset(next) \in Nat BY OffsetIs
  <2> QED BY <2>1, <2>2, Lengths
<1>2. \A i \in 1 .. w : blocks[i] = OutputBlock(root, Words(next + i - 1))
  <2>1. blocks = [i \in 1 .. w |-> OutputBlock(root, Words(next + i - 1))] BY XofManyDispatched
  <2> HIDE DEF blocks
  <2> QED BY <2>1
<1> HIDE DEF blocks
<1>3. IsSeq(x, n) /\ \A i \in 1 .. n : x[i] = Byte(blocks[(i - 1) \div BLOCK_LEN + 1], (i - 1) % BLOCK_LEN)
  <2>1. x = [i \in 1 .. n |-> Byte(blocks[(i - 1) \div BLOCK_LEN + 1], (i - 1) % BLOCK_LEN)]
    BY Zenon DEF WholeBytes, Byte, Offset
  <2> DEFINE b(i) == Byte(blocks[(i - 1) \div BLOCK_LEN + 1], (i - 1) % BLOCK_LEN)
  <2>2. x = [i \in 1 .. n |-> b(i)] BY <2>1
  <2> HIDE DEF x, n, b
  <2>3. IsSeq(x, n) /\ \A i \in 1 .. n : x[i] = b(i) BY <1>1, <2>2 DEF IsSeq
  <2> QED BY <2>3 DEF b
<1>4. IsSeq(y, n) /\ \A i \in 1 .. n : y[i] = ByteAt(root, (Offset(next) + i) - 1)
  <2> HIDE DEF n
  <2> QED BY <1>1, SpanIs
<1> HIDE DEF x, y
<1>5. ASSUME NEW i \in 1 .. n PROVE x[i] = y[i]
  <2> DEFINE j == i - 1
             q == j \div BLOCK_LEN
             r == j % BLOCK_LEN
  <2>1. j \in Nat /\ j < n BY <1>1
  <2>2. q \in Nat /\ r \in 0 .. (BLOCK_LEN - 1) /\ j = q * BLOCK_LEN + r
    <3> HIDE DEF j
    <3> QED BY <1>1, <2>1, PartsBy, Zenon
  <2>3. x[i] = Byte(blocks[q + 1], r) BY <1>3
  <2> HIDE DEF q, r, j
  <2>4. j = Offset(q) + r BY <2>2 DEF Offset
  <2>5. Offset(q) \in Nat BY <2>2, OffsetIs
  <2>6. q < w
    <3>1. Offset(q) < Offset(w) BY <1>1, <2>1, <2>2, <2>4, <2>5 DEF n
    <3> QED BY <2>2, <3>1, OffsetSum
  <2>7. q + 1 \in 1 .. w /\ next + (q + 1) - 1 = next + q /\ next + q \in Nat BY <2>2, <2>6
  <2>8. blocks[q + 1] = OutputBlock(root, Words(next + q)) BY <1>2, <2>7
  <2>9. (Offset(next) + i) - 1 = Offset(next + q) + r
    <3>1. Offset(next + q) = Offset(next) + Offset(q) BY <2>2, OffsetSum
    <3>2. i = j + 1 BY DEF j
    <3> QED BY <1>1, <2>2, <2>4, <2>5, <3>1, <3>2
  <2>10. ByteAt(root, Offset(next + q) + r) = Byte(OutputBlock(root, Words(next + q)), r)
    <3> DEFINE k == next + q
    <3>1. k \in Nat BY <2>7
    <3> HIDE DEF k
    <3>2. ByteAt(root, Offset(k) + r) = Byte(OutputBlock(root, Words(k)), r) BY <2>2, <3>1, ByteIn
    <3> QED BY <3>2 DEF k
  <2>11. y[i] = ByteAt(root, (Offset(next) + i) - 1) BY <1>4
  <2> QED BY <2>3, <2>8, <2>9, <2>10, <2>11
<1>6. x = y BY <1>3, <1>4, <1>5, SeqSame
<1> QED BY <1>6 DEF x, y, n, blocks

LEMMA SpanEmpty ==
    ASSUME NEW root, NEW a, NEW b
    PROVE  Span(root, a, 0) = Span(root, b, 0)
<1> DEFINE n == 0
<1>1. n \in Nat /\ 1 .. n = {} OBVIOUS
<1> HIDE DEF n
<1>2. IsSeq(Span(root, a, n), n) BY <1>1, SpanIs
<1>3. IsSeq(Span(root, b, n), n) BY <1>1, SpanIs
<1>4. \A i \in 1 .. n : Span(root, a, n)[i] = Span(root, b, n)[i] BY <1>1
<1>5. Span(root, a, n) = Span(root, b, n) BY <1>2, <1>3, <1>4, SeqSame
<1> QED BY <1>5 DEF n

\* output_root_bytes reads the output from seek on, byte by byte.
LEMMA RootBytesAre ==
    ASSUME NEW cpu, NEW output, NEW seek \in Nat, NEW out_len \in Nat
    PROVE  output_root_bytes(cpu, output, seek, out_len) = Span(RootOf(output), seek, out_len)
<1> DEFINE root == RootOf(output)
           counter == seek \div BLOCK_LEN
           offset == seek % BLOCK_LEN
           first == IF offset = 0 THEN 0 ELSE Least(BLOCK_LEN - offset, out_len)
           next == IF offset = 0 THEN counter ELSE counter + 1
           left == out_len - first
           whole == left \div BLOCK_LEN
           rest == left % BLOCK_LEN
           last == left - whole * BLOCK_LEN
           x == Bytes(OutputBlock(root, Words(counter)), offset, first)
           y == WholeBytes(blake3_xof_many(cpu, root, next, whole), whole)
           z == Bytes(OutputBlock(root, Words(next + whole)), 0, last)
<1>1. output_root_bytes(cpu, output, seek, out_len) = (x \o y) \o z
  BY Zenon DEF output_root_bytes, WholeBytes
<1>2. BLOCK_LEN \in Nat \ {0} BY Lengths
<1>3. counter \in Nat /\ offset \in 0 .. (BLOCK_LEN - 1) /\ seek = Offset(counter) + offset
  <2>1. counter \in Nat /\ offset \in 0 .. (BLOCK_LEN - 1) /\ seek = counter * BLOCK_LEN + offset
    BY <1>2, PartsBy, Zenon
  <2> HIDE DEF counter, offset
  <2> QED BY <2>1 DEF Offset
<1> HIDE DEF counter, offset
<1>4. first \in Nat /\ first <= out_len /\ offset + first <= BLOCK_LEN /\ offset \in Nat
      /\ (offset = 0 => first = 0)
      /\ (offset # 0 => first = out_len \/ offset + first = BLOCK_LEN)
  BY <1>2, <1>3 DEF Least
<1>5. next \in Nat /\ (offset = 0 => next = counter) /\ (offset # 0 => next = counter + 1)
  BY <1>3
<1> HIDE DEF first, next
<1>6. left \in Nat /\ out_len = first + left /\ (left = 0 \/ offset = 0 \/ offset + first = BLOCK_LEN)
  BY <1>4
<1> HIDE DEF left
<1>7. whole \in Nat /\ rest \in 0 .. (BLOCK_LEN - 1) /\ left = whole * BLOCK_LEN + rest
  BY <1>2, <1>6, PartsBy, Zenon
<1> HIDE DEF whole, rest
<1>8. Offset(whole) \in Nat /\ Offset(whole) = whole * BLOCK_LEN
  <2>1. Offset(whole) \in Nat BY <1>7, OffsetIs
  <2> QED BY <2>1 DEF Offset
<1>9. last = rest /\ rest \in Nat /\ left = Offset(whole) + rest /\ last \in Nat /\ 0 + last <= BLOCK_LEN
  BY <1>2, <1>7, <1>8
<1> HIDE DEF last
<1>10. x = Span(root, seek, first)
  <2> HIDE DEF root
  <2> QED BY <1>3, <1>4, BytesIs
<1>11. y = Span(root, Offset(next), Offset(whole))
  <2> HIDE DEF root
  <2> QED BY <1>5, <1>7, WholeBytesIs
<1>12. z = Span(root, Offset(next) + Offset(whole), last)
  <2> HIDE DEF root
  <2> DEFINE q == next + whole
             o == 0
  <2>1. q \in Nat /\ o \in Nat /\ o + last <= BLOCK_LEN BY <1>5, <1>7, <1>9
  <2>2. Offset(q) = Offset(next) + Offset(whole) BY <1>5, <1>7, OffsetSum
  <2>3. Offset(q) \in Nat BY <2>1, OffsetIs
  <2>4. Offset(q) + o = Offset(next) + Offset(whole) BY <2>2, <2>3
  <2> HIDE DEF q, o
  <2>5. Bytes(OutputBlock(root, Words(q)), o, last) = Span(root, Offset(q) + o, last)
    BY <1>9, <2>1, BytesIs
  <2> QED BY <2>4, <2>5 DEF q, o
<1>13. Offset(next) \in Nat /\ Offset(counter) \in Nat
       /\ (offset # 0 => Offset(next) = Offset(counter) + BLOCK_LEN)
  <2>1. Offset(next) \in Nat BY <1>5, OffsetIs
  <2>2. Offset(counter) \in Nat /\ Offset(counter + 1) = Offset(counter) + BLOCK_LEN BY <1>3, OffsetIs
  <2> QED BY <1>5, <2>1, <2>2
<1> HIDE DEF x, y, z, root
<1>14. CASE left # 0 \/ offset = 0
  <2>1. Offset(next) = seek + first
    <3>1. CASE offset = 0 BY <1>3, <1>4, <1>5, <1>13, <3>1
    <3>2. CASE offset # 0
      <4>1. offset + first = BLOCK_LEN BY <1>6, <1>14, <3>2
      <4> QED BY <1>2, <1>3, <1>4, <1>13, <3>2, <4>1
    <3> QED BY <3>1, <3>2
  <2> DEFINE w == Offset(whole)
             f == first + w
  <2>2. x \o y = Span(root, seek, f)
    <3> HIDE DEF w
    <3>1. w \in Nat BY <1>8 DEF w
    <3>2. Span(root, seek, first) \o Span(root, seek + first, w) = Span(root, seek, first + w)
      BY <1>4, <3>1, SpanConcat, ZenonT(60)
    <3>3. y = Span(root, seek + first, w) BY <1>11, <2>1 DEF w
    <3> QED BY <1>10, <3>2, <3>3
  <2>3. z = Span(root, seek + f, last)
    <3>1. (seek + first) + w = seek + f BY <1>4, <1>8
    <3> QED BY <1>12, <2>1, <3>1
  <2>4. f \in Nat /\ f + last = out_len BY <1>4, <1>6, <1>8, <1>9
  <2> HIDE DEF f
  <2>5. Span(root, seek, f) \o Span(root, seek + f, last) = Span(root, seek, f + last)
    <3>1. f \in Nat BY <2>4
    <3>2. last \in Nat BY <1>9
    <3> HIDE DEF w
    <3> QED BY <3>1, <3>2, SpanConcat
  <2>6. (x \o y) \o z = Span(root, seek, out_len) BY <2>2, <2>3, <2>4, <2>5
  <2> QED BY <1>1, <2>6 DEF root
<1>15. CASE left = 0
  <2>1. Offset(whole) = 0 /\ last = 0 /\ first = out_len BY <1>4, <1>6, <1>8, <1>9, <1>15
  <2> DEFINE o == 0
             a == seek + first
             b == seek + out_len
  <2>2. y = Span(root, b, o) /\ z = Span(root, b, o)
    <3>1. y = Span(root, Offset(next), 0) BY <1>11, <2>1
    <3>2. z = Span(root, Offset(next) + 0, 0) BY <1>12, <2>1
    <3>3. Span(root, Offset(next), 0) = Span(root, b, 0) BY SpanEmpty
    <3>4. Span(root, Offset(next) + 0, 0) = Span(root, b, 0) BY SpanEmpty
    <3> QED BY <3>1, <3>2, <3>3, <3>4
  <2>3. o \in Nat /\ out_len + o = out_len OBVIOUS
  <2> HIDE DEF o
  <2>4. Span(root, seek, out_len) \o Span(root, seek + out_len, o) = Span(root, seek, out_len + o)
    BY <2>3, SpanConcat
  <2>5. x \o y = Span(root, seek, out_len) BY <1>10, <2>1, <2>2, <2>3, <2>4
  <2>6. (x \o y) \o z = Span(root, seek, out_len) BY <2>2, <2>3, <2>4, <2>5
  <2> QED BY <1>1, <2>6 DEF root
<1> QED BY <1>14, <1>15

LEMMA TreeHashIs ==
    ASSUME NEW n, NEW key, NEW flags, NEW seek \in Nat, NEW out_len \in Nat
    PROVE  TreeHash(n, key, flags, seek, out_len)
             = Span(RootOf(Tree(n, key, flags)[Chunks(n)][0]), seek, out_len)
<1> DEFINE root == RootOf(Tree(n, key, flags)[Chunks(n)][0])
           x == TreeHash(n, key, flags, seek, out_len)
<1>1. x = [i \in 1 .. out_len |-> ByteAt(root, seek + i - 1)]
  BY Zenon DEF TreeHash, ByteAt, Byte
<1> HIDE DEF root, x
<1>2. IsSeq(x, out_len) /\ \A i \in 1 .. out_len : x[i] = ByteAt(root, (seek + i) - 1)
  BY <1>1 DEF IsSeq
<1>3. /\ IsSeq(Span(root, seek, out_len), out_len)
      /\ \A i \in 1 .. out_len : Span(root, seek, out_len)[i] = ByteAt(root, (seek + i) - 1)
  BY SpanIs
<1>4. x = Span(root, seek, out_len) BY <1>2, <1>3, SeqSame
<1> QED BY <1>4 DEF x, root

-----------------------------------------------------------------------------
(* The order of the stack.                                                 *)

NodeOf(n, key, flags, first, size) == output_chaining_value(Tree(n, key, flags)[size][first])

\* What StackOrdered says of a value under the one on top, and of all of them.
InPlace(n, key, flags, stack, below, top, p) ==
    /\ p >= top
    /\ stack[Cardinality({q \in Bits(below) : q >= p})]
         = NodeOf(n, key, flags, (below \div p - 1) * p, p)

TopOver(n, key, flags, stack, below, top) ==
    /\ Len(stack) = popcnt(below) + 1
    /\ stack[Len(stack)] = NodeOf(n, key, flags, below, top)
    /\ \A p \in Bits(below) : InPlace(n, key, flags, stack, below, top, p)

Ordered(n, key, flags, c, len, stack) ==
    /\ c = 0 => stack = <<>>
    /\ c > 0 => \E top \in PowersTo(c) : TopOver(n, key, flags, stack, c - top, top)
    /\ len > 0 => Len(stack) = popcnt(c)
    /\ Len(stack) <= Cardinality(PowersTo(c))

\* Without the subtree on top.
Under(pos, n) == [i \in 0 .. (n - 1) |-> pos[i]]

LEMMA LayoutUnder ==
    ASSUME NEW pos, NEW n, NEW c, Layout(pos, n, c), n # 0
    PROVE  /\ Strict(Under(pos, n), n - 1, pos[n - 1])
           /\ \A i \in 1 .. (n - 1) : Size(Under(pos, n), i) = Size(pos, i)
<1> DEFINE u == Under(pos, n)
           k == n - 1
           d == pos[k]
<1>1. n \in Nat /\ k \in Nat /\ k \in 0 .. n /\ n \in 1 .. n /\ c \in Nat
      /\ pos \in [0 .. n -> Nat] /\ pos[0] = 0 /\ pos[n] = c
  BY DEF Layout
<1>2. d \in Nat /\ d < c
  <2>1. pos[n] = pos[n - 1] + Size(pos, n) /\ pos[n - 1] \in Nat /\ Size(pos, n) \in Nat \ {0}
    BY <1>1, LayoutFacts
  <2> QED BY <1>1, <2>1
<1>3. \A i \in 0 .. k : u[i] = pos[i] BY DEF Under
<1>4. u \in [0 .. k -> Nat]
  <2>1. \A i \in 0 .. k : pos[i] \in Nat BY <1>1
  <2> QED BY <2>1 DEF Under
<1> HIDE DEF u, k
<1>5. \A i \in 1 .. k : i \in 0 .. k /\ i - 1 \in 0 .. k /\ i \in 1 .. n /\ i < n /\ i \in 0 .. n /\ i <= k
  BY <1>1 DEF k
<1>6. ASSUME NEW i \in 1 .. k PROVE Size(u, i) = Size(pos, i) BY <1>3, <1>5 DEF Size
<1> HIDE DEF d
<1>7. 0 \in 0 .. k /\ k \in 0 .. k BY <1>1
<1>8. u[0] = 0 /\ u[k] = d BY <1>1, <1>3, <1>7 DEF d
<1>9. \A i, j \in 0 .. k : i <= j => u[i] <= u[j]
  <2>1. \A i \in 0 .. k : i \in 0 .. n BY <1>1
  <2>2. \A i, j \in 0 .. n : i <= j => pos[i] <= pos[j] BY DEF Layout
  <2> QED BY <1>3, <2>1, <2>2
<1>10. ASSUME NEW i \in 1 .. k
       PROVE  Size(u, i) \in Powers /\ Mult(Size(u, i), u[i]) /\ d - u[i] < Size(u, i)
  <2>1. Size(pos, i) \in Powers /\ Mult(Size(pos, i), pos[i]) /\ pos[i] \in Nat /\ Size(pos, i) \in Nat
    BY <1>5, LayoutFacts
  <2>2. c - pos[i] <= Size(pos, i) BY <1>5 DEF Layout
  <2>3. u[i] = pos[i] /\ Size(u, i) = Size(pos, i) BY <1>3, <1>5, <1>6
  <2>4. d - pos[i] < Size(pos, i) BY <1>1, <1>2, <2>1, <2>2
  <2> QED BY <2>1, <2>3, <2>4
<1>11. \A i \in 1 .. k : d - u[i] <= Size(u, i)
  <2> SUFFICES ASSUME NEW i \in 1 .. k PROVE d - u[i] <= Size(u, i) OBVIOUS
  <2>1. u[i] \in Nat BY <1>4, <1>5
  <2>2. Size(u, i) \in Nat BY <1>10, PowerPositive
  <2> QED BY <1>2, <1>10, <2>1, <2>2
<1>12. Layout(u, k, d) BY <1>1, <1>2, <1>4, <1>8, <1>9, <1>10, <1>11 DEF Layout
<1>13. Strict(u, k, d) BY <1>10, <1>12 DEF Strict
<1> QED BY <1>6, <1>13 DEF u, k, d

\* The place of a subtree of a strict layout in the stack.
LEMMA PlaceOf ==
    ASSUME NEW pos, NEW n, NEW c, Strict(pos, n, c), NEW i \in 1 .. n
    PROVE  /\ Cardinality({q \in Bits(c) : q >= Size(pos, i)}) = i
           /\ (c \div Size(pos, i) - 1) * Size(pos, i) = pos[i - 1]
<1> DEFINE p == Size(pos, i)
<1>1. Layout(pos, n, c) BY DEF Strict
<1>2. /\ n \in Nat /\ i \in Nat \ {0} /\ c \in Nat
      /\ pos[i] \in Nat /\ pos[i - 1] \in Nat /\ pos[i] <= c
      /\ p \in Powers /\ p \in Nat \ {0}
      /\ pos[i] = pos[i - 1] + p /\ Mult(p, pos[i])
  BY <1>1, LayoutFacts
<1>3. \A j \in 1 .. n : Size(pos, j) \in Nat BY <1>1, LayoutFacts
<1>4. {q \in Bits(c) : q >= p} = {Size(pos, j) : j \in 1 .. i}
  <2>1. Bits(c) = {Size(pos, j) : j \in 1 .. n} BY StrictBits
  <2>2. ASSUME NEW j \in 1 .. n PROVE Size(pos, j) >= p <=> j <= i
    <3>1. CASE j < i BY <1>2, <1>3, <3>1, StrictOrder
    <3>2. CASE j = i BY <1>2, <3>2
    <3>3. CASE i < j
      <4>1. Size(pos, j) < p BY <3>3, StrictOrder
      <4> HIDE DEF p
      <4> QED BY <1>2, <1>3, <3>3, <4>1
    <3> QED BY <1>2, <3>1, <3>2, <3>3
  <2>3. \A j \in 1 .. i : j \in 1 .. n /\ j <= i BY <1>2
  <2>4. \A j \in 1 .. n : j <= i => j \in 1 .. i BY <1>2
  <2> HIDE DEF p
  <2> QED BY <2>1, <2>2, <2>3, <2>4
<1>5. Cardinality({Size(pos, j) : j \in 1 .. i}) = i
  <2>1. i \in 0 .. n BY <1>2
  <2> QED BY <2>1, CountSizes
<1>6. c - pos[i] < p BY DEF Strict
<1> HIDE DEF p
<1>7. (c \div p - 1) * p = pos[i - 1]
  <2>1. PICK k \in Nat : pos[i] = p * k BY <1>2, MultIs
  <2> DEFINE r == c - pos[i]
  <2>2. r \in 0 .. (p - 1) /\ c = k * p + r BY <1>2, <1>6, <2>1
  <2>3. (k * p + r) \div p = k
    <3> HIDE DEF r
    <3> QED BY <1>2, <2>2, DivisionBy
  <2>4. c \div p = k
    <3> HIDE DEF r
    <3> QED BY <2>2, <2>3
  <2>5. (k - 1) * p = p * k - p BY <1>2
  <2> QED BY <1>2, <2>1, <2>4, <2>5
<1> QED BY <1>4, <1>5, <1>7 DEF p

LEMMA TopIs ==
    ASSUME NEW key, NEW flags, NEW pos, NEW m, NEW c, Layout(pos, m, c), m # 0,
           NEW n \in Nat, Base(c) <= n
    PROVE  /\ Size(pos, m) \in PowersTo(c) /\ c - Size(pos, m) = pos[m - 1]
           /\ TopOver(n, key, flags, StackOf(key, flags, pos, m), pos[m - 1], Size(pos, m))
<1> DEFINE stack == StackOf(key, flags, pos, m)
           below == pos[m - 1]
           top == Size(pos, m)
           k == m - 1
           u == Under(pos, m)
<1>1. m \in Nat /\ k \in Nat /\ m \in 1 .. m /\ c \in Nat /\ pos[m] = c BY DEF Layout
<1>2. /\ below \in Nat /\ top \in Powers /\ top \in Nat \ {0} /\ c = below + top
  <2>1. pos[m] = pos[m - 1] + Size(pos, m) /\ pos[m - 1] \in Nat
        /\ Size(pos, m) \in Powers /\ Size(pos, m) \in Nat \ {0}
    BY <1>1, LayoutFacts
  <2> QED BY <1>1, <2>1
<1>3. top \in PowersTo(c)
  <2>1. PowersTo(c) = {p \in Powers : p <= c} BY <1>1, PowersToIs
  <2> HIDE DEF top, below
  <2> QED BY <1>2, <2>1
<1>4. Strict(u, k, below) /\ \A i \in 1 .. k : Size(u, i) = Size(pos, i) BY LayoutUnder
<1>5. /\ Len(stack) = m
      /\ \A i \in 1 .. m : stack[i] = Node(key, flags, Size(pos, i), pos[i - 1])
  BY <1>1, StackIs
<1> HIDE DEF stack
<1>6. popcnt(below) = k BY <1>4, StrictCount
<1>7. Base(c) \in Nat BY <1>1, BaseIs
<1>8. stack[m] = NodeOf(n, key, flags, below, top)
  <2>1. stack[m] = Node(key, flags, top, below) BY <1>1, <1>5
  <2>2. Base(below + top) <= n BY <1>2
  <2> HIDE DEF below, top
  <2>3. output_chaining_value(Tree(n, key, flags)[top][below]) = Node(key, flags, top, below)
    BY <1>2, <2>2, NodeIs
  <2> QED BY <2>1, <2>3 DEF NodeOf
<1>9. ASSUME NEW p \in Bits(below) PROVE InPlace(n, key, flags, stack, below, top, p)
  <2>1. Bits(below) = {Size(u, i) : i \in 1 .. k} BY <1>4, StrictBits
  <2>2. PICK i \in 1 .. k : p = Size(u, i) BY <2>1
  <2>3. /\ Cardinality({q \in Bits(below) : q >= p}) = i
        /\ (below \div p - 1) * p = u[i - 1]
    <3> HIDE DEF u, k, below
    <3> QED BY <1>4, <2>2, PlaceOf
  <2>4. i \in 1 .. m /\ i < m /\ i \in 0 .. m /\ k \in 0 .. m /\ i <= k /\ i - 1 \in 0 .. k BY <1>1
  <2>5. u[i - 1] = pos[i - 1] BY <2>4 DEF Under
  <2>6. p = Size(pos, i) BY <1>4, <2>2
  <2>7. /\ pos[i] \in Nat /\ pos[i - 1] \in Nat /\ p \in Nat \ {0} /\ pos[i] = pos[i - 1] + p
        /\ pos[i] <= c
    BY <2>4, <2>6, LayoutFacts
  <2>8. c - pos[i] <= p /\ pos[i] <= below BY <2>4, <2>6 DEF Layout
  <2> HIDE DEF u, k, below, top
  <2>9. p >= top BY <1>1, <1>2, <2>7, <2>8
  <2>10. stack[i] = NodeOf(n, key, flags, pos[i - 1], p)
    <3> DEFINE f == pos[i - 1]
    <3>1. Base(f + p) <= n
      <4>1. Base(pos[i]) <= Base(c) BY <1>1, <2>7, BaseSum
      <4>2. Base(pos[i]) \in Nat BY <2>7, BaseIs
      <4> QED BY <1>7, <2>7, <4>1, <4>2
    <3>2. f \in Nat BY <2>7
    <3>3. stack[i] = Node(key, flags, p, f) BY <1>5, <2>4, <2>6
    <3> HIDE DEF f
    <3>4. output_chaining_value(Tree(n, key, flags)[p][f]) = Node(key, flags, p, f)
      BY <2>7, <3>1, <3>2, NodeIs
    <3>5. stack[i] = NodeOf(n, key, flags, f, p) BY <3>3, <3>4 DEF NodeOf
    <3> QED BY <3>5 DEF f
  <2>11. stack[Cardinality({q \in Bits(below) : q >= p})]
           = NodeOf(n, key, flags, (below \div p - 1) * p, p)
    BY <2>3, <2>5, <2>10, Zenon
  <2> QED BY <2>9, <2>11, Zenon DEF InPlace
<1>10. Len(stack) = popcnt(below) + 1 BY <1>1, <1>5, <1>6
<1>11. TopOver(n, key, flags, stack, below, top)
  <2> HIDE DEF below, top
  <2> QED BY <1>5, <1>8, <1>9, <1>10, Zenon DEF TopOver
<1>12. c - top = below
  <2> HIDE DEF below, top
  <2> QED BY <1>2
<1> QED BY <1>3, <1>11, <1>12 DEF stack

LEMMA OrderIs ==
    ASSUME NEW key, NEW flags, NEW n, NEW c, NEW r, NEW stack, Hashed(key, flags, n, c, r, stack)
    PROVE  Ordered(n, key, flags, c, r, stack)
<1>1. c \in Nat /\ r \in 0 .. CHUNK_LEN /\ n = Base(c) + r /\ CHUNK_LEN \in Nat
  BY Lengths DEF Hashed
<1>2. Base(c) \in Nat BY <1>1, BaseIs
<1>3. n \in Nat /\ Base(c) <= n BY <1>1, <1>2
<1>4. Stacked(key, flags, c, stack) BY HashedStacked
<1>5. PICK pos, m : Layout(pos, m, c) /\ stack = StackOf(key, flags, pos, m) BY <1>4 DEF Stacked
<1>6. m \in Nat /\ (m = 0 => c = 0) BY <1>5 DEF Layout
<1>7. Len(stack) = m BY <1>5, <1>6, StackIs
<1>8. c = 0 => stack = <<>> BY DEF Hashed
<1>9. ASSUME c > 0 PROVE \E top \in PowersTo(c) : TopOver(n, key, flags, stack, c - top, top)
  <2>1. m # 0 BY <1>6, <1>9
  <2> DEFINE top == Size(pos, m)
             below == pos[m - 1]
  <2>2. top \in PowersTo(c) /\ c - top = below BY <1>3, <1>5, <2>1, TopIs
  <2>3. TopOver(n, key, flags, StackOf(key, flags, pos, m), below, top) BY <1>3, <1>5, <2>1, TopIs
  <2> HIDE DEF top, below
  <2>4. TopOver(n, key, flags, stack, c - top, top) BY <1>5, <2>2, <2>3
  <2> QED BY <2>2, <2>4
<1>10. ASSUME r > 0 PROVE Len(stack) = popcnt(c)
  <2>1. PICK q, k : Strict(q, k, c) /\ stack = StackOf(key, flags, q, k) BY <1>10 DEF Hashed, Tidy
  <2>2. k \in Nat BY <2>1 DEF Strict, Layout
  <2>3. Len(stack) = k BY <2>1, <2>2, StackIs
  <2> QED BY <2>1, <2>3, StrictCount
<1>11. Len(stack) <= Cardinality(PowersTo(c)) BY <1>5, <1>7, LayoutDepth
<1> QED BY <1>8, <1>9, <1>10, <1>11 DEF Ordered

-----------------------------------------------------------------------------
(* The behaviour.                                                          *)

\* Between two calls the hasher is the one that has been given so many bytes,
\* however they were cut into pieces.
HashInv ==
    /\ given \in Nat
    /\ Given(hasher.key, hasher.chunk.flags, given, hasher)

LEMMA GivenFields ==
    ASSUME NEW key, NEW flags, NEW n, NEW self, Given(key, flags, n, self)
    PROVE  self.key = key /\ self.chunk.flags = flags
<1>1. PICK c, r, stack : Hashed(key, flags, n, c, r, stack)
                         /\ self = Hasher(key, Canon(key, flags, c, r), stack)
  BY DEF Given
<1> DEFINE chunk == Canon(key, flags, c, r)
<1>2. r \in Nat BY <1>1, Lengths DEF Hashed
<1>3. chunk.flags = flags BY <1>2, CanonFields
<1> HIDE DEF chunk
<1>4. self = Hasher(key, chunk, stack) BY <1>1 DEF chunk
<1>5. self.key = key /\ self.chunk = chunk BY <1>4, HasherFields
<1> QED BY <1>3, <1>5

LEMMA GivenNothing ==
    ASSUME NEW key, NEW flags
    PROVE  Given(key, flags, 0, Hasher(key, Canon(key, flags, 0, 0), <<>>))
<1>1. CHUNK_LEN \in Nat /\ Base(0) = 0 BY Lengths
<1>2. 0 \in 0 .. CHUNK_LEN /\ 0 = Base(0) + 0 BY <1>1
<1>3. Hashed(key, flags, 0, 0, 0, <<>>) BY <1>2 DEF Hashed
<1> QED BY <1>3 DEF Given

LEMMA InitBaseIs ==
    ASSUME NEW key, NEW flags
    PROVE  Given(key, flags, 0, hasher_init_base(key, flags))
<1>1. hasher_init_base(key, flags) = Hasher(key, chunk_state_init(key, flags), <<>>)
  BY Zenon DEF hasher_init_base, Hasher
<1>2. hasher_init_base(key, flags) = Hasher(key, Canon(key, flags, 0, 0), <<>>) BY <1>1, InitIs
<1> QED BY <1>2, GivenNothing

LEMMA GivenInv ==
    ASSUME NEW key, NEW flags, NEW n \in Nat, NEW self, Given(key, flags, n, self)
    PROVE  Given(self.key, self.chunk.flags, n, self)
BY GivenFields

LEMMA ResetGiven ==
    ASSUME NEW key, NEW flags, NEW n, NEW self, Given(key, flags, n, self)
    PROVE  Given(key, flags, 0, blake3_hasher_reset(self))
<1>1. PICK c, r, stack : Hashed(key, flags, n, c, r, stack)
                         /\ self = Hasher(key, Canon(key, flags, c, r), stack)
  BY DEF Given
<1> DEFINE chunk == Canon(key, flags, c, r)
           start == Canon(key, flags, 0, 0)
<1>2. self.key = key /\ self.chunk.flags = flags BY GivenFields
<1> HIDE DEF chunk, start
<1>3. self = Hasher(key, chunk, stack) BY <1>1 DEF chunk
<1>4. chunk_state_reset(self.chunk, self.key, 0) = start BY <1>2, ResetIs DEF start
<1>5. blake3_hasher_reset(self)
        = WithStack(WithChunk(self, chunk_state_reset(self.chunk, self.key, 0)), <<>>)
  BY Zenon DEF blake3_hasher_reset, WithStack, WithChunk
<1>6. WithChunk(Hasher(key, chunk, stack), start) = Hasher(key, start, stack) BY ChunkSet
<1>7. WithStack(Hasher(key, start, stack), <<>>) = Hasher(key, start, <<>>) BY StackSet
<1>8. blake3_hasher_reset(self) = Hasher(key, start, <<>>) BY <1>3, <1>4, <1>5, <1>6, <1>7
<1> QED BY <1>8, GivenNothing DEF start

LEMMA HashInvInductive ==
    /\ Init => HashInv
    /\ HashInv /\ [Next]_vars => HashInv'
<1>1. ASSUME Init PROVE HashInv
  <2>1. hasher \in {blake3_hasher_init, blake3_hasher_init_keyed,
                    blake3_hasher_init_derive_key(features)} /\ given = 0
    BY <1>1 DEF Init
  <2>2. \E key, flags : hasher = hasher_init_base(key, flags)
    <3>1. CASE hasher = blake3_hasher_init BY <3>1 DEF blake3_hasher_init
    <3>2. CASE hasher = blake3_hasher_init_keyed BY <3>2 DEF blake3_hasher_init_keyed
    <3>3. CASE hasher = blake3_hasher_init_derive_key(features)
      <4>1. \E x, f : blake3_hasher_init_derive_key(features) = hasher_init_base(x, f)
        BY Zenon DEF blake3_hasher_init_derive_key
      <4> QED BY <3>3, <4>1
    <3> QED BY <2>1, <3>1, <3>2, <3>3
  <2>3. PICK key, flags : hasher = hasher_init_base(key, flags) BY <2>2
  <2>4. Given(key, flags, 0, hasher) BY <2>3, InitBaseIs
  <2>5. given \in Nat BY <2>1
  <2> QED BY <2>1, <2>4, <2>5, GivenInv DEF HashInv
<1>2. ASSUME HashInv, [Next]_vars PROVE HashInv'
  <2> DEFINE key == hasher.key
             flags == hasher.chunk.flags
  <2>1. given \in Nat /\ Given(key, flags, given, hasher) BY <1>2 DEF HashInv
  <2> HIDE DEF key, flags
  <2>2. ASSUME NEW n \in Pieces, Update(n) PROVE HashInv'
    <3>1. n \in Nat BY PieceAssumption
    <3>2. hasher' = blake3_hasher_update_base(hasher, features, Input(given + 1, given + n))
          /\ given' = given + n
      BY <2>2 DEF Update
    <3>3. Given(key, flags, given + n,
                blake3_hasher_update_base(hasher, features, Input(given + 1, given + n)))
      BY <2>1, <3>1, UpdateBaseIs
    <3>4. Given(key, flags, given', hasher') /\ given' \in Nat BY <2>1, <3>1, <3>2, <3>3
    <3> QED BY <3>4, GivenInv DEF HashInv
  <2>3. CASE Reset
    <3>1. hasher' = blake3_hasher_reset(hasher) /\ given' = 0 BY <2>3 DEF Reset
    <3>2. Given(key, flags, 0, hasher') BY <2>1, <3>1, ResetGiven
    <3>3. given' \in Nat /\ Given(key, flags, given', hasher') BY <3>1, <3>2
    <3> QED BY <3>3, GivenInv DEF HashInv
  <2>4. CASE CallDirectly \/ UNCHANGED vars
    <3>1. hasher' = hasher /\ given' = given BY <2>4 DEF CallDirectly, vars
    <3> QED BY <1>2, <3>1 DEF HashInv
  <2> QED BY <1>2, <2>2, <2>3, <2>4 DEF Next
<1> QED BY <1>1, <1>2

LEMMA HashInvHolds == Spec => []HashInv
BY HashInvInductive, PTL DEF Spec

\* blake3_hasher_finalize_seek after any calls of blake3_hasher_update and
\* blake3_hasher_reset (blake3.c): in every mode, for every length of chunks and
\* blocks, every way to cut the input into pieces and every processor, the bytes read
\* are those of the tree of BLAKE3, from wherever they are read.
THEOREM HashOfTree == Spec => []HashIsTree
<1>1. HashInv => HashIsTree
  <2> SUFFICES ASSUME HashInv, NEW range \in Outputs
               PROVE  blake3_hasher_finalize_seek(hasher, features, range[1], range[2])
                        = TreeHash(given, hasher.key, hasher.chunk.flags, range[1], range[2])
    BY DEF HashIsTree
  <2> DEFINE key == hasher.key
             flags == hasher.chunk.flags
             seek == range[1]
             out_len == range[2]
             root == Root(hasher)
  <2>1. given \in Nat /\ Given(key, flags, given, hasher) BY DEF HashInv
  <2>2. seek \in Nat /\ out_len \in Nat BY PieceAssumption
  <2>3. blake3_hasher_finalize_seek(hasher, features, seek, out_len)
          = output_root_bytes(features, root, seek, out_len)
    BY Zenon DEF blake3_hasher_finalize_seek, Root
  <2> HIDE DEF key, flags, seek, out_len, root
  <2>4. root = Tree(given, key, flags)[Chunks(given)][0] BY <2>1, RootIs DEF root
  <2>5. output_root_bytes(features, root, seek, out_len) = Span(RootOf(root), seek, out_len)
    BY <2>2, RootBytesAre
  <2>6. TreeHash(given, key, flags, seek, out_len)
          = Span(RootOf(Tree(given, key, flags)[Chunks(given)][0]), seek, out_len)
    BY <2>2, TreeHashIs
  <2>7. blake3_hasher_finalize_seek(hasher, features, seek, out_len)
          = TreeHash(given, key, flags, seek, out_len)
    BY <2>3, <2>4, <2>5, <2>6
  <2> QED BY <2>7 DEF key, flags, seek, out_len
<1> QED BY <1>1, HashInvHolds, PTL

\* hasher_push_cv and hasher_merge_cv_stack (blake3.c): the stack holds the complete
\* subtrees of the chunks so far, in order, merged as far as the number of chunks says
\* once a chunk is begun, and is no deeper than that number has bits.
THEOREM StackInOrder == Spec => []StackOrdered
<1>1. HashInv => StackOrdered
  <2> SUFFICES ASSUME HashInv PROVE StackOrdered OBVIOUS
  <2> DEFINE key == hasher.key
             flags == hasher.chunk.flags
             count == hasher.chunk.chunk_counter
             len == chunk_state_len(hasher.chunk)
             all == hasher.cv_stack
  <2>1. StackOrdered <=> Ordered(given, key, flags, count, len, all)
    BY Zenon DEF StackOrdered, Ordered, TopOver, InPlace, NodeOf
  <2>2. Given(key, flags, given, hasher) BY DEF HashInv
  <2> HIDE DEF key, flags, count, len, all
  <2>3. PICK c, r, stack : Hashed(key, flags, given, c, r, stack)
                           /\ hasher = Hasher(key, Canon(key, flags, c, r), stack)
    BY <2>2 DEF Given
  <2> DEFINE chunk == Canon(key, flags, c, r)
  <2>4. r \in Nat BY <2>3, Lengths DEF Hashed
  <2>5. chunk_state_len(chunk) = r /\ chunk.chunk_counter = c BY <2>4, CanonFields
  <2> HIDE DEF chunk
  <2>6. hasher = Hasher(key, chunk, stack) BY <2>3 DEF chunk
  <2>7. hasher.chunk = chunk /\ hasher.cv_stack = stack BY <2>6, HasherFields
  <2>8. count = c /\ len = r /\ all = stack BY <2>5, <2>7 DEF count, len, all
  <2>9. Ordered(given, key, flags, c, r, stack) BY <2>3, OrderIs
  <2> QED BY <2>1, <2>8, <2>9
<1> QED BY <1>1, HashInvHolds, PTL

=============================================================================
