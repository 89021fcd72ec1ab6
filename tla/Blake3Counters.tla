--------------------------- MODULE Blake3Counters ---------------------------
(***************************************************************************)
(* The 64-bit counter of libs/blake3 enters the compression function as    *)
(* two words.  The vector code computes them for all lanes at once and     *)
(* finds the carry into the high word without 64-bit sums.                 *)
(***************************************************************************)
EXTENDS Naturals

CONSTANT Word   \* modulus of a word: 2^32 in the code

\* The widest vector has sixteen lanes; the high bit is a bit.
ASSUME WordAssumption == Word \in Nat /\ Word % 2 = 0 /\ Word >= 32

Lane == 0 .. 15

counter_low(counter) == counter % Word
counter_high(counter) == (counter \div Word) % Word
Words(counter) == <<counter_low(counter), counter_high(counter)>>

\* What lane i adds to the counter.
Delta(increment_counter, i) == IF increment_counter THEN i ELSE 0

\* A slip: the carry is lost.
NoCarry(counter, increment_counter, i) ==
    <<(counter_low(counter) + Delta(increment_counter, i)) % Word, counter_high(counter)>>

\* SSE2, SSE4.1, AVX2: there was a carry if the sum is less than what was added.
load_counters(counter, increment_counter, i) ==
    LET low == (counter_low(counter) + Delta(increment_counter, i)) % Word
        carry == IF Delta(increment_counter, i) > low THEN 1 ELSE 0
    IN  <<low, (counter_high(counter) + carry) % Word>>

\* AVX-512 with 16 lanes: there was a carry if the high bit was set before
\* the addition and is not set after it.
load_counters16(counter, increment_counter, i) ==
    LET high_bit(w) == w >= Word \div 2
        low == (counter_low(counter) + Delta(increment_counter, i)) % Word
        carry == IF high_bit(counter_low(counter)) /\ ~high_bit(low) THEN 1 ELSE 0
    IN  <<low, (counter_high(counter) + carry) % Word>>

\* NEON, and AVX-512 with fewer lanes: 64-bit sums.
load_counters4(counter, increment_counter, i) ==
    Words(counter + Delta(increment_counter, i))
=============================================================================
