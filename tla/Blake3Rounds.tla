---------------------------- MODULE Blake3Rounds ----------------------------
(***************************************************************************)
(* The data flow of the compression function of libs/blake3.  The state    *)
(* has sixteen words and so has the message; both are numbered from 0.     *)
(* The portable code mixes four words at a time.  The row code keeps the   *)
(* state in four vectors of four words and permutes the words of the       *)
(* message from round to round.  The lane code hashes several inputs at    *)
(* once, one in each lane of sixteen vectors, and has to transpose what it *)
(* loads and stores.  The additions, xors and rotations themselves are     *)
(* left out: a word stands for itself wherever it is moved to.             *)
(***************************************************************************)
EXTENDS Naturals, Sequences

Rounds == 0 .. 6
Quad == 0 .. 3

MSG_SCHEDULE ==
    << << 0,  1,  2,  3,  4,  5,  6,  7,  8,  9, 10, 11, 12, 13, 14, 15>>,
       << 2,  6,  3, 10,  7,  0,  4, 13,  1, 11, 12,  5,  9, 14, 15,  8>>,
       << 3,  4, 10, 12, 13,  2,  7, 14,  6,  5,  9,  0, 11, 15,  8,  1>>,
       <<10,  7, 12,  9, 14,  3, 13, 15,  4,  0, 11,  2,  5,  8,  1,  6>>,
       <<12, 13,  9, 11, 15, 10, 14,  8,  7,  2,  5,  3,  0,  1,  6,  4>>,
       << 9, 14, 11,  5,  8, 12, 15,  1, 13,  3,  0, 10,  2,  6,  4,  7>>,
       <<11, 15,  5,  0,  1,  9,  8,  6, 14, 10,  2, 12,  3,  4,  7, 13>> >>

Scheduled(r, i) == MSG_SCHEDULE[r + 1][i + 1]

\* Half a g: two additions, two xors and the rotations by 16 and 12 or by 8
\* and 7.  A step is the set of the four that do not depend on each other.
Mix(a, b, c, d, x, rotations) == [words |-> <<a, b, c, d>>, x |-> x, rotations |-> rotations]
First == <<16, 12>>
Second == <<8, 7>>

--------------------------------------------------------------------------
(* The portable code.                                                     *)

Columns == << <<0, 4, 8, 12>>, <<1, 5, 9, 13>>, <<2, 6, 10, 14>>, <<3, 7, 11, 15>> >>
Diagonals == << <<0, 5, 10, 15>>, <<1, 6, 11, 12>>, <<2, 7, 8, 13>>, <<3, 4, 9, 14>> >>

\* The four calls of g on the columns, whose message words start at number
\* base of the schedule, or on the diagonals.
g(calls, r, base) ==
    << {Mix(calls[k][1], calls[k][2], calls[k][3], calls[k][4],
            Scheduled(r, base + 2 * (k - 1)), First) : k \in 1 .. 4},
       {Mix(calls[k][1], calls[k][2], calls[k][3], calls[k][4],
            Scheduled(r, base + 2 * (k - 1) + 1), Second) : k \in 1 .. 4} >>

compress_pre_portable == [r \in Rounds |-> g(Columns, r, 0) \o g(Diagonals, r, 8)]

--------------------------------------------------------------------------
(* The row code of SSE2, SSE4.1 and AVX-512.  A vector is a function from *)
(* Quad; the arguments of the shuffles are those of _MM_SHUFFLE, highest  *)
(* element first.                                                         *)

Load(first) == [i \in Quad |-> first + i]

shuffle_ps2(a, b, z, y, x, w) ==
    [i \in Quad |-> CASE i = 0 -> a[w] [] i = 1 -> a[x] [] i = 2 -> b[y] [] i = 3 -> b[z]]
shuffle_epi32(a, z, y, x, w) == shuffle_ps2(a, a, z, y, x, w)

\* The unpack instructions work on groups of four words, whatever the width.
unpacklo_epi32(a, b) ==
    [i \in DOMAIN a |-> LET from == 4 * (i \div 4) + (i % 4) \div 2
                        IN  IF i % 2 = 0 THEN a[from] ELSE b[from]]
unpackhi_epi32(a, b) ==
    [i \in DOMAIN a |-> LET from == 4 * (i \div 4) + 2 + (i % 4) \div 2
                        IN  IF i % 2 = 0 THEN a[from] ELSE b[from]]
unpacklo_epi64(a, b) == [i \in DOMAIN a |-> IF i % 4 < 2 THEN a[i] ELSE b[i - 2]]
unpackhi_epi64(a, b) == [i \in DOMAIN a |-> IF i % 4 < 2 THEN a[i + 2] ELSE b[i]]

\* Two bits of imm8 for each word.
BothBits(imm8, i) == (imm8 \div <<1, 4, 16, 64>>[i + 1]) % 4 = 3
mm_blend_epi16(a, b, imm8) == [i \in Quad |-> IF BothBits(imm8, i) THEN b[i] ELSE a[i]]

\* SSE2 has no blend instruction: a 16-bit lane is taken from b where the
\* masked imm8 equals the bit of the lane.
blend_epi16(a, b, imm8) ==
    LET from_b(lane) == (imm8 \div <<1, 2, 4, 8, 16, 32, 64, 128>>[lane + 1]) % 2 = 1
    IN  [i \in Quad |-> CASE from_b(2 * i) /\ from_b(2 * i + 1) -> b[i]
                          [] ~from_b(2 * i) /\ ~from_b(2 * i + 1) -> a[i]
                          [] OTHER -> <<a[i], b[i]>>]

diagonalize(rows) ==
    [rows EXCEPT ![0] = shuffle_epi32(rows[0], 2, 1, 0, 3),
                 ![3] = shuffle_epi32(rows[3], 1, 0, 3, 2),
                 ![2] = shuffle_epi32(rows[2], 0, 3, 2, 1)]

\* A slip: the rows are rotated on instead of back.
RotatedOn(rows) == diagonalize(rows)

undiagonalize(rows) ==
    [rows EXCEPT ![0] = shuffle_epi32(rows[0], 0, 3, 2, 1),
                 ![3] = shuffle_epi32(rows[3], 1, 0, 3, 2),
                 ![2] = shuffle_epi32(rows[2], 2, 1, 0, 3)]

\* g1 and g2.
MixRows(rows, t, rotations) ==
    {Mix(rows[0][i], rows[1][i], rows[2][i], rows[3][i], t[i], rotations) : i \in Quad}

\* What the rounds add: m are the vectors the round before has left.
FirstMessages(m) ==
    << shuffle_ps2(m[1], m[2], 2, 0, 2, 0),
       shuffle_ps2(m[1], m[2], 3, 1, 3, 1),
       shuffle_epi32(shuffle_ps2(m[3], m[4], 2, 0, 2, 0), 2, 1, 0, 3),
       shuffle_epi32(shuffle_ps2(m[3], m[4], 3, 1, 3, 1), 2, 1, 0, 3) >>

LaterMessages(m, blend(_, _, _)) ==
    << shuffle_epi32(shuffle_ps2(m[1], m[2], 3, 1, 1, 2), 0, 3, 2, 1),
       blend(shuffle_epi32(m[1], 0, 0, 3, 3), shuffle_ps2(m[3], m[4], 3, 3, 2, 2), 204),
       shuffle_epi32(blend(unpacklo_epi64(m[4], m[2]), m[3], 192), 1, 3, 2, 0),
       shuffle_epi32(unpacklo_epi32(m[3], unpackhi_epi32(m[2], m[4])), 0, 1, 3, 2) >>

RowRounds(blend(_, _, _)) ==
    LET messages[r \in Rounds] ==
            IF r = 0
            THEN FirstMessages([k \in 1 .. 4 |-> Load(4 * (k - 1))])
            ELSE LaterMessages(messages[r - 1], blend)
        rows[r \in Rounds] ==           \* before round r
            IF r = 0
            THEN [k \in Quad |-> Load(4 * k)]
            ELSE undiagonalize(diagonalize(rows[r - 1]))
    IN  [r \in Rounds |->
            << MixRows(rows[r], messages[r][1], First),
               MixRows(rows[r], messages[r][2], Second),
               MixRows(diagonalize(rows[r]), messages[r][3], First),
               MixRows(diagonalize(rows[r]), messages[r][4], Second) >>]

compress_pre_sse2 == RowRounds(blend_epi16)
compress_pre_sse41 == RowRounds(mm_blend_epi16)
compress_pre_avx512 == RowRounds(mm_blend_epi16)

--------------------------------------------------------------------------
(* The lane code: word w of the states of all lanes is vector w.  A word  *)
(* that is loaded is a pair of the number of its input and its own.       *)

\* The four calls that round_fn interleaves, first on columns, then on
\* diagonals.
round_fn ==
    [r \in Rounds |->
        << {Mix(k, 4 + k, 8 + k, 12 + k, Scheduled(r, 2 * k), First) : k \in Quad},
           {Mix(k, 4 + k, 8 + k, 12 + k, Scheduled(r, 2 * k + 1), Second) : k \in Quad},
           {Mix(k, 4 + ((k + 1) % 4), 8 + ((k + 2) % 4), 12 + ((k + 3) % 4),
                Scheduled(r, 8 + 2 * k), First) : k \in Quad},
           {Mix(k, 4 + ((k + 1) % 4), 8 + ((k + 2) % 4), 12 + ((k + 3) % 4),
                Scheduled(r, 9 + 2 * k), Second) : k \in Quad} >>]

\* Vectors first .. first + 3, interleaved by words and then by pairs.
Interleaved(vecs, first) ==
    LET ab_lo == unpacklo_epi32(vecs[first], vecs[first + 1])
        ab_hi == unpackhi_epi32(vecs[first], vecs[first + 1])
        cd_lo == unpacklo_epi32(vecs[first + 2], vecs[first + 3])
        cd_hi == unpackhi_epi32(vecs[first + 2], vecs[first + 3])
    IN  [q \in Quad |-> CASE q = 0 -> unpacklo_epi64(ab_lo, cd_lo)
                          [] q = 1 -> unpackhi_epi64(ab_lo, cd_lo)
                          [] q = 2 -> unpacklo_epi64(ab_hi, cd_hi)
                          [] q = 3 -> unpackhi_epi64(ab_hi, cd_hi)]

transpose_vecs_128(vecs) == Interleaved(vecs, 0)

\* _mm256_permute2x128_si256 with 0x20 and with 0x31.
permute2x128_lo(a, b) == [i \in 0 .. 7 |-> IF i < 4 THEN a[i] ELSE b[i - 4]]
permute2x128_hi(a, b) == [i \in 0 .. 7 |-> IF i < 4 THEN a[i + 4] ELSE b[i]]

transpose_vecs_256(vecs) ==
    LET abcd == Interleaved(vecs, 0)
        efgh == Interleaved(vecs, 4)
    IN  [v \in 0 .. 7 |-> IF v < 4 THEN permute2x128_lo(abcd[v], efgh[v])
                                   ELSE permute2x128_hi(abcd[v - 4], efgh[v - 4])]

\* Every other group of four words of a, then of b.
EveryOther(a, b, odd) ==
    [i \in 0 .. 15 |-> LET from == 8 * ((i \div 4) % 2) + 4 * odd + (i % 4)
                       IN  IF i < 8 THEN a[from] ELSE b[from]]
unpack_lo_128(a, b) == EveryOther(a, b, 0)
unpack_hi_128(a, b) == EveryOther(a, b, 1)

transpose_vecs_512(vecs) ==
    LET halves(first) ==        \* abcdefgh and ijklmnop
            [v \in 0 .. 7 |->
                IF v < 4
                THEN unpack_lo_128(Interleaved(vecs, first)[v], Interleaved(vecs, first + 4)[v])
                ELSE unpack_hi_128(Interleaved(vecs, first)[v - 4],
                                   Interleaved(vecs, first + 4)[v - 4])]
    IN  [v \in 0 .. 15 |-> IF v < 8 THEN unpack_lo_128(halves(0)[v], halves(8)[v])
                                    ELSE unpack_hi_128(halves(0)[v - 8], halves(8)[v - 8])]

\* NEON: the 2x2 matrices in the corners first, then their halves.
vtrnq_u32(a, b) ==
    [val \in {0, 1} |-> [i \in Quad |-> IF i % 2 = 0 THEN a[i + val] ELSE b[i - 1 + val]]]

transpose_vecs_neon(vecs) ==
    LET rows01 == vtrnq_u32(vecs[0], vecs[1])
        rows23 == vtrnq_u32(vecs[2], vecs[3])
        low(a, b) == [i \in Quad |-> IF i < 2 THEN a[i] ELSE b[i - 2]]
        high(a, b) == [i \in Quad |-> IF i < 2 THEN a[i + 2] ELSE b[i]]
    IN  [v \in Quad |-> IF v < 2 THEN low(rows01[v], rows23[v])
                                 ELSE high(rows01[v - 2], rows23[v - 2])]

\* transpose_msg_vecs: the words of a block of each of n inputs, n words of
\* one input in a vector, transposed n vectors at a time.
transpose_msg_vecs(n, transpose(_)) ==
    LET group(k) == [v \in 0 .. n - 1 |-> [i \in 0 .. n - 1 |-> <<v, n * k + i>>]]
    IN  [w \in 0 .. 15 |-> transpose(group(w \div n))[w % n]]

\* What is stored for each lane, of which there are n: count words, of
\* sixteen if there are fewer than lanes.
Stored(n, count, transpose(_)) ==
    LET group(k) == [v \in 0 .. n - 1 |-> [i \in 0 .. n - 1 |->
                        IF n * k + v < count THEN <<i, n * k + v>> ELSE <<>>]]
    IN  [lane \in 0 .. n - 1 |->
            [w \in 0 .. count - 1 |-> transpose(group(w \div n))[lane][w % n]]]

Hash(n, transpose(_)) ==
    [loaded |-> transpose_msg_vecs(n, transpose), mixing |-> round_fn,
     stored |-> Stored(n, 8, transpose)]

\* The blocks of the extendable output have the same message in all lanes.
Xof(n, transpose(_)) ==
    [loaded |-> [w \in 0 .. 15 |-> [i \in 0 .. n - 1 |-> <<i, w>>]], mixing |-> round_fn,
     stored |-> Stored(n, 16, transpose)]

hash4_sse2 == Hash(4, transpose_vecs_128)
hash4_sse41 == Hash(4, transpose_vecs_128)
hash8_avx2 == Hash(8, transpose_vecs_256)
hash4_avx512 == Hash(4, transpose_vecs_128)
hash8_avx512 == Hash(8, transpose_vecs_256)
hash16_avx512 == Hash(16, transpose_vecs_512)
hash4_neon == Hash(4, transpose_vecs_neon)
xof4_avx512 == Xof(4, transpose_vecs_128)
xof8_avx512 == Xof(8, transpose_vecs_256)
xof16_avx512 == Xof(16, transpose_vecs_512)
=============================================================================
