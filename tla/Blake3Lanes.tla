---------------------------- MODULE Blake3Lanes ----------------------------
(***************************************************************************)
(* hash_many of libs/blake3, which hashes equally long inputs side by side *)
(* in the lanes of vector registers, and the choice of the implementation. *)
(* What the rounds yield is a term that can only be compared;              *)
(* Blake3Rounds has their data flow.  These are the C sources.  For amd64  *)
(* CMakeLists.txt builds the assembly files, with the same functions, in   *)
(* place of the SSE2, SSE4.1, AVX2 and AVX-512 ones.                       *)
(***************************************************************************)
EXTENDS Blake3Counters, Blake3Rounds

CONSTANT BLOCK_LEN  \* bytes of a block

ASSUME BlockAssumption == BLOCK_LEN \in Nat \ {0}

compress(cv, block, len, words, flags) ==
    [cv |-> cv, block |-> block, len |-> len, counter |-> words, flags |-> flags]

--------------------------------------------------------------------------
(* blake3_dispatch.c.  The NEON code is chosen when the program is built  *)
(* for ARM, which features says like the rest.                            *)

\* What cpuid and xgetbv report: instructions, and registers that the
\* operating system saves.  A build for amd64 takes SSE2 for granted.
get_cpu_features(cpu) ==
    LET has(bits, feature) == IF bits \subseteq cpu THEN {feature} ELSE {}
        avx == {"osxsave", "ymm saved"}
        avx512 == avx \cup {"leaf 7", "zmm saved"}
    IN  IF "neon" \in cpu
        THEN {"NEON"}
        ELSE has({"sse2"}, "SSE2") \cup has({"ssse3"}, "SSSE3") \cup has({"sse41"}, "SSE41")
             \cup has(avx \cup {"avx"}, "AVX")
             \cup has(avx \cup {"leaf 7", "avx2"}, "AVX2")
             \cup has(avx512 \cup {"avx512vl"}, "AVX512VL")
             \cup has(avx512 \cup {"avx512f"}, "AVX512F")

AVX512 == {"AVX512F", "AVX512VL"}

blake3_simd_degree(features) ==
    IF AVX512 \subseteq features THEN 16
    ELSE IF "AVX2" \in features THEN 8
    ELSE IF features \cap {"SSE41", "SSE2", "NEON"} # {} THEN 4
    ELSE 1

\* The rounds of compress_in_place and of compress_xof.
blake3_compress_in_place(features) ==
    IF "AVX512VL" \in features THEN compress_pre_avx512
    ELSE IF "SSE41" \in features THEN compress_pre_sse41
    ELSE IF "SSE2" \in features THEN compress_pre_sse2
    ELSE compress_pre_portable

--------------------------------------------------------------------------
(* hash_many.  An input is a sequence of blocks.                          *)

\* hash_one: the blocks of one input are chained, starting from the key.
hash_one(blocks, key, words, flags) ==
    LET n == Len(blocks)
        chain[b \in 0 .. n] ==
            IF b = 0
            THEN key
            ELSE compress(chain[b - 1], blocks[b], BLOCK_LEN, words,
                          flags.all \cup (IF b = 1 THEN flags.start ELSE {})
                                    \cup (IF b = n THEN flags.end ELSE {}))
    IN  chain[n]

\* How many inputs each implementation hashes in one pass.  What the AVX2 code
\* has left of its passes of eight goes to the SSE4.1 code.
Widths ==
    [portable |-> {1}, sse2 |-> {1, 4}, sse41 |-> {1, 4}, avx2 |-> {1, 4, 8},
     avx512 |-> {1, 4, 8, 16}, neon |-> {1, 4}]

\* The loops take the widest pass that there are inputs left for.
Width(code, left) ==
    CHOOSE w \in Widths[code] : w <= left /\ \A v \in Widths[code] : v <= left => v <= w

\* Inputs that are hashed alone have the counter itself.
CounterOfLane(code, width, counter, increment_counter, i) ==
    IF width = 1
    THEN Words(counter)
    ELSE IF code \in {"sse2", "sse41", "avx2"}
    THEN load_counters(counter, increment_counter, i)
    ELSE IF width = 16
    THEN load_counters16(counter, increment_counter, i)
    ELSE load_counters4(counter, increment_counter, i)

HashMany(code, inputs, key, counter, increment_counter, flags) ==
    LET total == Len(inputs)
        lane(left, i) ==        \* the output of lane i when so many are left
            LET first == total - left
            IN  hash_one(inputs[first + i], key,
                         CounterOfLane(code, Width(code, left),
                                       counter + Delta(increment_counter, first),
                                       increment_counter, i - 1),
                         flags)
        hashed[left \in 0 .. total] ==      \* the outputs of the last inputs
            IF left = 0
            THEN <<>>
            ELSE [i \in 1 .. Width(code, left) |-> lane(left, i)]
                 \o hashed[left - Width(code, left)]
    IN  hashed[total]

blake3_hash_many_portable(inputs, key, counter, increment_counter, flags) ==
    HashMany("portable", inputs, key, counter, increment_counter, flags)

blake3_hash_many_sse2(inputs, key, counter, increment_counter, flags) ==
    HashMany("sse2", inputs, key, counter, increment_counter, flags)

blake3_hash_many_sse41(inputs, key, counter, increment_counter, flags) ==
    HashMany("sse41", inputs, key, counter, increment_counter, flags)

blake3_hash_many_avx2(inputs, key, counter, increment_counter, flags) ==
    HashMany("avx2", inputs, key, counter, increment_counter, flags)

blake3_hash_many_avx512(inputs, key, counter, increment_counter, flags) ==
    HashMany("avx512", inputs, key, counter, increment_counter, flags)

blake3_hash_many_neon(inputs, key, counter, increment_counter, flags) ==
    HashMany("neon", inputs, key, counter, increment_counter, flags)

blake3_hash_many(features, inputs, key, counter, increment_counter, flags) ==
    IF AVX512 \subseteq features
    THEN blake3_hash_many_avx512(inputs, key, counter, increment_counter, flags)
    ELSE IF "AVX2" \in features
    THEN blake3_hash_many_avx2(inputs, key, counter, increment_counter, flags)
    ELSE IF "SSE41" \in features
    THEN blake3_hash_many_sse41(inputs, key, counter, increment_counter, flags)
    ELSE IF "SSE2" \in features
    THEN blake3_hash_many_sse2(inputs, key, counter, increment_counter, flags)
    ELSE IF "NEON" \in features
    THEN blake3_hash_many_neon(inputs, key, counter, increment_counter, flags)
    ELSE blake3_hash_many_portable(inputs, key, counter, increment_counter, flags)

\* The lane code that hash_many and xof_many run.
LaneCode(features) ==
    (IF AVX512 \subseteq features THEN {hash4_avx512, hash8_avx512, hash16_avx512}
     ELSE IF "AVX2" \in features THEN {hash8_avx2, hash4_sse41}
     ELSE IF "SSE41" \in features THEN {hash4_sse41}
     ELSE IF "SSE2" \in features THEN {hash4_sse2}
     ELSE IF "NEON" \in features THEN {hash4_neon}
     ELSE {})
    \cup (IF "AVX512VL" \in features THEN {xof4_avx512, xof8_avx512, xof16_avx512} ELSE {})

--------------------------------------------------------------------------
(* Extendable output: output blocks of the root, numbered from counter.   *)

OutputBlock(output, words) == [root |-> output, counter |-> words]

\* Passes as in hash_many; the others compress block by block.
blake3_xof_many_avx512(output, counter, outblocks) ==
    LET lane(left, i) ==
            OutputBlock(output, CounterOfLane("avx512", Width("avx512", left),
                                              counter + outblocks - left, TRUE, i - 1))
        written[left \in 0 .. outblocks] ==
            IF left = 0
            THEN <<>>
            ELSE [i \in 1 .. Width("avx512", left) |-> lane(left, i)]
                 \o written[left - Width("avx512", left)]
    IN  written[outblocks]

blake3_xof_many(features, output, counter, outblocks) ==
    IF "AVX512VL" \in features
    THEN blake3_xof_many_avx512(output, counter, outblocks)
    ELSE [i \in 1 .. outblocks |-> OutputBlock(output, Words(counter + i - 1))]
=============================================================================
