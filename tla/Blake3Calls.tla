---------------------------- MODULE Blake3Calls ----------------------------
(***************************************************************************)
(* The vector code of libs/blake3 called by itself, on any processor, with *)
(* any number of inputs or output blocks and with counters that no input   *)
(* is long enough to reach in a run of the hasher.                         *)
(***************************************************************************)
EXTENDS Blake3Lanes

CONSTANTS
    Processors,     \* what the processors report to get_cpu_features
    KEY,            \* the key words
    ManyInputs,     \* how many inputs hash_many or blocks xof_many is called with
    Counters        \* and the counters

ASSUME CallAssumption == ManyInputs \subseteq Nat /\ Counters \subseteq Nat

VARIABLES
    features,       \* g_cpu_features
    call            \* the last call and its result

calls_vars == <<features, call>>

NoCall == [fn |-> "none"]

CallsInit ==
    /\ \E cpu \in Processors : features = get_cpu_features(cpu)
    /\ call = NoCall

\* Anything else the program does.
Forget == call' = NoCall /\ UNCHANGED features

Call(result) == call' = result /\ UNCHANGED features

\* The inputs are told apart by their only block.
Inputs(n) == [i \in 1 .. n |-> <<i>>]

ManyFlags == [all |-> {}, start |-> {"CHUNK_START"}, end |-> {"CHUNK_END"}]

CallHashMany(n, counter, increment_counter) ==
    Call([fn |-> "hash_many", n |-> n, counter |-> counter,
          increment_counter |-> increment_counter,
          out |-> blake3_hash_many(features, Inputs(n), KEY, counter, increment_counter,
                                   ManyFlags)])

CallXofMany(n, counter) ==
    Call([fn |-> "xof_many", n |-> n, counter |-> counter,
          out |-> blake3_xof_many(features, KEY, counter, n)])

CallCompress == Call([fn |-> "compress", mixing |-> blake3_compress_in_place(features)])

CallLanes == \E code \in LaneCode(features) : Call([fn |-> "lanes", code |-> code])

DirectCall ==
    \/ \E n \in ManyInputs, counter \in Counters :
          \/ \E increment_counter \in BOOLEAN : CallHashMany(n, counter, increment_counter)
          \/ CallXofMany(n, counter)
    \/ CallCompress
    \/ CallLanes

CallsSpec == CallsInit /\ [][DirectCall \/ Forget]_calls_vars

--------------------------------------------------------------------------
(* What the rounds have to agree with.                                    *)

\* One word of the message moves to place i from place Permutation[i + 1]
\* between two rounds.
Permutation == <<2, 6, 3, 10, 7, 0, 4, 13, 1, 11, 12, 5, 9, 14, 15, 8>>

Message[r \in Rounds] ==
    IF r = 0 THEN [i \in 0 .. 15 |-> i]
    ELSE [i \in 0 .. 15 |-> Message[r - 1][Permutation[i + 1]]]

\* A round mixes the columns of the state and then its diagonals.
Mixing ==
    LET word(k, row, diagonal) == 4 * row + ((k + row * diagonal) % 4)
        step(r, diagonal, half) ==
            {Mix(word(k, 0, diagonal), word(k, 1, diagonal), word(k, 2, diagonal),
                 word(k, 3, diagonal), Message[r][8 * diagonal + 2 * k + half],
                 IF half = 0 THEN <<16, 12>> ELSE <<8, 7>>) : k \in Quad}
    IN  [r \in Rounds |-> <<step(r, 0, 0), step(r, 0, 1), step(r, 1, 0), step(r, 1, 1)>>]

--------------------------------------------------------------------------
(* Properties.                                                            *)

HashManyExact ==
    call.fn = "hash_many" =>
        call.out = [i \in 1 .. call.n |->
                       hash_one(<<i>>, KEY,
                                Words(call.counter
                                      + (IF call.increment_counter THEN i - 1 ELSE 0)),
                                ManyFlags)]

XofManyExact ==
    call.fn = "xof_many" =>
        call.out = [i \in 1 .. call.n |-> OutputBlock(KEY, Words(call.counter + i - 1))]

\* However its inputs are spread over passes and lanes, hash_many hashes each
\* with its own counter, and xof_many numbers the blocks of its output one by one,
\* carries into the high word included.
CallsExact == HashManyExact /\ XofManyExact

\* The C code written for each instruction set mixes the same words in the same
\* order as the specification of BLAKE3, loads every word of a block into the lane
\* of its input and stores every word of a state for it (the row and lane code).
RoundsAgree ==
    /\ call.fn = "compress" => call.mixing = Mixing
    /\ call.fn = "lanes" =>
          /\ call.code.mixing = Mixing
          /\ \A w \in DOMAIN call.code.loaded :
                \A i \in DOMAIN call.code.loaded[w] : call.code.loaded[w][i] = <<i, w>>
          /\ \A i \in DOMAIN call.code.stored :
                \A w \in DOMAIN call.code.stored[i] : call.code.stored[i][w] = <<i, w>>
=============================================================================
