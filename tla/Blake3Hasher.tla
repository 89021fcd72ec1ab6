---------------------------- MODULE Blake3Hasher ----------------------------
(***************************************************************************)
(* The incremental hasher of libs/blake3/blake3.c, which hashes the        *)
(* transcripts and keys of the handshake.  Its input is a sequence of      *)
(* bytes, byte number i being i itself.  Update takes it in pieces of any  *)
(* size and hashes the chunks of a piece in the lanes that the processor   *)
(* has; the hash must depend on neither.                                   *)
(***************************************************************************)
EXTENDS Blake3Calls, FiniteSets

CONSTANTS
    CHUNK_LEN,      \* bytes of a chunk, a power of two that BLOCK_LEN divides
    IV,             \* the fixed key; KEY is one of the user
    Pieces,         \* lengths of the pieces of input
    MaxLen,         \* bound on the bytes that are hashed
    Outputs         \* pairs of seek and out_len

ASSUME PieceAssumption ==
    /\ Pieces \subseteq Nat /\ MaxLen \in Nat
    /\ \A range \in Outputs : range[1] \in Nat /\ range[2] \in Nat

VARIABLES
    hasher,         \* a blake3_hasher
    given           \* how many bytes it has been given

vars == <<features, call, hasher, given>>

Least(a, b) == IF a < b THEN a ELSE b

--------------------------------------------------------------------------
(* blake3_impl.h                                                          *)

\* A power of two has no odd divisor but one.
IsPower(p) == p > 0 /\ \A d \in 1 .. p : p % (2 * d + 1) # 0
PowersTo(n) == {p \in 1 .. n : IsPower(p)}

Largest(S) == CHOOSE p \in S : \A q \in S : q <= p

\* A bit stands for its value.
Bits(x) == {p \in PowersTo(x) : (x \div p) % 2 = 1}
highest_one(x) == Largest(Bits(x))
popcnt(x) == Cardinality(Bits(x))
round_down_to_power_of_2(x) == IF x = 0 THEN 1 ELSE highest_one(x)

ASSUME ChunkAssumption ==
    CHUNK_LEN \in Nat /\ IsPower(CHUNK_LEN) /\ CHUNK_LEN % BLOCK_LEN = 0

--------------------------------------------------------------------------
(* The state of the chunk that is being filled.                           *)

Zeros(n) == [i \in 1 .. n |-> 0]

chunk_state_init(key, flags) ==
    [cv |-> key, chunk_counter |-> 0, buf |-> Zeros(BLOCK_LEN), buf_len |-> 0,
     blocks_compressed |-> 0, flags |-> flags]

chunk_state_reset(self, key, chunk_counter) ==
    [chunk_state_init(key, self.flags) EXCEPT !.chunk_counter = chunk_counter]

chunk_state_len(self) == BLOCK_LEN * self.blocks_compressed + self.buf_len

\* How much of the input still fits into buf.
Take(self, input) == Least(BLOCK_LEN - self.buf_len, Len(input))

chunk_state_fill_buf(self, input) ==
    LET take == Take(self, input)
    IN  [self EXCEPT
            !.buf = [i \in 1 .. BLOCK_LEN |-> IF i \in self.buf_len + 1 .. self.buf_len + take
                                             THEN input[i - self.buf_len]
                                             ELSE @[i]],
            !.buf_len = @ + take]

chunk_state_maybe_start_flag(self) ==
    IF self.blocks_compressed = 0 THEN {"CHUNK_START"} ELSE {}

CompressBlock(self, block) ==
    [self EXCEPT
        !.cv = compress(@, block, BLOCK_LEN, Words(self.chunk_counter),
                        self.flags \cup chunk_state_maybe_start_flag(self)),
        !.blocks_compressed = @ + 1]

\* A slip: the buffer keeps the bytes of the block before.
KeptBuffer(self) == [CompressBlock(self, self.buf) EXCEPT !.buf_len = 0]

CompressBuffer(self) ==
    [CompressBlock(self, self.buf) EXCEPT !.buf_len = 0, !.buf = Zeros(BLOCK_LEN)]

Rest(input, n) == SubSeq(input, n + 1, Len(input))

\* Blocks that are not the last are compressed from where they are.
UpdateBlocks(self, input) ==
    LET n == IF input = <<>> THEN 0 ELSE (Len(input) - 1) \div BLOCK_LEN
        block(b) == SubSeq(input, (b - 1) * BLOCK_LEN + 1, b * BLOCK_LEN)
        compressed[b \in 0 .. n] ==
            IF b = 0 THEN self ELSE CompressBlock(compressed[b - 1], block(b))
    IN  chunk_state_fill_buf(compressed[n], Rest(input, n * BLOCK_LEN))

chunk_state_update(self, input) ==
    LET take == Take(self, input)
        filled == chunk_state_fill_buf(self, input)
    IN  IF self.buf_len = 0
        THEN UpdateBlocks(self, input)
        ELSE IF Len(input) > take
        THEN UpdateBlocks(CompressBuffer(filled), Rest(input, take))
        ELSE filled

--------------------------------------------------------------------------
(* Outputs: a last block that is not compressed before it is known        *)
(* whether it is the root.                                                *)

make_output(cv, block, len, counter, flags) ==
    [cv |-> cv, block |-> block, len |-> len, counter |-> counter, flags |-> flags]

output_chaining_value(output) ==
    compress(output.cv, output.block, output.len, Words(output.counter), output.flags)

chunk_state_output(self) ==
    make_output(self.cv, self.buf, self.buf_len, self.chunk_counter,
                self.flags \cup chunk_state_maybe_start_flag(self) \cup {"CHUNK_END"})

parent_output(left, right, key, flags) ==
    make_output(key, <<left, right>>, BLOCK_LEN, 0, flags \cup {"PARENT"})

\* The root is compressed once for each block of output, with the number of
\* the block as the counter.
RootOf(output) == [output EXCEPT !.counter = 0, !.flags = @ \cup {"ROOT"}]

Bytes(block, from, len) == [i \in 1 .. len |-> [block |-> block, offset |-> from + i - 1]]

output_root_bytes(cpu, output, seek, out_len) ==
    LET root == RootOf(output)
        counter == seek \div BLOCK_LEN
        offset == seek % BLOCK_LEN
        first == IF offset = 0 THEN 0 ELSE Least(BLOCK_LEN - offset, out_len)
        next == IF offset = 0 THEN counter ELSE counter + 1
        whole == (out_len - first) \div BLOCK_LEN
        blocks == blake3_xof_many(cpu, root, next, whole)
        last == out_len - first - whole * BLOCK_LEN
    IN  Bytes(OutputBlock(root, Words(counter)), offset, first)
        \o [i \in 1 .. whole * BLOCK_LEN |->
               [block |-> blocks[(i - 1) \div BLOCK_LEN + 1], offset |-> (i - 1) % BLOCK_LEN]]
        \o Bytes(OutputBlock(root, Words(next + whole)), 0, last)

--------------------------------------------------------------------------
(* Subtrees.                                                              *)

left_subtree_len(input_len) ==
    round_down_to_power_of_2((input_len - 1) \div CHUNK_LEN) * CHUNK_LEN

\* A chunk that is hashed by itself.
ChunkOf(input, key, counter, flags) ==
    chunk_state_update([chunk_state_init(key, flags) EXCEPT !.chunk_counter = counter], input)

compress_chunks_parallel(cpu, input, key, counter, flags) ==
    LET n == Len(input) \div CHUNK_LEN
        block(chunk, b) ==
            SubSeq(input, chunk * CHUNK_LEN + (b - 1) * BLOCK_LEN + 1,
                   chunk * CHUNK_LEN + b * BLOCK_LEN)
        chunks == [i \in 1 .. n |-> [b \in 1 .. CHUNK_LEN \div BLOCK_LEN |-> block(i - 1, b)]]
        partial == Rest(input, n * CHUNK_LEN)
    IN  blake3_hash_many(cpu, chunks, key, counter, TRUE,
                         [all |-> flags, start |-> {"CHUNK_START"}, end |-> {"CHUNK_END"}])
        \o IF partial = <<>>
           THEN <<>>
           ELSE << output_chaining_value(chunk_state_output(
                       ChunkOf(partial, key, counter + n, flags))) >>

\* A child that is left over is handed on.
compress_parents_parallel(cpu, cvs, key, flags) ==
    LET n == Len(cvs) \div 2
        parents == [i \in 1 .. n |-> << <<cvs[2 * i - 1], cvs[2 * i]>> >>]
    IN  blake3_hash_many(cpu, parents, key, 0, FALSE,
                         [all |-> flags \cup {"PARENT"}, start |-> {}, end |-> {}])
        \o Rest(cvs, 2 * n)

\* The children write side by side into one array: the right one starts where
\* the left one ends only if that yields degree values.
blake3_compress_subtree_wide(cpu, input, key, counter, flags) ==
    LET wide[len \in 1 .. Len(input)] == [at \in 0 .. Len(input) - len |->
            LET left_len == left_subtree_len(len)
                degree == IF left_len > CHUNK_LEN /\ blake3_simd_degree(cpu) = 1
                          THEN 2
                          ELSE blake3_simd_degree(cpu)
                left == wide[left_len][at]
                right == wide[len - left_len][at + left_len]
                cv_array == [i \in 1 .. degree + Len(right) |->
                                IF i > degree THEN right[i - degree]
                                ELSE IF i <= Len(left) THEN left[i] ELSE "uninitialized"]
            IN  IF len <= blake3_simd_degree(cpu) * CHUNK_LEN
                THEN compress_chunks_parallel(cpu, SubSeq(input, at + 1, at + len), key,
                                              counter + at \div CHUNK_LEN, flags)
                ELSE IF Len(left) = 1
                THEN SubSeq(cv_array, 1, 2)
                ELSE compress_parents_parallel(cpu, SubSeq(cv_array, 1, Len(left) + Len(right)),
                                               key, flags)]
    IN  wide[Len(input)][0]

\* Layer by layer, as long as there are more than two.
Condense(cpu, cvs, key, flags) ==
    LET Layer(below) == IF Len(below) > 2
                        THEN compress_parents_parallel(cpu, below, key, flags)
                        ELSE below
        condensed[i \in 0 .. Len(cvs)] == IF i = 0 THEN cvs ELSE Layer(condensed[i - 1])
    IN  condensed[Len(cvs)]

compress_subtree_to_parent_node(cpu, input, key, counter, flags) ==
    Condense(cpu, blake3_compress_subtree_wide(cpu, input, key, counter, flags), key, flags)

--------------------------------------------------------------------------
(* The hasher.  Its key words are a term of their own.                    *)

hasher_init_base(key, flags) ==
    [key |-> key, chunk |-> chunk_state_init(key, flags), cv_stack |-> <<>>]

\* The two values on top become their parent.
MergeTop(self) ==
    LET n == Len(self.cv_stack)
        output == parent_output(self.cv_stack[n - 1], self.cv_stack[n], self.key, self.chunk.flags)
    IN  [self EXCEPT !.cv_stack = Append(SubSeq(@, 1, n - 2), output_chaining_value(output))]

hasher_merge_cv_stack(self, total_len) ==
    LET excess == Len(self.cv_stack) - popcnt(total_len)
        merged[i \in 0 .. excess] == IF i = 0 THEN self ELSE MergeTop(merged[i - 1])
    IN  IF excess > 0 THEN merged[excess] ELSE self

\* A slip: only update merges.
PushUnmerged(self, new_cv, chunk_counter) == [self EXCEPT !.cv_stack = Append(@, new_cv)]

\* Lazy: the values below are merged, never the new one.
hasher_push_cv(self, new_cv, chunk_counter) ==
    LET merged == hasher_merge_cv_stack(self, chunk_counter)
    IN  [merged EXCEPT !.cv_stack = Append(@, new_cv)]

\* A power of two, halved until the chunks before it leave room for it.
Shrunk(subtree_len, count_so_far) ==
    Largest({p \in PowersTo(subtree_len) : count_so_far % p = 0})

\* The children of a subtree, which may turn out to be the root.
PushBoth(self, pair, counter, chunks) ==
    hasher_push_cv(hasher_push_cv(self, pair[1], counter), pair[2], counter + chunks \div 2)

AddSubtree(self, cpu, input) ==
    LET counter == self.chunk.chunk_counter
        chunks == Len(input) \div CHUNK_LEN
        pushed == IF Len(input) <= CHUNK_LEN
                  THEN hasher_push_cv(self, output_chaining_value(chunk_state_output(
                           ChunkOf(input, self.key, counter, self.chunk.flags))), counter)
                  ELSE PushBoth(self, compress_subtree_to_parent_node(
                                          cpu, input, self.key, counter, self.chunk.flags),
                                counter, chunks)
    IN  [pushed EXCEPT !.chunk.chunk_counter = @ + chunks]

\* One turn of the loop over subtrees, each a chunk at least.
AddNext(cpu, done) ==
    LET subtree_len == Shrunk(round_down_to_power_of_2(Len(done.input)),
                              done.self.chunk.chunk_counter * CHUNK_LEN)
    IN  IF Len(done.input) > CHUNK_LEN
        THEN [self |-> AddSubtree(done.self, cpu, SubSeq(done.input, 1, subtree_len)),
              input |-> Rest(done.input, subtree_len)]
        ELSE done

\* What the loop leaves, at most a chunk.
AddRest(done) ==
    IF done.input # <<>>
    THEN hasher_merge_cv_stack([done.self EXCEPT !.chunk = chunk_state_update(@, done.input)],
                               done.self.chunk.chunk_counter)
    ELSE done.self

AddSubtrees(self, cpu, input) ==
    LET added[i \in 0 .. Len(input) \div CHUNK_LEN] ==
            IF i = 0 THEN [self |-> self, input |-> input] ELSE AddNext(cpu, added[i - 1])
    IN  AddRest(added[Len(input) \div CHUNK_LEN])

blake3_hasher_update_base(self, cpu, input) ==
    LET take == Least(CHUNK_LEN - chunk_state_len(self.chunk), Len(input))
        filled == [self EXCEPT !.chunk = chunk_state_update(@, SubSeq(input, 1, take))]
        counter == self.chunk.chunk_counter
        pushed == hasher_push_cv(filled, output_chaining_value(chunk_state_output(filled.chunk)),
                                 counter)
    IN  IF input = <<>>
        THEN self
        ELSE IF chunk_state_len(self.chunk) = 0
        THEN AddSubtrees(self, cpu, input)
        ELSE IF Len(input) > take
        THEN AddSubtrees([pushed EXCEPT !.chunk = chunk_state_reset(@, self.key, counter + 1)],
                         cpu, Rest(input, take))
        ELSE filled

\* What finalize hashes as the root.
RollUp(self, output, cvs_remaining) ==
    LET rolled[i \in 0 .. cvs_remaining] ==
            IF i = 0
            THEN output
            ELSE parent_output(self.cv_stack[cvs_remaining + 1 - i],
                               output_chaining_value(rolled[i - 1]),
                               self.key, self.chunk.flags)
    IN  rolled[cvs_remaining]

blake3_hasher_finalize_seek(self, cpu, seek, out_len) ==
    LET n == Len(self.cv_stack)
        root == IF n = 0
                THEN chunk_state_output(self.chunk)
                ELSE IF chunk_state_len(self.chunk) > 0
                THEN RollUp(self, chunk_state_output(self.chunk), n)
                ELSE RollUp(self, parent_output(self.cv_stack[n - 1], self.cv_stack[n], self.key,
                                                self.chunk.flags), n - 2)
    IN  output_root_bytes(cpu, root, seek, out_len)

blake3_hasher_reset(self) ==
    [self EXCEPT !.chunk = chunk_state_reset(@, self.key, 0), !.cv_stack = <<>>]

\* The bytes from to to of an input.
Input(from, to) == [i \in 1 .. to - from + 1 |-> from + i - 1]

blake3_hasher_init == hasher_init_base(IV, {})
blake3_hasher_init_keyed == hasher_init_base(KEY, {"KEYED_HASH"})

\* The context, a chunk and a byte long, is hashed by a hasher of its own and
\* 32 bytes of its hash, here a block, are the key.
blake3_hasher_init_derive_key(cpu) ==
    LET context_hasher == blake3_hasher_update_base(
            hasher_init_base(IV, {"DERIVE_KEY_CONTEXT"}), cpu, Input(1, CHUNK_LEN + 1))
    IN  hasher_init_base([words |-> blake3_hasher_finalize_seek(context_hasher, cpu, 0, BLOCK_LEN)],
                         {"DERIVE_KEY_MATERIAL"})

--------------------------------------------------------------------------
(* The behaviour: a program hashes pieces of input, and resets the hasher *)
(* or asks for output in any state.  The vector code is also called       *)
(* directly, with counters that no input here is long enough to reach.    *)

Init ==
    /\ CallsInit
    /\ hasher \in {blake3_hasher_init, blake3_hasher_init_keyed,
                   blake3_hasher_init_derive_key(features)}
    /\ given = 0

Update(n) ==
    /\ given + n <= MaxLen
    /\ hasher' = blake3_hasher_update_base(hasher, features, Input(given + 1, given + n))
    /\ given' = given + n
    /\ Forget

Reset ==
    /\ given > 0
    /\ hasher' = blake3_hasher_reset(hasher)
    /\ given' = 0
    /\ Forget

CallDirectly ==
    /\ given = 0
    /\ call = NoCall
    /\ DirectCall
    /\ UNCHANGED <<hasher, given>>

Next ==
    \/ \E n \in Pieces : Update(n)
    \/ Reset
    \/ CallDirectly

Spec == Init /\ [][Next]_vars

--------------------------------------------------------------------------
(* What the code has to agree with.  BLAKE3 divides a message into chunks *)
(* and hashes them as a binary tree: the left subtree is the largest one  *)
(* that is complete and leaves something for the right.                   *)

LargestPower(n) == Largest(PowersTo(n - 1))

Chunks(n) == IF n = 0 THEN 1 ELSE (n - 1) \div CHUNK_LEN + 1

\* The last block of chunk number j of a message of n bytes.
TreeChunk(j, n, key, flags) ==
    LET len == Least(CHUNK_LEN, n - j * CHUNK_LEN)
        last == IF len = 0 THEN 1 ELSE (len - 1) \div BLOCK_LEN + 1
        byte(i) == IF i < len THEN j * CHUNK_LEN + i + 1 ELSE 0
        output[b \in 1 .. last] ==
            make_output(IF b = 1 THEN key ELSE output_chaining_value(output[b - 1]),
                        [i \in 1 .. BLOCK_LEN |-> byte((b - 1) * BLOCK_LEN + i - 1)],
                        IF b < last THEN BLOCK_LEN ELSE len - (last - 1) * BLOCK_LEN,
                        j,
                        flags \cup (IF b = 1 THEN {"CHUNK_START"} ELSE {})
                              \cup (IF b = last THEN {"CHUNK_END"} ELSE {}))
    IN  output[last]

\* The subtrees of so many chunks from number first on.
Tree(n, key, flags) ==
    LET tree[size \in 1 .. Chunks(n)] == [first \in 0 .. Chunks(n) - size |->
            LET left == LargestPower(size)
            IN  IF size = 1
                THEN TreeChunk(first, n, key, flags)
                ELSE make_output(key,
                         << output_chaining_value(tree[left][first]),
                            output_chaining_value(tree[size - left][first + left]) >>,
                         BLOCK_LEN, 0, flags \cup {"PARENT"})]
    IN  tree

TreeHash(n, key, flags, seek, out_len) ==
    LET root == RootOf(Tree(n, key, flags)[Chunks(n)][0])
        position(i) == seek + i - 1
    IN  [i \in 1 .. out_len |->
            [block |-> OutputBlock(root, Words(position(i) \div BLOCK_LEN)),
             offset |-> position(i) % BLOCK_LEN]]

--------------------------------------------------------------------------
(* Properties.                                                            *)

\* Output read anywhere is the hash of the bytes given, whatever the pieces
\* they came in, the degree of the vector code, the mode, and what was hashed
\* before a reset.  The two ends of a handshake compare hashes that different
\* processors computed (blake3.c).
HashIsTree ==
    \A range \in Outputs :
        blake3_hasher_finalize_seek(hasher, features, range[1], range[2])
            = TreeHash(given, hasher.key, hasher.chunk.flags, range[1], range[2])

\* The stack holds the complete subtrees that the bits of the number of chunks
\* stand for, except that the one on top may still have to be merged with those
\* below; once a chunk is begun they are merged.  So the stack is no deeper than
\* that number has bits, for which blake3.h leaves room (hasher_push_cv,
\* hasher_merge_cv_stack).
StackOrdered ==
    LET stack == hasher.cv_stack
        count == hasher.chunk.chunk_counter
        node(first, size) ==
            output_chaining_value(Tree(given, hasher.key, hasher.chunk.flags)[size][first])
    IN  /\ count = 0 => stack = <<>>
        /\ count > 0 => \E top \in PowersTo(count) :
              LET below == count - top
              IN  /\ Len(stack) = popcnt(below) + 1
                  /\ stack[Len(stack)] = node(below, top)
                  /\ \A p \in Bits(below) :
                        /\ p >= top
                        /\ stack[Cardinality({q \in Bits(below) : q >= p})]
                             = node((below \div p - 1) * p, p)
        /\ chunk_state_len(hasher.chunk) > 0 => Len(stack) = popcnt(count)
        /\ Len(stack) <= Cardinality(PowersTo(count))

=============================================================================
