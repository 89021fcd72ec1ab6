------------------------------ MODULE MCBlake3 ------------------------------
(* An instance with short blocks and narrow words, and one processor for  *)
(* each path through the dispatch.                                        *)
EXTENDS Blake3Hasher

MCProcessors ==
    LET sse == {"sse2", "ssse3", "sse41"}
        avx2 == sse \cup {"osxsave", "ymm saved", "avx", "leaf 7", "avx2"}
    IN  { {},
          {"sse2"},
          sse,
          avx2 \ {"osxsave"},
          avx2,
          avx2 \cup {"avx512vl", "avx512f"},
          avx2 \cup {"avx512vl", "zmm saved"},
          avx2 \cup {"avx512vl", "avx512f", "zmm saved"},
          {"neon"} }

\* From the start, across a block, and across the carry of the counter in one
\* pass of sixteen blocks.
MCOutputs == { <<0, 2>>, <<3, 5>>, <<2 * 30 + 1, 36>> }
=============================================================================
