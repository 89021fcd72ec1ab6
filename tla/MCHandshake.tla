---------------------------- MODULE MCHandshake -----------------------------
(***************************************************************************)
(* TLC instance of Handshake.  NewIndex draws indices at random, so they   *)
(* are interchangeable.                                                    *)
(***************************************************************************)
EXTENDS Handshake, TLC

IndexSymmetry == Permutations(Index)
=============================================================================
