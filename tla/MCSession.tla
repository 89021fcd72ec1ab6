----------------------------- MODULE MCSession ------------------------------
(***************************************************************************)
(* TLC instance of Session.  The modulus, the limit and the window are     *)
(* scaled down together, so that counters reach the limit and packets      *)
(* leave the window within a few steps.                                    *)
(***************************************************************************)
EXTENDS Session
=============================================================================
