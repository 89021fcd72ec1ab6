------------------------------- MODULE MCVpn --------------------------------
(***************************************************************************)
(* Vpn.tla for model checking.  Clients are interchangeable, and so are    *)
(* indices.                                                                *)
(***************************************************************************)
EXTENDS Vpn, TLC

VpnSymmetry == Permutations(Client) \cup Permutations(Index)
=============================================================================
