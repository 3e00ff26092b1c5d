---------------------------- MODULE MCBridgePeer ----------------------------
(***************************************************************************)
(* BridgePeer for TLC: the objects besides Root are alike.                 *)
(***************************************************************************)
EXTENDS BridgePeer, TLC

Symmetry == Permutations(Objects \ {Root})

=============================================================================
