----------------------------- MODULE MCPeerLink -----------------------------
(* PeerLink on small instances: the constants are set in the .cfg files. *)
EXTENDS PeerLink, TLC

Symmetry == Permutations(Calls)
=============================================================================
