----------------------------- MODULE MCPeerPair -----------------------------
(* PeerPair on a small instance: the left end's first call is forwarded, and  *)
(* its handler asks back.                                                     *)
EXTENDS PeerPair, TLC

Forwarded == "left" :> {"l1", "l2"} @@ "right" :> {"r1"}
AskBack == "l1" :> "r1"
=============================================================================
