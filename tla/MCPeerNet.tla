----------------------------- MODULE MCPeerNet -----------------------------
(***************************************************************************)
(* The instance of PeerNet: two peers that connect to each other, and a    *)
(* third that waits for the first with the second.                         *)
(***************************************************************************)
EXTENDS PeerNet

CONSTANTS p1, p2, p3

MCPeers == {p1, p2, p3}
MCKnows == {<<p1, p2>>, <<p2, p1>>, <<p3, p1>>}
=============================================================================
