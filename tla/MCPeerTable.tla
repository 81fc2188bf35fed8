----------------------------- MODULE MCPeerTable -----------------------------
(* One peer, whose every packet can be lost, late, early or repeated.        *)
EXTENDS PeerTable
=============================================================================
