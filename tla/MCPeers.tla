------------------------------- MODULE MCPeers -------------------------------
(***************************************************************************)
(* Calls, with a block or without, while the connections of a peer come    *)
(* and go.                                                                 *)
(***************************************************************************)
EXTENDS PeerManager, TLC

CONSTANTS c1, c2, c3, n1, n2

=============================================================================
