---------------------------- MODULE MCPeerTrust ----------------------------
(***************************************************************************)
(* Instances of PeerTrust for TLC: two Bots, of which beta answers         *)
(* requests by itself when it may.                                         *)
(***************************************************************************)
EXTENDS PeerTrust

CONSTANTS alpha, beta
=============================================================================
