---------------------------- MODULE MC_RemoteLink ----------------------------
(* RemoteLink for TLC: the peers are model values, interchangeable in the  *)
(* safety-only runs.                                                       *)
EXTENDS RemoteLink, TLC

CONSTANTS a, b

MCPeers == {a, b}

PeerSymmetry == Permutations(MCPeers)
=============================================================================
