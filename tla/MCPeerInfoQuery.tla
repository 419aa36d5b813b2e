--------------------------- MODULE MCPeerInfoQuery ---------------------------
(***************************************************************************)
(* Instantiates PeerInfoQuery for TLC.                                     *)
(***************************************************************************)
EXTENDS PeerInfoQuery

\* Peer IDs and public keys are compared only for equality.
QuerySymmetry == Permutations(Pids) \cup Permutations(Pks)

=============================================================================
