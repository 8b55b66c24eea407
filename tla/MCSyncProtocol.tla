--------------------------- MODULE MCSyncProtocol ---------------------------
(* SyncProtocol for TLC: the sets and bounds are in the .cfg files. *)
EXTENDS SyncProtocol, TLC

ClientSymmetry == Permutations(Clients)
=============================================================================
