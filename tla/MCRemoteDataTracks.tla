--------------------------- MODULE MCRemoteDataTracks ---------------------------
(* Instances of RemoteDataTracks for TLC. *)
EXTENDS RemoteDataTracks, TLC

=============================================================================
