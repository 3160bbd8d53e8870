--------------------------- MODULE MCLocalDataTracks ---------------------------
(* Instances of LocalDataTracks for TLC. *)
EXTENDS LocalDataTracks, TLC

=============================================================================
