--------------------------- MODULE MCDataTrackPackets ---------------------------
(* Instances of DataTrackPackets for TLC. *)
EXTENDS DataTrackPackets, TLC

=============================================================================
