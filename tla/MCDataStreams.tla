----------------------------- MODULE MCDataStreams -----------------------------
(* Instances of DataStreams for TLC. *)
EXTENDS DataStreams, TLC

=============================================================================
