--------------------------- MODULE MCSignalClient ---------------------------
(* Instances of SignalClient for TLC. *)
EXTENDS SignalClient, TLC

=============================================================================
