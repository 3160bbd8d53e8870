--------------------------- MODULE MCReliableData ---------------------------
(* The instance of ReliableData for TLC.  Publications are model values;   *)
(* temporal properties are among those it checks, so it declares no        *)
(* symmetry.                                                               *)
EXTENDS ReliableData, TLC

=============================================================================
