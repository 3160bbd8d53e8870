---------------------------- MODULE MCRtcEngine ----------------------------
(* The instance of RtcEngine for TLC.  The sessions and operations of the  *)
(* configuration are model values; temporal properties are among those it  *)
(* checks, so it declares no symmetry.                                     *)
EXTENDS RtcEngine, TLC

=============================================================================
