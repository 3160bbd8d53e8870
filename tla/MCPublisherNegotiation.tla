----------------------- MODULE MCPublisherNegotiation -----------------------
(* Instances of PublisherNegotiation for TLC. *)
EXTENDS PublisherNegotiation, TLC

=============================================================================
