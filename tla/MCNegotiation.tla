--------------------------- MODULE MCNegotiation ---------------------------
(* Instances of Negotiation for TLC: MACs are small numbers, "" is 0. *)
EXTENDS Negotiation
=============================================================================
