---------------------------- MODULE MCHandshake ----------------------------
(* Handshake on every memory model, with every legal choice of orderings. *)
EXTENDS Handshake

MCModels    == AllModels
MCOrderings == LegalOrderings
=============================================================================
