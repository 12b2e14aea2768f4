---------------------------- MODULE MCSendBlock -----------------------------
(* Instance of SendBlock for TLC. *)
EXTENDS SendBlock
=============================================================================
