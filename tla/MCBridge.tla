------------------------------ MODULE MCBridge ------------------------------
(* The bridge with a few concurrent calls. *)
EXTENDS Bridge
=============================================================================
