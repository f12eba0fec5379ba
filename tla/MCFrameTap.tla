----------------------------- MODULE MCFrameTap -----------------------------
(***************************************************************************)
(* Two requests, so that one waits for the other, and one exception.       *)
(***************************************************************************)
EXTENDS FrameTap
=============================================================================
