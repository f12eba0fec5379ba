----------------------------- MODULE MCPic8259 -----------------------------
(* The controllers with two lines each. *)
EXTENDS Pic8259

\* The secondary controller is initialized in single mode without ICW4.
SomeInits == {<<"s", TRUE, FALSE>>}
=============================================================================
