---------------------------- MODULE MCPicEvents ----------------------------
(* The event queue with a handful of entries and short ticks. *)
EXTENDS PicEvents

\* one handler with two values, and another one
SomeEvents == {<<"kbd", 0>>, <<"kbd", 1>>, <<"vga", 0>>}
=============================================================================
