------------------------------ MODULE MCI8042 ------------------------------
(***************************************************************************)
(* Small instances of the keyboard controller for TLC.  The constants are  *)
(* in the configurations: one key whose scancode has two bytes, a mouse    *)
(* frame of two bytes.                                                     *)
(***************************************************************************)
EXTENDS I8042
=============================================================================
