---------------------------- MODULE MCCtrlCommand ----------------------------
(* CtrlCommand for TLC. *)
EXTENDS CtrlCommand
==============================================================================
