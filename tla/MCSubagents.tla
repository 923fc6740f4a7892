---------------------------- MODULE MCSubagents ----------------------------
(***************************************************************************)
(* Instances of Subagents for TLC: the constants are model values, given   *)
(* in the configurations.                                                  *)
(***************************************************************************)
EXTENDS Subagents
=============================================================================
