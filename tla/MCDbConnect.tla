---------------------------- MODULE MCDbConnect ----------------------------
(* An instance of DbConnect for TLC: its constants are model values. *)
EXTENDS DbConnect
=============================================================================
