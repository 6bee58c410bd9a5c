------------------------------ MODULE MCDesktop ------------------------------
(* The desktop application with two bridges. *)
EXTENDS Desktop
=============================================================================
