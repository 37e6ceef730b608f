----------------------------- MODULE MCRefCell ------------------------------
(* Four threads, as in the test, that write one of four values. *)
EXTENDS RefCell
=============================================================================
