----------------------------- MODULE MCOnceCell -----------------------------
(* Three threads that race to set the cell to one of two values. *)
EXTENDS OnceCell
=============================================================================
