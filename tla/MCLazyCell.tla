----------------------------- MODULE MCLazyCell -----------------------------
(* Four threads that access a lazy cell. *)
EXTENDS LazyCell
=============================================================================
