----------------------------- MODULE FrameState -----------------------------
(***************************************************************************)
(* The states of a physical frame in the retype table (enum State of       *)
(* retyping.rs, with the discriminants the table encodes).                 *)
(***************************************************************************)
EXTENDS Integers

Unavailable == 0
Untyped == 1
User == 2
Kernel == 3

State == {Unavailable, Untyped, User, Kernel}

\* The states of which a UserFrame or a KernelFrame is a reference.
Kinds == {User, Kernel}
=============================================================================
