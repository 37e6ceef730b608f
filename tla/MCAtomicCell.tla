---------------------------- MODULE MCAtomicCell ----------------------------
(* Three threads and a value of two one-bit fields. *)
EXTENDS AtomicCell

MCInitial == [i \in Fields |-> CHOOSE w \in Words : TRUE]
=============================================================================
