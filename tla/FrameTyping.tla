---------------------------- MODULE FrameTyping ----------------------------
(***************************************************************************)
(* What the retype table promises (docs/Memory Management.md, "General     *)
(* Design"): every frame is untyped, user or kernel memory, or not the     *)
(* kernel's to hand out; it is typed only from the untyped state, by       *)
(* somebody who becomes its only reference; and it goes back to untyped    *)
(* only when nobody refers to it any more.                                 *)
(***************************************************************************)
EXTENDS FrameState

CONSTANTS Frames,        \* the physical frames the table covers
          UsableFrames,  \* those the memory map gives as USABLE
          BootFrames     \* those of the kernel and of the boot loader

VARIABLES type, refs

BootRefs(f) == IF f \in BootFrames THEN 1 ELSE 0

InitialState(f) ==
  IF f \in UsableFrames THEN Untyped
  ELSE IF f \in BootFrames THEN Kernel ELSE Unavailable

Init ==
  /\ type = [f \in Frames |-> InitialState(f)]
  /\ refs = [f \in Frames |-> BootRefs(f)]

\* An untyped frame becomes memory of kind k with one reference.
Retype(f, k) ==
  /\ type[f] = Untyped
  /\ refs[f] = 0
  /\ type' = [type EXCEPT ![f] = k]
  /\ refs' = [refs EXCEPT ![f] = 1]

\* Somebody takes one more reference to a typed frame.
Acquire(f) ==
  /\ type[f] \in Kinds
  /\ refs' = [refs EXCEPT ![f] = @ + 1]
  /\ UNCHANGED type

\* A reference is given back; the boot loader's is nobody's to give back.
Release(f) ==
  /\ type[f] \in Kinds
  /\ refs[f] > BootRefs(f)
  /\ refs' = [refs EXCEPT ![f] = @ - 1]
  /\ UNCHANGED type

\* A frame nobody refers to becomes untyped again.
Untype(f) ==
  /\ type[f] \in Kinds
  /\ refs[f] = 0
  /\ type' = [type EXCEPT ![f] = Untyped]
  /\ UNCHANGED refs

Next ==
  \E f \in Frames :
    \/ \E k \in Kinds : Retype(f, k)
    \/ Acquire(f)
    \/ Release(f)
    \/ Untype(f)

Spec == Init /\ [][Next]_<<type, refs>>
=============================================================================
