------------------------------- MODULE MCKPtr -------------------------------
(* Instances of KPtr for TLC: the one core of the kernel, frames to put      *)
(* objects in and the frame of the page table the boot loader set up.        *)
EXTENDS KPtr

CONSTANTS a1, f1, f2, fb
=============================================================================
