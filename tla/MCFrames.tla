------------------------------ MODULE MCFrames ------------------------------
(* Instances of Frames for TLC: two actors, usable frames, a frame of the    *)
(* boot loader and a frame nobody may have.                                  *)
EXTENDS Frames

CONSTANTS a1, a2, f1, f2, fb, fx
=============================================================================
