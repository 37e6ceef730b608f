-------------------------------- MODULE KPtr --------------------------------
(***************************************************************************)
(* KPtr<T>: the kernel's counted pointer to an object that fills a frame   *)
(* (kptr.rs), over the retype table of Frames.  refs[f][Kernel] is the     *)
(* number of KPtrs to frame f.  Nothing in the kernel calls                *)
(* try_into_untyped, so no step here does.                                 *)
(***************************************************************************)
EXTENDS Frames

\* object[f]: the value in frame f, "none", "live", "dropped", or "foreign", what
\* the boot loader left there, e.g. the page table in use at boot.
VARIABLE object

kvars == <<vars, object>>

KInit ==
  /\ Init
  /\ object = [f \in Frames |-> IF f \in BootFrames THEN "foreign" ELSE "none"]

\* Mutant: the value is written to a kernel frame that is in use already.
new_from_kernel(a, f) ==
  /\ \/ try_into(a, f, Kernel)
     \/ try_as(a, f, Kernel)
  /\ object' = [object EXCEPT ![f] = "live"]

\* KPtr::new, with new_unchecked: the frame is retyped and the value written.
new(a, f) ==
  /\ try_into(a, f, Kernel)
  /\ object' = [object EXCEPT ![f] = "live"]

\* AnyPageTable::current: from_frame_unchecked of the frame in CR3, which is
\* kernel memory, with an unwrap of its try_as_kernel.
current(a, f) ==
  /\ state_of(table[f]) = Kernel
  /\ \/ try_as(a, f, Kernel)
     \/ Ready(a) /\ get_as_and_increment(table[f], Kernel) = None /\ Panic
  /\ UNCHANGED object

\* Clone: as_kernel_unchecked, then from_frame_unchecked.
clone(a, f) ==
  /\ refs[f][Kernel] > 0
  /\ as_unchecked(a, f, Kernel)
  /\ UNCHANGED object

\* Drop: KernelFrame::drop(self) on the frame of the pointer, ...
drop(a, f) ==
  /\ inherent_drop(a, f, Kernel)
  /\ UNCHANGED object

\* Mutant: the second decrement is not unwrapped.
drop_end_forgiving(a, f) ==
  /\ ~panicked
  /\ \E prev \in 0 .. MAX_REF_COUNT :
       /\ call[a] = Dropping(f, prev)
       /\ object' = IF prev = 1 THEN [object EXCEPT ![f] = "dropped"] ELSE object
  /\ table' = IF decrement(table[f]) = None THEN table
              ELSE [table EXCEPT ![f] = decrement(table[f])]
  /\ call' = [call EXCEPT ![a] = Idle]
  /\ UNCHANGED <<refs, panicked>>

\* ... and, when that returned a count of 1 and did not panic, drop_in_place.
drop_end(a, f) ==
  /\ inherent_drop_end(a, f)
  /\ object' = IF call[a].prev = 1 /\ ~panicked'
               THEN [object EXCEPT ![f] = "dropped"]
               ELSE object

KNext ==
  \E a \in Actors, f \in Frames :
    \/ new(a, f)
    \/ current(a, f)
    \/ clone(a, f)
    \/ drop(a, f)
    \/ drop_end(a, f)

KSpec == KInit /\ [][KNext]_kvars

-----------------------------------------------------------------------------
\* A value is written to a frame only while nothing points to the frame
\* ("Frame is retyped into kernel so no other references to living data
\* exists", KPtr::new).
NoLiveOverwrite ==
  [][\A a \in Actors, f \in Frames : new(a, f) => Live(f) = 0]_kvars

\* A KPtr never dangles: the value it points to is live, or is the boot
\* loader's.  On one core, the second decrement of KernelFrame::drop(self)
\* panics before the value of a frame is dropped in place.
PointsToLive ==
  \A f \in Frames : refs[f][Kernel] > 0 => object[f] \in {"live", "foreign"}
=============================================================================
