------------------------------- MODULE Frames -------------------------------
(***************************************************************************)
(* The retype table in use: the operations of RawFrame, UserFrame and      *)
(* KernelFrame (retyping.rs) by several actors (cores).                    *)
(*                                                                         *)
(* A typed reference is a live UserFrame or KernelFrame, or the RawFrame   *)
(* that into_raw leaves of one (a KPtr, a page table entry) and from_raw   *)
(* takes back; into_raw and from_raw therefore change nothing here.  Every *)
(* access to an entry is one atomic step.  A call the entry refuses        *)
(* returns an error and changes nothing, so only refusals that panic, or   *)
(* that a caller acts upon, are steps.                                     *)
(***************************************************************************)
EXTENDS RetypeEntry

CONSTANTS Actors,
          Frames,        \* the frames retype_map has an entry for
          UsableFrames,  \* those RetypeTable::new sets to untyped
          BootFrames,    \* those RetypeTable::new sets to kernel(1)
          RefBound       \* bound on the references to a frame

ASSUME FramesAssumption ==
  /\ UsableFrames \subseteq Frames
  /\ BootFrames \subseteq Frames
  /\ UsableFrames \cap BootFrames = {}

ASSUME RefBoundAssumption == RefBound \in Nat

VARIABLES
  table,     \* table[f]: the word of frame f
  refs,      \* refs[f][k]: the live references of kind k to frame f
  call,      \* call[a]: what is left of the operation actor a is in
  panicked   \* an unwrap or an assertion failed: the kernel stopped

vars == <<table, refs, call, panicked>>

Idle == [op |-> "idle"]
\* try_into_untyped after its exchange from User failed
Untyping(f) == [op |-> "untype", frame |-> f]
\* the inherent drop(self) after its own decrement returned prev
Dropping(f, prev) == [op |-> "drop", frame |-> f, prev |-> prev]

Calls == {Idle} \cup {Untyping(f) : f \in Frames}
                \cup {Dropping(f, c) : f \in Frames, c \in 0 .. MAX_REF_COUNT}

BootRefs(f) == IF f \in BootFrames THEN 1 ELSE 0

\* All references to f: those of the program and the one the table counts
\* for the kernel image and the boot loader.
Live(f) == refs[f][User] + refs[f][Kernel] + BootRefs(f)

InitialWord(f) ==
  IF f \in UsableFrames THEN value_for(Untyped, 0)
  ELSE IF f \in BootFrames THEN value_for(Kernel, 1)
       ELSE value_for(Unavailable, 0)

Init ==
  /\ table = [f \in Frames |-> InitialWord(f)]
  /\ refs = [f \in Frames |-> [k \in Kinds |-> 0]]
  /\ call = [a \in Actors |-> Idle]
  /\ panicked = FALSE

Ready(a) == ~panicked /\ call[a] = Idle

\* unwrap of a refused update
Panic ==
  /\ panicked' = TRUE
  /\ UNCHANGED <<table, refs, call>>

\* The entry of f takes the value the update returned, and the caller the
\* new reference.
Grant(f, k, word) ==
  /\ Live(f) < RefBound
  /\ word # None
  /\ table' = [table EXCEPT ![f] = word]
  /\ refs' = [refs EXCEPT ![f][k] = @ + 1]
  /\ UNCHANGED <<call, panicked>>

-----------------------------------------------------------------------------
\* try_into_user, try_into_kernel
try_into(a, f, k) ==
  /\ Ready(a)
  /\ Grant(f, k, retype(table[f], Untyped, k, 0, 1))

\* try_as_user, try_as_kernel
try_as(a, f, k) ==
  /\ Ready(a)
  /\ Grant(f, k, get_as_and_increment(table[f], k))

\* as_user_unchecked, as_kernel_unchecked: the first conjunct after Ready is
\* their safety contract.
as_unchecked(a, f, k) ==
  /\ Ready(a)
  /\ state_of(table[f]) = k
  /\ \/ Grant(f, k, increment(table[f]))
     \/ increment(table[f]) = None /\ Panic

\* UserFrame::try_clone, KernelFrame::try_clone
try_clone(a, f, k) ==
  /\ Ready(a)
  /\ refs[f][k] > 0
  /\ Grant(f, k, increment(table[f]))

\* Mutant: the destructor forgets the reference and keeps its count.
forget_ref(a, f, k) ==
  /\ Ready(a)
  /\ refs[f][k] > 0
  /\ refs' = [refs EXCEPT ![f][k] = @ - 1]
  /\ UNCHANGED <<table, call, panicked>>

\* A UserFrame or a KernelFrame goes out of scope (impl Drop).
drop_ref(a, f, k) ==
  /\ Ready(a)
  /\ refs[f][k] > 0
  /\ IF decrement(table[f]) = None
     THEN Panic
     ELSE /\ table' = [table EXCEPT ![f] = decrement(table[f])]
          /\ refs' = [refs EXCEPT ![f][k] = @ - 1]
          /\ UNCHANGED <<call, panicked>>

-----------------------------------------------------------------------------
\* try_into_untyped_from: the exchange, or the debug assertion that an
\* unavailable frame has no references.
UntypeFrom(f, from) == retype(table[f], from, Untyped, 0, 0)

UnavailableAssertFails(f) ==
  state_of(table[f]) = Unavailable /\ counter_of(table[f]) # 0

\* try_into_untyped, the exchange from User
try_into_untyped(a, f) ==
  /\ Ready(a)
  /\ IF UntypeFrom(f, User) # None
     THEN /\ table' = [table EXCEPT ![f] = UntypeFrom(f, User)]
          /\ UNCHANGED <<refs, call, panicked>>
     ELSE /\ call' = [call EXCEPT ![a] = Untyping(f)]
          /\ panicked' = UnavailableAssertFails(f)
          /\ UNCHANGED <<table, refs>>

\* try_into_untyped, the exchange from Kernel after the one from User failed
try_into_untyped_kernel(a, f) ==
  /\ ~panicked
  /\ call[a] = Untyping(f)
  /\ call' = [call EXCEPT ![a] = Idle]
  /\ IF UntypeFrom(f, Kernel) # None
     THEN /\ table' = [table EXCEPT ![f] = UntypeFrom(f, Kernel)]
          /\ UNCHANGED <<refs, panicked>>
     ELSE /\ panicked' = UnavailableAssertFails(f)
          /\ UNCHANGED <<table, refs>>

-----------------------------------------------------------------------------
\* UserFrame::drop(self), KernelFrame::drop(self): the decrement of the
\* function's body
inherent_drop(a, f, k) ==
  /\ Ready(a)
  /\ refs[f][k] > 0
  /\ IF decrement(table[f]) = None
     THEN Panic
     ELSE /\ table' = [table EXCEPT ![f] = decrement(table[f])]
          /\ refs' = [refs EXCEPT ![f][k] = @ - 1]
          /\ call' = [call EXCEPT ![a] = Dropping(f, counter_of(table[f]))]
          /\ UNCHANGED panicked

\* self goes out of scope at the end of the function, and impl Drop
\* decrements a second time.
inherent_drop_end(a, f) ==
  /\ ~panicked
  /\ \E prev \in 0 .. MAX_REF_COUNT : call[a] = Dropping(f, prev)
  /\ IF decrement(table[f]) = None
     THEN Panic
     ELSE /\ table' = [table EXCEPT ![f] = decrement(table[f])]
          /\ call' = [call EXCEPT ![a] = Idle]
          /\ UNCHANGED <<refs, panicked>>

-----------------------------------------------------------------------------
Typed(a, f) ==
  \E k \in Kinds :
    \/ try_into(a, f, k)
    \/ try_as(a, f, k)
    \/ as_unchecked(a, f, k)
    \/ try_clone(a, f, k)
    \/ drop_ref(a, f, k)

\* The operations with one reference count change per reference.
Next ==
  \E a \in Actors, f \in Frames :
    \/ Typed(a, f)
    \/ try_into_untyped(a, f)
    \/ try_into_untyped_kernel(a, f)

Spec == Init /\ [][Next]_vars

\* The whole interface: with the inherent drop(self).
ApiNext ==
  \E a \in Actors, f \in Frames :
    \/ Typed(a, f)
    \/ try_into_untyped(a, f)
    \/ try_into_untyped_kernel(a, f)
    \/ \E k \in Kinds : inherent_drop(a, f, k)
    \/ inherent_drop_end(a, f)

ApiSpec == Init /\ [][ApiNext]_vars

-----------------------------------------------------------------------------
\* The words of the table stay 16-bit words whose state value_into knows: no
\* update of a counter overflows or underflows the word.
TypeOK ==
  /\ table \in [Frames -> Word]
  /\ refs \in [Frames -> [Kinds -> Nat]]
  /\ call \in [Actors -> Calls]
  /\ panicked \in BOOLEAN

\* The count of every entry is the number of references to its frame.
CountExact == \A f \in Frames : counter_of(table[f]) = Live(f)

\* A frame has the type of each of its references: it does not change type
\* underneath a UserFrame, a KernelFrame or a KPtr.
HandleTyped ==
  \A f \in Frames, k \in Kinds : refs[f][k] > 0 => state_of(table[f]) = k

\* The frames of the kernel image and of the boot loader stay kernel memory.
BootFramesStayKernel == \A f \in BootFrames : state_of(table[f]) = Kernel

\* No unwrap of an increment or of a decrement fails.
NeverPanics == ~panicked

\* Even where counts go wrong, an entry never counts more references than
\* exist, so no frame is kept typed for ever by a reference that is gone.
NoOverCount == \A f \in Frames : counter_of(table[f]) <= Live(f)

\* A frame is typed only from untyped, and leaves a type only for untyped
\* with a count of 0; what increments and decrements do to the word never
\* reaches its state bits.
StateChange(old, new) ==
  \/ state_of(new) = state_of(old)
  \/ /\ counter_of(old) = 0
     /\ \/ state_of(old) = Untyped /\ state_of(new) \in Kinds
        \/ state_of(old) \in Kinds /\ state_of(new) = Untyped

OnlyThroughUntyped == [][\A f \in Frames : StateChange(table[f], table'[f])]_vars

\* The table keeps the promise of FrameTyping about the references that exist.
Promise == INSTANCE FrameTyping WITH
  type <- [f \in Frames |-> state_of(table[f])],
  refs <- [f \in Frames |-> Live(f)]

PromiseKept == Promise!Spec
=============================================================================
