----------------------------- MODULE KPtrProofs -----------------------------
(***************************************************************************)
(* What holds of KPtrs for any number of actors, frames and references.    *)
(***************************************************************************)
EXTENDS KPtr, FramesProofs

\* Every operation on KPtrs is, on the retype table, an operation of its
\* interface; the panic of AnyPageTable::current on a full counter is that of
\* as_kernel_unchecked.
LEMMA KPtrUsesTheInterface == TypeOK /\ [KNext]_kvars => [ApiNext]_vars
  <1>1. ASSUME TypeOK, NEW a \in Actors, NEW f \in Frames,
               new(a, f) \/ current(a, f) \/ clone(a, f) \/ drop(a, f) \/ drop_end(a, f)
        PROVE  ApiNext
    <2>1. Kernel \in Kinds
      BY DEF Kinds
    <2>2. new(a, f) \/ clone(a, f) => Typed(a, f)
      BY <2>1 DEF new, clone, Typed
    <2>3. current(a, f) => Typed(a, f)
      <3>1. CASE try_as(a, f, Kernel)
        BY <2>1, <3>1 DEF Typed
      <3>2. get_as_and_increment(table[f], Kernel) = None /\ state_of(table[f]) = Kernel
              => increment(table[f]) = None
        <4>1. table[f] \in Word
          BY <1>1 DEF TypeOK
        <4>2. counter_of(table[f]) <= MAX_REF_COUNT
          BY <4>1, MaxRefCountAssumption DEF Word, Span, counter_of
        <4>3. counter_of(table[f]) \in Nat
          BY <4>1, MaxRefCountAssumption DEF Word, Span, counter_of
        <4>4. ASSUME NEW c \in Nat PROVE value_for(Kernel, c) # None
          BY MaxRefCountAssumption DEF value_for, Span, Kernel, None
        <4>5. QED
          BY <4>2, <4>3, <4>4, MaxRefCountAssumption DEF get_as_and_increment, increment
      <3>3. QED
        BY <2>1, <3>1, <3>2 DEF current, as_unchecked, Typed
    <2>4. drop(a, f) => \E k \in Kinds : inherent_drop(a, f, k)
      BY <2>1 DEF drop
    <2>5. drop_end(a, f) => inherent_drop_end(a, f)
      BY DEF drop_end
    <2>6. QED
      BY <1>1, <2>2, <2>3, <2>4, <2>5 DEF ApiNext
  <1>2. TypeOK /\ KNext => ApiNext
    BY <1>1 DEF KNext
  <1>3. UNCHANGED kvars => UNCHANGED vars
    BY DEF kvars
  <1>4. QED
    BY <1>2, <1>3

\* KPtrs behave, on the retype table, as its interface allows: what is proved
\* of the interface holds of them.
THEOREM KPtrImplementsInterface == KSpec => ApiSpec
  <1>1. KInit => Init
    BY DEF KInit
  <1>2. QED
    BY <1>1, InitialType, ApiStepType, KPtrUsesTheInterface, PTL DEF KSpec, ApiSpec

\* Creating, cloning and dropping KPtrs never leaves an entry that counts more
\* references than exist, although dropping one counts twice.
THEOREM KPtrNeverOverCounts == KSpec => []NoOverCount
  BY KPtrImplementsInterface, NeverOverCounted, PTL

\* The type a KPtr writes its value into was untyped memory that nothing
\* referred to: retyping checks the count (KPtr::new).
LEMMA RetypedWhenUnreferenced ==
  ASSUME TypeOK, NEW a \in Actors, NEW f \in Frames, new(a, f)
  PROVE  state_of(table[f]) = Untyped /\ counter_of(table[f]) = 0
  <1>1. retype(table[f], Untyped, Kernel, 0, 1) # None
    BY DEF new, try_into, Grant
  <1>2. table[f] = value_for(Untyped, 0)
    BY <1>1 DEF retype
  <1>3. 0 \in 0 .. MAX_REF_COUNT /\ 0 # MAX_REF_COUNT /\ Untyped \in State
    BY MaxRefCountAssumption DEF State
  <1>4. QED
    BY <1>2, <1>3, ValueFor

\* The inductive invariant behind NoLiveOverwrite: nothing refers to untyped
\* memory.  It holds of KPtrs although their counts may be too low, because
\* the kernel never untypes a frame.
UntypedUnreferenced == \A f \in Frames : state_of(table[f]) = Untyped => Live(f) = 0

\* Taking a reference leaves the frame typed; dropping one, or a count, leaves
\* its state alone.
LEMMA KPtrStep ==
  ASSUME TypeOK, UntypedUnreferenced, KNext
  PROVE  UntypedUnreferenced'
  <1>1. PICK a \in Actors, f \in Frames :
          new(a, f) \/ current(a, f) \/ clone(a, f) \/ drop(a, f) \/ drop_end(a, f)
    BY DEF KNext
  <1>2. /\ table[f] \in Word
        /\ Live(f) \in Nat
        /\ refs[f][User] \in Nat /\ refs[f][Kernel] \in Nat /\ BootRefs(f) \in {0, 1}
    BY LiveNat DEF TypeOK
  <1>3. UNCHANGED <<table, refs>> => UntypedUnreferenced'
    BY SameRefs DEF UntypedUnreferenced
  <1>4. ASSUME NEW w \in Word, Grant(f, Kernel, w), state_of(w) = Kernel
        PROVE  UntypedUnreferenced'
    <2>1. Kernel \in Kinds /\ Kernel # Untyped
      BY DEF Kinds, Kernel, Untyped
    <2>2. \A g \in Frames : g # f => Live(g)' = Live(g)
      BY <1>4, <2>1, TakeRef, Zenon DEF Grant
    <2>3. table' = [table EXCEPT ![f] = w]
      BY <1>4 DEF Grant
    <2>4. QED
      BY <1>4, <2>1, <2>2, <2>3 DEF UntypedUnreferenced, TypeOK
  <1>5. CASE new(a, f)
    <2>1. Grant(f, Kernel, retype(table[f], Untyped, Kernel, 0, 1))
      BY <1>5 DEF new, try_into
    <2>2. retype(table[f], Untyped, Kernel, 0, 1) = value_for(Kernel, 1)
      BY <2>1 DEF Grant, retype
    <2>3. 1 \in 0 .. MAX_REF_COUNT /\ 1 # MAX_REF_COUNT /\ Kernel \in State
      BY MaxRefCountAssumption DEF State
    <2>4. QED
      BY <1>4, <2>1, <2>2, <2>3, ValueFor
  <1>6. CASE current(a, f)
    <2>1. CASE Grant(f, Kernel, get_as_and_increment(table[f], Kernel))
      <3>1. get_as_and_increment(table[f], Kernel) # None /\ Kernel \in State
        BY <2>1 DEF Grant, State
      <3>2. /\ get_as_and_increment(table[f], Kernel) \in Word
            /\ state_of(get_as_and_increment(table[f], Kernel)) = Kernel
        BY <1>2, <3>1, GetAs DEF Kinds
      <3>3. QED
        BY <1>4, <2>1, <3>2
    <2>2. QED
      BY <1>3, <1>6, <2>1 DEF current, try_as, Panic
  <1>7. CASE clone(a, f)
    <2>1. CASE Grant(f, Kernel, increment(table[f]))
      <3>1. increment(table[f]) # None /\ state_of(table[f]) = Kernel
        BY <1>7, <2>1 DEF clone, as_unchecked, Grant
      <3>2. increment(table[f]) \in Word /\ state_of(increment(table[f])) = Kernel
        BY <1>2, <3>1, Increment
      <3>3. QED
        BY <1>4, <2>1, <3>2
    <2>2. QED
      BY <1>3, <1>7, <2>1 DEF clone, as_unchecked, Panic
  <1>8. CASE drop(a, f)
    <2>1. CASE decrement(table[f]) = None
      BY <1>3, <1>8, <2>1 DEF drop, inherent_drop, Panic
    <2>2. CASE decrement(table[f]) # None
      <3>1. /\ table' = [table EXCEPT ![f] = decrement(table[f])]
            /\ refs' = [refs EXCEPT ![f][Kernel] = @ - 1]
            /\ refs[f][Kernel] > 0
        BY <1>8, <2>2 DEF drop, inherent_drop
      <3>2. \A g \in Frames : g # f => Live(g)' = Live(g)
        BY <3>1, GiveRef, Zenon DEF Kinds
      <3>3. Live(f) # 0
        BY <1>2, <3>1 DEF Live
      <3>4. state_of(table'[f]) = state_of(table[f])
        BY <1>2, <2>2, <3>1, Decrement DEF TypeOK
      <3>5. QED
        BY <3>1, <3>2, <3>3, <3>4 DEF UntypedUnreferenced, TypeOK
    <2>3. QED
      BY <2>1, <2>2
  <1>9. CASE drop_end(a, f)
    <2>1. CASE decrement(table[f]) = None
      BY <1>3, <1>9, <2>1 DEF drop_end, inherent_drop_end, Panic
    <2>2. CASE decrement(table[f]) # None
      <3>1. table' = [table EXCEPT ![f] = decrement(table[f])] /\ UNCHANGED refs
        BY <1>9, <2>2 DEF drop_end, inherent_drop_end
      <3>2. state_of(table'[f]) = state_of(table[f])
        BY <1>2, <2>2, <3>1, Decrement DEF TypeOK
      <3>3. QED
        BY <3>1, <3>2, SameRefs DEF UntypedUnreferenced, TypeOK
    <2>3. QED
      BY <2>1, <2>2
  <1>10. QED
    BY <1>1, <1>5, <1>6, <1>7, <1>8, <1>9

\* Nothing refers to the untyped frames of the table RetypeTable::new builds.
LEMMA UntypedUnreferencedAtBoot == Init => UntypedUnreferenced
  <1> SUFFICES ASSUME Init, NEW f \in Frames, state_of(table[f]) = Untyped
               PROVE  Live(f) = 0
    BY DEF UntypedUnreferenced
  <1>1. f \notin BootFrames
    BY InitialWords DEF Init, Kernel, Untyped
  <1>2. QED
    BY <1>1 DEF Init, Live, BootRefs, Kinds

\* KPtr::new never writes over a value that something points to, for any
\* number of actors, frames and references.
THEOREM NewNeverOverwrites == KSpec => NoLiveOverwrite
  <1>1. TypeOK /\ UntypedUnreferenced /\ [KNext]_kvars => UntypedUnreferenced'
    <2>1. UNCHANGED kvars /\ UntypedUnreferenced => UntypedUnreferenced'
      BY SameRefs DEF kvars, vars, UntypedUnreferenced
    <2>2. QED
      BY <2>1, KPtrStep
  <1>2. KInit => UntypedUnreferenced
    BY UntypedUnreferencedAtBoot DEF KInit
  <1>3. TypeOK /\ UntypedUnreferenced
          => [\A a \in Actors, f \in Frames : new(a, f) => Live(f) = 0]_kvars
    BY RetypedWhenUnreferenced DEF UntypedUnreferenced
  <1>4. KSpec => []TypeOK
    BY KPtrImplementsInterface, TypeCorrect, PTL
  <1>5. QED
    BY <1>1, <1>2, <1>3, <1>4, PTL DEF KSpec, NoLiveOverwrite
=============================================================================
