---------------------------- MODULE FramesProofs ----------------------------
(***************************************************************************)
(* Theorems about Frames for every set of actors and frames, every width   *)
(* of the counter and every bound on the references.                       *)
(***************************************************************************)
EXTENDS Frames, TLAPS

-----------------------------------------------------------------------------
(* The encoding of an entry.                                               *)

\* A word has a state and a counter, and with the counter below the maximum
\* value_for and value_into are inverse.
LEMMA WordParts ==
  ASSUME NEW v \in Word
  PROVE  state_of(v) \in State /\ counter_of(v) \in 0 .. MAX_REF_COUNT
  BY MaxRefCountAssumption
  DEF Word, Span, state_of, counter_of, State, Unavailable, Untyped, User, Kernel

\* The remainder of value_for leaves a counter below the maximum alone, ...
LEMMA SmallRemainder ==
  ASSUME NEW c \in 0 .. MAX_REF_COUNT, c # MAX_REF_COUNT
  PROVE  c % MAX_REF_COUNT = c
  BY MaxRefCountAssumption

\* ... and makes a full one 0.
LEMMA FullRemainder == MAX_REF_COUNT % MAX_REF_COUNT = 0
  BY MaxRefCountAssumption

\* Shifting the state over the counter keeps both (value_into after the
\* shift and the or of value_for).
LEMMA Encoding ==
  ASSUME NEW s \in State, NEW c \in 0 .. MAX_REF_COUNT
  PROVE  LET w == s * Span + c
         IN  w \in Word /\ state_of(w) = s /\ counter_of(w) = c
  BY MaxRefCountAssumption
  DEF Word, Span, state_of, counter_of, State, Unavailable, Untyped, User, Kernel

\* value_into gives back what value_for was given, the counter not full.
LEMMA ValueFor ==
  ASSUME NEW s \in State, NEW c \in 0 .. MAX_REF_COUNT, c # MAX_REF_COUNT
  PROVE  /\ value_for(s, c) \in Word
         /\ state_of(value_for(s, c)) = s
         /\ counter_of(value_for(s, c)) = c
  BY SmallRemainder, Encoding DEF value_for

\* value_for of a full counter is the word of an unreferenced frame.
LEMMA ValueForFull ==
  ASSUME NEW s \in State
  PROVE  /\ value_for(s, MAX_REF_COUNT) \in Word
         /\ state_of(value_for(s, MAX_REF_COUNT)) = s
         /\ counter_of(value_for(s, MAX_REF_COUNT)) = 0
  <1>1. 0 \in 0 .. MAX_REF_COUNT
    BY MaxRefCountAssumption
  <1>2. QED
    BY <1>1, FullRemainder, Encoding DEF value_for

\* An increment the entry grants leaves the state alone and adds 1.
LEMMA Increment ==
  ASSUME NEW v \in Word, increment(v) # None
  PROVE  /\ increment(v) \in Word
         /\ state_of(increment(v)) = state_of(v)
         /\ counter_of(increment(v)) = counter_of(v) + 1
  BY MaxRefCountAssumption DEF Word, Span, state_of, counter_of, increment

\* So does a decrement, taking 1 away.
LEMMA Decrement ==
  ASSUME NEW v \in Word, decrement(v) # None
  PROVE  /\ decrement(v) \in Word
         /\ state_of(decrement(v)) = state_of(v)
         /\ counter_of(decrement(v)) = counter_of(v) - 1
         /\ counter_of(v) > 0
  BY MaxRefCountAssumption DEF Word, Span, state_of, counter_of, decrement

\* increment refuses exactly a full counter, decrement an empty one.
LEMMA Refusals ==
  ASSUME NEW v \in Word
  PROVE  /\ increment(v) = None <=> counter_of(v) = MAX_REF_COUNT
         /\ decrement(v) = None <=> counter_of(v) = 0
  BY MaxRefCountAssumption DEF Word, None, increment, decrement, Span, counter_of

\* get_as_and_increment leaves the state alone and adds 1, except that the
\* last reference the counter has room for sets it to 0.
LEMMA GetAs ==
  ASSUME NEW v \in Word, NEW k \in Kinds, get_as_and_increment(v, k) # None
  PROVE  LET w == get_as_and_increment(v, k)
         IN  /\ w \in Word
             /\ state_of(v) = k
             /\ state_of(w) = k
             /\ counter_of(w) <= counter_of(v) + 1
             /\ counter_of(v) + 1 # MAX_REF_COUNT => counter_of(w) = counter_of(v) + 1
  <1>1. /\ state_of(v) = k /\ counter_of(v) < MAX_REF_COUNT
        /\ get_as_and_increment(v, k) = value_for(k, counter_of(v) + 1)
    BY DEF get_as_and_increment
  <1>2. k \in State /\ counter_of(v) \in 0 .. MAX_REF_COUNT
    BY WordParts DEF Kinds, State
  <1>3. counter_of(v) + 1 \in 0 .. MAX_REF_COUNT
    BY <1>1, <1>2, MaxRefCountAssumption
  <1>4. CASE counter_of(v) + 1 = MAX_REF_COUNT
    BY <1>1, <1>2, <1>4, ValueForFull, MaxRefCountAssumption
  <1>5. CASE counter_of(v) + 1 # MAX_REF_COUNT
    BY <1>1, <1>2, <1>3, <1>5, ValueFor, MaxRefCountAssumption
  <1>6. QED
    BY <1>4, <1>5

\* The exchange of try_into_user and try_into_kernel.
LEMMA RetypeInto ==
  ASSUME NEW v \in Word, NEW k \in Kinds, retype(v, Untyped, k, 0, 1) # None
  PROVE  LET w == retype(v, Untyped, k, 0, 1)
         IN  /\ state_of(v) = Untyped /\ counter_of(v) = 0
             /\ w \in Word /\ state_of(w) = k /\ counter_of(w) = 1
  <1>1. 0 \in 0 .. MAX_REF_COUNT /\ 1 \in 0 .. MAX_REF_COUNT
        /\ 0 # MAX_REF_COUNT /\ 1 # MAX_REF_COUNT
    BY MaxRefCountAssumption
  <1>2. Untyped \in State /\ k \in State
    BY DEF Kinds, State
  <1>3. v = value_for(Untyped, 0) /\ retype(v, Untyped, k, 0, 1) = value_for(k, 1)
    BY DEF retype
  <1>4. QED
    BY <1>1, <1>2, <1>3, ValueFor

\* The exchange of try_into_untyped.
LEMMA RetypeBack ==
  ASSUME NEW v \in Word, NEW k \in Kinds, retype(v, k, Untyped, 0, 0) # None
  PROVE  LET w == retype(v, k, Untyped, 0, 0)
         IN  /\ state_of(v) = k /\ counter_of(v) = 0
             /\ w \in Word /\ state_of(w) = Untyped /\ counter_of(w) = 0
  <1>1. 0 \in 0 .. MAX_REF_COUNT /\ 0 # MAX_REF_COUNT
    BY MaxRefCountAssumption
  <1>2. Untyped \in State /\ k \in State
    BY DEF Kinds, State
  <1>3. v = value_for(k, 0) /\ retype(v, k, Untyped, 0, 0) = value_for(Untyped, 0)
    BY DEF retype
  <1>4. QED
    BY <1>1, <1>2, <1>3, ValueFor

-----------------------------------------------------------------------------
(* What taking and giving back a reference does to the number of references *)
(* of each frame.                                                           *)

\* The references of a frame are a natural number.
LEMMA LiveNat ==
  ASSUME TypeOK, NEW f \in Frames
  PROVE  /\ refs[f][User] \in Nat /\ refs[f][Kernel] \in Nat
         /\ BootRefs(f) \in {0, 1}
         /\ Live(f) \in Nat
  BY DEF TypeOK, Live, BootRefs, Kinds

\* A new UserFrame or KernelFrame is one more reference to its frame only.
LEMMA TakeRef ==
  ASSUME TypeOK, NEW f \in Frames, NEW k \in Kinds,
         refs' = [refs EXCEPT ![f][k] = @ + 1]
  PROVE  /\ refs' \in [Frames -> [Kinds -> Nat]]
         /\ Live(f)' = Live(f) + 1
         /\ \A g \in Frames : g # f => Live(g)' = Live(g) /\ refs'[g] = refs[g]
         /\ \A j \in Kinds : j # k => refs'[f][j] = refs[f][j]
  <1>1. refs' \in [Frames -> [Kinds -> Nat]]
    BY DEF TypeOK
  <1>2. \A g \in Frames : g # f => refs'[g] = refs[g]
    BY DEF TypeOK
  <1>3. /\ refs'[f][k] = refs[f][k] + 1
        /\ \A j \in Kinds : j # k => refs'[f][j] = refs[f][j]
    BY DEF TypeOK
  <1>4. Live(f)' = Live(f) + 1
    <2>1. /\ refs[f][User] \in Nat /\ refs[f][Kernel] \in Nat
          /\ BootRefs(f) \in {0, 1} /\ BootRefs(f)' = BootRefs(f)
      BY LiveNat DEF BootRefs
    <2>2. CASE k = User
      BY <1>3, <2>1, <2>2 DEF Live, Kinds, User, Kernel
    <2>3. CASE k = Kernel
      BY <1>3, <2>1, <2>3 DEF Live, Kinds, User, Kernel
    <2>4. QED
      BY <2>2, <2>3 DEF Kinds
  <1>5. QED
    BY <1>1, <1>2, <1>3, <1>4 DEF Live, BootRefs

\* One that is dropped is one less.
LEMMA GiveRef ==
  ASSUME TypeOK, NEW f \in Frames, NEW k \in Kinds, refs[f][k] > 0,
         refs' = [refs EXCEPT ![f][k] = @ - 1]
  PROVE  /\ refs' \in [Frames -> [Kinds -> Nat]]
         /\ Live(f)' = Live(f) - 1
         /\ \A g \in Frames : g # f => Live(g)' = Live(g) /\ refs'[g] = refs[g]
         /\ \A j \in Kinds : j # k => refs'[f][j] = refs[f][j]
         /\ refs'[f][k] < refs[f][k]
  <1>1. refs' \in [Frames -> [Kinds -> Nat]]
    BY DEF TypeOK
  <1>2. \A g \in Frames : g # f => refs'[g] = refs[g]
    BY DEF TypeOK
  <1>3. /\ refs'[f][k] = refs[f][k] - 1
        /\ \A j \in Kinds : j # k => refs'[f][j] = refs[f][j]
        /\ refs[f][k] \in Nat
    BY DEF TypeOK
  <1>4. Live(f)' = Live(f) - 1
    <2>1. /\ refs[f][User] \in Nat /\ refs[f][Kernel] \in Nat
          /\ BootRefs(f) \in {0, 1} /\ BootRefs(f)' = BootRefs(f)
      BY LiveNat DEF BootRefs
    <2>2. CASE k = User
      BY <1>3, <2>1, <2>2 DEF Live, Kinds, User, Kernel
    <2>3. CASE k = Kernel
      BY <1>3, <2>1, <2>3 DEF Live, Kinds, User, Kernel
    <2>4. QED
      BY <2>2, <2>3 DEF Kinds
  <1>5. QED
    BY <1>1, <1>2, <1>3, <1>4 DEF Live, BootRefs

\* A step that creates and drops no reference changes no number of them.
LEMMA SameRefs ==
  ASSUME UNCHANGED refs
  PROVE  \A g : Live(g)' = Live(g)
  BY DEF Live, BootRefs

\* Every way of granting a reference writes a word whose counter grows by at
\* most 1, and by exactly 1 unless the counter is about to be full; whose
\* state is the kind of the reference; and whose state was that kind already
\* or untyped with no references.
Granted(f, k, w) ==
  /\ w \in Word
  /\ Grant(f, k, w)
  /\ state_of(w) # state_of(table[f]) =>
       state_of(table[f]) = Untyped /\ counter_of(table[f]) = 0 /\ state_of(w) = k
  /\ counter_of(w) <= counter_of(table[f]) + 1
  /\ counter_of(table[f]) + 1 < MAX_REF_COUNT => counter_of(w) = counter_of(table[f]) + 1

\* What a step of the whole interface can do.
Step(f) ==
  \/ \E k \in Kinds, w \in Word : Granted(f, k, w)
  \/ \E k \in Kinds : /\ refs[f][k] > 0
                      /\ decrement(table[f]) # None
                      /\ table' = [table EXCEPT ![f] = decrement(table[f])]
                      /\ refs' = [refs EXCEPT ![f][k] = @ - 1]
                      /\ UNCHANGED panicked
                      /\ call' \in [Actors -> Calls]
  \/ /\ decrement(table[f]) # None
     /\ table' = [table EXCEPT ![f] = decrement(table[f])]
     /\ UNCHANGED <<refs, panicked>>
     /\ call' \in [Actors -> Calls]
  \/ \E k \in Kinds : /\ retype(table[f], k, Untyped, 0, 0) # None
                      /\ table' = [table EXCEPT ![f] = retype(table[f], k, Untyped, 0, 0)]
                      /\ UNCHANGED <<refs, panicked>>
                      /\ call' \in [Actors -> Calls]
  \/ /\ UNCHANGED <<table, refs>>
     /\ panicked' \in BOOLEAN
     /\ call' \in [Actors -> Calls]

\* The calls the operations leave unfinished are those of Calls.
LEMMA CallTypes ==
  ASSUME NEW f \in Frames
  PROVE  /\ Idle \in Calls
         /\ Untyping(f) \in Calls
         /\ \A c \in 0 .. MAX_REF_COUNT : Dropping(f, c) \in Calls
  BY DEF Calls

\* Each of try_into, try_as, try_clone and as_unchecked writes a word with
\* the properties of Granted.
LEMMA GrantShapes ==
  ASSUME TypeOK, NEW a \in Actors, NEW f \in Frames, NEW k \in Kinds
  PROVE  /\ try_into(a, f, k) => \E w \in Word : Granted(f, k, w)
         /\ try_as(a, f, k) => \E w \in Word : Granted(f, k, w)
         /\ try_clone(a, f, k) => \E w \in Word : Granted(f, k, w)
         /\ as_unchecked(a, f, k) =>
              (\E w \in Word : Granted(f, k, w)) \/ (increment(table[f]) = None /\ Panic)
  <1>1. table[f] \in Word
    BY DEF TypeOK
  <1>2. counter_of(table[f]) \in 0 .. MAX_REF_COUNT
    BY <1>1, WordParts
  <1>3. ASSUME try_into(a, f, k)
        PROVE  \E w \in Word : Granted(f, k, w)
    <2>1. retype(table[f], Untyped, k, 0, 1) # None
      BY <1>3 DEF try_into, Grant
    <2>2. Granted(f, k, retype(table[f], Untyped, k, 0, 1))
      BY <1>1, <1>3, <2>1, RetypeInto, MaxRefCountAssumption DEF try_into, Granted
    <2>3. QED
      BY <2>2 DEF Granted
  <1>4. ASSUME try_as(a, f, k)
        PROVE  \E w \in Word : Granted(f, k, w)
    <2>1. get_as_and_increment(table[f], k) # None
      BY <1>4 DEF try_as, Grant
    <2>2. Granted(f, k, get_as_and_increment(table[f], k))
      BY <1>1, <1>2, <1>4, <2>1, GetAs, MaxRefCountAssumption DEF try_as, Granted
    <2>3. QED
      BY <2>2 DEF Granted
  <1>5. ASSUME Grant(f, k, increment(table[f]))
        PROVE  \E w \in Word : Granted(f, k, w)
    <2>1. increment(table[f]) # None
      BY <1>5 DEF Grant
    <2>2. Granted(f, k, increment(table[f]))
      BY <1>1, <1>2, <1>5, <2>1, Increment, MaxRefCountAssumption DEF Granted
    <2>3. QED
      BY <2>2 DEF Granted
  <1>6. QED
    BY <1>3, <1>4, <1>5 DEF try_clone, as_unchecked

\* Every operation of the interface is one of the five steps of Step.
LEMMA StepShapes ==
  ASSUME TypeOK, NEW a \in Actors, NEW f \in Frames,
         \/ Typed(a, f)
         \/ try_into_untyped(a, f)
         \/ try_into_untyped_kernel(a, f)
         \/ \E k \in Kinds : inherent_drop(a, f, k)
         \/ inherent_drop_end(a, f)
  PROVE  Step(f)
  <1>1. /\ table[f] \in Word
        /\ counter_of(table[f]) \in 0 .. MAX_REF_COUNT
        /\ call \in [Actors -> Calls]
        /\ panicked \in BOOLEAN
    BY WordParts DEF TypeOK
  <1>2. Panic => Step(f)
    BY <1>1, Zenon DEF Panic, Step
  <1>3. ASSUME NEW k \in Kinds, try_into(a, f, k) \/ try_as(a, f, k)
                 \/ as_unchecked(a, f, k) \/ try_clone(a, f, k)
        PROVE  Step(f)
    BY <1>2, <1>3, GrantShapes DEF Step
  <1>4. ASSUME NEW k \in Kinds, drop_ref(a, f, k)
        PROVE  Step(f)
    BY <1>1, <1>2, <1>4 DEF drop_ref, Step
  <1>5. CASE try_into_untyped(a, f)
    <2>1. CASE UntypeFrom(f, User) # None
      BY <1>1, <1>5, <2>1 DEF try_into_untyped, UntypeFrom, Step, Kinds
    <2>2. CASE UntypeFrom(f, User) = None
      BY <1>1, <1>5, <2>2, CallTypes DEF try_into_untyped, UnavailableAssertFails, Step
    <2>3. QED
      BY <2>1, <2>2
  <1>6. CASE try_into_untyped_kernel(a, f)
    <2>1. call' \in [Actors -> Calls]
      BY <1>1, <1>6, CallTypes DEF try_into_untyped_kernel
    <2>2. CASE UntypeFrom(f, Kernel) # None
      BY <1>6, <2>1, <2>2 DEF try_into_untyped_kernel, UntypeFrom, Step, Kinds
    <2>3. CASE UntypeFrom(f, Kernel) = None
      BY <1>6, <2>1, <2>3 DEF try_into_untyped_kernel, UnavailableAssertFails, Step
    <2>4. QED
      BY <2>2, <2>3
  <1>7. ASSUME NEW k \in Kinds, inherent_drop(a, f, k)
        PROVE  Step(f)
    <2>1. CASE decrement(table[f]) = None
      BY <1>2, <1>7, <2>1 DEF inherent_drop
    <2>2. CASE decrement(table[f]) # None
      <3>1. call' \in [Actors -> Calls]
        BY <1>1, <1>7, <2>2, CallTypes DEF inherent_drop
      <3>2. QED
        BY <1>7, <2>2, <3>1 DEF inherent_drop, Step
    <2>3. QED
      BY <2>1, <2>2
  <1>8. CASE inherent_drop_end(a, f)
    <2>1. CASE decrement(table[f]) = None
      BY <1>2, <1>8, <2>1 DEF inherent_drop_end
    <2>2. CASE decrement(table[f]) # None
      <3>1. call' \in [Actors -> Calls]
        BY <1>1, <1>8, <2>2, CallTypes DEF inherent_drop_end
      <3>2. QED
        BY <1>8, <2>2, <3>1 DEF inherent_drop_end, Step
    <2>3. QED
      BY <2>1, <2>2
  <1>9. QED
    BY <1>3, <1>4, <1>5, <1>6, <1>7, <1>8 DEF Typed

-----------------------------------------------------------------------------
(* The whole interface, inherent drop(self) included, and any number of    *)
(* references.                                                             *)

\* RetypeTable::new counts one reference to each boot frame, which it
\* types as kernel memory, and none to the others.
LEMMA InitialWords ==
  ASSUME NEW f \in Frames
  PROVE  /\ InitialWord(f) \in Word
         /\ counter_of(InitialWord(f)) = BootRefs(f)
         /\ f \in BootFrames => state_of(InitialWord(f)) = Kernel
  <1>1. 0 \in 0 .. MAX_REF_COUNT /\ 1 \in 0 .. MAX_REF_COUNT
        /\ 0 # MAX_REF_COUNT /\ 1 # MAX_REF_COUNT
    BY MaxRefCountAssumption
  <1>2. Untyped \in State /\ Kernel \in State /\ Unavailable \in State
    BY DEF State
  <1>3. QED
    BY <1>1, <1>2, ValueFor, FramesAssumption DEF InitialWord, BootRefs

\* The table RetypeTable::new builds is well typed.
LEMMA InitialType == Init => TypeOK
  <1>1. Idle \in Calls
    BY DEF Calls
  <1>2. Init => table \in [Frames -> Word]
    BY InitialWords DEF Init
  <1>3. Init => refs \in [Frames -> [Kinds -> Nat]]
    BY DEF Init
  <1>4. QED
    BY <1>1, <1>2, <1>3, Zenon DEF Init, TypeOK

\* Every step keeps the variables well typed.
LEMMA StepType ==
  ASSUME TypeOK, NEW f \in Frames, Step(f)
  PROVE  TypeOK'
  <1>1. table[f] \in Word
    BY DEF TypeOK
  <1>2. ASSUME NEW k \in Kinds, NEW w \in Word, Granted(f, k, w)
        PROVE  TypeOK'
    BY <1>2, TakeRef DEF Granted, Grant, TypeOK
  <1>3. ASSUME decrement(table[f]) # None
        PROVE  decrement(table[f]) \in Word
    BY <1>1, <1>3, Decrement
  <1>4. ASSUME NEW k \in Kinds, retype(table[f], k, Untyped, 0, 0) # None
        PROVE  retype(table[f], k, Untyped, 0, 0) \in Word
    BY <1>1, <1>4, RetypeBack
  <1>5. QED
    BY <1>2, <1>3, <1>4, GiveRef, Zenon DEF Step, TypeOK

\* Every step of the interface keeps the types of the state.
LEMMA ApiStepType == TypeOK /\ [ApiNext]_vars => TypeOK'
  <1> SUFFICES ASSUME TypeOK, [ApiNext]_vars
               PROVE  TypeOK'
    OBVIOUS
  <1>1. CASE ApiNext
    BY <1>1, StepShapes, StepType DEF ApiNext
  <1>2. CASE UNCHANGED vars
    BY <1>2 DEF vars, TypeOK
  <1>3. QED
    BY <1>1, <1>2

\* The state keeps its type whatever the interface is used for: entries stay
\* 16-bit words, and the references to a frame never become negative.
THEOREM TypeCorrect == ApiSpec => []TypeOK
  BY InitialType, ApiStepType, PTL DEF ApiSpec

\* No entry ever counts more references than exist, although a full counter
\* wraps to 0 and the inherent drop(self) decrements twice.
THEOREM NeverOverCounted == ApiSpec => []NoOverCount
  <1>1. Init => NoOverCount
    BY InitialWords, LiveNat, InitialType DEF Init, NoOverCount, Live
  <1>2. TypeOK /\ NoOverCount /\ [ApiNext]_vars => NoOverCount'
    <2> SUFFICES ASSUME TypeOK, NoOverCount, [ApiNext]_vars
                 PROVE  NoOverCount'
      OBVIOUS
    <2>1. ASSUME NEW f \in Frames, Step(f)
          PROVE  NoOverCount'
      <3>1. /\ table[f] \in Word
            /\ counter_of(table[f]) \in 0 .. MAX_REF_COUNT
            /\ counter_of(table[f]) <= Live(f)
            /\ Live(f) \in Nat
        BY WordParts, LiveNat DEF TypeOK, NoOverCount
      <3>2. \A g \in Frames : table'[g] = table[g] /\ Live(g)' = Live(g)
              => counter_of(table'[g]) <= Live(g)'
        BY DEF NoOverCount
      <3>3. ASSUME NEW k \in Kinds, NEW w \in Word, Granted(f, k, w)
            PROVE  NoOverCount'
        <4>1. /\ table'[f] = w
              /\ \A g \in Frames : g # f => table'[g] = table[g]
              /\ refs' = [refs EXCEPT ![f][k] = @ + 1]
          BY <3>3 DEF Granted, Grant, TypeOK
        <4>2. counter_of(w) \in 0 .. MAX_REF_COUNT
          BY WordParts
        <4>3. Live(f)' = Live(f) + 1 /\ \A g \in Frames : g # f => Live(g)' = Live(g)
          BY <4>1, TakeRef, Zenon
        <4>4. counter_of(table'[f]) <= Live(f)'
          BY <3>1, <3>3, <4>1, <4>2, <4>3, MaxRefCountAssumption DEF Granted
        <4>5. QED
          BY <3>2, <4>1, <4>3, <4>4 DEF NoOverCount
      <3>4. ASSUME decrement(table[f]) # None,
                   table' = [table EXCEPT ![f] = decrement(table[f])]
            PROVE  /\ counter_of(table'[f]) = counter_of(table[f]) - 1
                   /\ \A g \in Frames : g # f => table'[g] = table[g]
        BY <3>1, <3>4, Decrement DEF TypeOK
      <3>5. ASSUME NEW k \in Kinds, refs[f][k] > 0,
                   decrement(table[f]) # None,
                   table' = [table EXCEPT ![f] = decrement(table[f])],
                   refs' = [refs EXCEPT ![f][k] = @ - 1]
            PROVE  NoOverCount'
        <4>1. Live(f)' = Live(f) - 1 /\ \A g \in Frames : g # f => Live(g)' = Live(g)
          BY <3>5, GiveRef, Zenon
        <4>2. counter_of(table'[f]) <= Live(f)'
          BY <3>1, <3>4, <3>5, <4>1, MaxRefCountAssumption
        <4>3. QED
          BY <3>2, <3>4, <3>5, <4>1, <4>2 DEF NoOverCount
      <3>6. ASSUME decrement(table[f]) # None,
                   table' = [table EXCEPT ![f] = decrement(table[f])],
                   UNCHANGED refs
            PROVE  NoOverCount'
        <4>1. counter_of(table'[f]) <= Live(f)'
          BY <3>1, <3>4, <3>6, SameRefs, MaxRefCountAssumption
        <4>2. QED
          BY <3>2, <3>4, <3>6, <4>1, SameRefs DEF NoOverCount
      <3>7. ASSUME NEW k \in Kinds, retype(table[f], k, Untyped, 0, 0) # None,
                   table' = [table EXCEPT ![f] = retype(table[f], k, Untyped, 0, 0)],
                   UNCHANGED refs
            PROVE  NoOverCount'
        <4>1. counter_of(table'[f]) = 0 /\ \A g \in Frames : g # f => table'[g] = table[g]
          BY <3>1, <3>7, RetypeBack DEF TypeOK
        <4>2. counter_of(table'[f]) <= Live(f)'
          BY <3>1, <3>7, <4>1, SameRefs
        <4>3. QED
          BY <3>2, <3>7, <4>1, <4>2, SameRefs DEF NoOverCount
      <3>8. UNCHANGED <<table, refs>> => NoOverCount'
        BY SameRefs DEF NoOverCount
      <3>9. QED
        BY <2>1, <3>3, <3>5, <3>6, <3>7, <3>8 DEF Step
    <2>2. CASE ApiNext
      BY <2>1, <2>2, StepShapes DEF ApiNext
    <2>3. CASE UNCHANGED vars
      BY <2>3, SameRefs DEF vars, NoOverCount
    <2>4. QED
      BY <2>2, <2>3
  <1>3. QED
    BY <1>1, <1>2, TypeCorrect, PTL DEF ApiSpec

\* A frame changes type only through untyped and only with a count of 0.
THEOREM TypedThroughUntyped == ApiSpec => OnlyThroughUntyped
  <1>1. TypeOK /\ [ApiNext]_vars
          => [\A f \in Frames : StateChange(table[f], table'[f])]_vars
    <2> SUFFICES ASSUME TypeOK, ApiNext
                 PROVE  \A g \in Frames : StateChange(table[g], table'[g])
      OBVIOUS
    <2>1. PICK f \in Frames : Step(f)
      BY StepShapes DEF ApiNext
    <2>2. table[f] \in Word
      BY DEF TypeOK
    <2>3. \A g \in Frames : table'[g] = table[g] => StateChange(table[g], table'[g])
      BY DEF StateChange
    <2>4. \A g \in Frames : g # f => table'[g] = table[g]
      BY <2>1 DEF Step, Granted, Grant, TypeOK
    <2>5. StateChange(table[f], table'[f])
      <3>1. ASSUME NEW k \in Kinds, NEW w \in Word, Granted(f, k, w)
            PROVE  StateChange(table[f], table'[f])
        BY <3>1 DEF Granted, Grant, StateChange, TypeOK
      <3>2. ASSUME decrement(table[f]) # None,
                   table' = [table EXCEPT ![f] = decrement(table[f])]
            PROVE  StateChange(table[f], table'[f])
        BY <2>2, <3>2, Decrement DEF StateChange, TypeOK
      <3>3. ASSUME NEW k \in Kinds, retype(table[f], k, Untyped, 0, 0) # None,
                   table' = [table EXCEPT ![f] = retype(table[f], k, Untyped, 0, 0)]
            PROVE  StateChange(table[f], table'[f])
        BY <2>2, <3>3, RetypeBack DEF StateChange, TypeOK
      <3>4. QED
        BY <2>1, <2>3, <3>1, <3>2, <3>3 DEF Step
    <2>6. QED
      BY <2>3, <2>4, <2>5
  <1>2. QED
    BY <1>1, TypeCorrect, PTL DEF ApiSpec, OnlyThroughUntyped

-----------------------------------------------------------------------------
(* One count change per reference, and fewer references than the counter   *)
(* can hold.                                                               *)

\* The inductive invariant: the count of an entry is exact and below the
\* maximum, which is what keeps try_as from wrapping it and unwraps from
\* failing; the type of a frame follows its references.
CountsHold ==
  /\ TypeOK
  /\ CountExact
  /\ \A f \in Frames : counter_of(table[f]) < MAX_REF_COUNT
  /\ HandleTyped
  /\ BootFramesStayKernel
  /\ NeverPanics

\* The steps of Next, by what they do to the entry of a frame and to its
\* references.
Keeps(f) ==
  /\ table' \in [Frames -> Word]
  /\ refs' \in [Frames -> [Kinds -> Nat]]
  /\ call' \in [Actors -> Calls]
  /\ panicked' = FALSE
  /\ \A g \in Frames : g # f => /\ table'[g] = table[g]
                                /\ refs'[g] = refs[g]
                                /\ Live(g)' = Live(g)

Takes(f, k) ==
  /\ \A j \in Kinds : j # k => refs'[f][j] = refs[f][j]
  /\ Live(f) < RefBound
  /\ Live(f)' = Live(f) + 1

Retyped(f, k) ==
  /\ Takes(f, k)
  /\ state_of(table[f]) = Untyped /\ counter_of(table[f]) = 0
  /\ state_of(table'[f]) = k /\ counter_of(table'[f]) = 1

Acquired(f, k) ==
  /\ Takes(f, k)
  /\ state_of(table[f]) = k
  /\ state_of(table'[f]) = k /\ counter_of(table'[f]) = counter_of(table[f]) + 1

Released(f, k) ==
  /\ refs[f][k] > 0
  /\ \A j \in Kinds : refs'[f][j] > 0 => refs[f][j] > 0
  /\ Live(f)' = Live(f) - 1
  /\ state_of(table'[f]) = state_of(table[f])
  /\ counter_of(table'[f]) = counter_of(table[f]) - 1

Untypes(f) ==
  /\ refs' = refs
  /\ state_of(table[f]) \in Kinds /\ counter_of(table[f]) = 0
  /\ state_of(table'[f]) = Untyped /\ counter_of(table'[f]) = 0

Outcome(f) ==
  /\ Keeps(f)
  /\ \/ \E k \in Kinds : Retyped(f, k) \/ Acquired(f, k) \/ Released(f, k)
     \/ Untypes(f)
     \/ UNCHANGED <<table, refs>>

\* A granted reference changes the entry of its frame and nothing else.
LEMMA Taken ==
  ASSUME CountsHold, NEW f \in Frames, NEW k \in Kinds, NEW w \in Word,
         Grant(f, k, w)
  PROVE  Keeps(f) /\ Takes(f, k) /\ table'[f] = w
  <1>1. /\ refs' = [refs EXCEPT ![f][k] = @ + 1]
        /\ Live(f) < RefBound
        /\ table' \in [Frames -> Word]
        /\ table'[f] = w
        /\ \A g \in Frames : g # f => table'[g] = table[g]
        /\ call' \in [Actors -> Calls] /\ panicked' = FALSE
    BY DEF Grant, CountsHold, TypeOK, NeverPanics
  <1>2. QED
    BY <1>1, TakeRef, Zenon DEF CountsHold, Keeps, Takes

\* With counts exact and room in the counter, every operation retypes,
\* acquires, releases, untypes or does nothing: none wraps and none panics.
LEMMA Outcomes ==
  ASSUME RefBound < MAX_REF_COUNT, CountsHold, Next
  PROVE  \E f \in Frames : Outcome(f)
  <1>1. PICK a \in Actors, f \in Frames :
          \/ Typed(a, f)
          \/ try_into_untyped(a, f)
          \/ try_into_untyped_kernel(a, f)
    BY DEF Next
  <1>2. /\ TypeOK
        /\ table[f] \in Word
        /\ state_of(table[f]) \in State
        /\ counter_of(table[f]) \in Nat
        /\ counter_of(table[f]) = Live(f)
        /\ counter_of(table[f]) < MAX_REF_COUNT
    BY WordParts DEF CountsHold, TypeOK, CountExact
  <1>3. increment(table[f]) # None
    BY <1>2, Refusals, MaxRefCountAssumption
  <1>4. ASSUME NEW k \in Kinds, refs[f][k] > 0
        PROVE  state_of(table[f]) = k /\ Live(f) > 0
    <2>1. state_of(table[f]) = k
      BY <1>4 DEF CountsHold, HandleTyped
    <2>2. Live(f) > 0
      BY <1>2, <1>4, LiveNat DEF Live, Kinds
    <2>3. QED
      BY <2>1, <2>2
  <1>5. ~UnavailableAssertFails(f)
    <2>1. state_of(table[f]) = Unavailable => Live(f) = 0
      <3>1. ASSUME state_of(table[f]) = Unavailable
            PROVE  Live(f) = 0
        <4>1. refs[f][User] = 0 /\ refs[f][Kernel] = 0
          BY <1>2, <1>4, <3>1, LiveNat DEF Kinds, User, Kernel, Unavailable
        <4>2. BootRefs(f) = 0
          BY <3>1 DEF CountsHold, BootFramesStayKernel, BootRefs, Kernel, Unavailable
        <4>3. QED
          BY <4>1, <4>2 DEF Live
      <3>2. QED
        BY <3>1
    <2>2. QED
      BY <1>2, <2>1 DEF UnavailableAssertFails
  <1>6. ASSUME NEW k \in Kinds, try_into(a, f, k)
        PROVE  Outcome(f)
    <2>1. Grant(f, k, retype(table[f], Untyped, k, 0, 1))
          /\ retype(table[f], Untyped, k, 0, 1) # None
      BY <1>6 DEF try_into, Grant
    <2>2. QED
      BY <1>2, <2>1, RetypeInto, Taken DEF Outcome, Retyped
  <1>7. ASSUME NEW k \in Kinds, try_as(a, f, k)
        PROVE  Outcome(f)
    <2>1. Grant(f, k, get_as_and_increment(table[f], k))
          /\ get_as_and_increment(table[f], k) # None
      BY <1>7 DEF try_as, Grant
    <2>2. counter_of(table[f]) + 1 # MAX_REF_COUNT
      BY <1>2, <2>1, MaxRefCountAssumption, RefBoundAssumption DEF Grant
    <2>3. QED
      BY <1>2, <2>1, <2>2, GetAs, Taken DEF Outcome, Acquired
  <1>8. ASSUME NEW k \in Kinds, state_of(table[f]) = k,
               Grant(f, k, increment(table[f]))
        PROVE  Outcome(f)
    BY <1>2, <1>3, <1>8, Increment, Taken DEF Outcome, Acquired
  <1>9. ASSUME NEW k \in Kinds, drop_ref(a, f, k)
        PROVE  Outcome(f)
    <2>1. refs[f][k] > 0
      BY <1>9 DEF drop_ref
    <2>2. decrement(table[f]) # None
      BY <1>2, <1>4, <2>1, Refusals
    <2>3. /\ table' = [table EXCEPT ![f] = decrement(table[f])]
          /\ refs' = [refs EXCEPT ![f][k] = @ - 1]
          /\ UNCHANGED <<call, panicked>>
      BY <1>9, <2>2 DEF drop_ref
    <2>4. /\ table' \in [Frames -> Word]
          /\ table'[f] = decrement(table[f])
          /\ \A g \in Frames : g # f => table'[g] = table[g]
      BY <1>2, <2>2, <2>3, Decrement DEF TypeOK
    <2>5. Keeps(f)
      BY <1>2, <2>1, <2>3, <2>4, GiveRef, Zenon DEF Keeps, CountsHold, TypeOK, NeverPanics
    <2>6. Released(f, k)
      <3>1. \A j \in Kinds : refs'[f][j] > 0 => refs[f][j] > 0
        BY <1>2, <2>1, <2>3, GiveRef
      <3>2. QED
        BY <1>2, <2>1, <2>2, <2>3, <2>4, <3>1, GiveRef, Decrement, Zenon DEF Released
    <2>7. QED
      BY <2>5, <2>6 DEF Outcome
  <1>10. ASSUME NEW k \in Kinds, UntypeFrom(f, k) # None,
                table' = [table EXCEPT ![f] = UntypeFrom(f, k)],
                UNCHANGED refs, call' \in [Actors -> Calls], panicked' = FALSE
         PROVE  Outcome(f)
    <2>1. /\ state_of(table[f]) = k /\ counter_of(table[f]) = 0
          /\ UntypeFrom(f, k) \in Word
          /\ state_of(UntypeFrom(f, k)) = Untyped
          /\ counter_of(UntypeFrom(f, k)) = 0
      BY <1>2, <1>10, RetypeBack DEF UntypeFrom
    <2>2. /\ table' \in [Frames -> Word]
          /\ table'[f] = UntypeFrom(f, k)
          /\ \A g \in Frames : g # f => table'[g] = table[g]
      BY <1>2, <1>10, <2>1 DEF TypeOK
    <2>3. Keeps(f)
      BY <1>2, <1>10, <2>2, SameRefs DEF Keeps, TypeOK
    <2>4. Untypes(f)
      BY <1>10, <2>1, <2>2 DEF Untypes
    <2>5. QED
      BY <2>3, <2>4 DEF Outcome
  <1>11. ASSUME UNCHANGED <<table, refs>>, call' \in [Actors -> Calls],
                panicked' = FALSE
         PROVE  Outcome(f)
    BY <1>2, <1>11, SameRefs DEF Outcome, Keeps, TypeOK
  <1>12. CASE try_into_untyped(a, f)
    <2>1. call' \in [Actors -> Calls] /\ panicked' = FALSE
      BY <1>2, <1>5, <1>12, CallTypes
      DEF try_into_untyped, TypeOK, CountsHold, NeverPanics
    <2>2. QED
      BY <1>10, <1>11, <1>12, <2>1, Zenon DEF try_into_untyped, Kinds
  <1>13. CASE try_into_untyped_kernel(a, f)
    <2>1. call' \in [Actors -> Calls] /\ panicked' = FALSE
      BY <1>2, <1>5, <1>13, CallTypes
      DEF try_into_untyped_kernel, TypeOK, CountsHold, NeverPanics
    <2>2. QED
      BY <1>10, <1>11, <1>13, <2>1, Zenon DEF try_into_untyped_kernel, Kinds
  <1>14. QED
    BY <1>1, <1>3, <1>4, <1>6, <1>7, <1>8, <1>9, <1>12, <1>13
    DEF Typed, as_unchecked, try_clone

\* Each of these outcomes keeps the invariant.
LEMMA OutcomeKeepsCounts ==
  ASSUME RefBound < MAX_REF_COUNT, CountsHold, NEW f \in Frames, Outcome(f)
  PROVE  CountsHold'
  <1>1. TypeOK' /\ NeverPanics'
    BY Zenon DEF Outcome, Keeps, TypeOK, NeverPanics
  <1>2. /\ TypeOK
        /\ table[f] \in Word
        /\ counter_of(table[f]) \in Nat
        /\ counter_of(table[f]) = Live(f)
        /\ counter_of(table[f]) < MAX_REF_COUNT
    BY WordParts DEF CountsHold, TypeOK, CountExact
  <1>3. /\ refs[f][User] \in Nat /\ refs[f][Kernel] \in Nat
        /\ BootRefs(f) \in {0, 1}
    BY <1>2, LiveNat
  <1>4. \/ /\ counter_of(table'[f]) = Live(f)'
           /\ counter_of(table'[f]) < MAX_REF_COUNT
        \/ UNCHANGED <<table, refs>>
    <2>1. ASSUME NEW k \in Kinds, Retyped(f, k) \/ Acquired(f, k)
          PROVE  /\ counter_of(table'[f]) = Live(f)'
                 /\ counter_of(table'[f]) < MAX_REF_COUNT
      BY <1>2, <2>1, RefBoundAssumption, MaxRefCountAssumption
      DEF Retyped, Acquired, Takes
    <2>2. ASSUME NEW k \in Kinds, Released(f, k)
          PROVE  /\ counter_of(table'[f]) = Live(f)'
                 /\ counter_of(table'[f]) < MAX_REF_COUNT
      BY <1>2, <2>2, MaxRefCountAssumption DEF Released
    <2>3. ASSUME Untypes(f)
          PROVE  /\ counter_of(table'[f]) = Live(f)'
                 /\ counter_of(table'[f]) < MAX_REF_COUNT
      BY <1>2, <2>3, SameRefs, MaxRefCountAssumption, Zenon DEF Untypes
    <2>4. QED
      BY <2>1, <2>2, <2>3 DEF Outcome
  <1>5. /\ CountExact'
        /\ \A g \in Frames : counter_of(table'[g]) < MAX_REF_COUNT
    <2>1. ASSUME NEW g \in Frames
          PROVE  counter_of(table'[g]) = Live(g)' /\ counter_of(table'[g]) < MAX_REF_COUNT
      <3>1. CASE g = f
        BY <1>2, <1>4, <3>1, SameRefs
      <3>2. CASE g # f
        BY <3>2 DEF Outcome, Keeps, CountsHold, CountExact
      <3>3. QED
        BY <3>1, <3>2
    <2>2. QED
      BY <2>1 DEF CountExact
  <1>6. /\ \A k \in Kinds : refs'[f][k] > 0 => state_of(table'[f]) = k
        /\ f \in BootFrames => state_of(table'[f]) = Kernel
    <2>1. /\ \A k \in Kinds : refs[f][k] > 0 => state_of(table[f]) = k
          /\ f \in BootFrames => state_of(table[f]) = Kernel
      BY DEF CountsHold, HandleTyped, BootFramesStayKernel
    <2>2. ASSUME counter_of(table[f]) = 0
          PROVE  refs[f][User] = 0 /\ refs[f][Kernel] = 0 /\ f \notin BootFrames
      BY <1>2, <1>3, <2>2 DEF Live, BootRefs
    <2>3. ASSUME NEW k \in Kinds, Retyped(f, k)
          PROVE  /\ \A j \in Kinds : refs'[f][j] > 0 => state_of(table'[f]) = j
                 /\ f \in BootFrames => state_of(table'[f]) = Kernel
      <3>1. \A j \in Kinds : refs[f][j] = 0
        BY <2>2, <2>3 DEF Retyped, Kinds
      <3>2. QED
        BY <2>2, <2>3, <3>1 DEF Retyped, Takes
    <2>4. ASSUME NEW k \in Kinds, Acquired(f, k)
          PROVE  /\ \A j \in Kinds : refs'[f][j] > 0 => state_of(table'[f]) = j
                 /\ f \in BootFrames => state_of(table'[f]) = Kernel
      BY <2>1, <2>4 DEF Acquired, Takes
    <2>5. ASSUME NEW k \in Kinds, Released(f, k)
          PROVE  /\ \A j \in Kinds : refs'[f][j] > 0 => state_of(table'[f]) = j
                 /\ f \in BootFrames => state_of(table'[f]) = Kernel
      BY <2>1, <2>5 DEF Released
    <2>6. ASSUME Untypes(f)
          PROVE  /\ \A j \in Kinds : refs'[f][j] > 0 => state_of(table'[f]) = j
                 /\ f \in BootFrames => state_of(table'[f]) = Kernel
      <3>1. \A j \in Kinds : refs[f][j] = 0
        BY <2>2, <2>6 DEF Untypes, Kinds
      <3>2. QED
        BY <2>2, <2>6, <3>1 DEF Untypes
    <2>7. ASSUME UNCHANGED <<table, refs>>
          PROVE  /\ \A j \in Kinds : refs'[f][j] > 0 => state_of(table'[f]) = j
                 /\ f \in BootFrames => state_of(table'[f]) = Kernel
      BY <2>1, <2>7
    <2>8. QED
      BY <2>3, <2>4, <2>5, <2>6, <2>7 DEF Outcome
  <1>7. HandleTyped'
    <2>1. ASSUME NEW g \in Frames, g # f
          PROVE  table'[g] = table[g] /\ refs'[g] = refs[g]
      BY <2>1 DEF Outcome, Keeps
    <2>2. QED
      BY <1>6, <2>1 DEF CountsHold, HandleTyped
  <1>8. BootFramesStayKernel'
    BY <1>6, FramesAssumption DEF CountsHold, BootFramesStayKernel, Outcome, Keeps
  <1>9. QED
    BY <1>1, <1>5, <1>7, <1>8 DEF CountsHold

\* The invariant holds of the table RetypeTable::new builds, ...
LEMMA InitialCounts == Init => CountsHold
  <1> SUFFICES ASSUME Init
               PROVE  CountsHold
    OBVIOUS
  <1>1. TypeOK
    BY InitialType
  <1>2. \A f \in Frames : refs[f][User] = 0 /\ refs[f][Kernel] = 0
    BY DEF Init, Kinds
  <1>3. \A f \in Frames : Live(f) = BootRefs(f)
    BY <1>2 DEF Live, BootRefs
  <1>4. CountExact
    BY <1>3, InitialWords DEF Init, CountExact
  <1>5. \A f \in Frames : counter_of(table[f]) < MAX_REF_COUNT
    BY InitialWords, MaxRefCountAssumption DEF Init, BootRefs
  <1>6. HandleTyped
    BY <1>2 DEF HandleTyped, Kinds
  <1>7. BootFramesStayKernel
    BY InitialWords, FramesAssumption DEF Init, BootFramesStayKernel
  <1>8. QED
    BY <1>1, <1>4, <1>5, <1>6, <1>7 DEF CountsHold, NeverPanics, Init

\* ... and every step of the interface preserves it.
LEMMA CountsInductive ==
  ASSUME RefBound < MAX_REF_COUNT
  PROVE  CountsHold /\ [Next]_vars => CountsHold'
  <1> SUFFICES ASSUME CountsHold, [Next]_vars
               PROVE  CountsHold'
    OBVIOUS
  <1>1. CASE Next
    BY <1>1, Outcomes, OutcomeKeepsCounts
  <1>2. CASE UNCHANGED vars
    <2>1. TypeOK' /\ CountExact'
      BY <1>2, SameRefs DEF vars, CountsHold, TypeOK, CountExact
    <2>2. QED
      BY <1>2, <2>1
      DEF vars, CountsHold, HandleTyped, BootFramesStayKernel, NeverPanics
  <1>3. QED
    BY <1>1, <1>2

\* As long as fewer references to a frame exist than the counter can hold,
\* and every reference is dropped once, the retype table counts references
\* exactly; a frame keeps its type while it is referred to; the frames of the
\* kernel stay kernel memory; and no unwrap fails.
THEOREM CountsAreExact ==
  ASSUME RefBound < MAX_REF_COUNT
  PROVE  Spec => [](CountExact /\ HandleTyped /\ BootFramesStayKernel /\ NeverPanics)
  <1>1. CountsHold => CountExact /\ HandleTyped /\ BootFramesStayKernel /\ NeverPanics
    BY DEF CountsHold
  <1>2. QED
    BY <1>1, InitialCounts, CountsInductive, PTL DEF Spec

-----------------------------------------------------------------------------
(* The promise of FrameTyping.                                             *)

\* In the mapping of Promise: the type and the references of every frame.
TypeMap == [f \in Frames |-> state_of(table[f])]
RefsMap == [f \in Frames |-> Live(f)]

\* The mapped state changes at the frame of the operation only.
LEMMA MapsAfter ==
  ASSUME NEW f \in Frames, Keeps(f)
  PROVE  /\ TypeMap' = [TypeMap EXCEPT ![f] = state_of(table'[f])]
         /\ RefsMap' = [RefsMap EXCEPT ![f] = Live(f)']
  BY Zenon DEF Keeps, TypeMap, RefsMap

\* The states of a frame are the same in FrameTyping.
LEMMA SameNames ==
  /\ Promise!Kinds = Kinds
  /\ Promise!Untyped = Untyped
  /\ Promise!Kernel = Kernel
  /\ Promise!Unavailable = Unavailable
  BY DEF Promise!Kinds, Promise!User, Promise!Kernel, Promise!Untyped,
         Promise!Unavailable, Kinds, User, Kernel, Untyped, Unavailable

\* Every outcome is a step FrameTyping promises, or a stutter.
LEMMA OutcomeIsPromised ==
  ASSUME CountsHold, NEW f \in Frames, Outcome(f)
  PROVE  Promise!Next \/ UNCHANGED <<TypeMap, RefsMap>>
  <1>1. /\ TypeMap[f] = state_of(table[f])
        /\ RefsMap[f] = Live(f)
        /\ counter_of(table[f]) = Live(f)
        /\ Live(f) \in Nat
    BY LiveNat DEF TypeMap, RefsMap, CountsHold, CountExact
  <1>2. /\ TypeMap' = [TypeMap EXCEPT ![f] = state_of(table'[f])]
        /\ RefsMap' = [RefsMap EXCEPT ![f] = Live(f)']
    BY MapsAfter DEF Outcome
  <1>3. ASSUME NEW k \in Kinds, Retyped(f, k)
        PROVE  Promise!Next
    <2>1. Promise!Retype(f, k)
      BY <1>1, <1>2, <1>3, SameNames DEF Promise!Retype, Retyped, Takes, TypeMap, RefsMap
    <2>2. QED
      BY <2>1, SameNames DEF Promise!Next
  <1>4. ASSUME NEW k \in Kinds, Acquired(f, k)
        PROVE  Promise!Next
    <2>1. TypeMap' = TypeMap
      BY <1>1, <1>2, <1>4, Zenon DEF Acquired, TypeMap
    <2>2. Promise!Acquire(f)
      BY <1>1, <1>2, <1>4, <2>1, SameNames DEF Promise!Acquire, Acquired, Takes, TypeMap, RefsMap
    <2>3. QED
      BY <2>2 DEF Promise!Next
  <1>5. ASSUME NEW k \in Kinds, Released(f, k)
        PROVE  Promise!Next
    <2>1. TypeMap' = TypeMap
      BY <1>1, <1>2, <1>5, Zenon DEF Released, TypeMap
    <2>2. state_of(table[f]) \in Kinds
      BY <1>5 DEF Released, CountsHold, HandleTyped
    <2>3. Live(f) > BootRefs(f)
      <3>1. refs[f][User] \in Nat /\ refs[f][Kernel] \in Nat /\ BootRefs(f) \in {0, 1}
        BY LiveNat DEF CountsHold
      <3>2. refs[f][User] > 0 \/ refs[f][Kernel] > 0
        BY <1>5 DEF Released, Kinds
      <3>3. QED
        BY <3>1, <3>2 DEF Live
    <2>4. Promise!Release(f)
      BY <1>1, <1>2, <1>5, <2>1, <2>2, <2>3, SameNames
      DEF Promise!Release, Promise!BootRefs, BootRefs, Released, TypeMap, RefsMap
    <2>5. QED
      BY <2>4 DEF Promise!Next
  <1>6. ASSUME Untypes(f)
        PROVE  Promise!Next
    <2>1. RefsMap' = RefsMap
      BY <1>6, SameRefs DEF Untypes, RefsMap
    <2>2. Promise!Untype(f)
      BY <1>1, <1>2, <1>6, <2>1, SameNames DEF Promise!Untype, Untypes, TypeMap, RefsMap
    <2>3. QED
      BY <2>2 DEF Promise!Next
  <1>7. ASSUME UNCHANGED <<table, refs>>
        PROVE  UNCHANGED <<TypeMap, RefsMap>>
    BY <1>7, SameRefs DEF TypeMap, RefsMap
  <1>8. QED
    BY <1>3, <1>4, <1>5, <1>6, <1>7 DEF Outcome

\* Under the same assumptions the table does what docs/Memory Management.md
\* asks of it, about the references that really exist: a frame is typed by its
\* only reference, and becomes untyped only when it has none.
THEOREM TableKeepsPromise ==
  ASSUME RefBound < MAX_REF_COUNT
  PROVE  Spec => PromiseKept
  <1>1. Init => Promise!Init
    <2> SUFFICES ASSUME Init
                 PROVE  Promise!Init
      OBVIOUS
    <2>1. \A f \in Frames : Live(f) = Promise!BootRefs(f)
      BY DEF Init, Live, BootRefs, Promise!BootRefs, Kinds
    <2>2. \A f \in Frames : state_of(table[f]) = Promise!InitialState(f)
      <3>1. 0 \in 0 .. MAX_REF_COUNT /\ 1 \in 0 .. MAX_REF_COUNT
            /\ 0 # MAX_REF_COUNT /\ 1 # MAX_REF_COUNT
        BY MaxRefCountAssumption
      <3>2. Untyped \in State /\ Kernel \in State /\ Unavailable \in State
        BY DEF State
      <3>3. QED
        BY <3>1, <3>2, ValueFor, SameNames DEF Init, InitialWord, Promise!InitialState
    <2>3. QED
      BY <2>1, <2>2 DEF Promise!Init
  <1>2. CountsHold /\ [Next]_vars => [Promise!Next]_<<TypeMap, RefsMap>>
    <2> SUFFICES ASSUME CountsHold, [Next]_vars
                 PROVE  Promise!Next \/ UNCHANGED <<TypeMap, RefsMap>>
      OBVIOUS
    <2>1. CASE Next
      BY <2>1, Outcomes, OutcomeIsPromised
    <2>2. CASE UNCHANGED vars
      BY <2>2, SameRefs DEF vars, TypeMap, RefsMap
    <2>3. QED
      BY <2>1, <2>2
  <1>3. QED
    BY <1>1, <1>2, InitialCounts, CountsInductive, PTL
    DEF Spec, PromiseKept, Promise!Spec, TypeMap, RefsMap
=============================================================================
