---------------------------- MODULE RetypeEntry ----------------------------
(***************************************************************************)
(* One entry of the retype table: a 16-bit word whose two high bits hold   *)
(* the state of a frame and whose low COUNTER_BITS hold its reference      *)
(* count.  Each operator is the function one atomic read-modify-write of   *)
(* the entry applies to the word; None is the closure refusing the update. *)
(***************************************************************************)
EXTENDS FrameState

\* (1 << COUNTER_BITS) - 1, which is 16383 in the code.
CONSTANT MAX_REF_COUNT

ASSUME MaxRefCountAssumption == MAX_REF_COUNT \in Nat /\ MAX_REF_COUNT > 1

\* 1 << COUNTER_BITS
Span == MAX_REF_COUNT + 1

Word == 0 .. (4 * Span - 1)

None == -1

\* The remainder is by MAX_REF_COUNT and not by Span, as in the code: a counter
\* of MAX_REF_COUNT is encoded as 0.
value_for(state, counter) == (state * Span) + (counter % MAX_REF_COUNT)

state_of(value) == value \div Span

counter_of(value) == value % Span

\* Mutant: the saturation test is missing, the carry reaches the state bits.
increment_unguarded(value) == value + 1

increment(value) ==
  IF counter_of(value) = MAX_REF_COUNT THEN None ELSE value + 1

\* Mutant: the test for zero is missing, the borrow reaches the state bits.
decrement_unguarded(value) == value - 1

decrement(value) ==
  IF counter_of(value) = 0 THEN None ELSE value - 1

\* Mutant: the caller's expectation of the state is not tested.
get_any_and_increment(value, wants) ==
  IF counter_of(value) < MAX_REF_COUNT
  THEN value_for(state_of(value), counter_of(value) + 1)
  ELSE None

get_as_and_increment(value, wants) ==
  IF wants = state_of(value) /\ counter_of(value) < MAX_REF_COUNT
  THEN value_for(state_of(value), counter_of(value) + 1)
  ELSE None

\* Mutant: the exchange compares the state and ignores the counter.
retype_any_count(value, from, to, from_counter, to_counter) ==
  IF state_of(value) = from THEN value_for(to, to_counter) ELSE None

retype(value, from, to, from_counter, to_counter) ==
  IF value = value_for(from, from_counter)
  THEN value_for(to, to_counter)
  ELSE None
=============================================================================
