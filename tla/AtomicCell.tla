----------------------------- MODULE AtomicCell -----------------------------
(***************************************************************************)
(* AtomicCell<T> (sync/src/cell/atomic_cell.rs): a value behind a spin     *)
(* lock.  The value is more than a machine word (CapSlot, the T of the     *)
(* kernel, is a child pointer and a resource), so reading and writing it   *)
(* takes a step per field.                                                 *)
(***************************************************************************)
CONSTANTS Threads,
          Words,     \* the contents of a field
          NoWord,    \* not the content of a field
          Initial    \* the value the cell is created with

Fields == {1, 2}
Values == [Fields -> Words]
NoValue == [i \in Fields |-> NoWord]

ASSUME WordsAssumption == NoWord \notin Words
ASSUME InitialAssumption == Initial \in Values

VARIABLES
  locked,    \* the AtomicBool
  value,     \* the UnsafeCell
  call,      \* call[t]: the operation thread t is in
  pc,        \* pc[t]: where in spin_lock it is
  out        \* out[t]: what the closure read from the cell so far

vars == <<locked, value, call, pc, out>>

Get == [op |-> "get"]
Replace(v) == [op |-> "replace", value |-> v]
None == [op |-> "none"]
Ops == {Get} \cup {Replace(v) : v \in Values}

Init ==
  /\ locked = FALSE
  /\ value = Initial
  /\ call = [t \in Threads |-> None]
  /\ pc = [t \in Threads |-> "idle"]
  /\ out = [t \in Threads |-> NoValue]

\* A thread calls get or get_cloned, or replace or set (which drops the old
\* value instead of returning it).
invoke(t, op) ==
  /\ pc[t] = "idle"
  /\ call' = [call EXCEPT ![t] = op]
  /\ pc' = [pc EXCEPT ![t] = "lock"]
  /\ UNCHANGED <<locked, value, out>>

\* Mutant: the exchange is a store, whoever holds the lock.
lock_unconditional(t) ==
  /\ pc[t] = "lock"
  /\ locked' = TRUE
  /\ pc' = [pc EXCEPT ![t] = "field1"]
  /\ UNCHANGED <<value, call, out>>

\* The compare_exchange_weak that succeeds, ...
lock(t) ==
  /\ pc[t] = "lock"
  /\ ~locked
  /\ locked' = TRUE
  /\ pc' = [pc EXCEPT ![t] = "field1"]
  /\ UNCHANGED <<value, call, out>>

\* ... and the one that fails, because of the lock or, being weak, without a
\* reason, after which the loop goes on.
lock_spins(t) ==
  /\ pc[t] = "lock"
  /\ UNCHANGED vars

\* The closure reads a field and, in replace, writes it.
Access(t, i) ==
  /\ out' = [out EXCEPT ![t][i] = value[i]]
  /\ value' = IF call[t] = Get THEN value ELSE [value EXCEPT ![i] = call[t].value[i]]
  /\ UNCHANGED <<locked, call>>

first_field(t) ==
  /\ pc[t] = "field1"
  /\ pc' = [pc EXCEPT ![t] = "field2"]
  /\ Access(t, 1)

second_field(t) ==
  /\ pc[t] = "field2"
  /\ pc' = [pc EXCEPT ![t] = "unlock"]
  /\ Access(t, 2)

\* Mutant: spin_lock returns without unlock.
unlock_forgotten(t) ==
  /\ pc[t] = "unlock"
  /\ pc' = [pc EXCEPT ![t] = "idle"]
  /\ call' = [call EXCEPT ![t] = None]
  /\ out' = [out EXCEPT ![t] = NoValue]
  /\ UNCHANGED <<locked, value>>

unlock(t) ==
  /\ pc[t] = "unlock"
  /\ locked' = FALSE
  /\ pc' = [pc EXCEPT ![t] = "idle"]
  /\ call' = [call EXCEPT ![t] = None]
  /\ out' = [out EXCEPT ![t] = NoValue]
  /\ UNCHANGED value

Inside(t) == lock(t) \/ lock_spins(t) \/ first_field(t) \/ second_field(t) \/ unlock(t)

Next == \E t \in Threads : (\E op \in Ops : invoke(t, op)) \/ Inside(t)

Spec == Init /\ [][Next]_vars

\* Every thread that is in a call keeps running, and its exchange does not fail
\* for ever without a reason.
FairSpec == Spec /\ \A t \in Threads : WF_vars(Inside(t))

-----------------------------------------------------------------------------
InLock(t) == pc[t] \in {"field1", "field2", "unlock"}

\* The cell holds a value of T at all times, whatever replace writes to it, and
\* so does what a closure has read of it.
TypeOK ==
  /\ locked \in BOOLEAN
  /\ value \in Values
  /\ call \in [Threads -> Ops \cup {None}]
  /\ pc \in [Threads -> {"idle", "lock", "field1", "field2", "unlock"}]
  /\ out \in [Threads -> [Fields -> Words \cup {NoWord}]]

\* The closure of spin_lock has the cell for itself: the lock is taken exactly
\* while one thread is between lock and unlock.
Exclusive ==
  /\ \A t, u \in Threads : InLock(t) /\ InLock(u) => t = u
  /\ locked <=> \E t \in Threads : InLock(t)

\* The register the cell implements: the value before the call that is
\* writing it, and the results of the calls that have taken effect.
Writer(t) == pc[t] = "field2" /\ call[t] # Get

Reg ==
  [i \in Fields |->
     IF i = 1 /\ \E t \in Threads : Writer(t)
     THEN out[CHOOSE t \in Threads : Writer(t)][1]
     ELSE value[i]]

Ret == [t \in Threads |-> IF pc[t] = "unlock" THEN out[t] ELSE NoValue]

Register == INSTANCE AtomicRegister WITH reg <- Reg, ret <- Ret

\* Every get and replace behaves as if it happened at once: no thread sees a
\* half-written value or loses a write.
Atomic == Register!Spec

\* Whenever a thread wants the cell, some thread gets it.
SomebodyProceeds == (\E t \in Threads : pc[t] = "lock") ~> (\E t \in Threads : InLock(t))
=============================================================================
