------------------------------ MODULE RefCell -------------------------------
(***************************************************************************)
(* AtomicRefCell<T> (sync/src/cell/atomic_ref_cell.rs): borrows checked at *)
(* run time, by several threads.  Shared borrows are exclusive too.        *)
(***************************************************************************)
CONSTANTS Threads,
          Values,    \* the values of type T
          Initial,   \* the one the cell is created with
          NoGuard    \* not a value

ASSUME RefCellAssumption == Initial \in Values /\ NoGuard \notin Values

VARIABLES
  state,     \* the AtomicU8: "FREE" or "BORROWED"
  data,      \* the UnsafeCell
  guard,     \* guard[t]: the guard thread t holds, "none", or the last error
  seen,      \* seen[t]: what t last read or wrote through its guard
  asserted   \* the assertion of drop_borrow has held so far

vars == <<state, data, guard, seen, asserted>>

Guards == {"Ref", "RefMut"}
Errors == {"AlreadyBorrowed"}

Init ==
  /\ state = "FREE"
  /\ data = Initial
  /\ guard = [t \in Threads |-> "none"]
  /\ seen = [t \in Threads |-> NoGuard]
  /\ asserted = TRUE

\* Mutant: a load and a store instead of the exchange, with the load stale.
try_borrow_stale(t, kind) ==
  /\ guard[t] \notin Guards
  /\ state' = "BORROWED"
  /\ guard' = [guard EXCEPT ![t] = kind]
  /\ seen' = [seen EXCEPT ![t] = data]
  /\ UNCHANGED <<data, asserted>>

\* borrow and borrow_mut: the exchange of try_borrow, and the first access
\* through the guard or the error.
try_borrow(t, kind) ==
  /\ guard[t] \notin Guards
  /\ \/ /\ state = "FREE"
        /\ state' = "BORROWED"
        /\ guard' = [guard EXCEPT ![t] = kind]
        /\ seen' = [seen EXCEPT ![t] = data]
     \/ /\ state # "FREE"
        /\ guard' = [guard EXCEPT ![t] = "AlreadyBorrowed"]
        /\ UNCHANGED <<state, seen>>
  /\ UNCHANGED <<data, asserted>>

deref_mut(t, v) ==
  /\ guard[t] = "RefMut"
  /\ data' = v
  /\ seen' = [seen EXCEPT ![t] = v]
  /\ UNCHANGED <<state, guard, asserted>>

\* The guard's Drop: drop_borrow swaps in FREE and asserts on what was there.
drop_borrow(t) ==
  /\ guard[t] \in Guards
  /\ state' = "FREE"
  /\ asserted' = (asserted /\ state = "BORROWED")
  /\ guard' = [guard EXCEPT ![t] = "none"]
  /\ seen' = [seen EXCEPT ![t] = NoGuard]
  /\ UNCHANGED data

Next ==
  \E t \in Threads :
    \/ \E kind \in Guards : try_borrow(t, kind)
    \/ \E v \in Values : deref_mut(t, v)
    \/ drop_borrow(t)

Spec == Init /\ [][Next]_vars

-----------------------------------------------------------------------------
\* What test threaded_mutability asserts: what a thread reads through its
\* guard is what it read or wrote through it before, whatever the others do; and
\* the assertion of drop_borrow never fails.
Undisturbed ==
  /\ \A t \in Threads : guard[t] \in Guards => seen[t] = data
  /\ asserted
=============================================================================
