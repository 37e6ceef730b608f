--------------------------- MODULE RefCellProofs ---------------------------
(***************************************************************************)
(* AtomicRefCell for any number of threads and any values.                 *)
(***************************************************************************)
EXTENDS RefCell, TLAPS

\* The inductive invariant: state is BORROWED exactly while one thread has a
\* guard.
BorrowInv ==
  /\ state \in {"FREE", "BORROWED"}
  /\ DOMAIN guard = Threads /\ DOMAIN seen = Threads
  /\ \A t \in Threads : guard[t] \in Guards => state = "BORROWED"
  /\ \A t, u \in Threads : guard[t] \in Guards /\ guard[u] \in Guards => t = u
  /\ Undisturbed

\* A new cell satisfies the invariant.
LEMMA BorrowInitial == Init => BorrowInv
  BY DEF Init, BorrowInv, Undisturbed, Guards

\* Borrows, accesses and drops preserve it.
LEMMA BorrowInductive == BorrowInv /\ [Next]_vars => BorrowInv'
  <1> SUFFICES ASSUME BorrowInv, [Next]_vars
               PROVE  BorrowInv'
    OBVIOUS
  <1> USE DEF BorrowInv, Undisturbed, Guards
  <1>1. ASSUME NEW t \in Threads, NEW kind \in Guards, try_borrow(t, kind)
        PROVE  BorrowInv'
    BY <1>1 DEF try_borrow
  <1>2. ASSUME NEW t \in Threads, NEW v \in Values, deref_mut(t, v)
        PROVE  BorrowInv'
    BY <1>2 DEF deref_mut
  <1>3. ASSUME NEW t \in Threads, drop_borrow(t)
        PROVE  BorrowInv'
    BY <1>3 DEF drop_borrow
  <1>4. CASE UNCHANGED vars
    BY <1>4 DEF vars
  <1>5. QED
    BY <1>1, <1>2, <1>3, <1>4 DEF Next

\* A thread with a guard has the cell for itself, and the assertion of
\* drop_borrow never fails.
THEOREM BorrowsAreExclusive == Spec => []Undisturbed
  <1>1. BorrowInv => Undisturbed
    BY DEF BorrowInv
  <1>2. QED
    BY <1>1, BorrowInitial, BorrowInductive, PTL DEF Spec
=============================================================================
