--------------------------- MODULE LazyCellProofs ---------------------------
(***************************************************************************)
(* AtomicLazyCell for any number of threads and any values.                *)
(***************************************************************************)
EXTENDS LazyCell, TLAPS

InClosure(t) == pc[t] \in {"take", "fun", "write", "store"}

\* The inductive invariant.  That the closure finds fun needs that fun is
\* there as long as init is 0, and that init never goes back to 0: not even
\* when fun panics.
LazyInv ==
  /\ init \in 0..2
  /\ pc \in [Threads -> {"idle", "take", "fun", "write", "store", "spin", "dead"}]
  /\ DOMAIN arg = Threads /\ DOMAIN res = Threads
  /\ \A t \in Threads : InClosure(t) => init = 1
  /\ \A t \in Threads : pc[t] \in {"fun", "write", "store"} => arg[t] \in Values
  /\ \A t \in Threads : pc[t] = "store" => value = arg[t]
  /\ init = 0 => fun = "Some"
  /\ init = 2 => value \in Values
  /\ SharedIsWritten
  /\ FunRunsOnce

\* A new cell satisfies the invariant.
LEMMA LazyInitial == LazyInit => LazyInv
  BY ValuesAssumption
  DEF LazyInit, Init, LazyInv, InClosure, SharedIsWritten, FunRunsOnce

\* Every step of get preserves it, with the panic of fun.
LEMMA LazyInductive == LazyInv /\ [LazyNext]_lvars => LazyInv'
  <1> SUFFICES ASSUME LazyInv, [LazyNext]_lvars
               PROVE  LazyInv'
    OBVIOUS
  <1> USE DEF LazyInv, InClosure, SharedIsWritten, FunRunsOnce
  <1>1. ASSUME NEW t \in Threads, lazy_get(t)
        PROVE  LazyInv'
    <2>1. CASE init = 0
      BY <1>1, <2>1 DEF lazy_get, exchange
    <2>2. CASE init # 0
      BY <1>1, <2>2 DEF lazy_get, exchange
    <2>3. QED
      BY <2>1, <2>2
  <1>2. ASSUME NEW t \in Threads, take(t)
        PROVE  LazyInv'
    <2>1. (CHOOSE v \in Values : TRUE) \in Values
      BY LazyAssumption
    <2>2. QED
      BY <1>2, <2>1 DEF take
  <1>3. ASSUME NEW t \in Threads, lazy_write(t)
        PROVE  LazyInv'
    BY <1>3 DEF lazy_write, write
  <1>4. ASSUME NEW t \in Threads, lazy_written(t)
        PROVE  LazyInv'
    BY <1>4 DEF lazy_written, written
  <1>5. ASSUME NEW t \in Threads, lazy_publish(t)
        PROVE  LazyInv'
    BY <1>5 DEF lazy_publish, publish
  <1>6. ASSUME NEW t \in Threads, lazy_unwind(t)
        PROVE  LazyInv'
    BY <1>6 DEF lazy_unwind, unwind
  <1>7. ASSUME NEW t \in Threads, spin(t)
        PROVE  LazyInv'
    BY <1>7 DEF spin
  <1>8. ASSUME NEW t \in Threads, spin_again(t)
        PROVE  LazyInv'
    BY <1>8 DEF spin_again, lvars, vars
  <1>9. CASE UNCHANGED lvars
    BY <1>9 DEF lvars, vars
  <1>10. QED
    BY <1>1, <1>2, <1>3, <1>4, <1>5, <1>6, <1>7, <1>8, <1>9 DEF LazyNext, InGet

\* fun runs at most once, the panic of the closure's None arm is unreachable,
\* and get returns wholly written values.
THEOREM LazyCellSafe == LazySpec => [](FunRunsOnce /\ SharedIsWritten)
  <1>1. LazyInv => FunRunsOnce /\ SharedIsWritten
    BY DEF LazyInv
  <1>2. QED
    BY <1>1, LazyInitial, LazyInductive, PTL DEF LazySpec
=============================================================================
