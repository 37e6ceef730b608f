------------------------------ MODULE LazyCell ------------------------------
(***************************************************************************)
(* AtomicLazyCell<T, F> (sync/src/cell/atomic_lazy_cell.rs): a once cell   *)
(* whose value is computed by `fun' on the first access.  It holds PMO,    *)
(* the GDT, TSS and IDT, the serial port and the log level.                *)
(***************************************************************************)
EXTENDS OnceCell

\* fun has something to return.
ASSUME LazyAssumption == Values # {}

VARIABLE fun         \* the Cell<Option<F>>: "Some" or "None"

lvars == <<vars, fun>>

LazyInit == Init /\ fun = "Some"

\* get(): set_with, whatever it returns; then the loop.
lazy_get(t) ==
  /\ pc[t] = "idle"
  /\ exchange(t, "take", "spin")
  /\ UNCHANGED <<value, arg, shared, fun>>

\* The closure takes fun out of the Cell, which has no synchronization of its
\* own; without it, it panics.
take(t) ==
  /\ pc[t] = "take"
  /\ fun' = "None"
  /\ pc' = [pc EXCEPT ![t] = IF fun = "Some" THEN "fun" ELSE "dead"]
  /\ arg' = [arg EXCEPT ![t] = CHOOSE v \in Values : TRUE]
  /\ UNCHANGED <<init, value, res, shared>>

lazy_write(t) == write(t) /\ UNCHANGED fun
lazy_written(t) == written(t) /\ UNCHANGED fun

\* Mutant: the panicking initializer's thread puts init back to 0.
unwind_reset(t) ==
  /\ pc[t] = "fun"
  /\ init' = 0
  /\ pc' = [pc EXCEPT ![t] = "dead"]
  /\ UNCHANGED <<value, arg, res, shared, fun>>

lazy_unwind(t) == unwind(t) /\ UNCHANGED fun

\* Mutant: the store(2) is left out.
unpublished(t) ==
  /\ pc[t] = "store"
  /\ res' = [res EXCEPT ![t] = "Ok"]
  /\ pc' = [pc EXCEPT ![t] = "spin"]
  /\ UNCHANGED <<init, value, arg, shared, fun>>

lazy_publish(t) == publish(t, "spin") /\ UNCHANGED fun

\* Mutant: the loop ends once the initialization has begun.
spin_started(t) ==
  /\ pc[t] = "spin"
  /\ init # 0
  /\ shared' = shared \cup {t}
  /\ pc' = [pc EXCEPT ![t] = "idle"]
  /\ UNCHANGED <<init, value, arg, res, fun>>

\* The turn of the loop in which inner.get() is Some, and get returns.
spin(t) ==
  /\ pc[t] = "spin"
  /\ init = 2
  /\ shared' = shared \cup {t}
  /\ pc' = [pc EXCEPT ![t] = "idle"]
  /\ UNCHANGED <<init, value, arg, res, fun>>

\* The turn in which it is None.
spin_again(t) ==
  /\ pc[t] = "spin"
  /\ init # 2
  /\ UNCHANGED lvars

\* What a thread does inside get until it returns or unwinds.
InGet(t) ==
  \/ take(t)
  \/ lazy_write(t)
  \/ lazy_written(t)
  \/ lazy_publish(t)
  \/ lazy_unwind(t)
  \/ spin(t)
  \/ spin_again(t)

LazyNext == \E t \in Threads : lazy_get(t) \/ InGet(t)

\* Threads in get keep running: `fun' returns or panics, and the spinning
\* threads are scheduled.
LazySpec == LazyInit /\ [][LazyNext]_lvars /\ \A t \in Threads : WF_lvars(InGet(t))

-----------------------------------------------------------------------------
\* "this is properly synchronized, so it only happens once": two threads are
\* never in the closure at once, and the one that is in it finds fun, so that
\* fun runs at most once and the panic of the None arm is never reached.
FunRunsOnce ==
  /\ \A t, u \in Threads :
       /\ pc[t] \in {"take", "fun", "write", "store"}
       /\ pc[u] \in {"take", "fun", "write", "store"}
       => t = u
  /\ \A t \in Threads : pc[t] = "take" => fun = "Some"

\* A get that has lost the race returns the value another thread computes,
\* unless the initializer panics.
EndsUnlessPoisoned ==
  \A t \in Threads : pc[t] = "spin" ~> pc[t] # "spin" \/ \E u \in Threads : pc[u] = "dead"
=============================================================================
