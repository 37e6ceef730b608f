------------------------------ MODULE OnceCell ------------------------------
(***************************************************************************)
(* AtomicOnceCell<T> (sync/src/cell/atomic_once_cell.rs): a cell that is   *)
(* written at most once, by any of several threads, and read by all.  It   *)
(* holds RETYPE_TABLE and ACTIVE_THREAD.  Writing the value is not atomic. *)
(***************************************************************************)
EXTENDS Naturals

CONSTANTS Threads,
          Values,    \* the values of type T
          Uninit,    \* MaybeUninit::uninit()
          Torn       \* a value that is being written

ASSUME ValuesAssumption == Uninit \notin Values /\ Torn \notin Values /\ Uninit # Torn

VARIABLES
  init,    \* the AtomicU8: 0 empty, 1 initializing, 2 initialized
  value,   \* the UnsafeCell
  pc,      \* pc[t]: where in set_with thread t is
  arg,     \* arg[t]: the value its last set_with was to write
  res,     \* res[t]: what its last set_with returned
  shared   \* the threads that hold a &T from get

cell == <<init, value>>
vars == <<init, value, pc, arg, res, shared>>

Results == {"none", "Ok", "Initializing", "AlreadyInit"}

Init ==
  /\ init = 0
  /\ value = Uninit
  /\ pc = [t \in Threads |-> "idle"]
  /\ arg = [t \in Threads |-> Uninit]
  /\ res = [t \in Threads |-> "none"]
  /\ shared = {}

\* Mutant: the exchange expects any state but initialized.
exchange_unless_done(t, won, lost) ==
  IF init # 2
  THEN /\ init' = 1
       /\ pc' = [pc EXCEPT ![t] = won]
       /\ UNCHANGED res
  ELSE /\ pc' = [pc EXCEPT ![t] = lost]
       /\ res' = [res EXCEPT ![t] = "AlreadyInit"]
       /\ UNCHANGED init

\* The compare_exchange(0, 1) at the head of set_with: the thread goes on to
\* `won', or set_with returns its error and the thread goes on to `lost'.
exchange(t, won, lost) ==
  \/ /\ init = 0
     /\ init' = 1
     /\ pc' = [pc EXCEPT ![t] = won]
     /\ UNCHANGED res
  \/ /\ init # 0
     /\ pc' = [pc EXCEPT ![t] = lost]
     /\ res' = [res EXCEPT ![t] = IF init = 1 THEN "Initializing" ELSE "AlreadyInit"]
     /\ UNCHANGED init

set_with(t, v) ==
  /\ pc[t] = "idle"
  /\ exchange(t, "fun", "idle")
  /\ arg' = [arg EXCEPT ![t] = v]
  /\ UNCHANGED <<value, shared>>

\* fun returns and the write of its value begins, ...
write(t) ==
  /\ pc[t] = "fun"
  /\ value' = Torn
  /\ pc' = [pc EXCEPT ![t] = "write"]
  /\ UNCHANGED <<init, arg, res, shared>>

\* ... and ends.
written(t) ==
  /\ pc[t] = "write"
  /\ value' = arg[t]
  /\ pc' = [pc EXCEPT ![t] = "store"]
  /\ UNCHANGED <<init, arg, res, shared>>

\* The store(2), after which set_with returns Ok.
publish(t, next) ==
  /\ pc[t] = "store"
  /\ init' = 2
  /\ res' = [res EXCEPT ![t] = "Ok"]
  /\ pc' = [pc EXCEPT ![t] = next]
  /\ UNCHANGED <<value, arg, shared>>

\* fun panics: the thread unwinds and leaves init as it is.
unwind(t) ==
  /\ pc[t] = "fun"
  /\ pc' = [pc EXCEPT ![t] = "dead"]
  /\ UNCHANGED <<init, value, arg, res, shared>>

\* Mutant: get tests for the start of the initialization.
get_started(t) ==
  /\ pc[t] = "idle"
  /\ init # 0
  /\ shared' = shared \cup {t}
  /\ UNCHANGED <<init, value, pc, arg, res>>

\* get hands out a reference once init is 2, and None before.
get(t) ==
  /\ pc[t] = "idle"
  /\ init = 2
  /\ shared' = shared \cup {t}
  /\ UNCHANGED <<init, value, pc, arg, res>>

Next ==
  \E t \in Threads :
    \/ \E v \in Values : set_with(t, v)
    \/ write(t)
    \/ written(t)
    \/ publish(t, "idle")
    \/ unwind(t)
    \/ get(t)

Spec == Init /\ [][Next]_vars

-----------------------------------------------------------------------------
\* The cell is in one of the three states that set_with knows (it panics on
\* any other), and the threads are where the code has them.
TypeOK ==
  /\ init \in 0..2
  /\ value \in Values \cup {Uninit, Torn}
  /\ pc \in [Threads -> {"idle", "fun", "write", "store", "dead"}]
  /\ arg \in [Threads -> Values \cup {Uninit}]
  /\ res \in [Threads -> Results]
  /\ shared \subseteq Threads

\* "from now on, we only provide shared references": no thread holds a
\* reference to a value that is not wholly written.
SharedIsWritten == shared # {} => init = 2 /\ value \in Values

\* At most one thread is between the exchange and the store.
OneWriter ==
  \A t, u \in Threads :
    pc[t] \in {"fun", "write", "store"} /\ pc[u] \in {"fun", "write", "store"} => t = u

\* What set_with returned stays true: the value of the thread that got Ok is
\* the cell's for ever, AlreadyInit means get succeeds from then on, and
\* Initializing means that somebody else has begun.
ResultsHold ==
  \A t \in Threads :
    /\ res[t] = "Ok" => init = 2 /\ value = arg[t]
    /\ res[t] = "AlreadyInit" => init = 2
    /\ res[t] = "Initializing" => init # 0

\* The value a reference points to never changes under it.
Immutable == [][init = 2 => UNCHANGED cell]_vars
=============================================================================
