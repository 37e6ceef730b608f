--------------------------- MODULE OnceCellProofs ---------------------------
(***************************************************************************)
(* AtomicOnceCell for any number of threads and any values.                *)
(***************************************************************************)
EXTENDS OnceCell, TLAPS

Writing(t) == pc[t] \in {"fun", "write", "store"}

\* The inductive invariant.  SharedIsWritten needs that init is 2 only when
\* the value is written; that needs that init stays 1, and nobody else comes
\* in, while a thread is between the exchange and the store.
OnceInv ==
  /\ TypeOK
  /\ OneWriter
  /\ \A t \in Threads : Writing(t) => init = 1 /\ arg[t] \in Values
  /\ \A t \in Threads : pc[t] = "store" => value = arg[t]
  /\ init = 2 => value \in Values
  /\ SharedIsWritten
  /\ ResultsHold

\* A new cell satisfies the invariant.
LEMMA OnceInitial == Init => OnceInv
  BY ValuesAssumption
  DEF Init, OnceInv, TypeOK, OneWriter, Writing, SharedIsWritten, ResultsHold, Results

\* Whatever set_with, get and the unwinding of a panic do preserves it.
LEMMA OnceInductive == OnceInv /\ [Next]_vars => OnceInv'
  <1> SUFFICES ASSUME OnceInv, [Next]_vars
               PROVE  OnceInv'
    OBVIOUS
  <1> USE DEF OnceInv
  <1>1. ASSUME NEW t \in Threads, NEW v \in Values, set_with(t, v)
        PROVE  OnceInv'
    <2>1. TypeOK'
      BY <1>1 DEF set_with, exchange, TypeOK, Results
    <2>2. CASE init = 0
      BY <1>1, <2>1, <2>2
      DEF set_with, exchange, TypeOK, OneWriter, Writing, SharedIsWritten, ResultsHold
    <2>3. CASE init # 0
      BY <1>1, <2>1, <2>3
      DEF set_with, exchange, TypeOK, OneWriter, Writing, SharedIsWritten, ResultsHold
    <2>4. QED
      BY <2>2, <2>3
  <1>2. ASSUME NEW t \in Threads, write(t)
        PROVE  OnceInv'
    BY <1>2 DEF write, TypeOK, OneWriter, Writing, SharedIsWritten, ResultsHold
  <1>3. ASSUME NEW t \in Threads, written(t)
        PROVE  OnceInv'
    BY <1>3 DEF written, TypeOK, OneWriter, Writing, SharedIsWritten, ResultsHold
  <1>4. ASSUME NEW t \in Threads, publish(t, "idle")
        PROVE  OnceInv'
    BY <1>4 DEF publish, TypeOK, OneWriter, Writing, SharedIsWritten, ResultsHold, Results
  <1>5. ASSUME NEW t \in Threads, unwind(t)
        PROVE  OnceInv'
    BY <1>5 DEF unwind, TypeOK, OneWriter, Writing, SharedIsWritten, ResultsHold
  <1>6. ASSUME NEW t \in Threads, get(t)
        PROVE  OnceInv'
    BY <1>6 DEF get, TypeOK, OneWriter, Writing, SharedIsWritten, ResultsHold
  <1>7. CASE UNCHANGED vars
    BY <1>7 DEF vars, TypeOK, OneWriter, Writing, SharedIsWritten, ResultsHold
  <1>8. QED
    BY <1>1, <1>2, <1>3, <1>4, <1>5, <1>6, <1>7 DEF Next

\* A reference from get always points to a wholly written value, one thread at
\* a time is between the exchange and the store, and what set_with returned
\* stays true.
THEOREM OnceCellSafe == Spec => [](SharedIsWritten /\ OneWriter /\ ResultsHold)
  <1>1. OnceInv => SharedIsWritten /\ OneWriter /\ ResultsHold
    BY DEF OnceInv
  <1>2. QED
    BY <1>1, OnceInitial, OnceInductive, PTL DEF Spec

\* Once init is 2, neither it nor the value changes any more: every reference
\* get has given out stays good.
THEOREM ValueIsFinal == Spec => Immutable
  <1>1. OnceInv /\ [Next]_vars => [init = 2 => UNCHANGED cell]_vars
    BY DEF OnceInv, Next, Writing, set_with, exchange, write, written, publish,
           unwind, get, cell, vars
  <1>2. QED
    BY <1>1, OnceInitial, OnceInductive, PTL DEF Spec, Immutable
=============================================================================
