-------------------------- MODULE AtomicCellProofs --------------------------
(***************************************************************************)
(* AtomicCell for any number of threads and any two-field values.          *)
(***************************************************************************)
EXTENDS AtomicCell, TLAPS

\* The inductive invariant: with the lock exclusive, the thread that holds it
\* has read exactly the fields it is past, and a replace has written them.
CellInv ==
  /\ TypeOK
  /\ Exclusive
  /\ \A t \in Threads :
       /\ call[t] = None <=> pc[t] = "idle"
       /\ pc[t] \in {"idle", "lock", "field1"} => out[t] = NoValue
       /\ pc[t] = "field2" =>
            /\ out[t][1] \in Words /\ out[t][2] = NoWord
            /\ value[1] = IF call[t] = Get THEN out[t][1] ELSE call[t].value[1]
       /\ pc[t] = "unlock" => out[t] \in Values

\* A call is a get, a replace with a value, or none.
LEMMA OpShapes ==
  /\ Get # None
  /\ Get \in Ops
  /\ \A op \in Ops : op # None /\ (op # Get => op.value \in Values)
  <1>1. \A v \in Values : Replace(v) # None /\ Replace(v) # Get /\ Replace(v).value = v
    BY DEF Replace, None, Get
  <1>2. QED
    BY <1>1 DEF Ops, Get, None, Replace

\* Two fields that hold words are a value, and determine it.
LEMMA TwoFields ==
  ASSUME NEW f \in [Fields -> Words \cup {NoWord}]
  PROVE  /\ f[1] \in Words /\ f[2] \in Words => f \in Values
         /\ \A g \in [Fields -> Words \cup {NoWord}] :
              f[1] = g[1] /\ f[2] = g[2] => f = g
  <1>1. \A i \in Fields : i = 1 \/ i = 2
    BY DEF Fields
  <1>2. ASSUME f[1] \in Words, f[2] \in Words
        PROVE  f \in Values
    <2>1. \A i \in Fields : f[i] \in Words
      BY <1>1, <1>2
    <2>2. QED
      BY <2>1 DEF Values
  <1>3. ASSUME NEW g \in [Fields -> Words \cup {NoWord}], f[1] = g[1], f[2] = g[2]
        PROVE  f = g
    <2>1. \A i \in Fields : f[i] = g[i]
      BY <1>1, <1>3
    <2>2. QED
      BY <2>1
  <1>4. QED
    BY <1>2, <1>3

\* A new cell satisfies the invariant.
LEMMA CellInitial == Init => CellInv
  <1> SUFFICES ASSUME Init
               PROVE  CellInv
    OBVIOUS
  <1>1. NoValue \in [Fields -> Words \cup {NoWord}]
    BY DEF NoValue
  <1>2. TypeOK
    BY <1>1, InitialAssumption, Zenon DEF Init, TypeOK
  <1>3. Exclusive
    BY DEF Init, Exclusive, InLock
  <1>4. QED
    BY <1>2, <1>3 DEF Init, CellInv

\* One access reads a field and, in replace, writes it.
LEMMA Accesses ==
  ASSUME TypeOK, NEW t \in Threads, NEW i \in Fields, call[t] # None, Access(t, i)
  PROVE  /\ value' \in Values
         /\ \A j \in Fields : j # i => value'[j] = value[j]
         /\ value'[i] = IF call[t] = Get THEN value[i] ELSE call[t].value[i]
         /\ out' \in [Threads -> [Fields -> Words \cup {NoWord}]]
         /\ out'[t][i] = value[i]
         /\ \A j \in Fields : j # i => out'[t][j] = out[t][j]
         /\ \A u \in Threads : u # t => out'[u] = out[u]
  <1>1. call[t] # Get => call[t].value \in Values
    BY OpShapes DEF TypeOK
  <1>2. QED
    BY <1>1 DEF Access, TypeOK, Values

\* Every step of a thread preserves the invariant.
LEMMA CellInductive == CellInv /\ [Next]_vars => CellInv'
  <1> SUFFICES ASSUME CellInv, [Next]_vars
               PROVE  CellInv'
    OBVIOUS
  <1> USE DEF CellInv
  <1>1. ASSUME NEW t \in Threads, NEW op \in Ops, invoke(t, op)
        PROVE  CellInv'
    BY <1>1, OpShapes DEF invoke, TypeOK, Exclusive, InLock
  <1>2. ASSUME NEW t \in Threads, lock(t)
        PROVE  CellInv'
    BY <1>2 DEF lock, TypeOK, Exclusive, InLock
  <1>3. ASSUME NEW t \in Threads, first_field(t)
        PROVE  CellInv'
    <2>1. call[t] # None /\ 1 \in Fields /\ 2 \in Fields /\ Access(t, 1)
      BY <1>3 DEF first_field, Fields
    <2>2. /\ value' \in Values
          /\ value'[1] = IF call[t] = Get THEN value[1] ELSE call[t].value[1]
          /\ out' \in [Threads -> [Fields -> Words \cup {NoWord}]]
          /\ out'[t][1] = value[1] /\ out'[t][2] = out[t][2]
          /\ \A u \in Threads : u # t => out'[u] = out[u]
      BY <2>1, Accesses
    <2>3. out[t][2] = NoWord /\ value[1] \in Words
      BY <1>3, <2>1 DEF first_field, NoValue, TypeOK, Values
    <2>4. TypeOK' /\ Exclusive'
      BY <1>3, <2>1, <2>2 DEF first_field, Access, TypeOK, Exclusive, InLock
    <2>5. QED
      BY <1>3, <2>1, <2>2, <2>3, <2>4
      DEF first_field, Access, TypeOK, Exclusive, InLock
  <1>4. ASSUME NEW t \in Threads, second_field(t)
        PROVE  CellInv'
    <2>1. call[t] # None /\ 1 \in Fields /\ 2 \in Fields /\ Access(t, 2)
      BY <1>4 DEF second_field, Fields
    <2>2. /\ value' \in Values
          /\ out' \in [Threads -> [Fields -> Words \cup {NoWord}]]
          /\ out'[t][2] = value[2] /\ out'[t][1] = out[t][1]
          /\ \A u \in Threads : u # t => out'[u] = out[u]
      BY <2>1, Accesses
    <2>3. out'[t] \in Values
      <3>1. out'[t] \in [Fields -> Words \cup {NoWord}]
        BY <2>2
      <3>2. out'[t][1] \in Words /\ out'[t][2] \in Words
        BY <1>4, <2>1, <2>2 DEF second_field, TypeOK, Values
      <3>3. QED
        BY <3>1, <3>2, TwoFields
    <2>4. TypeOK' /\ Exclusive'
      BY <1>4, <2>1, <2>2 DEF second_field, Access, TypeOK, Exclusive, InLock
    <2>5. QED
      BY <1>4, <2>1, <2>2, <2>3, <2>4
      DEF second_field, Access, TypeOK, Exclusive, InLock
  <1>5. ASSUME NEW t \in Threads, unlock(t)
        PROVE  CellInv'
    <2>1. NoValue \in [Fields -> Words \cup {NoWord}]
      BY DEF NoValue
    <2>2. QED
      BY <1>5, <2>1, Zenon DEF unlock, TypeOK, Exclusive, InLock
  <1>6. CASE UNCHANGED vars
    BY <1>6 DEF vars, TypeOK, Exclusive, InLock
  <1>7. QED
    BY <1>1, <1>2, <1>3, <1>4, <1>5, <1>6 DEF Next, Inside, lock_spins

\* The closure of spin_lock has the cell for itself.
THEOREM LockIsExclusive == Spec => []Exclusive
  <1>1. CellInv => Exclusive
    BY DEF CellInv
  <1>2. QED
    BY <1>1, CellInitial, CellInductive, PTL DEF Spec

-----------------------------------------------------------------------------
(* The register the cell implements.                                       *)

\* The operations and the absence of one are the same in AtomicRegister.
LEMMA SameNames ==
  /\ Register!None = None
  /\ Register!Get = Get
  /\ Register!Ops = Ops
  BY DEF Register!None, Register!Get, Register!Ops, Register!Replace,
         None, Get, Ops, Replace

\* With a replace between its two writes, the register still has the first
\* field that it read; otherwise the register is the value.
RegFact ==
  /\ \A t \in Threads :
       Writer(t) => Reg = [i \in Fields |-> IF i = 1 THEN out[t][1] ELSE value[i]]
  /\ (\A t \in Threads : ~ Writer(t)) => Reg = value

\* The mapping of the register is well defined: at most one thread is writing.
LEMMA RegIs == CellInv => RegFact
  <1> SUFFICES ASSUME CellInv
               PROVE  RegFact
    OBVIOUS
  <1>1. ASSUME NEW t \in Threads, Writer(t)
        PROVE  Reg = [i \in Fields |-> IF i = 1 THEN out[t][1] ELSE value[i]]
    <2>1. \A u \in Threads : Writer(u) => u = t
      BY <1>1 DEF CellInv, Exclusive, InLock, Writer
    <2>2. (CHOOSE u \in Threads : Writer(u)) = t
      BY <1>1, <2>1
    <2>3. QED
      BY <1>1, <2>2, Zenon DEF Reg
  <1>2. ASSUME \A t \in Threads : ~ Writer(t)
        PROVE  Reg = value
    <2>1. Reg = [i \in Fields |-> value[i]]
      BY <1>2, Zenon DEF Reg
    <2>2. QED
      BY <2>1 DEF CellInv, TypeOK, Values
  <1>3. QED
    BY <1>1, <1>2 DEF RegFact

\* A step that leaves the value, and the writer and what it read, alone does
\* not change the register.
LEMMA RegUnchanged ==
  ASSUME CellInv, CellInv', UNCHANGED value,
         \A t \in Threads : /\ Writer(t)' <=> Writer(t)
                            /\ Writer(t) => out'[t] = out[t]
  PROVE  Reg' = Reg
  <1>1. RegFact /\ RegFact'
    BY RegIs, PTL
  <1>2. CASE \E t \in Threads : Writer(t)
    BY <1>1, <1>2 DEF RegFact
  <1>3. CASE \A t \in Threads : ~ Writer(t)
    BY <1>1, <1>3 DEF RegFact
  <1>4. QED
    BY <1>2, <1>3

\* Every step of a call is a step of the register or a stutter; the call takes
\* effect when the closure of spin_lock accesses the second field.
LEMMA CallStep ==
  ASSUME CellInv, CellInv', [Next]_vars
  PROVE  Register!Next \/ UNCHANGED <<Reg, call, Ret>>
  <1> USE DEF CellInv
  <1>1. ASSUME NEW t \in Threads, NEW op \in Ops, invoke(t, op)
        PROVE  Register!Invoke(t, op)
    <2>1. call[t] = None /\ call' = [call EXCEPT ![t] = op]
      BY <1>1 DEF invoke
    <2>2. Reg' = Reg
      <3>1. \A u \in Threads : (Writer(u)' <=> Writer(u)) /\ out'[u] = out[u]
        BY <1>1 DEF invoke, Writer, TypeOK
      <3>2. QED
        BY <1>1, <3>1, RegUnchanged DEF invoke
    <2>3. Ret' = Ret
      BY <1>1 DEF invoke, Ret, TypeOK
    <2>4. QED
      BY <2>1, <2>2, <2>3, SameNames DEF Register!Invoke
  <1>2. ASSUME NEW t \in Threads, lock(t)
        PROVE  UNCHANGED <<Reg, call, Ret>>
    <2>1. \A u \in Threads : (Writer(u)' <=> Writer(u)) /\ out'[u] = out[u]
      BY <1>2 DEF lock, Writer, TypeOK
    <2>2. Reg' = Reg
      BY <1>2, <2>1, RegUnchanged DEF lock
    <2>3. QED
      BY <1>2, <2>2 DEF lock, Ret, TypeOK
  <1>3. ASSUME NEW t \in Threads, first_field(t)
        PROVE  UNCHANGED <<Reg, call, Ret>>
    <2>1. /\ call[t] # None /\ 1 \in Fields /\ 2 \in Fields
          /\ Access(t, 1) /\ UNCHANGED call
      BY <1>3 DEF first_field, Fields, Access
    <2>2. /\ value'[2] = value[2]
          /\ out'[t][1] = value[1]
          /\ \A u \in Threads : u # t => out'[u] = out[u]
      BY <2>1, Accesses
    <2>3. \A u \in Threads : ~ Writer(u)
      BY <1>3 DEF first_field, Writer, Exclusive, InLock
    <2>4. RegFact /\ RegFact'
      BY RegIs, PTL
    <2>5. Reg = value
      BY <2>3, <2>4 DEF RegFact
    <2>6. CASE call[t] = Get
      <3>1. UNCHANGED value /\ \A u \in Threads : ~ Writer(u)'
        BY <1>3, <2>1, <2>3, <2>6 DEF first_field, Writer, Access, TypeOK
      <3>2. QED
        BY <2>4, <2>5, <3>1, <1>3, <2>1, <2>2 DEF RegFact, first_field, Ret, TypeOK
    <2>7. CASE call[t] # Get
      <3>1. Writer(t)'
        BY <1>3, <2>1, <2>7 DEF first_field, Writer, TypeOK
      <3>2. Reg' = [i \in Fields |-> IF i = 1 THEN out'[t][1] ELSE value'[i]]
        BY <2>4, <3>1 DEF RegFact
      <3>3. \A i \in Fields : i = 1 \/ i = 2
        BY DEF Fields
      <3>4. Reg' = value
        BY <2>2, <3>2, <3>3 DEF TypeOK, Values
      <3>5. QED
        BY <2>5, <3>4, <1>3, <2>1, <2>2 DEF first_field, Ret, TypeOK
    <2>8. QED
      BY <2>6, <2>7
  <1>4. ASSUME NEW t \in Threads, second_field(t)
        PROVE  Register!TakeEffect(t)
    <2>1. /\ call[t] # None /\ 1 \in Fields /\ 2 \in Fields
          /\ Access(t, 2) /\ UNCHANGED call
      BY <1>4 DEF second_field, Fields, Access
    <2>2. /\ value' \in Values
          /\ value'[1] = value[1]
          /\ value'[2] = IF call[t] = Get THEN value[2] ELSE call[t].value[2]
          /\ out' \in [Threads -> [Fields -> Words \cup {NoWord}]]
          /\ out'[t][2] = value[2] /\ out'[t][1] = out[t][1]
          /\ \A u \in Threads : u # t => out'[u] = out[u]
      BY <2>1, Accesses
    <2>3. RegFact /\ RegFact'
      BY RegIs, PTL
    <2>4. Reg' = value'
      <3>1. \A u \in Threads : ~ Writer(u)'
        BY <1>4, <2>1 DEF second_field, Writer, Exclusive, InLock, TypeOK
      <3>2. QED
        BY <2>3, <3>1 DEF RegFact
    <2>5. /\ Reg \in [Fields -> Words \cup {NoWord}]
          /\ Reg[1] = out[t][1] /\ Reg[2] = value[2]
      <3>1. CASE call[t] = Get
        <4>1. \A u \in Threads : ~ Writer(u)
          BY <1>4, <3>1 DEF second_field, Writer, Exclusive, InLock
        <4>2. Reg = value /\ value[1] = out[t][1]
          BY <1>4, <2>3, <3>1, <4>1 DEF RegFact, second_field
        <4>3. QED
          BY <4>2 DEF TypeOK, Values
      <3>2. CASE call[t] # Get
        <4>1. Reg = [i \in Fields |-> IF i = 1 THEN out[t][1] ELSE value[i]]
          BY <1>4, <2>3, <3>2 DEF RegFact, second_field, Writer
        <4>2. QED
          BY <1>4, <2>1, <4>1 DEF second_field, TypeOK, Values
      <3>3. QED
        BY <3>1, <3>2
    <2>6. Ret' = [Ret EXCEPT ![t] = Reg]
      <3>1. out'[t] = Reg
        BY <2>2, <2>5, TwoFields
      <3>2. pc' = [pc EXCEPT ![t] = "unlock"]
        BY <1>4 DEF second_field
      <3>3. QED
        BY <2>2, <3>1, <3>2, Zenon DEF Ret, TypeOK
    <2>7. Ret[t] = NoValue
      BY <1>4 DEF second_field, Ret
    <2>8. Reg' = IF call[t] = Get THEN Reg ELSE call[t].value
      <3>1. value' \in [Fields -> Words \cup {NoWord}]
        BY <2>2 DEF Values
      <3>2. CASE call[t] = Get
        <4>1. value'[1] = Reg[1] /\ value'[2] = Reg[2]
          BY <1>4, <2>2, <2>5, <3>2 DEF second_field
        <4>2. QED
          BY <2>4, <2>5, <3>1, <3>2, <4>1, TwoFields
      <3>3. CASE call[t] # Get
        <4>1. call[t].value \in [Fields -> Words \cup {NoWord}]
          BY <2>1, <3>3, OpShapes DEF TypeOK, Values
        <4>2. value'[1] = call[t].value[1] /\ value'[2] = call[t].value[2]
          BY <1>4, <2>2, <3>3 DEF second_field
        <4>3. QED
          BY <2>4, <3>1, <3>3, <4>1, <4>2, TwoFields
      <3>4. QED
        BY <3>2, <3>3
    <2>9. QED
      BY <2>1, <2>6, <2>7, <2>8, SameNames DEF Register!TakeEffect
  <1>5. ASSUME NEW t \in Threads, unlock(t)
        PROVE  Register!Return(t)
    <2>1. \A u \in Threads : ~ Writer(u) /\ ~ Writer(u)'
      BY <1>5 DEF unlock, Writer, Exclusive, InLock, TypeOK
    <2>2. Reg' = Reg
      BY <1>5, <2>1, RegUnchanged DEF unlock
    <2>3. Ret[t] # NoValue
      <3>1. Ret[t][1] \in Words /\ NoValue[1] \notin Words
        BY <1>5, WordsAssumption DEF unlock, Ret, NoValue, Values, Fields
      <3>2. QED
        BY <3>1
    <2>4. Ret' = [Ret EXCEPT ![t] = NoValue]
      BY <1>5, Zenon DEF unlock, Ret, TypeOK
    <2>5. QED
      BY <1>5, <2>2, <2>3, <2>4, SameNames DEF unlock, Register!Return
  <1>6. CASE UNCHANGED vars
    BY <1>6 DEF vars, Reg, Ret, Writer
  <1>7. QED
    BY <1>1, <1>2, <1>3, <1>4, <1>5, <1>6, SameNames
    DEF Next, Inside, lock_spins, Register!Next

\* The register starts with the value the cell is created with.
LEMMA RegisterInitial == Init => Register!Init
  <1> SUFFICES ASSUME Init
               PROVE  Register!Init
    OBVIOUS
  <1>1. \A t \in Threads : ~ Writer(t)
    BY Zenon DEF Init, Writer
  <1>2. Reg = Initial
    BY <1>1, CellInitial, RegIs DEF RegFact, Init
  <1>3. Ret = [t \in Threads |-> NoValue]
    BY DEF Init, Ret
  <1>4. QED
    BY <1>2, <1>3, SameNames DEF Init, Register!Init

\* Every get, get_cloned, set and replace of an AtomicCell behaves as if it
\* happened at once.
THEOREM CellIsAtomic == Spec => Atomic
  <1>1. CellInv /\ CellInv' /\ [Next]_vars => [Register!Next]_<<Reg, call, Ret>>
    BY CallStep
  <1>2. QED
    BY <1>1, RegisterInitial, CellInitial, CellInductive, PTL
    DEF Spec, Atomic, Register!Spec
=============================================================================
