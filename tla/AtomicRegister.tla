--------------------------- MODULE AtomicRegister ---------------------------
(***************************************************************************)
(* What an AtomicCell promises: calls by several threads, each of which    *)
(* takes effect in one indivisible step between its start and its return.  *)
(***************************************************************************)
CONSTANTS Threads,
          Values,    \* the values of type T
          Initial,   \* the one the cell is created with
          NoValue    \* not a value: what a call that has not taken effect returns

VARIABLES reg, call, ret

Get == [op |-> "get"]
Replace(v) == [op |-> "replace", value |-> v]
None == [op |-> "none"]
Ops == {Get} \cup {Replace(v) : v \in Values}

Init ==
  /\ reg = Initial
  /\ call = [t \in Threads |-> None]
  /\ ret = [t \in Threads |-> NoValue]

Invoke(t, op) ==
  /\ call[t] = None
  /\ call' = [call EXCEPT ![t] = op]
  /\ UNCHANGED <<reg, ret>>

\* The call returns the value of the cell; a replace also sets it.
TakeEffect(t) ==
  /\ call[t] # None
  /\ ret[t] = NoValue
  /\ ret' = [ret EXCEPT ![t] = reg]
  /\ reg' = IF call[t] = Get THEN reg ELSE call[t].value
  /\ UNCHANGED call

Return(t) ==
  /\ ret[t] # NoValue
  /\ call' = [call EXCEPT ![t] = None]
  /\ ret' = [ret EXCEPT ![t] = NoValue]
  /\ UNCHANGED reg

Next ==
  \E t \in Threads :
    \/ \E op \in Ops : Invoke(t, op)
    \/ TakeEffect(t)
    \/ Return(t)

Spec == Init /\ [][Next]_<<reg, call, ret>>
=============================================================================
