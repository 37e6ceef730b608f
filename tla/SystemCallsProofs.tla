------------------------- MODULE SystemCallsProofs -------------------------
(***************************************************************************)
(* System calls and interrupts for any number of threads, any capabilities *)
(* and any operations of the kinds that are written.                       *)
(***************************************************************************)
EXTENDS SystemCalls, SequenceTheorems, TLAPS

RegNames == {"rip", "rsp", "rflags", "rax", "args", "preserved"}

Words == {Zero} \cup (Threads \X (1..PRESERVED) \X {0, 1})

\* The operations a thread asks for and the results the kernel has for them.
Calls == [cap : U32, operation : Operations]
Answers == {Ok(0), Err(NotFound), Err(InvalidArgument)}

\* Thread t with registers r keeps what is its own: in user code it has it in
\* the registers, in a call on its stack.
Stands(t, r) ==
  /\ r.rip \in {"entry", "body", "work"} =>
       r.preserved = own[t] /\ r.rsp = Sp(t, 0) /\ ustack[t] = <<>>
  /\ r.rip \in {"int", "ret"} => r.rsp = Sp(t, PRESERVED) /\ ustack[t] = own[t]

\* How far the call of thread t with registers r has come.
Progress(t, r) ==
  /\ r.rip \in {"entry", "work"} => asked[t] = Nothing /\ did[t] = Nothing
  /\ asked[t] # Nothing =>
       /\ r.rip = "int" =>
            did[t] = Nothing /\ r.args = <<asked[t].cap>> \o into_args(asked[t].operation)
       /\ r.rip = "ret" => answer[t] \in Answers /\ r.rax = Code(answer[t])
       /\ r.rip = "body" => got[t] = answer[t]

CallTypes ==
  /\ active \in Threads
  /\ DOMAIN regs = RegNames
  /\ regs.rip \in Places
  /\ regs.rflags = UserFlags
  /\ DOMAIN istack = 1 .. (6 + PRESERVED)
  /\ own \in [Threads -> [1..PRESERVED -> Words]]
  /\ asked \in [Threads -> Calls \cup {Nothing}]
  /\ DOMAIN ustack = Threads
  /\ DOMAIN ctx = Threads
  /\ DOMAIN did = Threads
  /\ DOMAIN answer = Threads
  /\ DOMAIN got = Threads

\* The registers in an ExecCtx are those of a new thread, or those of a thread
\* behind its int instruction that will find a 0 in rax.
CtxTypes ==
  \A t \in Threads :
    /\ DOMAIN ctx[t] = RegNames
    /\ ctx[t].rip \in {"entry", "ret"}
    /\ ctx[t].rflags = UserFlags
    /\ ctx[t].rax = 0

\* The inductive invariant.  For the running thread it speaks of the registers
\* of the core, for the others of those in their ExecCtx: a switch takes a
\* thread from the one to the other.
CallInv ==
  /\ CallTypes
  /\ CtxTypes
  /\ Stands(active, regs) /\ Progress(active, regs)
  /\ \A t \in Threads \ {active} : Stands(t, ctx[t]) /\ Progress(t, ctx[t])
  /\ TakenAsAsked

-----------------------------------------------------------------------------
\* What the pushes and pops of raw_syscall and of the interrupt handlers make of
\* the callee-saved registers.
LEMMA SixWords ==
  ASSUME NEW S, NEW s \in [1..PRESERVED -> S]
  PROVE  /\ <<s[1], s[2], s[3], s[4], s[5], s[6]>> = s
         /\ <<>> \o s = s
         /\ SubSeq(s, 1, PRESERVED) = s
         /\ SubSeq(s, 1, 0) = <<>>
  <1>2. <<s[1], s[2], s[3], s[4], s[5], s[6]>> = s
    BY DEF PRESERVED
  <1>1. s \in Seq(S) /\ Len(s) = PRESERVED
    <2>1. \A i \in 1..6 : s[i] \in S
      BY DEF PRESERVED
    <2>2. /\ <<s[1], s[2], s[3], s[4], s[5], s[6]>> \in Seq(S)
          /\ Len(<<s[1], s[2], s[3], s[4], s[5], s[6]>>) = 6
      BY <2>1
    <2>3. QED
      BY <2>2, <1>2, Zenon DEF PRESERVED
  <1>3. <<>> \o s = s
    BY <1>1, ConcatEmptySeq
  <1>4. SubSeq(s, 1, PRESERVED) = s
    BY <1>1, SubSeqFull
  <1>5. SubSeq(s, 1, 0) = <<>>
    BY SubSeqEmpty
  <1>6. QED
    BY <1>2, <1>3, <1>4, <1>5, Zenon

\* The registers of raw_syscall hold the capability and then the operation.
LEMMA Arguments ==
  ASSUME NEW c \in U32, NEW o \in Operations
  PROVE  /\ into_args(o) \in [1..5 -> Nat]
         /\ (<<c>> \o into_args(o))[1] = c
         /\ Tail(<<c>> \o into_args(o)) = into_args(o)
  <1>1. /\ into_args(o) \in Seq(Nat)
        /\ Len(into_args(o)) = 5
    BY OperationsAssumption, SystemCallsAssumption
    DEF into_args, Activate, Link, Unlink, U32, Slots, ThreadActivate, CapTableLink, CapTableUnlink
  <1>2. c \in Nat /\ <<c>> \in Seq(Nat) /\ Len(<<c>>) = 1
    BY SystemCallsAssumption DEF U32
  <1> DEFINE first == <<c>>
             rest == into_args(o)
             all == first \o rest
  <1>3. /\ all \in Seq(Nat)
        /\ Len(all) = Len(first) + Len(rest)
        /\ \A i \in 1 .. Len(first) + Len(rest) :
             all[i] = IF i <= Len(first) THEN first[i] ELSE rest[i - Len(first)]
    BY <1>1, <1>2, ConcatProperties, Zenon
  <1>4. Len(all) = 6 /\ all[1] = c /\ \A i \in 2..6 : all[i] = rest[i - 1]
    <2>1. Len(first) = 1 /\ Len(rest) = 5 /\ first[1] = c
      BY <1>1
    <2> HIDE DEF first, rest, all
    <2>2. QED
      BY <1>3, <2>1
  <1>5. Tail(all) = into_args(o)
    <2> HIDE DEF first, rest, all
    <2>1. all \in Seq(Nat) /\ Len(all) = 6 /\ all # <<>>
      <3>1. all \in Seq(Nat) /\ Len(all) = 6
        BY <1>3, <1>4, Zenon
      <3>2. Len(<<>>) # 6
        OBVIOUS
      <3>3. QED
        BY <3>1, <3>2, Zenon
    <2>2. /\ Tail(all) \in Seq(Nat)
          /\ Len(Tail(all)) = Len(all) - 1
          /\ \A i \in 1 .. Len(Tail(all)) : Tail(all)[i] = all[i + 1]
      BY <2>1, HeadTailProperties, Zenon
    <2>3. Len(Tail(all)) = 5 /\ \A i \in 1..5 : Tail(all)[i] = rest[i]
      <3>1. Len(Tail(all)) = 5
        BY <2>1, <2>2
      <3>2. ASSUME NEW i \in 1..5
            PROVE  Tail(all)[i] = rest[i]
        <4>1. i + 1 \in 2..6 /\ (i + 1) - 1 = i
          OBVIOUS
        <4>2. Tail(all)[i] = all[i + 1] /\ all[i + 1] = rest[(i + 1) - 1]
          BY <1>4, <2>2, <3>1, <4>1, Zenon
        <4>3. QED
          BY <4>1, <4>2, Zenon
      <3>3. QED
        BY <3>1, <3>2, Zenon
    <2>4. rest \in Seq(Nat) /\ Len(rest) = 5
      BY <1>1, Zenon DEF rest
    <2>5. Tail(all) = rest
      BY <2>2, <2>3, <2>4, SeqEqual, Zenon
    <2>6. QED
      BY <2>5 DEF rest
  <1>6. QED
    BY <1>1, <1>4, <1>5, LenProperties, Zenon

\* from_args undoes into_args, and refuses the operations of the other kind.
LEMMA Decoded ==
  ASSUME NEW o \in Operations
  PROVE  /\ CapTableOp_from_args(into_args(o)) = IF o = Activate THEN Bad ELSE o
         /\ ThreadOp_from_args(into_args(o)) = IF o = Activate THEN o ELSE Bad
  BY OperationsAssumption, SystemCallsAssumption
  DEF into_args, Activate, Link, Unlink, U32, Slots, ThreadActivate, ThreadChangeAffinity,
      CapTableLink, CapTableUnlink, Unwritten, CapTableOp_from_args, ThreadOp_from_args, IsU32,
      Bad, Todo

\* syscall finds in rax the Result that handle has put there.
LEMMA Answered ==
  ASSUME NEW a \in Answers
  PROVE  decode(Code(a)) = a
  BY SystemCallsAssumption
  DEF Answers, decode, Code, Ok, Err, NotFound, InvalidArgument, to_errno, Negative, CapErrors

\* kmain dispatches a thread that satisfies the invariant.
LEMMA CallInitial == Init => CallInv
  <1> SUFFICES ASSUME Init
               PROVE  CallInv
    OBVIOUS
  <1> USE SystemCallsAssumption DEF Init
  <1>1. \A t \in Threads :
          /\ DOMAIN ctx[t] = RegNames
          /\ ctx[t].rip = "entry"
          /\ ctx[t].rflags = UserFlags
          /\ ctx[t].rax = 0
          /\ ctx[t].rsp = Sp(t, 0)
          /\ ctx[t].preserved = [i \in 1..PRESERVED |-> Zero]
    BY Zenon DEF NewRegs, RegNames
  <1>2. CallTypes
    <2>1. own \in [Threads -> [1..PRESERVED -> Words]]
      <3>1. Zero \in Words
        BY Zenon DEF Words
      <3>2. own = [t \in Threads |-> [i \in 1..PRESERVED |-> Zero]]
        BY <1>1, Zenon
      <3>3. QED
        BY <3>1, <3>2, Zenon
    <2>2. regs = ctx[active] /\ active \in Threads
      BY Zenon
    <2>3. DOMAIN istack = 1 .. (6 + PRESERVED)
      BY Zenon
    <2>4. asked \in [Threads -> Calls \cup {Nothing}]
      BY Zenon
    <2>5. QED
      BY <1>1, <2>1, <2>2, <2>3, <2>4, Zenon DEF CallTypes, Places
  <1>3. CtxTypes
    BY <1>1, Zenon DEF CtxTypes
  <1>4. \A t \in Threads : Stands(t, ctx[t]) /\ Progress(t, ctx[t])
    BY <1>1, Zenon DEF Stands, Progress
  <1>5. TakenAsAsked
    BY Zenon DEF TakenAsAsked
  <1>6. QED
    BY <1>2, <1>3, <1>4, <1>5, Zenon DEF CallInv

-----------------------------------------------------------------------------
\* A step that changes nothing of the threads that are not running.
LEMMA OthersKept ==
  ASSUME CallInv, active' = active, ctx' = ctx,
         \A t \in Threads \ {active} :
           /\ own'[t] = own[t] /\ ustack'[t] = ustack[t] /\ asked'[t] = asked[t]
           /\ did'[t] = did[t] /\ answer'[t] = answer[t] /\ got'[t] = got[t]
  PROVE  /\ CtxTypes'
         /\ \A t \in (Threads \ {active})' : (Stands(t, ctx[t]) /\ Progress(t, ctx[t]))'
  BY DEF CallInv, CtxTypes, Stands, Progress

\* User code between two calls puts its own words in the registers.
LEMMA WorkStep ==
  ASSUME CallInv, NEW turn \in {0, 1}, work(turn)
  PROVE  CallInv'
  <1> USE DEF CallInv
  <1>1. Values(active, turn) \in [1..PRESERVED -> Words]
    BY Zenon DEF Values, Words, CallTypes
  <1>2. CallTypes'
    <2> HIDE DEF CallInv
    <2>1. CallTypes
      BY DEF CallInv
    <2>2. QED
      BY <1>1, <2>1 DEF work, CallTypes, RegNames, Places
  <1>3. regs'.rip = "work" /\ regs'.rsp = regs.rsp /\ regs'.preserved = own'[active]
    BY DEF work, CallTypes, RegNames
  <1>4. (Stands(active, regs) /\ Progress(active, regs))'
    BY <1>3 DEF work, At, Stands, Progress, CallTypes
  <1>5. CtxTypes' /\ \A t \in (Threads \ {active})' : (Stands(t, ctx[t]) /\ Progress(t, ctx[t]))'
    BY OthersKept DEF work, CallTypes
  <1>6. TakenAsAsked'
    BY DEF work, TakenAsAsked, CallTypes
  <1>7. QED
    BY <1>2, <1>4, <1>5, <1>6

\* The first half of raw_syscall, with or without an operation in its arguments.
LEMMA EnterStep ==
  ASSUME CallInv, NEW args, Enter(args),
         asked' \in [Threads -> Calls \cup {Nothing}],
         \A t \in Threads \ {active} : asked'[t] = asked[t],
         asked'[active] # Nothing =>
           args = <<asked'[active].cap>> \o into_args(asked'[active].operation)
  PROVE  CallInv'
  <1> USE DEF CallInv
  <1>1. /\ regs.rip = "work"
        /\ ustack[active] = <<>>
        /\ did[active] = Nothing
        /\ regs.preserved = own[active]
        /\ regs.rsp = Sp(active, 0)
    BY DEF Enter, At, Stands, Progress
  <1>2. ustack'[active] = own[active]
    BY <1>1, SixWords DEF Enter, CallTypes
  <1>3. CallTypes'
    <2>1. CallTypes
      OBVIOUS
    <2> HIDE DEF CallInv
    <2>2. QED
      BY <2>1 DEF Enter, CallTypes, RegNames, Places
  <1>4. regs'.rip = "int" /\ regs'.rsp = Sp(active, PRESERVED) /\ regs'.args = args
    BY <1>1 DEF Enter, CallTypes, RegNames, Sp, PRESERVED
  <1>5. (Stands(active, regs) /\ Progress(active, regs))'
    BY <1>1, <1>2, <1>4 DEF Enter, Stands, Progress
  <1>6. CtxTypes' /\ \A t \in (Threads \ {active})' : (Stands(t, ctx[t]) /\ Progress(t, ctx[t]))'
    BY OthersKept DEF Enter, CallTypes
  <1>7. TakenAsAsked'
    BY <1>1 DEF Enter, TakenAsAsked, CallTypes
  <1>8. QED
    BY <1>3, <1>5, <1>6, <1>7

\* The second half of raw_syscall: the thread pops what it pushed, and decodes the
\* result.
LEMMA EndStep ==
  ASSUME CallInv, syscall_end
  PROVE  CallInv'
  <1> USE DEF CallInv
  <1>1. /\ regs.rsp = Sp(active, PRESERVED)
        /\ ustack[active] = own[active]
        /\ asked[active] # Nothing => answer[active] \in Answers /\ regs.rax = Code(answer[active])
    BY DEF syscall_end, At, Stands, Progress
  <1>2. regs.rsp[1] = active /\ regs.rsp[2] - PRESERVED = 0
    BY <1>1 DEF Sp, PRESERVED
  <1>3. own[active] \in [1..PRESERVED -> Words]
    BY DEF CallTypes
  <1>4. /\ SubSeq(own[active], 0 + 1, 0 + PRESERVED) = own[active]
        /\ SubSeq(own[active], 1, 0) = <<>>
    BY <1>3, SixWords DEF PRESERVED
  <1>5. /\ regs' = [regs EXCEPT !.rip = "body", !.rsp = Sp(active, 0), !.preserved = own[active]]
        /\ ustack' = [ustack EXCEPT ![active] = <<>>]
    BY <1>1, <1>2, <1>4, Zenon DEF syscall_end
  <1>6. CallTypes'
    <2>1. CallTypes
      OBVIOUS
    <2> HIDE DEF CallInv
    <2>2. QED
      BY <1>5, <2>1 DEF syscall_end, CallTypes, RegNames, Places
  <1>7. asked[active] # Nothing => got'[active] = answer[active]
    BY <1>1, Answered DEF syscall_end, CallTypes
  <1>8. (Stands(active, regs) /\ Progress(active, regs))'
    BY <1>5, <1>7, Zenon DEF syscall_end, Stands, Progress, CallTypes, RegNames
  <1>9. CtxTypes' /\ \A t \in (Threads \ {active})' : (Stands(t, ctx[t]) /\ Progress(t, ctx[t]))'
    BY <1>5, OthersKept DEF syscall_end, CallTypes
  <1>10. TakenAsAsked'
    BY DEF syscall_end, TakenAsAsked
  <1>11. QED
    BY <1>6, <1>8, <1>9, <1>10

\* Where the words of an interrupted thread are on the interrupt stack.
LEMMA PushedWords ==
  ASSUME DOMAIN istack = 1 .. (6 + PRESERVED), NEW rip
  PROVE  /\ DOMAIN Pushed(rip) = 1 .. (6 + PRESERVED)
         /\ Pushed(rip)[2] = regs.rsp /\ Pushed(rip)[3] = regs.rflags /\ Pushed(rip)[5] = rip
         /\ Pushed(rip)[6] = regs.preserved[6] /\ Pushed(rip)[7] = regs.preserved[5]
         /\ Pushed(rip)[8] = regs.preserved[4] /\ Pushed(rip)[9] = regs.preserved[3]
         /\ Pushed(rip)[10] = regs.preserved[2] /\ Pushed(rip)[11] = regs.preserved[1]
  BY DEF Pushed, PRESERVED

\* An interrupt and its handler leave the registers that matter as they were.
LEMMA InterruptStep ==
  ASSUME CallInv, interrupt
  PROVE  CallInv'
  <1> USE DEF CallInv
  <1>1. /\ istack'[2] = regs.rsp /\ istack'[3] = regs.rflags /\ istack'[5] = regs.rip
        /\ istack'[6] = regs.preserved[6] /\ istack'[7] = regs.preserved[5]
        /\ istack'[8] = regs.preserved[4] /\ istack'[9] = regs.preserved[3]
        /\ istack'[10] = regs.preserved[2] /\ istack'[11] = regs.preserved[1]
        /\ DOMAIN istack' = DOMAIN istack
    BY PushedWords DEF interrupt, CallTypes, PRESERVED
  <1>2. /\ DOMAIN regs' = RegNames
        /\ regs'.rip = regs.rip /\ regs'.rsp = regs.rsp /\ regs'.rflags = regs.rflags
        /\ regs'.rax = regs.rax /\ regs'.args = regs.args
        /\ regs'.preserved = <<regs.preserved[1], regs.preserved[2], regs.preserved[3],
                               regs.preserved[4], regs.preserved[5], regs.preserved[6]>>
    BY <1>1 DEF interrupt, Popped, CallTypes, RegNames
  <1>3. regs.preserved = own[active] => regs'.preserved = own[active]
    BY <1>2, SixWords, Zenon DEF CallTypes
  <1>4. CallTypes'
    <2>1. CallTypes
      OBVIOUS
    <2> HIDE DEF CallInv
    <2>2. QED
      BY <1>1, <1>2, <2>1 DEF interrupt, CallTypes
  <1>5. (Stands(active, regs) /\ Progress(active, regs))'
    BY <1>2, <1>3, Zenon DEF interrupt, Stands, Progress
  <1>6. CtxTypes' /\ \A t \in (Threads \ {active})' : (Stands(t, ctx[t]) /\ Progress(t, ctx[t]))'
    BY OthersKept DEF interrupt
  <1>7. TakenAsAsked'
    <2>1. TakenAsAsked /\ asked' = asked /\ did' = did
      BY Zenon DEF interrupt, user_vars
    <2> HIDE DEF CallInv
    <2>2. QED
      BY <2>1, Zenon DEF TakenAsAsked
  <1>8. QED
    BY <1>4, <1>5, <1>6, <1>7

\* A panic stops the core; nothing that the invariant speaks of changes.
LEMMA PanicStep ==
  ASSUME CallInv, UNCHANGED <<regs, istack, user_vars, ctx, active, did, answer>>
  PROVE  CallInv'
  BY DEF user_vars, CallInv, CallTypes, CtxTypes, Stands, Progress, TakenAsAsked

\* The kernel takes a call of the running thread for the operation it asked for,
\* or refuses it.
LEMMA Taken ==
  ASSUME CallInv, asked[active] # Nothing, regs.rip = "int"
  PROVE  LET c == regs.args[1]
             o == operation(c, Tail(regs.args))
             asked_o == asked[active].operation
         IN  /\ IsU32(c)
             /\ c = asked[active].cap
             /\ asked_o \in Operations
             /\ Resource(c).kind = "CapEntry" => o = IF asked_o = Activate THEN Bad ELSE asked_o
             /\ Resource(c).kind = "Thread" => o = IF asked_o = Activate THEN asked_o ELSE Bad
             /\ Resource(c).kind = "PageTable" => o = Todo
             /\ Resource(c).kind \notin {"CapEntry", "Thread", "PageTable"} => o = Bad
  <1>1. asked[active].cap \in U32 /\ asked[active].operation \in Operations
    <2>1. asked[active] \in Calls
      BY Zenon DEF CallInv, CallTypes
    <2>2. QED
      BY <2>1 DEF Calls
  <1>2. regs.args = <<asked[active].cap>> \o into_args(asked[active].operation)
    BY DEF CallInv, Progress
  <1>3. /\ regs.args[1] = asked[active].cap
        /\ Tail(regs.args) = into_args(asked[active].operation)
    <2>1. LET args == <<asked[active].cap>> \o into_args(asked[active].operation)
          IN  args[1] = asked[active].cap /\ Tail(args) = into_args(asked[active].operation)
      BY <1>1, Arguments, Zenon
    <2>2. QED
      BY <1>2, <2>1, Zenon
  <1> DEFINE c == asked[active].cap
             asked_o == asked[active].operation
             o == operation(c, into_args(asked_o))
  <1>4. IsU32(c)
    BY <1>1, SystemCallsAssumption DEF IsU32, U32
  <1>5. /\ Resource(c).kind = "CapEntry" => o = CapTableOp_from_args(into_args(asked_o))
        /\ Resource(c).kind = "Thread" => o = ThreadOp_from_args(into_args(asked_o))
        /\ Resource(c).kind = "PageTable" => o = Todo
        /\ Resource(c).kind \notin {"CapEntry", "Thread", "PageTable"} => o = Bad
    <2> HIDE DEF c, asked_o
    <2>1. QED
      BY DEF operation
  <1>6. /\ CapTableOp_from_args(into_args(asked_o)) = IF asked_o = Activate THEN Bad ELSE asked_o
        /\ ThreadOp_from_args(into_args(asked_o)) = IF asked_o = Activate THEN asked_o ELSE Bad
    BY <1>1, Decoded, Zenon
  <1>7. QED
    BY <1>1, <1>3, <1>4, <1>5, <1>6, Zenon

\* The system call returns to the thread that made it.
LEMMA ReturnStep ==
  ASSUME CallInv, regs.rip = "int", NEW answered, Return(Pushed("ret"), answered),
         asked[active] # Nothing => answered \in Answers,
         istack' = Pushed("ret"), UNCHANGED user_vars,
         NEW o, did' = [did EXCEPT ![active] = o], TakenAsAsked'
  PROVE  CallInv'
  <1> USE DEF CallInv, user_vars
  <1>1. /\ DOMAIN regs' = RegNames
        /\ regs'.rip = "ret" /\ regs'.rsp = regs.rsp /\ regs'.rflags = regs.rflags
        /\ regs'.rax = Code(answered)
    BY PushedWords DEF Return, Popped, CallTypes, RegNames
  <1>2. CallTypes'
    BY <1>1, PushedWords DEF Return, CallTypes, Places
  <1>3. (Stands(active, regs) /\ Progress(active, regs))'
    BY <1>1 DEF Return, Stands, Progress, CallTypes
  <1>4. CtxTypes' /\ \A t \in (Threads \ {active})' : (Stands(t, ctx[t]) /\ Progress(t, ctx[t]))'
    BY OthersKept DEF Return, CallTypes
  <1>5. QED
    BY <1>2, <1>3, <1>4

\* The system call is an Activate: the caller goes to its ExecCtx, and the
\* thread comes from there, which may be the caller again.
LEMMA DispatchStep ==
  ASSUME CallInv, regs.rip = "int", NEW thread \in Threads, Dispatch(thread, Pushed("ret")),
         istack' = Pushed("ret"), UNCHANGED user_vars,
         NEW o, did' = [did EXCEPT ![active] = o], TakenAsAsked'
  PROVE  CallInv'
  <1> USE DEF CallInv, user_vars
  <1> DEFINE saved == ctx'[active]
  <1>1. /\ DOMAIN saved = RegNames
        /\ saved.rip = "ret" /\ saved.rsp = regs.rsp /\ saved.rflags = UserFlags /\ saved.rax = 0
    BY PushedWords DEF Dispatch, save_state, SyscallCtx_current, CallTypes, CtxTypes, RegNames
  <1>2. /\ DOMAIN ctx' = Threads
        /\ \A t \in Threads \ {active} :
             ctx'[t] = ctx[t] /\ answer'[t] = answer[t] /\ did'[t] = did[t]
    BY DEF Dispatch, CallTypes
  <1>3. regs' = ctx'[thread] /\ active' = thread /\ answer'[active] = Ok(0)
    BY DEF Dispatch, CallTypes
  <1>4. CtxTypes'
    BY <1>1, <1>2 DEF CtxTypes
  <1>5. CallTypes'
    BY <1>2, <1>3, <1>4, PushedWords DEF Dispatch, CallTypes, CtxTypes, Places
  <1>6. \A t \in Threads : (Stands(t, ctx[t]) /\ Progress(t, ctx[t]))'
    <2>1. ASSUME NEW t \in Threads, t # active
          PROVE  (Stands(t, ctx[t]) /\ Progress(t, ctx[t]))'
      <3>1. /\ Stands(t, ctx[t]) /\ Progress(t, ctx[t])
            /\ ctx'[t] = ctx[t] /\ answer'[t] = answer[t] /\ did'[t] = did[t]
            /\ own' = own /\ ustack' = ustack /\ asked' = asked /\ got' = got
        BY <1>2, <2>1, Zenon
      <3> HIDE DEF CallInv, user_vars
      <3>2. QED
        BY <3>1, Zenon DEF Stands, Progress
    <2>2. ASSUME NEW t \in Threads, t = active
          PROVE  (Stands(t, ctx[t]) /\ Progress(t, ctx[t]))'
      <3>1. Code(Ok(0)) = 0 /\ Ok(0) \in Answers
        BY DEF Code, Ok, Answers
      <3>2. QED
        BY <1>1, <1>3, <2>2, <3>1 DEF Stands, Progress
    <2>3. QED
      BY <2>1, <2>2, Zenon
  <1>7. QED
    BY <1>3, <1>4, <1>5, <1>6

\* What a capability of the running thread leads to.
LEMMA ResourceKinds ==
  ASSUME CallInv, NEW c
  PROVE  /\ Resource(c).kind \in {"CapEntry", "Thread", "PageTable", "Empty", "Missing"}
         /\ Resource(c).kind = "Missing" => Resource(c) = Missing
         /\ Resource(c).kind = "Thread" => Resource(c).thread \in Threads
  <1>1. CASE c \notin DOMAIN Caps[active]
    BY <1>1 DEF Resource, Missing
  <1>2. CASE c \in DOMAIN Caps[active]
    <2>1. Caps[active][c] \in {[kind |-> k] : k \in {"CapEntry", "PageTable", "Empty"}}
                               \cup {[kind |-> "Thread", thread |-> u] : u \in Threads}
      BY <1>2, CapsAssumption, Zenon DEF CallInv, CallTypes
    <2>2. CASE \E k \in {"CapEntry", "PageTable", "Empty"} : Caps[active][c] = [kind |-> k]
      BY <1>2, <2>2 DEF Resource
    <2>3. CASE \E u \in Threads : Caps[active][c] = [kind |-> "Thread", thread |-> u]
      BY <1>2, <2>3 DEF Resource
    <2>4. QED
      BY <2>1, <2>2, <2>3
  <1>3. QED
    BY <1>1, <1>2

\* The Result of a call that asked for an operation is one of three.
LEMMA AnswersOf ==
  ASSUME CallInv, NEW c, NEW o \in Operations \cup {Bad}, o # Activate,
         Resource(c).kind \in {"Missing", "Empty"} => o = Bad,
         Resource(c).kind \in {"Missing", "Empty", "CapEntry", "Thread"}
  PROVE  exercise_cap(c, o) \in Answers
  <1>1. CASE o = Bad
    BY <1>1 DEF exercise_cap, Answers, Bad
  <1>2. CASE o.op = "Unlink"
    BY <1>2 DEF exercise_cap, Answers, Bad
  <1>3. CASE o.op = "Link"
    <2>1. Resource(o.other) = Missing <=> Resource(o.other).kind = "Missing"
      BY ResourceKinds DEF Missing
    <2>2. QED
      BY <1>3, <2>1 DEF exercise_cap, Answers, Bad
  <1>4. QED
    BY <1>1, <1>2, <1>3, OperationsAssumption DEF Unlink, Link

\* The int instruction and all the kernel does before the iretq.
LEMMA SyscallStep ==
  ASSUME CallInv, syscall_interrupt
  PROVE  CallInv'
  <1> DEFINE c == regs.args[1]
             o == IF IsU32(c) THEN operation(c, Tail(regs.args)) ELSE Bad
             kind == Resource(c).kind
             asked_o == asked[active].operation
  <1>1. regs.rip = "int"
    BY Zenon DEF syscall_interrupt, At
  <1>2. \/ Panic
        \/ /\ o # Todo
           /\ istack' = Pushed("ret")
           /\ did' = [did EXCEPT ![active] = o]
           /\ IF ~IsU32(c) THEN Return(Pushed("ret"), Err(InvalidArgument))
              ELSE IF o = Activate THEN Dispatch(Resource(c).thread, Pushed("ret"))
              ELSE Return(Pushed("ret"), exercise_cap(c, o))
           /\ UNCHANGED <<user_vars, panicked>>
    BY Zenon DEF syscall_interrupt
  <1>3. CASE Panic
    BY <1>3, PanicStep, Zenon DEF Panic
  <1>4. ASSUME asked[active] # Nothing
        PROVE  /\ c = asked[active].cap
               /\ asked_o \in Operations
               /\ kind = "CapEntry" => o = IF asked_o = Activate THEN Bad ELSE asked_o
               /\ kind = "Thread" => o = IF asked_o = Activate THEN asked_o ELSE Bad
               /\ kind = "PageTable" => o = Todo
               /\ kind \notin {"CapEntry", "Thread", "PageTable"} => o = Bad
    BY <1>1, <1>4, Taken, Zenon
  <1>5. /\ kind \in {"CapEntry", "Thread", "PageTable", "Empty", "Missing"}
        /\ kind = "Thread" => Resource(c).thread \in Threads
    BY ResourceKinds, Zenon
  <1>6. IsU32(c) /\ o = Activate => kind = "Thread"
    BY DEF operation, Activate, Bad, Todo, CapTableOp_from_args, Link, Unlink
  <1>7. active \in Threads /\ DOMAIN did = Threads /\ TakenAsAsked
    BY Zenon DEF CallInv, CallTypes
  <1> HIDE DEF c, o
  <1>8. CASE /\ o # Todo
             /\ istack' = Pushed("ret")
             /\ did' = [did EXCEPT ![active] = o]
             /\ IF ~IsU32(c) THEN Return(Pushed("ret"), Err(InvalidArgument))
                ELSE IF o = Activate THEN Dispatch(Resource(c).thread, Pushed("ret"))
                ELSE Return(Pushed("ret"), exercise_cap(c, o))
             /\ UNCHANGED <<user_vars, panicked>>
    <2>1. /\ o # Todo
          /\ istack' = Pushed("ret")
          /\ did' = [did EXCEPT ![active] = o]
          /\ UNCHANGED user_vars
          /\ asked' = asked
      BY <1>8, Zenon DEF user_vars
    <2>2. /\ ~IsU32(c) => Return(Pushed("ret"), Err(InvalidArgument))
          /\ IsU32(c) /\ o = Activate => Dispatch(Resource(c).thread, Pushed("ret"))
          /\ IsU32(c) /\ o # Activate => Return(Pushed("ret"), exercise_cap(c, o))
      BY <1>8, Zenon
    <2>3. TakenAsAsked'
      <3>1. ASSUME asked[active] # Nothing
            PROVE  o = IF kind = (IF asked_o = Activate THEN "Thread" ELSE "CapEntry")
                       THEN asked_o ELSE Bad
        <4> HIDE DEF kind, asked_o
        <4>1. QED
          BY <1>4, <1>5, <2>1, <3>1
      <3>2. (\A t \in Threads \ {active} : did'[t] = did[t]) /\ did'[active] = o
        BY <1>7, <2>1
      <3>3. kind = IF c \in DOMAIN Caps[active] THEN Caps[active][c].kind ELSE "Missing"
        BY DEF Resource, Missing
      <3>4. QED
        BY <1>4, <1>7, <2>1, <3>1, <3>2, <3>3 DEF TakenAsAsked
    <2>4. CASE ~IsU32(c)
      <3>1. Err(InvalidArgument) \in Answers
        BY Zenon DEF Answers
      <3>2. QED
        BY <1>1, <2>1, <2>2, <2>3, <2>4, <3>1, ReturnStep, Zenon
    <2>5. CASE IsU32(c) /\ o = Activate
      <3>1. Resource(c).thread \in Threads
        BY <1>5, <1>6, <2>5, Zenon
      <3>2. QED
        BY <1>1, <2>1, <2>2, <2>3, <2>5, <3>1, DispatchStep, Zenon
    <2>6. CASE IsU32(c) /\ o # Activate
      <3>1. ASSUME asked[active] # Nothing
            PROVE  exercise_cap(c, o) \in Answers
        <4>1. /\ o \in Operations \cup {Bad}
              /\ kind \in {"Missing", "Empty"} => o = Bad
              /\ kind \in {"Missing", "Empty", "CapEntry", "Thread"}
          <5> HIDE DEF kind, asked_o
          <5>1. QED
            BY <1>4, <1>5, <2>1, <3>1
        <4>2. QED
          BY <2>6, <4>1, AnswersOf, Zenon
      <3>2. QED
        BY <1>1, <2>1, <2>2, <2>3, <2>6, <3>1, ReturnStep, Zenon
    <2>7. QED
      BY <2>4, <2>5, <2>6, Zenon
  <1>9. QED
    BY <1>2, <1>3, <1>8, Zenon

-----------------------------------------------------------------------------
\* User code, interrupts and system calls preserve the invariant.
LEMMA CallInductive == CallInv /\ [Next]_vars => CallInv'
  <1> SUFFICES ASSUME CallInv, [Next]_vars
               PROVE  CallInv'
    OBVIOUS
  <1>1. ASSUME NEW turn \in {0, 1}, work(turn)
        PROVE  CallInv'
    BY <1>1, WorkStep
  <1>2. ASSUME NEW t \in Threads, NEW cap \in DOMAIN Caps[t], NEW o \in Operations, syscall(cap, o)
        PROVE  CallInv'
    <2>1. cap \in U32
      BY CapsAssumption
    <2>2. asked' = [asked EXCEPT ![active] = [cap |-> cap, operation |-> o]]
      BY <1>2 DEF syscall
    <2>3. /\ asked' \in [Threads -> Calls \cup {Nothing}]
          /\ \A u \in Threads \ {active} : asked'[u] = asked[u]
          /\ asked'[active].cap = cap
          /\ asked'[active].operation = o
      <3>1. active \in Threads /\ asked \in [Threads -> Calls \cup {Nothing}]
        BY Zenon DEF CallInv, CallTypes
      <3>2. [cap |-> cap, operation |-> o] \in Calls
        BY <2>1 DEF Calls
      <3>3. QED
        BY <2>2, <3>1, <3>2
    <2>4. QED
      BY <1>2, <2>3, EnterStep, Zenon DEF syscall
  <1>3. ASSUME NEW args \in RawCalls, raw_syscall(args)
        PROVE  CallInv'
    <2>1. asked[active] = Nothing
      BY <1>3 DEF raw_syscall, Enter, At, CallInv, Progress
    <2>2. QED
      BY <1>3, <2>1, EnterStep DEF raw_syscall, CallInv, CallTypes
  <1>4. CASE syscall_end
    BY <1>4, EndStep
  <1>5. CASE syscall_interrupt
    BY <1>5, SyscallStep
  <1>6. CASE interrupt
    BY <1>6, InterruptStep
  <1>7. CASE exception
    BY <1>7, PanicStep DEF exception, Panic
  <1>8. CASE UNCHANGED vars
    BY <1>8, PanicStep DEF vars, user_vars
  <1>9. QED
    BY <1>1, <1>2, <1>3, <1>4, <1>5, <1>6, <1>7, <1>8 DEF Next

\* Hence it holds in every state.
LEMMA CallsInvariant == Spec => []CallInv
  BY CallInitial, CallInductive, PTL DEF Spec

\* A thread goes on after a system call with the registers and the stack it had,
\* whichever threads have run and interrupts have come in between, although the
\* kernel itself saves one of the callee-saved registers wrongly
\* (SyscallCtx::current).
THEOREM CallsAreInvisible == Spec => []GoesOnAsItLeft
  <1>1. CallInv => GoesOnAsItLeft
    BY DEF CallInv, CallTypes, Stands, GoesOnAsItLeft, At
  <1>2. QED
    BY <1>1, CallsInvariant, PTL

\* from_args in the kernel gets from the registers what into_args put there.
THEOREM CallsAreTakenAsAsked == Spec => []TakenAsAsked
  <1>1. CallInv => TakenAsAsked
    BY DEF CallInv
  <1>2. QED
    BY <1>1, CallsInvariant, PTL

\* The Result of a call reaches the thread that made it.
THEOREM AnswersArrive == Spec => []AnswerArrives
  <1>1. CallInv => AnswerArrives
    BY DEF CallInv, Progress, AnswerArrives, At
  <1>2. QED
    BY <1>1, CallsInvariant, PTL
=============================================================================
