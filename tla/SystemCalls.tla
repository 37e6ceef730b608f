---------------------------- MODULE SystemCalls ----------------------------
(***************************************************************************)
(* A system call from the user's operation to its result: the encoding in  *)
(* registers (kapi), the way into the kernel and out of it over the        *)
(* interrupt stack (handlers.rs), the decoding (syscall.rs, component.rs)  *)
(* and the switch to another thread (Thread::dispatch, exec.rs).           *)
(*                                                                         *)
(* One core, and interrupts are off in the kernel: a system call or an     *)
(* interrupt is one step, and interrupts come between any two steps of     *)
(* user code.  What calls do to tables and counts is left to CapTables;    *)
(* here the capabilities of a thread are fixed.                            *)
(***************************************************************************)
EXTENDS Integers, Sequences

CONSTANTS
  Threads,
  First,          \* the thread that kmain dispatches
  Caps,           \* Caps[t][id]: the resource that capability id of thread t leads to
  Operations,     \* the operations user code asks for: of a CapTableOp or a ThreadOp
  RawCalls,       \* the arguments it gives raw_syscall directly
  COUNT,          \* the slots of a table
  ISIZE_LIMIT,    \* isize::MAX + 1, 2^63 in the kernel
  U32_LIMIT       \* u32::MAX + 1, 2^32

ASSUME SystemCallsAssumption ==
  /\ First \in Threads
  /\ COUNT \in Nat \ {0}
  /\ ISIZE_LIMIT \in Nat /\ ISIZE_LIMIT >= 8
  /\ U32_LIMIT \in 1..ISIZE_LIMIT

\* usize; an isize is its two's complement.
Usize == 0 .. (2 * ISIZE_LIMIT - 1)
U32 == 0 .. (U32_LIMIT - 1)
IsU32(n) == n < U32_LIMIT
Slots == 0 .. (COUNT - 1)

\* User code can pass any usizes to raw_syscall.
ASSUME RawCallsAssumption == RawCalls \subseteq [1..6 -> Usize]

Negative(n) == n >= ISIZE_LIMIT

-----------------------------------------------------------------------------
\* kapi: RawOperation and CapError.
ThreadActivate == 0
ThreadChangeAffinity == 1
CapTableLink == 2
CapTableUnlink == 3
Unwritten == {4, 5, 6}       \* CapTableConstruct, CapTableDrop, CapTableCopy

NotFound == 2
InvalidArgument == 4
CapErrors == 1..8

Activate == [op |-> "Activate"]
Link(other_table_cap, slot) == [op |-> "Link", other |-> other_table_cap, slot |-> slot]
Unlink(slot) == [op |-> "Unlink", slot |-> slot]

\* The operations that user code can ask for: a CapId is a u32, a SlotId less
\* than COUNT.
ASSUME OperationsAssumption ==
  Operations \subseteq {Activate} \cup {Unlink(slot) : slot \in Slots}
                        \cup {Link(other, slot) : other \in U32, slot \in Slots}

\* What its capabilities lead to.
ASSUME CapsAssumption ==
  \A t \in Threads :
    /\ DOMAIN Caps[t] \subseteq U32
    /\ \A cap \in DOMAIN Caps[t] :
         Caps[t][cap] \in {[kind |-> k] : k \in {"CapEntry", "PageTable", "Empty"}}
                           \cup {[kind |-> "Thread", thread |-> u] : u \in Threads}

\* Mutant: the arguments of Link are swapped.
into_args_swapped(o) ==
  CASE o.op = "Activate" -> <<ThreadActivate, 0, 0, 0, 0>>
    [] o.op = "Link" -> <<CapTableLink, o.slot, o.other, 0, 0>>
    [] o.op = "Unlink" -> <<CapTableUnlink, o.slot, 0, 0, 0>>

\* into_args of CapTableOp and of ThreadOp, as far as they are written.
into_args(o) ==
  CASE o.op = "Activate" -> <<ThreadActivate, 0, 0, 0, 0>>
    [] o.op = "Link" -> <<CapTableLink, o.other, o.slot, 0, 0>>
    [] o.op = "Unlink" -> <<CapTableUnlink, o.slot, 0, 0, 0>>

\* What from_args returns: an operation, an error, or nothing (a todo!()).
Bad == [op |-> "Bad"]
Todo == [op |-> "Todo"]

CapTableOp_from_args(args) ==
  CASE args[1] = CapTableLink ->
         IF IsU32(args[2]) /\ args[3] < COUNT THEN Link(args[2], args[3]) ELSE Bad
    [] args[1] = CapTableUnlink -> IF args[2] < COUNT THEN Unlink(args[2]) ELSE Bad
    [] args[1] \in Unwritten -> Todo
    [] OTHER -> Bad

ThreadOp_from_args(args) ==
  CASE args[1] = ThreadActivate -> Activate
    [] args[1] = ThreadChangeAffinity -> Todo
    [] OTHER -> Bad

to_errno(e) == 2 * ISIZE_LIMIT - e

\* The Result that syscall makes of the value in rax; the unwrap panics on an
\* error it does not know.
Ok(n) == [ok |-> n]
Err(e) == [err |-> e]
UserPanic == [panic |-> TRUE]

decode(rax) ==
  LET errno == (2 * ISIZE_LIMIT - rax) % 256 IN
  CASE ~Negative(rax) -> Ok(rax)
    [] Negative(rax) /\ errno \in CapErrors -> Err(errno)
    [] OTHER -> UserPanic

-----------------------------------------------------------------------------
VARIABLES
  regs,       \* the registers of the core
  istack,     \* istack[n]: the n-th word below interrupt_stack_end
  ustack,     \* ustack[t]: the stack of thread t
  ctx,        \* ctx[t]: the Regs of its ExecCtx
  active,     \* ACTIVE_THREAD
  own,        \* own[t]: what user code last put in the callee-saved registers
  asked,      \* asked[t]: its last system call
  did,        \* did[t]: the operation the kernel took it for
  answer,     \* answer[t]: the Result of exercise_cap
  got,        \* got[t]: the Result that reached user code
  panicked    \* the kernel has panicked

user_vars == <<ustack, own, asked, got>>
vars == <<regs, istack, ustack, ctx, active, own, asked, did, answer, got, panicked>>

\* PreservedRegs: rbx, rbp, r12, r13, r14, r15, as a sequence in that order.
PRESERVED == 6

UserFlags == "0x202"
Nothing == [op |-> "Nothing"]

\* The words of user registers are tuples: Zero is that of a new thread.
Zero == <<>>

\* Where a thread is: at its entry point, back from a call, before the next, at
\* the int instruction of raw_syscall or behind it.
Places == {"entry", "body", "work", "int", "ret"}

\* A user stack pointer is the thread's stack and the words on it.
Sp(t, words) == <<t, words>>

\* The Regs of a new thread: rip, rsp and rflags, and zeros.
NewRegs(t) ==
  [rip |-> "entry", rsp |-> Sp(t, 0), rflags |-> UserFlags, rax |-> 0,
   args |-> [i \in 1..6 |-> 0], preserved |-> [i \in 1..PRESERVED |-> Zero]]

Init ==
  /\ ctx = [t \in Threads |-> NewRegs(t)]
  /\ active = First
  /\ regs = ctx[First]
  /\ istack = [n \in 1 .. (6 + PRESERVED) |-> IF n \in {1, 3, 4, 5} THEN "" ELSE Zero]
  /\ ustack = [t \in Threads |-> <<>>]
  /\ own = [t \in Threads |-> ctx[t].preserved]
  /\ asked = [t \in Threads |-> Nothing]
  /\ did = [t \in Threads |-> Nothing]
  /\ answer = [t \in Threads |-> Nothing]
  /\ got = [t \in Threads |-> Nothing]
  /\ panicked = FALSE

At(place) == ~panicked /\ regs.rip = place

-----------------------------------------------------------------------------
\* User code before the next call: it uses the callee-saved registers, which
\* have values of their own in each thread, register and turn, and is done with
\* the last call.
Values(t, turn) == [i \in 1..PRESERVED |-> <<t, i, turn>>]

work(turn) ==
  /\ At("entry") \/ At("body")
  /\ regs' = [regs EXCEPT !.rip = "work", !.preserved = Values(active, turn)]
  /\ own' = [own EXCEPT ![active] = Values(active, turn)]
  /\ asked' = [asked EXCEPT ![active] = Nothing]
  /\ did' = [did EXCEPT ![active] = Nothing]
  /\ answer' = [answer EXCEPT ![active] = Nothing]
  /\ got' = [got EXCEPT ![active] = Nothing]
  /\ UNCHANGED <<istack, ustack, ctx, active, panicked>>

\* raw_syscall, up to the int instruction.
Enter(args) ==
  /\ At("work")
  /\ ustack' = [ustack EXCEPT ![active] = @ \o regs.preserved]
  /\ regs' = [regs EXCEPT !.rip = "int", !.rsp = Sp(active, @[2] + PRESERVED), !.args = args]
  /\ UNCHANGED <<istack, ctx, active, own, did, answer, got, panicked>>

raw_syscall(args) ==
  /\ Enter(args)
  /\ UNCHANGED asked

\* SyscallOp::syscall, with raw::syscall.
syscall(cap, o) ==
  /\ Enter(<<cap>> \o into_args(o))
  /\ asked' = [asked EXCEPT ![active] = [cap |-> cap, operation |-> o]]

\* The end of raw_syscall: the pops, from r15 to rbx; and that of syscall: the
\* result.
syscall_end ==
  /\ At("ret")
  /\ LET stack == ustack[regs.rsp[1]]
         words == regs.rsp[2] - PRESERVED
     IN  /\ regs' = [regs EXCEPT !.rip = "body", !.rsp = Sp(@[1], words),
                                 !.preserved = SubSeq(stack, words + 1, words + PRESERVED)]
         /\ ustack' = [ustack EXCEPT ![regs.rsp[1]] = SubSeq(stack, 1, words)]
  /\ got' = [got EXCEPT ![active] = IF asked[active] = Nothing THEN Nothing ELSE decode(regs.rax)]
  /\ UNCHANGED <<istack, ctx, active, own, asked, did, answer, panicked>>

-----------------------------------------------------------------------------
\* The interrupt stack after the processor (external) has pushed SS, RSP,
\* RFLAGS, CS and RIP, and the handler r15 to rbx (push_preserved).
Pushed(rip) ==
  <<"ss", regs.rsp, regs.rflags, "cs", rip, regs.preserved[6], regs.preserved[5],
    regs.preserved[4], regs.preserved[3], regs.preserved[2], regs.preserved[1], istack[12]>>

\* Mutant: the registers are popped in the order of the pushes.
Popped_in_order(stack) ==
  [regs EXCEPT !.rip = stack[5], !.rsp = stack[2], !.rflags = stack[3],
               !.preserved = <<stack[6], stack[7], stack[8], stack[9], stack[10], stack[11]>>]

\* pop_preserved and iretq.
Popped(stack) ==
  [regs EXCEPT !.rip = stack[5], !.rsp = stack[2], !.rflags = stack[3],
               !.preserved = <<stack[11], stack[10], stack[9], stack[8], stack[7], stack[6]>>]

\* timer_interrupt and keyboard_interrupt: below rbx they push the scratch
\* registers, r11 first, and pop them again.
interrupt ==
  /\ ~panicked
  /\ regs.rflags = UserFlags
  /\ istack' = [Pushed(regs.rip) EXCEPT ![12] = <<"r11">>]
  /\ regs' = Popped(istack')
  /\ UNCHANGED <<ustack, ctx, active, own, asked, did, answer, got, panicked>>

Panic ==
  /\ panicked' = TRUE
  /\ UNCHANGED <<regs, istack, user_vars, ctx, active, did, answer>>

\* An exception in user code; all handlers but that of breakpoint panic.
exception == ~panicked /\ Panic

-----------------------------------------------------------------------------
\* The resource that a capability of the active thread leads to, unless its
\* lookup ends on a missing child.
Missing == [kind |-> "Missing"]
Resource(cap) == IF cap \in DOMAIN Caps[active] THEN Caps[active][cap] ELSE Missing

\* CapTableOp or ThreadOp::from_args, by the resource.
operation(cap, args) ==
  CASE Resource(cap).kind = "CapEntry" -> CapTableOp_from_args(args)
    [] Resource(cap).kind = "Thread" -> ThreadOp_from_args(args)
    [] Resource(cap).kind = "PageTable" -> Todo
    [] OTHER -> Bad

\* What exercise_cap returns for an operation other than Activate.
exercise_cap(cap, o) ==
  CASE Resource(cap).kind \in {"Missing", "Empty"} -> Err(NotFound)
    [] Resource(cap).kind \in {"CapEntry", "Thread"} /\ o = Bad -> Err(InvalidArgument)
    [] o.op = "Unlink" -> Ok(0)
    [] o.op = "Link" /\ Resource(o.other) = Missing -> Err(NotFound)
    [] o.op = "Link" /\ Resource(o.other).kind = "CapEntry" -> Ok(0)
    [] o.op = "Link" /\ Resource(o.other).kind \notin {"Missing", "CapEntry"} ->
         Err(InvalidArgument)

\* The end of handle.
Code(answered) == IF "ok" \in DOMAIN answered THEN answered.ok ELSE to_errno(answered.err)

\* Rust code leaves anything in the registers that a callee may use.
Clobbered == [i \in 1..6 |-> -1]

\* Mutant: iretq goes back to the int instruction, as after a fault.
Return_again(stack, answered) ==
  /\ regs' = [Popped(stack) EXCEPT !.rip = "int", !.rax = Code(answered), !.args = Clobbered]
  /\ answer' = [answer EXCEPT ![active] = answered]
  /\ UNCHANGED <<ctx, active>>

\* handle returns: the rest of syscall_interrupt.
Return(stack, answered) ==
  /\ regs' = [Popped(stack) EXCEPT !.rax = Code(answered), !.args = Clobbered]
  /\ answer' = [answer EXCEPT ![active] = answered]
  /\ UNCHANGED <<ctx, active>>

\* SyscallCtx::current.  PreservedRegs is read upwards from the 12th word, one
\* below the word that holds rbx.
SyscallCtx_current(stack) ==
  [rsp |-> stack[2], rflags |-> stack[3], rip |-> stack[5],
   preserved |-> [i \in 1..PRESERVED |-> stack[13 - i]]]

\* Mutant: the register the operation was passed in is saved with the rest.
save_state_rax(c, r) == [r EXCEPT !.rsp = c.rsp, !.rflags = c.rflags, !.rip = c.rip,
                                  !.preserved = c.preserved, !.rax = NotFound]

\* SyscallCtx::save_state: control and preserved, not scratch.
save_state(c, r) == [r EXCEPT !.rsp = c.rsp, !.rflags = c.rflags, !.rip = c.rip,
                              !.preserved = c.preserved]

\* Thread::dispatch and ExecCtx::dispatch: the caller's registers are saved,
\* the thread's loaded.
Dispatch(thread, stack) ==
  /\ ctx' = [ctx EXCEPT ![active] = save_state(SyscallCtx_current(stack), @)]
  /\ regs' = ctx'[thread]
  /\ active' = thread
  /\ answer' = [answer EXCEPT ![active] = Ok(0)]

\* The int instruction, syscall_interrupt and handle.
syscall_interrupt ==
  /\ At("int")
  /\ LET stack == Pushed("ret")
         cap == regs.args[1]
         o == IF IsU32(cap) THEN operation(cap, Tail(regs.args)) ELSE Bad
     IN
     \/ o = Todo /\ Panic
     \/ /\ o # Todo
        /\ istack' = stack
        /\ did' = [did EXCEPT ![active] = o]
        /\ IF ~IsU32(cap) THEN Return(stack, Err(InvalidArgument))
           ELSE IF o = Activate THEN Dispatch(Resource(cap).thread, stack)
           ELSE Return(stack, exercise_cap(cap, o))
        /\ UNCHANGED <<user_vars, panicked>>

Next ==
  \/ \E turn \in {0, 1} : work(turn)
  \/ \E cap \in UNION {DOMAIN Caps[t] : t \in Threads}, o \in Operations : syscall(cap, o)
  \/ \E args \in RawCalls : raw_syscall(args)
  \/ syscall_end
  \/ syscall_interrupt
  \/ interrupt
  \/ exception

\* The processor goes on with what it is executing, however often it is
\* interrupted: interrupt handlers return, and take less time than passes
\* between two interrupts.
Spec ==
  /\ Init /\ [][Next]_vars
  /\ WF_vars(syscall_interrupt)
  /\ WF_vars(syscall_end)
  /\ WF_vars(\E turn \in {0, 1} : At("entry") /\ work(turn))

-----------------------------------------------------------------------------
\* A system call, and all interrupts around it, are invisible to the code that
\* made it, whichever threads have run in between: the thread goes on with its
\* callee-saved registers and on its own stack as it left them, with interrupts
\* on (points 2 to 4 of the comment in Thread::dispatch).
GoesOnAsItLeft ==
  At("body") \/ At("work") =>
    /\ regs.preserved = own[active]
    /\ regs.rsp = Sp(active, 0)
    /\ regs.rflags = UserFlags

\* The kernel takes every call for the operation that user code asked for, if
\* the capability is of the kind that has the operation.
TakenAsAsked ==
  \A t \in Threads :
    asked[t] # Nothing /\ did[t] # Nothing =>
      LET c == asked[t].cap
          kind == IF c \in DOMAIN Caps[t] THEN Caps[t][c].kind ELSE "Missing"
          fits == kind = (IF asked[t].operation = Activate THEN "Thread" ELSE "CapEntry")
      IN  did[t] = IF fits THEN asked[t].operation ELSE Bad

\* The Result that user code gets is that of its last call, also when the call
\* was an Activate and other threads have run before it returned; no result
\* makes syscall panic.
AnswerArrives ==
  At("body") /\ asked[active] # Nothing => got[active] = answer[active]

\* A system call ends: some thread gets back to its own code, unless the kernel
\* panics.
SomebodyGoesOn == regs.rip = "int" ~> (regs.rip \in {"body", "work"} \/ panicked)
=============================================================================
