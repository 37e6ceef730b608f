----------------------------- MODULE CapTables -----------------------------
(***************************************************************************)
(* Capability tables, and the system calls on them: Thread::exercise_cap   *)
(* (component.rs) and what syscall::handle does around it, over the slots  *)
(* of caps.rs, the trie and the reference counts of the retype table.      *)
(*                                                                         *)
(* The kernel does not preempt itself and runs on one core: a call is one  *)
(* step.  Every KPtr that a call clones and drops is counted, in program   *)
(* order, since the count of a frame can make the call panic.              *)
(*                                                                         *)
(* CapTableOp::from_args and Addrspace::get end in todo!() where Construct *)
(* needs them; they are modelled by what exercise_cap expects of them.     *)
(***************************************************************************)
EXTENDS Trie, RetypeEntry, Sequences, Functions, TLC

CONSTANTS
  PAGE_SIZE,
  CapIds,       \* the capabilities that calls name
  Regions,      \* the regions a Construct may name: bytes from the start of memory
  Boots         \* the initial states: tables, objects, active thread and spare references

\* The frames are numbered, from 0.
ASSUME CapTablesAssumption ==
  /\ PAGE_SIZE \in Nat \ {0}
  /\ Nodes = 0 .. (Cardinality(Nodes) - 1)
  /\ CapIds \subseteq Ids
  /\ Regions \subseteq Nat

VARIABLES
  resource,   \* resource[n][s]: the resource in slot s of table n
  object,     \* object[f]: the value in frame f, the slots of a table apart
  table,      \* the retype table
  owed,       \* owed[f]: pointers to f made and not dropped, which table should count
  leaked,     \* leaked[f]: those among them that nobody can drop any more
  active,     \* ACTIVE_THREAD
  result,     \* what the last system call returned
  panicked    \* the kernel has panicked, or reset the machine

cvars == <<child, resource, object, table, owed, leaked, active, result, panicked>>

-----------------------------------------------------------------------------
\* Resource
Empty == [kind |-> "Empty"]
CapEntry(f) == [kind |-> "CapEntry", ptr |-> f]
ThreadCap(f) == [kind |-> "Thread", ptr |-> f]
PageTableCap(f, level) == [kind |-> "PageTable", ptr |-> f, level |-> level]

\* The values of frames.  A page table has the kernel mapped in its upper half
\* or not, and the untyped memory window in its lower half or not.
NoObject == [kind |-> "None"]
RawCapEntry == [kind |-> "CapEntry"]
Thread(resources, l4_frame) ==
  [kind |-> "Thread", resources |-> resources, l4_frame |-> l4_frame]
PageTable(kernel_half, window) ==
  [kind |-> "PageTable", kernel_half |-> kernel_half, window |-> window]

Errors == {"NotFound", "InvalidArgument"}
Ok == "Ok"

\* The pointers in a slot: CapSlot is a child and a resource.
ChildPtr(n, s) == IF child[n][s] = NoNode THEN <<>> ELSE <<child[n][s]>>
ResourcePtr(n, s) == IF resource[n][s] = Empty THEN <<>> ELSE <<resource[n][s].ptr>>
SlotPtrs(n, s) == ChildPtr(n, s) \o ResourcePtr(n, s)

\* All pointers to frame f: those in slots, in threads and in ACTIVE_THREAD.
Pointers(f) ==
  LET inThreads == {t \in Nodes : object[t].kind = "Thread" /\ object[t].resources = f}
      inContexts == {t \in Nodes : object[t].kind = "Thread" /\ object[t].l4_frame = f}
      inSlots == {p \in Nodes \X Slots : f \in Range(ResourcePtr(p[1], p[2]))}
  IN  Cardinality(Parents(f)) + Cardinality(inSlots) + Cardinality(inThreads)
        + Cardinality(inContexts) + (IF active = f THEN 1 ELSE 0)

\* A frame without object is untyped.  The dispatch of the active thread has
\* leaked a pointer to it, and earlier calls b.spare pointers to each object.
CInit ==
  \E b \in Boots :
    /\ child = b.child
    /\ resource = b.resource
    /\ object = b.object
    /\ active = b.active
    /\ leaked = [f \in Nodes |->
                   CASE object[f] = NoObject -> 0
                     [] f = active -> b.spare + 1
                     [] OTHER -> b.spare]
    /\ owed = [f \in Nodes |-> Pointers(f) + leaked[f]]
    /\ table = [f \in Nodes |->
                  IF object[f] = NoObject THEN value_for(Untyped, 0) ELSE value_for(Kernel, owed[f])]
    /\ result = Ok
    /\ panicked = FALSE

-----------------------------------------------------------------------------
\* What happens to the count of a frame in a call: KPtr::clone, KPtr::drop,
\* KPtr::new.
Event(by, f) == [by |-> by, of |-> f]
Clones(ptrs) == [i \in DOMAIN ptrs |-> Event("clone", ptrs[i])]
Drops(ptrs) == [i \in DOMAIN ptrs |-> Event("drop", ptrs[i])]
News(ptrs) == [i \in DOMAIN ptrs |-> Event("new", ptrs[i])]

\* KernelFrame::drop(self) decrements, and so does the Drop that follows.  None
\* is an unwrap that fails.
Counted(word, by) ==
  CASE word = None -> None
    [] by = "clone" -> increment(word)
    [] by = "drop" -> IF decrement(word) = None THEN None ELSE decrement(decrement(word))
    [] by = "new" -> retype(word, Untyped, Kernel, 0, 1)

\* The word of each frame after the events, one after the other.
Recount(events) ==
  [f \in Nodes |->
     LET mine == SelectSeq(events, LAMBDA e : e.of = f)
         after[i \in 0..Len(mine)] ==
           IF i = 0 THEN table[f] ELSE Counted(after[i - 1], mine[i].by)
     IN  after[Len(mine)]]

Owing(events) ==
  [f \in Nodes |->
     owed[f] + Len(SelectSeq(events, LAMBDA e : e.of = f /\ e.by # "drop"))
             - Len(SelectSeq(events, LAMBDA e : e.of = f /\ e.by = "drop"))]

Leaking(ptrs) == [f \in Nodes |-> leaked[f] + Len(SelectSeq(ptrs, LAMBDA p : p = f))]

Panic ==
  /\ panicked' = TRUE
  /\ UNCHANGED <<child, resource, object, table, owed, leaked, active, result>>

\* A call of the active thread that counts these events, has this effect,
\* leaves these pointers behind and returns; or that panics at an event.
CallLeaking(events, ptrs, effect, returns) ==
  LET words == Recount(events) IN
  IF None \in Range(words)
  THEN Panic
  ELSE /\ effect
       /\ table' = words
       /\ owed' = Owing(events)
       /\ leaked' = Leaking(ptrs)
       /\ result' = returns
       /\ UNCHANGED panicked

Call(events, effect, returns) == CallLeaking(events, <<>>, effect, returns)

NoEffect == UNCHANGED <<child, resource, object, active>>

-----------------------------------------------------------------------------
\* Mutant: calls use the capabilities of the first process.
R_first == Root

\* The caller's table: Thread::resources.
R == object[active].resources

\* What get_inner clones and drops on its way from `this`, which it owns, and
\* then get of the slot it has found.  Slot::child clones the whole slot.
get_inner_events[this \in Nodes, id \in Nat] ==
  LET offset == id % COUNT
      rest == id \div COUNT
      ptrs == SlotPtrs(this, offset)
  IN  IF rest = 0
      THEN Clones(ptrs) \o Drops(<<this>>)
      ELSE Clones(ptrs) \o Drops(ResourcePtr(this, offset)) \o Drops(<<this>>)
             \o (IF child[this][offset] = NoNode
                 THEN <<>>
                 ELSE get_inner_events[child[this][offset], rest])

\* self.resources.clone().find(cap)?.get()
get_capability_events(cap) == Clones(<<R>>) \o get_inner_events[R, cap]

SlotOf(cap) == get(R, cap)
ResourceOf(cap) == resource[SlotOf(cap).node][SlotOf(cap).slot]
ChildPtrOf(cap) == ChildPtr(SlotOf(cap).node, SlotOf(cap).slot)
ResourcePtrOf(cap) == ResourcePtr(SlotOf(cap).node, SlotOf(cap).slot)

\* Mutant: the pointer is taken for one of the kind wanted.
get_resource_as_any(cap, kind) ==
  IF SlotOf(cap).found /\ ResourceOf(cap) # Empty
  THEN [ok |-> TRUE, resource |-> [level |-> 4] @@ ResourceOf(cap),
        events |-> get_capability_events(cap) \o Drops(ChildPtrOf(cap))]
  ELSE [ok |-> FALSE, error |-> "NotFound", events |-> get_capability_events(cap)]

\* self.resources.clone().get_resource_as(cap): the resource, if it is of the
\* kind that the caller wants (the TryFrom<Resource> impls).
get_resource_as(cap, kind) ==
  LET events == get_capability_events(cap) IN
  IF ~SlotOf(cap).found
  THEN [ok |-> FALSE, error |-> "NotFound", events |-> events]
  ELSE IF ResourceOf(cap).kind # kind
  THEN [ok |-> FALSE, error |-> "InvalidArgument",
        events |-> events \o Drops(ResourcePtrOf(cap) \o ChildPtrOf(cap))]
  ELSE [ok |-> TRUE, resource |-> ResourceOf(cap),
        events |-> events \o Drops(ChildPtrOf(cap))]

\* handle and exercise_cap, up to the match on the resource ...
Entry(cap) == Clones(<<active>>) \o get_capability_events(cap)

\* ... and from the end of the match: the resource and the child of the slot
\* that was read go, and the caller's own pointer to itself.
Exit(cap) == Drops(ResourcePtrOf(cap) \o ChildPtrOf(cap) \o <<active>>)

\* Mutant: what replace returns is forgotten.
change_events_forgetting(n, s, overwritten) ==
  Clones(SlotPtrs(n, s)) \o Drops(overwritten)

\* AtomicCapSlot::change: the slot is cloned, the clone edited, which drops
\* what the edit overwrites, and the old slot dropped.
change_events(n, s, overwritten) ==
  Clones(SlotPtrs(n, s)) \o Drops(overwritten) \o Drops(SlotPtrs(n, s))

-----------------------------------------------------------------------------
Calls(cap, kind) == ~panicked /\ SlotOf(cap).found /\ ResourceOf(cap).kind = kind

\* find fails.
not_found(cap) ==
  /\ ~panicked
  /\ ~SlotOf(cap).found
  /\ Call(Entry(cap) \o Drops(<<active>>), NoEffect, "NotFound")

empty(cap) ==
  /\ Calls(cap, "Empty")
  /\ Call(Entry(cap) \o Exit(cap), NoEffect, "NotFound")

\* from_args fails.
bad_args(cap) ==
  /\ Calls(cap, "CapEntry") \/ Calls(cap, "Thread")
  /\ Call(Entry(cap) \o Exit(cap), NoEffect, "InvalidArgument")

\* CapTableOp::Drop and Copy, ThreadOp::ChangeAffinity and every operation on a
\* page table are todo!().
unimplemented(cap) ==
  /\ Calls(cap, "CapEntry") \/ Calls(cap, "Thread") \/ Calls(cap, "PageTable")
  /\ Panic

link(cap, other_table_cap, slot) ==
  /\ Calls(cap, "CapEntry")
  /\ LET this == ResourceOf(cap).ptr
         other == get_resource_as(other_table_cap, "CapEntry")
     IN  IF other.ok
         THEN Call(Entry(cap) \o other.events \o change_events(this, slot, ChildPtr(this, slot))
                     \o Exit(cap),
                   /\ set_child(this, slot, other.resource.ptr)
                   /\ UNCHANGED <<resource, object, active>>,
                   Ok)
         ELSE Call(Entry(cap) \o other.events \o Exit(cap), NoEffect, other.error)

unlink(cap, slot) ==
  /\ Calls(cap, "CapEntry")
  /\ LET this == ResourceOf(cap).ptr IN
     Call(Entry(cap) \o change_events(this, slot, ChildPtr(this, slot)) \o Exit(cap),
          set_child(this, slot, NoNode) /\ UNCHANGED <<resource, object, active>>,
          Ok)

-----------------------------------------------------------------------------
memory_limit == Cardinality(Nodes) * PAGE_SIZE

\* The frame that a Construct may use: region is within memory (the limit
\* included), starts a page, and is mapped where the window of untyped memory
\* has it.  Addrspace::get (external: a todo!()).
Mapped(region) ==
  {f \in Nodes : /\ region <= memory_limit
                 /\ region = f * PAGE_SIZE
                 /\ object[object[active].l4_frame].window}

\* A Construct fails, after these events.
Refuse(cap, events, error) == Call(Entry(cap) \o events \o Exit(cap), NoEffect, error)

\* KPtr::new, which retypes the frame, and the end of Construct: the new
\* resource replaces what the slot it is for holds.
Install(cap, events, f, value, new) ==
  LET this == ResourceOf(cap).ptr IN
  \E slot \in Slots :
    Call(Entry(cap) \o events \o News(<<f>>)
           \o change_events(this, slot, ResourcePtr(this, slot)) \o Exit(cap),
         /\ resource' = [resource EXCEPT ![this][slot] = new]
         /\ object' = [object EXCEPT ![f] = value]
         /\ UNCHANGED <<child, active>>,
         Ok)

\* try_into_kernel succeeds on f.
CanRetype(f) == retype(table[f], Untyped, Kernel, 0, 1) # None

unmapped_region(cap, region) ==
  /\ Calls(cap, "CapEntry")
  /\ Mapped(region) = {}
  /\ Refuse(cap, <<>>, "InvalidArgument")

\* RawCapEntry::default: the slots of a frame that never held a table are empty.
construct_cap_table(cap, f) ==
  /\ Calls(cap, "CapEntry")
  /\ IF CanRetype(f)
     THEN Install(cap, <<>>, f, RawCapEntry, CapEntry(f))
     ELSE Refuse(cap, <<>>, "InvalidArgument")

\* PageCapFlags is a u8, and `!flags.level() == 4` complements it.
LevelRefused(level) == 255 - level = 4

\* Mutant: the frame is retyped before the capabilities are looked up.
construct_thread_early(cap, f, cap_table, page_table) ==
  /\ Calls(cap, "CapEntry")
  /\ CanRetype(f)
  /\ LET ct == get_resource_as(cap_table, "CapEntry") IN
     /\ ~ct.ok
     /\ Refuse(cap, News(<<f>>) \o ct.events, ct.error)

\* Thread::new takes the page table by into_raw, which does not drop it: when
\* KPtr::new fails only the capability table of the thread is dropped.
construct_thread(cap, f, cap_table, page_table) ==
  /\ Calls(cap, "CapEntry")
  /\ LET ct == get_resource_as(cap_table, "CapEntry")
         pt == get_resource_as(page_table, "PageTable")
         events == ct.events \o pt.events
     IN  CASE ~ct.ok -> Refuse(cap, ct.events, ct.error)
           [] ct.ok /\ ~pt.ok -> Refuse(cap, events \o Drops(<<ct.resource.ptr>>), pt.error)
           [] ct.ok /\ pt.ok /\ LevelRefused(pt.resource.level) ->
                Refuse(cap, events \o Drops(<<pt.resource.ptr, ct.resource.ptr>>),
                       "InvalidArgument")
           [] ct.ok /\ pt.ok /\ ~LevelRefused(pt.resource.level) /\ ~CanRetype(f) ->
                CallLeaking(Entry(cap) \o events \o Drops(<<ct.resource.ptr>>) \o Exit(cap),
                            <<pt.resource.ptr>>, NoEffect, "InvalidArgument")
           [] OTHER ->
                Install(cap, events, f, Thread(ct.resource.ptr, pt.resource.ptr),
                        ThreadCap(f))


\* AnyPageTable::clone_kernel borrows the table in use, the caller's, for a
\* table of level 4; the others start empty.
construct_page_table(cap, f, level) ==
  /\ Calls(cap, "CapEntry")
  /\ LET l4 == object[active].l4_frame
         events == IF level = 4 THEN Clones(<<l4>>) \o Drops(<<l4>>) ELSE <<>>
     IN  IF level > 4 \/ level = 0
         THEN Refuse(cap, <<>>, "InvalidArgument")
         ELSE IF CanRetype(f)
         THEN Install(cap, events, f,
                      PageTable(level = 4 /\ object[l4].kernel_half, FALSE),
                      PageTableCap(f, level))
         ELSE Refuse(cap, events, "InvalidArgument")

\* ThreadOp::Activate, with Thread::dispatch: the thread becomes the active
\* one, and the pointers that exercise_cap and handle hold are never dropped.
\* Without the kernel in its page table the machine faults for good at the load
\* of CR3.
activate(cap) ==
  /\ Calls(cap, "Thread")
  /\ LET thread == ResourceOf(cap).ptr IN
     IF object[object[thread].l4_frame].kernel_half
     THEN CallLeaking(Entry(cap) \o Clones(<<thread>>) \o Drops(<<active>>),
                      <<active, thread>> \o ChildPtrOf(cap),
                      active' = thread /\ UNCHANGED <<child, resource, object>>,
                      Ok)
     ELSE Panic

construct(cap, region) ==
  \/ unmapped_region(cap, region)
  \/ \E f \in Mapped(region) :
       \/ construct_cap_table(cap, f)
       \/ \E cap_table, page_table \in CapIds :
            construct_thread(cap, f, cap_table, page_table)
       \/ \E level \in 0..5 : construct_page_table(cap, f, level)

\* A call whose first argument is not a u32 is left out: it clones and drops the
\* pointer to its thread, as every call does, and returns.
CNext ==
  \E cap \in CapIds :
    \/ not_found(cap)
    \/ empty(cap)
    \/ bad_args(cap)
    \/ unimplemented(cap)
    \/ \E other \in CapIds, slot \in Slots : link(cap, other, slot)
    \/ \E slot \in Slots : unlink(cap, slot)
    \/ \E region \in Regions : construct(cap, region)
    \/ activate(cap)

CSpec == CInit /\ [][CNext]_cvars

-----------------------------------------------------------------------------
\* Every pointer the kernel follows leads to a live object of its type in a
\* kernel frame: the child of a slot, the resource in it, the capability table
\* and the page table of a thread, and the active thread.
PointersTyped ==
  LET is(f, kind) == f \in Nodes /\ object[f].kind = kind /\ state_of(table[f]) = Kernel IN
  /\ \A n \in Nodes, s \in Slots :
       /\ child[n][s] # NoNode => is(child[n][s], "CapEntry")
       /\ resource[n][s] # Empty => is(resource[n][s].ptr, resource[n][s].kind)
  /\ \A t \in Nodes : object[t].kind = "Thread" =>
       is(object[t].resources, "CapEntry") /\ is(object[t].l4_frame, "PageTable")
  /\ is(active, "Thread")


\* What a KPtr::drop that decrements once would count is exact: it is the
\* pointers there are and those that were abandoned, by a dispatch that never
\* returns to drop what its callers hold, and for the page table of a thread
\* whose frame cannot be retyped.  No path drops a pointer twice or forgets one.
EveryPointerCounted == \A f \in Nodes : owed[f] = Pointers(f) + leaked[f]

\* A call that returns an error has changed no slot, no object and not the
\* active thread, and has left every frame in the state it was in: a Construct
\* that fails late does not consume its frame.
ErrorsChangeNothing ==
  [][result' \in Errors =>
       /\ NoEffect
       /\ \A f \in Nodes : state_of(table'[f]) = state_of(table[f])]_cvars

\* The tables and objects that a table leads to.
Reach(n) ==
  LET next(f) == UNION {Range(ChildPtr(f, s)) : s \in Slots}
                   \cup UNION {Range(ResourcePtr(f, s)) : s \in Slots}
      steps[i \in Nat] ==
        IF i = 0 THEN {n}
        ELSE LET before == steps[i - 1] IN before \cup UNION {next(f) : f \in before}
  IN  steps[Cardinality(Nodes)]

\* Connectivity begets connectivity: what a table newly leads to after a call
\* is what the caller's own table led to, or what the call has made; and a new
\* thread runs on a table and a page table that the caller's led to.
OnlyConnectivity ==
  [][<<child, resource>>' # <<child, resource>> =>
       LET new == {f \in Nodes : object[f] = NoObject}
           callers == Reach(object[active].resources)
       IN  /\ \A n \in Nodes : Reach(n)' \ Reach(n) \subseteq callers \cup new
           /\ \A f \in new : object'[f].kind = "Thread" =>
                {object'[f].resources, object'[f].l4_frame} \subseteq callers]_cvars

\* A system call of the first process is answered ("a completely synchronous
\* call-response", Thread::dispatch): looking its capabilities up never makes
\* the kernel panic.
NeverPanics == ~panicked
=============================================================================
