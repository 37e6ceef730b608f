---------------------------- MODULE ProcessLoad ----------------------------
(***************************************************************************)
(* From the retype table to user space: Process::load (bootup.rs) builds   *)
(* the address space of the first process with Addrspace::map_to           *)
(* (page_table.rs), kmain (main.rs) allocates its capability table and its *)
(* thread and dispatches it.  Memory is that of BootMemory.                *)
(*                                                                         *)
(* A page has PAGE_SIZE bytes and a page table RADIX entries on each of    *)
(* LEVELS levels.  Addresses are bytes in ELF segments, pages elsewhere.   *)
(***************************************************************************)
EXTENDS BootMemory, TLC

CONSTANTS PAGE_SIZE, RADIX, LEVELS,   \* 4096, 512 and 4 in the code
          Programs(_),                \* the programs, with a memory map: an entry and
                                      \* the PT_LOAD headers
          STACK_PAGES,                \* 10 in kmain
          UNTYPED_MEMORY_OFFSET,      \* the page user space has all memory mapped from
          Loader, Kmain               \* the BumpAllocators of load and of kmain

ASSUME PagingAssumption ==
  /\ PAGE_SIZE \in Nat \ {0} /\ RADIX \in Nat \ {0, 1} /\ LEVELS \in Nat \ {0}
  /\ STACK_PAGES \in Nat /\ UNTYPED_MEMORY_OFFSET \in Nat
  /\ UNTYPED_MEMORY_OFFSET > STACK_PAGES
  /\ {Loader, Kmain} \subseteq Allocators /\ Loader # Kmain

\* The program is part of the kernel image: the linker's output, which passes
\* the assertions of Segment::load.
ASSUME ProgramsAssumption ==
  \A p \in UNION {Programs(map) : map \in MemoryMaps} :
    /\ \A ph \in Range(p.phdrs) :
         /\ ph.filesz <= ph.memsz
         /\ "R" \in ph.flags
         /\ ph.vaddr + ph.memsz <= PAGE_SIZE * UNTYPED_MEMORY_OFFSET
    /\ \E ph \in Range(p.phdrs) :
         "X" \in ph.flags /\ p.entry \in ph.vaddr .. (ph.vaddr + ph.memsz - 1)

VARIABLES
  program,    \* the program being loaded
  pt,         \* pt[f]: the entries of the page table in frame f
  data,       \* data[f]: the bytes of user frame f, once load has written them
  cr3,        \* the frame of the page table in use
  regs,       \* the registers user space starts with
  l4,         \* the frame of the process's own
  at,         \* where load and kmain are
  segment,    \* the header being loaded: an index of program
  vcurrent, fcurrent,   \* the addresses Segment::load has come to
  i,          \* the counter of the loop load is in
  job,        \* the map_to that load is in: at level 0, the last that ended
  objects     \* the frames of kmain's objects: the capability table, the thread

load_vars ==
  <<program, pt, data, cr3, regs, l4, at, segment, vcurrent, fcurrent, i, job, objects>>

lvars == <<vars, load_vars>>

NoFrame == -1

\* A PageTableEntry: 0, or a frame and flags.
Empty == [frame |-> NoFrame, flags |-> {}]
Entry(frame, flags) == [frame |-> frame, flags |-> flags]

Offsets == 0 .. (RADIX - 1)
KernelHalf == (RADIX \div 2) .. (RADIX - 1)

AnyPageTable_new == [o \in Offsets |-> Empty]

\* Page::containing_address
containing_address(addr) == addr \div PAGE_SIZE

\* VirtAddr::page_table_index
page_table_index(page, level) == (page \div RADIX^(level - 1)) % RADIX

\* The boot loader's page table (external), in the first frame of its memory:
\* the kernel in the upper half, and mappings of its own in the lower.
BootL4 ==
  Min(UNION {FramesOf(e) : e \in {x \in Range(memory_map) : x.entry_type \in BootTypes}})

BootTable ==
  [o \in Offsets |-> Entry(BootL4 + o, {"PRESENT", "WRITABLE"})]

NoJob == [page |-> 0, table |-> NoFrame, level |-> 0, frame |-> NoFrame,
          flags |-> {}, parent_flags |-> {}]

LoadInit ==
  /\ Init
  /\ program \in Programs(memory_map)
  /\ cr3 = BootL4
  /\ regs = <<>>
  /\ pt = BootL4 :> BootTable
  /\ data = <<>>
  /\ l4 = NoFrame
  /\ at = "l4"
  /\ segment = 1
  /\ vcurrent = program.phdrs[1].vaddr
  /\ fcurrent = program.phdrs[1].offset
  /\ i = 0
  /\ job = NoJob
  /\ objects = <<>>

init == RetypeTable_new /\ UNCHANGED load_vars

\* An unwrap or an assertion fails: the kernel stops.
Panic ==
  /\ phase' = "panicked"
  /\ UNCHANGED <<memory_map, reserved, table, index, owners, load_vars>>

\* load or kmain goes on: it is at p and no map_to is under way.
Running(p) == phase = "run" /\ at = p /\ job.level = 0

\* The unwrap of an allocation.  The frame of one that succeeds is index'[b].
Exhausted(b) == NextUntyped(b) = {} /\ Panic

-----------------------------------------------------------------------------
\* The KPtr of AnyPageTable::current, taken and dropped: KernelFrame::drop
\* decrements twice (see KPtr).
BorrowCurrent(word) ==
  LET taken == get_as_and_increment(word, Kernel) IN
  IF taken = None \/ decrement(taken) = None THEN None ELSE decrement(decrement(taken))

\* Mutant: the copy starts one entry late.
clone_kernel_late ==
  [o \in Offsets |-> IF o \in KernelHalf /\ o - 1 \in KernelHalf THEN pt[cr3][o] ELSE Empty]

\* AnyPageTable::clone_kernel: the upper half of the current table.
clone_kernel == [o \in Offsets |-> IF o \in KernelHalf THEN pt[cr3][o] ELSE Empty]

\* AnyPageTable::new_l4, on the frame alloc_untyped_frame returns.
new_l4 ==
  /\ Running("l4")
  /\ IF NextUntyped(Loader) = {} \/ BorrowCurrent(table[cr3]) = None
     THEN Panic
     ELSE /\ l4' = Min(NextUntyped(Loader))
          /\ index' = [index EXCEPT ![Loader] = l4']
          /\ owners' = [owners EXCEPT ![l4'] = @ + 1]
          /\ table' = [table EXCEPT ![cr3] = BorrowCurrent(@),
                                    ![l4'] = retype(@, Untyped, Kernel, 0, 1)]
          /\ pt' = (l4' :> clone_kernel) @@ pt
          /\ at' = "segment"
          /\ UNCHANGED <<memory_map, reserved, phase, program, data, cr3, regs, segment,
                         vcurrent, fcurrent, i, job, objects>>

-----------------------------------------------------------------------------
\* The call of map_to: it starts at the top level.
map_to(page, frame, flags, parent_flags) ==
  [page |-> page, table |-> l4, level |-> LEVELS, frame |-> frame,
   flags |-> flags, parent_flags |-> parent_flags]

Below(frame) == [job EXCEPT !.level = @ - 1, !.table = frame]

\* A turn of the loop above the bottom: into the table of the entry, or into a
\* new one.  No entry of a lower half is a huge page here.
map_level ==
  /\ phase = "run"
  /\ job.level > 1
  /\ LET offset == page_table_index(job.page, job.level)
         entry == pt[job.table][offset]
     IN
     \/ /\ entry # Empty
        /\ job' = Below(entry.frame)
        /\ UNCHANGED <<vars, program, pt, data, cr3, regs, l4, at, segment, vcurrent, fcurrent,
                       i, objects>>
     \/ /\ entry = Empty
        /\ alloc_frame(Loader, Kernel)
        /\ pt' = (index'[Loader] :> AnyPageTable_new)
                   @@ [pt EXCEPT ![job.table][offset] =
                         Entry(index'[Loader], job.parent_flags \cup {"PRESENT"})]
        /\ job' = Below(index'[Loader])
        /\ UNCHANGED <<program, data, cr3, regs, l4, at, segment, vcurrent, fcurrent, i, objects>>
     \/ entry = Empty /\ Exhausted(Loader)

\* Mutant: a page that is mapped already is mapped again.
map_bottom_again ==
  /\ phase = "run"
  /\ job.level = 1
  /\ pt' = [pt EXCEPT ![job.table][page_table_index(job.page, 1)] = Entry(job.frame, job.flags)]
  /\ job' = [job EXCEPT !.level = 0]
  /\ UNCHANGED <<vars, program, data, cr3, regs, l4, at, segment, vcurrent, fcurrent, i, objects>>

\* The turn at the bottom: AlreadyMapped, which load unwraps, or the mapping.
map_bottom ==
  /\ phase = "run"
  /\ job.level = 1
  /\ LET offset == page_table_index(job.page, 1) IN
     IF pt[job.table][offset] # Empty
     THEN Panic
     ELSE /\ pt' = [pt EXCEPT ![job.table][offset] = Entry(job.frame, job.flags)]
          /\ job' = [job EXCEPT !.level = 0]
          /\ UNCHANGED <<vars, program, data, cr3, regs, l4, at, segment, vcurrent, fcurrent, i,
                         objects>>

-----------------------------------------------------------------------------
Header == program.phdrs[segment]

\* The flags of a page of the segment.
pflags(ph) ==
  {"PRESENT", "USER_ACCESSIBLE"}
    \cup (IF "W" \in ph.flags THEN {"WRITABLE"} ELSE {})
    \cup (IF "X" \in ph.flags THEN {} ELSE {"NO_EXECUTE"})

UserParent == {"WRITABLE", "USER_ACCESSIBLE"}

\* Segment::load, a turn of the loop up to the map_to: a frame for the page.
load_page ==
  /\ Running("segment")
  /\ segment <= Len(program.phdrs)
  /\ vcurrent < Header.vaddr + Header.memsz
  /\ \/ /\ alloc_frame(Loader, User)
        /\ job' = map_to(containing_address(vcurrent), index'[Loader], pflags(Header), UserParent)
        /\ at' = "copy"
        /\ UNCHANGED <<program, pt, data, cr3, regs, l4, segment, vcurrent, fcurrent, i, objects>>
     \/ Exhausted(Loader)

\* The bytes of the file are told apart by their place in it; 0 is a zero.
Byte(offset) == offset + 1

\* Mutant: the bytes go to the start of the page.
copy_to_start(count) ==
  [b \in 0 .. (PAGE_SIZE - 1) |-> IF b < count THEN Byte(fcurrent + b) ELSE 0]

\* What write_bytes and copy leave in the page.
copy(count) ==
  LET start == vcurrent % PAGE_SIZE IN
  [b \in 0 .. (PAGE_SIZE - 1) |->
     IF b \in start .. (start + count - 1) THEN Byte(fcurrent + b - start) ELSE 0]

\* The rest of the turn.
load_bytes ==
  /\ Running("copy")
  /\ LET count == Min({Header.offset + Header.filesz - fcurrent,
                       PAGE_SIZE - (vcurrent % PAGE_SIZE)})
     IN  /\ data' = (job.frame :> copy(count)) @@ data
         /\ vcurrent' = vcurrent + PAGE_SIZE - (vcurrent % PAGE_SIZE)
         /\ fcurrent' = fcurrent + count
  /\ at' = "segment"
  /\ UNCHANGED <<vars, program, pt, cr3, regs, l4, segment, i, job, objects>>

\* The segment is loaded, and the next, or the stack, is up.
next_segment ==
  /\ Running("segment")
  /\ vcurrent >= Header.vaddr + Header.memsz
  /\ IF segment < Len(program.phdrs)
     THEN /\ segment' = segment + 1
          /\ vcurrent' = program.phdrs[segment + 1].vaddr
          /\ fcurrent' = program.phdrs[segment + 1].offset
          /\ UNCHANGED at
     ELSE at' = "stack" /\ UNCHANGED <<segment, vcurrent, fcurrent>>
  /\ UNCHANGED <<vars, program, pt, data, cr3, regs, l4, i, job, objects>>

\* Mutant: the stack starts at the address of the stack pointer.
stack_page_off_by_one(n) == UNTYPED_MEMORY_OFFSET - n

stack_page(n) == UNTYPED_MEMORY_OFFSET - (n + 1)

map_stack ==
  /\ Running("stack")
  /\ i < STACK_PAGES
  /\ \/ /\ alloc_frame(Loader, User)
        /\ job' = map_to(stack_page(i), index'[Loader],
                         {"PRESENT", "WRITABLE", "USER_ACCESSIBLE", "NO_EXECUTE"}, UserParent)
        /\ i' = i + 1
        /\ UNCHANGED <<program, pt, data, cr3, regs, l4, at, segment, vcurrent, fcurrent, objects>>
     \/ Exhausted(Loader)

\* A loop that has come to its end gives way to the next.
loop_ends ==
  /\ \/ Running("stack") /\ i = STACK_PAGES /\ at' = "untyped"
     \/ Running("untyped") /\ i = number_frames /\ at' = "kmain"
  /\ i' = 0
  /\ UNCHANGED <<vars, program, pt, data, cr3, regs, l4, segment, vcurrent, fcurrent, job, objects>>

\* Mutant: the window is mapped with the flags of the stack.
window_user(n) ==
  map_to(UNTYPED_MEMORY_OFFSET + n, n, {"PRESENT"} \cup UserParent, UserParent)

\* Mutant: the window starts at frame 1.
window_from_1(n) ==
  map_to(UNTYPED_MEMORY_OFFSET + n, n + 1, {"PRESENT"}, {"PRESENT"})

window(n) == map_to(UNTYPED_MEMORY_OFFSET + n, n, {"PRESENT"}, {"PRESENT"})

\* All of memory, from UNTYPED_MEMORY_OFFSET on.
map_untyped ==
  /\ Running("untyped")
  /\ i < number_frames
  /\ job' = window(i)
  /\ i' = i + 1
  /\ UNCHANGED <<vars, program, pt, data, cr3, regs, l4, at, segment, vcurrent, fcurrent, objects>>

\* kmain: the frames of the capability table and of the thread, by an allocator
\* of its own.
new_object ==
  /\ Running("kmain")
  /\ Len(objects) < 2
  /\ \/ /\ alloc_frame(Kmain, Kernel)
        /\ objects' = Append(objects, index'[Kmain])
        /\ UNCHANGED <<program, pt, data, cr3, regs, l4, at, segment, vcurrent, fcurrent, i, job>>
     \/ Exhausted(Kmain)

\* Process::into_exec: interrupts are on in rflags, the other registers are 0.
into_exec ==
  [l4_frame |-> l4,
   regs |-> [rsp |-> PAGE_SIZE * UNTYPED_MEMORY_OFFSET, rip |-> program.entry,
             rflags |-> {"INTERRUPT"}]]

\* ExecCtx::dispatch: the new page table, then the registers, then user space.
ExecCtx_dispatch(ctx) ==
  /\ cr3' = ctx.l4_frame
  /\ regs' = ctx.regs
  /\ at' = "user"

\* Thread::dispatch: ACTIVE_THREAD, empty so far, gets a clone of the pointer to
\* the thread, which is the only one.
dispatch ==
  /\ Running("kmain")
  /\ Len(objects) = 2
  /\ table' = [table EXCEPT ![objects[2]] = increment(@)]
  /\ owners' = [owners EXCEPT ![objects[2]] = @ + 1]
  /\ ExecCtx_dispatch(into_exec)
  /\ UNCHANGED <<memory_map, reserved, phase, index, program, pt, data, l4, segment,
                 vcurrent, fcurrent, i, job, objects>>

LoadNext ==
  \/ init
  \/ new_l4
  \/ map_level
  \/ map_bottom
  \/ load_page
  \/ load_bytes
  \/ next_segment
  \/ map_stack
  \/ loop_ends
  \/ map_untyped
  \/ new_object
  \/ dispatch

LoadSpec == LoadInit /\ [][LoadNext]_lvars

-----------------------------------------------------------------------------
\* The pages of the lower half, and how the processor translates one with the
\* page table of the process: the entries on its way down, from the bottom up.
UserPages == 0 .. ((RADIX \div 2) * RADIX^(LEVELS - 1) - 1)

Path(page) ==
  LET entry[level \in 1 .. LEVELS] ==
        LET t == IF level = LEVELS THEN l4 ELSE entry[level + 1].frame
        IN  IF t = NoFrame THEN Empty ELSE pt[t][page_table_index(page, level)]
  IN  entry

Allowed(page, flag) == \A level \in 1 .. LEVELS : flag \in Path(page)[level].flags
Forbids(page, flag) == \E level \in 1 .. LEVELS : flag \in Path(page)[level].flags

ReachablePages == {p \in UserPages : Allowed(p, "USER_ACCESSIBLE")}

\* What the process can reach is its own: each page it can reach is a frame
\* typed as user memory, with the one reference of the mapping, and no two are
\* the same frame.  Mapping all of memory above the stack ("Mapping non-user
\* accessible untyped pages") does not change that.
ReachesItsOwn ==
  phase = "run" =>
    LET frame == [p \in ReachablePages |-> Path(p)[1].frame] IN
    /\ \A p \in DOMAIN frame : table[frame[p]] = value_for(User, 1)
    /\ \A p, q \in DOMAIN frame : frame[p] = frame[q] => p = q

\* What the memory map and the allocations say of a frame is what its entry
\* says: usable memory is untyped until it is handed out and counts its
\* references from then on, the frames of the kernel image and the boot loader
\* have one from the start, and everything else, the table's own frames
\* included, can never be typed.  The boot loader's page table is the
\* exception: new_l4 loses the reference to it.
TableMatchesMap ==
  phase = "run" =>
    \A f \in DOMAIN table :
      LET state == state_of(table[f])
          count == counter_of(table[f])
      IN  CASE f \in Free -> /\ count = owners[f]
                             /\ state = Untyped <=> owners[f] = 0
                             /\ state # Unavailable
            [] f \in Covered(BootTypes) ->
                 /\ state = Kernel
                 /\ count = IF f = BootL4 /\ at # "l4" THEN 0 ELSE 1
                 /\ owners[f] = 0
            [] OTHER -> state = Unavailable /\ count = 0 /\ owners[f] = 0

\* Every frame that was handed out is in use, and in one place only: as a page
\* table that one entry leads to, as a page of the process, or as an object.
\* A frame that is being mapped is the exception.
FramesAccounted ==
  phase = "run" =>
    LET tables == DOMAIN pt \ {BootL4}
        pages == {Path(p)[1].frame : p \in ReachablePages}
        mapping == IF job.level > 0 /\ at \in {"copy", "stack"} THEN {job.frame} ELSE {}
        handed == {f \in DOMAIN owners : owners[f] > 0}
    IN  /\ handed = tables \cup pages \cup Range(objects) \cup mapping
        /\ Cardinality(handed) = Cardinality(tables) + Cardinality(pages)
                                   + Len(objects) + Cardinality(mapping)
        /\ \A f \in tables \cup Range(objects) : state_of(table[f]) = Kernel

\* The process starts with the image its program describes: each byte of a
\* segment is where its header says, from the file or zero, in a page with the
\* permissions of the segment; at an address it can execute, and with all of
\* its stack below the stack pointer.
ImageLoaded ==
  at = "user" =>
    /\ \A ph \in Range(program.phdrs) : \A n \in 0 .. (ph.memsz - 1) :
         LET v == ph.vaddr + n
             page == containing_address(v)
         IN  /\ data[Path(page)[1].frame][v % PAGE_SIZE]
                  = IF n < ph.filesz THEN Byte(ph.offset + n) ELSE 0
             /\ Allowed(page, "USER_ACCESSIBLE")
             /\ Allowed(page, "WRITABLE") <=> "W" \in ph.flags
             /\ Forbids(page, "NO_EXECUTE") <=> "X" \notin ph.flags
    /\ LET page == containing_address(regs.rip) IN
       Allowed(page, "USER_ACCESSIBLE") /\ ~Forbids(page, "NO_EXECUTE")
    /\ \A n \in 1 .. STACK_PAGES :
         LET page == containing_address(regs.rsp) - n IN
         /\ Allowed(page, "USER_ACCESSIBLE") /\ Allowed(page, "WRITABLE")
         /\ Forbids(page, "NO_EXECUTE")

\* Frame n is at page UNTYPED_MEMORY_OFFSET + n, which is how Construct finds
\* the frame a process names; the process itself cannot reach it there.
WindowComplete ==
  at = "user" =>
    \A f \in DOMAIN table :
      LET page == UNTYPED_MEMORY_OFFSET + f IN
      Path(page)[1].frame = f /\ ~Allowed(page, "USER_ACCESSIBLE")

\* "Every l4_frame must have the top half kernel mapped" (ExecCtx::dispatch):
\* the page table in use always maps the kernel as the boot loader did.
KernelHalfMapped == \A o \in KernelHalf : pt[cr3][o] = BootTable[o]

\* Loading fails only for want of memory, or for a program with two segments
\* in a page or one in the stack.
PagesOf(ph) == {containing_address(ph.vaddr + n) : n \in 0 .. (ph.memsz - 1)}

Collides ==
  \/ \E s, t \in DOMAIN program.phdrs :
       s # t /\ PagesOf(program.phdrs[s]) \cap PagesOf(program.phdrs[t]) # {}
  \/ \E ph \in Range(program.phdrs) :
       \E p \in PagesOf(ph) : p >= UNTYPED_MEMORY_OFFSET - STACK_PAGES

FailsForAReason ==
  phase = "panicked" =>
    \/ table = <<>> /\ Fitting(retype_map_frames) = {}
    \/ \A f \in DOMAIN table : state_of(table[f]) # Untyped
    \/ Collides
=============================================================================
