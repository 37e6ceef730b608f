----------------------------- MODULE BootMemory -----------------------------
(***************************************************************************)
(* Physical memory at boot: the boot loader's memory map, the allocator    *)
(* that takes the retype table out of it, the table RetypeTable::new       *)
(* builds (retyping.rs), and the BumpAllocators that the loader of the     *)
(* first process and kmain then draw frames from (bump_allocator.rs).      *)
(* Addresses and lengths are in frames; the code asserts their alignment.  *)
(***************************************************************************)
EXTENDS RetypeEntry, Sequences, FiniteSetsExt

CONSTANTS MemoryMaps,        \* the maps the boot loader may give: sorted entries
          EntriesPerFrame,   \* PAGE_SIZE / size_of::<RetypeEntry>(): 2048
          Allocators         \* the BumpAllocators in use

ASSUME EntriesPerFrameAssumption == EntriesPerFrame \in Nat \ {0}

VARIABLES
  memory_map,    \* as the boot loader gave it
  reserved,      \* the frames of the retype table itself
  table,         \* table[f]: the entry of frame f; empty before new
  index,         \* index[b]: the frame BumpAllocator b tries next
  owners,        \* owners[f]: the UserFrames, KernelFrames and KPtrs there are of f
  phase          \* "boot", "run", or "panicked"

vars == <<memory_map, reserved, table, index, owners, phase>>

FramesOf(entry) == entry.base .. (entry.base + entry.length - 1)
BootTypes == {"BOOTLOADER_RECLAIMABLE", "KERNEL_AND_MODULES"}

Init ==
  /\ memory_map \in MemoryMaps
  /\ reserved = {}
  /\ table = <<>>
  /\ index = [b \in Allocators |-> 0]
  /\ owners = <<>>
  /\ phase = "boot"

-----------------------------------------------------------------------------
\* bump_alloc::BumpAllocator::alloc_frames, by a new allocator: the first
\* usable entry that is long enough gives its first frames.
Fitting(count) ==
  {i \in DOMAIN memory_map :
     memory_map[i].entry_type = "USABLE" /\ memory_map[i].length >= count}

\* Mutant: the allocated frames stay in the memory map.
Taken_kept(i, count) == memory_map

Taken(i, count) ==
  [memory_map EXCEPT ![i].base = @ + count, ![i].length = @ - count]

\* The last loop of RetypeTable::new: the entries of the map in order, those of
\* a frame that no entry covers staying unavailable.
entry_for(map, f) ==
  LET covering == {i \in DOMAIN map : f \in FramesOf(map[i])}
      last == Max(covering)
  IN  IF covering = {} THEN value_for(Unavailable, 0)
      ELSE IF map[last].entry_type = "USABLE" THEN value_for(Untyped, 0)
      ELSE IF map[last].entry_type \in BootTypes THEN value_for(Kernel, 1)
      ELSE value_for(Unavailable, 0)

number_frames ==
  memory_map[Len(memory_map)].base + memory_map[Len(memory_map)].length

\* Mutant: the division rounds down.
retype_map_frames_floor == number_frames \div EntriesPerFrame

retype_map_frames == ((number_frames - 1) \div EntriesPerFrame) + 1

\* RetypeTable::new, and the unwrap of it in main.rs.
RetypeTable_new ==
  /\ phase = "boot"
  /\ IF Fitting(retype_map_frames) = {}
     THEN phase' = "panicked" /\ UNCHANGED <<reserved, table, owners>>
     ELSE LET i == Min(Fitting(retype_map_frames))
              start == memory_map[i].base
          IN  /\ phase' = "run"
              /\ reserved' = start .. (start + retype_map_frames - 1)
              /\ table' = [f \in 0 .. (number_frames - 1) |->
                             entry_for(Taken(i, retype_map_frames), f)]
              /\ owners' = [f \in 0 .. (number_frames - 1) |-> 0]
  /\ UNCHANGED <<memory_map, index>>

-----------------------------------------------------------------------------
\* Where the loop of BumpAllocator b stops: the first frame from its index on
\* that is untyped; none when it runs out of the table.
NextUntyped(b) ==
  LET free == {f \in DOMAIN table : f >= index[b] /\ state_of(table[f]) = Untyped}
  IN  IF free = {} THEN {} ELSE {Min(free)}

\* alloc_user_frame and alloc_kernel_frame; and alloc_untyped_frame, whose
\* callers retype the frame at once with KPtr::new.  The index stays at the
\* frame that was handed out.  Without one they return None, which every
\* caller unwraps.
alloc_frame(b, kind) ==
  /\ phase = "run"
  /\ \E f \in NextUntyped(b) :
       /\ index' = [index EXCEPT ![b] = f]
       /\ owners' = [owners EXCEPT ![f] = @ + 1]
       /\ table' = [table EXCEPT ![f] = retype(table[f], Untyped, kind, 0, 1)]
  /\ UNCHANGED <<memory_map, reserved, phase>>

-----------------------------------------------------------------------------
Covered(types) ==
  {f \in 0 .. (number_frames - 1) :
     \E i \in DOMAIN memory_map :
       f \in FramesOf(memory_map[i]) /\ memory_map[i].entry_type \in types}

Free == Covered({"USABLE"}) \ reserved

\* The retype table lies in usable memory and has room for its entries, one
\* for each frame of the map.
TableFits ==
  phase = "run" =>
    /\ reserved \subseteq Covered({"USABLE"})
    /\ Cardinality(reserved) * EntriesPerFrame >= number_frames
=============================================================================
