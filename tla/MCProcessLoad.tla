--------------------------- MODULE MCProcessLoad ---------------------------
(***************************************************************************)
(* Programs of a segment of text and one of data, on memory that is enough *)
(* for them, that has a usable frame 0 and a hole, or that runs out; and   *)
(* one program on every memory map of up to MaxEntries entries of one or   *)
(* three frames, with or without a hole of a frame before each.            *)
(***************************************************************************)
EXTENDS ProcessLoad, SequencesExt

CONSTANT MaxEntries

E(base, length, entry_type) == [base |-> base, length |-> length, entry_type |-> entry_type]

\* Frames that are needed: the retype table, 9 page tables, 4 to 7 pages, 2 objects.
LargeMaps ==
  {<<E(0, 1, "KERNEL_AND_MODULES"), E(1, 24, "USABLE")>>,
   <<E(0, 1, "USABLE"), E(1, 1, "RESERVED"), E(2, 1, "BOOTLOADER_RECLAIMABLE"),
     E(4, 21, "USABLE")>>}
  \cup {<<E(0, n, "USABLE"), E(n, 1, "BOOTLOADER_RECLAIMABLE")>> : n \in {4, 8, 13}}

Pieces == [hole : 0 .. 1, length : {1, 3},
           entry_type : {"USABLE", "KERNEL_AND_MODULES", "RESERVED"}]

\* The entry that follows the first n - 1 pieces.
EntryAt(pieces, n) ==
  LET upto(k) == FoldFunctionOnSet(LAMBDA p, sum : sum + p.hole + p.length, 0, pieces, 1 .. k)
  IN  E(upto(n - 1) + pieces[n].hole, pieces[n].length, pieces[n].entry_type)

\* The kernel is always in memory.
SmallMaps ==
  UNION {{[n \in 1 .. m |-> EntryAt(pieces, n)] :
            pieces \in {p \in [1 .. m -> Pieces] :
                         \E n \in 1 .. m : p[n].entry_type = "KERNEL_AND_MODULES"}} :
           m \in 1 .. MaxEntries}

MCMemoryMaps == LargeMaps \cup SmallMaps

Text == {[vaddr |-> v, memsz |-> m, filesz |-> f, offset |-> 3, flags |-> {"R", "X"}] :
           v \in {0, 1, 3}, m \in {1, 4}, f \in {1, 4}}
Data == {[vaddr |-> v, memsz |-> m, filesz |-> f, offset |-> 8, flags |-> {"R", "W"}] :
           v \in {4, 7, 46}, m \in {2, 3}, f \in {0, 2}}

AllPrograms ==
  {[entry |-> t.vaddr, phdrs |-> <<t, d>>] :
     t \in {x \in Text : x.filesz <= x.memsz}, d \in Data}

MCPrograms(map) ==
  IF map \in LargeMaps THEN AllPrograms
  ELSE {CHOOSE p \in AllPrograms : p.phdrs[1].memsz = 1 /\ p.phdrs[2].filesz = 2}
=============================================================================
