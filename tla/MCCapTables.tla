---------------------------- MODULE MCCapTables ----------------------------
(* Five frames and tables of three slots.  Frame 0 holds the first process's *)
(* capability table, 1 its thread and 2 its page table.                      *)
EXTENDS CapTables

Slots0(a, b, c) == (0 :> a) @@ (1 :> b) @@ (2 :> c)
NoChildren == [n \in Nodes |-> Slots0(NoNode, NoNode, NoNode)]
NoResources == [n \in Nodes |-> Slots0(Empty, Empty, Empty)]

FirstProcess(others, window) ==
  [f \in Nodes |-> CASE f = 0 -> RawCapEntry
                     [] f = 1 -> Thread(0, 2)
                     [] f = 2 -> PageTable(TRUE, window)
                     [] f \in DOMAIN others -> others[f]
                     [] OTHER -> NoObject]

\* docs/Boot Process.md: capability 0 is the process's own table, 1 its page
\* table.
Documented ==
  [child |-> NoChildren,
   resource |-> [NoResources EXCEPT ![0] = Slots0(CapEntry(0), PageTableCap(2, 4), Empty)],
   object |-> FirstProcess(<<>>, TRUE), active |-> 1, spare |-> 3]

\* Two threads with a table each that can activate one another.
Peers ==
  [child |-> NoChildren,
   resource |-> [NoResources EXCEPT ![0] = Slots0(CapEntry(0), CapEntry(3), ThreadCap(4)),
                                    ![3] = Slots0(ThreadCap(1), ThreadCap(4), CapEntry(3))],
   object |-> FirstProcess((3 :> RawCapEntry) @@ (4 :> Thread(3, 2)), FALSE),
   active |-> 1, spare |-> 1]

\* A process with three tables, linked in every way through three slots, cycles
\* and tables that are linked twice included.
Graphs ==
  {[child |-> [NoChildren EXCEPT ![0] = Slots0(NoNode, a, NoNode), ![3] = Slots0(NoNode, b, NoNode),
                                 ![4] = Slots0(NoNode, NoNode, c)],
    resource |-> [NoResources EXCEPT ![0] = Slots0(CapEntry(0), CapEntry(3), CapEntry(4))],
    object |-> FirstProcess((3 :> RawCapEntry) @@ (4 :> RawCapEntry), FALSE),
    active |-> 1, spare |-> 0] : a, b, c \in {NoNode, 0, 3, 4}}

MCBoots == {Documented, Peers} \cup Graphs

KernelBoot ==
  [child |-> NoChildren, resource |-> NoResources, object |-> FirstProcess(<<>>, TRUE),
   active |-> 1, spare |-> 0]
MCKernelBoots == {KernelBoot}
=============================================================================
