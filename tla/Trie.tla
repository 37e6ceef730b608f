-------------------------------- MODULE Trie --------------------------------
(***************************************************************************)
(* The number trie of the capability tables (trie/src/lib.rs): a node has  *)
(* COUNT slots, a slot may lead to a child node, and a u32 names a slot.   *)
(* The kernel links and unlinks nodes at will, so the nodes form a graph   *)
(* that may share nodes and have cycles; CapTables says when it does.      *)
(***************************************************************************)
EXTENDS Naturals, FiniteSets

CONSTANTS COUNT,     \* the slots of a node: 128 in the kernel
          Nodes,
          Root,      \* the node the lookups start from
          NoNode,    \* a slot without child
          MaxId      \* bound on the ids looked up: 2^32 - 1 in the kernel

ASSUME TrieAssumption ==
  /\ COUNT \in Nat /\ COUNT > 1
  /\ Root \in Nodes
  /\ NoNode \notin Nodes
  /\ MaxId \in Nat

Slots == 0..(COUNT - 1)
Ids == 0..MaxId

\* What a lookup returns: the slot it found, or Absent.
Absent == [found |-> FALSE]
Some(node, slot) == [found |-> TRUE, node |-> node, slot |-> slot]

VARIABLE child       \* child[n][s]: the node slot s of node n leads to

\* Mutant: the digits are taken without dividing the id first.
get_inner_undivided[this \in Nodes, id \in Nat] ==
  LET offset == id % COUNT IN
  IF id < COUNT * COUNT
  THEN Some(this, offset)
  ELSE IF child[this][offset] = NoNode
       THEN Absent
       ELSE get_inner_undivided[child[this][offset], id \div COUNT]

get_inner[this \in Nodes, id \in Nat] ==
  LET offset == id % COUNT
      rest == id \div COUNT
  IN  IF rest = 0
      THEN Some(this, offset)
      ELSE IF child[this][offset] = NoNode
           THEN Absent
           ELSE get_inner[child[this][offset], rest]

get_undivided(this, id) == get_inner_undivided[this, id]

get(this, id) == get_inner[this, id]

\* CapTableOp::Link and Unlink, on a node and a slot of the caller's choice.
set_child(n, s, c) == child' = [child EXCEPT ![n][s] = c]

-----------------------------------------------------------------------------
\* The reference: an id is a number in base COUNT without leading zeros, its
\* digits from the least significant one are the slots of a walk, and the last
\* digit is the slot the walk arrives at.
Digit(id, i) == (id \div COUNT^i) % COUNT
LastDigit(id) == CHOOSE k \in 0..id : COUNT^(k + 1) > id /\ (k = 0 \/ COUNT^k <= id)

Linked == {Root} \cup {n \in Nodes : \E m \in Nodes, s \in Slots : child[m][s] = n}

Walks(id) ==
  {w \in [0..LastDigit(id) -> Linked] :
     /\ w[0] = Root
     /\ \A i \in 1..LastDigit(id) : w[i] = child[w[i - 1]][Digit(id, i - 1)]}

\* get finds the slot at the end of the walk that the digits of the id name,
\* and Absent when a child on the way is missing; links that close a cycle do
\* not keep it from ending.
FindsTheWalk ==
  \A id \in Ids :
    LET walks == Walks(id) IN
    \/ walks = {} /\ get(Root, id) = Absent
    \/ \E w \in walks :
         walks = {w} /\ get(Root, id) = Some(w[LastDigit(id)], Digit(id, LastDigit(id)))

\* The slots that lead to node n.
Parents(n) == {p \in Nodes \X Slots : child[p[1]][p[2]] = n}

\* No node is linked twice, and none above the root.
IsTree == Parents(Root) = {} /\ \A n \in Nodes : Cardinality(Parents(n)) <= 1

\* As long as no table is linked twice, two capability ids never name the same
\* slot.
IdsAreUnambiguous ==
  IsTree =>
    LET found == [id \in Ids |-> get(Root, id)] IN
    \A i, j \in Ids : i # j /\ found[i].found => found[i] # found[j]

\* The slots of the root all have an id, and slot 0 of a table that is linked
\* below the root (and not above it) has none: the id would end in a leading
\* zero.
SlotZeroOfChildren ==
  /\ \A s \in Slots : s <= MaxId => get(Root, s) = Some(Root, s)
  /\ \A id \in Ids : get(Root, id).found /\ get(Root, id).slot = 0 => id = 0
=============================================================================
