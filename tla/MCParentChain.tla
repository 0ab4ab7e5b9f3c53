---------------------------- MODULE MCParentChain ----------------------------
(***************************************************************************)
(* Small instances of ParentChain: a child, a file between and a base in a *)
(* directory, with parents that are shorter, have other block sizes, are   *)
(* not the image named, or name the child again.                           *)
(***************************************************************************)
EXTENDS ParentChain

CONSTANTS child, middle, base, elsewhere     \* names; the last is a path

Diff(id, of, name, size, block, held) ==
  [kind |-> "differencing", id |-> id, parent_id |-> of, parent |-> name,
   size |-> size, block |-> block, held |-> held]
Fixed(id, size) ==
  [kind |-> "fixed", id |-> id, parent_id |-> 0, parent |-> elsewhere,
   size |-> size, block |-> 1, held |-> 0 .. size - 1]
Dynamic(id, size, block, held) ==
  [kind |-> "dynamic", id |-> id, parent_id |-> 0, parent |-> elsewhere,
   size |-> size, block |-> block, held |-> held]
Damaged == [Fixed(3, 1) EXCEPT !.kind = "corrupt"]

Child == Diff(1, 2, middle, 6, 4, {1, 5})
ChildOfPath == Diff(1, 2, elsewhere, 6, 4, {})
Middle == Diff(2, 3, base, 5, 2, {2})
ShortMiddle == Diff(2, 3, base, 3, 2, {1})
Loop == Diff(2, 1, child, 6, 4, {0})
Whole == Fixed(3, 6)
Sparse == Dynamic(3, 4, 2, {0, 3})
Stranger == Dynamic(4, 6, 2, {0, 1, 2, 3, 4, 5})
WholeMiddle == Fixed(2, 4)

AllImages == {Child, ChildOfPath, Middle, ShortMiddle, Loop, Whole, Sparse,
              Stranger, WholeMiddle, Damaged}

Folder(c, m, b) ==
  [n \in Names |-> CASE n = child -> c [] n = middle -> m [] OTHER -> b]

AllDirectories ==
  {Folder(c, m, b) : c \in {Child, ChildOfPath},
                     m \in {Middle, ShortMiddle, Loop, WholeMiddle, Stranger, Missing},
                     b \in {Whole, Sparse, Stranger, Damaged, Missing}}
=============================================================================
