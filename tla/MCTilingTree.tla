----------------------------- MODULE MCTilingTree -----------------------------
(***************************************************************************)
(* TilingTree on small instances.                                          *)
(***************************************************************************)
EXTENDS TilingTree, TLC

ViewSymmetry == Permutations(Views)
ScreenSymmetry == Permutations(Views) \cup Permutations(Outputs)

(* The address of a node is only a name, and no guard reads a split         *)
(* direction: states whose trees have the same shape, windows and paths     *)
(* have the same futures.                                                   *)
Shape ==
  LET shape[n \in DOMAIN tree] ==
        <<tree[n].view, tree[n].coding,
          [i \in 1..Len(tree[n].kids) |-> shape[tree[n].kids[i]]]>>
  IN  [o \in Outputs |-> IF root[o] = NoNode THEN <<>> ELSE shape[root[o]]]

Structure == <<Shape, layer, vout, fault>>

=============================================================================
