------------------------------ MODULE TilingTree ------------------------------
(***************************************************************************)
(* The tiling layout of one workspace (server/desktop/layout_tiling.c).    *)
(*                                                                         *)
(* The layout keeps one tree per output.  An inner node divides its space  *)
(* among its children; a leaf holds one window.  Every node records the    *)
(* path that led to it when it was inserted (`coding`: the child index to  *)
(* take at each level), and the handlers compute the screen area of a      *)
(* subtree by following that path down from the root.                      *)
(*                                                                         *)
(* What is abstracted: portions, intervals and pixel geometry.  Whether a  *)
(* row has room for one more window (is_subtree_valid) depends on nothing  *)
(* else, so it is a choice from the constant Fits.                         *)
(*                                                                         *)
(* The event loop is single threaded: one handler is one action.  Where    *)
(* the code dereferences a node or an output that is not there, or fails   *)
(* an assertion, the compositor is gone: `fault` names the cause and       *)
(* nothing happens afterwards.                                             *)
(***************************************************************************)
EXTENDS Naturals, Sequences, FiniteSets, SequencesExt

CONSTANTS
  Views,     \* windows that may be tiled on this workspace
  Outputs,   \* screens
  Nodes,     \* addresses of tree nodes (a bound on live nodes)
  MaxLevel,  \* deepest level the path array can record; 31 in the code
  Fits,      \* answers of is_subtree_valid: {TRUE}, or BOOLEAN when space runs out
  NoNode, NoView, NoOutput

ASSUME TilingAssumption ==
  /\ Nodes \subseteq Nat /\ NoNode \notin Nodes
  /\ NoView \notin Views /\ NoOutput \notin Outputs
  /\ MaxLevel \in Nat \ {0}
  /\ Fits \subseteq BOOLEAN /\ Fits # {}

VARIABLES
  tree,    \* the live nodes of all trees: a function from their addresses
  root,    \* root[o]: the root of o's tree, NoNode while o is unplugged
  layer,   \* the tiling layer: its windows, the last focused one first
  vout,    \* vout[v]: the output libweston believes v is on
  fault    \* "none", or how the compositor went down

vars == <<tree, root, layer, vout, fault>>

Faults == {"none", "no leaf", "no output", "bad path", "freed node", "assert"}

(* struct tiling_view; the level of a node is the length of its coding. *)
NodeType ==
  [parent: Nodes \cup {NoNode}, kids: Seq(Nodes), view: Views \cup {NoView},
   vertical: BOOLEAN, coding: Seq(Nat), output: Outputs]

Windows == {layer[i] : i \in 1..Len(layer)}
Without(s, v) ==
  IF Contains(s, v) THEN RemoveAt(s, CHOOSE i \in 1..Len(s) : s[i] = v) ELSE s
Extend(t, n, rec) == [m \in DOMAIN t \cup {n} |-> IF m = n THEN rec ELSE t[m]]
Fresh(t) == CHOOSE n \in Nodes \ DOMAIN t : \A m \in Nodes \ DOMAIN t : n <= m

Level(t, n) == Len(t[n].coding)
Kids(t, n) == {t[n].kids[i] : i \in 1..Len(t[n].kids)}

(***************************************************************************)
(* Lookups                                                                 *)
(***************************************************************************)

(* tiling_view_find under the tree of output o. *)
LeafIn(t, o, v) ==
  LET found == {n \in DOMAIN t : t[n].view = v /\ t[n].output = o}
  IN  IF found = {} THEN NoNode ELSE CHOOSE n \in found : TRUE

(* The handlers look for v in the tree of the output v is believed on. *)
Leaf(t, v) == LeafIn(t, vout[v], v)

Plugged(o) == o # NoOutput /\ root[o] # NoNode

(***************************************************************************)
(* tiling_subtree_space: the node that following n's path from the root    *)
(* leads to, NoNode when an index is past the last child.                  *)
(***************************************************************************)
Reached(t, n) ==
  LET code == t[n].coding
      at[k \in 0..Len(code)] ==
        IF k = 0 THEN root[t[n].output]
        ELSE IF at[k-1] # NoNode /\ code[k] < Len(t[at[k-1]].kids)
             THEN t[at[k-1]].kids[code[k] + 1]
             ELSE NoNode
  IN  at[Len(code)]

HasPath(t, n) == Reached(t, n) # NoNode

(***************************************************************************)
(* Editing the tree                                                        *)
(***************************************************************************)

(* Mutant of Renumber: the row is not renumbered when it changes. *)
RenumberForgotten(t, P, turn) == t

(* The last index of a child's path is its place in its parent's row; the   *)
(* paths of the nodes below the child are left as they were.  Inserting and *)
(* resizing also turn the row's windows to the row's direction, erasing     *)
(* does not.  P: the parents whose rows are rewritten.                      *)
Renumber(t, P, turn) ==
  [m \in DOMAIN t |->
     IF t[m].parent \in P
     THEN LET p == t[m].parent
              i == CHOOSE j \in 1..Len(t[p].kids) : t[p].kids[j] = m
          IN  [t[m] EXCEPT
                 !.coding[Len(t[m].coding)] = i - 1,
                 !.vertical = IF turn /\ t[m].view # NoView
                              THEN t[p].vertical ELSE @]
     ELSE t[m]]

(* tiling_view_insert of a new leaf n for v: always as the first child. *)
Insert(t, p, n, v) ==
  LET leaf == [parent |-> p, kids |-> <<>>, view |-> v,
               vertical |-> t[p].vertical, coding |-> Append(t[p].coding, 0),
               output |-> t[p].output]
  IN  Renumber([Extend(t, n, leaf) EXCEPT ![p].kids = <<n>> \o @], {p}, TRUE)

(* The assertion in tiling_view_insert that a child of n is not too deep. *)
RoomBelow(t, n) == Level(t, n) + 1 <= MaxLevel

(* Mutant of Erased: no cascade. *)
ErasedAlone(t, n) == {n}
(* tiling_view_erase goes on to the parent when that is left empty, is not *)
(* the root and holds no window: the nodes it frees when leaf n goes.       *)
Erased(t, n) ==
  LET goes[m \in DOMAIN t] ==
        \/ m = n
        \/ /\ t[m].parent # NoNode
           /\ t[m].view = NoView
           /\ Len(t[m].kids) = 1
           /\ goes[t[m].kids[1]]
  IN  {m \in DOMAIN t : goes[m]}

(* The ancestor tiling_view_erase returns. *)
Survivor(t, n) ==
  LET gone == Erased(t, n)
  IN  CHOOSE p \in DOMAIN t \ gone : Kids(t, p) \cap gone # {}

(* Mutant of Erase: the last child takes the place of the erased one. *)
EraseSwapLast(t, n) ==
  LET gone == Erased(t, n)
      p    == Survivor(t, n)
      i    == Last(t[CHOOSE m \in gone : t[m].parent = p].coding) + 1
      cut  == [m \in DOMAIN t \ gone |->
                 IF m = p
                 THEN [t[p] EXCEPT !.kids = Front([@ EXCEPT ![i] = Last(t[p].kids)])]
                 ELSE t[m]]
  IN  Renumber(cut, {p}, FALSE)

Erase(t, n) ==
  LET gone == Erased(t, n)
      p    == Survivor(t, n)
      top  == CHOOSE m \in gone : t[m].parent = p
      cut  == [m \in DOMAIN t \ gone |->
                 IF m = p
                 THEN [t[p] EXCEPT !.kids = RemoveAt(@, Last(t[top].coding) + 1)]
                 ELSE t[m]]
  IN  Renumber(cut, {p}, FALSE)

(***************************************************************************)
(* Steps                                                                   *)
(***************************************************************************)
Fault(kind) == fault' = kind /\ UNCHANGED <<tree, root, layer, vout>>

Init ==
  /\ tree = [n \in {} |-> 0]
  /\ root = [o \in Outputs |-> NoNode]
  /\ layer = <<>>
  /\ vout = [v \in Views |-> NoOutput]
  /\ fault = "none"

(* tiling_add_output *)
AddOutput(o) ==
  /\ root[o] = NoNode
  /\ Nodes \ DOMAIN tree # {}
  /\ LET n == Fresh(tree) IN
     /\ tree' = Extend(tree, n, [parent |-> NoNode, kids |-> <<>>, view |-> NoView,
                                 vertical |-> FALSE, coding |-> <<>>, output |-> o])
     /\ root' = [root EXCEPT ![o] = n]
  /\ UNCHANGED <<layer, vout, fault>>

(* Mutants of RemoveOutput: only the root is freed; every tree is freed. *)
RemoveOutputRootOnly(o) ==
  /\ root[o] # NoNode
  /\ tree' = [n \in DOMAIN tree \ {root[o]} |-> tree[n]]
  /\ root' = [root EXCEPT ![o] = NoNode]
  /\ vout' = [v \in Views |-> IF vout[v] = o THEN NoOutput ELSE vout[v]]
  /\ UNCHANGED <<layer, fault>>
RemoveOutputAll(o) ==
  /\ root[o] # NoNode
  /\ tree' = [n \in {} |-> 0]
  /\ root' = [p \in Outputs |-> NoNode]
  /\ vout' = [v \in Views |-> NoOutput]
  /\ UNCHANGED <<layer, fault>>

(* tiling_rm_output frees the tree; the windows stay on the layer, and      *)
(* libweston forgets the output of every view that was on it.               *)
RemoveOutput(o) ==
  /\ root[o] # NoNode
  /\ tree' = [n \in {m \in DOMAIN tree : tree[m].output # o} |-> tree[n]]
  /\ root' = [root EXCEPT ![o] = NoNode]
  /\ vout' = [v \in Views |-> IF vout[v] = o THEN NoOutput ELSE vout[v]]
  /\ UNCHANGED <<layer, fault>>

(* libweston: on a repaint a view is assigned to the output it overlaps.    *)
(* A tiled view was positioned inside its tree's output.                    *)
AssignOutput(v, o) ==
  /\ v \in Windows /\ vout[v] # o /\ Plugged(o)
  /\ \/ \E n \in DOMAIN tree : tree[n].view = v /\ tree[n].output = o
     \/ \A n \in DOMAIN tree : tree[n].view # v
  /\ vout' = [vout EXCEPT ![v] = o]
  /\ UNCHANGED <<tree, root, layer, fault>>

(* tiling_find_launch_point: the node a window opened on output o goes to.  *)
LaunchPoint(o) ==
  LET fv == IF layer = <<>> THEN root[o] ELSE Leaf(tree, Head(layer))
      pv == IF tree[fv].parent # NoNode THEN tree[fv].parent ELSE fv
  IN  IF Level(tree, pv) >= MaxLevel THEN tree[pv].parent ELSE pv

(* The focused window, if there is one, must be found in the tree of the    *)
(* output it is believed on.                                                *)
FocusedLeaf == IF layer = <<>> THEN TRUE ELSE Leaf(tree, Head(layer)) # NoNode

(* tiling_add of a window on output o; the caller puts it on the layer.     *)
Add(v, o) ==
  /\ v \notin Windows
  /\ Plugged(o)
  /\ Nodes \ DOMAIN tree # {}
  /\ \/ /\ ~FocusedLeaf
        /\ Fault(IF Plugged(vout[Head(layer)]) THEN "no leaf" ELSE "no output")
     \/ /\ FocusedLeaf
        /\ ~HasPath(tree, LaunchPoint(o))
        /\ Fault("bad path")
     \/ /\ FocusedLeaf
        /\ HasPath(tree, LaunchPoint(o))
        /\ \E fits \in Fits :
             tree' = IF fits THEN Insert(tree, LaunchPoint(o), Fresh(tree), v)
                     ELSE tree
        /\ layer' = <<v>> \o layer
        /\ vout' = [vout EXCEPT ![v] = o]
        /\ UNCHANGED <<root, fault>>

(* workspace_focus_view brings a window to the front of its layer. *)
Focus(v) ==
  /\ v \in Windows
  /\ layer' = <<v>> \o Without(layer, v)
  /\ UNCHANGED <<tree, root, vout, fault>>

(* tiling_del; the caller takes the window off the layer.  A window that is *)
(* not in the tree of its output is simply not deleted.                     *)
Del(v) ==
  /\ v \in Windows
  /\ \/ /\ Leaf(tree, v) # NoNode
        /\ ~HasPath(Erase(tree, Leaf(tree, v)), Survivor(tree, Leaf(tree, v)))
        /\ Fault("bad path")
     \/ /\ \/ Leaf(tree, v) = NoNode /\ tree' = tree
           \/ /\ Leaf(tree, v) # NoNode
              /\ HasPath(Erase(tree, Leaf(tree, v)), Survivor(tree, Leaf(tree, v)))
              /\ tree' = Erase(tree, Leaf(tree, v))
        /\ layer' = Without(layer, v)
        /\ vout' = [vout EXCEPT ![v] = NoOutput]
        /\ UNCHANGED <<root, fault>>

(* Every command on a window starts with output_find and view_find, and     *)
(* uses what they return unchecked.                                         *)
CommandOnLostWindow(v) ==
  /\ v \in Windows
  /\ \/ ~Plugged(vout[v]) /\ Fault("no output")
     \/ Plugged(vout[v]) /\ Leaf(tree, v) = NoNode /\ Fault("no leaf")

(* _tiling_split *)
Split(v, vertical) ==
  /\ v \in Windows /\ Leaf(tree, v) # NoNode
  /\ Nodes \ DOMAIN tree # {}
  /\ LET n == Leaf(tree, v)
         p == tree[n].parent
         opened == [tree EXCEPT ![n].view = NoView, ![n].vertical = vertical]
     IN  \/ /\ Len(tree[p].kids) <= 1
            /\ tree' = [tree EXCEPT ![p].vertical = vertical]
            /\ UNCHANGED <<root, layer, vout, fault>>
         \/ /\ Len(tree[p].kids) > 1
            /\ ~HasPath(tree, n)
            /\ Fault("bad path")
         \/ /\ Len(tree[p].kids) > 1
            /\ HasPath(tree, n)
            /\ \/ /\ TRUE \in Fits /\ RoomBelow(tree, n)
                  /\ tree' = Insert(opened, n, Fresh(tree), v)
                  /\ UNCHANGED <<root, layer, vout, fault>>
               \/ /\ TRUE \in Fits /\ ~RoomBelow(tree, n)
                  /\ Fault("assert")
               \/ /\ FALSE \in Fits
                  /\ tree' = opened
                  /\ UNCHANGED <<root, layer, vout, fault>>

(* tiling_merge: erase, then insert at the grandparent fetched before. *)
Merge(v) ==
  /\ v \in Windows /\ Leaf(tree, v) # NoNode
  /\ LET n == Leaf(tree, v)
         g == tree[tree[n].parent].parent
         rest == Erase(tree, n)
     IN  /\ g # NoNode
         /\ \/ ~HasPath(tree, g) /\ Fault("bad path")
            \/ HasPath(tree, g) /\ g \in Erased(tree, n) /\ Fault("freed node")
            \/ /\ HasPath(tree, g) /\ g \notin Erased(tree, n)
               /\ \E fits \in Fits :
                    tree' = IF fits THEN Insert(rest, g, Fresh(rest), v) ELSE rest
               /\ UNCHANGED <<root, layer, vout, fault>>

(* tiling_toggle: the windows below keep the direction they had. *)
Toggle(v) ==
  /\ v \in Windows /\ Leaf(tree, v) # NoNode
  /\ LET p == tree[Leaf(tree, v)].parent
     IN  \/ ~HasPath(tree, p) /\ Fault("bad path")
         \/ /\ HasPath(tree, p)
            /\ tree' = [tree EXCEPT ![p].vertical = ~@]
            /\ UNCHANGED <<root, layer, vout, fault>>

(* _tiling_resize visits every ancestor; in those where the new portions    *)
(* are allowed it rewrites the row.                                         *)
Ancestors(t, n) ==
  LET above[m \in DOMAIN t] ==
        IF t[m].parent = NoNode THEN {} ELSE {t[m].parent} \cup above[t[m].parent]
  IN  above[n]

Resize(v) ==
  /\ v \in Windows /\ Leaf(tree, v) # NoNode
  /\ LET n == Leaf(tree, v)
         rows == {p \in DOMAIN tree : p \in Ancestors(tree, n) /\ Len(tree[p].kids) > 1}
     IN  \/ /\ \E p \in Ancestors(tree, n) : ~HasPath(tree, p)
            /\ Fault("bad path")
         \/ /\ \A p \in Ancestors(tree, n) : HasPath(tree, p)
            /\ \E allowed \in SUBSET rows :
                 tree' = Renumber(tree, allowed, TRUE)
            /\ UNCHANGED <<root, layer, vout, fault>>

Command(v) ==
  \/ CommandOnLostWindow(v) \/ Merge(v) \/ Toggle(v) \/ Resize(v)
  \/ \E vertical \in BOOLEAN : Split(v, vertical)

(* What happens while no screen is unplugged. *)
SteadyNext ==
  /\ fault = "none"
  /\ \/ \E o \in Outputs : AddOutput(o)
     \/ \E v \in Views, o \in Outputs : Add(v, o) \/ AssignOutput(v, o)
     \/ \E v \in Views : Focus(v) \/ Del(v) \/ Command(v)

Next ==
  \/ SteadyNext
  \/ fault = "none" /\ \E o \in Outputs : RemoveOutput(o)

SteadySpec == Init /\ [][SteadyNext]_vars
Spec == Init /\ [][Next]_vars

(***************************************************************************)
(* Properties                                                              *)
(***************************************************************************)
(* The state has the types of the code.                                     *)
TypeOK ==
  /\ DOMAIN tree \subseteq Nodes
  /\ \A n \in DOMAIN tree : tree[n] \in NodeType
  /\ root \in [Outputs -> Nodes \cup {NoNode}]
  /\ layer \in Seq(Views)
  /\ vout \in [Views -> Outputs \cup {NoOutput}]
  /\ fault \in Faults

(* Parent and child links agree, a child is one level below its parent and  *)
(* in the same tree, each tree hangs from its output's root, a node with a  *)
(* window is a leaf, and no path outgrows its array: what                   *)
(* tiling_view_insert and the cascade of tiling_view_erase must keep.       *)
WellFormed ==
  /\ \A o \in Outputs : root[o] # NoNode =>
       root[o] \in DOMAIN tree /\ tree[root[o]].parent = NoNode
                             /\ tree[root[o]].output = o
  /\ \A n \in DOMAIN tree :
       /\ \/ n = root[tree[n].output]
          \/ /\ tree[n].parent \in DOMAIN tree
             /\ n \in Kids(tree, tree[n].parent)
       /\ Level(tree, n) <= MaxLevel
       /\ tree[n].view # NoView => tree[n].kids = <<>>
       /\ IsInjective(tree[n].kids)
       /\ \A k \in Kids(tree, n) :
            /\ k \in DOMAIN tree
            /\ tree[k].parent = n
            /\ tree[k].output = tree[n].output
            /\ Level(tree, k) = Level(tree, n) + 1

(* The last index of a node's path is its place in its parent's row: what   *)
(* tiling_view_erase relies on to unlink the right child.                   *)
OwnPlace ==
  \A n \in DOMAIN tree : tree[n].parent # NoNode =>
    /\ Last(tree[n].coding) < Len(tree[tree[n].parent].kids)
    /\ tree[tree[n].parent].kids[Last(tree[n].coding) + 1] = n

(* The cascade of tiling_view_erase frees every container it empties: a     *)
(* node without a window has children, unless it is a root.                 *)
NoHollowNode ==
  \A n \in DOMAIN tree :
    tree[n].view = NoView /\ tree[n].kids = <<>> => tree[n].parent = NoNode
(***************************************************************************)
(* What a user sees of the layout                                          *)
(***************************************************************************)
(* The windows below each node of t from left to right (top to bottom),     *)
(* window v left out.                                                       *)
RowsBelow(t, v) ==
  LET row[n \in DOMAIN t] ==
        IF t[n].view = NoView
        THEN FlattenSeq([i \in 1..Len(t[n].kids) |-> row[t[n].kids[i]]])
        ELSE IF t[n].view = v THEN <<>> ELSE <<t[n].view>>
  IN  row

RowBut(o, v) == IF root[o] = NoNode THEN <<>> ELSE RowsBelow(tree, v)[root[o]]
RowOf(o) == RowBut(o, NoView)

(* Whatever the outcome of the space checks and on whichever screen, a      *)
(* handler adds, drops or moves at most one window and keeps the order of   *)
(* all others; unplugging a screen clears the row of that screen alone.     *)
TouchesOneWindow ==
  [][\/ \E v \in Views \cup {NoView} :
          \A o \in Outputs : RowBut(o, v)' = RowBut(o, v)
     \/ \E o \in Outputs :
          /\ root'[o] = NoNode
          /\ \A p \in Outputs : RowOf(p)' = IF p = o THEN <<>> ELSE RowOf(p)
    ]_vars

TheOutput == CHOOSE o \in Outputs : TRUE
Row == INSTANCE WindowRow WITH row <- RowOf(TheOutput)

(* The tree of one screen implements a row of windows: no step reorders,    *)
(* loses or doubles a window it is not about.                               *)
ImplementsRow == Row!Spec
=============================================================================
