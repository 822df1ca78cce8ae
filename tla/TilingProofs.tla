------------------------------ MODULE TilingProofs ------------------------------

(***************************************************************************)
(* TilingTree for every set of windows, screens and nodes and every depth  *)
(* of the trees: they are well formed, their rows are numbered, and no     *)
(* container is left empty; a handler adds, drops or moves one window at   *)
(* most; and the tree of one screen implements a row of windows.           *)
(*                                                                         *)
(* The handlers edit a tree by three operations, each of which has a lemma *)
(* below: Renumber, Erase and Insert.  Erasing is the hard one: the nodes  *)
(* its cascade frees are defined by recursion, and what must be shown is   *)
(* that they form a chain, so that one node is unlinked from one parent    *)
(* and nothing that is kept loses its own.                                 *)
(*                                                                         *)
(* What a user sees is the row of the windows at the leaves.  It too is    *)
(* defined by recursion, from the root down, so what an edit does to it is *)
(* shown from the leaves up, by the levels of the nodes.                   *)
(***************************************************************************)
EXTENDS TilingTree, SequenceTheorems, WellFoundedInduction, TLAPS

(***************************************************************************)
(* The inductive invariant                                                 *)
(***************************************************************************)

(* A plugged-in output has the root of its tree: at level 0, without a     *)
(* window and without a parent.                                            *)
Rooted(t, r) ==
  \A o \in Outputs : r[o] # NoNode =>
    /\ r[o] \in DOMAIN t
    /\ t[r[o]].parent = NoNode
    /\ t[r[o]].output = o
    /\ t[r[o]].view = NoView
    /\ Level(t, r[o]) = 0

(* The links of node n agree with those of its parent and its children.    *)
Related(t, r, n) ==
  /\ t[n].parent = NoNode => n = r[t[n].output]
  /\ t[n].parent # NoNode => /\ t[n].parent \in DOMAIN t
                             /\ n \in Kids(t, t[n].parent)
  /\ Level(t, n) <= MaxLevel
  /\ t[n].view # NoView => t[n].kids = <<>>
  /\ IsInjective(t[n].kids)
  /\ \A k \in Kids(t, n) : /\ k \in DOMAIN t
                           /\ t[k].parent = n
                           /\ t[k].output = t[n].output
                           /\ Level(t, k) = Level(t, n) + 1

Linked(t, r) ==
  /\ DOMAIN t \subseteq Nodes
  /\ \A n \in DOMAIN t : t[n] \in NodeType
  /\ Rooted(t, r)
  /\ \A n \in DOMAIN t : Related(t, r, n)

(* The last index of n's path is its place in its parent's row. *)
InPlace(t, n) ==
  LET row == t[t[n].parent].kids
      i   == Last(t[n].coding) + 1
  IN  i <= Len(row) /\ row[i] = n

(* Every row is numbered, those of the parents in P excepted. *)
Placed(t, P) ==
  \A n \in DOMAIN t : t[n].parent # NoNode /\ t[n].parent \notin P => InPlace(t, n)

(* No container is empty, those in P and the roots excepted. *)
Full(t, P) ==
  \A n \in DOMAIN t \ P :
    t[n].view = NoView /\ t[n].kids = <<>> => t[n].parent = NoNode

(* What every handler keeps of the trees t, with roots r: they are well     *)
(* formed and numbered, and, while every row has room for the window it is  *)
(* asked to take, no container is empty.                                    *)
Sound(t, r) ==
  /\ Linked(t, r)
  /\ Placed(t, {})
  /\ FALSE \notin Fits => Full(t, {})

TInv ==
  /\ Sound(tree, root)
  /\ root \in [Outputs -> Nodes \cup {NoNode}]
  /\ layer \in Seq(Views)
  /\ vout \in [Views -> Outputs \cup {NoOutput}]
  /\ fault \in Faults

(***************************************************************************)
(* Numbers and addresses                                                   *)
(***************************************************************************)

(* A set of naturals that is not empty has a least member. *)
LEMMA LeastLemma ==
  ASSUME NEW S, S # {}, S \subseteq Nat
  PROVE  \E m \in S : \A k \in S : m <= k
<1>1. IsWellFoundedOn(OpToRel(<, Nat), Nat)
  BY NatLessThanWellFounded
<1>2. PICK m \in S : \A k \in S : ~(<<k, m>> \in OpToRel(<, Nat))
  BY <1>1, WFMin
<1>3. \A k \in S : ~(k < m)
  BY <1>2 DEF OpToRel
<1> QED BY <1>3

(* A set of naturals with an upper bound has a greatest member. *)
LEMMA GreatestLemma ==
  ASSUME NEW S, S # {}, S \subseteq Nat, NEW b \in Nat, \A k \in S : k <= b
  PROVE  \E m \in S : \A k \in S : k <= m
<1> DEFINE T == {b - k : k \in S}
<1>1. T # {} /\ T \subseteq Nat
  <2>1. \A k \in S : b - k \in Nat
    OBVIOUS
  <2> QED BY <2>1
<1>2. PICK d \in T : \A e \in T : d <= e
  BY <1>1, LeastLemma
<1>3. PICK m \in S : d = b - m
  BY <1>2
<1>4. \A k \in S : b - m <= b - k
  BY <1>2, <1>3
<1> HIDE DEF T
<1>5. \A k \in S : k <= m
  BY <1>4, <1>3
<1> QED BY <1>5, <1>3

(* The allocator returns an address that is not in use. *)
LEMMA FreshLemma ==
  ASSUME NEW t, Nodes \ DOMAIN t # {}
  PROVE  Fresh(t) \in Nodes \ DOMAIN t
<1>1. Nodes \ DOMAIN t \subseteq Nat
  BY TilingAssumption
<1>2. \E n \in Nodes \ DOMAIN t : \A m \in Nodes \ DOMAIN t : n <= m
  BY <1>1, LeastLemma
<1> QED BY <1>2 DEF Fresh

(***************************************************************************)
(* Rows                                                                    *)
(***************************************************************************)

(* The members of a row. *)
Members(s) == {s[i] : i \in 1..Len(s)}

(* Taking the k-th element out of a sequence. *)
LEMMA RemoveAtLemma ==
  ASSUME NEW A, NEW s \in Seq(A), NEW k \in 1..Len(s)
  PROVE  /\ RemoveAt(s, k) \in Seq(A)
         /\ Len(RemoveAt(s, k)) = Len(s) - 1
         /\ \A j \in 1..Len(s)-1 : RemoveAt(s, k)[j] = IF j < k THEN s[j] ELSE s[j+1]
<1> DEFINE a == SubSeq(s, 1, k-1)
           b == SubSeq(s, k+1, Len(s))
<1>1. a \in Seq(A) /\ Len(a) = k-1 /\ \A i \in 1..k-1 : a[i] = s[i]
  OBVIOUS
<1>2. b \in Seq(A) /\ Len(b) = Len(s) - k /\ \A i \in 1..Len(s)-k : b[i] = s[k+i]
  OBVIOUS
<1>3. RemoveAt(s, k) = a \o b
  BY DEF RemoveAt
<1> HIDE DEF a, b
<1>4. Len(a \o b) = Len(s) - 1 /\ a \o b \in Seq(A)
  <2>1. a \in Seq(A) /\ b \in Seq(A)
    BY <1>1, <1>2
  <2>3. Len(a \o b) = Len(a) + Len(b) /\ a \o b \in Seq(A)
    BY <2>1, ConcatProperties
  <2>2. Len(s) \in Nat
    OBVIOUS
  <2> QED BY <2>3, <2>2, <1>1, <1>2
<1>5. \A j \in 1..Len(s)-1 : (a \o b)[j] = IF j < k THEN s[j] ELSE s[j+1]
  BY <1>1, <1>2
<1> QED BY <1>3, <1>4, <1>5

(* A row without duplicates, less its k-th element: the others, once. *)
LEMMA CutLemma ==
  ASSUME NEW A, NEW s \in Seq(A), IsInjective(s), NEW k \in 1..Len(s)
  PROVE  LET c == RemoveAt(s, k)
         IN  /\ c \in Seq(A) /\ Len(c) = Len(s) - 1 /\ IsInjective(c)
             /\ Members(c) = Members(s) \ {s[k]}
<1> DEFINE c == RemoveAt(s, k)
<1>1. c \in Seq(A) /\ Len(c) = Len(s) - 1 /\ Len(s) \in Nat
  BY RemoveAtLemma
<1>2. \A j \in 1..Len(s)-1 : c[j] = IF j < k THEN s[j] ELSE s[j+1]
  BY RemoveAtLemma
<1> HIDE DEF c
<1>3. \A i, j \in 1..Len(s) : s[i] = s[j] => i = j
  BY DEF IsInjective
<1>4. IsInjective(c)
  <2>1. ASSUME NEW i \in 1..Len(s)-1, NEW j \in 1..Len(s)-1, i < j
        PROVE  c[i] # c[j]
    <3> DEFINE x == IF i < k THEN i ELSE i+1
               y == IF j < k THEN j ELSE j+1
    <3>1. x \in 1..Len(s) /\ y \in 1..Len(s) /\ x # y
      BY <2>1, <1>1
    <3>2. c[i] = s[x] /\ c[j] = s[y]
      BY <1>2
    <3> HIDE DEF x, y
    <3> QED BY <3>1, <3>2, <1>3
  <2>2. DOMAIN c = 1..Len(s)-1
    BY <1>1
  <2>3. \A i, j \in DOMAIN c : c[i] = c[j] => i = j
    BY <2>1, <2>2, <1>1
  <2> QED BY <2>3 DEF IsInjective
<1>5. ASSUME NEW j \in 1..Len(s)-1
      PROVE  c[j] \in {s[i] : i \in 1..Len(s)} \ {s[k]}
  <2>1. CASE j < k
    BY <2>1, <1>2, <1>3
  <2>2. CASE ~(j < k)
    BY <2>2, <1>2, <1>3
  <2> QED BY <2>1, <2>2
<1>6. ASSUME NEW i \in 1..Len(s), s[i] # s[k]
      PROVE  \E j \in 1..Len(s)-1 : c[j] = s[i]
  <2>1. CASE i < k
    BY <2>1, <1>2, <1>1
  <2>2. CASE i > k
    <3>1. i-1 \in 1..Len(s)-1 /\ c[i-1] = s[i]
      BY <2>2, <1>2, <1>1
    <3> QED BY <3>1
  <2> QED BY <2>1, <2>2, <1>6
<1>7. {c[i] : i \in 1..Len(c)} = {s[i] : i \in 1..Len(s)} \ {s[k]}
  BY <1>1, <1>5, <1>6
<1> QED BY <1>1, <1>4, <1>7 DEF c, Members

(* A row with one more child at its head. *)
LEMMA HeadLemma ==
  ASSUME NEW A, NEW s \in Seq(A), IsInjective(s), NEW n \in A,
         n \notin Members(s)
  PROVE  LET c == <<n>> \o s
         IN  /\ c \in Seq(A) /\ Len(c) = Len(s) + 1 /\ IsInjective(c)
             /\ Members(c) = Members(s) \cup {n}
<1> DEFINE c == <<n>> \o s
<1>1. c \in Seq(A) /\ Len(c) = Len(s) + 1 /\ Len(s) \in Nat
  OBVIOUS
<1>2. c[1] = n /\ \A i \in 1..Len(s) : c[i+1] = s[i]
  OBVIOUS
<1>3. \A j \in 1..Len(c) : j = 1 \/ (j-1 \in 1..Len(s) /\ c[j] = s[j-1])
  BY <1>1, <1>2
<1> HIDE DEF c
<1>4. IsInjective(c)
  <2>1. \A i, j \in 1..Len(s) : s[i] = s[j] => i = j
    BY DEF IsInjective
  <2>4. \A j \in 1..Len(s) : s[j] # n
    BY DEF Members
  <2>2. ASSUME NEW i \in 1..Len(c), NEW j \in 1..Len(c), c[i] = c[j] PROVE i = j
    <3>1. CASE i = 1 \/ j = 1
      BY <3>1, <2>2, <2>4, <1>2, <1>3
    <3>2. CASE i # 1 /\ j # 1
      <4>1. i-1 \in 1..Len(s) /\ j-1 \in 1..Len(s) /\ s[i-1] = s[j-1]
        BY <3>2, <2>2, <1>3
      <4>2. i-1 = j-1
        BY <4>1, <2>1
      <4> QED BY <4>2, <1>1
    <3> QED BY <3>1, <3>2
  <2>3. DOMAIN c = 1..Len(c)
    BY <1>1
  <2> QED BY <2>2, <2>3 DEF IsInjective
<1>5. \A i \in 1..Len(s) : \E j \in 1..Len(c) : c[j] = s[i]
  <2>1. ASSUME NEW i \in 1..Len(s) PROVE i+1 \in 1..Len(c) /\ c[i+1] = s[i]
    BY <1>1, <1>2
  <2> QED BY <2>1
<1>6. 1 \in 1..Len(c)
  BY <1>1
<1>7. \A j \in 1..Len(c) : c[j] \in {s[i] : i \in 1..Len(s)} \cup {n}
  BY <1>2, <1>3
<1>8. {c[i] : i \in 1..Len(c)} = {s[i] : i \in 1..Len(s)} \cup {n}
  <2>1. n \in {c[i] : i \in 1..Len(c)}
    BY <1>2, <1>6
  <2>2. \A i \in 1..Len(s) : s[i] \in {c[j] : j \in 1..Len(c)}
    BY <1>5
  <2> QED BY <1>7, <2>1, <2>2
<1> QED BY <1>1, <1>4, <1>8 DEF c, Members

(* Taking a window off the layer leaves windows there. *)
LEMMA WithoutLemma ==
  ASSUME NEW s \in Seq(Views), NEW v
  PROVE  Without(s, v) \in Seq(Views)
<1>1. CASE Contains(s, v)
  <2> DEFINE k == CHOOSE i \in 1..Len(s) : s[i] = v
  <2>1. k \in 1..Len(s)
    BY <1>1 DEF Contains
  <2>2. Without(s, v) = RemoveAt(s, k)
    BY <1>1 DEF Without
  <2> HIDE DEF k
  <2> QED BY <2>1, <2>2, RemoveAtLemma
<1> QED BY <1>1 DEF Without

(***************************************************************************)
(* Numbering the rows                                                      *)
(***************************************************************************)

(* The addresses of nodes are numbers, NoNode is none of them. *)
LEMMA NodeFacts ==
  ASSUME NEW t, NEW r, Linked(t, r), NEW n \in DOMAIN t
  PROVE  /\ n \in Nodes /\ n # NoNode
         /\ t[n] \in NodeType
         /\ t[n].kids \in Seq(Nodes)
         /\ t[n].coding \in Seq(Nat)
         /\ Level(t, n) \in Nat
         /\ Len(t[n].kids) \in Nat
         /\ Related(t, r, n)
         /\ Kids(t, n) \subseteq DOMAIN t
<1>1. n \in Nodes /\ n # NoNode
  BY TilingAssumption DEF Linked
<1>2. t[n] \in NodeType /\ Related(t, r, n)
  BY DEF Linked
<1>3. t[n].kids \in Seq(Nodes) /\ t[n].coding \in Seq(Nat)
  BY <1>2 DEF NodeType
<1>4. Level(t, n) \in Nat /\ Len(t[n].kids) \in Nat
  BY <1>3 DEF Level
<1> QED BY <1>1, <1>2, <1>3, <1>4 DEF Related

(* A node below another is one level deeper, so it has a last index, and    *)
(* it is in its parent's row.                                               *)
LEMMA ChildFacts ==
  ASSUME NEW t, NEW r, Linked(t, r), NEW n \in DOMAIN t, t[n].parent # NoNode
  PROVE  /\ t[n].parent \in DOMAIN t
         /\ n \in Kids(t, t[n].parent)
         /\ t[n].output = t[t[n].parent].output
         /\ Level(t, n) = Level(t, t[n].parent) + 1
         /\ t[t[n].parent].view = NoView
         /\ Len(t[n].coding) \in Nat \ {0}
<1> DEFINE p == t[n].parent
<1>1. p \in DOMAIN t /\ n \in Kids(t, p)
  BY NodeFacts DEF Related
<1>2. Related(t, r, p) /\ Level(t, p) \in Nat /\ Len(t[p].kids) \in Nat
  BY <1>1, NodeFacts
<1>3. t[n].output = t[p].output /\ Level(t, n) = Level(t, p) + 1
  BY <1>1, <1>2 DEF Related
<1>4. t[p].view = NoView
  <2>1. SUFFICES ASSUME t[p].kids = <<>> PROVE FALSE
    BY <1>2 DEF Related
  <2>2. Len(t[p].kids) = 0
    BY <2>1
  <2> HIDE DEF p
  <2> QED BY <1>1, <2>2 DEF Kids
<1>5. Len(t[n].coding) \in Nat \ {0}
  BY <1>2, <1>3 DEF Level
<1> QED BY <1>1, <1>3, <1>4, <1>5

(* The same tree, but for split directions and last indices. *)
Alike(u, t) ==
  /\ DOMAIN u = DOMAIN t
  /\ \A m \in DOMAIN t : /\ u[m].parent = t[m].parent
                         /\ u[m].kids = t[m].kids
                         /\ u[m].view = t[m].view
                         /\ u[m].output = t[m].output
                         /\ Level(u, m) = Level(t, m)

(* Links, fullness and levels do not depend on directions and indices. *)
LEMMA AlikeLemma ==
  ASSUME NEW t, NEW r, Linked(t, r), NEW u, Alike(u, t),
         \A m \in DOMAIN t : u[m] \in NodeType
  PROVE  /\ Linked(u, r)
         /\ \A P : Full(t, P) => Full(u, P)
<1>1. DOMAIN u \subseteq Nodes /\ \A n \in DOMAIN u : u[n] \in NodeType
  BY DEF Linked, Alike
<1>2. Rooted(u, r)
  BY DEF Linked, Rooted, Alike
<1>3. \A n \in DOMAIN t : Kids(u, n) = Kids(t, n)
  BY DEF Alike, Kids
<1>4. ASSUME NEW n \in DOMAIN u PROVE Related(u, r, n)
  <2>1. n \in DOMAIN t /\ Related(t, r, n) /\ Kids(t, n) \subseteq DOMAIN t
    BY <1>4, NodeFacts DEF Alike
  <2> QED BY <2>1, <1>3 DEF Related, Alike
<1>5. \A P : Full(t, P) => Full(u, P)
  BY DEF Full, Alike
<1> QED BY <1>1, <1>2, <1>4, <1>5 DEF Linked

(* Renumbering the rows of P leaves the links alone and puts the children   *)
(* of P in place; other rows stay as they were.                             *)
LEMMA RenumberLemma ==
  ASSUME NEW t, NEW r, Linked(t, r),
         NEW P, P \subseteq DOMAIN t, NEW turn \in BOOLEAN
  PROVE  LET u == Renumber(t, P, turn)
         IN  /\ Alike(u, t)
             /\ Linked(u, r)
             /\ \A Q : Full(t, Q) => Full(u, Q)
             /\ Placed(t, P) => Placed(u, {})
<1> DEFINE u == Renumber(t, P, turn)
<1>1. DOMAIN u = DOMAIN t
  BY DEF Renumber
<1>2. ASSUME NEW m \in DOMAIN t, t[m].parent \in P
      PROVE  /\ u[m] \in NodeType
             /\ u[m].parent = t[m].parent /\ u[m].kids = t[m].kids
             /\ u[m].view = t[m].view /\ u[m].output = t[m].output
             /\ Len(u[m].coding) = Len(t[m].coding)
             /\ LET row == t[t[m].parent].kids
                    i   == Last(u[m].coding) + 1
                IN  i <= Len(row) /\ row[i] = m
  <2> DEFINE p == t[m].parent
             row == t[p].kids
             i == CHOOSE j \in 1..Len(row) : row[j] = m
             d == IF turn /\ t[m].view # NoView THEN t[p].vertical ELSE t[m].vertical
             c == [t[m].coding EXCEPT ![Len(t[m].coding)] = i - 1]
  <2>1. p \in DOMAIN t /\ m \in Kids(t, p) /\ Len(t[m].coding) \in Nat \ {0}
    <3>1. p \in DOMAIN t
      BY <1>2
    <3>2. p # NoNode
      BY <3>1, NodeFacts
    <3> QED BY <3>2, ChildFacts
  <2>2. i \in 1..Len(row) /\ row[i] = m
    BY <2>1 DEF Kids
  <2>3. Len(row) \in Nat
    BY <2>1, NodeFacts
  <2>4. t[m] \in NodeType /\ t[p] \in NodeType
    BY <2>1, NodeFacts
  <2>5. u[m] = [t[m] EXCEPT !.coding = c, !.vertical = d]
    BY <1>2 DEF Renumber
  <2>6. t[m].coding \in Seq(Nat) /\ d \in BOOLEAN
    BY <2>4 DEF NodeType
  <2> HIDE DEF i, d, row, p, u
  <2>7. i - 1 \in Nat /\ i - 1 + 1 = i /\ i <= Len(row)
    BY <2>2, <2>3
  <2>8. c \in Seq(Nat) /\ Len(c) = Len(t[m].coding)
    <3>1. Len(t[m].coding) \in 1..Len(t[m].coding)
      BY <2>1
    <3> QED BY <3>1, <2>6, <2>7, ExceptSeq
  <2>9. c[Len(c)] = i - 1
    BY <2>8, <2>6, <2>1
  <2> HIDE DEF c
  <2>10. u[m] \in NodeType /\ u[m].coding = c
    BY <2>4, <2>5, <2>6, <2>8 DEF NodeType
  <2>11. /\ u[m].parent = t[m].parent /\ u[m].kids = t[m].kids
         /\ u[m].view = t[m].view /\ u[m].output = t[m].output
    BY <2>4, <2>5 DEF NodeType
  <2>12. Last(u[m].coding) + 1 = i
    BY <2>10, <2>9, <2>7 DEF Last
  <2> QED BY <2>2, <2>7, <2>8, <2>10, <2>11, <2>12 DEF row, p
<1>3. \A m \in DOMAIN t : t[m].parent \notin P => u[m] = t[m]
  BY DEF Renumber
<1>4. \A m \in DOMAIN t : t[m] \in NodeType
  BY NodeFacts
<1> HIDE DEF u
<1>5. Alike(u, t)
  BY <1>1, <1>2, <1>3 DEF Alike, Level
<1>6. \A m \in DOMAIN t : u[m] \in NodeType
  BY <1>2, <1>3, <1>4
<1>7. Linked(u, r) /\ \A Q : Full(t, Q) => Full(u, Q)
  BY <1>5, <1>6, AlikeLemma
<1>8. ASSUME Placed(t, P), NEW m \in DOMAIN u, u[m].parent # NoNode
      PROVE  InPlace(u, m)
  <2>1. m \in DOMAIN t /\ t[m].parent # NoNode /\ u[m].parent = t[m].parent
    BY <1>8, <1>5 DEF Alike
  <2>2. t[m].parent \in DOMAIN t /\ u[t[m].parent].kids = t[t[m].parent].kids
    BY <2>1, <1>5, ChildFacts DEF Alike
  <2>3. CASE t[m].parent \in P
    BY <2>1, <2>2, <2>3, <1>2 DEF InPlace
  <2>4. CASE t[m].parent \notin P
    BY <2>1, <2>2, <2>4, <1>3, <1>8 DEF InPlace, Placed
  <2> QED BY <2>3, <2>4
<1>9. Placed(t, P) => Placed(u, {})
  BY <1>8 DEF Placed
<1> QED BY <1>5, <1>7, <1>9 DEF u

(***************************************************************************)
(* The cascade of tiling_view_erase                                        *)
(***************************************************************************)

(* m is emptied when its only child is one of the nodes in S. *)
Emptied(t, m, S) ==
  /\ t[m].parent # NoNode
  /\ t[m].view = NoView
  /\ Len(t[m].kids) = 1
  /\ t[m].kids[1] \in S

(* The recursive definition of the cascade has a solution, so the erased    *)
(* nodes are n and the nodes the erasing of others empties.                 *)
LEMMA ErasedLemma ==
  ASSUME NEW t, NEW r, Linked(t, r), NEW n \in DOMAIN t
  PROVE  /\ Erased(t, n) \subseteq DOMAIN t
         /\ \A m \in DOMAIN t :
              m \in Erased(t, n) <=> m = n \/ Emptied(t, m, Erased(t, n))
<1> DEFINE Closed(S) == n \in S /\ \A m \in DOMAIN t : Emptied(t, m, S) => m \in S
           E == {m \in DOMAIN t : \A S \in SUBSET DOMAIN t : Closed(S) => m \in S}
<1>1. E \in SUBSET DOMAIN t
  OBVIOUS
<1>2. n \in E
  OBVIOUS
<1>3. ASSUME NEW m \in DOMAIN t, Emptied(t, m, E) PROVE m \in E
  <2>1. ASSUME NEW S \in SUBSET DOMAIN t, Closed(S) PROVE m \in S
    <3>1. t[m].kids[1] \in S
      BY <2>1, <1>3 DEF Emptied
    <3>2. Emptied(t, m, S)
      BY <3>1, <1>3 DEF Emptied
    <3> QED BY <2>1, <3>2
  <2> QED BY <2>1
<1>4. ASSUME NEW m \in E, m # n, ~Emptied(t, m, E) PROVE FALSE
  <2> DEFINE D == E \ {m}
  <2>1. D \in SUBSET DOMAIN t /\ n \in D
    BY <1>1, <1>2, <1>4
  <2>2. ASSUME NEW q \in DOMAIN t, Emptied(t, q, D) PROVE q \in D
    <3>1. Emptied(t, q, E)
      BY <2>2 DEF Emptied
    <3>2. q \in E /\ q # m
      BY <3>1, <1>3, <1>4
    <3> QED BY <3>2
  <2>3. Closed(D)
    BY <2>1, <2>2
  <2>4. m \in D
    BY <2>1, <2>3, <1>4
  <2> QED BY <2>4
<1>5. \A m \in DOMAIN t : m \in E <=> m = n \/ Emptied(t, m, E)
  BY <1>1, <1>2, <1>3, <1>4
<1> HIDE DEF E
<1> DEFINE Step(g) == [m \in DOMAIN t |->
                        \/ m = n
                        \/ /\ t[m].parent # NoNode
                           /\ t[m].view = NoView
                           /\ Len(t[m].kids) = 1
                           /\ g[t[m].kids[1]]]
           e == [m \in DOMAIN t |-> m \in E]
<1>6. ASSUME NEW m \in DOMAIN t, Len(t[m].kids) = 1
      PROVE  t[m].kids[1] \in DOMAIN t
  BY <1>6, NodeFacts DEF Kids
<1>7. e = Step(e)
  <2>1. ASSUME NEW m \in DOMAIN t PROVE e[m] = Step(e)[m]
    <3>1. e[m] = (m \in E)
      OBVIOUS
    <3>2. Len(t[m].kids) = 1 => (e[t[m].kids[1]] <=> t[m].kids[1] \in E)
      BY <1>6
    <3> DEFINE b == \/ m = n
                    \/ /\ t[m].parent # NoNode
                       /\ t[m].view = NoView
                       /\ Len(t[m].kids) = 1
                       /\ e[t[m].kids[1]]
    <3>3. Step(e)[m] = b
      OBVIOUS
    <3> HIDE DEF e
    <3>4. b <=> m \in E
      BY <3>2, <1>5 DEF Emptied
    <3>5. b \in BOOLEAN
      OBVIOUS
    <3> HIDE DEF b, Step
    <3>6. b = (m \in E)
      BY <3>4, <3>5
    <3> QED BY <3>1, <3>3, <3>6
  <2> HIDE DEF Step
  <2>2. e = [m \in DOMAIN t |-> e[m]]
    OBVIOUS
  <2>3. Step(e) = [m \in DOMAIN t |-> Step(e)[m]]
    BY DEF Step
  <2> HIDE DEF e
  <2> QED BY <2>1, <2>2, <2>3
<1> DEFINE goes == CHOOSE g : g = Step(g)
<1>8. goes = Step(goes)
  <2> HIDE DEF Step, e
  <2>1. \E g : g = Step(g)
    BY <1>7
  <2> QED BY <2>1
<1>9. Erased(t, n) = {m \in DOMAIN t : goes[m]}
  BY DEF Erased
<1> HIDE DEF goes
<1>10. ASSUME NEW m \in DOMAIN t
       PROVE  m \in Erased(t, n) <=> m = n \/ Emptied(t, m, Erased(t, n))
  <2>1. m \in Erased(t, n) <=> goes[m]
    BY <1>9
  <2>2. Len(t[m].kids) = 1 => (t[m].kids[1] \in Erased(t, n) <=> goes[t[m].kids[1]])
    BY <1>6, <1>9
  <2>3. goes[m] = Step(goes)[m]
    BY <1>8
  <2>4. goes[m] <=> \/ m = n
                    \/ /\ t[m].parent # NoNode
                       /\ t[m].view = NoView
                       /\ Len(t[m].kids) = 1
                       /\ goes[t[m].kids[1]]
    BY <2>3
  <2> QED BY <2>1, <2>2, <2>4 DEF Emptied
<1> QED BY <1>9, <1>10

(* A node with a window hangs below another and has no children. *)
LEMMA LeafFacts ==
  ASSUME NEW t, NEW r, Linked(t, r), NEW n \in DOMAIN t, t[n].view # NoView
  PROVE  t[n].parent # NoNode /\ Kids(t, n) = {} /\ t[n].kids = <<>>
<1>1. t[n] \in NodeType /\ Related(t, r, n) /\ n # NoNode
  BY NodeFacts
<1>2. t[n].kids = <<>>
  BY <1>1 DEF Related
<1>3. Len(t[n].kids) = 0
  BY <1>2
<1>4. Kids(t, n) = {}
  BY <1>3 DEF Kids
<1>5. t[n].parent # NoNode
  <2>1. SUFFICES ASSUME n = r[t[n].output] PROVE FALSE
    BY <1>1 DEF Related
  <2>2. t[n].output \in Outputs
    BY <1>1 DEF NodeType
  <2>3. t[r[t[n].output]].view = NoView
    BY <2>1, <2>2, <1>1 DEF Linked, Rooted
  <2> QED BY <2>1, <2>3
<1> QED BY <1>2, <1>4, <1>5

(* An emptied node has exactly one child, which is erased before it. *)
LEMMA OnlyChildLemma ==
  ASSUME NEW t, NEW r, Linked(t, r), NEW n \in DOMAIN t,
         NEW m \in Erased(t, n), m # n
  PROVE  \E k \in Erased(t, n) :
           /\ Kids(t, m) = {k}
           /\ t[k].parent = m
           /\ Level(t, k) = Level(t, m) + 1
<1> DEFINE k == t[m].kids[1]
<1>1. m \in DOMAIN t /\ Emptied(t, m, Erased(t, n))
  BY ErasedLemma
<1>2. k \in Erased(t, n) /\ Len(t[m].kids) = 1
  BY <1>1 DEF Emptied
<1>3. Kids(t, m) = {k}
  BY <1>2 DEF Kids
<1>4. t[k].parent = m /\ Level(t, k) = Level(t, m) + 1
  BY <1>1, <1>3, NodeFacts DEF Related
<1> QED BY <1>2, <1>3, <1>4

(* The erased nodes are a chain that ends in the leaf: no two of them are   *)
(* on one level, and none is below the leaf.                                *)
LEMMA ChainLemma ==
  ASSUME NEW t, NEW r, Linked(t, r), NEW n \in DOMAIN t
  PROVE  /\ \A m \in Erased(t, n) : Level(t, m) <= Level(t, n)
         /\ \A m, q \in Erased(t, n) : Level(t, m) = Level(t, q) => m = q
<1> DEFINE G == Erased(t, n)
<1>1. G \subseteq DOMAIN t
  BY ErasedLemma
<1>2. \A m \in G : Level(t, m) \in Nat /\ Level(t, m) <= MaxLevel
  BY <1>1, NodeFacts DEF Related
<1>3. MaxLevel \in Nat
  BY TilingAssumption
<1>4. Level(t, n) \in Nat
  BY NodeFacts
<1>5. ASSUME NEW m \in G, Level(t, m) > Level(t, n) PROVE FALSE
  <2> DEFINE S == {Level(t, q) : q \in G}
  <2>1. S # {} /\ S \subseteq Nat /\ \A l \in S : l <= MaxLevel
    BY <1>2, <1>5
  <2>2. PICK l \in S : \A h \in S : h <= l
    BY <2>1, <1>3, GreatestLemma
  <2>3. PICK q \in G : l = Level(t, q)
    BY <2>2
  <2>4. Level(t, m) <= l
    BY <2>2
  <2>5. q # n
    BY <2>3, <2>4, <1>2, <1>4, <1>5
  <2>6. PICK k \in G : Level(t, k) = l + 1
    BY <2>3, <2>5, OnlyChildLemma
  <2>7. l + 1 <= l
    BY <2>2, <2>6
  <2> QED BY <2>7, <2>3, <1>2
<1>6. ASSUME NEW m0 \in G, NEW q0 \in G, Level(t, m0) = Level(t, q0), m0 # q0
      PROVE  FALSE
  <2> DEFINE Twice(l) == \E m, q \in G : m # q /\ Level(t, m) = l /\ Level(t, q) = l
             S == {l \in Nat : Twice(l)}
  <2>1. S # {} /\ S \subseteq Nat /\ \A l \in S : l <= MaxLevel
    BY <1>2, <1>6
  <2>2. PICK l \in S : \A h \in S : h <= l
    BY <2>1, <1>3, GreatestLemma
  <2>3. PICK m \in G, q \in G : m # q /\ Level(t, m) = l /\ Level(t, q) = l
    BY <2>2
  <2>4. ASSUME NEW x \in G, Level(t, x) = l, x = n, NEW y \in G, Level(t, y) = l, y # x
        PROVE  FALSE
    <3>1. PICK k \in G : Level(t, k) = l + 1
      BY <2>4, OnlyChildLemma
    <3>2. l + 1 > Level(t, n)
      BY <2>4, <1>4
    <3> QED BY <3>1, <3>2, <1>5
  <2>5. m # n /\ q # n
    BY <2>3, <2>4
  <2>6. PICK k \in G : t[k].parent = m /\ Level(t, k) = l + 1
    BY <2>3, <2>5, OnlyChildLemma
  <2>7. PICK j \in G : t[j].parent = q /\ Level(t, j) = l + 1
    BY <2>3, <2>5, OnlyChildLemma
  <2>8. k # j
    BY <2>3, <2>6, <2>7
  <2>9. l + 1 \in S
    BY <2>6, <2>7, <2>8, <2>2
  <2>10. l + 1 <= l
    BY <2>2, <2>9
  <2> QED BY <2>10, <2>2
<1>7. \A m \in G : Level(t, m) <= Level(t, n)
  BY <1>5, <1>2, <1>4
<1>8. \A m, q \in G : Level(t, m) = Level(t, q) => m = q
  BY <1>6
<1> QED BY <1>7, <1>8

(* The chain has a top.  Its parent is what the cascade returns; every      *)
(* other erased node hangs from an erased node, and so do all children of   *)
(* erased nodes: nothing that is kept loses its parent.                     *)
LEMMA CascadeLemma ==
  ASSUME NEW t, NEW r, Linked(t, r), NEW n \in DOMAIN t, t[n].view # NoView
  PROVE  \E top \in Erased(t, n) :
           LET p == t[top].parent
           IN  /\ p \in DOMAIN t \ Erased(t, n)
               /\ top \in Kids(t, p)
               /\ p = Survivor(t, n)
               /\ top = CHOOSE m \in Erased(t, n) : t[m].parent = p
               /\ \A m \in Erased(t, n) \ {top} : t[m].parent \in Erased(t, n)
               /\ \A m \in Erased(t, n) : Kids(t, m) \subseteq Erased(t, n)
               /\ t[p].parent = NoNode \/ Len(t[p].kids) # 1
<1> DEFINE G == Erased(t, n)
<1>1. G \subseteq DOMAIN t /\ n \in G
  BY ErasedLemma
<1>2. \A m \in G : Level(t, m) \in Nat
  BY <1>1, NodeFacts
<1>3. PICK top \in G : \A m \in G : Level(t, top) <= Level(t, m)
  <2> DEFINE S == {Level(t, q) : q \in G}
  <2>1. S # {} /\ S \subseteq Nat
    BY <1>1, <1>2
  <2>2. PICK l \in S : \A h \in S : l <= h
    BY <2>1, LeastLemma
  <2> QED BY <2>2
<1> DEFINE p == t[top].parent
<1>4. \A m \in G : t[m].parent # NoNode
  <2>1. \A m \in G : m = n \/ Emptied(t, m, G)
    BY <1>1, ErasedLemma
  <2>2. t[n].parent # NoNode
    BY LeafFacts
  <2> QED BY <2>1, <2>2 DEF Emptied
<1>5. /\ p \in DOMAIN t /\ top \in Kids(t, p) /\ t[p].view = NoView
      /\ Level(t, top) = Level(t, p) + 1
  BY <1>1, <1>4, ChildFacts
<1>6. p \notin G
  <2>1. SUFFICES ASSUME p \in G PROVE FALSE
    OBVIOUS
  <2>2. Level(t, top) <= Level(t, p) /\ Level(t, p) \in Nat
    BY <2>1, <1>2, <1>3
  <2> QED BY <2>2, <1>5
<1>7. ASSUME NEW m \in G PROVE Kids(t, m) \subseteq G
  <2>1. CASE m = n
    BY <2>1, LeafFacts
  <2>2. CASE m # n
    BY <2>2, OnlyChildLemma
  <2> QED BY <2>1, <2>2
<1>8. ASSUME NEW m \in G, m # top PROVE t[m].parent \in G
  <2> DEFINE S == {l \in Nat : /\ Level(t, top) < l /\ l <= Level(t, m)
                               /\ \A x \in G : Level(t, x) # l}
  <2>1. Level(t, m) \in Nat /\ Level(t, top) \in Nat /\ Level(t, top) < Level(t, m)
    <3>1. Level(t, m) # Level(t, top)
      BY <1>8, ChainLemma
    <3> QED BY <3>1, <1>2, <1>3
  <2>2. S = {}
    <3>1. SUFFICES ASSUME S # {} PROVE FALSE
      OBVIOUS
    <3>2. PICK l \in S : \A h \in S : l <= h
      BY <3>1, LeastLemma
    <3>3. l - 1 \in Nat /\ l - 1 \notin S /\ Level(t, top) <= l - 1 /\ l - 1 < Level(t, m)
      BY <3>2, <2>1
    <3>4. PICK x \in G : Level(t, x) = l - 1
      BY <3>3, <2>1
    <3>5. Level(t, m) <= Level(t, n) /\ Level(t, n) \in Nat
      BY <1>1, <1>2, ChainLemma
    <3>6. x # n
      BY <3>3, <3>4, <3>5, <2>1
    <3>7. PICK k \in G : Level(t, k) = l - 1 + 1
      BY <3>4, <3>6, OnlyChildLemma
    <3>8. l - 1 + 1 = l
      BY <3>2
    <3> QED BY <3>2, <3>7, <3>8
  <2>3. \E x \in G : Level(t, x) = Level(t, m) - 1
    <3>1. CASE Level(t, m) - 1 = Level(t, top)
      BY <3>1
    <3>2. CASE Level(t, m) - 1 # Level(t, top)
      <4>1. Level(t, m) - 1 \in Nat /\ Level(t, top) < Level(t, m) - 1
        BY <3>2, <2>1
      <4>2. Level(t, m) - 1 <= Level(t, m)
        BY <2>1
      <4> QED BY <4>1, <4>2, <2>2
    <3> QED BY <3>1, <3>2
  <2>4. PICK x \in G : Level(t, x) = Level(t, m) - 1
    BY <2>3
  <2>5. x # n
    <3>1. Level(t, m) <= Level(t, n) /\ Level(t, n) \in Nat
      BY <1>1, <1>2, ChainLemma
    <3> QED BY <3>1, <2>4, <2>1
  <2>6. PICK k \in G : t[k].parent = x /\ Level(t, k) = Level(t, x) + 1
    BY <2>5, OnlyChildLemma
  <2>7. Level(t, k) = Level(t, m)
    BY <2>6, <2>4, <2>1
  <2>8. k = m
    BY <2>7, ChainLemma
  <2> QED BY <2>6, <2>8
<1>9. p = Survivor(t, n)
  <2> DEFINE Q(q) == q \in DOMAIN t \ G /\ Kids(t, q) \cap G # {}
  <2>1. Q(p)
    BY <1>5, <1>6
  <2>2. ASSUME NEW q, Q(q) PROVE q = p
    <3>1. PICK k \in Kids(t, q) : k \in G
      BY <2>2
    <3>2. t[k].parent = q
      BY <2>2, NodeFacts DEF Related
    <3>3. k = top
      BY <3>1, <3>2, <2>2, <1>8
    <3> QED BY <3>2, <3>3
  <2>3. Survivor(t, n) = CHOOSE q \in DOMAIN t \ G : Kids(t, q) \cap G # {}
    BY DEF Survivor
  <2> QED BY <2>1, <2>2, <2>3
<1>10. top = CHOOSE m \in G : t[m].parent = p
  BY <1>6, <1>8
<1>11. t[p].parent = NoNode \/ Len(t[p].kids) # 1
  <2>1. SUFFICES ASSUME t[p].parent # NoNode, Len(t[p].kids) = 1 PROVE FALSE
    OBVIOUS
  <2>2. t[p].kids[1] = top
    BY <2>1, <1>5 DEF Kids
  <2>3. Emptied(t, p, G)
    BY <2>1, <2>2, <1>5 DEF Emptied
  <2> QED BY <2>3, <1>5, <1>6, ErasedLemma
<1> QED BY <1>5, <1>6, <1>7, <1>8, <1>9, <1>10, <1>11

(***************************************************************************)
(* Erasing a leaf                                                          *)
(***************************************************************************)

(* u is t without the nodes in G, which hang from the i-th place of p's row. *)
Pruned(u, t, G, p, i) ==
  /\ DOMAIN u = DOMAIN t \ G
  /\ p \in DOMAIN u
  /\ i \in 1..Len(t[p].kids) /\ t[p].kids[i] \in G
  /\ u[p].kids = RemoveAt(t[p].kids, i)
  /\ \A m \in DOMAIN u \ {p} : u[m].kids = t[m].kids
  /\ \A m \in DOMAIN u : u[m].view = t[m].view /\ u[m].output = t[m].output

(* Erasing a window's leaf frees it and the containers it empties; the rest *)
(* is a well-formed tree whose rows are numbered and in which no container  *)
(* became empty.                                                            *)
LEMMA EraseLemma ==
  ASSUME NEW t, NEW r, Linked(t, r), Placed(t, {}),
         NEW n \in DOMAIN t, t[n].view # NoView
  PROVE  LET u == Erase(t, n)
         IN  /\ DOMAIN u = DOMAIN t \ Erased(t, n)
             /\ n \in Nodes \ DOMAIN u
             /\ Linked(u, r)
             /\ Placed(u, {})
             /\ \A P : Full(t, P) => Full(u, P)
             /\ \A m \in DOMAIN u : Level(u, m) = Level(t, m)
             /\ \A m \in DOMAIN u \ {Survivor(t, n)} : u[m].kids = t[m].kids
             /\ \A m \in DOMAIN u : u[m].view = t[m].view
             /\ \E i : Pruned(u, t, Erased(t, n), Survivor(t, n), i)
<1> DEFINE G == Erased(t, n)
<1>1. PICK top \in G :
        /\ t[top].parent \in DOMAIN t \ G
        /\ top \in Kids(t, t[top].parent)
        /\ t[top].parent = Survivor(t, n)
        /\ top = CHOOSE m \in G : t[m].parent = t[top].parent
        /\ \A m \in G \ {top} : t[m].parent \in G
        /\ \A m \in G : Kids(t, m) \subseteq G
        /\ t[t[top].parent].parent = NoNode \/ Len(t[t[top].parent].kids) # 1
  BY CascadeLemma
<1> DEFINE p == t[top].parent
           i == Last(t[top].coding) + 1
           c == RemoveAt(t[p].kids, i)
           w == [m \in DOMAIN t \ G |->
                   IF m = p THEN [t[p] EXCEPT !.kids = c] ELSE t[m]]
<1>2. G \subseteq DOMAIN t /\ n \in G
  BY ErasedLemma
<1>3. Erase(t, n) = Renumber(w, {p}, FALSE)
  BY <1>1 DEF Erase
<1>4. p \in DOMAIN t \ G /\ p # NoNode /\ t[p].view = NoView
  <2>1. p # NoNode
    BY <1>1, NodeFacts
  <2> QED BY <1>1, <1>2, <2>1, ChildFacts
<1>5. i \in 1..Len(t[p].kids) /\ t[p].kids[i] = top
  <2>1. top \in DOMAIN t /\ InPlace(t, top)
    BY <1>2, <1>4 DEF Placed
  <2>2. t[top].coding \in Seq(Nat) /\ Len(t[top].coding) \in Nat \ {0}
    BY <2>1, <1>4, NodeFacts, ChildFacts
  <2>3. Last(t[top].coding) \in Nat
    BY <2>2 DEF Last
  <2>4. i \in Nat /\ i >= 1
    BY <2>3
  <2>5. Len(t[p].kids) \in Nat
    BY <1>4, NodeFacts
  <2> HIDE DEF p
  <2> QED BY <2>1, <2>4, <2>5 DEF InPlace, p
<1> HIDE DEF i
<1>6. /\ c \in Seq(Nodes) /\ Len(c) = Len(t[p].kids) - 1 /\ IsInjective(c)
      /\ Members(c) = Kids(t, p) \ {top}
  <2>1. t[p].kids \in Seq(Nodes) /\ IsInjective(t[p].kids)
    BY <1>4, NodeFacts DEF Related
  <2> HIDE DEF p
  <2> QED BY <2>1, <1>5, CutLemma DEF Kids, Members
<1> HIDE DEF c
<1>7. /\ DOMAIN w = DOMAIN t \ G
      /\ w[p] = [t[p] EXCEPT !.kids = c]
      /\ \A m \in DOMAIN t \ G : m # p => w[m] = t[m]
  BY <1>4
<1>8. t[p] \in NodeType
  BY <1>4, NodeFacts
<1>9. /\ w[p] \in NodeType /\ w[p].parent = t[p].parent /\ w[p].kids = c
      /\ w[p].view = t[p].view /\ w[p].coding = t[p].coding
      /\ w[p].output = t[p].output
  <2> HIDE DEF w, p
  <2> QED BY <1>6, <1>7, <1>8 DEF NodeType
<1> HIDE DEF w
<1>10. /\ \A m \in DOMAIN w : /\ w[m] \in NodeType
                              /\ w[m].parent = t[m].parent
                              /\ w[m].view = t[m].view
                              /\ w[m].coding = t[m].coding
                              /\ w[m].output = t[m].output
                              /\ Level(w, m) = Level(t, m)
       /\ \A m \in DOMAIN w \ {p} : w[m].kids = t[m].kids /\ Kids(w, m) = Kids(t, m)
       /\ Kids(w, p) = Kids(t, p) \ {top}
  <2>1. \A m \in DOMAIN t \ G : t[m] \in NodeType
    BY NodeFacts
  <2> HIDE DEF p, G
  <2>2. Kids(w, p) = Kids(t, p) \ {top}
    BY <1>6, <1>9 DEF Kids, Members
  <2>3. ASSUME NEW m \in DOMAIN w
        PROVE  /\ w[m] \in NodeType
               /\ w[m].parent = t[m].parent
               /\ w[m].view = t[m].view
               /\ w[m].coding = t[m].coding
               /\ w[m].output = t[m].output
    BY <2>1, <1>7, <1>9
  <2>4. ASSUME NEW m \in DOMAIN w \ {p}
        PROVE  w[m].kids = t[m].kids /\ Kids(w, m) = Kids(t, m)
    <3>1. w[m] = t[m]
      BY <1>7
    <3> QED BY <3>1 DEF Kids
  <2> QED BY <2>2, <2>3, <2>4 DEF Level
<1>11. ASSUME NEW m \in DOMAIN w PROVE Kids(w, m) \subseteq DOMAIN w
  <2>1. SUFFICES ASSUME NEW k \in Kids(w, m), k \in G PROVE FALSE
    BY <1>7, <1>10, <1>11, NodeFacts
  <2>2. m \in DOMAIN t \ G /\ k \in Kids(t, m)
    BY <2>1, <1>7, <1>10
  <2>3. t[k].parent = m
    BY <2>2, NodeFacts DEF Related
  <2>4. k = top /\ m = p
    BY <2>1, <2>2, <2>3, <1>1
  <2> QED BY <2>1, <2>4, <1>10
<1>12. ASSUME NEW m \in DOMAIN w, w[m].parent # NoNode
       PROVE  w[m].parent \in DOMAIN w /\ m \in Kids(w, w[m].parent)
  <2> DEFINE q == t[m].parent
  <2>1. m \in DOMAIN t \ G /\ q # NoNode /\ w[m].parent = q
    BY <1>7, <1>10, <1>12
  <2>2. q \in DOMAIN t /\ m \in Kids(t, q)
    BY <2>1, ChildFacts
  <2>3. q \notin G
    BY <2>1, <2>2, <1>1
  <2>4. q \in DOMAIN w
    BY <2>2, <2>3, <1>7
  <2>5. m # top
    BY <2>1
  <2> QED BY <2>1, <2>2, <2>4, <2>5, <1>10
<1>13. ASSUME NEW m \in DOMAIN w PROVE Related(w, r, m)
  <2>1. m \in DOMAIN t /\ Related(t, r, m)
    BY <1>7, NodeFacts
  <2>2. IsInjective(w[m].kids) /\ (w[m].view # NoView => w[m].kids = <<>>)
    BY <2>1, <1>4, <1>6, <1>9, <1>10 DEF Related
  <2>3. \A k \in Kids(w, m) : k \in Kids(t, m)
    BY <1>10
  <2>4. \A k \in Kids(w, m) : /\ k \in DOMAIN w
                              /\ w[k].parent = m
                              /\ w[k].output = w[m].output
                              /\ Level(w, k) = Level(w, m) + 1
    BY <2>1, <2>3, <1>10, <1>11 DEF Related
  <2> QED BY <2>1, <2>2, <2>4, <1>10, <1>12 DEF Related
<1>14. Rooted(w, r)
  <2>1. \A m \in G : t[m].parent # NoNode
    BY <1>1, <1>2, <1>4, NodeFacts
  <2>2. Rooted(t, r)
    BY DEF Linked
  <2>3. \A o \in Outputs : r[o] # NoNode => r[o] \in DOMAIN w
    BY <2>1, <2>2, <1>7 DEF Rooted
  <2> QED BY <2>2, <2>3, <1>10 DEF Rooted
<1>15. Linked(w, r)
  <2>1. DOMAIN w \subseteq Nodes
    BY <1>7 DEF Linked
  <2> QED BY <2>1, <1>10, <1>13, <1>14 DEF Linked
<1>16. Placed(w, {p})
  <2>1. SUFFICES ASSUME NEW m \in DOMAIN w, w[m].parent # NoNode, w[m].parent # p
                 PROVE  InPlace(w, m)
    BY DEF Placed
  <2>2. m \in DOMAIN t /\ w[m].parent = t[m].parent /\ InPlace(t, m)
    BY <2>1, <1>7, <1>10 DEF Placed
  <2>3. w[t[m].parent].kids = t[t[m].parent].kids
    BY <2>1, <2>2, <1>10, <1>12
  <2> QED BY <2>1, <2>2, <2>3, <1>10 DEF InPlace
<1>17. ASSUME NEW P, Full(t, P) PROVE Full(w, P)
  <2>1. SUFFICES ASSUME NEW m \in DOMAIN w \ P, w[m].view = NoView, w[m].kids = <<>>
                 PROVE  w[m].parent = NoNode
    BY DEF Full
  <2>2. CASE m # p
    BY <2>1, <2>2, <1>7, <1>10, <1>17 DEF Full
  <2>3. CASE m = p
    <3>1. Len(c) = 0
      BY <2>1, <2>3, <1>9
    <3>2. Len(t[p].kids) \in Nat
      BY <1>4, NodeFacts
    <3>3. Len(t[p].kids) = 1
      BY <3>1, <3>2, <1>6
    <3> QED BY <2>3, <3>3, <1>1, <1>9
  <2> QED BY <2>2, <2>3
<1> DEFINE u == Renumber(w, {p}, FALSE)
<1>18. {p} \subseteq DOMAIN w
  BY <1>4, <1>7
<1>19. /\ Alike(u, w) /\ Linked(u, r) /\ Placed(u, {})
       /\ \A P : Full(w, P) => Full(u, P)
  <2> HIDE DEF p
  <2> QED BY <1>15, <1>16, <1>18, RenumberLemma
<1> HIDE DEF u
<1>20. /\ DOMAIN u = DOMAIN t \ G
       /\ \A m \in DOMAIN u : Level(u, m) = Level(t, m) /\ u[m].view = t[m].view
       /\ \A m \in DOMAIN u \ {p} : u[m].kids = t[m].kids
  BY <1>19, <1>7, <1>10 DEF Alike
<1>21. n \in Nodes \ DOMAIN u
  BY <1>20, <1>2, NodeFacts
<1>22. Erase(t, n) = u
  BY <1>3 DEF u
<1>23. p = Survivor(t, n)
  BY <1>1
<1>24. Pruned(u, t, G, p, i)
  <2>1. u[p].kids = RemoveAt(t[p].kids, i)
    BY <1>18, <1>19, <1>9 DEF Alike, c
  <2>2. \A m \in DOMAIN u : u[m].view = t[m].view /\ u[m].output = t[m].output
    BY <1>19, <1>10 DEF Alike
  <2> HIDE DEF p, G
  <2> QED BY <2>1, <2>2, <1>1, <1>4, <1>5, <1>20 DEF Pruned, p
<1> HIDE DEF G, p
<1> QED BY <1>17, <1>19, <1>20, <1>21, <1>22, <1>23, <1>24 DEF G

(***************************************************************************)
(* Inserting a leaf                                                        *)
(***************************************************************************)

(* u is t with a leaf n for window v at the head of p's row. *)
Grafted(u, t, p, n, v) ==
  /\ DOMAIN u = DOMAIN t \cup {n}
  /\ u[n].view = v /\ u[n].kids = <<>> /\ u[n].output = t[p].output
  /\ u[p].kids = <<n>> \o t[p].kids
  /\ \A m \in DOMAIN t \ {p} : u[m].kids = t[m].kids
  /\ \A m \in DOMAIN t : u[m].view = t[m].view /\ u[m].output = t[m].output

(* A new leaf at the head of p's row keeps the tree well formed, and every  *)
(* row is numbered again; p may have been empty before.                     *)
LEMMA InsertLemma ==
  ASSUME NEW t, NEW r, Linked(t, r), Placed(t, {}),
         NEW p \in DOMAIN t, t[p].view = NoView, Level(t, p) < MaxLevel,
         NEW n \in Nodes \ DOMAIN t, NEW v \in Views
  PROVE  LET u == Insert(t, p, n, v)
         IN  /\ Linked(u, r)
             /\ Placed(u, {})
             /\ Full(t, {p}) => Full(u, {})
             /\ Grafted(u, t, p, n, v)
<1> DEFINE leaf == [parent |-> p, kids |-> <<>>, view |-> v,
                    vertical |-> t[p].vertical, coding |-> Append(t[p].coding, 0),
                    output |-> t[p].output]
           c == <<n>> \o t[p].kids
           w == [Extend(t, n, leaf) EXCEPT ![p].kids = c]
<1>1. Insert(t, p, n, v) = Renumber(w, {p}, TRUE)
  <2>1. n # p
    OBVIOUS
  <2>2. Extend(t, n, leaf)[p] = t[p]
    BY <2>1 DEF Extend
  <2>3. [Extend(t, n, leaf) EXCEPT ![p].kids = <<n>> \o @] = w
    BY <2>2
  <2> QED BY <2>3 DEF Insert
<1>2. /\ t[p] \in NodeType /\ Related(t, r, p) /\ p # NoNode /\ p \in Nodes
      /\ t[p].kids \in Seq(Nodes) /\ t[p].coding \in Seq(Nat)
      /\ Level(t, p) \in Nat
  BY NodeFacts
<1>3. v # NoView /\ n # NoNode /\ n # p
  BY TilingAssumption
<1>4. /\ leaf \in NodeType /\ leaf.parent = p /\ leaf.kids = <<>> /\ leaf.view = v
      /\ leaf.output = t[p].output /\ Len(leaf.coding) = Level(t, p) + 1
  <2>1. t[p].vertical \in BOOLEAN /\ t[p].output \in Outputs
    BY <1>2 DEF NodeType
  <2>2. Append(t[p].coding, 0) \in Seq(Nat)
    BY <1>2
  <2>3. Len(Append(t[p].coding, 0)) = Level(t, p) + 1
    BY <1>2 DEF Level
  <2> QED BY <2>1, <2>2, <2>3, <1>2 DEF NodeType
<1>5. /\ c \in Seq(Nodes) /\ IsInjective(c) /\ c # <<>>
      /\ Members(c) = Kids(t, p) \cup {n}
  <2>1. n \notin Kids(t, p)
    BY NodeFacts
  <2>2. IsInjective(t[p].kids)
    BY <1>2 DEF Related
  <2>3. /\ c \in Seq(Nodes) /\ Len(c) = Len(t[p].kids) + 1 /\ IsInjective(c)
        /\ Members(c) = Members(t[p].kids) \cup {n}
    <3>1. n \notin Members(t[p].kids)
      BY <2>1 DEF Kids, Members
    <3> QED BY <3>1, <2>2, <1>2, HeadLemma
  <2>4. Len(t[p].kids) \in Nat
    BY <1>2
  <2> HIDE DEF c
  <2>5. c # <<>>
    BY <2>3, <2>4
  <2> QED BY <2>3, <2>5 DEF Kids, Members
<1> HIDE DEF c, leaf
<1>6. /\ DOMAIN w = DOMAIN t \cup {n}
      /\ w[n] = leaf
      /\ w[p] = [t[p] EXCEPT !.kids = c]
      /\ \A m \in DOMAIN t : m # p => w[m] = t[m]
  BY <1>3 DEF Extend
<1> HIDE DEF w
<1>7. /\ w[p] \in NodeType /\ w[p].parent = t[p].parent /\ w[p].kids = c
      /\ w[p].view = t[p].view /\ w[p].coding = t[p].coding
      /\ w[p].output = t[p].output
  BY <1>2, <1>5, <1>6 DEF NodeType
<1>8. ASSUME NEW m \in DOMAIN t
      PROVE  /\ w[m] \in NodeType
             /\ w[m].parent = t[m].parent
             /\ w[m].view = t[m].view
             /\ w[m].coding = t[m].coding
             /\ w[m].output = t[m].output
             /\ Level(w, m) = Level(t, m)
  <2>1. t[m] \in NodeType
    BY NodeFacts
  <2> QED BY <2>1, <1>6, <1>7 DEF Level
<1>9. ASSUME NEW m \in DOMAIN t, m # p
      PROVE  w[m].kids = t[m].kids /\ Kids(w, m) = Kids(t, m)
  <2>1. w[m] = t[m]
    BY <1>6, <1>9
  <2> QED BY <2>1 DEF Kids
<1>10. Kids(w, p) = Kids(t, p) \cup {n} /\ Kids(w, n) = {}
  <2>1. Kids(w, p) = Kids(t, p) \cup {n}
    BY <1>5, <1>7 DEF Kids, Members
  <2>2. Len(w[n].kids) = 0
    BY <1>4, <1>6
  <2> QED BY <2>1, <2>2 DEF Kids
<1>11. ASSUME NEW m \in DOMAIN t PROVE Related(w, r, m)
  <2>1. Related(t, r, m) /\ Kids(t, m) \subseteq DOMAIN t
    BY NodeFacts
  <2>2. IsInjective(w[m].kids) /\ (w[m].view # NoView => w[m].kids = <<>>)
    BY <2>1, <1>5, <1>7, <1>8, <1>9 DEF Related
  <2>3. \A k \in Kids(t, m) : /\ k \in DOMAIN w
                              /\ w[k].parent = m
                              /\ w[k].output = w[m].output
                              /\ Level(w, k) = Level(w, m) + 1
    BY <2>1, <1>6, <1>8 DEF Related
  <2>4. m = p => /\ n \in DOMAIN w
                 /\ w[n].parent = m
                 /\ w[n].output = w[m].output
                 /\ Level(w, n) = Level(w, m) + 1
    BY <1>4, <1>6, <1>8 DEF Level
  <2>5. Kids(w, m) = IF m = p THEN Kids(t, p) \cup {n} ELSE Kids(t, m)
    BY <1>9, <1>10
  <2>6. \A k \in Kids(w, m) : /\ k \in DOMAIN w
                              /\ w[k].parent = m
                              /\ w[k].output = w[m].output
                              /\ Level(w, k) = Level(w, m) + 1
    BY <2>3, <2>4, <2>5
  <2>7. w[m].parent # NoNode => /\ w[m].parent \in DOMAIN w
                                /\ m \in Kids(w, w[m].parent)
    <3>1. SUFFICES ASSUME t[m].parent # NoNode
                   PROVE  t[m].parent \in DOMAIN w /\ m \in Kids(w, t[m].parent)
      BY <1>8
    <3>2. t[m].parent \in DOMAIN t /\ m \in Kids(t, t[m].parent)
      BY <3>1, <2>1 DEF Related
    <3> QED BY <3>2, <1>6, <1>9, <1>10
  <2> QED BY <2>1, <2>2, <2>6, <2>7, <1>8 DEF Related
<1>12. Related(w, r, n)
  <2>1. IsInjective(<<>>)
    BY DEF IsInjective
  <2>2. Level(w, n) = Level(t, p) + 1
    BY <1>4, <1>6 DEF Level
  <2>3. Level(w, n) <= MaxLevel
    BY <2>2, <1>2, TilingAssumption
  <2>4. w[n].parent = p /\ w[n].kids = <<>> /\ n \in Kids(w, p) /\ p \in DOMAIN w
    BY <1>4, <1>6, <1>10
  <2> QED BY <2>1, <2>3, <2>4, <1>2, <1>10 DEF Related
<1>13. Rooted(w, r)
  BY <1>6, <1>8 DEF Linked, Rooted
<1>14. Linked(w, r)
  <2>1. DOMAIN w \subseteq Nodes
    BY <1>6 DEF Linked
  <2>2. \A m \in DOMAIN w : w[m] \in NodeType /\ Related(w, r, m)
    BY <1>4, <1>6, <1>8, <1>11, <1>12
  <2> QED BY <2>1, <2>2, <1>13 DEF Linked
<1>15. Placed(w, {p})
  <2>1. SUFFICES ASSUME NEW m \in DOMAIN w, w[m].parent # NoNode, w[m].parent # p
                 PROVE  InPlace(w, m)
    BY DEF Placed
  <2>2. m \in DOMAIN t
    BY <2>1, <1>4, <1>6
  <2>3. InPlace(t, m) /\ t[m].parent \in DOMAIN t /\ t[m].parent # p
    BY <2>1, <2>2, <1>8, ChildFacts DEF Placed
  <2>4. w[t[m].parent].kids = t[t[m].parent].kids
    BY <2>3, <1>9
  <2> QED BY <2>2, <2>3, <2>4, <1>8 DEF InPlace
<1>16. Full(t, {p}) => Full(w, {})
  <2>1. SUFFICES ASSUME Full(t, {p}),
                        NEW m \in DOMAIN w, w[m].view = NoView, w[m].kids = <<>>
                 PROVE  w[m].parent = NoNode
    BY DEF Full
  <2>2. m \in DOMAIN t \ {p}
    BY <2>1, <1>3, <1>4, <1>5, <1>6, <1>7
  <2> QED BY <2>1, <2>2, <1>8, <1>9 DEF Full
<1>17. {p} \subseteq DOMAIN w
  BY <1>6
<1> DEFINE u == Renumber(w, {p}, TRUE)
<1>18. /\ Alike(u, w) /\ Linked(u, r) /\ Placed(u, {})
       /\ Full(t, {p}) => Full(u, {})
  BY <1>14, <1>15, <1>16, <1>17, RenumberLemma
<1> HIDE DEF u
<1>19. Grafted(u, t, p, n, v)
  <2>1. /\ DOMAIN u = DOMAIN t \cup {n}
        /\ u[n].view = v /\ u[n].kids = <<>> /\ u[n].output = t[p].output
    BY <1>4, <1>6, <1>18 DEF Alike
  <2>2. u[p].kids = <<n>> \o t[p].kids
    BY <1>6, <1>7, <1>18 DEF Alike, c
  <2>3. \A m \in DOMAIN t : u[m].view = t[m].view /\ u[m].output = t[m].output
    BY <1>6, <1>8, <1>18 DEF Alike
  <2>4. \A m \in DOMAIN t \ {p} : u[m].kids = t[m].kids
    BY <1>6, <1>9, <1>18 DEF Alike
  <2> QED BY <2>1, <2>2, <2>3, <2>4 DEF Grafted
<1> QED BY <1>1, <1>18, <1>19 DEF u

(* Splitting starts by turning a window's leaf into an empty container. *)
Opened(t, n, d) == [t EXCEPT ![n].view = NoView, ![n].vertical = d]

(* The opened leaf is the only empty container there may be. *)
LEMMA OpenLemma ==
  ASSUME NEW t, NEW r, Linked(t, r), Placed(t, {}),
         NEW n \in DOMAIN t, t[n].view # NoView, NEW d \in BOOLEAN
  PROVE  LET u == Opened(t, n, d)
         IN  /\ DOMAIN u = DOMAIN t
             /\ u[n].view = NoView
             /\ Level(u, n) = Level(t, n)
             /\ Linked(u, r)
             /\ Placed(u, {})
             /\ Full(t, {}) => Full(u, {n})
             /\ \A m \in DOMAIN t : u[m].kids = t[m].kids /\ u[m].output = t[m].output
             /\ \A m \in DOMAIN t \ {n} : u[m].view = t[m].view
<1> DEFINE u == Opened(t, n, d)
<1>1. t[n] \in NodeType
  BY NodeFacts
<1>2. /\ DOMAIN u = DOMAIN t
      /\ u[n] = [t[n] EXCEPT !.view = NoView, !.vertical = d]
      /\ \A m \in DOMAIN t \ {n} : u[m] = t[m]
  BY <1>1 DEF Opened, NodeType
<1> HIDE DEF u
<1>3. /\ u[n] \in NodeType /\ u[n].parent = t[n].parent /\ u[n].kids = t[n].kids
      /\ u[n].view = NoView /\ u[n].coding = t[n].coding
      /\ u[n].output = t[n].output
  BY <1>1, <1>2 DEF NodeType
<1>4. ASSUME NEW m \in DOMAIN t
      PROVE  /\ u[m] \in NodeType /\ u[m].parent = t[m].parent /\ u[m].kids = t[m].kids
             /\ u[m].coding = t[m].coding /\ u[m].output = t[m].output
             /\ u[m].view \in {t[m].view, NoView}
             /\ Kids(u, m) = Kids(t, m) /\ Level(u, m) = Level(t, m)
  <2>1. t[m] \in NodeType
    BY NodeFacts
  <2>2. /\ u[m] \in NodeType /\ u[m].parent = t[m].parent /\ u[m].kids = t[m].kids
        /\ u[m].coding = t[m].coding /\ u[m].output = t[m].output
        /\ u[m].view \in {t[m].view, NoView}
    <3>1. CASE m = n
      BY <3>1, <1>3
    <3>2. CASE m # n
      BY <3>2, <2>1, <1>2
    <3> QED BY <3>1, <3>2
  <2> QED BY <2>2 DEF Kids, Level
<1>5. Rooted(u, r)
  BY <1>2, <1>4 DEF Linked, Rooted
<1>6. ASSUME NEW m \in DOMAIN t PROVE Related(u, r, m)
  <2>1. Related(t, r, m) /\ Kids(t, m) \subseteq DOMAIN t
    BY NodeFacts
  <2> QED BY <2>1, <1>2, <1>4 DEF Related
<1>7. Linked(u, r)
  BY <1>2, <1>4, <1>5, <1>6 DEF Linked
<1>8. Placed(u, {})
  <2>1. SUFFICES ASSUME NEW m \in DOMAIN u, u[m].parent # NoNode PROVE InPlace(u, m)
    BY DEF Placed
  <2>2. m \in DOMAIN t /\ InPlace(t, m) /\ t[m].parent \in DOMAIN t
    BY <2>1, <1>2, <1>4, ChildFacts DEF Placed
  <2> QED BY <2>2, <1>4 DEF InPlace
<1>9. Full(t, {}) => Full(u, {n})
  BY <1>2, <1>4 DEF Full
<1> QED BY <1>2, <1>3, <1>4, <1>7, <1>8, <1>9 DEF u

(***************************************************************************)
(* What the handlers look up                                               *)
(***************************************************************************)

(* A leaf that is found holds the window that was looked for; its parent is *)
(* a container with room below it.                                          *)
LEMMA LeafLemma ==
  ASSUME TInv, NEW v \in Views, Leaf(tree, v) # NoNode
  PROVE  LET n == Leaf(tree, v)
             p == tree[n].parent
         IN  /\ n \in DOMAIN tree
             /\ tree[n].view = v
             /\ v # NoView
             /\ p \in DOMAIN tree
             /\ p # n
             /\ n \in Kids(tree, p)
             /\ tree[p].view = NoView
             /\ Level(tree, p) < MaxLevel
<1> DEFINE n == Leaf(tree, v)
           p == tree[n].parent
           found == {m \in DOMAIN tree : tree[m].view = v /\ tree[m].output = vout[v]}
<1>1. n = IF found = {} THEN NoNode ELSE CHOOSE m \in found : TRUE
  BY DEF Leaf, LeafIn
<1>2. found # {} /\ n \in found
  BY <1>1
<1>3. n \in DOMAIN tree /\ tree[n].view = v
  BY <1>2
<1>4. v # NoView
  BY TilingAssumption
<1> HIDE DEF n, found
<1>5. Linked(tree, root)
  BY DEF TInv, Sound
<1>6. p # NoNode
  BY <1>3, <1>4, <1>5, LeafFacts
<1>7. /\ p \in DOMAIN tree /\ n \in Kids(tree, p) /\ tree[p].view = NoView
      /\ Level(tree, n) = Level(tree, p) + 1
  BY <1>3, <1>5, <1>6, ChildFacts
<1>8. Level(tree, n) <= MaxLevel /\ Level(tree, p) \in Nat /\ MaxLevel \in Nat
  BY <1>3, <1>5, <1>7, NodeFacts, TilingAssumption DEF Related
<1>9. Level(tree, p) < MaxLevel
  BY <1>7, <1>8
<1>10. p # n
  BY <1>3, <1>4, <1>7
<1> QED BY <1>3, <1>4, <1>7, <1>9, <1>10 DEF n

(* The window a handler is asked about is one of Views. *)
LEMMA WindowLemma ==
  ASSUME TInv PROVE Windows \subseteq Views
<1>1. layer \in Seq(Views)
  BY DEF TInv
<1> QED BY <1>1 DEF Windows

(* A window is launched below a container that has room below it.           *)
LEMMA LaunchLemma ==
  ASSUME TInv, NEW o \in Outputs, Plugged(o), FocusedLeaf
  PROVE  /\ LaunchPoint(o) \in DOMAIN tree
         /\ tree[LaunchPoint(o)].view = NoView
         /\ Level(tree, LaunchPoint(o)) < MaxLevel
<1>1. CASE layer = <<>>
  <2>1. /\ root[o] \in DOMAIN tree /\ tree[root[o]].parent = NoNode
        /\ tree[root[o]].view = NoView /\ Level(tree, root[o]) = 0
    BY DEF TInv, Sound, Linked, Rooted, Plugged
  <2>2. MaxLevel \in Nat /\ 0 < MaxLevel /\ ~(0 >= MaxLevel)
    BY TilingAssumption
  <2>3. LaunchPoint(o) = root[o]
    BY <2>1, <2>2, <1>1 DEF LaunchPoint
  <2> QED BY <2>1, <2>2, <2>3
<1>2. CASE layer # <<>>
  <2> DEFINE v == Head(layer)
             n == Leaf(tree, v)
             p == tree[n].parent
  <2>1. v \in Views
    BY <1>2 DEF TInv
  <2>2. n # NoNode
    BY <1>2 DEF FocusedLeaf
  <2>3. /\ p \in DOMAIN tree /\ tree[p].view = NoView /\ Level(tree, p) < MaxLevel
    BY <2>1, <2>2, LeafLemma
  <2>4. p # NoNode /\ Level(tree, p) \in Nat /\ MaxLevel \in Nat
    BY <2>3, NodeFacts, TilingAssumption DEF TInv, Sound
  <2>5. ~(Level(tree, p) >= MaxLevel)
    BY <2>3, <2>4
  <2>6. LaunchPoint(o) = p
    BY <2>4, <2>5, <1>2 DEF LaunchPoint
  <2> QED BY <2>3, <2>6
<1> QED BY <1>1, <1>2

(* Inserting into and erasing from a sound tree leave it sound. *)
LEMMA SoundInsert ==
  ASSUME NEW t, NEW r, Sound(t, r),
         NEW p \in DOMAIN t, t[p].view = NoView, Level(t, p) < MaxLevel,
         Nodes \ DOMAIN t # {}, NEW v \in Views
  PROVE  Sound(Insert(t, p, Fresh(t), v), r)
<1>1. Fresh(t) \in Nodes \ DOMAIN t
  BY FreshLemma
<1>2. Linked(t, r) /\ Placed(t, {})
  BY DEF Sound
<1> DEFINE u == Insert(t, p, Fresh(t), v)
<1>3. Linked(u, r) /\ Placed(u, {}) /\ (Full(t, {p}) => Full(u, {}))
  BY <1>1, <1>2, InsertLemma
<1>4. Full(t, {}) => Full(t, {p})
  BY DEF Full
<1> QED BY <1>3, <1>4 DEF Sound

LEMMA SoundErase ==
  ASSUME NEW t, NEW r, Sound(t, r), NEW n \in DOMAIN t, t[n].view # NoView
  PROVE  Sound(Erase(t, n), r)
<1>1. Linked(t, r) /\ Placed(t, {})
  BY DEF Sound
<1> DEFINE u == Erase(t, n)
<1>2. Linked(u, r) /\ Placed(u, {}) /\ (Full(t, {}) => Full(u, {}))
  BY <1>1, EraseLemma
<1> QED BY <1>2 DEF Sound

(***************************************************************************)
(* The handlers                                                            *)
(***************************************************************************)

LEMMA Initially ==
  ASSUME Init PROVE TInv
<1>1. DOMAIN tree = {}
  BY DEF Init
<1>2. \A o \in Outputs : root[o] = NoNode
  BY DEF Init
<1>3. Linked(tree, root)
  BY <1>1, <1>2 DEF Linked, Rooted
<1>4. Sound(tree, root)
  BY <1>1, <1>3 DEF Sound, Placed, Full
<1> QED BY <1>4 DEF Init, TInv, Faults

(* A handler that brings the compositor down changes nothing else. *)
LEMMA FaultStep ==
  ASSUME TInv, NEW kind \in Faults, Fault(kind)
  PROVE  TInv'
<1>1. fault' = kind /\ UNCHANGED <<tree, root, layer, vout>>
  BY DEF Fault
<1>2. Sound(tree, root)'
  BY <1>1 DEF TInv
<1> QED BY <1>1, <1>2 DEF TInv

(* A handler that replaces the tree by another sound one. *)
LEMMA TreeStep ==
  ASSUME TInv, Sound(tree', root), UNCHANGED <<root, layer, vout, fault>>
  PROVE  TInv'
<1>1. Sound(tree', root')
  <2>1. root' = root
    OBVIOUS
  <2> QED BY <2>1
<1> QED BY <1>1 DEF TInv

LEMMA AddOutputStep ==
  ASSUME TInv, NEW o \in Outputs, AddOutput(o)
  PROVE  TInv'
<1> DEFINE n == Fresh(tree)
           rec == [parent |-> NoNode, kids |-> <<>>, view |-> NoView,
                   vertical |-> FALSE, coding |-> <<>>, output |-> o]
           r == [root EXCEPT ![o] = n]
           t == Extend(tree, n, rec)
<1>1. /\ root[o] = NoNode /\ n \in Nodes \ DOMAIN tree
      /\ tree' = t /\ root' = r /\ UNCHANGED <<layer, vout, fault>>
  BY FreshLemma DEF AddOutput
<1>2. Linked(tree, root) /\ root \in [Outputs -> Nodes \cup {NoNode}]
  BY DEF TInv, Sound
<1>3. n # NoNode
  BY <1>1, TilingAssumption
<1>4. /\ rec \in NodeType /\ rec.parent = NoNode /\ rec.view = NoView /\ rec.output = o
      /\ Len(rec.coding) = 0 /\ rec.kids = <<>> /\ Len(rec.kids) = 0
  BY DEF NodeType
<1>5. r \in [Outputs -> Nodes \cup {NoNode}] /\ r[o] = n
      /\ \A q \in Outputs : q # o => r[q] = root[q]
  BY <1>1, <1>2
<1> HIDE DEF n, rec, r
<1>6. DOMAIN t = DOMAIN tree \cup {n} /\ t[n] = rec /\ \A m \in DOMAIN tree : t[m] = tree[m]
  BY <1>1 DEF Extend
<1> HIDE DEF t
<1>7. \A m \in DOMAIN tree : Kids(t, m) = Kids(tree, m) /\ Level(t, m) = Level(tree, m)
  BY <1>6 DEF Kids, Level
<1>8. Kids(t, n) = {} /\ Level(t, n) = 0
  BY <1>4, <1>6 DEF Kids, Level
<1>9. Rooted(t, r)
  <2>1. Rooted(tree, root)
    BY <1>2 DEF Linked
  <2> QED BY <2>1, <1>3, <1>4, <1>5, <1>6, <1>7, <1>8 DEF Rooted
<1>10. ASSUME NEW m \in DOMAIN tree PROVE Related(t, r, m)
  <2>1. /\ Related(tree, root, m) /\ Kids(tree, m) \subseteq DOMAIN tree /\ m # NoNode
        /\ tree[m].output \in Outputs
    BY <1>2, NodeFacts DEF NodeType
  <2>2. t[m].parent = NoNode => m = r[t[m].output]
    BY <2>1, <1>1, <1>5, <1>6 DEF Related
  <2>3. t[m].parent # NoNode => /\ t[m].parent \in DOMAIN t
                                /\ m \in Kids(t, t[m].parent)
    BY <2>1, <1>6, <1>7 DEF Related
  <2> QED BY <2>1, <2>2, <2>3, <1>6, <1>7 DEF Related
<1>11. Related(t, r, n)
  <2>1. IsInjective(<<>>)
    BY DEF IsInjective
  <2>2. 0 <= MaxLevel
    BY TilingAssumption
  <2> QED BY <2>1, <2>2, <1>4, <1>5, <1>6, <1>8 DEF Related
<1>12. Linked(t, r)
  <2>1. DOMAIN t \subseteq Nodes /\ \A m \in DOMAIN t : t[m] \in NodeType
    BY <1>1, <1>2, <1>4, <1>6 DEF Linked
  <2> QED BY <2>1, <1>6, <1>9, <1>10, <1>11 DEF Linked
<1>13. Placed(t, {})
  <2>1. SUFFICES ASSUME NEW m \in DOMAIN t, t[m].parent # NoNode PROVE InPlace(t, m)
    BY DEF Placed
  <2>2. m \in DOMAIN tree /\ tree[m].parent # NoNode
    BY <2>1, <1>4, <1>6
  <2>3. InPlace(tree, m) /\ tree[m].parent \in DOMAIN tree
    BY <2>2, <1>2, ChildFacts DEF TInv, Sound, Placed
  <2> QED BY <2>2, <2>3, <1>6 DEF InPlace
<1>14. Full(tree, {}) => Full(t, {})
  BY <1>4, <1>6 DEF Full
<1>15. Sound(t, r)
  BY <1>12, <1>13, <1>14 DEF Sound, TInv
<1>16. Sound(tree', root')
  BY <1>1, <1>15
<1> QED BY <1>1, <1>5, <1>16 DEF TInv

LEMMA RemoveOutputStep ==
  ASSUME TInv, NEW o \in Outputs, RemoveOutput(o)
  PROVE  TInv'
<1> DEFINE t == [n \in {m \in DOMAIN tree : tree[m].output # o} |-> tree[n]]
           r == [root EXCEPT ![o] = NoNode]
<1>1. /\ tree' = t /\ root' = r /\ UNCHANGED <<layer, fault>>
      /\ vout' = [v \in Views |-> IF vout[v] = o THEN NoOutput ELSE vout[v]]
  BY DEF RemoveOutput
<1>2. Linked(tree, root) /\ root \in [Outputs -> Nodes \cup {NoNode}]
  BY DEF TInv, Sound
<1>3. r \in [Outputs -> Nodes \cup {NoNode}] /\ r[o] = NoNode
      /\ \A q \in Outputs : q # o => r[q] = root[q]
  BY <1>2
<1> HIDE DEF r
<1>4. /\ \A m : m \in DOMAIN t <=> m \in DOMAIN tree /\ tree[m].output # o
      /\ \A m \in DOMAIN t : t[m] = tree[m]
  OBVIOUS
<1> HIDE DEF t
<1>5. \A m \in DOMAIN t : Kids(t, m) = Kids(tree, m) /\ Level(t, m) = Level(tree, m)
  BY <1>4 DEF Kids, Level
<1>6. Rooted(t, r)
  <2>1. Rooted(tree, root)
    BY <1>2 DEF Linked
  <2> QED BY <2>1, <1>3, <1>4, <1>5 DEF Rooted
<1>7. ASSUME NEW m \in DOMAIN t PROVE Related(t, r, m)
  <2>1. /\ m \in DOMAIN tree /\ Related(tree, root, m)
        /\ tree[m].output \in Outputs /\ tree[m].output # o
    BY <1>2, <1>4, NodeFacts DEF NodeType
  <2>2. ASSUME tree[m].parent # NoNode
        PROVE  tree[m].parent \in DOMAIN t /\ m \in Kids(t, tree[m].parent)
    <3>1. /\ tree[m].parent \in DOMAIN tree /\ m \in Kids(tree, tree[m].parent)
          /\ tree[tree[m].parent].output = tree[m].output
      BY <2>1, <2>2, <1>2, ChildFacts
    <3> QED BY <3>1, <2>1, <1>4, <1>5
  <2>3. \A k \in Kids(tree, m) : k \in DOMAIN t
    BY <2>1, <1>4 DEF Related
  <2> QED BY <2>1, <2>2, <2>3, <1>3, <1>4, <1>5 DEF Related
<1>8. Linked(t, r)
  BY <1>2, <1>4, <1>6, <1>7 DEF Linked
<1>9. Placed(t, {})
  <2>1. SUFFICES ASSUME NEW m \in DOMAIN t, t[m].parent # NoNode PROVE InPlace(t, m)
    BY DEF Placed
  <2>2. m \in DOMAIN tree /\ t[m] = tree[m] /\ InPlace(tree, m)
    BY <2>1, <1>4 DEF TInv, Sound, Placed
  <2>3. t[m].parent \in DOMAIN t
    BY <2>1, <1>7 DEF Related
  <2>4. t[tree[m].parent] = tree[tree[m].parent]
    BY <2>2, <2>3, <1>4
  <2> QED BY <2>2, <2>4 DEF InPlace
<1>10. Full(tree, {}) => Full(t, {})
  BY <1>4 DEF Full
<1>11. Sound(t, r)
  BY <1>8, <1>9, <1>10 DEF Sound, TInv
<1>12. Sound(tree', root')
  BY <1>1, <1>11
<1>13. vout' \in [Views -> Outputs \cup {NoOutput}]
  BY <1>1 DEF TInv
<1> QED BY <1>1, <1>3, <1>12, <1>13 DEF TInv

(* Turning a container changes no link, index or window. *)
LEMMA TurnLemma ==
  ASSUME NEW t, NEW r, Sound(t, r), NEW p \in DOMAIN t, NEW d \in BOOLEAN
  PROVE  Sound([t EXCEPT ![p].vertical = d], r)
<1> DEFINE u == [t EXCEPT ![p].vertical = d]
<1>1. Linked(t, r) /\ Placed(t, {})
  BY DEF Sound
<1>2. /\ DOMAIN u = DOMAIN t /\ u[p] = [t[p] EXCEPT !.vertical = d]
      /\ \A m \in DOMAIN t \ {p} : u[m] = t[m]
  OBVIOUS
<1> HIDE DEF u
<1>3. ASSUME NEW m \in DOMAIN t
      PROVE  /\ u[m] \in NodeType /\ u[m].parent = t[m].parent /\ u[m].kids = t[m].kids
             /\ u[m].coding = t[m].coding /\ u[m].output = t[m].output
             /\ u[m].view = t[m].view
  <2>1. t[m] \in NodeType
    BY <1>1, NodeFacts
  <2>2. CASE m = p
    BY <2>1, <2>2, <1>2 DEF NodeType
  <2>3. CASE m # p
    BY <2>1, <2>3, <1>2
  <2> QED BY <2>2, <2>3
<1>4. Alike(u, t)
  BY <1>2, <1>3 DEF Alike, Level
<1>5. Linked(u, r) /\ \A P : Full(t, P) => Full(u, P)
  BY <1>1, <1>3, <1>4, AlikeLemma
<1>6. Placed(u, {})
  <2>1. SUFFICES ASSUME NEW m \in DOMAIN u, u[m].parent # NoNode PROVE InPlace(u, m)
    BY DEF Placed
  <2>2. m \in DOMAIN t /\ InPlace(t, m) /\ t[m].parent \in DOMAIN t
    BY <2>1, <1>1, <1>2, <1>3, ChildFacts DEF Placed
  <2> QED BY <2>2, <1>3 DEF InPlace
<1>7. Sound(u, r)
  BY <1>5, <1>6 DEF Sound
<1> QED BY <1>7 DEF u

LEMMA AddStep ==
  ASSUME TInv, NEW v \in Views, NEW o \in Outputs, Add(v, o)
  PROVE  TInv'
<1>1. CASE \E kind \in Faults : Fault(kind)
  BY <1>1, FaultStep
<1>2. CASE /\ Plugged(o) /\ FocusedLeaf /\ Nodes \ DOMAIN tree # {}
           /\ \E fits \in Fits :
                tree' = IF fits THEN Insert(tree, LaunchPoint(o), Fresh(tree), v)
                        ELSE tree
           /\ layer' = <<v>> \o layer
           /\ vout' = [vout EXCEPT ![v] = o]
           /\ UNCHANGED <<root, fault>>
  <2>1. /\ LaunchPoint(o) \in DOMAIN tree /\ tree[LaunchPoint(o)].view = NoView
        /\ Level(tree, LaunchPoint(o)) < MaxLevel
    BY <1>2, LaunchLemma
  <2>2. Sound(tree, root)
    BY DEF TInv
  <2>3. Sound(Insert(tree, LaunchPoint(o), Fresh(tree), v), root)
    BY <2>1, <2>2, <1>2, SoundInsert
  <2>4. Sound(tree', root)
    BY <2>2, <2>3, <1>2
  <2>5. Sound(tree', root')
    BY <2>4, <1>2
  <2>6. layer' \in Seq(Views) /\ vout' \in [Views -> Outputs \cup {NoOutput}]
    BY <1>2 DEF TInv
  <2> QED BY <2>5, <2>6, <1>2 DEF TInv
<1>3. "no leaf" \in Faults /\ "no output" \in Faults /\ "bad path" \in Faults
  BY DEF Faults
<1> QED BY <1>1, <1>2, <1>3 DEF Add

LEMMA DelStep ==
  ASSUME TInv, NEW v \in Views, Del(v)
  PROVE  TInv'
<1> DEFINE n == Leaf(tree, v)
<1>1. CASE Fault("bad path")
  BY <1>1, FaultStep DEF Faults
<1>2. CASE /\ tree' = tree \/ (n # NoNode /\ tree' = Erase(tree, n))
           /\ layer' = Without(layer, v)
           /\ vout' = [vout EXCEPT ![v] = NoOutput]
           /\ UNCHANGED <<root, fault>>
  <2>1. Sound(tree, root)
    BY DEF TInv
  <2>2. n # NoNode => Sound(Erase(tree, n), root)
    <3>1. SUFFICES ASSUME n # NoNode PROVE Sound(Erase(tree, n), root)
      OBVIOUS
    <3>2. n \in DOMAIN tree /\ tree[n].view # NoView
      BY <3>1, LeafLemma
    <3> QED BY <3>2, <2>1, SoundErase
  <2>3. Sound(tree', root')
    BY <2>1, <2>2, <1>2
  <2>4. layer' \in Seq(Views) /\ vout' \in [Views -> Outputs \cup {NoOutput}]
    BY <1>2, WithoutLemma DEF TInv
  <2> QED BY <2>3, <2>4, <1>2 DEF TInv
<1> QED BY <1>1, <1>2 DEF Del

LEMMA SplitStep ==
  ASSUME TInv, NEW v \in Views, NEW vertical \in BOOLEAN, Split(v, vertical)
  PROVE  TInv'
<1> DEFINE n == Leaf(tree, v)
           p == tree[n].parent
           opened == [tree EXCEPT ![n].view = NoView, ![n].vertical = vertical]
<1>1. n # NoNode /\ Nodes \ DOMAIN tree # {}
  BY DEF Split
<1>2. /\ n \in DOMAIN tree /\ tree[n].view # NoView
      /\ p \in DOMAIN tree
  BY <1>1, LeafLemma
<1>3. Sound(tree, root) /\ Linked(tree, root) /\ Placed(tree, {})
  BY DEF TInv, Sound
<1>4. Level(tree, n) \in Nat /\ MaxLevel \in Nat
  BY <1>2, <1>3, NodeFacts, TilingAssumption
<1>5. /\ DOMAIN opened = DOMAIN tree /\ opened[n].view = NoView
      /\ Level(opened, n) = Level(tree, n)
      /\ Linked(opened, root) /\ Placed(opened, {})
      /\ Full(tree, {}) => Full(opened, {n})
  <2>1. opened = Opened(tree, n, vertical)
    BY DEF Opened
  <2> HIDE DEF n, opened
  <2> QED BY <2>1, <1>2, <1>3, OpenLemma
<1>6. CASE /\ tree' = [tree EXCEPT ![p].vertical = vertical]
           /\ UNCHANGED <<root, layer, vout, fault>>
  <2> HIDE DEF p
  <2>1. Sound(tree', root)
    BY <1>2, <1>3, <1>6, TurnLemma
  <2> QED BY <2>1, <1>6, TreeStep
<1>7. CASE \E kind \in Faults : Fault(kind)
  BY <1>7, FaultStep
<1>8. CASE /\ RoomBelow(tree, n)
           /\ tree' = Insert(opened, n, Fresh(tree), v)
           /\ UNCHANGED <<root, layer, vout, fault>>
  <2> HIDE DEF opened, n
  <2>1. Level(opened, n) < MaxLevel
    BY <1>4, <1>5, <1>8 DEF RoomBelow
  <2>2. Fresh(tree) \in Nodes \ DOMAIN opened
    BY <1>1, <1>5, FreshLemma
  <2>3. /\ Linked(tree', root) /\ Placed(tree', {})
        /\ Full(opened, {n}) => Full(tree', {})
    BY <2>1, <2>2, <1>2, <1>5, <1>8, InsertLemma
  <2>4. Sound(tree', root)
    BY <2>3, <1>3, <1>5 DEF Sound
  <2> QED BY <2>4, <1>8, TreeStep
<1>9. CASE /\ FALSE \in Fits
           /\ tree' = opened
           /\ UNCHANGED <<root, layer, vout, fault>>
  <2>1. Sound(tree', root)
    BY <1>5, <1>9 DEF Sound
  <2> QED BY <2>1, <1>9, TreeStep
<1>10. "bad path" \in Faults /\ "assert" \in Faults
  BY DEF Faults
<1> QED BY <1>6, <1>7, <1>8, <1>9, <1>10 DEF Split

LEMMA MergeStep ==
  ASSUME TInv, NEW v \in Views, Merge(v)
  PROVE  TInv'
<1> DEFINE n == Leaf(tree, v)
           p == tree[n].parent
           g == tree[p].parent
           rest == Erase(tree, n)
<1>1. n # NoNode /\ g # NoNode
  BY DEF Merge
<1>2. n \in DOMAIN tree /\ tree[n].view # NoView /\ p \in DOMAIN tree
  BY <1>1, LeafLemma
<1>3. Sound(tree, root) /\ Linked(tree, root) /\ Placed(tree, {})
  BY DEF TInv, Sound
<1>4. CASE \E kind \in Faults : Fault(kind)
  BY <1>4, FaultStep
<1>5. CASE /\ g \notin Erased(tree, n)
           /\ \E fits \in Fits :
                tree' = IF fits THEN Insert(rest, g, Fresh(rest), v) ELSE rest
           /\ UNCHANGED <<root, layer, vout, fault>>
  <2> HIDE DEF p
  <2>1. /\ g \in DOMAIN tree /\ tree[g].view = NoView
        /\ Level(tree, p) = Level(tree, g) + 1
    BY <1>1, <1>2, <1>3, ChildFacts
  <2>2. Level(tree, p) <= MaxLevel /\ Level(tree, g) \in Nat /\ MaxLevel \in Nat
    BY <2>1, <1>2, <1>3, NodeFacts, TilingAssumption DEF Related
  <2>3. Level(tree, g) < MaxLevel
    BY <2>1, <2>2
  <2> HIDE DEF n, g, rest
  <2>4. /\ DOMAIN rest = DOMAIN tree \ Erased(tree, n)
        /\ n \in Nodes \ DOMAIN rest
        /\ \A m \in DOMAIN rest : Level(rest, m) = Level(tree, m)
        /\ \A m \in DOMAIN rest : rest[m].view = tree[m].view
    BY <1>2, <1>3, EraseLemma DEF rest
  <2>5. Sound(rest, root)
    BY <1>2, <1>3, SoundErase DEF rest
  <2>6. g \in DOMAIN rest /\ rest[g].view = NoView /\ Level(rest, g) < MaxLevel
    BY <2>1, <2>3, <2>4, <1>5
  <2>7. Sound(Insert(rest, g, Fresh(rest), v), root)
    BY <2>4, <2>5, <2>6, SoundInsert
  <2>8. Sound(tree', root)
    BY <2>5, <2>7, <1>5
  <2> QED BY <2>8, <1>5, TreeStep
<1>6. "bad path" \in Faults /\ "freed node" \in Faults
  BY DEF Faults
<1> QED BY <1>4, <1>5, <1>6 DEF Merge

LEMMA ToggleStep ==
  ASSUME TInv, NEW v \in Views, Toggle(v)
  PROVE  TInv'
<1> DEFINE p == tree[Leaf(tree, v)].parent
<1>1. p \in DOMAIN tree
  BY LeafLemma DEF Toggle
<1>2. CASE Fault("bad path")
  BY <1>2, FaultStep DEF Faults
<1>3. CASE /\ tree' = [tree EXCEPT ![p].vertical = ~@]
           /\ UNCHANGED <<root, layer, vout, fault>>
  <2> HIDE DEF p
  <2>1. Sound(tree, root) /\ tree[p] \in NodeType
    BY <1>1, NodeFacts DEF TInv, Sound
  <2>2. (~tree[p].vertical) \in BOOLEAN
    OBVIOUS
  <2>3. tree' = [tree EXCEPT ![p].vertical = ~tree[p].vertical]
    BY <1>3
  <2>4. Sound(tree', root)
    BY <2>1, <2>2, <2>3, <1>1, TurnLemma
  <2> QED BY <2>4, <1>3, TreeStep
<1> QED BY <1>2, <1>3 DEF Toggle

LEMMA ResizeStep ==
  ASSUME TInv, NEW v \in Views, Resize(v)
  PROVE  TInv'
<1>1. CASE Fault("bad path")
  BY <1>1, FaultStep DEF Faults
<1>2. CASE \E P \in SUBSET DOMAIN tree :
             /\ tree' = Renumber(tree, P, TRUE)
             /\ UNCHANGED <<root, layer, vout, fault>>
  <2>1. PICK P \in SUBSET DOMAIN tree :
          /\ tree' = Renumber(tree, P, TRUE)
          /\ UNCHANGED <<root, layer, vout, fault>>
    BY <1>2
  <2>2. Linked(tree, root) /\ Placed(tree, P)
    BY DEF TInv, Sound, Placed
  <2>3. /\ Linked(tree', root) /\ Placed(tree', {})
        /\ Full(tree, {}) => Full(tree', {})
    BY <2>1, <2>2, RenumberLemma
  <2>4. Sound(tree', root)
    BY <2>3 DEF TInv, Sound
  <2> QED BY <2>1, <2>4, TreeStep
<1>3. CASE \E P \in SUBSET {p \in DOMAIN tree :
                                /\ p \in Ancestors(tree, Leaf(tree, v))
                                /\ Len(tree[p].kids) > 1} :
             /\ tree' = Renumber(tree, P, TRUE)
             /\ UNCHANGED <<root, layer, vout, fault>>
  BY <1>2, <1>3
<1> QED BY <1>1, <1>3 DEF Resize

(***************************************************************************)
(* The theorems                                                            *)
(***************************************************************************)

LEMMA CommandStep ==
  ASSUME TInv, NEW v \in Views, Command(v)
  PROVE  TInv'
<1>1. CASE CommandOnLostWindow(v)
  BY <1>1, FaultStep DEF CommandOnLostWindow, Faults
<1>2. CASE \E vertical \in BOOLEAN : Split(v, vertical)
  BY <1>2, SplitStep
<1> QED BY <1>1, <1>2, MergeStep, ToggleStep, ResizeStep DEF Command

LEMMA SteadyStep ==
  ASSUME TInv, SteadyNext
  PROVE  TInv'
<1>1. ASSUME NEW o \in Outputs, AddOutput(o) PROVE TInv'
  BY <1>1, AddOutputStep
<1>2. ASSUME NEW v \in Views, NEW o \in Outputs, Add(v, o) PROVE TInv'
  BY <1>2, AddStep
<1>3. ASSUME NEW v \in Views, NEW o \in Outputs, AssignOutput(v, o) PROVE TInv'
  <2>1. vout' \in [Views -> Outputs \cup {NoOutput}]
    BY <1>3 DEF AssignOutput, TInv
  <2>2. UNCHANGED <<tree, root, layer, fault>>
    BY <1>3 DEF AssignOutput
  <2>3. Sound(tree', root')
    BY <2>2 DEF TInv
  <2> QED BY <2>1, <2>2, <2>3 DEF TInv
<1>4. ASSUME NEW v \in Views, Focus(v) PROVE TInv'
  <2>1. layer' \in Seq(Views)
    <3>1. Without(layer, v) \in Seq(Views)
      BY WithoutLemma DEF TInv
    <3> QED BY <3>1, <1>4 DEF Focus
  <2>2. UNCHANGED <<tree, root, vout, fault>>
    BY <1>4 DEF Focus
  <2>3. Sound(tree', root')
    BY <2>2 DEF TInv
  <2> QED BY <2>1, <2>2, <2>3 DEF TInv
<1>5. ASSUME NEW v \in Views, Del(v) PROVE TInv'
  BY <1>5, DelStep
<1>6. ASSUME NEW v \in Views, Command(v) PROVE TInv'
  BY <1>6, CommandStep
<1> QED BY <1>1, <1>2, <1>3, <1>4, <1>5, <1>6 DEF SteadyNext

LEMMA Stutter ==
  ASSUME TInv, UNCHANGED vars
  PROVE  TInv'
<1>1. UNCHANGED <<tree, root, layer, vout, fault>>
  BY DEF vars
<1>2. Sound(tree', root')
  BY <1>1 DEF TInv
<1> QED BY <1>1, <1>2 DEF TInv

(* Whatever windows and screens come and go, and whatever commands are      *)
(* given, the trees of the tiling layout stay sound.                        *)
THEOREM Invariance == Spec => []TInv
<1>1. Init => TInv
  BY Initially
<1>2. TInv /\ [Next]_vars => TInv'
  <2>1. ASSUME TInv, NEW o \in Outputs, RemoveOutput(o) PROVE TInv'
    BY <2>1, RemoveOutputStep
  <2> QED BY <2>1, SteadyStep, Stutter DEF Next
<1> QED BY <1>1, <1>2, PTL DEF Spec

(* The same while no screen is unplugged. *)
THEOREM SteadyInvariance == SteadySpec => []TInv
<1>1. Init => TInv
  BY Initially
<1>2. TInv /\ [SteadyNext]_vars => TInv'
  BY SteadyStep, Stutter
<1> QED BY <1>1, <1>2, PTL DEF SteadySpec

(* The state has the types of the code, however many windows, screens and   *)
(* nodes there are.                                                         *)
THEOREM TypesOK == Spec => []TypeOK
<1>1. TInv => TypeOK
  BY DEF TInv, Sound, Linked, TypeOK
<1> QED BY <1>1, Invariance, PTL

(* Parent and child links agree, every tree hangs from its output's root, a *)
(* window is a leaf and no path outgrows its array: tiling_view_insert and  *)
(* the cascade of tiling_view_erase keep the trees well formed.             *)
THEOREM TreesAreWellFormed == Spec => []WellFormed
<1>1. ASSUME TInv PROVE WellFormed
  <2>1. \A n \in DOMAIN tree : Related(tree, root, n)
    BY <1>1 DEF TInv, Sound, Linked
  <2>2. Rooted(tree, root)
    BY <1>1 DEF TInv, Sound, Linked
  <2> QED BY <2>1, <2>2 DEF WellFormed, Related, Rooted
<1> QED BY <1>1, Invariance, PTL

(* The last index of a node's path is its place in its parent's row, so     *)
(* tiling_view_erase unlinks the child it means to.                         *)
THEOREM NodesAreInPlace == Spec => []OwnPlace
<1>1. ASSUME TInv PROVE OwnPlace
  <2>1. SUFFICES ASSUME NEW n \in DOMAIN tree, tree[n].parent # NoNode
                 PROVE  /\ Last(tree[n].coding) < Len(tree[tree[n].parent].kids)
                        /\ tree[tree[n].parent].kids[Last(tree[n].coding) + 1] = n
    BY DEF OwnPlace
  <2>2. Linked(tree, root) /\ InPlace(tree, n)
    BY <1>1, <2>1 DEF TInv, Sound, Placed
  <2>3. /\ tree[n].coding \in Seq(Nat) /\ Len(tree[n].coding) \in Nat \ {0}
        /\ tree[n].parent \in DOMAIN tree
    BY <2>1, <2>2, NodeFacts, ChildFacts
  <2>4. Last(tree[n].coding) \in Nat
    BY <2>3 DEF Last
  <2>5. Len(tree[tree[n].parent].kids) \in Nat
    BY <2>2, <2>3, NodeFacts
  <2> QED BY <2>2, <2>4, <2>5 DEF InPlace
<1> QED BY <1>1, Invariance, PTL

(* As long as every row has room for the window it is asked to take, the    *)
(* cascade of tiling_view_erase leaves no empty container behind, whatever  *)
(* the layout is asked to do while the screens stay, ...                    *)
THEOREM NoNodeIsHollow ==
  ASSUME FALSE \notin Fits PROVE SteadySpec => []NoHollowNode
<1>1. TInv => NoHollowNode
  BY DEF TInv, Sound, Full, NoHollowNode
<1> QED BY <1>1, SteadyInvariance, PTL

(* ... and when screens are unplugged.                                      *)
THEOREM NoNodeIsEverHollow ==
  ASSUME FALSE \notin Fits PROVE Spec => []NoHollowNode
<1>1. TInv => NoHollowNode
  BY DEF TInv, Sound, Full, NoHollowNode
<1> QED BY <1>1, Invariance, PTL

(***************************************************************************)
(* Sequences in a row                                                      *)
(***************************************************************************)

(* f adds up the first n sequences of s. *)
Sums(V, s, n, f) ==
  /\ f \in [0..n -> Seq(V)]
  /\ f[0] = <<>>
  /\ \A i \in 0..n-1 : f[i+1] = f[i] \o s[i+1]

LEMMA SumsExist ==
  ASSUME NEW V, NEW s \in Seq(Seq(V))
  PROVE  \E f : Sums(V, s, Len(s), f)
<1> DEFINE T == {n \in 0..Len(s) : \E f : Sums(V, s, n, f)}
<1>1. Len(s) \in Nat /\ \A i \in 1..Len(s) : s[i] \in Seq(V)
  OBVIOUS
<1>2. 0 \in T
  <2> DEFINE f == [i \in 0..0 |-> <<>>]
  <2>1. f \in [0..0 -> Seq(V)] /\ f[0] = <<>>
    OBVIOUS
  <2>2. Sums(V, s, 0, f)
    BY <2>1 DEF Sums
  <2> HIDE DEF f
  <2> QED BY <2>2, <1>1
<1>3. PICK n \in T : \A k \in T : k <= n
  <2>1. T \subseteq Nat /\ \A k \in T : k <= Len(s)
    BY <1>1
  <2> HIDE DEF T
  <2> QED BY <2>1, <1>1, <1>2, GreatestLemma
<1>4. n = Len(s)
  <2>1. SUFFICES ASSUME n < Len(s) PROVE FALSE
    BY <1>1, <1>3
  <2>2. PICK f : Sums(V, s, n, f)
    BY <1>3
  <2> DEFINE m == n+1
             g == [i \in 0..m |-> IF i = m THEN f[n] \o s[m] ELSE f[i]]
  <2>3. n \in Nat /\ m \in 1..Len(s) /\ n \in 0..n /\ m \in Nat /\ m - 1 = n /\ m # n
    BY <1>1, <1>3, <2>1
  <2>4. f[n] \in Seq(V) /\ s[m] \in Seq(V) /\ \A i \in 0..n : f[i] \in Seq(V)
    BY <1>1, <2>2, <2>3 DEF Sums
  <2>5. f[n] \o s[m] \in Seq(V)
    BY <2>4, ConcatProperties
  <2>12. \A i \in 0..m : i = m \/ i \in 0..n
    BY <2>3
  <2>13. \A i \in 0..n : i \in 0..m /\ i # m
    BY <2>3
  <2>14. m \in 0..m
    BY <2>3
  <2> HIDE DEF m
  <2>6. g \in [0..m -> Seq(V)]
    BY <2>4, <2>5, <2>12
  <2>7. g[m] = f[n] \o s[m] /\ \A i \in 0..n : g[i] = f[i]
    BY <2>13, <2>14
  <2> HIDE DEF g
  <2>8. ASSUME NEW i \in 0..m-1 PROVE g[i+1] = g[i] \o s[i+1]
    <3>1. CASE i = n
      <4>1. i+1 = m
        BY <3>1 DEF m
      <4> QED BY <4>1, <3>1, <2>3, <2>7
    <3>2. CASE i # n
      <4>1. i \in 0..n-1 /\ i \in 0..n /\ i+1 \in 0..n
        BY <3>2, <2>3
      <4> QED BY <4>1, <2>2, <2>7 DEF Sums
    <3> QED BY <3>1, <3>2
  <2>9. g[0] = <<>>
    BY <2>2, <2>3, <2>7 DEF Sums
  <2>10. Sums(V, s, m, g)
    BY <2>6, <2>8, <2>9 DEF Sums
  <2>11. m \in T
    BY <2>3, <2>10
  <2>15. m <= n
    BY <1>3, <2>11
  <2> QED BY <2>3, <2>15 DEF m
<1> QED BY <1>3, <1>4

(* FlattenSeq, which is defined by recursion, is the last of the sums. *)
LEMMA FlattenLemma ==
  ASSUME NEW V, NEW s \in Seq(Seq(V)), NEW f, Sums(V, s, Len(s), f)
  PROVE  FlattenSeq(s) = f[Len(s)] /\ FlattenSeq(s) \in Seq(V)
<1> DEFINE N == Len(s)
<1>1. N \in Nat /\ \A i \in 1..N : s[i] \in Seq(V)
  OBVIOUS
<1>2. f \in [0..N -> Seq(V)] /\ f[0] = <<>> /\ \A i \in 0..N-1 : f[i+1] = f[i] \o s[i+1]
  BY DEF Sums
<1>3. CASE N = 0
  <2>1. s = <<>>
    BY <1>3
  <2>2. FlattenSeq(s) = s
    BY <1>3 DEF FlattenSeq
  <2> QED BY <2>1, <2>2, <1>2, <1>3
<1>4. CASE N # 0
  <2> DEFINE Step(g) == [i \in 1..N |-> IF i = 1 THEN s[i] ELSE g[i-1] \o s[i]]
             e == [i \in 1..N |-> f[i]]
             flatten == CHOOSE g : g = Step(g)
  <2>1. FlattenSeq(s) = flatten[N]
    BY <1>4 DEF FlattenSeq
  <2>2. ASSUME NEW i \in 1..N
        PROVE  f[i] = IF i = 1 THEN s[i] ELSE f[i-1] \o s[i]
    <3>1. i-1 \in 0..N-1 /\ i-1+1 = i
      BY <1>1
    <3>2. f[i] = f[i-1] \o s[i]
      BY <3>1, <1>2
    <3>3. <<>> \o s[i] = s[i]
      BY <1>1, ConcatEmptySeq
    <3>4. CASE i = 1
      <4>1. f[i-1] = <<>>
        BY <3>4, <1>2
      <4> QED BY <4>1, <3>2, <3>3, <3>4
    <3>5. CASE i # 1
      BY <3>2, <3>5
    <3> QED BY <3>4, <3>5
  <2>3. e = Step(e)
    <3>1. ASSUME NEW i \in 1..N PROVE e[i] = IF i = 1 THEN s[i] ELSE e[i-1] \o s[i]
      <4>1. i # 1 => i-1 \in 1..N
        BY <1>1
      <4> QED BY <4>1, <2>2
    <3> QED BY <3>1
  <2>4. flatten = Step(flatten)
    <3> HIDE DEF Step, e
    <3>1. \E g : g = Step(g)
      BY <2>3
    <3> QED BY <3>1
  <2>5. \A i \in 1..N : flatten[i] = IF i = 1 THEN s[i] ELSE flatten[i-1] \o s[i]
    BY <2>4
  <2> HIDE DEF flatten
  <2>6. \A i \in 1..N : flatten[i] = f[i]
    <3> DEFINE S == {i \in 1..N : flatten[i] # f[i]}
    <3>1. SUFFICES ASSUME S # {} PROVE FALSE
      OBVIOUS
    <3>2. PICK m \in S : \A k \in S : m <= k
      <4>1. S \subseteq Nat
        OBVIOUS
      <4> HIDE DEF S
      <4> QED BY <3>1, <4>1, LeastLemma
    <3>3. m \in 1..N /\ flatten[m] # f[m]
      BY <3>2
    <3>4. m # 1
      BY <3>3, <2>2, <2>5
    <3>5. m-1 \in 1..N /\ m-1 \notin S
      BY <3>2, <3>3, <3>4
    <3>6. flatten[m-1] = f[m-1]
      BY <3>5
    <3> QED BY <3>3, <3>4, <3>6, <2>2, <2>5
  <2>7. N \in 1..N /\ N \in 0..N
    BY <1>1, <1>4
  <2> QED BY <2>1, <2>6, <2>7, <1>2
<1> QED BY <1>3, <1>4

LEMMA FlattenConcat ==
  ASSUME NEW V, NEW a \in Seq(Seq(V)), NEW b \in Seq(Seq(V))
  PROVE  /\ FlattenSeq(a) \in Seq(V) /\ FlattenSeq(b) \in Seq(V)
         /\ FlattenSeq(a \o b) = FlattenSeq(a) \o FlattenSeq(b)
<1> DEFINE A == Len(a)
           B == Len(b)
           c == a \o b
           C == A + B
<1>1. A \in Nat /\ B \in Nat
  OBVIOUS
<1>2. /\ c \in Seq(Seq(V)) /\ Len(c) = C
      /\ \A i \in 1..C : c[i] = IF i <= A THEN a[i] ELSE b[i-A]
  BY ConcatProperties
<1>3. PICK f : Sums(V, a, A, f)
  BY SumsExist
<1>4. PICK g : Sums(V, b, B, g)
  BY SumsExist
<1>5. /\ FlattenSeq(a) = f[A] /\ f[A] \in Seq(V)
      /\ FlattenSeq(b) = g[B] /\ g[B] \in Seq(V)
  BY <1>3, <1>4, FlattenLemma
<1>18. \A i \in 1..B : b[i] \in Seq(V)
  OBVIOUS
<1>6. /\ f \in [0..A -> Seq(V)] /\ f[0] = <<>>
      /\ \A i \in 0..A-1 : f[i+1] = f[i] \o a[i+1]
  BY <1>3 DEF Sums
<1>7. /\ g \in [0..B -> Seq(V)] /\ g[0] = <<>>
      /\ \A i \in 0..B-1 : g[i+1] = g[i] \o b[i+1]
  BY <1>4 DEF Sums
<1> DEFINE h == [i \in 0..C |-> IF i <= A THEN f[i] ELSE f[A] \o g[i-A]]
<1> HIDE DEF A, B, c
<1>8. \A i \in 0..A : i \in 0..C /\ h[i] = f[i]
  BY <1>1
<1>9. ASSUME NEW j \in 0..B PROVE A + j \in 0..C /\ h[A+j] = f[A] \o g[j]
  <2>1. A + j \in 0..C /\ A + j - A = j
    BY <1>1
  <2>2. CASE j = 0
    <3>1. A + j = A /\ A \in 0..A
      BY <2>2, <1>1
    <3>2. f[A] \o <<>> = f[A]
      BY <1>5, ConcatEmptySeq
    <3>3. h[A] = f[A]
      BY <3>1, <1>8
    <3> QED BY <2>1, <2>2, <3>1, <3>2, <3>3, <1>7
  <2>3. CASE j # 0
    <3>1. ~(A + j <= A)
      BY <2>3, <1>1
    <3> DEFINE k == A + j
    <3>2. k \in 0..C /\ ~(k <= A) /\ k - A = j
      BY <2>1, <3>1, <1>1
    <3> HIDE DEF k, C
    <3>3. h[k] = f[A] \o g[k-A]
      BY <3>2
    <3>4. h[k] = f[A] \o g[j]
      BY <3>2, <3>3
    <3> QED BY <2>1, <3>4 DEF k
  <2> QED BY <2>2, <2>3
<1>10. \A i \in 0..C : i \in 0..A \/ \E j \in 0..B : i = A + j
  <2>1. ASSUME NEW i \in 0..C, i \notin 0..A PROVE i - A \in 0..B /\ i = A + (i - A)
    BY <2>1, <1>1
  <2> QED BY <2>1
<1>11. \A j \in 0..B : f[A] \o g[j] \in Seq(V)
  BY <1>5, <1>7, ConcatProperties
<1>12. h \in [0..C -> Seq(V)]
  <2>1. \A i \in 0..C : h[i] \in Seq(V)
    <3> HIDE DEF h, C
    <3> QED BY <1>6, <1>8, <1>9, <1>10, <1>11
  <2>2. h = [i \in 0..C |-> h[i]]
    OBVIOUS
  <2> HIDE DEF h
  <2> QED BY <2>1, <2>2
<1>13. h[0] = <<>>
  <2>1. 0 \in 0..A
    BY <1>1
  <2> HIDE DEF h
  <2> QED BY <2>1, <1>6, <1>8
<1> HIDE DEF h
<1>14. ASSUME NEW i \in 0..C-1 PROVE h[i+1] = h[i] \o c[i+1]
  <2>1. CASE i < A
    <3>1. i \in 0..A-1 /\ i \in 0..A /\ i+1 \in 0..A /\ i+1 \in 1..C /\ i+1 <= A
      BY <2>1, <1>1
    <3> QED BY <3>1, <1>2, <1>6, <1>8
  <2>2. CASE ~(i < A)
    <3> DEFINE j == i - A
    <3>1. /\ j \in 0..B-1 /\ j \in 0..B /\ j+1 \in 0..B /\ i = A + j /\ i+1 = A + (j+1)
          /\ i+1 \in 1..C /\ ~(i+1 <= A) /\ i+1-A = j+1 /\ j+1 \in 1..B
      BY <2>2, <1>1
    <3> HIDE DEF j
    <3>2. c[i+1] = b[j+1] /\ b[j+1] \in Seq(V)
      <4> DEFINE k == i + 1
                 l == j + 1
      <4>1. k \in 1..C /\ ~(k <= A) /\ k - A = l /\ l \in 1..B
        BY <3>1, <1>1
      <4> HIDE DEF k, l, C
      <4>2. c[k] = b[k-A]
        BY <4>1, <1>2
      <4> QED BY <4>1, <4>2, <1>18 DEF k, l
    <3>3. h[i] = f[A] \o g[j] /\ h[i+1] = f[A] \o g[j+1]
      BY <3>1, <1>9
    <3>4. g[j+1] = g[j] \o b[j+1] /\ g[j] \in Seq(V)
      BY <3>1, <1>7
    <3>5. f[A] \o (g[j] \o b[j+1]) = (f[A] \o g[j]) \o b[j+1]
      <4> DEFINE x == f[A]
                 y == g[j]
                 z == b[j+1]
      <4>1. x \in Seq(V) /\ y \in Seq(V) /\ z \in Seq(V)
        BY <3>2, <3>4, <1>5
      <4> HIDE DEF x, y, z
      <4>2. x \o (y \o z) = (x \o y) \o z
        BY <4>1, ConcatAssociative
      <4> QED BY <4>2 DEF x, y, z
    <3> QED BY <3>2, <3>3, <3>4, <3>5
  <2> QED BY <2>1, <2>2
<1>15. Sums(V, c, C, h)
  BY <1>12, <1>13, <1>14 DEF Sums
<1>16. FlattenSeq(c) = h[C]
  <2> HIDE DEF C
  <2> QED BY <1>2, <1>15, FlattenLemma
<1>17. h[C] = f[A] \o g[B]
  <2>1. B \in 0..B
    BY <1>1
  <2> QED BY <2>1, <1>9
<1> QED BY <1>5, <1>16, <1>17 DEF c

LEMMA FlattenFew ==
  /\ FlattenSeq(<<>>) = <<>>
  /\ \A V : \A x \in Seq(V) : FlattenSeq(<<x>>) = x
<1>1. FlattenSeq(<<>>) = <<>>
  <2>1. Len(<<>>) = 0
    OBVIOUS
  <2> QED BY <2>1 DEF FlattenSeq
<1>2. ASSUME NEW V, NEW x \in Seq(V) PROVE FlattenSeq(<<x>>) = x
  <2> DEFINE s == <<x>>
             f == [i \in 0..1 |-> IF i = 0 THEN <<>> ELSE x]
  <2>1. s \in Seq(Seq(V)) /\ Len(s) = 1 /\ s[1] = x
    OBVIOUS
  <2> HIDE DEF s
  <2>2. f \in [0..1 -> Seq(V)] /\ f[0] = <<>> /\ f[1] = x
    OBVIOUS
  <2> HIDE DEF f
  <2>3. <<>> \o x = x
    BY ConcatEmptySeq
  <2>4. \A i \in 0..1-1 : f[i+1] = f[i] \o s[i+1]
    BY <2>1, <2>2, <2>3
  <2>5. Sums(V, s, Len(s), f)
    BY <2>1, <2>2, <2>4 DEF Sums
  <2> QED BY <2>1, <2>2, <2>5, FlattenLemma DEF s
<1> QED BY <1>1, <1>2

(* A sequence is what comes before its i-th element, that, and the rest. *)
LEMMA SplitLemma ==
  ASSUME NEW A, NEW s \in Seq(A), NEW i \in 1..Len(s)
  PROVE  LET a == SubSeq(s, 1, i-1)
             b == SubSeq(s, i+1, Len(s))
         IN  /\ a \in Seq(A) /\ b \in Seq(A)
             /\ Len(a) = i-1 /\ \A j \in 1..i-1 : a[j] = s[j]
             /\ Len(b) = Len(s)-i /\ \A j \in 1..Len(s)-i : b[j] = s[i+j]
             /\ s = (a \o <<s[i]>>) \o b
<1> DEFINE a == SubSeq(s, 1, i-1)
           b == SubSeq(s, i+1, Len(s))
           m == <<s[i]>>
           c == a \o m
<1>1. a \in Seq(A) /\ Len(a) = i-1 /\ \A j \in 1..i-1 : a[j] = s[j]
  OBVIOUS
<1>2. b \in Seq(A) /\ Len(b) = Len(s)-i /\ \A j \in 1..Len(s)-i : b[j] = s[i+j]
  OBVIOUS
<1>3. m \in Seq(A) /\ Len(m) = 1 /\ m[1] = s[i]
  OBVIOUS
<1>4. Len(s) \in Nat /\ i \in Nat /\ i >= 1 /\ i <= Len(s)
  OBVIOUS
<1> HIDE DEF a, b, m
<1>5. /\ c \in Seq(A) /\ Len(c) = Len(a) + Len(m)
      /\ \A j \in 1..Len(a)+Len(m) : c[j] = IF j <= Len(a) THEN a[j] ELSE m[j-Len(a)]
  BY <1>1, <1>3, ConcatProperties
<1> HIDE DEF c
<1>6. Len(c) = i /\ \A j \in 1..i : c[j] = s[j]
  <2>1. Len(c) = i
    BY <1>1, <1>3, <1>4, <1>5
  <2>2. ASSUME NEW j \in 1..i PROVE c[j] = s[j]
    <3>1. CASE j = i
      <4>1. j \in 1..Len(a)+Len(m) /\ ~(j <= Len(a)) /\ j - Len(a) = 1
        BY <3>1, <1>1, <1>3, <1>4
      <4> QED BY <4>1, <3>1, <1>3, <1>5
    <3>2. CASE j # i
      <4>1. j \in 1..Len(a)+Len(m) /\ j <= Len(a) /\ j \in 1..i-1
        BY <3>2, <1>1, <1>3, <1>4
      <4> QED BY <4>1, <1>1, <1>5
    <3> QED BY <3>1, <3>2
  <2> QED BY <2>1, <2>2
<1>7. /\ c \o b \in Seq(A) /\ Len(c \o b) = Len(c) + Len(b)
      /\ \A j \in 1..Len(c)+Len(b) :
           (c \o b)[j] = IF j <= Len(c) THEN c[j] ELSE b[j-Len(c)]
  <2>1. c \in Seq(A) /\ b \in Seq(A)
    BY <1>2, <1>5
  <2> QED BY <2>1, ConcatProperties
<1>8. ASSUME NEW j \in 1..Len(s) PROVE (c \o b)[j] = s[j]
  <2>1. j \in 1..Len(c)+Len(b)
    BY <1>2, <1>4, <1>6
  <2>2. CASE j <= i
    <3>1. j \in 1..i
      BY <2>2, <1>4
    <3> QED BY <2>1, <2>2, <3>1, <1>6, <1>7
  <2>3. CASE ~(j <= i)
    <3> DEFINE k == j - i
    <3>1. k \in 1..Len(s)-i /\ i + k = j
      BY <2>3, <1>4
    <3>2. (c \o b)[j] = b[k]
      BY <2>1, <2>3, <1>6, <1>7
    <3> HIDE DEF k
    <3> QED BY <3>1, <3>2, <1>2
  <2> QED BY <2>2, <2>3
<1>9. Len(c \o b) = Len(s)
  BY <1>2, <1>4, <1>6, <1>7
<1>10. s = c \o b
  BY <1>7, <1>8, <1>9, SeqEqual
<1> QED BY <1>1, <1>2, <1>10 DEF a, b, m, c

(* y is x with v somewhere in it. *)
Slipped(V, x, y, v) ==
  \E p, q \in Seq(V) : x = p \o q /\ y = (p \o <<v>>) \o q

(* One more sequence in front. *)
LEMMA FlattenHead ==
  ASSUME NEW V, NEW x \in Seq(V), NEW s \in Seq(Seq(V))
  PROVE  FlattenSeq(<<x>> \o s) = x \o FlattenSeq(s)
<1> DEFINE m == <<x>>
<1>1. m \in Seq(Seq(V)) /\ FlattenSeq(m) = x
  BY FlattenFew
<1> HIDE DEF m
<1>2. FlattenSeq(m \o s) = x \o FlattenSeq(s)
  BY <1>1, FlattenConcat
<1> QED BY <1>2 DEF m

(* The i-th sequence in the midst of the others. *)
LEMMA FlattenSplit ==
  ASSUME NEW V, NEW s \in Seq(Seq(V)), NEW i \in 1..Len(s)
  PROVE  LET a == FlattenSeq(SubSeq(s, 1, i-1))
             b == FlattenSeq(SubSeq(s, i+1, Len(s)))
         IN  /\ a \in Seq(V) /\ b \in Seq(V)
             /\ FlattenSeq(s) = (a \o s[i]) \o b
             /\ FlattenSeq(RemoveAt(s, i)) = a \o b
<1> DEFINE a == SubSeq(s, 1, i-1)
           b == SubSeq(s, i+1, Len(s))
           m == <<s[i]>>
<1>1. a \in Seq(Seq(V)) /\ b \in Seq(Seq(V)) /\ s = (a \o m) \o b
  BY SplitLemma
<1>2. s[i] \in Seq(V)
  OBVIOUS
<1>3. m \in Seq(Seq(V)) /\ FlattenSeq(m) = s[i]
  BY <1>2, FlattenFew
<1>4. RemoveAt(s, i) = a \o b
  BY DEF RemoveAt
<1> HIDE DEF a, b, m
<1>5. a \o m \in Seq(Seq(V)) /\ FlattenSeq(a \o m) = FlattenSeq(a) \o s[i]
  BY <1>1, <1>3, FlattenConcat, ConcatProperties
<1>6. FlattenSeq((a \o m) \o b) = FlattenSeq(a \o m) \o FlattenSeq(b)
  BY <1>1, <1>5, FlattenConcat
<1>7. FlattenSeq(a) \in Seq(V) /\ FlattenSeq(b) \in Seq(V)
      /\ FlattenSeq(a \o b) = FlattenSeq(a) \o FlattenSeq(b)
  BY <1>1, FlattenConcat
<1> QED BY <1>1, <1>4, <1>5, <1>6, <1>7 DEF a, b

(* Leaving out an empty sequence makes no difference. *)
LEMMA FlattenGap ==
  ASSUME NEW V, NEW s \in Seq(Seq(V)), NEW i \in 1..Len(s), s[i] = <<>>
  PROVE  FlattenSeq(RemoveAt(s, i)) = FlattenSeq(s)
<1> DEFINE a == FlattenSeq(SubSeq(s, 1, i-1))
           b == FlattenSeq(SubSeq(s, i+1, Len(s)))
<1>1. /\ a \in Seq(V) /\ b \in Seq(V) /\ FlattenSeq(s) = (a \o s[i]) \o b
      /\ FlattenSeq(RemoveAt(s, i)) = a \o b
  BY FlattenSplit
<1> HIDE DEF a, b
<1>2. a \o <<>> = a
  BY <1>1, ConcatEmptySeq
<1> QED BY <1>1, <1>2

(* Concatenation as a name of its own keeps the provers from looking into   *)
(* the sequences where only the brackets move.                              *)
Join(x, y) == x \o y

LEMMA JoinLemma ==
  ASSUME NEW V, NEW x \in Seq(V), NEW y \in Seq(V)
  PROVE  Join(x, y) \in Seq(V)
BY ConcatProperties DEF Join

LEMMA JoinAssociative ==
  ASSUME NEW V, NEW x \in Seq(V), NEW y \in Seq(V), NEW z \in Seq(V)
  PROVE  Join(Join(x, y), z) = Join(x, Join(y, z))
BY ConcatAssociative DEF Join

(* Moving the brackets out of the middle. *)
LEMMA Brackets ==
  ASSUME NEW V, NEW a \in Seq(V), NEW p \in Seq(V), NEW m \in Seq(V),
         NEW q \in Seq(V), NEW b \in Seq(V)
  PROVE  /\ Join(Join(a, Join(p, q)), b) = Join(Join(a, p), Join(q, b))
         /\ Join(Join(a, Join(Join(p, m), q)), b) = Join(Join(Join(a, p), m), Join(q, b))
<1>1. Join(a, p) \in Seq(V) /\ Join(p, m) \in Seq(V)
  BY JoinLemma
<1>2. Join(Join(a, p), m) \in Seq(V) /\ Join(a, p) \in Seq(V)
  BY <1>1, JoinLemma
<1>3. /\ Join(a, Join(p, q)) = Join(Join(a, p), q)
      /\ Join(Join(Join(a, p), q), b) = Join(Join(a, p), Join(q, b))
  BY <1>1, JoinAssociative
<1>4. /\ Join(a, Join(Join(p, m), q)) = Join(Join(a, Join(p, m)), q)
      /\ Join(a, Join(p, m)) = Join(Join(a, p), m)
      /\ Join(Join(Join(Join(a, p), m), q), b) = Join(Join(Join(a, p), m), Join(q, b))
  BY <1>1, <1>2, JoinAssociative
<1> QED BY <1>3, <1>4

(* What slips into a sequence slips into any that has it inside. *)
LEMMA SlipInside ==
  ASSUME NEW V, NEW v \in V, NEW a \in Seq(V), NEW b \in Seq(V), NEW x, NEW y,
         Slipped(V, x, y, v)
  PROVE  Slipped(V, (a \o x) \o b, (a \o y) \o b, v)
<1>1. PICK p \in Seq(V), q \in Seq(V) : x = p \o q /\ y = (p \o <<v>>) \o q
  BY DEF Slipped
<1> DEFINE m == <<v>>
<1>2. m \in Seq(V)
  OBVIOUS
<1> HIDE DEF m
<1>3. Join(a, p) \in Seq(V) /\ Join(q, b) \in Seq(V)
  BY JoinLemma
<1>4. /\ Join(Join(a, Join(p, q)), b) = Join(Join(a, p), Join(q, b))
      /\ Join(Join(a, Join(Join(p, m), q)), b) = Join(Join(Join(a, p), m), Join(q, b))
  BY <1>2, Brackets
<1>5. /\ (a \o x) \o b = (a \o p) \o (q \o b)
      /\ (a \o y) \o b = ((a \o p) \o <<v>>) \o (q \o b)
  BY <1>1, <1>4 DEF Join, m
<1> QED BY <1>3, <1>5 DEF Slipped, Join

(* What slips into one sequence slips into the whole row. *)
LEMMA FlattenSlip ==
  ASSUME NEW V, NEW v \in V, NEW s \in Seq(Seq(V)), NEW t \in Seq(Seq(V)),
         Len(s) = Len(t), NEW i \in 1..Len(s),
         \A j \in 1..Len(s) : j # i => s[j] = t[j],
         Slipped(V, s[i], t[i], v)
  PROVE  Slipped(V, FlattenSeq(s), FlattenSeq(t), v)
<1> DEFINE sa == SubSeq(s, 1, i-1)
           ta == SubSeq(t, 1, i-1)
           sb == SubSeq(s, i+1, Len(s))
           tb == SubSeq(t, i+1, Len(t))
<1>1. sa = ta
  <2>1. sa \in Seq(Seq(V)) /\ Len(sa) = i-1 /\ \A j \in 1..i-1 : sa[j] = s[j]
    BY SplitLemma
  <2>2. ta \in Seq(Seq(V)) /\ Len(ta) = i-1 /\ \A j \in 1..i-1 : ta[j] = t[j]
    BY SplitLemma
  <2>3. \A j \in 1..i-1 : j \in 1..Len(s) /\ j # i
    OBVIOUS
  <2> HIDE DEF sa, ta
  <2> QED BY <2>1, <2>2, <2>3, SeqEqual
<1>2. sb = tb
  <2>1. /\ sb \in Seq(Seq(V)) /\ Len(sb) = Len(s)-i
        /\ \A j \in 1..Len(s)-i : sb[j] = s[i+j]
    BY SplitLemma
  <2>2. /\ tb \in Seq(Seq(V)) /\ Len(tb) = Len(s)-i
        /\ \A j \in 1..Len(s)-i : tb[j] = t[i+j]
    BY SplitLemma
  <2>3. \A j \in 1..Len(s)-i : i+j \in 1..Len(s) /\ i+j # i
    OBVIOUS
  <2> HIDE DEF sb, tb
  <2>4. \A j \in 1..Len(s)-i : sb[j] = tb[j]
    BY <2>1, <2>2, <2>3
  <2> QED BY <2>1, <2>2, <2>4, SeqEqual
<1> DEFINE a == FlattenSeq(sa)
           b == FlattenSeq(sb)
<1>3. /\ a \in Seq(V) /\ b \in Seq(V) /\ FlattenSeq(s) = (a \o s[i]) \o b
  BY FlattenSplit
<1>4. FlattenSeq(t) = (a \o t[i]) \o b
  <2>1. FlattenSeq(t) = (FlattenSeq(ta) \o t[i]) \o FlattenSeq(tb)
    BY FlattenSplit
  <2> QED BY <2>1, <1>1, <1>2
<1> HIDE DEF a, b
<1>5. Slipped(V, (a \o s[i]) \o b, (a \o t[i]) \o b, v)
  BY <1>3, SlipInside
<1> QED BY <1>3, <1>4, <1>5

(* Taking a concatenation apart again. *)
LEMMA CutConcat ==
  ASSUME NEW V, NEW p \in Seq(V), NEW q \in Seq(V)
  PROVE  /\ SubSeq(p \o q, 1, Len(p)) = p
         /\ SubSeq(p \o q, Len(p) + 1, Len(p \o q)) = q
         /\ Len(p \o q) = Len(p) + Len(q)
<1> DEFINE z == p \o q
           n == Len(p)
           k == Len(q)
           a == SubSeq(z, 1, n)
           b == SubSeq(z, n+1, n+k)
<1>1. n \in Nat /\ k \in Nat
  OBVIOUS
<1>2. /\ z \in Seq(V) /\ Len(z) = n + k
      /\ \A j \in 1..n+k : z[j] = IF j <= n THEN p[j] ELSE q[j-n]
  BY ConcatProperties
<1>3. \A j \in 1..n+k : z[j] \in V
  BY <1>2
<1> HIDE DEF z
<1>4. a \in Seq(V) /\ Len(a) = n /\ \A j \in 1..n : a[j] = z[j]
  <2>1. \A j \in 1..n : z[j] \in V
    BY <1>1, <1>3
  <2> QED BY <1>1, <2>1, SubSeqProperties
<1>5. b \in Seq(V) /\ Len(b) = k /\ \A j \in 1..k : b[j] = z[n+j]
  <2>1. \A j \in n+1..n+k : z[j] \in V
    BY <1>1, <1>3
  <2>2. /\ b \in Seq(V) /\ Len(b) = (IF n+1 <= n+k THEN (n+k)-(n+1)+1 ELSE 0)
        /\ \A j \in 1..(n+k)-(n+1)+1 : b[j] = z[(n+1)+j-1]
    BY <1>1, <2>1, SubSeqProperties
  <2> HIDE DEF b
  <2>3. Len(b) = k
    BY <1>1, <2>2
  <2>4. \A j \in 1..k : j \in 1..(n+k)-(n+1)+1 /\ (n+1)+j-1 = n+j
    BY <1>1
  <2> QED BY <2>2, <2>3, <2>4
<1> HIDE DEF a, b
<1>6. \A j \in 1..n : j \in 1..n+k /\ j <= n
  BY <1>1
<1>7. \A j \in 1..k : n+j \in 1..n+k /\ ~(n+j <= n) /\ (n+j)-n = j
  BY <1>1
<1>8. a = p
  <2>1. \A j \in 1..n : a[j] = p[j]
    BY <1>2, <1>4, <1>6
  <2> QED BY <1>4, <2>1, SeqEqual
<1>9. b = q
  <2>1. \A j \in 1..k : b[j] = q[j]
    BY <1>2, <1>5, <1>7
  <2> QED BY <1>5, <2>1, SeqEqual
<1> QED BY <1>2, <1>8, <1>9 DEF a, b, z

(* Where v slipped in, it can be taken out, and it was inserted there.      *)
LEMMA SlipLemma ==
  ASSUME NEW V, NEW v \in V, NEW x, NEW y, Slipped(V, x, y, v)
  PROVE  /\ x \in Seq(V) /\ y \in Seq(V) /\ Len(y) = Len(x) + 1
         /\ \E i \in 1..Len(y) :
              y[i] = v /\ RemoveAt(y, i) = x /\ InsertAt(x, i, v) = y
<1>1. PICK p \in Seq(V), q \in Seq(V) : x = p \o q /\ y = (p \o <<v>>) \o q
  BY DEF Slipped
<1> DEFINE m == <<v>>
           c == p \o m
           d == m \o q
           i == Len(p) + 1
<1>2. m \in Seq(V) /\ Len(m) = 1 /\ m[1] = v
  OBVIOUS
<1> HIDE DEF m
<1>3. /\ c \in Seq(V) /\ Len(c) = i /\ c[i] = v
  <2>1. /\ c \in Seq(V) /\ Len(c) = Len(p) + Len(m)
        /\ \A j \in 1..Len(p)+Len(m) : c[j] = IF j <= Len(p) THEN p[j] ELSE m[j-Len(p)]
    BY <1>2, ConcatProperties
  <2>2. Len(p) \in Nat /\ i \in 1..Len(p)+Len(m) /\ ~(i <= Len(p)) /\ i - Len(p) = 1
    BY <1>2
  <2> HIDE DEF c, i
  <2>3. c[i] = v
    BY <1>2, <2>1, <2>2
  <2> QED BY <1>2, <2>1, <2>3 DEF i
<1>4. d \in Seq(V)
  BY <1>2, ConcatProperties
<1>5. x \in Seq(V) /\ SubSeq(x, 1, i-1) = p /\ SubSeq(x, i, Len(x)) = q
      /\ Len(x) = Len(p) + Len(q)
  <2>1. i-1 = Len(p)
    OBVIOUS
  <2>2. x \in Seq(V)
    BY <1>1, ConcatProperties
  <2> QED BY <1>1, <2>1, <2>2, CutConcat
<1>6. y = c \o q
  BY <1>1 DEF m
<1>7. y = p \o d
  <2> HIDE DEF d
  <2>1. Join(Join(p, m), q) = Join(p, Join(m, q))
    BY <1>2, JoinAssociative
  <2> QED BY <1>6, <2>1 DEF Join, d
<1> HIDE DEF c, d
<1>8. SubSeq(y, i+1, Len(y)) = q /\ Len(y) = i + Len(q)
  <2>1. c \in Seq(V) /\ Len(c) = i
    BY <1>3
  <2> HIDE DEF i
  <2>2. SubSeq(y, Len(c)+1, Len(y)) = q /\ Len(y) = Len(c) + Len(q)
    BY <1>6, <2>1, CutConcat
  <2> QED BY <2>1, <2>2
<1>9. SubSeq(y, 1, i-1) = p
  <2>1. i-1 = Len(p)
    OBVIOUS
  <2> HIDE DEF i
  <2> QED BY <1>4, <1>7, <2>1, CutConcat
<1>10. y \in Seq(V)
  BY <1>3, <1>6, ConcatProperties
<1>11. y[i] = v
  <2>1. Len(c) \in Nat /\ Len(q) \in Nat /\ i \in 1..Len(c)+Len(q) /\ i <= Len(c)
    BY <1>3
  <2>2. \A j \in 1..Len(c)+Len(q) : (c \o q)[j] = IF j <= Len(c) THEN c[j] ELSE q[j-Len(c)]
    BY <1>3, ConcatProperties
  <2> HIDE DEF i
  <2>3. (c \o q)[i] = c[i]
    BY <2>1, <2>2
  <2> QED BY <2>3, <1>3, <1>6
<1>12. i \in 1..Len(y) /\ Len(y) = Len(x) + 1
  BY <1>5, <1>8
<1>13. RemoveAt(y, i) = x
  BY <1>1, <1>8, <1>9 DEF RemoveAt
<1>14. InsertAt(x, i, v) = y
  BY <1>1, <1>5 DEF InsertAt
<1> HIDE DEF i
<1> QED BY <1>5, <1>10, <1>11, <1>12, <1>13, <1>14

(***************************************************************************)
(* The row of windows below a node                                         *)
(***************************************************************************)

Images(s, R) == [i \in 1..Len(s) |-> R[s[i]]]

(* What the row below node n is made of. *)
Line(t, v, R, n) ==
  IF t[n].view = NoView
  THEN FlattenSeq(Images(t[n].kids, R))
  ELSE IF t[n].view = v THEN <<>> ELSE <<t[n].view>>

(* What passes from all children of a node to the node holds of all nodes.  *)
LEMMA BottomUp ==
  ASSUME NEW t, NEW r, Linked(t, r), NEW S,
         \A m \in DOMAIN t : Kids(t, m) \subseteq S => m \in S
  PROVE  DOMAIN t \subseteq S
<1> DEFINE D == {m \in DOMAIN t : m \notin S}
           L == {Level(t, m) : m \in D}
<1>1. SUFFICES ASSUME D # {} PROVE FALSE
  OBVIOUS
<1>2. \A m \in DOMAIN t : Level(t, m) \in Nat /\ Level(t, m) <= MaxLevel
  BY NodeFacts DEF Related
<1>3. L # {} /\ L \subseteq Nat /\ \A k \in L : k <= MaxLevel
  BY <1>1, <1>2
<1>4. MaxLevel \in Nat
  BY TilingAssumption
<1> HIDE DEF L
<1>5. PICK b \in L : \A k \in L : k <= b
  BY <1>3, <1>4, GreatestLemma
<1>6. PICK m \in D : Level(t, m) = b
  BY <1>5 DEF L
<1>7. ASSUME NEW k \in Kids(t, m) PROVE k \in S
  <2>1. k \in DOMAIN t /\ Level(t, k) = Level(t, m) + 1
    BY NodeFacts, <1>6 DEF Related
  <2>2. CASE k \in D
    <3>1. Level(t, k) <= Level(t, m)
      BY <2>2, <1>5, <1>6 DEF L
    <3> QED BY <3>1, <2>1, <1>2, <1>6
  <2> QED BY <2>1, <2>2
<1> QED BY <1>6, <1>7

LEMMA ImagesLemma ==
  ASSUME NEW A, NEW s, Len(s) \in Nat, NEW R, \A k \in Members(s) : R[k] \in A
  PROVE  /\ Images(s, R) \in Seq(A)
         /\ Len(Images(s, R)) = Len(s)
         /\ \A i \in 1..Len(s) : Images(s, R)[i] = R[s[i]]
BY DEF Images, Members

(* The line of a node depends on its window, its children and their rows.   *)
LEMMA LineLocal ==
  ASSUME NEW t, NEW u, NEW v, NEW n, NEW R, NEW Q,
         u[n].view = t[n].view, u[n].kids = t[n].kids,
         \A k \in Kids(t, n) : R[k] = Q[k]
  PROVE  Line(t, v, R, n) = Line(u, v, Q, n)
<1>1. Images(t[n].kids, R) = Images(u[n].kids, Q)
  BY DEF Images, Kids
<1> QED BY <1>1 DEF Line

LEMMA LineType ==
  ASSUME NEW t, NEW r, Linked(t, r), NEW v, NEW n \in DOMAIN t,
         NEW R, \A k \in Kids(t, n) : R[k] \in Seq(Views \ {v})
  PROVE  Line(t, v, R, n) \in Seq(Views \ {v})
<1> DEFINE A == Views \ {v}
<1>1. t[n].view \in Views \cup {NoView} /\ Len(t[n].kids) \in Nat
  BY NodeFacts DEF NodeType
<1> HIDE DEF A
<1>2. Images(t[n].kids, R) \in Seq(Seq(A))
  BY <1>1, ImagesLemma DEF Members, Kids, A
<1>3. FlattenSeq(Images(t[n].kids, R)) \in Seq(A)
  <2>1. <<>> \in Seq(Seq(A))
    OBVIOUS
  <2> QED BY <2>1, <1>2, FlattenConcat
<1>4. t[n].view \in A => <<t[n].view>> \in Seq(A)
  OBVIOUS
<1>5. <<>> \in Seq(A)
  OBVIOUS
<1>6. t[n].view = NoView \/ t[n].view = v \/ t[n].view \in A
  BY <1>1 DEF A
<1> QED BY <1>3, <1>4, <1>5, <1>6 DEF Line, A

(* The recursive definition of the rows has a solution.                     *)
LEMMA RowsExist ==
  ASSUME NEW t, NEW r, Linked(t, r), NEW v
  PROVE  \E R : R = [n \in DOMAIN t |-> Line(t, v, R, n)]
<1> DEFINE D == DOMAIN t
           T == {l \in Nat : \E R \in [D -> Seq(Views \ {v})] :
                               \A n \in D : Level(t, n) >= l => R[n] = Line(t, v, R, n)}
<1>1. \A n \in D : Level(t, n) \in Nat /\ Level(t, n) <= MaxLevel
  BY NodeFacts DEF Related
<1> DEFINE top == MaxLevel + 1
<1>2. top \in T
  <2> DEFINE R == [n \in D |-> <<>>]
  <2>1. R \in [D -> Seq(Views \ {v})]
    OBVIOUS
  <2>2. MaxLevel \in Nat
    BY TilingAssumption
  <2>3. top \in Nat /\ \A n \in D : ~(Level(t, n) >= top)
    BY <1>1, <2>2
  <2> HIDE DEF R, top
  <2> QED BY <2>1, <2>3
<1>3. PICK l \in T : \A k \in T : l <= k
  BY <1>2, LeastLemma
<1>4. PICK R \in [D -> Seq(Views \ {v})] :
        \A n \in D : Level(t, n) >= l => R[n] = Line(t, v, R, n)
  BY <1>3
<1>5. \A n \in D : \A k \in Kids(t, n) : k \in D /\ Level(t, k) = Level(t, n) + 1
  BY NodeFacts DEF Related
<1>6. CASE l = 0
  <2>1. \A n \in D : R[n] = Line(t, v, R, n)
    BY <1>1, <1>4, <1>6
  <2> QED BY <2>1
<1>7. CASE l # 0
  <2> DEFINE j == l - 1
             Q == [n \in D |-> Line(t, v, R, n)]
  <2>1. j \in Nat /\ j + 1 = l /\ ~(l <= j) /\ l \in Nat
    BY <1>3, <1>7
  <2>2. \A n \in D : Q[n] \in Seq(Views \ {v})
    <3>1. \A n \in D : \A k \in Kids(t, n) : R[k] \in Seq(Views \ {v})
      BY <1>5
    <3> QED BY <3>1, LineType
  <2>3. Q \in [D -> Seq(Views \ {v})] /\ \A n \in D : Q[n] = Line(t, v, R, n)
    BY <2>2
  <2> HIDE DEF j, Q, T
  <2>4. ASSUME NEW n \in D, Level(t, n) >= j PROVE Q[n] = Line(t, v, Q, n)
    <3>1. ASSUME NEW k \in Kids(t, n) PROVE R[k] = Q[k]
      <4>1. k \in D /\ Level(t, k) >= l
        BY <1>1, <1>5, <2>1, <2>4
      <4> QED BY <4>1, <1>4, <2>3
    <3>2. Line(t, v, R, n) = Line(t, v, Q, n)
      BY <3>1, LineLocal
    <3> QED BY <3>2, <2>3
  <2>5. j \in T
    BY <2>1, <2>3, <2>4 DEF T
  <2> QED BY <2>1, <2>5, <1>3
<1> QED BY <1>6, <1>7

LEMMA RowsLemma ==
  ASSUME NEW t, NEW r, Linked(t, r), NEW v
  PROVE  /\ RowsBelow(t, v) \in [DOMAIN t -> Seq(Views \ {v})]
         /\ \A n \in DOMAIN t :
              RowsBelow(t, v)[n] = Line(t, v, RowsBelow(t, v), n)
<1> DEFINE R == RowsBelow(t, v)
           S == {n \in DOMAIN t : R[n] \in Seq(Views \ {v})}
<1>1. R = CHOOSE Q : Q = [n \in DOMAIN t |-> Line(t, v, Q, n)]
  BY DEF RowsBelow, Line, Images
<1>2. R = [n \in DOMAIN t |-> Line(t, v, R, n)]
  BY <1>1, RowsExist
<1> HIDE DEF R
<1>3. \A n \in DOMAIN t : R[n] = Line(t, v, R, n)
  BY <1>2
<1>4. ASSUME NEW m \in DOMAIN t, Kids(t, m) \subseteq S PROVE m \in S
  <2>1. Line(t, v, R, m) \in Seq(Views \ {v})
    BY <1>4, LineType
  <2> QED BY <2>1, <1>3
<1>5. DOMAIN t \subseteq S
  <2> HIDE DEF S
  <2> QED BY <1>4, BottomUp
<1>6. R \in [DOMAIN t -> Seq(Views \ {v})]
  BY <1>2, <1>5
<1> QED BY <1>3, <1>6 DEF R

(* A child without windows put in front of a row of nodes. *)
LEMMA ImagesHead ==
  ASSUME NEW A, NEW N, NEW s \in Seq(N), NEW n \in N, NEW R, NEW Q,
         \A k \in Members(s) : R[k] \in Seq(A) /\ Q[k] = R[k],
         Q[n] = <<>>
  PROVE  FlattenSeq(Images(<<n>> \o s, Q)) = FlattenSeq(Images(s, R))
<1> DEFINE B == Seq(A)
           c == <<n>> \o s
           x == Images(s, R)
           w == Images(c, Q)
           e == <<Q[n]>>
<1>1. /\ Len(s) \in Nat /\ c \in Seq(N) /\ Len(c) = Len(s) + 1 /\ c[1] = n
      /\ \A i \in 1..Len(s) : c[i+1] = s[i]
  OBVIOUS
<1>2. <<>> \in B
  OBVIOUS
<1> HIDE DEF B, c
<1>3. \A k \in Members(s) : R[k] \in B
  BY DEF B
<1>4. x \in Seq(B) /\ Len(x) = Len(s) /\ \A i \in 1..Len(s) : x[i] = R[s[i]]
  BY <1>1, <1>3, ImagesLemma
<1>5. \A k \in Members(c) : Q[k] \in B
  <2>1. ASSUME NEW i \in 1..Len(c) PROVE Q[c[i]] \in B
    <3>1. CASE i = 1
      BY <3>1, <1>1, <1>2
    <3>2. CASE i # 1
      <4> DEFINE j == i - 1
      <4>1. j \in 1..Len(s) /\ j + 1 = i
        BY <3>2, <1>1
      <4> HIDE DEF j
      <4>2. c[i] = s[j]
        BY <4>1, <1>1
      <4> QED BY <4>1, <4>2, <1>3 DEF Members
    <3> QED BY <3>1, <3>2
  <2> QED BY <2>1 DEF Members
<1>6. w \in Seq(B) /\ Len(w) = Len(c) /\ \A i \in 1..Len(c) : w[i] = Q[c[i]]
  BY <1>1, <1>5, ImagesLemma
<1>7. e \in Seq(B) /\ Len(e) = 1 /\ e[1] = <<>>
  BY <1>2
<1> HIDE DEF x, w, e
<1>8. /\ e \o x \in Seq(B) /\ Len(e \o x) = Len(e) + Len(x)
      /\ \A i \in 1..Len(e)+Len(x) : (e \o x)[i] = IF i <= Len(e) THEN e[i] ELSE x[i-Len(e)]
  <2>1. e \in Seq(B) /\ x \in Seq(B)
    BY <1>4, <1>7
  <2> QED BY <2>1, ConcatProperties
<1>9. ASSUME NEW i \in 1..Len(w) PROVE w[i] = (e \o x)[i]
  <2>0. i \in 1..Len(e)+Len(x) /\ i \in 1..Len(c)
    BY <1>1, <1>4, <1>6, <1>7
  <2>1. CASE i = 1
    <3>1. w[i] = <<>>
      BY <2>0, <2>1, <1>1, <1>6
    <3>2. i <= Len(e)
      BY <2>1, <1>7
    <3> QED BY <2>0, <2>1, <3>1, <3>2, <1>7, <1>8
  <2>2. CASE i # 1
    <3> DEFINE j == i - 1
    <3>1. j \in 1..Len(s) /\ j + 1 = i /\ ~(i <= Len(e)) /\ i - Len(e) = j
      BY <2>0, <2>2, <1>1, <1>7
    <3>2. (e \o x)[i] = x[j]
      BY <2>0, <3>1, <1>8
    <3> HIDE DEF j
    <3>3. w[i] = Q[s[j]]
      BY <2>0, <3>1, <1>1, <1>6
    <3>4. Q[s[j]] = R[s[j]]
      BY <3>1 DEF Members
    <3> QED BY <3>1, <3>2, <3>3, <3>4, <1>4
  <2> QED BY <2>1, <2>2
<1>10. w = e \o x
  <2>1. Len(w) = Len(e \o x)
    BY <1>1, <1>4, <1>6, <1>7, <1>8
  <2> QED BY <2>1, <1>6, <1>8, <1>9, SeqEqual
<1>11. FlattenSeq(e \o x) = FlattenSeq(x)
  <2>1. e = <<<<>>>>
    BY DEF e
  <2>2. FlattenSeq(<<<<>>>> \o x) = <<>> \o FlattenSeq(x)
    BY <1>2, <1>4, FlattenHead DEF B
  <2>3. FlattenSeq(x) \in Seq(A)
    BY <1>4, <1>7, FlattenConcat DEF B
  <2>4. <<>> \o FlattenSeq(x) = FlattenSeq(x)
    BY <2>3, ConcatEmptySeq
  <2> QED BY <2>1, <2>2, <2>4
<1> QED BY <1>10, <1>11 DEF w, x, c

(* A child without windows taken out of a row of nodes. *)
LEMMA ImagesCut ==
  ASSUME NEW A, NEW N, NEW s \in Seq(N), NEW i \in 1..Len(s), NEW R, NEW Q,
         \A k \in Members(s) : R[k] \in Seq(A),
         \A k \in Members(RemoveAt(s, i)) : Q[k] = R[k],
         R[s[i]] = <<>>
  PROVE  FlattenSeq(Images(RemoveAt(s, i), Q)) = FlattenSeq(Images(s, R))
<1> DEFINE B == Seq(A)
           c == RemoveAt(s, i)
           x == Images(s, R)
           w == Images(c, Q)
           y == RemoveAt(x, i)
<1>0. Len(s) \in Nat
  OBVIOUS
<1>1. /\ c \in Seq(N) /\ Len(c) = Len(s) - 1
      /\ \A j \in 1..Len(s)-1 : c[j] = IF j < i THEN s[j] ELSE s[j+1]
  BY RemoveAtLemma
<1> HIDE DEF c, B
<1>2. x \in Seq(B) /\ Len(x) = Len(s) /\ \A j \in 1..Len(s) : x[j] = R[s[j]]
  BY <1>0, ImagesLemma DEF B
<1> HIDE DEF x
<1>3. /\ y \in Seq(B) /\ Len(y) = Len(s) - 1
      /\ \A j \in 1..Len(s)-1 : y[j] = IF j < i THEN x[j] ELSE x[j+1]
  <2>1. i \in 1..Len(x)
    BY <1>2
  <2> QED BY <2>1, <1>2, RemoveAtLemma
<1> HIDE DEF y
<1>4. ASSUME NEW j \in 1..Len(c) PROVE Q[c[j]] = y[j]
  <2>1. j \in 1..Len(s)-1
    BY <1>1
  <2>2. Q[c[j]] = R[c[j]]
    BY DEF Members, c
  <2>3. CASE j < i
    <3>1. j \in 1..Len(s) /\ c[j] = s[j] /\ y[j] = x[j]
      BY <2>1, <2>3, <1>0, <1>1, <1>3
    <3> QED BY <3>1, <2>2, <1>2
  <2>4. CASE ~(j < i)
    <3> DEFINE k == j + 1
    <3>1. k \in 1..Len(s) /\ c[j] = s[k] /\ y[j] = x[k]
      BY <2>1, <2>4, <1>0, <1>1, <1>3
    <3> HIDE DEF k
    <3> QED BY <3>1, <2>2, <1>2
  <2> QED BY <2>3, <2>4
<1>5. \A k \in Members(c) : Q[k] \in B
  <2>1. \A j \in 1..Len(c) : y[j] \in B
    BY <1>1, <1>3
  <2> QED BY <2>1, <1>4 DEF Members
<1>6. w \in Seq(B) /\ Len(w) = Len(c) /\ \A j \in 1..Len(c) : w[j] = Q[c[j]]
  <2>1. Len(c) \in Nat
    BY <1>1
  <2> QED BY <2>1, <1>5, ImagesLemma
<1> HIDE DEF w
<1>7. w = y
  <2>1. Len(w) = Len(y) /\ \A j \in 1..Len(w) : w[j] = y[j]
    BY <1>1, <1>3, <1>4, <1>6
  <2> QED BY <2>1, <1>3, <1>6, SeqEqual
<1>8. x[i] = <<>> /\ i \in 1..Len(x)
  BY <1>2
<1>9. FlattenSeq(y) = FlattenSeq(x)
  BY <1>2, <1>8, FlattenGap DEF B, y
<1> QED BY <1>7, <1>9 DEF w, c, x

(* What slips into the row of one child slips into the rows of all.         *)
LEMMA ImagesSlip ==
  ASSUME NEW V, NEW v \in V, NEW N, NEW s \in Seq(N), NEW i \in 1..Len(s), NEW R, NEW Q,
         \A k \in Members(s) : R[k] \in Seq(V) /\ Q[k] \in Seq(V),
         \A j \in 1..Len(s) : j # i => R[s[j]] = Q[s[j]],
         Slipped(V, R[s[i]], Q[s[i]], v)
  PROVE  Slipped(V, FlattenSeq(Images(s, R)), FlattenSeq(Images(s, Q)), v)
<1> DEFINE B == Seq(V)
           x == Images(s, R)
           y == Images(s, Q)
<1>0. Len(s) \in Nat
  OBVIOUS
<1> HIDE DEF B
<1>1. x \in Seq(B) /\ Len(x) = Len(s) /\ \A j \in 1..Len(s) : x[j] = R[s[j]]
  BY <1>0, ImagesLemma DEF B
<1>2. y \in Seq(B) /\ Len(y) = Len(s) /\ \A j \in 1..Len(s) : y[j] = Q[s[j]]
  BY <1>0, ImagesLemma DEF B
<1> HIDE DEF x, y
<1>3. /\ i \in 1..Len(x) /\ Len(x) = Len(y)
      /\ \A j \in 1..Len(x) : j # i => x[j] = y[j]
      /\ Slipped(V, x[i], y[i], v)
  BY <1>1, <1>2
<1>4. Slipped(V, FlattenSeq(x), FlattenSeq(y), v)
  BY <1>1, <1>2, <1>3, FlattenSlip DEF B
<1> QED BY <1>4 DEF x, y

(* What the row below a node is made of, and its type. *)
LEMMA RowFacts ==
  ASSUME NEW t, NEW r, Linked(t, r), NEW v, NEW m \in DOMAIN t
  PROVE  /\ RowsBelow(t, v)[m] = Line(t, v, RowsBelow(t, v), m)
         /\ RowsBelow(t, v)[m] \in Seq(Views \ {v})
         /\ \A k \in Kids(t, m) : RowsBelow(t, v)[k] \in Seq(Views \ {v})
<1>1. Kids(t, m) \subseteq DOMAIN t
  BY NodeFacts
<1>2. /\ RowsBelow(t, v) \in [DOMAIN t -> Seq(Views \ {v})]
      /\ RowsBelow(t, v)[m] = Line(t, v, RowsBelow(t, v), m)
  BY RowsLemma
<1> QED BY <1>1, <1>2

(* Two trees have the same rows at their common nodes when every step       *)
(* upwards makes the same line.                                             *)
LEMMA RowsAgree ==
  ASSUME NEW t, NEW r, Linked(t, r), NEW u, NEW q, Linked(u, q), NEW v,
         \A m \in DOMAIN t \cap DOMAIN u :
           (\A k \in Kids(t, m) \cap DOMAIN u : RowsBelow(t, v)[k] = RowsBelow(u, v)[k])
             => Line(t, v, RowsBelow(t, v), m) = Line(u, v, RowsBelow(u, v), m)
  PROVE  \A m \in DOMAIN t \cap DOMAIN u : RowsBelow(u, v)[m] = RowsBelow(t, v)[m]
<1> DEFINE R == RowsBelow(t, v)
           Q == RowsBelow(u, v)
           S == {m \in DOMAIN t : m \in DOMAIN u => R[m] = Q[m]}
<1>1. /\ \A m \in DOMAIN t : R[m] = Line(t, v, R, m)
      /\ \A m \in DOMAIN u : Q[m] = Line(u, v, Q, m)
  BY RowFacts
<1> HIDE DEF R, Q
<1>2. ASSUME NEW m \in DOMAIN t, Kids(t, m) \subseteq S PROVE m \in S
  <2>1. SUFFICES ASSUME m \in DOMAIN u PROVE R[m] = Q[m]
    OBVIOUS
  <2>2. \A k \in Kids(t, m) \cap DOMAIN u : R[k] = Q[k]
    BY <1>2
  <2>3. Line(t, v, R, m) = Line(u, v, Q, m)
    BY <2>1, <2>2 DEF R, Q
  <2> QED BY <2>1, <2>3, <1>1
<1>3. DOMAIN t \subseteq S
  <2> HIDE DEF S
  <2> QED BY <1>2, BottomUp
<1> QED BY <1>3 DEF R, Q

(* A part of a tree that keeps its nodes' windows and children keeps their  *)
(* rows.                                                                    *)
LEMMA SameRows ==
  ASSUME NEW t, NEW r, Linked(t, r), NEW u, NEW q, Linked(u, q), NEW v,
         \A m \in DOMAIN t \cap DOMAIN u :
           u[m].kids = t[m].kids /\ u[m].view = t[m].view
  PROVE  \A m \in DOMAIN t \cap DOMAIN u : RowsBelow(u, v)[m] = RowsBelow(t, v)[m]
<1>1. ASSUME NEW m \in DOMAIN t \cap DOMAIN u,
             \A k \in Kids(t, m) \cap DOMAIN u : RowsBelow(t, v)[k] = RowsBelow(u, v)[k]
      PROVE  Line(t, v, RowsBelow(t, v), m) = Line(u, v, RowsBelow(u, v), m)
  <2>1. Kids(u, m) \subseteq DOMAIN u
    BY NodeFacts
  <2>2. Kids(t, m) = Kids(u, m)
    BY DEF Kids
  <2>3. \A k \in Kids(t, m) : RowsBelow(t, v)[k] = RowsBelow(u, v)[k]
    BY <2>1, <2>2, <1>1
  <2> QED BY <2>3, LineLocal
<1> QED BY <1>1, RowsAgree

(* A new leaf of v changes no row from which v is left out. *)
LEMMA GraftRows ==
  ASSUME NEW t, NEW r, Linked(t, r), NEW u, NEW q, Linked(u, q),
         NEW p \in DOMAIN t, t[p].view = NoView, NEW n \in Nodes, n \notin DOMAIN t,
         NEW v \in Views, Grafted(u, t, p, n, v)
  PROVE  \A m \in DOMAIN t : RowsBelow(u, v)[m] = RowsBelow(t, v)[m]
<1> DEFINE R == RowsBelow(t, v)
           Q == RowsBelow(u, v)
<1>1. /\ DOMAIN u = DOMAIN t \cup {n}
      /\ u[n].view = v
      /\ u[p].kids = <<n>> \o t[p].kids
      /\ \A m \in DOMAIN t \ {p} : u[m].kids = t[m].kids
      /\ \A m \in DOMAIN t : u[m].view = t[m].view
  BY DEF Grafted
<1>2. Q[n] = <<>>
  <2>1. n \in DOMAIN u
    BY <1>1
  <2>2. Q[n] = Line(u, v, Q, n)
    BY <2>1, RowFacts
  <2>3. u[n].view = v /\ v # NoView
    BY <1>1, TilingAssumption
  <2> HIDE DEF Q
  <2> QED BY <2>2, <2>3 DEF Line
<1>3. \A k \in Kids(t, p) : R[k] \in Seq(Views \ {v})
  BY RowFacts
<1> HIDE DEF R, Q
<1>4. ASSUME NEW m \in DOMAIN t \cap DOMAIN u,
             \A k \in Kids(t, m) \cap DOMAIN u : R[k] = Q[k]
      PROVE  Line(t, v, R, m) = Line(u, v, Q, m)
  <2>1. \A k \in Kids(t, m) : R[k] = Q[k]
    BY <1>1, <1>4, NodeFacts
  <2>2. CASE m # p
    BY <2>1, <2>2, <1>1, LineLocal
  <2>3. CASE m = p
    <3>1. t[p].kids \in Seq(Nodes)
      BY NodeFacts
    <3>2. \A k \in Members(t[p].kids) : R[k] \in Seq(Views \ {v}) /\ Q[k] = R[k]
      BY <2>1, <2>3, <1>3 DEF Members, Kids
    <3>3. FlattenSeq(Images(<<n>> \o t[p].kids, Q)) = FlattenSeq(Images(t[p].kids, R))
      BY <3>1, <3>2, <1>2, ImagesHead
    <3> QED BY <2>3, <3>3, <1>1 DEF Line
  <2> QED BY <2>2, <2>3
<1>5. DOMAIN t \cap DOMAIN u = DOMAIN t
  BY <1>1
<1> QED BY <1>4, <1>5, RowsAgree DEF R, Q

(* Nodes without windows can be taken out of a tree. *)
LEMMA PruneRows ==
  ASSUME NEW t, NEW r, Linked(t, r), NEW u, NEW q, Linked(u, q), NEW v,
         NEW G, NEW p, NEW i, t[p].view = NoView, Pruned(u, t, G, p, i),
         \A m \in G : RowsBelow(t, v)[m] = <<>>
  PROVE  \A m \in DOMAIN u : RowsBelow(u, v)[m] = RowsBelow(t, v)[m]
<1> DEFINE R == RowsBelow(t, v)
           Q == RowsBelow(u, v)
<1>1. /\ DOMAIN u = DOMAIN t \ G
      /\ p \in DOMAIN u
      /\ i \in 1..Len(t[p].kids) /\ t[p].kids[i] \in G
      /\ u[p].kids = RemoveAt(t[p].kids, i)
      /\ \A m \in DOMAIN u \ {p} : u[m].kids = t[m].kids
      /\ \A m \in DOMAIN u : u[m].view = t[m].view
  BY DEF Pruned
<1>2. \A k \in Kids(t, p) : R[k] \in Seq(Views \ {v})
  BY <1>1, RowFacts
<1> HIDE DEF R, Q
<1>3. ASSUME NEW m \in DOMAIN t \cap DOMAIN u,
             \A k \in Kids(t, m) \cap DOMAIN u : R[k] = Q[k]
      PROVE  Line(t, v, R, m) = Line(u, v, Q, m)
  <2>1. Kids(u, m) \subseteq DOMAIN u
    BY NodeFacts
  <2>2. CASE m # p
    <3>1. Kids(u, m) = Kids(t, m)
      BY <2>2, <1>1 DEF Kids
    <3>2. \A k \in Kids(t, m) : R[k] = Q[k]
      BY <3>1, <2>1, <1>3
    <3> QED BY <2>2, <3>2, <1>1, LineLocal
  <2>3. CASE m = p
    <3> DEFINE s == t[p].kids
               c == RemoveAt(s, i)
    <3>1. s \in Seq(Nodes)
      BY <1>1, NodeFacts
    <3>2. \A k \in Members(s) : R[k] \in Seq(Views \ {v})
      BY <1>2 DEF Members, Kids
    <3>3. Members(c) \subseteq Members(s)
      BY <3>1, <1>1, CutLemma, NodeFacts DEF Related
    <3>4. \A k \in Members(c) : Q[k] = R[k]
      <4>1. Members(c) = Kids(u, p)
        BY <1>1 DEF Members, Kids
      <4> QED BY <4>1, <3>3, <2>1, <2>3, <1>3 DEF Members, Kids
    <3>5. R[s[i]] = <<>>
      BY <1>1 DEF R
    <3>6. FlattenSeq(Images(c, Q)) = FlattenSeq(Images(s, R))
      <4> DEFINE A == Views \ {v}
      <4>1. i \in 1..Len(s) /\ \A k \in Members(s) : R[k] \in Seq(A)
        BY <1>1, <3>2
      <4> HIDE DEF s, A
      <4> QED BY <4>1, <3>1, <3>4, <3>5, ImagesCut
    <3> QED BY <2>3, <3>6, <1>1 DEF Line
  <2> QED BY <2>2, <2>3
<1>4. DOMAIN t \cap DOMAIN u = DOMAIN u
  BY <1>1
<1> QED BY <1>3, <1>4, RowsAgree DEF R, Q

(* tiling_view_erase frees no other window than the one it is called for.   *)
LEMMA ErasedRows ==
  ASSUME NEW t, NEW r, Linked(t, r), NEW n \in DOMAIN t, t[n].view # NoView
  PROVE  \A m \in Erased(t, n) : RowsBelow(t, t[n].view)[m] = <<>>
<1> DEFINE v == t[n].view
           R == RowsBelow(t, v)
           G == Erased(t, n)
           S == {m \in DOMAIN t : m \in G => R[m] = <<>>}
<1>1. \A m \in DOMAIN t : R[m] = Line(t, v, R, m)
  BY RowFacts
<1>2. /\ G \subseteq DOMAIN t
      /\ \A m \in DOMAIN t : m \in G <=> m = n \/ Emptied(t, m, G)
  BY ErasedLemma
<1> HIDE DEF R, G
<1>3. ASSUME NEW m \in DOMAIN t, Kids(t, m) \subseteq S PROVE m \in S
  <2>1. SUFFICES ASSUME m \in G PROVE R[m] = <<>>
    OBVIOUS
  <2>2. CASE m = n
    BY <2>2, <1>1 DEF Line
  <2>3. CASE m # n
    <3> DEFINE k == t[m].kids[1]
    <3>1. t[m].view = NoView /\ Len(t[m].kids) = 1 /\ k \in G
      BY <2>1, <2>3, <1>2 DEF Emptied
    <3>2. k \in Kids(t, m)
      BY <3>1 DEF Kids
    <3>3. R[k] = <<>>
      BY <3>1, <3>2, <1>3
    <3>4. Images(t[m].kids, R) = <<R[k]>>
      BY <3>1 DEF Images
    <3>5. FlattenSeq(<<R[k]>>) = <<>>
      <4>1. <<>> \in Seq({})
        OBVIOUS
      <4> QED BY <3>3, <4>1, FlattenFew
    <3> QED BY <3>1, <3>4, <3>5, <1>1 DEF Line
  <2> QED BY <2>2, <2>3
<1>4. DOMAIN t \subseteq S
  <2> HIDE DEF S
  <2> QED BY <1>3, BottomUp
<1> QED BY <1>2, <1>4 DEF R, G

(* The three ways a tree is edited change no row from which the window they *)
(* are about is left out.                                                   *)
LEMMA InsertRows ==
  ASSUME NEW t, NEW r, Linked(t, r), Placed(t, {}),
         NEW p \in DOMAIN t, t[p].view = NoView, Level(t, p) < MaxLevel,
         NEW n \in Nodes \ DOMAIN t, NEW v \in Views
  PROVE  LET u == Insert(t, p, n, v)
         IN  \A m \in DOMAIN t : m \in DOMAIN u
                                 /\ RowsBelow(u, v)[m] = RowsBelow(t, v)[m]
<1> DEFINE u == Insert(t, p, n, v)
<1>1. Linked(u, r) /\ Grafted(u, t, p, n, v)
  BY InsertLemma
<1> HIDE DEF u
<1>2. \A m \in DOMAIN t : RowsBelow(u, v)[m] = RowsBelow(t, v)[m]
  BY <1>1, GraftRows
<1> QED BY <1>1, <1>2 DEF Grafted, u

LEMMA EraseRows ==
  ASSUME NEW t, NEW r, Linked(t, r), Placed(t, {}),
         NEW n \in DOMAIN t, t[n].view # NoView
  PROVE  LET u == Erase(t, n)
             v == t[n].view
         IN  \A m \in DOMAIN u : RowsBelow(u, v)[m] = RowsBelow(t, v)[m]
<1> DEFINE u == Erase(t, n)
           v == t[n].view
           p == Survivor(t, n)
           G == Erased(t, n)
<1>1. Linked(u, r) /\ \E i : Pruned(u, t, G, p, i)
  BY EraseLemma
<1>2. PICK i : Pruned(u, t, G, p, i)
  BY <1>1
<1>3. \A m \in G : RowsBelow(t, v)[m] = <<>>
  BY ErasedRows
<1>4. t[p].view = NoView
  <2> HIDE DEF G
  <2>1. p \in DOMAIN t /\ Len(t[p].kids) # 0
    <3>1. p \in DOMAIN t /\ i \in 1..Len(t[p].kids)
      BY <1>2 DEF Pruned
    <3> QED BY <3>1, NodeFacts
  <2>2. t[p].view # NoView => t[p].kids = <<>>
    BY <2>1, NodeFacts DEF Related
  <2> QED BY <2>1, <2>2
<1> HIDE DEF u, v, p, G
<1>5. \A m \in DOMAIN u : RowsBelow(u, v)[m] = RowsBelow(t, v)[m]
  BY <1>1, <1>2, <1>3, <1>4, PruneRows
<1> QED BY <1>5 DEF u, v

LEMMA OpenRows ==
  ASSUME NEW t, NEW r, Linked(t, r), Placed(t, {}),
         NEW n \in DOMAIN t, t[n].view # NoView, NEW d \in BOOLEAN
  PROVE  LET u == Opened(t, n, d)
             v == t[n].view
         IN  \A m \in DOMAIN t : RowsBelow(u, v)[m] = RowsBelow(t, v)[m]
<1> DEFINE u == Opened(t, n, d)
           v == t[n].view
           R == RowsBelow(t, v)
           Q == RowsBelow(u, v)
<1>1. /\ DOMAIN u = DOMAIN t /\ u[n].view = NoView /\ Linked(u, r)
      /\ \A m \in DOMAIN t : u[m].kids = t[m].kids
      /\ \A m \in DOMAIN t \ {n} : u[m].view = t[m].view
  <2>1. DOMAIN u = DOMAIN t /\ u[n].view = NoView
    BY OpenLemma
  <2>2. Linked(u, r)
    BY OpenLemma
  <2>3. \A m \in DOMAIN t : u[m].kids = t[m].kids /\ u[m].output = t[m].output
    BY OpenLemma
  <2>4. \A m \in DOMAIN t \ {n} : u[m].view = t[m].view
    BY OpenLemma
  <2> QED BY <2>1, <2>2, <2>3, <2>4
<1>2. t[n].kids = <<>>
  BY LeafFacts
<1> HIDE DEF u, R, Q
<1>3. ASSUME NEW m \in DOMAIN t \cap DOMAIN u,
             \A k \in Kids(t, m) \cap DOMAIN u : R[k] = Q[k]
      PROVE  Line(t, v, R, m) = Line(u, v, Q, m)
  <2>1. \A k \in Kids(t, m) : R[k] = Q[k]
    BY <1>1, <1>3, NodeFacts
  <2>2. CASE m # n
    BY <2>1, <2>2, <1>1, LineLocal
  <2>3. CASE m = n
    <3>1. Line(t, v, R, n) = <<>>
      BY DEF Line
    <3>2. Images(<<>>, Q) = <<>>
      BY DEF Images
    <3>3. Line(u, v, Q, n) = <<>>
      BY <3>2, <1>1, <1>2, FlattenFew DEF Line
    <3> QED BY <2>3, <3>1, <3>3
  <2> QED BY <2>2, <2>3
<1>4. DOMAIN t \cap DOMAIN u = DOMAIN t
  BY <1>1
<1> HIDE DEF v
<1>5. \A m \in DOMAIN t : Q[m] = R[m]
  BY <1>1, <1>3, <1>4, RowsAgree DEF R, Q
<1> QED BY <1>5 DEF R, Q, u, v

(***************************************************************************)
(* The nodes above a window                                                *)
(***************************************************************************)

Upward(t, n, S) ==
  n \in S /\ \A k \in S : t[k].parent # NoNode => t[k].parent \in S

(* n and its ancestors *)
Above(t, n) == {m \in DOMAIN t : \A S \in SUBSET DOMAIN t : Upward(t, n, S) => m \in S}

LEMMA AboveLemma ==
  ASSUME NEW t, NEW r, Linked(t, r), NEW n \in DOMAIN t
  PROVE  /\ n \in Above(t, n) /\ Above(t, n) \subseteq DOMAIN t
         /\ \A k \in Above(t, n) : t[k].parent # NoNode => t[k].parent \in Above(t, n)
         /\ \A m \in Above(t, n) \ {n} : \E k \in Above(t, n) :
              k \in Kids(t, m) /\ t[k].parent = m /\ Level(t, k) = Level(t, m) + 1
<1> DEFINE C == Above(t, n)
<1>1. C \subseteq DOMAIN t /\ n \in C
  BY DEF Above, Upward
<1>2. ASSUME NEW k \in C, t[k].parent # NoNode PROVE t[k].parent \in C
  <2>1. t[k].parent \in DOMAIN t
    BY <1>1, <1>2, ChildFacts
  <2>2. ASSUME NEW S \in SUBSET DOMAIN t, Upward(t, n, S) PROVE t[k].parent \in S
    <3>1. k \in S
      BY <2>2 DEF Above
    <3> QED BY <3>1, <2>2, <1>2 DEF Upward
  <2> QED BY <2>1, <2>2 DEF Above
<1>3. ASSUME NEW m \in C, m # n,
             \A k \in C : t[k].parent # m
      PROVE  FALSE
  <2> DEFINE S == C \ {m}
  <2>1. Upward(t, n, S)
    BY <1>1, <1>2, <1>3 DEF Upward
  <2>2. S \in SUBSET DOMAIN t
    BY <1>1
  <2>3. m \in S
    <3> HIDE DEF S
    <3> QED BY <2>1, <2>2 DEF Above
  <2> QED BY <2>3
<1>4. ASSUME NEW m \in C \ {n}
      PROVE  \E k \in C : k \in Kids(t, m) /\ t[k].parent = m
                          /\ Level(t, k) = Level(t, m) + 1
  <2>1. PICK k \in C : t[k].parent = m
    BY <1>3
  <2>2. m # NoNode
    BY <1>1, NodeFacts
  <2> QED BY <2>1, <2>2, <1>1, ChildFacts
<1> QED BY <1>1, <1>2, <1>4

(* There is one node of each level above n, and the uppermost is the root.  *)
LEMMA OneAboveLemma ==
  ASSUME NEW t, NEW r, Linked(t, r), NEW n \in DOMAIN t
  PROVE  /\ \A m, q \in Above(t, n) : Level(t, m) = Level(t, q) => m = q
         /\ r[t[n].output] \in Above(t, n)
<1> DEFINE C == Above(t, n)
<1>1. /\ n \in C /\ C \subseteq DOMAIN t
      /\ \A k \in C : t[k].parent # NoNode => t[k].parent \in C
      /\ \A m \in C \ {n} : \E k \in C :
           k \in Kids(t, m) /\ t[k].parent = m /\ Level(t, k) = Level(t, m) + 1
  BY AboveLemma
<1>2. \A m \in DOMAIN t : Level(t, m) \in Nat
  BY NodeFacts
<1>3. \A m \in C : Level(t, m) <= Level(t, n)
  <2> DEFINE S == {m \in DOMAIN t : Level(t, m) <= Level(t, n)}
  <2>1. ASSUME NEW k \in S, t[k].parent # NoNode PROVE t[k].parent \in S
    <3>1. t[k].parent \in DOMAIN t /\ Level(t, k) = Level(t, t[k].parent) + 1
      BY <2>1, ChildFacts
    <3> QED BY <3>1, <1>2
  <2>2. Upward(t, n, S)
    BY <2>1, <1>2 DEF Upward
  <2> QED BY <2>2 DEF Above
<1>4. \A m \in C : t[m].output = t[n].output
  <2> DEFINE S == {m \in DOMAIN t : t[m].output = t[n].output}
  <2>1. ASSUME NEW k \in S, t[k].parent # NoNode PROVE t[k].parent \in S
    BY <2>1, ChildFacts
  <2>2. Upward(t, n, S)
    BY <2>1 DEF Upward
  <2> QED BY <2>2 DEF Above
<1> HIDE DEF C
<1>5. \A m, q \in C : Level(t, m) = Level(t, q) => m = q
  <2> DEFINE S == {m \in DOMAIN t : m \in C =>
                     \A q \in C : Level(t, m) = Level(t, q) => m = q}
  <2>1. ASSUME NEW m \in DOMAIN t, Kids(t, m) \subseteq S PROVE m \in S
    <3>1. SUFFICES ASSUME m \in C, NEW q \in C, Level(t, m) = Level(t, q)
                   PROVE  m = q
      OBVIOUS
    <3>2. ASSUME NEW x \in C, Level(t, x) = Level(t, n) PROVE x = n
      <4>1. SUFFICES ASSUME x # n PROVE FALSE
        OBVIOUS
      <4>2. PICK k \in C : Level(t, k) = Level(t, x) + 1
        BY <4>1, <1>1
      <4>3. Level(t, k) <= Level(t, n) /\ Level(t, x) \in Nat
        BY <1>1, <1>2, <1>3
      <4> QED BY <4>2, <4>3, <3>2
    <3>3. CASE m = n \/ q = n
      BY <3>1, <3>2, <3>3
    <3>4. CASE m # n /\ q # n
      <4>1. PICK k \in C : k \in Kids(t, m) /\ t[k].parent = m
                           /\ Level(t, k) = Level(t, m) + 1
        BY <3>1, <3>4, <1>1
      <4>2. PICK j \in C : t[j].parent = q /\ Level(t, j) = Level(t, q) + 1
        BY <3>4, <1>1
      <4>3. k = j
        BY <4>1, <4>2, <3>1, <2>1
      <4> QED BY <4>1, <4>2, <4>3
    <3> QED BY <3>3, <3>4
  <2>2. DOMAIN t \subseteq S
    <3> HIDE DEF S
    <3> QED BY <2>1, BottomUp
  <2> QED BY <2>2, <1>1
<1>6. r[t[n].output] \in C
  <2> DEFINE L == {Level(t, m) : m \in C}
  <2>1. L # {} /\ L \subseteq Nat
    BY <1>1, <1>2
  <2> HIDE DEF L
  <2>2. PICK b \in L : \A k \in L : b <= k
    BY <2>1, LeastLemma
  <2>3. PICK m \in C : Level(t, m) = b
    BY <2>2 DEF L
  <2>4. t[m].parent = NoNode
    <3>1. SUFFICES ASSUME t[m].parent # NoNode PROVE FALSE
      OBVIOUS
    <3>2. t[m].parent \in C /\ Level(t, m) = Level(t, t[m].parent) + 1
      BY <3>1, <1>1, ChildFacts
    <3>3. b <= Level(t, t[m].parent) /\ Level(t, t[m].parent) \in Nat
      BY <3>2, <1>1, <1>2, <2>2 DEF L
    <3> QED BY <3>2, <3>3, <2>3
  <2>5. m = r[t[m].output]
    BY <2>4, <1>1, NodeFacts DEF Related
  <2> QED BY <2>5, <1>4
<1> QED BY <1>5, <1>6 DEF C

(* The row below the root with the window v of the only leaf n is the row   *)
(* without it and v in some place.                                          *)
LEMMA TiledRow ==
  ASSUME NEW t, NEW r, Linked(t, r), NEW v \in Views, NEW n \in DOMAIN t,
         \A m \in DOMAIN t : t[m].view = v <=> m = n
  PROVE  LET o == r[t[n].output]
         IN  Slipped(Views, RowsBelow(t, v)[o], RowsBelow(t, NoView)[o], v)
<1> DEFINE R == RowsBelow(t, v)
           Q == RowsBelow(t, NoView)
           C == Above(t, n)
           S == {m \in DOMAIN t : /\ m \in C => Slipped(Views, R[m], Q[m], v)
                                  /\ m \notin C => R[m] = Q[m]}
<1>1. /\ \A m \in DOMAIN t : R[m] = Line(t, v, R, m)
      /\ \A m \in DOMAIN t : Q[m] = Line(t, NoView, Q, m)
  BY RowFacts
<1>2. \A m \in DOMAIN t : R[m] \in Seq(Views) /\ Q[m] \in Seq(Views)
  <2>1. Views \ {NoView} \subseteq Views /\ Views \ {v} \subseteq Views
    OBVIOUS
  <2>2. Seq(Views \ {NoView}) \subseteq Seq(Views) /\ Seq(Views \ {v}) \subseteq Seq(Views)
    BY <2>1, SeqMonotonic
  <2>3. \A m \in DOMAIN t : R[m] \in Seq(Views \ {v}) /\ Q[m] \in Seq(Views \ {NoView})
    BY RowFacts
  <2> QED BY <2>2, <2>3
<1>3. /\ n \in C /\ C \subseteq DOMAIN t
      /\ \A k \in C : t[k].parent # NoNode => t[k].parent \in C
      /\ \A m \in C \ {n} : \E k \in C : k \in Kids(t, m)
  BY AboveLemma
<1>4. \A m, q \in C : Level(t, m) = Level(t, q) => m = q
  BY OneAboveLemma
<1>5. v # NoView
  BY TilingAssumption
<1> HIDE DEF R, Q, C
<1>6. ASSUME NEW m \in DOMAIN t, Kids(t, m) \subseteq S PROVE m \in S
  <2>1. CASE m = n
    <3>1. R[n] = <<>> /\ Q[n] = <<v>>
      BY <1>1, <1>5 DEF Line
    <3>2. <<>> = <<>> \o <<>> /\ <<v>> = (<<>> \o <<v>>) \o <<>> /\ <<>> \in Seq(Views)
      OBVIOUS
    <3>3. Slipped(Views, R[n], Q[n], v)
      BY <3>1, <3>2 DEF Slipped
    <3> QED BY <2>1, <3>3, <1>3
  <2>2. CASE m \in C /\ m # n
    <3>1. PICK k \in C : k \in Kids(t, m)
      BY <2>2, <1>3
    <3> DEFINE s == t[m].kids
    <3>2. /\ s \in Seq(Nodes) /\ Kids(t, m) \subseteq DOMAIN t /\ IsInjective(s)
          /\ \A j \in Kids(t, m) : Level(t, j) = Level(t, m) + 1
          /\ t[m].view # NoView => s = <<>>
      BY NodeFacts DEF Related
    <3>3. PICK i \in 1..Len(s) : s[i] = k
      BY <3>1 DEF Kids
    <3>4. t[m].view = NoView
      BY <3>2, <3>3
    <3>5. ASSUME NEW j \in 1..Len(s), j # i PROVE R[s[j]] = Q[s[j]]
      <4>1. s[j] # k /\ s[j] \in Kids(t, m)
        BY <3>2, <3>3, <3>5 DEF IsInjective, Kids
      <4>2. s[j] \notin C
        BY <4>1, <3>1, <3>2, <1>4
      <4> QED BY <4>1, <4>2, <1>6
    <3>6. Slipped(Views, R[s[i]], Q[s[i]], v)
      BY <3>1, <3>3, <1>6
    <3>7. \A j \in Members(s) : R[j] \in Seq(Views) /\ Q[j] \in Seq(Views)
      BY <3>2, <1>2 DEF Members, Kids
    <3> HIDE DEF s
    <3>8. Slipped(Views, FlattenSeq(Images(s, R)), FlattenSeq(Images(s, Q)), v)
      BY <3>2, <3>5, <3>6, <3>7, ImagesSlip
    <3>9. R[m] = FlattenSeq(Images(s, R)) /\ Q[m] = FlattenSeq(Images(s, Q))
      BY <1>1, <3>4 DEF Line, s
    <3> QED BY <3>8, <3>9, <2>2
  <2>3. CASE m \notin C
    <3>1. ASSUME NEW k \in Kids(t, m) PROVE R[k] = Q[k]
      <4>1. k \in DOMAIN t /\ t[k].parent = m /\ m # NoNode
        BY NodeFacts DEF Related
      <4>2. k \notin C
        BY <4>1, <2>3, <1>3
      <4> QED BY <4>2, <1>6
    <3>2. Line(t, v, R, m) = Line(t, v, Q, m)
      BY <3>1, LineLocal
    <3>3. t[m].view # v
      BY <2>3, <1>3
    <3>4. Line(t, v, Q, m) = Line(t, NoView, Q, m)
      BY <3>3 DEF Line
    <3> QED BY <2>3, <3>2, <3>4, <1>1
  <2> QED BY <2>1, <2>2, <2>3
<1>7. DOMAIN t \subseteq S
  <2> HIDE DEF S
  <2> QED BY <1>6, BottomUp
<1>8. r[t[n].output] \in C
  BY OneAboveLemma DEF C
<1> QED BY <1>3, <1>7, <1>8 DEF R, Q

(* Leaving out a window that is not tiled makes no difference. *)
LEMMA UntiledRow ==
  ASSUME NEW t, NEW r, Linked(t, r), NEW v, \A m \in DOMAIN t : t[m].view # v
  PROVE  \A m \in DOMAIN t : RowsBelow(t, v)[m] = RowsBelow(t, NoView)[m]
<1> DEFINE R == RowsBelow(t, v)
           Q == RowsBelow(t, NoView)
           S == {m \in DOMAIN t : R[m] = Q[m]}
<1>1. /\ \A m \in DOMAIN t : R[m] = Line(t, v, R, m)
      /\ \A m \in DOMAIN t : Q[m] = Line(t, NoView, Q, m)
  BY RowFacts
<1> HIDE DEF R, Q
<1>2. ASSUME NEW m \in DOMAIN t, Kids(t, m) \subseteq S PROVE m \in S
  <2>1. Line(t, v, R, m) = Line(t, v, Q, m)
    BY <1>2, LineLocal
  <2>2. Line(t, v, Q, m) = Line(t, NoView, Q, m)
    BY DEF Line
  <2> QED BY <2>1, <2>2, <1>1
<1>3. DOMAIN t \subseteq S
  <2> HIDE DEF S
  <2> QED BY <1>2, BottomUp
<1> QED BY <1>3 DEF R, Q

(***************************************************************************)
(* What a handler does to the windows it is not about                      *)
(***************************************************************************)

(* From t to u the rows of the trees with roots r change in the place of v  *)
(* only, and no other window gets a new node.                               *)
Touches(t, u, r, v) ==
  /\ \A o \in Outputs : r[o] # NoNode => RowsBelow(u, v)[r[o]] = RowsBelow(t, v)[r[o]]
  /\ \A m \in DOMAIN u : u[m].view \notin {NoView, v} =>
       m \in DOMAIN t /\ t[m].view = u[m].view

Untiled(t, v) == \A m \in DOMAIN t : t[m].view # v
One(t, v) == \A m, n \in DOMAIN t : t[m].view = v /\ t[n].view = v => m = n

LEMMA TouchesTwice ==
  ASSUME NEW t, NEW u, NEW w, NEW r, NEW v, Touches(t, u, r, v), Touches(u, w, r, v)
  PROVE  Touches(t, w, r, v)
BY DEF Touches

LEMMA TouchesNone ==
  ASSUME NEW t, NEW r, NEW v
  PROVE  Touches(t, t, r, v)
BY DEF Touches

LEMMA TouchesSame ==
  ASSUME NEW t, NEW r, Linked(t, r), NEW u, Linked(u, r), NEW v,
         DOMAIN u = DOMAIN t,
         \A m \in DOMAIN t : u[m].kids = t[m].kids /\ u[m].view = t[m].view
  PROVE  Touches(t, u, r, v)
<1>1. \A m \in DOMAIN t \cap DOMAIN u : RowsBelow(u, v)[m] = RowsBelow(t, v)[m]
  BY SameRows
<1>2. \A o \in Outputs : r[o] # NoNode => r[o] \in DOMAIN t
  BY DEF Linked, Rooted
<1> QED BY <1>1, <1>2 DEF Touches

LEMMA TouchesInsert ==
  ASSUME NEW t, NEW r, Linked(t, r), Placed(t, {}),
         NEW p \in DOMAIN t, t[p].view = NoView, Level(t, p) < MaxLevel,
         NEW n \in Nodes \ DOMAIN t, NEW v \in Views
  PROVE  LET u == Insert(t, p, n, v)
         IN  /\ Touches(t, u, r, v)
             /\ Untiled(t, v) => One(u, v)
<1> DEFINE u == Insert(t, p, n, v)
<1>1. Grafted(u, t, p, n, v)
  BY InsertLemma
<1>2. \A m \in DOMAIN t : RowsBelow(u, v)[m] = RowsBelow(t, v)[m]
  BY InsertRows
<1> HIDE DEF u
<1>3. \A o \in Outputs : r[o] # NoNode => r[o] \in DOMAIN t
  BY DEF Linked, Rooted
<1>4. Touches(t, u, r, v)
  BY <1>1, <1>2, <1>3 DEF Touches, Grafted
<1>5. Untiled(t, v) => One(u, v)
  BY <1>1 DEF Untiled, One, Grafted
<1> QED BY <1>4, <1>5 DEF u

LEMMA TouchesErase ==
  ASSUME NEW t, NEW r, Linked(t, r), Placed(t, {}),
         NEW n \in DOMAIN t, t[n].view # NoView
  PROVE  LET u == Erase(t, n)
             v == t[n].view
         IN  /\ Touches(t, u, r, v)
             /\ One(t, v) => Untiled(u, v)
<1> DEFINE u == Erase(t, n)
           v == t[n].view
<1>1. Linked(u, r) /\ DOMAIN u = DOMAIN t \ Erased(t, n)
  BY EraseLemma
<1>2. \A m \in DOMAIN u : u[m].view = t[m].view
  BY EraseLemma
<1>3. \A m \in DOMAIN u : RowsBelow(u, v)[m] = RowsBelow(t, v)[m]
  BY EraseRows
<1>4. n \in Erased(t, n)
  BY ErasedLemma
<1> HIDE DEF u, v
<1>5. \A o \in Outputs : r[o] # NoNode => r[o] \in DOMAIN u
  BY <1>1 DEF Linked, Rooted
<1>6. Touches(t, u, r, v)
  BY <1>1, <1>2, <1>3, <1>5 DEF Touches
<1>7. One(t, v) => Untiled(u, v)
  BY <1>1, <1>2, <1>4 DEF Untiled, One, v
<1> QED BY <1>6, <1>7 DEF u, v

LEMMA TouchesOpened ==
  ASSUME NEW t, NEW r, Linked(t, r), Placed(t, {}),
         NEW n \in DOMAIN t, t[n].view # NoView, NEW d \in BOOLEAN
  PROVE  LET u == Opened(t, n, d)
             v == t[n].view
         IN  /\ Touches(t, u, r, v)
             /\ One(t, v) => Untiled(u, v)
<1> DEFINE u == Opened(t, n, d)
           v == t[n].view
<1>1. DOMAIN u = DOMAIN t /\ u[n].view = NoView
  BY OpenLemma
<1>2. \A m \in DOMAIN t \ {n} : u[m].view = t[m].view
  BY OpenLemma
<1>3. \A m \in DOMAIN t : RowsBelow(u, v)[m] = RowsBelow(t, v)[m]
  BY OpenRows
<1> HIDE DEF u
<1>5. \A o \in Outputs : r[o] # NoNode => r[o] \in DOMAIN t
  BY DEF Linked, Rooted
<1>6. Touches(t, u, r, v)
  BY <1>1, <1>2, <1>3, <1>5 DEF Touches
<1>7. One(t, v) => Untiled(u, v)
  BY <1>1, <1>2 DEF Untiled, One
<1> QED BY <1>6, <1>7 DEF u

(* What the windows on the layer have to do with those in the trees when    *)
(* there is one screen: a window is tiled once at most and while it is on   *)
(* the layer, and libweston believes it on the screen.                      *)
TiledOnce ==
  /\ \A v \in Views : One(tree, v)
  /\ \A n \in DOMAIN tree : tree[n].view # NoView => tree[n].view \in Windows
  /\ IsInjective(layer)
  /\ \A v \in Windows : vout[v] \in Outputs

(* A handler that is about window v. *)
About(v) ==
  /\ root' = root
  /\ Touches(tree, tree', root, v)
  /\ TiledOnce => One(tree', v)

LEMMA AboutNothing ==
  ASSUME NEW v \in Views, tree' = tree, root' = root
  PROVE  About(v)
<1>1. Touches(tree, tree', root, v)
  BY TouchesNone
<1>2. TiledOnce => One(tree', v)
  BY DEF TiledOnce
<1> QED BY <1>1, <1>2 DEF About

LEMMA AddAbout ==
  ASSUME TInv, NEW v \in Views, NEW o \in Outputs, Add(v, o)
  PROVE  About(v)
<1>1. CASE \E kind \in Faults : Fault(kind)
  BY <1>1, AboutNothing DEF Fault
<1>2. CASE /\ v \notin Windows
           /\ Plugged(o) /\ FocusedLeaf /\ Nodes \ DOMAIN tree # {}
           /\ root' = root
           /\ \E fits \in Fits :
                tree' = IF fits THEN Insert(tree, LaunchPoint(o), Fresh(tree), v)
                        ELSE tree
  <2>1. CASE tree' = tree
    BY <2>1, <1>2, AboutNothing
  <2>2. CASE tree' = Insert(tree, LaunchPoint(o), Fresh(tree), v)
    <3>1. /\ LaunchPoint(o) \in DOMAIN tree /\ tree[LaunchPoint(o)].view = NoView
          /\ Level(tree, LaunchPoint(o)) < MaxLevel
      BY <1>2, LaunchLemma
    <3>2. Linked(tree, root) /\ Placed(tree, {}) /\ Fresh(tree) \in Nodes \ DOMAIN tree
      BY <1>2, FreshLemma DEF TInv, Sound
    <3>3. Touches(tree, tree', root, v) /\ (Untiled(tree, v) => One(tree', v))
      BY <2>2, <3>1, <3>2, TouchesInsert
    <3>4. TiledOnce => Untiled(tree, v)
      BY <1>2, TilingAssumption DEF TiledOnce, Untiled
    <3> QED BY <3>3, <3>4, <1>2 DEF About
  <2> QED BY <2>1, <2>2, <1>2
<1>3. "no leaf" \in Faults /\ "no output" \in Faults /\ "bad path" \in Faults
  BY DEF Faults
<1> QED BY <1>1, <1>2, <1>3 DEF Add

LEMMA DelAbout ==
  ASSUME TInv, NEW v \in Views, Del(v)
  PROVE  About(v)
<1> DEFINE n == Leaf(tree, v)
<1>1. CASE tree' = tree /\ root' = root
  BY <1>1, AboutNothing
<1>2. CASE n # NoNode /\ tree' = Erase(tree, n) /\ root' = root
  <2>1. n \in DOMAIN tree /\ tree[n].view = v /\ v # NoView
    BY <1>2, LeafLemma
  <2>2. Linked(tree, root) /\ Placed(tree, {})
    BY DEF TInv, Sound
  <2> HIDE DEF n
  <2>3. Touches(tree, tree', root, v) /\ (One(tree, v) => Untiled(tree', v))
    BY <2>1, <2>2, <1>2, TouchesErase
  <2>4. TiledOnce => One(tree', v)
    BY <2>3 DEF TiledOnce, One, Untiled
  <2> QED BY <2>3, <2>4, <1>2 DEF About
<1> QED BY <1>1, <1>2 DEF Del, Fault

LEMMA SplitAbout ==
  ASSUME TInv, NEW v \in Views, NEW vertical \in BOOLEAN, Split(v, vertical), TInv'
  PROVE  About(v)
<1> DEFINE n == Leaf(tree, v)
           p == tree[n].parent
           opened == [tree EXCEPT ![n].view = NoView, ![n].vertical = vertical]
<1>1. n # NoNode /\ Nodes \ DOMAIN tree # {}
  BY DEF Split
<1>2. /\ n \in DOMAIN tree /\ tree[n].view = v /\ v # NoView
      /\ p \in DOMAIN tree
  BY <1>1, LeafLemma
<1>3. Linked(tree, root) /\ Placed(tree, {})
  BY DEF TInv, Sound
<1>4. Level(tree, n) \in Nat /\ MaxLevel \in Nat
  BY <1>2, <1>3, NodeFacts, TilingAssumption
<1>5. opened = Opened(tree, n, vertical)
  BY DEF Opened
<1>6. /\ DOMAIN opened = DOMAIN tree /\ opened[n].view = NoView
      /\ Level(opened, n) = Level(tree, n)
      /\ Linked(opened, root) /\ Placed(opened, {})
  <2>1. n \in DOMAIN tree /\ tree[n].view # NoView
    BY <1>2
  <2> HIDE DEF n, opened
  <2> DEFINE u == Opened(tree, n, vertical)
  <2>2. DOMAIN u = DOMAIN tree /\ u[n].view = NoView
    BY <2>1, <1>3, OpenLemma
  <2>3. Level(u, n) = Level(tree, n)
    BY <2>1, <1>3, OpenLemma
  <2>4. Linked(u, root) /\ Placed(u, {})
    BY <2>1, <1>3, OpenLemma
  <2> QED BY <2>2, <2>3, <2>4, <1>5
<1>7. Touches(tree, opened, root, v) /\ (One(tree, v) => Untiled(opened, v))
  <2> HIDE DEF n, opened
  <2> QED BY <1>2, <1>3, <1>5, TouchesOpened
<1>8. CASE tree' = [tree EXCEPT ![p].vertical = vertical] /\ root' = root
  <2>1. tree[p] \in NodeType
    BY <1>2, <1>3, NodeFacts
  <2>2. /\ DOMAIN tree' = DOMAIN tree
        /\ \A m \in DOMAIN tree : tree'[m].kids = tree[m].kids
                                  /\ tree'[m].view = tree[m].view
    <3> HIDE DEF p
    <3> QED BY <1>8, <2>1 DEF NodeType
  <2>3. Touches(tree, tree', root, v)
    <3>1. Linked(tree', root)
      BY <1>8 DEF TInv, Sound
    <3> QED BY <3>1, <2>2, <1>3, TouchesSame
  <2>4. TiledOnce => One(tree', v)
    BY <2>2 DEF TiledOnce, One
  <2> QED BY <2>3, <2>4, <1>8 DEF About
<1>9. CASE tree' = tree /\ root' = root
  BY <1>9, AboutNothing
<1>10. CASE /\ RoomBelow(tree, n)
            /\ tree' = Insert(opened, n, Fresh(tree), v)
            /\ root' = root
  <2> HIDE DEF opened, n
  <2>1. Level(opened, n) < MaxLevel
    BY <1>4, <1>6, <1>10 DEF RoomBelow
  <2>2. Fresh(tree) \in Nodes \ DOMAIN opened
    BY <1>1, <1>6, FreshLemma
  <2>3. Touches(opened, tree', root, v) /\ (Untiled(opened, v) => One(tree', v))
    BY <2>1, <2>2, <1>2, <1>6, <1>10, TouchesInsert
  <2>4. Touches(tree, tree', root, v)
    BY <2>3, <1>7, TouchesTwice
  <2> QED BY <2>3, <2>4, <1>7, <1>10 DEF About, TiledOnce
<1>11. CASE tree' = opened /\ root' = root
  <2> HIDE DEF opened
  <2>1. TiledOnce => One(tree', v)
    BY <1>7, <1>11 DEF TiledOnce, Untiled, One
  <2> QED BY <2>1, <1>7, <1>11 DEF About
<1> QED BY <1>8, <1>9, <1>10, <1>11 DEF Split, Fault

LEMMA MergeAbout ==
  ASSUME TInv, NEW v \in Views, Merge(v)
  PROVE  About(v)
<1> DEFINE n == Leaf(tree, v)
           p == tree[n].parent
           g == tree[p].parent
           rest == Erase(tree, n)
<1>1. n # NoNode /\ g # NoNode
  BY DEF Merge
<1>2. n \in DOMAIN tree /\ tree[n].view = v /\ v # NoView /\ p \in DOMAIN tree
  BY <1>1, LeafLemma
<1>3. Linked(tree, root) /\ Placed(tree, {})
  BY DEF TInv, Sound
<1>4. CASE tree' = tree /\ root' = root
  BY <1>4, AboutNothing
<1>5. CASE /\ g \notin Erased(tree, n)
           /\ \E fits \in Fits :
                tree' = IF fits THEN Insert(rest, g, Fresh(rest), v) ELSE rest
           /\ root' = root
  <2> HIDE DEF p
  <2>1. /\ g \in DOMAIN tree /\ tree[g].view = NoView
        /\ Level(tree, p) = Level(tree, g) + 1
    BY <1>1, <1>2, <1>3, ChildFacts
  <2>2. Level(tree, p) <= MaxLevel /\ Level(tree, g) \in Nat /\ MaxLevel \in Nat
    BY <2>1, <1>2, <1>3, NodeFacts, TilingAssumption DEF Related
  <2>3. Level(tree, g) < MaxLevel
    BY <2>1, <2>2
  <2> HIDE DEF n, g, rest
  <2>4. /\ DOMAIN rest = DOMAIN tree \ Erased(tree, n)
        /\ n \in Nodes \ DOMAIN rest
        /\ \A m \in DOMAIN rest : Level(rest, m) = Level(tree, m)
        /\ \A m \in DOMAIN rest : rest[m].view = tree[m].view
    BY <1>2, <1>3, EraseLemma DEF rest
  <2>5. Linked(rest, root) /\ Placed(rest, {})
    BY <1>2, <1>3, EraseLemma DEF rest
  <2>6. Touches(tree, rest, root, v) /\ (One(tree, v) => Untiled(rest, v))
    BY <1>2, <1>3, TouchesErase DEF rest
  <2>7. CASE tree' = rest
    <3>1. TiledOnce => One(tree', v)
      BY <2>6, <2>7 DEF TiledOnce, Untiled, One
    <3> QED BY <3>1, <2>6, <2>7, <1>5 DEF About
  <2>8. CASE tree' = Insert(rest, g, Fresh(rest), v)
    <3>1. g \in DOMAIN rest /\ rest[g].view = NoView /\ Level(rest, g) < MaxLevel
      BY <2>1, <2>3, <2>4, <1>5
    <3>2. Fresh(rest) \in Nodes \ DOMAIN rest
      BY <2>4, FreshLemma
    <3>3. Touches(rest, tree', root, v) /\ (Untiled(rest, v) => One(tree', v))
      BY <3>1, <3>2, <2>5, <2>8, TouchesInsert
    <3>4. Touches(tree, tree', root, v)
      BY <3>3, <2>6, TouchesTwice
    <3> QED BY <3>3, <3>4, <2>6, <1>5 DEF About, TiledOnce
  <2> QED BY <2>7, <2>8, <1>5
<1> QED BY <1>4, <1>5 DEF Merge, Fault

LEMMA ToggleAbout ==
  ASSUME TInv, NEW v \in Views, Toggle(v), TInv'
  PROVE  About(v)
<1> DEFINE p == tree[Leaf(tree, v)].parent
<1>1. p \in DOMAIN tree
  BY LeafLemma DEF Toggle
<1>2. CASE tree' = tree /\ root' = root
  BY <1>2, AboutNothing
<1>3. CASE tree' = [tree EXCEPT ![p].vertical = ~@] /\ root' = root
  <2> HIDE DEF p
  <2>1. Linked(tree, root) /\ Linked(tree', root) /\ tree[p] \in NodeType
    BY <1>1, <1>3, NodeFacts DEF TInv, Sound
  <2>2. /\ DOMAIN tree' = DOMAIN tree
        /\ \A m \in DOMAIN tree : tree'[m].kids = tree[m].kids
                                  /\ tree'[m].view = tree[m].view
    BY <1>3, <2>1 DEF NodeType
  <2>3. Touches(tree, tree', root, v)
    BY <2>1, <2>2, TouchesSame
  <2>4. TiledOnce => One(tree', v)
    BY <2>2 DEF TiledOnce, One
  <2> QED BY <2>3, <2>4, <1>3 DEF About
<1> QED BY <1>2, <1>3 DEF Toggle, Fault

LEMMA ResizeAbout ==
  ASSUME TInv, NEW v \in Views, Resize(v)
  PROVE  About(v)
<1>1. CASE tree' = tree /\ root' = root
  BY <1>1, AboutNothing
<1>2. CASE \E P \in SUBSET DOMAIN tree : tree' = Renumber(tree, P, TRUE) /\ root' = root
  <2>1. PICK P \in SUBSET DOMAIN tree : tree' = Renumber(tree, P, TRUE)
    BY <1>2
  <2>2. Linked(tree, root)
    BY DEF TInv, Sound
  <2>3. Linked(tree', root) /\ Alike(tree', tree)
    BY <2>1, <2>2, RenumberLemma
  <2>4. /\ DOMAIN tree' = DOMAIN tree
        /\ \A m \in DOMAIN tree : tree'[m].kids = tree[m].kids
                                  /\ tree'[m].view = tree[m].view
    BY <2>3 DEF Alike
  <2>5. Touches(tree, tree', root, v)
    BY <2>2, <2>3, <2>4, TouchesSame
  <2>6. TiledOnce => One(tree', v)
    BY <2>4 DEF TiledOnce, One
  <2> QED BY <2>5, <2>6, <1>2 DEF About
<1>3. CASE \E P \in SUBSET {p \in DOMAIN tree :
                                /\ p \in Ancestors(tree, Leaf(tree, v))
                                /\ Len(tree[p].kids) > 1} :
             /\ tree' = Renumber(tree, P, TRUE)
             /\ UNCHANGED <<root, layer, vout, fault>>
  BY <1>2, <1>3
<1> QED BY <1>1, <1>3 DEF Resize, Fault

LEMMA CommandAbout ==
  ASSUME TInv, NEW v \in Views, Command(v), TInv'
  PROVE  About(v)
<1>1. CASE CommandOnLostWindow(v)
  BY <1>1, AboutNothing DEF CommandOnLostWindow, Fault
<1> QED BY <1>1, SplitAbout, MergeAbout, ToggleAbout, ResizeAbout DEF Command

(***************************************************************************)
(* No handler touches more than one window                                 *)
(***************************************************************************)

Kept(v) == \A o \in Outputs : RowBut(o, v)' = RowBut(o, v)

LEMMA AboutKeeps ==
  ASSUME NEW v \in Views, About(v)
  PROVE  Kept(v)
BY DEF About, Touches, Kept, RowBut

LEMMA SameKeeps ==
  ASSUME NEW v, tree' = tree, root' = root
  PROVE  Kept(v)
BY DEF Kept, RowBut

(* A new screen has no windows. *)
LEMMA AddOutputKeeps ==
  ASSUME TInv, NEW o \in Outputs, AddOutput(o), TInv'
  PROVE  Kept(NoView)
<1> DEFINE n == Fresh(tree)
           rec == [parent |-> NoNode, kids |-> <<>>, view |-> NoView,
                   vertical |-> FALSE, coding |-> <<>>, output |-> o]
           R == RowsBelow(tree, NoView)
           Q == RowsBelow(tree', NoView)
<1>1. /\ n \in Nodes /\ n \notin DOMAIN tree /\ root[o] = NoNode
      /\ tree' = Extend(tree, n, rec) /\ root' = [root EXCEPT ![o] = n]
  BY FreshLemma DEF AddOutput
<1>2. Linked(tree, root) /\ root \in [Outputs -> Nodes \cup {NoNode}]
  BY DEF TInv, Sound
<1>3. Linked(tree', root')
  BY DEF TInv, Sound
<1> HIDE DEF n
<1>4. /\ DOMAIN tree' = DOMAIN tree \cup {n}
      /\ tree'[n].view = NoView /\ tree'[n].kids = <<>>
      /\ \A m \in DOMAIN tree : tree'[m] = tree[m]
  BY <1>1 DEF Extend
<1>5. \A m \in DOMAIN tree : Q[m] = R[m]
  <2>1. \A m \in DOMAIN tree \cap DOMAIN tree' : RowsBelow(tree', NoView)[m] = RowsBelow(tree, NoView)[m]
    <3>1. \A m \in DOMAIN tree \cap DOMAIN tree' :
            tree'[m].kids = tree[m].kids /\ tree'[m].view = tree[m].view
      BY <1>4
    <3> QED BY <3>1, <1>2, <1>3, SameRows
  <2> QED BY <2>1, <1>4
<1>6. Q[n] = <<>>
  <2>1. n \in DOMAIN tree'
    BY <1>4
  <2>2. Q[n] = Line(tree', NoView, Q, n)
    BY <2>1, <1>3, RowFacts
  <2>3. Images(<<>>, Q) = <<>>
    BY DEF Images
  <2> HIDE DEF Q
  <2> QED BY <2>2, <2>3, <1>4, FlattenFew DEF Line
<1>7. ASSUME NEW q \in Outputs PROVE RowBut(q, NoView)' = RowBut(q, NoView)
  <2>1. RowBut(q, NoView)' = IF root'[q] = NoNode THEN <<>> ELSE Q[root'[q]]
    BY DEF RowBut
  <2>2. RowBut(q, NoView) = IF root[q] = NoNode THEN <<>> ELSE R[root[q]]
    BY DEF RowBut
  <2>3. root[q] # NoNode => root[q] \in DOMAIN tree
    BY <1>2 DEF Linked, Rooted
  <2>4. n # NoNode
    BY <1>1, TilingAssumption
  <2> HIDE DEF Q, R
  <2>5. CASE q = o
    BY <2>1, <2>2, <2>4, <2>5, <1>1, <1>2, <1>6
  <2>6. CASE q # o
    BY <2>1, <2>2, <2>3, <2>6, <1>1, <1>2, <1>5
  <2> QED BY <2>5, <2>6
<1> QED BY <1>7 DEF Kept

(* Unplugging a screen clears its row. *)
LEMMA RemoveOutputClears ==
  ASSUME TInv, NEW o \in Outputs, RemoveOutput(o), TInv'
  PROVE  /\ root'[o] = NoNode
         /\ \A p \in Outputs : RowOf(p)' = IF p = o THEN <<>> ELSE RowOf(p)
<1> DEFINE R == RowsBelow(tree, NoView)
           Q == RowsBelow(tree', NoView)
<1>1. /\ tree' = [n \in {m \in DOMAIN tree : tree[m].output # o} |-> tree[n]]
      /\ root' = [root EXCEPT ![o] = NoNode]
  BY DEF RemoveOutput
<1>2. Linked(tree, root) /\ root \in [Outputs -> Nodes \cup {NoNode}]
  BY DEF TInv, Sound
<1>3. Linked(tree', root')
  BY DEF TInv, Sound
<1>4. /\ DOMAIN tree' \subseteq DOMAIN tree
      /\ \A m \in DOMAIN tree' : tree'[m] = tree[m]
  BY <1>1
<1>5. \A m \in DOMAIN tree' : Q[m] = R[m]
  <2>1. \A m \in DOMAIN tree \cap DOMAIN tree' : RowsBelow(tree', NoView)[m] = RowsBelow(tree, NoView)[m]
    <3>1. \A m \in DOMAIN tree \cap DOMAIN tree' :
            tree'[m].kids = tree[m].kids /\ tree'[m].view = tree[m].view
      BY <1>4
    <3> QED BY <3>1, <1>2, <1>3, SameRows
  <2> QED BY <2>1, <1>4
<1>6. ASSUME NEW p \in Outputs PROVE RowOf(p)' = IF p = o THEN <<>> ELSE RowOf(p)
  <2>1. RowOf(p)' = IF root'[p] = NoNode THEN <<>> ELSE Q[root'[p]]
    BY DEF RowOf, RowBut
  <2>2. RowOf(p) = IF root[p] = NoNode THEN <<>> ELSE R[root[p]]
    BY DEF RowOf, RowBut
  <2>3. root'[p] # NoNode => root'[p] \in DOMAIN tree'
    BY <1>3 DEF Linked, Rooted
  <2> HIDE DEF Q, R
  <2> QED BY <2>1, <2>2, <2>3, <1>1, <1>2, <1>5
<1> QED BY <1>1, <1>2, <1>6

LEMMA SteadyKeeps ==
  ASSUME TInv, SteadyNext, TInv'
  PROVE  \E v \in Views \cup {NoView} : Kept(v)
<1>1. CASE \E o \in Outputs : AddOutput(o)
  BY <1>1, AddOutputKeeps
<1>2. ASSUME NEW v \in Views, NEW o \in Outputs, Add(v, o) PROVE Kept(v)
  BY <1>2, AddAbout, AboutKeeps
<1>3. ASSUME NEW v \in Views, NEW o \in Outputs, AssignOutput(v, o) PROVE Kept(v)
  BY <1>3, SameKeeps DEF AssignOutput
<1>4. ASSUME NEW v \in Views, Focus(v) PROVE Kept(v)
  BY <1>4, SameKeeps DEF Focus
<1>5. ASSUME NEW v \in Views, Del(v) PROVE Kept(v)
  BY <1>5, DelAbout, AboutKeeps
<1>6. ASSUME NEW v \in Views, Command(v) PROVE Kept(v)
  BY <1>6, CommandAbout, AboutKeeps
<1> QED BY <1>1, <1>2, <1>3, <1>4, <1>5, <1>6 DEF SteadyNext

(* Whatever the outcome of the space checks, a handler adds, drops or moves *)
(* at most one window and keeps the order of all others, on every screen;   *)
(* unplugging a screen clears the row of that screen alone.                 *)
THEOREM NoOtherWindowIsTouched == Spec => TouchesOneWindow
<1>1. ASSUME TInv, Next, TInv'
      PROVE  \/ \E v \in Views \cup {NoView} : Kept(v)
             \/ \E o \in Outputs :
                  /\ root'[o] = NoNode
                  /\ \A p \in Outputs : RowOf(p)' = IF p = o THEN <<>> ELSE RowOf(p)
  BY <1>1, SteadyKeeps, RemoveOutputClears DEF Next
<1>2. TInv /\ TInv' /\ [Next]_vars =>
        [\/ \E v \in Views \cup {NoView} :
              \A o \in Outputs : RowBut(o, v)' = RowBut(o, v)
         \/ \E o \in Outputs :
              /\ root'[o] = NoNode
              /\ \A p \in Outputs : RowOf(p)' = IF p = o THEN <<>> ELSE RowOf(p)
        ]_vars
  BY <1>1 DEF Kept
<1> QED BY <1>2, Invariance, PTL DEF Spec, TouchesOneWindow

(***************************************************************************)
(* The tree of one screen is a row of windows                              *)
(***************************************************************************)

LEMMA WithoutMembers ==
  ASSUME NEW s \in Seq(Views), IsInjective(s), NEW v \in Members(s)
  PROVE  /\ Without(s, v) \in Seq(Views) /\ IsInjective(Without(s, v))
         /\ Members(Without(s, v)) = Members(s) \ {v}
<1> DEFINE k == CHOOSE i \in 1..Len(s) : s[i] = v
<1>1. k \in 1..Len(s) /\ s[k] = v
  BY DEF Members
<1>2. Without(s, v) = RemoveAt(s, k)
  BY DEF Without, Contains, Members
<1> HIDE DEF k
<1> QED BY <1>1, <1>2, CutLemma

(* Only the window a handler is about can come to the trees or leave the    *)
(* layer.                                                                   *)
LEMMA TiledStep ==
  ASSUME TInv, TiledOnce, NEW v \in Views, About(v),
         \A w \in Windows \ {v} : w \in Windows',
         Untiled(tree', v) \/ v \in Windows',
         IsInjective(layer'),
         \A w \in Windows' : vout'[w] \in Outputs
  PROVE  TiledOnce'
<1>1. /\ \A m \in DOMAIN tree' : tree'[m].view \notin {NoView, v} =>
           m \in DOMAIN tree /\ tree[m].view = tree'[m].view
      /\ One(tree', v)
  BY DEF About, Touches
<1>2. ASSUME NEW w \in Views PROVE One(tree', w)
  <2>1. CASE w = v
    BY <2>1, <1>1
  <2>2. CASE w # v
    <3>1. w # NoView /\ One(tree, w)
      BY TilingAssumption DEF TiledOnce
    <3> QED BY <3>1, <2>2, <1>1 DEF One
  <2> QED BY <2>1, <2>2
<1>3. ASSUME NEW n \in DOMAIN tree', tree'[n].view # NoView
      PROVE  tree'[n].view \in Windows'
  <2>1. CASE tree'[n].view = v
    BY <2>1 DEF Untiled
  <2>2. CASE tree'[n].view # v
    <3>1. n \in DOMAIN tree /\ tree[n].view = tree'[n].view
      BY <2>2, <1>1, <1>3
    <3>2. tree[n].view \in Windows
      BY <3>1, <1>3 DEF TiledOnce
    <3> QED BY <3>1, <3>2, <2>2
  <2> QED BY <2>1, <2>2
<1> QED BY <1>2, <1>3 DEF TiledOnce

LEMMA TiledStutter ==
  ASSUME TiledOnce, UNCHANGED <<tree, layer, vout>>
  PROVE  TiledOnce'
BY DEF TiledOnce, One, Windows

LEMMA AddTiled ==
  ASSUME TInv, TiledOnce, NEW v \in Views, NEW o \in Outputs, Add(v, o)
  PROVE  TiledOnce'
<1>1. CASE \E kind \in Faults : Fault(kind)
  BY <1>1, TiledStutter DEF Fault
<1>2. CASE /\ v \notin Windows
           /\ layer' = <<v>> \o layer /\ vout' = [vout EXCEPT ![v] = o]
  <2>1. layer \in Seq(Views) /\ IsInjective(layer) /\ v \notin Members(layer)
    BY <1>2 DEF TInv, TiledOnce, Windows, Members
  <2>2. IsInjective(layer') /\ Members(layer') = Members(layer) \cup {v}
    BY <2>1, <1>2, HeadLemma
  <2>3. Windows' = Windows \cup {v}
    BY <2>2 DEF Windows, Members
  <2>4. \A w \in Windows' : vout'[w] \in Outputs
    BY <2>3, <1>2 DEF TiledOnce, TInv
  <2>5. About(v)
    BY AddAbout
  <2> QED BY <2>2, <2>3, <2>4, <2>5, TiledStep
<1>3. "no leaf" \in Faults /\ "no output" \in Faults /\ "bad path" \in Faults
  BY DEF Faults
<1> QED BY <1>1, <1>2, <1>3 DEF Add

(* On one screen a window that is closed is found, if it is tiled.          *)
LEMMA DelUntiles ==
  ASSUME NEW o, Outputs = {o}, TInv, TiledOnce, NEW v \in Views, v \in Windows,
         \/ Leaf(tree, v) = NoNode /\ tree' = tree
         \/ Leaf(tree, v) # NoNode /\ tree' = Erase(tree, Leaf(tree, v))
  PROVE  Untiled(tree', v)
<1> DEFINE n == Leaf(tree, v)
<1>1. One(tree, v) /\ vout[v] = o
  BY DEF TiledOnce
<1>2. CASE n = NoNode /\ tree' = tree
  <2> DEFINE found == {m \in DOMAIN tree : tree[m].view = v /\ tree[m].output = vout[v]}
  <2>1. \A m \in DOMAIN tree : tree[m].output = vout[v] /\ m # NoNode
    <3>1. \A m \in DOMAIN tree : tree[m] \in NodeType /\ m # NoNode
      BY NodeFacts DEF TInv, Sound
    <3> QED BY <3>1, <1>1 DEF NodeType
  <2>2. found = {}
    <3>1. found # {} => n \in found
      BY DEF Leaf, LeafIn
    <3> HIDE DEF n
    <3> QED BY <3>1, <2>1, <1>2
  <2> QED BY <2>1, <2>2, <1>2 DEF Untiled
<1>3. CASE n # NoNode /\ tree' = Erase(tree, n)
  <2>1. n \in DOMAIN tree /\ tree[n].view = v /\ v # NoView
    BY <1>3, LeafLemma
  <2>2. Linked(tree, root) /\ Placed(tree, {})
    BY DEF TInv, Sound
  <2> HIDE DEF n
  <2> QED BY <2>1, <2>2, <1>1, <1>3, TouchesErase
<1> QED BY <1>2, <1>3

LEMMA DelTiled ==
  ASSUME NEW o, Outputs = {o}, TInv, TiledOnce, NEW v \in Views, Del(v)
  PROVE  TiledOnce'
<1>1. CASE Fault("bad path")
  BY <1>1, TiledStutter DEF Fault
<1>2. CASE /\ v \in Windows
           /\ \/ Leaf(tree, v) = NoNode /\ tree' = tree
              \/ Leaf(tree, v) # NoNode /\ tree' = Erase(tree, Leaf(tree, v))
           /\ layer' = Without(layer, v)
           /\ vout' = [vout EXCEPT ![v] = NoOutput]
  <2>1. layer \in Seq(Views) /\ IsInjective(layer) /\ v \in Members(layer)
    BY <1>2 DEF TInv, TiledOnce, Windows, Members
  <2>2. IsInjective(layer') /\ Members(layer') = Members(layer) \ {v}
    BY <2>1, <1>2, WithoutMembers
  <2>3. Windows' = Windows \ {v}
    BY <2>2 DEF Windows, Members
  <2>4. \A w \in Windows' : vout'[w] \in Outputs
    BY <2>3, <1>2, WindowLemma DEF TiledOnce, TInv
  <2>5. About(v)
    BY DelAbout
  <2>6. Untiled(tree', v)
    <3>1. v \in Windows
      BY <1>2
    <3>2. \/ Leaf(tree, v) = NoNode /\ tree' = tree
          \/ Leaf(tree, v) # NoNode /\ tree' = Erase(tree, Leaf(tree, v))
      BY <1>2
    <3> QED BY <3>1, <3>2, DelUntiles
  <2> QED BY <2>2, <2>3, <2>4, <2>5, <2>6, TiledStep
<1> QED BY <1>1, <1>2 DEF Del

LEMMA FocusTiled ==
  ASSUME TInv, TiledOnce, NEW v \in Views, Focus(v)
  PROVE  TiledOnce'
<1> DEFINE s == Without(layer, v)
<1>1. /\ v \in Windows /\ layer' = <<v>> \o s
      /\ tree' = tree /\ vout' = vout
  BY DEF Focus
<1>2. layer \in Seq(Views) /\ IsInjective(layer) /\ v \in Members(layer)
  BY <1>1 DEF TInv, TiledOnce, Windows, Members
<1>3. s \in Seq(Views) /\ IsInjective(s) /\ Members(s) = Members(layer) \ {v}
  BY <1>2, WithoutMembers
<1> HIDE DEF s
<1>4. IsInjective(layer') /\ Members(layer') = Members(s) \cup {v}
  BY <1>1, <1>3, HeadLemma
<1>5. Windows' = Windows
  BY <1>1, <1>3, <1>4 DEF Windows, Members
<1> QED BY <1>1, <1>4, <1>5 DEF TiledOnce, One

LEMMA AssignTiled ==
  ASSUME TInv, TiledOnce, NEW v \in Views, NEW o \in Outputs, AssignOutput(v, o)
  PROVE  TiledOnce'
<1>1. tree' = tree /\ layer' = layer /\ vout' = [vout EXCEPT ![v] = o]
  BY DEF AssignOutput
<1>2. Windows' = Windows
  BY <1>1 DEF Windows
<1>3. \A w \in Windows : vout'[w] \in Outputs
  BY <1>1, WindowLemma DEF TiledOnce, TInv
<1> QED BY <1>1, <1>2, <1>3 DEF TiledOnce, One

LEMMA AddOutputTiled ==
  ASSUME TInv, TiledOnce, NEW o \in Outputs, AddOutput(o)
  PROVE  TiledOnce'
<1> DEFINE n == Fresh(tree)
           rec == [parent |-> NoNode, kids |-> <<>>, view |-> NoView,
                   vertical |-> FALSE, coding |-> <<>>, output |-> o]
<1>1. tree' = Extend(tree, n, rec) /\ layer' = layer /\ vout' = vout
  BY DEF AddOutput
<1>2. n \notin DOMAIN tree
  BY FreshLemma DEF AddOutput
<1> HIDE DEF n
<1>3. /\ DOMAIN tree' = DOMAIN tree \cup {n} /\ tree'[n].view = NoView
      /\ \A m \in DOMAIN tree : tree'[m] = tree[m]
  BY <1>1, <1>2 DEF Extend
<1>4. Windows' = Windows
  BY <1>1 DEF Windows
<1>5. \A v \in Views : One(tree', v)
  <2>1. \A v \in Views : v # NoView
    BY TilingAssumption
  <2> QED BY <2>1, <1>3 DEF One, TiledOnce
<1>6. \A m \in DOMAIN tree' : tree'[m].view # NoView => tree'[m].view \in Windows
  BY <1>3 DEF TiledOnce
<1> QED BY <1>1, <1>4, <1>5, <1>6 DEF TiledOnce

LEMMA CommandTiled ==
  ASSUME TInv, TiledOnce, NEW v \in Views, Command(v), TInv'
  PROVE  TiledOnce'
<1>1. v \in Windows /\ UNCHANGED <<layer, vout>>
  BY DEF Command, CommandOnLostWindow, Merge, Toggle, Resize, Split, Fault
<1>2. Windows' = Windows
  BY <1>1 DEF Windows
<1>3. About(v)
  BY CommandAbout
<1>4. IsInjective(layer') /\ \A w \in Windows' : vout'[w] \in Outputs
  BY <1>1, <1>2 DEF TiledOnce
<1> QED BY <1>1, <1>2, <1>3, <1>4, TiledStep

LEMMA SteadyTiled ==
  ASSUME NEW o, Outputs = {o}, TInv, TiledOnce, SteadyNext, TInv'
  PROVE  TiledOnce'
<1>1. CASE \E p \in Outputs : AddOutput(p)
  BY <1>1, AddOutputTiled
<1>2. CASE \E v \in Views, p \in Outputs : Add(v, p)
  BY <1>2, AddTiled
<1>3. CASE \E v \in Views, p \in Outputs : AssignOutput(v, p)
  BY <1>3, AssignTiled
<1>4. CASE \E v \in Views : Focus(v)
  BY <1>4, FocusTiled
<1>5. CASE \E v \in Views : Del(v)
  BY <1>5, DelTiled
<1>6. CASE \E v \in Views : Command(v)
  BY <1>6, CommandTiled
<1> QED BY <1>1, <1>2, <1>3, <1>4, <1>5, <1>6 DEF SteadyNext

(* On one screen that stays, a window is tiled once at most, and only while *)
(* it is on the layer.                                                      *)
THEOREM WindowsAreTiledOnce ==
  ASSUME NEW o, Outputs = {o} PROVE SteadySpec => []TiledOnce
<1>1. Init => TiledOnce
  <2>1. SUFFICES ASSUME Init PROVE TiledOnce
    OBVIOUS
  <2>2. DOMAIN tree = {} /\ layer = <<>>
    BY <2>1 DEF Init
  <2>3. Windows = {}
    BY <2>2 DEF Windows
  <2>4. IsInjective(layer)
    BY <2>2 DEF IsInjective
  <2> QED BY <2>2, <2>3, <2>4 DEF TiledOnce, One
<1>2. TInv /\ TInv' /\ TiledOnce /\ [SteadyNext]_vars => TiledOnce'
  BY SteadyTiled, TiledStutter DEF vars
<1> QED BY <1>1, <1>2, SteadyInvariance, PTL DEF SteadySpec

(* The row of a tree on screen o with window v left out. *)
Below(t, r, o, v) == IF r[o] = NoNode THEN <<>> ELSE RowsBelow(t, v)[r[o]]

(* A window is in no place of the row, or in one.                           *)
LEMMA OnePlace ==
  ASSUME NEW t, NEW r, Linked(t, r), NEW o \in Outputs,
         \A m \in DOMAIN t : t[m].output = o,
         NEW v \in Views, One(t, v)
  PROVE  LET x == Below(t, r, o, v)
             y == Below(t, r, o, NoView)
         IN  \/ y = x /\ ~Contains(x, v)
             \/ Slipped(Views, x, y, v)
<1> DEFINE x == Below(t, r, o, v)
           y == Below(t, r, o, NoView)
<1>1. r[o] # NoNode => r[o] \in DOMAIN t
  BY DEF Linked, Rooted
<1>2. CASE r[o] = NoNode
  <2>1. x = <<>> /\ y = <<>>
    BY <1>2 DEF Below
  <2>2. ~Contains(<<>>, v)
    BY DEF Contains
  <2> QED BY <2>1, <2>2
<1>3. CASE r[o] # NoNode /\ Untiled(t, v)
  <2>1. y = x
    BY <1>1, <1>3, UntiledRow DEF Below, Untiled
  <2>2. x \in Seq(Views \ {v})
    BY <1>1, <1>3, RowFacts DEF Below
  <2>3. \A s \in Seq(Views \ {v}) : ~Contains(s, v)
    BY DEF Contains
  <2>4. ~Contains(x, v)
    <3> HIDE DEF x
    <3> QED BY <2>2, <2>3
  <2> QED BY <2>1, <2>4
<1>4. CASE r[o] # NoNode /\ ~Untiled(t, v)
  <2>1. PICK n \in DOMAIN t : t[n].view = v
    BY <1>4 DEF Untiled
  <2>2. \A m \in DOMAIN t : t[m].view = v <=> m = n
    BY <2>1 DEF One
  <2>3. Slipped(Views, RowsBelow(t, v)[r[t[n].output]], RowsBelow(t, NoView)[r[t[n].output]], v)
    BY <2>2, TiledRow
  <2>4. t[n].output = o
    BY <2>1
  <2> QED BY <2>3, <2>4, <1>4 DEF Below
<1> QED BY <1>2, <1>3, <1>4

(* Row y becomes z by a step of the abstract specification about v.         *)
Opens(y, z, v)  == /\ ~Contains(y, v)
                   /\ \E i \in 1..Len(y) + 1 : z = InsertAt(y, i, v)
Closes(y, z, v) == \E i \in 1..Len(y) : y[i] = v /\ z = RemoveAt(y, i)
Moves(y, z, v)  ==
  \E i, j \in 1..Len(y) : y[i] = v /\ z = InsertAt(RemoveAt(y, i), j, v)

(* When only v comes, goes or changes its place, the row makes a step.      *)
LEMMA RowStep ==
  ASSUME NEW v \in Views, NEW x, NEW y, NEW z,
         (y = x /\ ~Contains(x, v)) \/ Slipped(Views, x, y, v),
         (z = x /\ ~Contains(x, v)) \/ Slipped(Views, x, z, v)
  PROVE  z = y \/ Opens(y, z, v) \/ Closes(y, z, v) \/ Moves(y, z, v)
<1>1. CASE y = x /\ z = x
  BY <1>1
<1>2. CASE y = x /\ ~Contains(x, v) /\ Slipped(Views, x, z, v)
  <2>1. /\ Len(z) = Len(x) + 1
        /\ \E i \in 1..Len(z) : InsertAt(x, i, v) = z
    BY <1>2, SlipLemma
  <2> QED BY <2>1, <1>2 DEF Opens
<1>3. CASE Slipped(Views, x, y, v) /\ z = x
  <2>1. \E i \in 1..Len(y) : y[i] = v /\ RemoveAt(y, i) = x
    BY <1>3, SlipLemma
  <2> QED BY <2>1, <1>3 DEF Closes
<1>4. CASE Slipped(Views, x, y, v) /\ Slipped(Views, x, z, v)
  <2>1. PICK i \in 1..Len(y) : y[i] = v /\ RemoveAt(y, i) = x
    BY <1>4, SlipLemma
  <2>2. Len(y) = Len(x) + 1
    BY <1>4, SlipLemma
  <2>3. Len(z) = Len(x) + 1 /\ \E j \in 1..Len(z) : InsertAt(x, j, v) = z
    BY <1>4, SlipLemma
  <2>4. PICK j \in 1..Len(y) : InsertAt(x, j, v) = z
    BY <2>2, <2>3
  <2> QED BY <2>1, <2>4 DEF Moves
<1> QED BY <1>1, <1>2, <1>3, <1>4

LEMMA SteadyRow ==
  ASSUME NEW o, Outputs = {o}, TInv, TInv', TiledOnce, TiledOnce', SteadyNext
  PROVE  Row!Next \/ RowOf(TheOutput)' = RowOf(TheOutput)
<1>1. TheOutput = o /\ o \in Outputs
  BY DEF TheOutput
<1>2. /\ Linked(tree, root)
      /\ \A m \in DOMAIN tree : tree[m].output = o
  BY DEF TInv, Sound, Linked, NodeType
<1>3. /\ Linked(tree', root')
      /\ \A m \in DOMAIN tree' : tree'[m].output = o
  BY DEF TInv, Sound, Linked, NodeType
<1>4. PICK v \in Views \cup {NoView} : Kept(v)
  BY SteadyKeeps
<1> DEFINE x == Below(tree, root, o, v)
           y == Below(tree, root, o, NoView)
           z == Below(tree', root', o, NoView)
<1>5. RowOf(TheOutput) = y /\ RowOf(TheOutput)' = z
  BY <1>1 DEF RowOf, RowBut, Below
<1>6. Below(tree', root', o, v) = x
  BY <1>1, <1>4 DEF Kept, RowBut, Below
<1>7. CASE v = NoView
  BY <1>5, <1>6, <1>7
<1>8. CASE v \in Views
  <2>1. One(tree, v) /\ One(tree', v)
    BY <1>8 DEF TiledOnce
  <2>2. (y = x /\ ~Contains(x, v)) \/ Slipped(Views, x, y, v)
    BY <2>1, <1>1, <1>2, <1>8, OnePlace
  <2>3. (z = x /\ ~Contains(x, v)) \/ Slipped(Views, x, z, v)
    BY <2>1, <1>1, <1>3, <1>6, <1>8, OnePlace
  <2>4. z = y \/ Opens(y, z, v) \/ Closes(y, z, v) \/ Moves(y, z, v)
    <3> HIDE DEF x, y, z
    <3> QED BY <2>2, <2>3, <1>8, RowStep
  <2>5. Opens(y, z, v) => Row!Open(v)
    <3> HIDE DEF x, y, z
    <3> QED BY <1>5 DEF Opens, Row!Open, Row!Contains, Row!InsertAt, Contains, InsertAt
  <2>6. Closes(y, z, v) => Row!Close(v)
    <3> HIDE DEF x, y, z
    <3> QED BY <1>5 DEF Closes, Row!Close, Row!RemoveAt, RemoveAt
  <2>7. Moves(y, z, v) => Row!Move(v)
    <3> HIDE DEF x, y, z
    <3> QED BY <1>5 DEF Moves, Row!Move, Row!InsertAt, Row!RemoveAt, InsertAt, RemoveAt
  <2> HIDE DEF x, y, z
  <2> QED BY <2>4, <2>5, <2>6, <2>7, <1>5, <1>8 DEF Row!Next
<1> QED BY <1>7, <1>8

(* The tree of one screen implements a row of windows, whatever the answers *)
(* of is_subtree_valid: a step opens, closes or moves one window, and none  *)
(* is lost, doubled or reordered by a step that is about another.           *)
THEOREM TreeImplementsRow ==
  ASSUME NEW o, Outputs = {o} PROVE SteadySpec => ImplementsRow
<1>1. Init => Row!Init
  <2>1. o \in Outputs /\ TheOutput = o
    BY DEF TheOutput
  <2> QED BY <2>1 DEF Init, Row!Init, RowOf, RowBut
<1>2. TInv /\ TInv' /\ TiledOnce /\ TiledOnce' /\ [SteadyNext]_vars
        => [Row!Next]_(RowOf(TheOutput))
  <2>1. UNCHANGED vars => RowOf(TheOutput)' = RowOf(TheOutput)
    BY DEF vars, RowOf, RowBut
  <2> QED BY <2>1, SteadyRow
<1> QED BY <1>1, <1>2, SteadyInvariance, WindowsAreTiledOnce,
           PTL DEF SteadySpec, ImplementsRow, Row!Spec
=============================================================================
