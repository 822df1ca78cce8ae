----------------------------- MODULE BindingsProofs -----------------------------
(***************************************************************************)
(* Theorems about Bindings: for any sequences offered, the trie keeps its  *)
(* shape, and on a compositor with one keyboard a grab never outlives the  *)
(* bindings it walks.                                                      *)
(***************************************************************************)
EXTENDS Bindings, SequenceTheorems, TLAPS

(***************************************************************************)
(* Beginnings of sequences                                                 *)
(***************************************************************************)
LEMMA UpToLemma ==
  ASSUME NEW s \in Seq(Press), NEW i \in 1..Len(s)
  PROVE  /\ UpTo(s, i) \in Seq(Press)
         /\ Len(UpTo(s, i)) = i
         /\ UpTo(s, i) # <<>>
<1>1. \A j \in 1..i : s[j] \in Press
  BY SMT
<1>2. UpTo(s, i) \in Seq(Press) /\ Len(UpTo(s, i)) = i
  BY <1>1, SubSeqProperties DEF UpTo
<1> QED  BY <1>2

LEMMA UpToUpTo ==
  ASSUME NEW s \in Seq(Press), NEW i \in 1..Len(s), NEW j \in 1..i
  PROVE  UpTo(UpTo(s, i), j) = UpTo(s, j)
BY SubSeqOfSubSeq, UpToLemma DEF UpTo

(* A node of the walk of s is a beginning of s, and its own walk is part of *)
(* that of s.                                                               *)
LEMMA WalkLemma ==
  ASSUME NEW s \in Seq(Press), NEW p \in Walk(s)
  PROVE  /\ p \in Seq(Press) /\ p # <<>> /\ Len(p) <= Len(s)
         /\ Walk(p) \subseteq Walk(s)
         /\ p \in Walk(p)
         /\ Len(p) = Len(s) => p = s
<1>1. PICK i \in 1..Len(s) : p = UpTo(s, i)
  BY DEF Walk
<1>2. p \in Seq(Press) /\ Len(p) = i /\ p # <<>>
  BY <1>1, UpToLemma
<1>3. Walk(p) \subseteq Walk(s)
  <2> SUFFICES ASSUME NEW j \in 1..i PROVE UpTo(p, j) \in Walk(s)
    BY <1>2 DEF Walk
  <2>1. UpTo(p, j) = UpTo(s, j)
    BY <1>1, UpToUpTo
  <2> QED  BY <2>1 DEF Walk
<1>4. UpTo(p, Len(p)) = p
  BY <1>2, SubSeqFull DEF UpTo
<1>5. p \in Walk(p)
  BY <1>1, <1>2, <1>4 DEF Walk
<1>6. Len(p) = Len(s) => p = s
  BY <1>1, <1>2, SubSeqFull DEF UpTo
<1> QED  BY <1>1, <1>2, <1>3, <1>5, <1>6

LEMMA OwnWalk ==
  ASSUME NEW s \in Seq(Press), s # <<>>
  PROVE  s \in Walk(s)
<1>1. Len(s) \in 1..Len(s)
  BY SMT
<1>2. UpTo(s, Len(s)) = s
  BY SubSeqFull DEF UpTo
<1> QED  BY <1>1, <1>2 DEF Walk

(***************************************************************************)
(* The trie                                                                *)
(***************************************************************************)
Shaped(tree) == Closed(tree) /\ EndsAreLeaves(tree) /\ LeadsOn(tree)

NodesType(tree) ==
  \A s \in DOMAIN tree : /\ s \in Seq(Press) /\ Len(s) <= MaxKeySeq
                         /\ tree[s] \in Actions \cup {None}

(* What the trie promises survives an addition that collides with nothing.  *)
LEMMA GrownLemma ==
  ASSUME NEW tree, NEW s \in Seq(Press), NEW action \in Actions,
         Len(s) <= MaxKeySeq,
         NodesType(tree), Shaped(tree), ~Collides(tree, s)
  PROVE  NodesType(Grown(tree, s, action)) /\ Shaped(Grown(tree, s, action))
<1> DEFINE new == Grown(tree, s, action)
<1>0. None \notin Actions /\ MaxKeySeq \in Nat
  BY BindingsAssumption
<1>1. DOMAIN new = DOMAIN tree \cup Walk(s)
  BY DEF Grown
<1>2. \A p \in DOMAIN new :
        new[p] = IF p = s THEN action ELSE IF p \in DOMAIN tree THEN tree[p] ELSE None
  BY DEF Grown
<1>3. \A p \in Walk(s) : p \in DOMAIN tree => p # s /\ tree[p] = None
  BY DEF Collides
<1>4. s \notin DOMAIN tree
  BY <1>3, OwnWalk DEF Shaped, Closed
<1> HIDE DEF new
<1>5. NodesType(new)
  <2> SUFFICES ASSUME NEW q \in DOMAIN new
               PROVE  /\ q \in Seq(Press) /\ Len(q) <= MaxKeySeq
                      /\ new[q] \in Actions \cup {None}
    BY DEF NodesType
  <2>1. CASE q \in DOMAIN tree
    BY <2>1, <1>2, <1>4 DEF NodesType
  <2>2. CASE q \in Walk(s) /\ q \notin DOMAIN tree
    <3>1. q \in Seq(Press) /\ Len(q) <= Len(s)
      BY <2>2, WalkLemma
    <3>2. Len(q) <= MaxKeySeq
      BY <3>1, <1>0, SMT
    <3> QED  BY <3>1, <3>2, <2>2, <1>2
  <2> QED  BY <2>1, <2>2, <1>1
<1>6. Closed(new)
  <2> SUFFICES ASSUME NEW q \in DOMAIN new
               PROVE  q # <<>> /\ Walk(q) \subseteq DOMAIN new
    BY DEF Closed
  <2>1. CASE q \in DOMAIN tree
    BY <2>1, <1>1 DEF Shaped, Closed
  <2>2. CASE q \in Walk(s)
    BY <2>2, <1>1, WalkLemma
  <2> QED  BY <2>1, <2>2, <1>1
<1>7. EndsAreLeaves(new)
  <2> SUFFICES ASSUME NEW q \in DOMAIN new, NEW p \in Walk(q), p # q
               PROVE  new[p] = None
    BY DEF EndsAreLeaves
  <2>1. CASE q \in DOMAIN tree
    <3>1. p \in DOMAIN tree /\ tree[p] = None
      BY <2>1 DEF Shaped, Closed, EndsAreLeaves
    <3> QED  BY <3>1, <1>1, <1>2, <1>4
  <2>2. CASE q \in Walk(s)
    <3>1. /\ p \in Walk(s) /\ q \in Seq(Press) /\ Len(q) <= Len(s)
          /\ Len(q) = Len(s) => q = s
      BY <2>2, WalkLemma
    <3>2. p \in Seq(Press) /\ Len(p) <= Len(q) /\ (Len(p) = Len(q) => p = q)
      BY <3>1, WalkLemma
    <3>3. p # s
      BY <3>1, <3>2, SMT
    <3> QED  BY <3>1, <3>3, <1>1, <1>2, <1>3
  <2> QED  BY <2>1, <2>2, <1>1
<1>8. LeadsOn(new)
  <2> SUFFICES ASSUME NEW p \in DOMAIN new
               PROVE  \E q \in DOMAIN new : p \in Walk(q) /\ new[q] # None
    BY DEF LeadsOn
  <2>1. CASE p \in DOMAIN tree
    <3>1. PICK q \in DOMAIN tree : p \in Walk(q) /\ tree[q] # None
      BY <2>1 DEF Shaped, LeadsOn
    <3>2. new[q] = tree[q] /\ q \in DOMAIN new
      BY <1>1, <1>2, <1>4
    <3> QED  BY <3>1, <3>2
  <2>2. CASE p \in Walk(s)
    <3>1. s \in Walk(s)
      <4>1. s # <<>>
        BY <2>2, WalkLemma DEF Walk
      <4> QED  BY <4>1, OwnWalk
    <3>2. new[s] = action
      BY <3>1, <1>1, <1>2
    <3> QED  BY <3>1, <3>2, <2>2, <1>0, <1>1
  <2> QED  BY <2>1, <2>2, <1>1
<1> QED  BY <1>5, <1>6, <1>7, <1>8 DEF Shaped, new

LEMMA EmptyShaped == Shaped(<<>>) /\ NodesType(<<>>)
<1>1. DOMAIN <<>> = {}
  BY SMT
<1> QED  BY <1>1 DEF Shaped, NodesType, Closed, EndsAreLeaves, LeadsOn

(* A node with a child is inside the trie.                                  *)
LEMMA InnerLemma ==
  ASSUME NEW tree, NodesType(tree), Shaped(tree),
         NEW q \in DOMAIN tree, HasChild(tree, q)
  PROVE  tree[q] = None
<1>1. PICK r \in DOMAIN tree : Len(r) = Len(q) + 1 /\ UpTo(r, Len(q)) = q
  BY DEF HasChild
<1>2. r \in Seq(Press) /\ q \in Seq(Press) /\ q # <<>>
  BY DEF NodesType, Shaped, Closed
<1>3. Len(q) \in 1..Len(r) /\ q # r
  BY <1>1, <1>2, SMT
<1>4. q \in Walk(r)
  BY <1>1, <1>3 DEF Walk
<1> QED  BY <1>3, <1>4 DEF Shaped, EndsAreLeaves

(***************************************************************************)
(* Types and shape                                                         *)
(***************************************************************************)
IInv == TypeOK /\ TrieShape

LEMMA SplitIInv ==
  IInv <=> /\ BindingsType(main) /\ BindingsType(temp) /\ LoadTypes /\ InputTypes
           /\ Shaped(main.tree) /\ Shaped(temp.tree)
BY DEF IInv, TypeOK, TrieShape, Trees, Shaped

LEMMA OfferedLemma ==
  ASSUME NEW b \in Offered
  PROVE  b.keys \in Seq(Press) /\ Len(b.keys) <= MaxKeySeq /\ b.action \in Actions
BY BindingsAssumption

(* A fresh tw_bindings is empty, of the right type and shape.               *)
LEMMA FreshLemma ==
  ASSUME NEW r
  PROVE  /\ BindingsType(Fresh(r)) /\ Shaped(Fresh(r).tree)
         /\ Fresh(r).root = r /\ Fresh(r).tree = <<>>
<1>1. Fresh(r).root = r /\ Fresh(r).tree = <<>> /\ Fresh(r).apply_list = <<>>
  BY DEF Fresh
<1>2. Fresh(r) = [root |-> Fresh(r).root, tree |-> Fresh(r).tree,
                  apply_list |-> Fresh(r).apply_list]
  BY DEF Fresh
<1>3. BindingsType(Fresh(r))
  BY <1>1, <1>2, EmptyShaped DEF BindingsType, NodesType, Entry
<1> QED  BY <1>1, <1>3, EmptyShaped

(* Another list to apply changes neither trie nor type.                     *)
LEMMA ListLemma ==
  ASSUME NEW b, BindingsType(b), NEW l, l \in Seq(Entry)
  PROVE  /\ BindingsType([b EXCEPT !.apply_list = l])
         /\ [b EXCEPT !.apply_list = l].tree = b.tree
         /\ [b EXCEPT !.apply_list = l].root = b.root
<1> DEFINE new == [b EXCEPT !.apply_list = l]
<1>1. b = [root |-> b.root, tree |-> b.tree, apply_list |-> b.apply_list]
  BY DEF BindingsType
<1>2. new = [root |-> b.root, tree |-> b.tree, apply_list |-> l]
  BY <1>1, SMT
<1>3. new.root = b.root /\ new.tree = b.tree /\ new.apply_list = l
  BY <1>2
<1>4. BindingsType(new)
  BY <1>2, <1>3 DEF BindingsType
<1> QED  BY <1>3, <1>4

(* What libweston is told of a sequence, and of a button.                   *)
LEMMA EntryLemma ==
  ASSUME NEW list, list \in Seq(Entry)
  PROVE  /\ \A p \in Press : Append(list, [type |-> "key", what |-> p]) \in Seq(Entry)
         /\ \A x \in Buttons : Append(list, [type |-> "pointer", what |-> x]) \in Seq(Entry)
<1>1. \A p \in Press : [type |-> "key", what |-> p] \in Entry
  BY DEF Entry
<1>2. \A x \in Buttons : [type |-> "pointer", what |-> x] \in Entry
  BY DEF Entry
<1> QED  BY <1>1, <1>2

LEMMA AnnouncedLemma ==
  ASSUME NEW b, b.apply_list \in Seq(Entry), NEW s, s \in Seq(Press)
  PROVE  Announced(b, s) \in Seq(Entry)
<1>1. s # <<>> => s[1] \in Press
  BY SMT
<1> QED  BY <1>1, EntryLemma DEF Announced

LEMMA RecordLemma ==
  ASSUME NEW r, NEW x, NEW y, NEW t, NEW l,
         NEW b, b = [root |-> r, tree |-> x, apply_list |-> y],
         NEW new, new = [b EXCEPT !.tree = t, !.apply_list = l]
  PROVE  /\ new = [root |-> r, tree |-> t, apply_list |-> l]
         /\ new.root = r /\ new.tree = t /\ new.apply_list = l
<1>1. new = [root |-> r, tree |-> t, apply_list |-> l]
  BY Zenon
<1> QED  BY <1>1

(* tw_bindings_add_key on one tw_bindings.                                  *)
LEMMA AddedLemma ==
  ASSUME NEW b, BindingsType(b), Shaped(b.tree),
         NEW s, s \in Seq(Press), NEW action, action \in Actions, Len(s) <= MaxKeySeq,
         ~Collides(b.tree, s)
  PROVE  LET new == WithKey(b, s, action)
         IN  BindingsType(new) /\ Shaped(new.tree) /\ new.root = b.root
<1> DEFINE l == Announced(b, s)  new == WithKey(b, s, action)
<1>1. b = [root |-> b.root, tree |-> b.tree, apply_list |-> b.apply_list]
  BY DEF BindingsType
<1> DEFINE tree == Grown(b.tree, s, action)
<1>2. /\ new = [root |-> b.root, tree |-> tree, apply_list |-> l]
      /\ new.root = b.root /\ new.tree = tree /\ new.apply_list = l
  <2> HIDE DEF tree
  <2>1. new = [b EXCEPT !.tree = tree, !.apply_list = l]
    BY DEF tree, WithKey
  <2> HIDE DEF new, l
  <2> QED  BY <1>1, <2>1, RecordLemma
<1>3. NodesType(b.tree)
  BY DEF BindingsType, NodesType
<1>4. NodesType(tree) /\ Shaped(tree)
  BY <1>3, GrownLemma
<1> HIDE DEF tree, new
<1>5. l \in Seq(Entry)
  BY AnnouncedLemma DEF BindingsType
<1> HIDE DEF l
<1>6. BindingsType(new)
  BY <1>2, <1>4, <1>5 DEF BindingsType, NodesType
<1> QED  BY <1>2, <1>4, <1>6 DEF new

LEMMA AddKeyStep ==
  ASSUME IInv, NEW b \in Offered, AddKey(b.keys, b.action)
  PROVE  IInv'
<1>1. /\ BindingsType(main) /\ BindingsType(temp) /\ LoadTypes /\ InputTypes
      /\ Shaped(main.tree) /\ Shaped(temp.tree)
  BY SplitIInv
<1>2. InputTypes'
  BY <1>1 DEF AddKey, InputTypes, input
<1>3. CASE refused' = TRUE /\ UNCHANGED <<main, temp>>
  <2>1. LoadTypes'
    BY <1>1, <1>3 DEF AddKey, LoadTypes
  <2>2. BindingsType(main)' /\ BindingsType(temp)' /\ Shaped(main.tree)' /\ Shaped(temp.tree)'
    BY <1>1, <1>3 DEF BindingsType, Shaped, Closed, EndsAreLeaves, LeadsOn
  <2> QED  BY <1>2, <2>1, <2>2 DEF IInv, TypeOK, TrieShape, Trees, Shaped
<1>4. CASE /\ ~Collides(Target.tree, b.keys)
           /\ SetTarget(WithKey(Target, b.keys, b.action))
           /\ UNCHANGED refused
  <2> DEFINE new == WithKey(Target, b.keys, b.action)
  <2>1. BindingsType(Target) /\ Shaped(Target.tree)
    BY <1>1 DEF Target
  <2>2. BindingsType(new) /\ Shaped(new.tree) /\ new.root = Target.root
    <3>1. b.keys \in Seq(Press) /\ Len(b.keys) <= MaxKeySeq /\ b.action \in Actions
      BY OfferedLemma
    <3> QED  BY <1>4, <2>1, <3>1, AddedLemma
  <2>3. IF loading = "main" THEN main' = new /\ UNCHANGED temp
                            ELSE temp' = new /\ UNCHANGED main
    BY <1>4 DEF SetTarget
  <2> HIDE DEF new
  <2>4. /\ BindingsType(main') /\ BindingsType(temp')
        /\ Shaped(main'.tree) /\ Shaped(temp'.tree)
        /\ main'.root = main.root /\ temp'.root = temp.root
    BY <1>1, <2>2, <2>3 DEF Target
  <2>5. LoadTypes'
    BY <1>1, <1>4, <2>4 DEF AddKey, LoadTypes
  <2> QED  BY <1>2, <2>4, <2>5
           DEF IInv, TypeOK, TrieShape, Trees, Shaped, BindingsType, Closed, EndsAreLeaves, LeadsOn
<1> QED  BY <1>3, <1>4, Zenon DEF AddKey

LEMMA AddPointerStep ==
  ASSUME IInv, NEW b \in Buttons, AddPointer(b)
  PROVE  IInv'
<1>1. /\ BindingsType(main) /\ BindingsType(temp) /\ LoadTypes /\ InputTypes
      /\ Shaped(main.tree) /\ Shaped(temp.tree)
  BY SplitIInv
<1>2. InputTypes'
  BY <1>1 DEF AddPointer, InputTypes, input
<1> DEFINE l == Append(Target.apply_list, [type |-> "pointer", what |-> b])
           new == [Target EXCEPT !.apply_list = l]
<1>3. IF loading = "main" THEN main' = new /\ UNCHANGED temp
                          ELSE temp' = new /\ UNCHANGED main
  BY DEF AddPointer, SetTarget
<1>4. BindingsType(Target) /\ Shaped(Target.tree)
  BY <1>1 DEF Target
<1>5. l \in Seq(Entry)
  BY <1>4, EntryLemma DEF BindingsType
<1> HIDE DEF l
<1>6. BindingsType(new) /\ new.tree = Target.tree /\ new.root = Target.root
  BY <1>4, <1>5, ListLemma
<1> HIDE DEF new
<1>7. /\ BindingsType(main') /\ BindingsType(temp')
      /\ Shaped(main'.tree) /\ Shaped(temp'.tree)
      /\ main'.root = main.root /\ temp'.root = temp.root
  BY <1>1, <1>3, <1>4, <1>6 DEF Target
<1>8. LoadTypes'
  BY <1>1, <1>7 DEF AddPointer, LoadTypes
<1> QED  BY <1>2, <1>7, <1>8
         DEF IInv, TypeOK, TrieShape, Trees, Shaped, BindingsType, Closed, EndsAreLeaves, LeadsOn

(* The bindings after a step, given their parts.                            *)
LEMMA JoinIInv ==
  ASSUME BindingsType(main'), BindingsType(temp'), LoadTypes', InputTypes',
         Shaped(main'.tree), Shaped(temp'.tree)
  PROVE  IInv'
BY DEF IInv, TypeOK, TrieShape, Trees, Shaped, BindingsType, Closed, EndsAreLeaves, LeadsOn

LEMMA SwapStep ==
  ASSUME IInv, Swap
  PROVE  IInv'
<1>1. /\ BindingsType(main) /\ BindingsType(temp) /\ LoadTypes /\ InputTypes
      /\ Shaped(main.tree) /\ Shaped(temp.tree)
  BY SplitIInv
<1>2. InputTypes'
  BY <1>1 DEF Swap, InputTypes, input
<1>3. /\ BindingsType(main') /\ Shaped(main'.tree) /\ main'.root = temp.root
  BY <1>1, <<>> \in Seq(Entry), ListLemma DEF Swap
<1>4. BindingsType(temp') /\ Shaped(temp'.tree) /\ temp'.root = None
  BY FreshLemma DEF Swap, NoBindings
<1>5. LoadTypes'
  BY <1>1, <1>3, <1>4, BindingsAssumption DEF Swap, LoadTypes
<1> QED  BY <1>2, <1>3, <1>4, <1>5, JoinIInv

LEMMA DiscardStep ==
  ASSUME IInv, Discard
  PROVE  IInv'
<1>1. /\ BindingsType(main) /\ BindingsType(temp) /\ LoadTypes /\ InputTypes
      /\ Shaped(main.tree) /\ Shaped(temp.tree)
  BY SplitIInv
<1>2. InputTypes'
  BY <1>1 DEF Discard, InputTypes, input
<1>3. BindingsType(temp') /\ Shaped(temp'.tree) /\ temp'.root = None
  BY FreshLemma DEF Discard, NoBindings
<1>4. main' = main
  BY DEF Discard
<1>5. LoadTypes'
  <2>1. None # "temp"
    BY BindingsAssumption
  <2> QED  BY <2>1, <1>1, <1>3, <1>4, BindingsAssumption DEF Discard, LoadTypes
<1> QED  BY <1>1, <1>2, <1>3, <1>4, <1>5, JoinIInv

LEMMA ApplyDefaultStep ==
  ASSUME IInv, ApplyDefault
  PROVE  IInv'
<1>1. /\ BindingsType(main) /\ BindingsType(temp) /\ LoadTypes /\ InputTypes
      /\ Shaped(main.tree) /\ Shaped(temp.tree)
  BY SplitIInv
<1>2. InputTypes'
  BY <1>1 DEF ApplyDefault, InputTypes, input
<1>3. /\ BindingsType(main') /\ Shaped(main'.tree) /\ main'.root = main.root
  BY <1>1, <<>> \in Seq(Entry), ListLemma DEF ApplyDefault
<1>4. temp' = temp
  BY DEF ApplyDefault
<1>5. LoadTypes'
  BY <1>1, <1>3, <1>4, BindingsAssumption DEF ApplyDefault, LoadTypes
<1> QED  BY <1>1, <1>2, <1>3, <1>4, <1>5, JoinIInv

LEMMA LoadsLemma ==
  ASSUME IInv, UNCHANGED loads, InputTypes'
  PROVE  IInv'
BY SplitIInv DEF loads, IInv, TypeOK, TrieShape, Trees, Shaped, LoadTypes, BindingsType,
                 Closed, EndsAreLeaves, LeadsOn

(* reload_config makes new temporary bindings, which are not those in force. *)
LEMMA RunStep ==
  ASSUME IInv, NEW action, Run(action), loading = None, InputTypes'
  PROVE  IInv'
<1>1. /\ BindingsType(main) /\ BindingsType(temp) /\ LoadTypes /\ InputTypes
      /\ Shaped(main.tree) /\ Shaped(temp.tree)
  BY SplitIInv
<1>2. CASE action # Reload
  BY <1>2, LoadsLemma DEF Run
<1>3. CASE action = Reload
  <2>1. PICK r \in Roots : r # main.root /\ temp' = Fresh(r)
    BY <1>3 DEF Run
  <2>2. BindingsType(temp') /\ Shaped(temp'.tree) /\ temp'.root = r
    BY <2>1, FreshLemma
  <2>3. main' = main /\ loading' = "temp" /\ UNCHANGED <<refused, startup>>
    BY <1>3 DEF Run
  <2>4. LoadTypes'
    BY <1>1, <2>1, <2>2, <2>3, BindingsAssumption DEF LoadTypes
  <2> QED  BY <1>1, <2>2, <2>3, <2>4, JoinIInv
<1> QED  BY <1>2, <1>3

LEMMA FollowStep ==
  ASSUME IInv, NEW k \in Keyboards, NEW g, NEW p \in Press, Follow(k, g, p),
         loading = None, held' \in [Keyboards -> SUBSET Modifiers]
  PROVE  IInv'
<1> DEFINE q == Append(g.node, p)
<1>1. InputTypes /\ BindingsType(main)
  BY SplitIInv
<1>2. fault' \in {"none", "freed node"}
  BY DEF Follow
<1>3. CASE q \in DOMAIN main.tree /\ HasChild(main.tree, q)
  <2>1. /\ grab' = [grab EXCEPT ![k] = [root |-> main.root, node |-> q]]
        /\ UNCHANGED <<loads, ran>>
    BY <1>3 DEF Follow, Hit
  <2>2. InputTypes'
    BY <1>1, <1>2, <2>1 DEF InputTypes
  <2> QED  BY <2>1, <2>2, LoadsLemma
<1>4. CASE q \in DOMAIN main.tree /\ ~HasChild(main.tree, q)
  <2>1. grab' = [grab EXCEPT ![k] = NoGrab] /\ Run(main.tree[q])
    BY <1>4 DEF Follow, Hit
  <2>2. ran' = main.tree[q]
    BY <2>1 DEF Run
  <2>3. InputTypes'
    BY <1>1, <1>2, <1>4, <2>1, <2>2 DEF InputTypes, BindingsType
  <2> QED  BY <2>1, <2>3, RunStep
<1>5. CASE q \notin DOMAIN main.tree
  <2>1. grab' = [grab EXCEPT ![k] = NoGrab] /\ UNCHANGED <<loads, ran>>
    BY <1>5 DEF Follow
  <2>2. InputTypes'
    BY <1>1, <1>2, <2>1 DEF InputTypes
  <2> QED  BY <2>1, <2>2, LoadsLemma
<1> QED  BY <1>3, <1>4, <1>5

LEMMA TypedStep ==
  ASSUME IInv, NEW k \in Keyboards, Typed(k)
  PROVE  IInv'
<1>1. InputTypes
  BY SplitIInv
<1>2. ASSUME NEW key \in Keys, PressKey(k, key) PROVE IInv'
  <2> DEFINE p == [key |-> key, mods |-> held[k]]
  <2>1. p \in Press
    BY <1>1 DEF Press, InputTypes
  <2>2. PICK g : Follow(k, g, p)
    BY <1>2, Zenon DEF PressKey
  <2>3. loading = None /\ held' \in [Keyboards -> SUBSET Modifiers]
    BY <1>1, <1>2 DEF PressKey, InputTypes
  <2> HIDE DEF p
  <2> QED  BY <2>1, <2>2, <2>3, FollowStep
<1>3. ASSUME NEW m \in Modifiers, PressModifier(k, m) PROVE IInv'
  <2>1. InputTypes'
    BY <1>1, <1>3 DEF PressModifier, InputTypes
  <2> QED  BY <1>3, <2>1, LoadsLemma DEF PressModifier
<1>4. ASSUME NEW m \in Modifiers, ReleaseModifier(k, m) PROVE IInv'
  <2>1. InputTypes'
    BY <1>1, <1>4 DEF ReleaseModifier, InputTypes
  <2> QED  BY <1>4, <2>1, LoadsLemma DEF ReleaseModifier
<1>5. CASE Cancel(k)
  <2>1. InputTypes'
    BY <1>1, <1>5 DEF Cancel, InputTypes
  <2> QED  BY <1>5, <2>1, LoadsLemma DEF Cancel
<1> QED  BY <1>2, <1>3, <1>4, <1>5 DEF Typed

LEMMA InitIInv == Init => IInv
<1> SUFFICES ASSUME Init PROVE IInv
  OBVIOUS
<1>1. PICK r, s \in Roots : r # s /\ main = Fresh(r) /\ temp = Fresh(s)
  BY DEF Init
<1>2. /\ BindingsType(main) /\ Shaped(main.tree) /\ main.root = r
      /\ BindingsType(temp) /\ Shaped(temp.tree) /\ temp.root = s
  BY <1>1, FreshLemma
<1>3. LoadTypes
  BY <1>1, <1>2, BindingsAssumption DEF Init, LoadTypes
<1>4. InputTypes
  BY DEF Init, InputTypes
<1> QED  BY <1>2, <1>3, <1>4, SplitIInv

LEMMA NextIInv == IInv /\ [Next]_vars => IInv'
<1> SUFFICES ASSUME IInv, [Next]_vars PROVE IInv'
  OBVIOUS
<1>1. CASE UNCHANGED vars
  BY <1>1, SplitIInv, LoadsLemma DEF vars, loads, input, InputTypes
<1>2. CASE Install
  <2>1. CASE \E b \in Offered : AddKey(b.keys, b.action)
    BY <2>1, AddKeyStep
  <2>2. CASE \E b \in Buttons : AddPointer(b)
    BY <2>2, AddPointerStep
  <2> QED  BY <1>2, <2>1, <2>2 DEF Install
<1>3. CASE Swap
  BY <1>3, SwapStep
<1>4. CASE Discard
  BY <1>4, DiscardStep
<1>5. CASE ApplyDefault
  BY <1>5, ApplyDefaultStep
<1>6. CASE \E k \in Keyboards : Typed(k)
  BY <1>6, TypedStep
<1> QED  BY <1>1, <1>2, <1>3, <1>4, <1>5, <1>6 DEF Next

(* The bindings, in force and on trial, what is being installed, and the    *)
(* grabs keep their types; the two are never the same bindings.             *)
THEOREM BindingsTypes == Spec => []TypeOK
<1>1. IInv => TypeOK
  BY DEF IInv
<1> QED  BY <1>1, InitIInv, NextIInv, PTL DEF Spec

(* Whatever sequences configurations offer, in whatever order, and whichever *)
(* are refused: the tries stay closed, bound at exactly their leaves, with   *)
(* every node on the way to one.                                             *)
THEOREM TriesKeepShape == Spec => []TrieShape
<1>1. IInv => TrieShape
  BY DEF IInv
<1> QED  BY <1>1, InitIInv, NextIInv, PTL DEF Spec

(***************************************************************************)
(* What libweston knows                                                    *)
(***************************************************************************)

(* The places of a press in a list to apply, and that the list has each     *)
(* first press of the trie once and no other.                               *)
Places(l, p) == {i \in DOMAIN l : l[i].type = "key" /\ l[i].what = p}
Listed(b) ==
  \A p \in Press : IF <<p>> \in DOMAIN b.tree
                   THEN \E i \in DOMAIN b.apply_list : Places(b.apply_list, p) = {i}
                   ELSE Places(b.apply_list, p) = {}

SInv == /\ StartsOnce
        /\ loading = "temp" => Listed(temp)
        /\ loading = "main" => Listed(main)
        /\ startup => loading = "temp" /\ main = Fresh(main.root)

LEMMA FreshListed == ASSUME NEW r PROVE Listed(Fresh(r))
<1>1. Fresh(r).apply_list = <<>> /\ Fresh(r).tree = <<>>
  BY DEF Fresh
<1>2. DOMAIN <<>> = {}
  BY SMT
<1> QED  BY <1>1, <1>2 DEF Listed, Places

LEMMA PlacesOfAppend ==
  ASSUME NEW l, l \in Seq(Entry), NEW e, e \in Entry, NEW p
  PROVE  Places(Append(l, e), p) =
           Places(l, p) \cup (IF e.type = "key" /\ e.what = p THEN {Len(l) + 1} ELSE {})
<1> DEFINE n == Append(l, e)
<1>1. /\ n \in Seq(Entry) /\ Len(n) = Len(l) + 1 /\ n[Len(l) + 1] = e
      /\ \A i \in 1..Len(l) : n[i] = l[i]
      /\ Len(l) \in Nat /\ DOMAIN l = 1..Len(l)
  BY SMT
<1>2. DOMAIN n = (DOMAIN l) \cup {Len(l) + 1}
  <2>1. DOMAIN n = 1..Len(n)
    BY <1>1, SMT
  <2> QED  BY <1>1, <2>1, SMT
<1> HIDE DEF n
<1>3. Places(n, p) = Places(l, p) \cup (IF e.type = "key" /\ e.what = p THEN {Len(l) + 1} ELSE {})
  BY <1>1, <1>2 DEF Places
<1> QED  BY <1>3 DEF n

LEMMA FirstPress ==
  ASSUME NEW s, s \in Seq(Press), s # <<>>
  PROVE  1 \in 1..Len(s) /\ s[1] \in Press /\ UpTo(s, 1) = <<s[1]>>
<1>1. 1 \in 1..Len(s) /\ \A i \in 1..1 : s[i] \in Press
  BY SMT
<1>2. /\ UpTo(s, 1) \in Seq(Press) /\ Len(UpTo(s, 1)) = 1
      /\ UpTo(s, 1)[1] = s[1]
  BY <1>1, SubSeqProperties DEF UpTo
<1> QED  BY <1>1, <1>2, SMT

(* A one-press sequence starts s exactly if it is the first press of s.     *)
LEMMA FirstLemma ==
  ASSUME NEW s \in Seq(Press), NEW p \in Press
  PROVE  <<p>> \in Walk(s) <=> s # <<>> /\ s[1] = p
<1>1. s # <<>> => 1 \in 1..Len(s) /\ UpTo(s, 1) = <<s[1]>>
  BY FirstPress
<1>2. ASSUME <<p>> \in Walk(s) PROVE s # <<>> /\ s[1] = p
  <2>1. PICK i \in 1..Len(s) : <<p>> = UpTo(s, i)
    BY <1>2 DEF Walk
  <2>2. i = 1
    BY <2>1, UpToLemma, Len(<<p>>) = 1
  <2>3. s # <<>>
    BY <2>1, SMT
  <2>4. <<p>> = <<s[1]>>
    BY <1>1, <2>1, <2>2, <2>3
  <2> QED  BY <2>3, <2>4
<1>3. ASSUME s # <<>>, s[1] = p PROVE <<p>> \in Walk(s)
  BY <1>1, <1>3 DEF Walk
<1> QED  BY <1>2, <1>3

LEMMA WithKeyListed ==
  ASSUME NEW b, BindingsType(b), Shaped(b.tree), Listed(b), NEW s, s \in Seq(Press), NEW action
  PROVE  Listed(WithKey(b, s, action))
<1> DEFINE new == WithKey(b, s, action)  tree == Grown(b.tree, s, action)
           l == Announced(b, s)
<1>1. new.tree = tree /\ new.apply_list = l
  <2>1. b = [root |-> b.root, tree |-> b.tree, apply_list |-> b.apply_list]
    BY DEF BindingsType
  <2>2. new = [b EXCEPT !.tree = tree, !.apply_list = l]
    BY DEF WithKey
  <2> HIDE DEF new, tree, l
  <2> QED  BY <2>1, <2>2, RecordLemma
<1>2. DOMAIN tree = DOMAIN b.tree \cup Walk(s)
  BY DEF Grown
<1>3. b.apply_list \in Seq(Entry)
  BY DEF BindingsType
<1>4. s # <<>> => s[1] \in Press /\ UpTo(s, 1) = <<s[1]>>
  BY FirstPress
<1> HIDE DEF new, tree
<1>5. SUFFICES ASSUME NEW p \in Press
               PROVE  IF <<p>> \in DOMAIN tree
                      THEN \E i \in DOMAIN l : Places(l, p) = {i}
                      ELSE Places(l, p) = {}
  BY <1>1 DEF Listed, new
<1>6. IF <<p>> \in DOMAIN b.tree
      THEN \E i \in DOMAIN b.apply_list : Places(b.apply_list, p) = {i}
      ELSE Places(b.apply_list, p) = {}
  BY DEF Listed
<1>7. <<p>> \in Walk(s) <=> s # <<>> /\ s[1] = p
  BY FirstLemma
<1>8. CASE s # <<>> /\ UpTo(s, 1) \notin DOMAIN b.tree
  <2> DEFINE e == [type |-> "key", what |-> s[1]]
  <2>1. e \in Entry /\ e.type = "key" /\ e.what = s[1]
    BY <1>4, <1>8 DEF Entry
  <2>2. l = Append(b.apply_list, e)
    BY <1>8 DEF Announced
  <2> HIDE DEF e, l
  <2>3. Places(l, p) = Places(b.apply_list, p) \cup (IF s[1] = p THEN {Len(b.apply_list) + 1} ELSE {})
    BY <1>3, <2>1, <2>2, PlacesOfAppend
  <2>4. DOMAIN b.apply_list \subseteq DOMAIN l /\ Len(b.apply_list) + 1 \in DOMAIN l
    BY <1>3, <2>1, <2>2, SMT
  <2>5. CASE s[1] = p
    <3>1. <<p>> \notin DOMAIN b.tree /\ <<p>> \in DOMAIN tree
      BY <1>2, <1>4, <1>7, <1>8, <2>5
    <3> QED  BY <1>6, <2>3, <2>4, <2>5, <3>1
  <2>6. CASE s[1] # p
    <3>1. <<p>> \in DOMAIN tree <=> <<p>> \in DOMAIN b.tree
      BY <1>2, <1>7, <2>6
    <3> QED  BY <1>6, <2>3, <2>4, <2>6, <3>1
  <2> QED  BY <2>5, <2>6
<1>9. CASE ~(s # <<>> /\ UpTo(s, 1) \notin DOMAIN b.tree)
  <2>1. l = b.apply_list
    BY <1>9 DEF Announced
  <2>2. <<p>> \in DOMAIN tree <=> <<p>> \in DOMAIN b.tree
    BY <1>2, <1>4, <1>7, <1>9
  <2> QED  BY <1>6, <2>1, <2>2
<1> QED  BY <1>8, <1>9

(* libweston told of a list.                                                *)
LEMMA ToldLemma ==
  ASSUME NEW b, Listed(b), b.apply_list \in Seq(Entry)
  PROVE  /\ \A e \in Told(b) : e.root = b.root
         /\ \A p \in Press :
              IF <<p>> \in DOMAIN b.tree
              THEN \E e \in Told(b) : {x \in Told(b) : x.type = "key" /\ x.what = p} = {e}
              ELSE {x \in Told(b) : x.type = "key" /\ x.what = p} = {}
<1> DEFINE l == b.apply_list
           T(i) == [type |-> l[i].type, what |-> l[i].what, root |-> b.root, place |-> i]
<1>1. Told(b) = {T(i) : i \in DOMAIN l}
  BY DEF Told
<1>2. \A i : /\ T(i).type = l[i].type /\ T(i).what = l[i].what
             /\ T(i).root = b.root /\ T(i).place = i
  OBVIOUS
<1> HIDE DEF T, l
<1>3. SUFFICES ASSUME NEW p \in Press
      PROVE  IF <<p>> \in DOMAIN b.tree
             THEN \E e \in Told(b) : {x \in Told(b) : x.type = "key" /\ x.what = p} = {e}
             ELSE {x \in Told(b) : x.type = "key" /\ x.what = p} = {}
  BY <1>1, <1>2
<1>4. {x \in Told(b) : x.type = "key" /\ x.what = p} = {T(i) : i \in Places(l, p)}
  BY <1>1, <1>2 DEF Places
<1>5. CASE <<p>> \in DOMAIN b.tree
  <2>1. PICK i \in DOMAIN l : Places(l, p) = {i}
    BY <1>5 DEF Listed, l
  <2> QED  BY <1>1, <1>4, <1>5, <2>1
<1>6. CASE <<p>> \notin DOMAIN b.tree
  <2>1. Places(l, p) = {}
    BY <1>6 DEF Listed, l
  <2> QED  BY <1>4, <1>6, <2>1
<1> QED  BY <1>5, <1>6

(* Nothing libweston knows, and none of the bindings, changes.              *)
LEMMA LoadsSInv ==
  ASSUME SInv, UNCHANGED loads
  PROVE  SInv'
BY DEF SInv, StartsOnce, Matching, Listed, Fresh, loads

LEMMA AddKeySInv ==
  ASSUME IInv, SInv, NEW b \in Offered, AddKey(b.keys, b.action)
  PROVE  SInv'
<1>1. /\ BindingsType(main) /\ BindingsType(temp) /\ LoadTypes
      /\ Shaped(main.tree) /\ Shaped(temp.tree)
  BY SplitIInv
<1>2. UNCHANGED <<weston, loading, startup>> /\ loading # None
  BY DEF AddKey
<1>3. loading = "main" \/ loading = "temp"
  BY <1>1, <1>2 DEF LoadTypes
<1>4. CASE UNCHANGED <<main, temp>>
  BY <1>2, <1>4 DEF SInv, StartsOnce, Matching, Listed, Fresh
<1>5. CASE SetTarget(WithKey(Target, b.keys, b.action))
  <2> DEFINE new == WithKey(Target, b.keys, b.action)
  <2>1. BindingsType(Target) /\ Shaped(Target.tree) /\ Listed(Target)
    BY <1>1, <1>3 DEF Target, SInv
  <2>2. Listed(new)
    BY <2>1, OfferedLemma, WithKeyListed
  <2>3. new.root = Target.root
    <3>1. Target = [root |-> Target.root, tree |-> Target.tree, apply_list |-> Target.apply_list]
      BY <2>1 DEF BindingsType
    <3> DEFINE tree == Grown(Target.tree, b.keys, b.action)  l == Announced(Target, b.keys)
    <3>2. new = [Target EXCEPT !.tree = tree, !.apply_list = l]
      BY DEF WithKey
    <3> HIDE DEF new, tree, l
    <3> QED  BY <3>1, <3>2, RecordLemma
  <2> HIDE DEF new
  <2>4. CASE loading = "main"
    <3>1. main' = new /\ temp' = temp /\ Target = main
      BY <1>5, <2>4 DEF SetTarget, Target, new
    <3>2. ~startup /\ \A e \in weston : e.root = main.root
      BY <2>4 DEF SInv, StartsOnce
    <3> QED  BY <1>2, <2>2, <2>3, <2>4, <3>1, <3>2 DEF SInv, StartsOnce, Listed
  <2>5. CASE loading = "temp"
    <3>1. temp' = new /\ main' = main
      BY <1>5, <2>5 DEF SetTarget, new
    <3>2. StartsOnce'
      BY <1>2, <3>1 DEF SInv, StartsOnce, Matching
    <3> QED  BY <1>2, <2>2, <2>5, <3>1, <3>2 DEF SInv, Listed, Fresh
  <2> QED  BY <1>3, <2>4, <2>5
<1> QED  BY <1>4, <1>5, Zenon DEF AddKey

LEMMA AddPointerSInv ==
  ASSUME IInv, SInv, NEW b \in Buttons, AddPointer(b)
  PROVE  SInv'
<1>1. BindingsType(main) /\ BindingsType(temp) /\ LoadTypes
  BY SplitIInv
<1>2. UNCHANGED <<weston, loading, startup>> /\ loading # None
  BY DEF AddPointer
<1>3. loading = "main" \/ loading = "temp"
  BY <1>1, <1>2 DEF LoadTypes
<1> DEFINE e == [type |-> "pointer", what |-> b]
           l == Append(Target.apply_list, e)
           new == [Target EXCEPT !.apply_list = l]
<1>4. IF loading = "main" THEN main' = new /\ UNCHANGED temp
                          ELSE temp' = new /\ UNCHANGED main
  BY DEF AddPointer, SetTarget
<1>5. BindingsType(Target) /\ Listed(Target)
  BY <1>1, <1>3 DEF Target, SInv
<1>6. e \in Entry /\ e.type # "key"
  BY DEF Entry
<1>7. Target.apply_list \in Seq(Entry)
  BY <1>5 DEF BindingsType
<1> HIDE DEF e
<1>8. l \in Seq(Entry) /\ DOMAIN Target.apply_list \subseteq DOMAIN l
  BY <1>6, <1>7, SMT
<1>9. ASSUME NEW p \in Press PROVE Places(l, p) = Places(Target.apply_list, p)
  <2> DEFINE old == Target.apply_list
  <2>1. old \in Seq(Entry) /\ l = Append(old, e)
    BY <1>7
  <2> HIDE DEF old, l
  <2>2. Places(l, p) = Places(old, p) \cup (IF e.type = "key" /\ e.what = p THEN {Len(old) + 1} ELSE {})
    BY <1>6, <2>1, PlacesOfAppend
  <2> QED  BY <1>6, <2>2 DEF old
<1> HIDE DEF l
<1>10. /\ new.tree = Target.tree /\ new.root = Target.root /\ new.apply_list = l
  BY <1>5, <1>8, ListLemma
<1> HIDE DEF new
<1>11. Listed(new)
  BY <1>5, <1>8, <1>9, <1>10 DEF Listed
<1>12. CASE loading = "main"
  <2>1. main' = new /\ temp' = temp /\ Target = main
    BY <1>4, <1>12 DEF Target
  <2>2. ~startup /\ \A x \in weston : x.root = main.root
    BY <1>12 DEF SInv, StartsOnce
  <2> QED  BY <1>2, <1>10, <1>11, <1>12, <2>1, <2>2 DEF SInv, StartsOnce, Listed
<1>13. CASE loading = "temp"
  <2>1. temp' = new /\ main' = main
    BY <1>4, <1>13
  <2>2. StartsOnce'
    BY <1>2, <2>1 DEF SInv, StartsOnce, Matching
  <2> QED  BY <1>2, <1>11, <1>13, <2>1, <2>2 DEF SInv, Listed, Fresh
<1> QED  BY <1>3, <1>12, <1>13

(* Bindings taken over are the only ones libweston knows afterwards.        *)
LEMMA ToldStarts ==
  ASSUME NEW b, Listed(b), b.apply_list \in Seq(Entry),
         main'.tree = b.tree, main'.root = b.root,
         weston' = Told(b)
  PROVE  StartsOnce'
<1>1. /\ \A e \in weston' : e.root = main'.root
      /\ \A p \in Press :
           IF <<p>> \in DOMAIN main'.tree
           THEN \E e \in weston' : {x \in weston' : x.type = "key" /\ x.what = p} = {e}
           ELSE {x \in weston' : x.type = "key" /\ x.what = p} = {}
  BY ToldLemma
<1> QED  BY <1>1 DEF StartsOnce, Matching

LEMMA SwapSInv ==
  ASSUME IInv, SInv, Swap
  PROVE  SInv'
<1>1. BindingsType(temp) /\ LoadTypes
  BY SplitIInv
<1>2. Listed(temp) /\ \A e \in weston : e.root = main.root
  BY DEF SInv, Swap, StartsOnce
<1>3. temp.apply_list \in Seq(Entry)
  BY <1>1 DEF BindingsType
<1>4. main'.tree = temp.tree /\ main'.root = temp.root
  BY <1>1, <<>> \in Seq(Entry), ListLemma DEF Swap
<1>5. weston' = Told(temp)
  <2>1. Forgotten(main.root) = {}
    BY <1>2 DEF Forgotten
  <2> QED  BY <2>1 DEF Swap
<1>6. StartsOnce'
  BY <1>2, <1>3, <1>4, <1>5, ToldStarts
<1>7. loading' = None /\ startup' = FALSE /\ None \notin {"temp", "main"}
  BY BindingsAssumption DEF Swap
<1> QED  BY <1>6, <1>7 DEF SInv

LEMMA ApplyDefaultSInv ==
  ASSUME IInv, SInv, ApplyDefault
  PROVE  SInv'
<1>1. BindingsType(main) /\ LoadTypes
  BY SplitIInv
<1>2. Listed(main) /\ ~startup /\ \A e \in weston : e.root = main.root
  BY DEF SInv, ApplyDefault, StartsOnce
<1>3. main.apply_list \in Seq(Entry)
  BY <1>1 DEF BindingsType
<1>4. main'.tree = main.tree /\ main'.root = main.root
  BY <1>1, <<>> \in Seq(Entry), ListLemma DEF ApplyDefault
<1>5. weston' = Told(main)
  <2>1. Forgotten(main.root) = {}
    BY <1>2 DEF Forgotten
  <2> QED  BY <2>1 DEF ApplyDefault
<1>6. StartsOnce'
  BY <1>2, <1>3, <1>4, <1>5, ToldStarts
<1>7. loading' = None /\ startup' = startup /\ None \notin {"temp", "main"}
  BY BindingsAssumption DEF ApplyDefault
<1> QED  BY <1>2, <1>6, <1>7 DEF SInv

LEMMA DiscardSInv ==
  ASSUME SInv, Discard
  PROVE  SInv'
<1>1. /\ UNCHANGED <<main, weston>> /\ startup' = FALSE
      /\ loading = "temp" /\ loading' = IF startup THEN "main" ELSE None
      /\ None \notin {"temp", "main"}
  BY BindingsAssumption DEF Discard
<1>2. StartsOnce'
  BY <1>1 DEF SInv, StartsOnce, Matching
<1>3. loading' = "main" => Listed(main)'
  <2>1. startup => Listed(main)
    BY FreshListed DEF SInv
  <2>2. Listed(main) => Listed(main)'
    BY <1>1 DEF Listed
  <2> QED  BY <1>1, <2>1, <2>2
<1> QED  BY <1>1, <1>2, <1>3 DEF SInv

LEMMA RunSInv ==
  ASSUME SInv, NEW action, Run(action), loading = None
  PROVE  SInv'
<1>1. CASE action # Reload
  BY <1>1, LoadsSInv DEF Run
<1>2. CASE action = Reload
  <2>1. PICK r \in Roots : temp' = Fresh(r)
    BY <1>2 DEF Run
  <2>2. /\ UNCHANGED <<main, weston, startup>> /\ loading' = "temp"
        /\ None \notin {"temp", "main"}
    BY <1>2, BindingsAssumption DEF Run
  <2>3. Listed(temp')
    BY <2>1, FreshListed
  <2>4. StartsOnce'
    BY <2>2 DEF SInv, StartsOnce, Matching
  <2>5. ~startup
    BY <2>2 DEF SInv
  <2> QED  BY <2>2, <2>3, <2>4, <2>5 DEF SInv, Listed
<1> QED  BY <1>1, <1>2

LEMMA TypedSInv ==
  ASSUME SInv, NEW k \in Keyboards, Typed(k)
  PROVE  SInv'
<1>1. ASSUME NEW key \in Keys, PressKey(k, key) PROVE SInv'
  <2> DEFINE p == [key |-> key, mods |-> held[k]]
  <2>1. loading = None
    BY <1>1 DEF PressKey
  <2>2. PICK g : Follow(k, g, p)
    BY <1>1, Zenon DEF PressKey
  <2> HIDE DEF p
  <2>3. UNCHANGED loads \/ Run(main.tree[Append(g.node, p)])
    BY <2>2 DEF Follow, Hit
  <2> QED  BY <2>1, <2>3, LoadsSInv, RunSInv
<1>2. (\E m \in Modifiers : PressModifier(k, m) \/ ReleaseModifier(k, m)) \/ Cancel(k)
        => UNCHANGED loads
  BY DEF PressModifier, ReleaseModifier, Cancel
<1> QED  BY <1>1, <1>2, LoadsSInv DEF Typed

LEMMA InitSInv == Init => SInv
<1> SUFFICES ASSUME Init PROVE SInv
  OBVIOUS
<1>1. PICK r, s \in Roots : r # s /\ main = Fresh(r) /\ temp = Fresh(s)
  BY DEF Init
<1>2. main.tree = <<>> /\ main = Fresh(main.root)
  BY <1>1, FreshLemma
<1>3. DOMAIN <<>> = {}
  BY SMT
<1>4. StartsOnce
  BY <1>2, <1>3 DEF Init, StartsOnce, Matching
<1>5. Listed(temp)
  BY <1>1, FreshListed
<1> QED  BY <1>2, <1>4, <1>5 DEF Init, SInv

LEMMA NextSInv == IInv /\ SInv /\ [Next]_vars => SInv'
<1> SUFFICES ASSUME IInv, SInv, [Next]_vars PROVE SInv'
  OBVIOUS
<1>1. CASE UNCHANGED vars
  BY <1>1, LoadsSInv DEF vars
<1>2. CASE Install
  BY <1>2, AddKeySInv, AddPointerSInv DEF Install
<1>3. CASE Swap
  BY <1>3, SwapSInv
<1>4. CASE Discard
  BY <1>4, DiscardSInv
<1>5. CASE ApplyDefault
  BY <1>5, ApplyDefaultSInv
<1>6. CASE \E k \in Keyboards : Typed(k)
  BY <1>6, TypedSInv
<1> QED  BY <1>1, <1>2, <1>3, <1>4, <1>5, <1>6 DEF Next

(* libweston starts a sequence for each first press of the running           *)
(* configuration once, for no other, and for no configuration that is gone.  *)
THEOREM SequencesStartOnce == Spec => []StartsOnce
<1>1. IInv /\ SInv => StartsOnce
  BY DEF SInv
<1> QED  BY <1>1, InitIInv, NextIInv, InitSInv, NextSInv, PTL DEF Spec

(***************************************************************************)
(* Grabs                                                                   *)
(***************************************************************************)
OneKeyboard == \E k : Keyboards = {k}

(* Nobody is in the middle of a sequence while bindings are installed.      *)
Quiet == loading # None => \A k \in Keyboards : grab[k] = NoGrab
GInv  == Quiet /\ GrabsLive

(* While bindings are installed nothing that concerns a grab matters.       *)
LEMMA QuietLemma ==
  ASSUME GInv, loading # None, UNCHANGED input
  PROVE  GInv'
BY DEF GInv, Quiet, GrabsLive, input

LEMMA FollowGInv ==
  ASSUME OneKeyboard, IInv, GInv, loading = None,
         NEW k \in Keyboards, NEW g, g.root = main.root, NEW p, Follow(k, g, p)
  PROVE  GInv'
<1> DEFINE q == Append(g.node, p)
<1>1. Keyboards = {k} /\ DOMAIN grab = Keyboards
  BY SplitIInv DEF OneKeyboard, InputTypes
<1>2. NodesType(main.tree) /\ Shaped(main.tree)
  BY SplitIInv DEF BindingsType, NodesType
<1>3. fault' = "none"
  BY DEF Follow
<1>4. CASE q \in DOMAIN main.tree /\ HasChild(main.tree, q)
  <2>1. /\ grab' = [grab EXCEPT ![k] = [root |-> main.root, node |-> q]]
        /\ UNCHANGED <<main, loading>>
    BY <1>4 DEF Follow, Hit, loads
  <2>2. main.tree[q] = None
    BY <1>2, <1>4, InnerLemma
  <2> HIDE DEF q
  <2>3. grab'[k].root = main.root /\ grab'[k].node = q
    BY <1>1, <2>1
  <2> QED  BY <1>1, <1>3, <1>4, <2>1, <2>2, <2>3 DEF GInv, Quiet, GrabsLive
<1>5. CASE ~(q \in DOMAIN main.tree /\ HasChild(main.tree, q))
  <2>1. grab' = [grab EXCEPT ![k] = NoGrab]
    BY <1>5 DEF Follow, Hit
  <2>2. \A x \in Keyboards : grab'[x] = NoGrab
    BY <1>1, <2>1
  <2> QED  BY <1>3, <2>2 DEF GInv, Quiet, GrabsLive
<1> QED  BY <1>4, <1>5

LEMMA TypedGInv ==
  ASSUME OneKeyboard, IInv, SInv, GInv, NEW k \in Keyboards, Typed(k)
  PROVE  GInv'
<1>1. DOMAIN grab = Keyboards
  BY SplitIInv DEF InputTypes
<1>2. ASSUME NEW key \in Keys, PressKey(k, key) PROVE GInv'
  <2> DEFINE p == [key |-> key, mods |-> held[k]]
  <2>1. loading = None
    BY <1>2 DEF PressKey
  <2>2. PICK g : g.root = main.root /\ Follow(k, g, p)
    <3>1. CASE grab[k] # NoGrab /\ Follow(k, grab[k], p)
      BY <3>1 DEF GInv, GrabsLive
    <3>2. CASE \E e \in Matching(p) : Follow(k, [root |-> e.root, node |-> <<>>], p)
      <4>1. PICK e \in Matching(p) : Follow(k, [root |-> e.root, node |-> <<>>], p)
        BY <3>2
      <4>2. e.root = main.root
        BY DEF Matching, SInv, StartsOnce
      <4> QED  BY <4>1, <4>2
    <3> QED  BY <1>2, <3>1, <3>2 DEF PressKey
  <2> HIDE DEF p
  <2> QED  BY <2>1, <2>2, FollowGInv
<1>3. ASSUME NEW m \in Modifiers, PressModifier(k, m) PROVE GInv'
  BY <1>1, <1>3 DEF PressModifier, GInv, Quiet, GrabsLive, loads
<1>4. ASSUME NEW m \in Modifiers, ReleaseModifier(k, m) PROVE GInv'
  BY <1>4 DEF ReleaseModifier, GInv, Quiet, GrabsLive, loads
<1>5. CASE Cancel(k)
  BY <1>1, <1>5 DEF Cancel, GInv, Quiet, GrabsLive, loads
<1> QED  BY <1>2, <1>3, <1>4, <1>5 DEF Typed

LEMMA NextGInv ==
  ASSUME OneKeyboard
  PROVE  IInv /\ SInv /\ GInv /\ [Next]_vars => GInv'
<1> SUFFICES ASSUME IInv, SInv, GInv, [Next]_vars PROVE GInv'
  OBVIOUS
<1>1. CASE UNCHANGED vars
  BY <1>1 DEF vars, loads, input, GInv, Quiet, GrabsLive
<1>2. CASE Install
  <2>1. loading # None /\ UNCHANGED input
    BY <1>2 DEF Install, AddKey, AddPointer
  <2> QED  BY <2>1, QuietLemma
<1>3. CASE Swap \/ Discard \/ ApplyDefault
  <2>1. loading # None /\ UNCHANGED input
    BY <1>3, BindingsAssumption DEF Swap, Discard, ApplyDefault
  <2> QED  BY <2>1, QuietLemma
<1>4. CASE \E k \in Keyboards : Typed(k)
  BY <1>4, TypedGInv
<1> QED  BY <1>1, <1>2, <1>3, <1>4 DEF Next

LEMMA InitGInv == Init => GInv
BY DEF Init, GInv, Quiet, GrabsLive

(* With one keyboard a grab always waits at an inner node of the bindings    *)
(* in force, through reloads its own sequence starts, and no press is given  *)
(* to one whose bindings are gone.                                           *)
THEOREM GrabsStayLive ==
  ASSUME OneKeyboard
  PROVE  Spec => []GrabsLive
<1>1. IInv /\ SInv /\ GInv /\ [Next]_vars => GInv'
  BY NextGInv
<1>2. GInv => GrabsLive
  BY DEF GInv
<1> QED  BY <1>1, <1>2, InitIInv, NextIInv, InitSInv, NextSInv, InitGInv, PTL DEF Spec

(***************************************************************************)
(* Bindings implements KeyMap                                              *)
(***************************************************************************)
LEMMA MapOfLemma ==
  ASSUME NEW tree
  PROVE  /\ \A b \in MapOf(tree) : /\ b.keys \in DOMAIN tree
                                   /\ b.action = tree[b.keys] /\ tree[b.keys] # None
                                   /\ b = [keys |-> b.keys, action |-> b.action]
         /\ \A s \in DOMAIN tree : tree[s] # None =>
              \E b \in MapOf(tree) : b.keys = s /\ b.action = tree[s]
<1>1. ASSUME NEW b \in MapOf(tree)
      PROVE  /\ b.keys \in DOMAIN tree
             /\ b.action = tree[b.keys] /\ tree[b.keys] # None
             /\ b = [keys |-> b.keys, action |-> b.action]
  <2>1. PICK s \in DOMAIN tree : tree[s] # None /\ b = [keys |-> s, action |-> tree[s]]
    BY <1>1 DEF MapOf
  <2>2. b.keys = s /\ b.action = tree[s]
    BY <2>1
  <2> QED  BY <2>1, <2>2
<1>2. ASSUME NEW s \in DOMAIN tree, tree[s] # None
      PROVE  \E b \in MapOf(tree) : b.keys = s /\ b.action = tree[s]
  <2> DEFINE b == [keys |-> s, action |-> tree[s]]
  <2>1. b \in MapOf(tree)
    BY <1>2 DEF MapOf
  <2>2. b.keys = s /\ b.action = tree[s]
    OBVIOUS
  <2> QED  BY <2>1, <2>2
<1> QED  BY <1>1, <1>2

(* A prefix is a beginning.                                                 *)
LEMMA PrefixLemma ==
  ASSUME NEW s, s \in Seq(Press), s # <<>>, NEW t, t \in Seq(Press)
  PROVE  KM!IsPrefix(s, t) <=> s \in Walk(t)
<1>1. Len(s) \in Nat /\ Len(s) # 0 /\ Len(t) \in Nat
  BY SMT
<1>2. SubSeq(s, 1, Len(s)) = s
  BY SubSeqFull
<1>3. ASSUME KM!IsPrefix(s, t) PROVE s \in Walk(t)
  <2>1. Len(s) \in 1..Len(t) /\ s = UpTo(t, Len(s))
    BY <1>1, <1>2, <1>3 DEF KM!IsPrefix, UpTo
  <2> QED  BY <2>1 DEF Walk
<1>4. ASSUME s \in Walk(t) PROVE KM!IsPrefix(s, t)
  <2>1. PICK i \in 1..Len(t) : s = UpTo(t, i)
    BY <1>4 DEF Walk
  <2>2. Len(s) = i
    BY <2>1, UpToLemma
  <2> QED  BY <1>1, <1>2, <2>1, <2>2 DEF KM!IsPrefix, UpTo
<1> QED  BY <1>3, <1>4

(* No bound sequence of a trie hides another.                               *)
LEMMA ShapedPrefixFree ==
  ASSUME NEW tree, NodesType(tree), Shaped(tree)
  PROVE  KM!PrefixFree(MapOf(tree))
<1> SUFFICES ASSUME NEW b \in MapOf(tree), NEW c \in MapOf(tree), KM!IsPrefix(b.keys, c.keys)
             PROVE  b = c
  BY DEF KM!PrefixFree
<1>1. /\ b.keys \in DOMAIN tree /\ tree[b.keys] # None /\ b.action = tree[b.keys]
      /\ b = [keys |-> b.keys, action |-> b.action]
      /\ c.keys \in DOMAIN tree /\ c.action = tree[c.keys]
      /\ c = [keys |-> c.keys, action |-> c.action]
  BY MapOfLemma
<1>2. b.keys \in Seq(Press) /\ b.keys # <<>> /\ c.keys \in Seq(Press)
  BY <1>1 DEF NodesType, Shaped, Closed
<1>3. b.keys \in Walk(c.keys)
  BY <1>2, PrefixLemma
<1>4. b.keys = c.keys
  BY <1>1, <1>3 DEF Shaped, EndsAreLeaves
<1> QED  BY <1>1, <1>4

(* A node without children is bound.                                        *)
LEMMA LeafLemma ==
  ASSUME NEW tree, NodesType(tree), Shaped(tree),
         NEW q \in DOMAIN tree, ~HasChild(tree, q)
  PROVE  tree[q] # None
<1>1. PICK r \in DOMAIN tree : q \in Walk(r) /\ tree[r] # None
  BY DEF Shaped, LeadsOn
<1>2. r \in Seq(Press) /\ q \in Seq(Press) /\ q # <<>>
  BY DEF NodesType, Shaped, Closed
<1>3. PICK i \in 1..Len(r) : q = UpTo(r, i)
  BY <1>1 DEF Walk
<1>4. Len(q) = i
  BY <1>2, <1>3, UpToLemma
<1>5. CASE i = Len(r)
  <2>1. q = r
    BY <1>2, <1>3, <1>5, SubSeqFull DEF UpTo
  <2> QED  BY <1>1, <2>1
<1>6. CASE i # Len(r)
  <2>1. i + 1 \in 1..Len(r) /\ i \in 1..(i + 1)
    BY <1>2, <1>6, SMT
  <2>2. UpTo(r, i + 1) \in DOMAIN tree
    BY <2>1 DEF Shaped, Closed, Walk
  <2>3. Len(UpTo(r, i + 1)) = i + 1 /\ UpTo(UpTo(r, i + 1), i) = q
    BY <1>2, <1>3, <2>1, UpToLemma, UpToUpTo
  <2> QED  BY <1>4, <2>2, <2>3 DEF HasChild
<1> QED  BY <1>5, <1>6

(* A configuration is taken over or dropped.                                *)
LEMMA LoadMaps ==
  ASSUME IInv, IInv', GInv, loading # None, UNCHANGED input
  PROVE  KM!Load
<1>1. /\ NodesType(main'.tree) /\ Shaped(main'.tree)
  <2>1. IInv' => BindingsType(main)' /\ Shaped(main.tree)'
    BY DEF IInv, TypeOK, TrieShape, Trees, Shaped
  <2> QED  BY <2>1 DEF BindingsType, NodesType, Shaped, Closed, EndsAreLeaves, LeadsOn
<1>2. KM!PrefixFree(InForce')
  <2>1. CASE loading' = "main"
    BY <2>1 DEF InForce, KM!PrefixFree
  <2>2. CASE loading' # "main"
    <3>1. InForce' = MapOf(main'.tree)
      BY <2>2 DEF InForce, MapOf
    <3> QED  BY <1>1, <3>1, ShapedPrefixFree
  <2> QED  BY <2>1, <2>2
<1>3. \A k \in Keyboards : Typing[k] = <<>>
  BY DEF GInv, Quiet, Typing, NoGrab
<1>4. UNCHANGED <<Typing, ran>>
  BY DEF input, Typing
<1> QED  BY <1>2, <1>3, <1>4 DEF KM!Load

LEMMA FollowMaps ==
  ASSUME IInv, GInv, loading = None, NEW k \in Keyboards, NEW p \in Press,
         NEW g, g.root = main.root, g.node = Typing[k], Follow(k, g, p)
  PROVE  KM!Type(k, p)
<1> DEFINE q == Append(Typing[k], p)
<1>1. DOMAIN grab = Keyboards
  BY SplitIInv DEF InputTypes
<1>2. NodesType(main.tree) /\ Shaped(main.tree)
  BY SplitIInv DEF BindingsType, NodesType
<1>3. None \notin {"temp", "main"}
  BY BindingsAssumption
<1>4. InForce = MapOf(main.tree)
  BY <1>3 DEF InForce
<1>5. q \in Seq(Press) /\ q # <<>>
  <2>1. Typing[k] \in Seq(Press)
    <3>1. CASE grab[k] = NoGrab
      <4>1. Typing[k] = <<>>
        BY <3>1 DEF Typing, NoGrab
      <4> QED  BY <4>1
    <3>2. CASE grab[k] # NoGrab
      BY <1>2, <3>2 DEF Typing, GInv, GrabsLive, NodesType
    <3> QED  BY <3>1, <3>2
  <2> QED  BY <2>1
<1>6. ASSUME NEW r \in DOMAIN main.tree
      PROVE  KM!IsPrefix(q, r) <=> q \in Walk(r)
  BY <1>2, <1>5, PrefixLemma DEF NodesType
<1>7. ASSUME NEW x, grab' = [grab EXCEPT ![k] = x]
      PROVE  Typing' = [Typing EXCEPT ![k] = x.node]
  BY <1>1, <1>7 DEF Typing
<1>8. Follow(k, g, p) <=>
        /\ fault' = IF g.root = main.root THEN "none" ELSE "freed node"
        /\ \/ q \in DOMAIN main.tree /\ Hit(k, q)
           \/ /\ q \notin DOMAIN main.tree
              /\ grab' = [grab EXCEPT ![k] = NoGrab]
              /\ UNCHANGED <<loads, ran>>
  BY DEF Follow
<1> HIDE DEF q
<1>9. CASE q \in DOMAIN main.tree /\ HasChild(main.tree, q)
  <2>1. /\ grab' = [grab EXCEPT ![k] = [root |-> main.root, node |-> q]]
        /\ UNCHANGED <<main, loading, ran>>
    BY <1>8, <1>9 DEF Hit, loads
  <2>2. main.tree[q] = None
    BY <1>2, <1>9, InnerLemma
  <2>3. PICK r \in DOMAIN main.tree : q \in Walk(r) /\ main.tree[r] # None
    BY <1>2, <1>9 DEF Shaped, LeadsOn
  <2>4. PICK b \in InForce : b.keys = r
    BY <1>4, <2>3, MapOfLemma
  <2>5. KM!IsStrictPrefix(q, b.keys)
    BY <1>6, <2>2, <2>3, <2>4 DEF KM!IsStrictPrefix
  <2>6. Typing' = [Typing EXCEPT ![k] = q]
    <3> DEFINE x == [root |-> main.root, node |-> q]
    <3>1. x.node = q /\ grab' = [grab EXCEPT ![k] = x]
      BY <2>1
    <3> HIDE DEF x
    <3>2. Typing' = [Typing EXCEPT ![k] = x.node]
      BY <1>7, <3>1, Zenon
    <3> QED  BY <3>1, <3>2
  <2>7. UNCHANGED InForce
    BY <2>1 DEF InForce
  <2> QED  BY <2>1, <2>5, <2>6, <2>7 DEF KM!Type, q
<1>10. CASE q \in DOMAIN main.tree /\ ~HasChild(main.tree, q)
  <2>1. grab' = [grab EXCEPT ![k] = NoGrab] /\ Run(main.tree[q])
    BY <1>8, <1>10 DEF Hit
  <2>2. ran' = main.tree[q] /\ main' = main /\ loading' \in {"temp", None}
    BY <2>1 DEF Run, loads
  <2>3. PICK b \in InForce : b.keys = q /\ b.action = main.tree[q]
    BY <1>2, <1>4, <1>10, LeafLemma, MapOfLemma
  <2>4. Typing' = [Typing EXCEPT ![k] = <<>>]
    <3>1. Typing' = [Typing EXCEPT ![k] = NoGrab.node]
      BY <1>7, <2>1, Zenon
    <3> QED  BY <3>1 DEF NoGrab
  <2>5. UNCHANGED InForce
    BY <1>3, <1>4, <2>2 DEF InForce
  <2> QED  BY <2>2, <2>3, <2>4, <2>5 DEF KM!Type, q
<1>11. CASE q \notin DOMAIN main.tree
  <2>1. grab' = [grab EXCEPT ![k] = NoGrab] /\ UNCHANGED <<main, loading, ran>>
    BY <1>8, <1>11 DEF loads
  <2>2. \A b \in InForce : ~KM!IsPrefix(q, b.keys)
    <3> SUFFICES ASSUME NEW b \in InForce, KM!IsPrefix(q, b.keys) PROVE FALSE
      OBVIOUS
    <3>1. b.keys \in DOMAIN main.tree
      BY <1>4, MapOfLemma
    <3>2. q \in Walk(b.keys)
      BY <1>6, <3>1
    <3> QED  BY <1>2, <1>11, <3>1, <3>2 DEF Shaped, Closed
  <2>3. Typing' = [Typing EXCEPT ![k] = <<>>]
    <3>1. Typing' = [Typing EXCEPT ![k] = NoGrab.node]
      BY <1>7, <2>1, Zenon
    <3> QED  BY <3>1 DEF NoGrab
  <2>4. UNCHANGED InForce
    BY <2>1 DEF InForce
  <2> QED  BY <2>1, <2>2, <2>3, <2>4 DEF KM!Type, q
<1> QED  BY <1>9, <1>10, <1>11

LEMMA GiveUpMaps ==
  ASSUME IInv, NEW k \in Keyboards, grab' = [grab EXCEPT ![k] = NoGrab], UNCHANGED <<loads, ran>>
  PROVE  KM!GiveUp(k)
<1>1. DOMAIN grab = Keyboards
  BY SplitIInv DEF InputTypes
<1>2. Typing' = [Typing EXCEPT ![k] = <<>>]
  BY <1>1 DEF Typing, NoGrab
<1>3. UNCHANGED InForce
  BY DEF loads, InForce
<1> QED  BY <1>2, <1>3 DEF KM!GiveUp

LEMMA TypedMaps ==
  ASSUME IInv, SInv, GInv, NEW k \in Keyboards, Typed(k)
  PROVE  [KM!Next]_<<InForce, Typing, ran>>
<1>1. ASSUME NEW key \in Keys, PressKey(k, key) PROVE KM!Next
  <2> DEFINE p == [key |-> key, mods |-> held[k]]
  <2>1. p \in Press
    BY SplitIInv DEF Press, InputTypes
  <2>2. loading = None
    BY <1>1 DEF PressKey
  <2>3. PICK g : g.root = main.root /\ g.node = Typing[k] /\ Follow(k, g, p)
    <3>1. CASE grab[k] # NoGrab /\ Follow(k, grab[k], p)
      BY <3>1 DEF GInv, GrabsLive, Typing
    <3>2. CASE grab[k] = NoGrab /\ \E e \in Matching(p) : Follow(k, [root |-> e.root, node |-> <<>>], p)
      <4>1. PICK e \in Matching(p) : Follow(k, [root |-> e.root, node |-> <<>>], p)
        BY <3>2
      <4>2. e.root = main.root
        BY DEF Matching, SInv, StartsOnce
      <4>3. Typing[k] = <<>>
        BY <3>2 DEF Typing, NoGrab
      <4> QED  BY <4>1, <4>2, <4>3
    <3> QED  BY <1>1, <3>1, <3>2 DEF PressKey
  <2> HIDE DEF p
  <2>4. KM!Type(k, p)
    BY <2>1, <2>2, <2>3, FollowMaps
  <2> QED  BY <2>1, <2>4 DEF KM!Next
<1>2. ASSUME NEW m \in Modifiers, PressModifier(k, m) PROVE KM!Next
  <2>1. KM!GiveUp(k)
    BY <1>2, GiveUpMaps DEF PressModifier
  <2> QED  BY <2>1 DEF KM!Next
<1>3. ASSUME NEW m \in Modifiers, ReleaseModifier(k, m)
      PROVE  UNCHANGED <<InForce, Typing, ran>>
  BY <1>3 DEF ReleaseModifier, InForce, Typing, loads
<1>4. CASE Cancel(k)
  <2>1. KM!GiveUp(k)
    BY <1>4, GiveUpMaps DEF Cancel
  <2> QED  BY <2>1 DEF KM!Next
<1> QED  BY <1>1, <1>2, <1>3, <1>4 DEF Typed

LEMMA NextMaps ==
  IInv /\ IInv' /\ SInv /\ GInv /\ [Next]_vars => [KM!Next]_<<InForce, Typing, ran>>
<1> SUFFICES ASSUME IInv, IInv', SInv, GInv, [Next]_vars
             PROVE  [KM!Next]_<<InForce, Typing, ran>>
  OBVIOUS
<1>1. CASE UNCHANGED vars
  BY <1>1 DEF vars, loads, input, InForce, Typing
<1>2. CASE Install \/ Swap \/ Discard \/ ApplyDefault
  <2>1. loading # None /\ UNCHANGED input
    BY <1>2, BindingsAssumption
       DEF Install, AddKey, AddPointer, Swap, Discard, ApplyDefault
  <2> QED  BY <2>1, LoadMaps DEF KM!Next
<1>3. CASE \E k \in Keyboards : Typed(k)
  BY <1>3, TypedMaps
<1> QED  BY <1>1, <1>2, <1>3 DEF Next

LEMMA InitMaps == Init => KM!Init
<1> SUFFICES ASSUME Init PROVE KM!Init
  OBVIOUS
<1>1. main.tree = <<>>
  BY FreshLemma DEF Init
<1>2. InForce = {}
  <2>1. DOMAIN <<>> = {}
    BY SMT
  <2> QED  BY <1>1, <2>1 DEF InForce, MapOf
<1>3. Typing = [k \in Keyboards |-> <<>>]
  BY DEF Init, Typing, NoGrab
<1> QED  BY <1>2, <1>3 DEF Init, KM!Init

(* With one keyboard, whatever sequences configurations offer and whichever  *)
(* are refused, typing follows the key map of the last configuration that    *)
(* was taken over: a set of sequences none of which hides another.           *)
THEOREM BindingsImplementKeyMap ==
  ASSUME OneKeyboard
  PROVE  Spec => ImplementsKeyMap
<1>1. IInv /\ SInv /\ GInv /\ [Next]_vars => GInv'
  BY NextGInv
<1> QED  BY <1>1, InitIInv, NextIInv, InitSInv, NextSInv, InitGInv, InitMaps, NextMaps, PTL
         DEF Spec, ImplementsKeyMap, KM!Spec
=================================================================================
