-------------------------------- MODULE Bindings --------------------------------
(***************************************************************************)
(* Key bindings (server/bindings.c), how a configuration installs them     *)
(* (config.c, config_bindings.c) and the keyboard grab that follows a      *)
(* sequence of presses.                                                    *)
(*                                                                         *)
(* The nodes of a tw_bindings form a trie.  A node is named by the presses *)
(* that lead to it; `tree` maps it to its key_binding, None inside.  The   *)
(* roots are addresses of tw_bindings: that of the running configuration   *)
(* and, while a configuration is tried, that of the temporary one.         *)
(***************************************************************************)
EXTENDS SequencesExt

CONSTANTS
  Roots,      \* addresses of tw_bindings
  Keyboards,
  Keys,       \* keycodes
  Modifiers,  \* held by keys of their own, which nothing is bound to
  Actions,
  Reload,     \* the action reload_config
  Offered,    \* [keys, action]: what configurations may bind
  Buttons,    \* pointer buttons and axes
  MaxKeySeq,  \* MAX_KEY_SEQ_LEN
  MaxAdd,     \* bound on the bindings of a configuration
  None

Press == [key : Keys, mods : SUBSET Modifiers]
Entry == [type : {"key", "pointer"}, what : Press \cup Buttons]

ASSUME BindingsAssumption ==
  /\ None \notin Actions /\ None \notin Roots /\ None \notin {"temp", "main"}
  /\ MaxKeySeq \in Nat /\ MaxAdd \in Nat
  /\ \A b \in Offered : /\ b.keys \in Seq(Press) /\ Len(b.keys) <= MaxKeySeq
                        /\ b.action \in Actions

VARIABLES
  main, temp,  \* bindings of the configuration, and of the one tried: root
               \* (None without one), tree and apply_list
  weston,      \* libweston's bindings: [type, what, root, place], the last
               \* two say of which tw_bindings, and which of its list
  loading,     \* the bindings being installed into: "temp", "main" or None
  refused,     \* an addition was refused, the installation stopped
  startup,     \* no configuration was applied yet
  held,        \* the modifiers held on each keyboard
  grab,        \* keybinding_container: [root, node]
  ran,         \* the last action run
  fault

loads == <<main, temp, weston, loading, refused, startup>>
input == <<held, grab, ran, fault>>
vars  == <<loads, input>>

(***************************************************************************)
(* The trie                                                                *)
(***************************************************************************)

(* tw_bindings_create *)
Fresh(root) == [root |-> root, tree |-> <<>>, apply_list |-> <<>>]
NoBindings  == Fresh(None)

UpTo(s, i) == SubSeq(s, 1, i)

(* the nodes tw_bindings_add_key walks over or makes, up to the end *)
Walk(s) == {UpTo(s, i) : i \in 1..Len(s)}

(* Mutant of Collides: case 2 is forgotten, the new end inside the trie. *)
CollidesAtEndsOnly(tree, s) ==
  \E p \in Walk(s) : p \in DOMAIN tree /\ tree[p] # None

(* The walk of tw_bindings_add_key ends on a node there is, at the end of   *)
(* the sequence or at the end of another.                                   *)
Collides(tree, s) ==
  \E p \in Walk(s) : p \in DOMAIN tree /\ (p = s \/ tree[p] # None)

Grown(tree, s, action) ==
  [p \in DOMAIN tree \cup Walk(s) |->
     IF p = s THEN action ELSE IF p \in DOMAIN tree THEN tree[p] ELSE None]

(* libweston needs to know the first press of a new subtree of the root. *)
Announced(b, s) ==
  IF s # <<>> /\ UpTo(s, 1) \notin DOMAIN b.tree
  THEN Append(b.apply_list, [type |-> "key", what |-> s[1]])
  ELSE b.apply_list

WithKey(b, s, action) ==
  [b EXCEPT !.tree = Grown(b.tree, s, action), !.apply_list = Announced(b, s)]

(* vtree_len(node) > 0 *)
HasChild(tree, p) == \E q \in DOMAIN tree : Len(q) = Len(p) + 1 /\ UpTo(q, Len(p)) = p

(***************************************************************************)
(* Installing a configuration's bindings                                   *)
(***************************************************************************)
Target == IF loading = "main" THEN main ELSE temp

SetTarget(b) ==
  IF loading = "main" THEN main' = b /\ UNCHANGED temp ELSE temp' = b /\ UNCHANGED main

(* tw_bindings_add_key, called for one binding after the other until one is *)
(* refused.  A sequence that starts with KEY_RESERVED is empty.             *)
AddKey(s, action) ==
  /\ loading # None /\ ~refused
  /\ \/ /\ Collides(Target.tree, s)
        /\ refused' = TRUE
        /\ UNCHANGED <<main, temp>>
     \/ /\ ~Collides(Target.tree, s)
        /\ Len(Target.apply_list) < MaxAdd
        /\ SetTarget(WithKey(Target, s, action))
        /\ UNCHANGED refused
  /\ UNCHANGED <<weston, loading, startup, input>>

(* tw_bindings_add_btn, tw_bindings_add_axis *)
AddPointer(b) ==
  /\ loading # None /\ ~refused
  /\ Len(Target.apply_list) < MaxAdd
  /\ SetTarget([Target EXCEPT !.apply_list = Append(@, [type |-> "pointer", what |-> b])])
  /\ UNCHANGED <<weston, loading, refused, startup, input>>

(* Mutant of Forgotten: libweston keeps calling the bindings destroyed. *)
ForgottenNever(root) == weston

(* tw_bindings_destroy *)
Forgotten(root) == {e \in weston : e.root # root}

(* tw_bindings_apply: another list replaces the one applied before. *)
Told(b) ==
  {[type |-> b.apply_list[i].type, what |-> b.apply_list[i].what,
    root |-> b.root, place |-> i] : i \in DOMAIN b.apply_list}

(* tw_run_config, when all is well: tw_swap_config destroys the running     *)
(* bindings, takes over the new ones, and applies them.                     *)
Swap ==
  /\ loading = "temp" /\ ~refused
  /\ main' = [temp EXCEPT !.apply_list = <<>>]
  /\ temp' = NoBindings
  /\ weston' = Forgotten(main.root) \cup Told(temp)
  /\ loading' = None /\ startup' = FALSE
  /\ UNCHANGED <<refused, input>>

(* tw_run_config, when the script failed or a binding was refused.  At      *)
(* start-up tw_run_default_config follows.                                  *)
Discard ==
  /\ loading = "temp"
  /\ refused \/ temp = Fresh(temp.root)
  /\ temp' = NoBindings
  /\ loading' = IF startup THEN "main" ELSE None
  /\ refused' = FALSE /\ startup' = FALSE
  /\ UNCHANGED <<main, weston, input>>

(* The end of tw_run_default_config, which ignores a refusal. *)
ApplyDefault ==
  /\ loading = "main"
  /\ main' = [main EXCEPT !.apply_list = <<>>]
  /\ weston' = Forgotten(main.root) \cup Told(main)
  /\ loading' = None /\ refused' = FALSE
  /\ UNCHANGED <<temp, startup, input>>

(***************************************************************************)
(* Typing                                                                  *)
(***************************************************************************)

(* The binding reload_config starts a trial; others do something else. *)
Run(action) ==
  /\ ran' = action
  /\ IF action = Reload
     THEN /\ \E r \in Roots : r # main.root /\ temp' = Fresh(r)
          /\ loading' = "temp"
          /\ UNCHANGED <<main, weston, refused, startup>>
     ELSE UNCHANGED loads

(* no keybinding_container *)
NoGrab == [root |-> None, node |-> <<>>]

(* Mutant of Hit: every node is taken for the end of a sequence. *)
HitEverywhere(k, q) == grab' = [grab EXCEPT ![k] = NoGrab] /\ Run(main.tree[q])

(* Mutant of Hit: the grab is not cancelled. *)
HitKeepsGrab(k, q) ==
  /\ grab' = [grab EXCEPT ![k] = [root |-> main.root, node |-> q]]
  /\ IF HasChild(main.tree, q) THEN UNCHANGED <<loads, ran>> ELSE Run(main.tree[q])

(* The press leads to node q.  At the end of a sequence the grab is         *)
(* cancelled before the binding runs.                                       *)
Hit(k, q) ==
  \/ /\ HasChild(main.tree, q)
     /\ grab' = [grab EXCEPT ![k] = [root |-> main.root, node |-> q]]
     /\ UNCHANGED <<loads, ran>>
  \/ /\ ~HasChild(main.tree, q)
     /\ grab' = [grab EXCEPT ![k] = NoGrab]
     /\ Run(main.tree[q])

(* tw_keybinding_key; another press than one of the children ends it. Of a  *)
(* grab whose bindings were destroyed nothing is known any more.            *)
Follow(k, g, p) ==
  LET q == Append(g.node, p)
  IN  /\ fault' = IF g.root = main.root THEN "none" ELSE "freed node"
      /\ \/ q \in DOMAIN main.tree /\ Hit(k, q)
         \/ /\ q \notin DOMAIN main.tree
            /\ grab' = [grab EXCEPT ![k] = NoGrab]
            /\ UNCHANGED <<loads, ran>>

(* libweston's bindings for a press *)
Matching(p) == {e \in weston : e.type = "key" /\ e.what = p}

(* libweston gives a key to the grab, or looks for bindings of it first;    *)
(* tw_start_keybinding installs the grab, which gets the same key.          *)
PressKey(k, key) ==
  LET p == [key |-> key, mods |-> held[k]]
  IN  /\ loading = None
      /\ \/ grab[k] # NoGrab /\ Follow(k, grab[k], p)
         \/ /\ grab[k] = NoGrab
            /\ \E e \in Matching(p) : Follow(k, [root |-> e.root, node |-> <<>>], p)
      /\ UNCHANGED held

(* A key that holds a modifier is a key to the grab as well, and never one  *)
(* of the presses it waits for.                                             *)
PressModifier(k, m) ==
  /\ loading = None /\ m \notin held[k]
  /\ held' = [held EXCEPT ![k] = @ \cup {m}]
  /\ grab' = [grab EXCEPT ![k] = NoGrab]
  /\ UNCHANGED <<loads, ran, fault>>

ReleaseModifier(k, m) ==
  /\ loading = None /\ m \in held[k]
  /\ held' = [held EXCEPT ![k] = @ \ {m}]
  /\ UNCHANGED <<loads, grab, ran, fault>>

(* tw_keybinding_cancel, called by libweston *)
Cancel(k) ==
  /\ loading = None /\ grab[k] # NoGrab
  /\ grab' = [grab EXCEPT ![k] = NoGrab]
  /\ UNCHANGED <<loads, held, ran, fault>>

(* main has created the configuration and tries the first one. *)
Init ==
  /\ \E r, s \in Roots : r # s /\ main = Fresh(r) /\ temp = Fresh(s)
  /\ weston = {} /\ loading = "temp" /\ refused = FALSE /\ startup = TRUE
  /\ held = [k \in Keyboards |-> {}] /\ grab = [k \in Keyboards |-> NoGrab]
  /\ ran = None /\ fault = "none"

Install == (\E b \in Offered : AddKey(b.keys, b.action)) \/ \E b \in Buttons : AddPointer(b)

Typed(k) ==
  \/ \E key \in Keys : PressKey(k, key)
  \/ \E m \in Modifiers : PressModifier(k, m) \/ ReleaseModifier(k, m)
  \/ Cancel(k)

Next ==
  /\ fault = "none"
  /\ Install \/ Swap \/ Discard \/ ApplyDefault \/ \E k \in Keyboards : Typed(k)

Spec == Init /\ [][Next]_vars

(***************************************************************************)
(* Properties                                                              *)
(***************************************************************************)
Trees == {main.tree, temp.tree}

(* The trie has the shape the walk and the grab rely on, whatever was added *)
(* and refused: it is closed under prefixes, exactly its leaves are bound,  *)
(* and every node is on the way to one, so that a grab never waits for a    *)
(* press that cannot come.                                                  *)
Closed(tree) == \A q \in DOMAIN tree : q # <<>> /\ Walk(q) \subseteq DOMAIN tree
EndsAreLeaves(tree) == \A q \in DOMAIN tree : \A p \in Walk(q) : p # q => tree[p] = None
LeadsOn(tree) ==
  \A p \in DOMAIN tree : \E q \in DOMAIN tree : p \in Walk(q) /\ tree[q] # None

TrieShape == \A tree \in Trees : Closed(tree) /\ EndsAreLeaves(tree) /\ LeadsOn(tree)

(* libweston starts a sequence for exactly the first presses of the running *)
(* configuration, once each (a second call would leak the first grab), and  *)
(* calls nothing of bindings that were destroyed.                           *)
StartsOnce ==
  /\ \A e \in weston : e.root = main.root
  /\ loading # "main" =>
       \A p \in Press : IF <<p>> \in DOMAIN main.tree
                       THEN \E e \in weston : Matching(p) = {e}
                       ELSE Matching(p) = {}

(* A grab waits at an inner node of the running configuration, also when a  *)
(* sequence it followed reloads the configuration, or a reload is refused,  *)
(* and was never asked to follow a press from a node that is gone.          *)
GrabsLive ==
  /\ fault = "none"
  /\ \A k \in Keyboards : grab[k] # NoGrab =>
       /\ grab[k].root = main.root
       /\ grab[k].node \in DOMAIN main.tree /\ main.tree[grab[k].node] = None

(* Types; the temporary bindings are there while they are installed into,   *)
(* and are never those in force.                                            *)
BindingsType(b) ==
  /\ b = [root |-> b.root, tree |-> b.tree, apply_list |-> b.apply_list]
  /\ b.apply_list \in Seq(Entry)
  /\ \A s \in DOMAIN b.tree : /\ s \in Seq(Press) /\ Len(s) <= MaxKeySeq
                              /\ b.tree[s] \in Actions \cup {None}

LoadTypes ==
  /\ main.root \in Roots /\ temp.root \in Roots \cup {None} /\ main.root # temp.root
  /\ (loading = "temp") = (temp.root # None)
  /\ loading \in {"temp", "main", None} /\ refused \in BOOLEAN /\ startup \in BOOLEAN

InputTypes ==
  /\ held \in [Keyboards -> SUBSET Modifiers]
  /\ DOMAIN grab = Keyboards
  /\ ran \in Actions \cup {None}
  /\ fault \in {"none", "freed node"}

TypeOK == BindingsType(main) /\ BindingsType(temp) /\ LoadTypes /\ InputTypes

(***************************************************************************)
(* What it implements                                                      *)
(***************************************************************************)
MapOf(tree) == {[keys |-> s, action |-> tree[s]] : s \in {s \in DOMAIN tree : tree[s] # None}}

InForce == IF loading = "main" THEN {} ELSE MapOf(main.tree)
Typing  == [k \in Keyboards |-> grab[k].node]

KM == INSTANCE KeyMap WITH map <- InForce, typing <- Typing

(* The trie, libweston's list and the grab implement a key map: whatever    *)
(* was refused or reloaded, the sequences typed run the actions of the last *)
(* configuration that was taken over, and of no other.                      *)
ImplementsKeyMap == KM!Spec
=================================================================================
