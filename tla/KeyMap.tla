--------------------------------- MODULE KeyMap ---------------------------------
(***************************************************************************)
(* What key sequences promise to the user: a set of bindings none of which *)
(* hides another, replaced as a whole, and on each keyboard the sequence   *)
(* typed so far.  A press completes a sequence and runs its action, or     *)
(* continues one, or ends the attempt.                                     *)
(***************************************************************************)
EXTENDS SequencesExt

CONSTANTS Keyboards, Press, None

VARIABLES
  map,     \* the bindings in force, [keys, action]
  typing,  \* the sequence typed so far on each keyboard
  ran      \* the last action run

PrefixFree(m) == \A b, c \in m : IsPrefix(b.keys, c.keys) => b = c

Init == map = {} /\ typing = [k \in Keyboards |-> <<>>] /\ ran = None

Type(k, p) ==
  LET keys == Append(typing[k], p)
  IN  /\ \/ \E b \in map : /\ b.keys = keys
                           /\ ran' = b.action
                           /\ typing' = [typing EXCEPT ![k] = <<>>]
         \/ /\ \E b \in map : IsStrictPrefix(keys, b.keys)
            /\ typing' = [typing EXCEPT ![k] = keys]
            /\ UNCHANGED ran
         \/ /\ \A b \in map : ~IsPrefix(keys, b.keys)
            /\ typing' = [typing EXCEPT ![k] = <<>>]
            /\ UNCHANGED ran
      /\ UNCHANGED map

(* A modifier key, or a keyboard that loses its grab. *)
GiveUp(k) == typing' = [typing EXCEPT ![k] = <<>>] /\ UNCHANGED <<map, ran>>

(* Another configuration; nobody is in the middle of a sequence. *)
Load ==
  /\ PrefixFree(map')
  /\ \A k \in Keyboards : typing[k] = <<>>
  /\ UNCHANGED <<typing, ran>>

Next == Load \/ \E k \in Keyboards : GiveUp(k) \/ \E p \in Press : Type(k, p)

Spec == Init /\ [][Next]_<<map, typing, ran>>
=================================================================================
