---------------------------- MODULE MCConsoleModule ----------------------------
(***************************************************************************)
(* ConsoleModule on a small instance, with the search and the filter of    *)
(* cmd_module: two texts extend a third, one by letters and one by a word  *)
(* more, for which the search finds nothing and the filter keeps all.      *)
(***************************************************************************)
EXTENDS ConsoleModule

CONSTANTS ls, lso, ls_l, e1, e2

ThreeTexts == {ls, lso, ls_l}
TwoEntries == {e1, e2}
FoundOf    == [x \in ThreeTexts |-> CASE x = ls -> {e1, e2} [] x = lso -> {e2} [] x = ls_l -> {}]
KeptOf     == [x \in ThreeTexts |-> IF x = lso THEN {e2} ELSE {e1, e2}]
ExtendsOf  == {<<ls, lso>>, <<ls, ls_l>>}

(***************************************************************************)
(* What the threads keep                                                   *)
(***************************************************************************)

(* A command that was stored is taken, unless the module is released or the *)
(* compositor's client is gone.                                             *)
CommandPickedUp ==
  search_command # None ~> search_command = None \/ quit \/ fault # "none"

(* Releasing a module ends: the loop that posts, and the join.              *)
ReleaseEnds == at = "peek" ~> at = "released" \/ fault # "none"
================================================================================
