------------------------------- MODULE MCDesktop -------------------------------
(***************************************************************************)
(* Desktop on small instances, and the properties TLC checks of it.        *)
(***************************************************************************)
EXTENDS Desktop

WindowSymmetry == Permutations(XViews) \cup Permutations(Views \ XViews)

(***************************************************************************)
(* What the documents and comments say, and the code does not do           *)
(***************************************************************************)

(* desktop.c:259-260 "if desktop destroyed is not on current view, we have  *)
(* to deal with that as well": no tree keeps a window that is gone.         *)
RemovedEverywhere ==
  \A w \in Workspaces, v \in Views \ live : leaves[w][v] = 0
================================================================================
