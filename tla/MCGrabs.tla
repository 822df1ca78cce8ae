-------------------------------- MODULE MCGrabs --------------------------------
(* A window that may be asked for something three times, and another one    *)
(* that comes beside it and leaves one request; a mouse with two buttons.   *)
(* Windows are alike, and so are the places the user may leave them.        *)
EXTENDS Grabs, TLC

Symmetry == Permutations(Window) \cup Permutations(Place)
================================================================================
