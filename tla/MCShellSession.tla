----------------------------- MODULE MCShellSession ----------------------------
EXTENDS ShellSession

(* No screen, one, or more than there are slots for. *)
MCStarts == {<<>>, <<1>>, <<1, 2, 3>>}
OneOrNone == {<<>>, <<1>>}
================================================================================
