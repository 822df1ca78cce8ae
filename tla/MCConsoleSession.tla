---------------------------- MODULE MCConsoleSession ----------------------------
(* The console's window with two entries to find. *)
EXTENDS ConsoleSession

MCResults == {<<>>, <<"firefox">>, <<"files", "firefox">>}
================================================================================
