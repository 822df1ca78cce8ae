----------------------------- MODULE MCConfigReload ----------------------------
(***************************************************************************)
(* Module ConfigReload for TLC: scripts that make at most one setting      *)
(* before they wake the compositor, and at most one after.                 *)
(***************************************************************************)
EXTENDS ConfigReload

MCScripts ==
  {script \in Script :
     /\ Cardinality(script.first) <= 1 /\ Cardinality(script.later) <= 1
     /\ script.errs => script.binds
     /\ script.zero \subseteq script.first \cup script.later}
================================================================================
