------------------------------- MODULE MCBindings -------------------------------
(***************************************************************************)
(* Bindings on a small instance: sequences that extend, equal or branch    *)
(* off each other, with and without a modifier.                            *)
(***************************************************************************)
EXTENDS Bindings

CONSTANTS a, b, ctrl, act, reload

P(key)  == [key |-> key, mods |-> {}]
PC(key) == [key |-> key, mods |-> {ctrl}]

OfferedSequences ==
  {<<>>, <<PC(a)>>, <<PC(a), P(b)>>, <<PC(a), P(b), P(a)>>, <<PC(a), P(a)>>, <<P(b)>>}

OfferedBindings ==
  {[keys |-> s, action |-> act] : s \in OfferedSequences} \cup
  {[keys |-> <<PC(a), P(b)>>, action |-> reload], [keys |-> <<PC(b)>>, action |-> reload]}
=================================================================================
