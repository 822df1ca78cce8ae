------------------------------- MODULE ShellWire -------------------------------
(***************************************************************************)
(* The wayland connection between the compositor's half of the shell       *)
(* (ShellServer) and the shell client (ShellClient): two streams, each in  *)
(* order and without loss, and what both sides count and name.             *)
(***************************************************************************)
EXTENDS Integers, Sequences, FiniteSets

CONSTANTS
  Output,        \* screens, by the weston_output that stands for them
  Slots,         \* length of tw_outputs and shell_outputs (16)
  MaxUi,         \* bound on the taiwins_ui objects of a kind that are alive at once
  Widget,        \* the widgets of the panel
  Menu, Notification,   \* the two widgets that are not on the panel
  None

Slot   == 0..(Slots - 1)
Popup  == Widget \cup {Menu, Notification}
Beyond == Slots   \* the index a client gets for a screen without a slot: -1

(* The taiwins_ui objects, numbered for each kind of element they are made *)
(* for; libwayland numbers all objects of a client together.               *)
Kind == {"panel", "background", "widget", "locker"}
Ui   == Kind \X (1..MaxUi)

ASSUME ShellAssumption ==
  /\ Slots \in Nat \ {0} /\ MaxUi \in Nat /\ IsFiniteSet(Output)
  /\ Menu \notin Widget /\ Notification \notin Widget /\ Menu # Notification
  /\ None \notin Output /\ None \notin Ui /\ None \notin Popup /\ None \notin Slot

VARIABLES
  toClient,  \* events on their way: [type, arg]
  toServer   \* requests on their way: [type, ui, slot]

(* Events: "connected" and "change" for a screen and its slot, "lock",      *)
(* "notification" and "panel_pos" messages, "close" for an element.        *)
Event(t, a) == [type |-> t, arg |-> a]

(* Requests: an element of a kind with a surface, the first content of a   *)
(* surface or new one, and the end of an element.                          *)
Request(t, u, i) == [type |-> t, ui |-> u, slot |-> i]

(* The object libwayland hands out next. *)
Least(S) == CHOOSE i \in S : \A j \in S : i <= j
New(kind, fresh) == <<kind, Least({u[2] : u \in {v \in fresh : v[1] = kind}})>>
================================================================================
