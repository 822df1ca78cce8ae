------------------------------ MODULE ShellServer ------------------------------
(***************************************************************************)
(* The compositor's half of the shell (server/desktop/shell.c): the table  *)
(* of screens, the elements a shell client puts on them (background,       *)
(* panel, one widget, the locker), the bindings that close a widget, and   *)
(* the deferred announcement of the space a panel leaves to the desktop.   *)
(*                                                                         *)
(* An element is memory of the shell that outlives its protocol object.    *)
(* The handlers of the event loop run to completion; an idle callback runs *)
(* after any number of other handlers.  Where a handler would follow a     *)
(* null or dangling pointer it sets fault: the compositor is gone.         *)
(***************************************************************************)
EXTENDS ShellWire

CONSTANTS
  Loss,   \* what a widget can lose: the keyboard, the pointer, the touch
  Starts  \* the screens that may be there when the shell is set up, in their order

(* The list of outputs has each of them once. *)
ASSUME StartsAssumption ==
  \A start \in Starts :
    /\ start \in Seq(Output)
    /\ \A j, k \in 1..Len(start) : start[j] = start[k] => j = k

VARIABLES
  screens,  \* the compositor's outputs (ec->output_list)
  slot,     \* slot[i]: tw_outputs[i].output
  elem,     \* the shell_ui elements
  user,     \* user[u]: the element of protocol object u, None if it is gone
  view,     \* view[u]: the output of the view of u's surface
  mapped,   \* the objects whose surface was shown
  lose,     \* the bindings that close the widget when it loses something
  covered,  \* the outputs on which the locker has a view
  height,   \* height[i]: is tw_outputs[i].panel_height that of a panel?
  idle,     \* idle callbacks queued, each with the slot it was given
  shell,    \* shell_resource: "none", "bound", or "freed" and still set
  top,      \* panel_pos is TAIWINS_SHELL_PANEL_POS_TOP
  area,     \* area[o]: the part of output o the desktop was told is free
  moved,    \* history: the outputs panel_pos changed on since the desktop was told
  fault     \* the compositor is gone

serverVars == <<screens, slot, elem, user, view, mapped, lose, covered, height,
                idle, shell, top, area, moved, fault>>
outputVars == <<screens, slot, area, moved, top>>
uiVars     == <<elem, user, view, mapped, lose, covered, height>>

PanelOf(i)      == <<"panel", i>>
BackgroundOf(i) == <<"background", i>>
TheWidget       == <<"widget", 0>>
TheLocker       == <<"locker", 0>>
Elem == ({"panel", "background"} \X Slot) \cup {TheWidget, TheLocker}
ASSUME ElementAssumption == None \notin Elem

Cleared == [shell |-> FALSE, resource |-> None, output |-> None]

(* shell_n_outputs counts up to the first entry without an output. *)
NOutputs == Least({i \in Slot : slot[i] = None} \cup {Slots})

(* shell_ith_output, and shell_output_from_weston_output: the first entry  *)
(* with the output, which for no output is the first hole.                 *)
IthOutput(o) ==
  IF \E i \in Slot : slot[i] = o THEN Least({i \in Slot : slot[i] = o}) ELSE -1

(* shell_output_available_space for slot i's output: all of it, or what is  *)
(* below the panel or above it.                                            *)
Space(i) ==
  IF ~height[i] \/ elem[PanelOf(i)].resource = None THEN "whole"
  ELSE IF top THEN "below" ELSE "above"

(* desktop_output_created, desktop_output_resized and desktop_area_changed  *)
(* all ask for the space again.                                            *)
TellDesktop(o, space) ==
  area' = [area EXCEPT ![o] = space] /\ moved' = moved \ {o}

(* The slots of a set, in the order of the table. *)
InOrder(S) ==
  CHOOSE f \in [1..Cardinality(S) -> S] :
    \A j, k \in 1..Cardinality(S) : j < k => f[j] < f[k]

(* Events to the client, if a resource is set; it may be a freed one. *)
Tell(events) ==
  /\ toClient' = IF shell = "bound" THEN toClient \o events ELSE toClient
  /\ fault' = (shell = "freed")

(* Where libweston moves a shown view whose output is gone. *)
Elsewhere(S) == IF S = {} THEN None ELSE CHOOSE o \in S : TRUE

(***************************************************************************)
(* Screens                                                                 *)
(***************************************************************************)
Plug(o) ==
  /\ o \notin screens
  /\ screens' = screens \cup {o}
  /\ TellDesktop(o, "whole")
  /\ view' = [u \in Ui |-> IF u \in mapped /\ view[u] = None THEN o ELSE view[u]]
  /\ IF NOutputs = Slots
     THEN UNCHANGED <<slot, height, toClient, fault>>
     ELSE /\ slot' = [slot EXCEPT ![NOutputs] = o]
          /\ height' = [height EXCEPT ![NOutputs] = FALSE]
          /\ Tell(<<Event("connected", NOutputs)>>)
  /\ UNCHANGED <<elem, user, mapped, lose, covered, idle, shell, top, toServer>>

Unplug(o) ==
  LET i == IthOutput(o)
      left == screens \ {o} IN
  /\ o \in screens
  /\ screens' = left
  /\ slot' = IF i < 0 THEN slot ELSE [slot EXCEPT ![i] = None]
  /\ view' = [u \in Ui |-> IF u \in mapped /\ view[u] = o THEN Elsewhere(left)
                                                           ELSE view[u]]
  /\ covered' = IF elem[TheLocker].resource \in mapped THEN covered \ {o} ELSE covered
  /\ UNCHANGED <<elem, user, mapped, lose, height, idle, shell, top, area,
                 moved, fault, toClient, toServer>>

Resize(o) ==
  LET i == IthOutput(o) IN
  /\ o \in screens
  /\ TellDesktop(o, IF i < 0 THEN "whole" ELSE Space(i))
  /\ IF i < 0 THEN UNCHANGED <<toClient, fault>>
              ELSE Tell(<<Event("change", i)>>)
  /\ UNCHANGED <<uiVars, screens, slot, top, idle, shell, toServer>>

(* The callback announces the space of the output its slot has by now. *)
RunIdle ==
  LET i == Head(idle) IN
  /\ idle # <<>>
  /\ idle' = Tail(idle)
  /\ IF slot[i] = None
     THEN fault' = TRUE /\ UNCHANGED <<area, moved>>
     ELSE TellDesktop(slot[i], Space(i)) /\ UNCHANGED fault
  /\ UNCHANGED <<uiVars, screens, slot, shell, top, toClient, toServer>>

(***************************************************************************)
(* Messages                                                                *)
(***************************************************************************)
(* The idle signal locks the session, unless a locker is there. *)
CompositorIdle ==
  /\ elem[TheLocker].resource = None
  /\ Tell(<<Event("lock", None)>>)
  /\ UNCHANGED <<outputVars, uiVars, idle, shell, toServer>>

PostNotification ==
  /\ Tell(<<Event("notification", None)>>)
  /\ UNCHANGED <<outputVars, uiVars, idle, shell, toServer>>

(* The client hears of the new position; the desktop does not. *)
SetPanelPos ==
  /\ top' = ~top /\ moved' = Output
  /\ Tell(<<Event("panel_pos", ~top)>>)
  /\ UNCHANGED <<uiVars, screens, slot, area, idle, shell, toServer>>

(* Every screen, in the order of the slots; the ones beyond them have none. *)
DefaultConfig ==
  LET used == {i \in Slot : slot[i] # None}
      n == Cardinality(used)
      slotted == InOrder(used)
      others == Cardinality(screens) - n IN
  [k \in 1..n |-> Event("connected", slotted[k])]
    \o [k \in 1..others |-> Event("connected", Beyond)]
    \o <<Event("panel_pos", top)>>

Bind ==
  /\ shell = "none"
  /\ shell' = "bound"
  /\ toClient' = DefaultConfig
  /\ UNCHANGED <<outputVars, uiVars, idle, fault, toServer>>

(* A shell started by hand beside the one the compositor launched, or after *)
(* it, is not authorized: its resource is destroyed, and used further down *)
(* in bind_shell all the same.                                             *)
BindAgain ==
  /\ shell # "none"
  /\ fault' = TRUE
  /\ UNCHANGED <<outputVars, uiVars, idle, shell, toClient, toServer>>

(***************************************************************************)
(* Elements                                                                *)
(***************************************************************************)
(* create_ui_element: memory e is used for object u, on output o. *)
CreateElement(e, u, o) ==
  /\ elem' = [elem EXCEPT ![e] = [shell |-> TRUE, resource |-> u, output |-> o]]
  /\ user' = [user EXCEPT ![u] = e]
  /\ view' = [view EXCEPT ![u] = o]
  /\ mapped' = mapped \ {u}
  /\ UNCHANGED <<height, idle, fault>>

CreatePanel(u, i) ==
  CreateElement(PanelOf(i), u, slot[i]) /\ UNCHANGED <<lose, covered>>

CreateBackground(u, i) ==
  CreateElement(BackgroundOf(i), u, slot[i]) /\ UNCHANGED <<lose, covered>>

LaunchWidget(u, i) ==
  CreateElement(TheWidget, u, slot[i]) /\ lose' = Loss /\ UNCHANGED covered

(* One view for each output up to the first hole. *)
CreateLocker(u) ==
  /\ CreateElement(TheLocker, u, slot[0])
  /\ covered' = {slot[i] : i \in 0..(NOutputs - 1)}
  /\ UNCHANGED lose

(* Mutant of Commit: the desktop is not told of the new panel. *)
CommitQuietly(u) ==
  LET e == user[u]
      at == IF e = TheLocker THEN covered ELSE {view[u]} IN
  /\ fault' = ~(at \subseteq screens)
  /\ mapped' = mapped \cup {u}
  /\ height' = IF e[1] = "panel" THEN [height EXCEPT ![e[2]] = TRUE] ELSE height
  /\ UNCHANGED <<elem, user, view, lose, covered, idle>>

(* setup_view needs the output of each view it places.  The height of a    *)
(* panel is known when its surface has content.                            *)
Commit(u) ==
  LET e == user[u]
      at == IF e = TheLocker THEN covered ELSE {view[u]}
      grows == e[1] = "panel" /\ ~height[e[2]] IN
  /\ fault' = ~(at \subseteq screens)
  /\ mapped' = mapped \cup {u}
  /\ height' = IF grows THEN [height EXCEPT ![e[2]] = TRUE] ELSE height
  /\ idle' = IF grows THEN Append(idle, e[2]) ELSE idle
  /\ UNCHANGED <<elem, user, view, lose, covered>>

(* Is e the panel or background of the slot that has its output? *)
Placed(e) == e[1] \in {"panel", "background"} /\ IthOutput(elem[e].output) = e[2]

(* Mutant of Unbind: the bindings that close the widget stay. *)
UnbindKeepsLosers(us) ==
  /\ elem' = [e \in Elem |-> IF e \in {user[u] : u \in us} THEN Cleared ELSE elem[e]]
  /\ user' = [u \in Ui |-> IF u \in us THEN None ELSE user[u]]
  /\ view' = [u \in Ui |-> IF u \in us THEN None ELSE view[u]]
  /\ mapped' = mapped \ us
  /\ UNCHANGED <<lose, covered, height, idle, fault>>

(* shell_ui_unbind for the objects us, one after the other.  It clears an  *)
(* element that is on its slot, so the second object of one finds no shell *)
(* in it; one whose output is gone stays, with no object.                  *)
Unbind(us) ==
  LET of == {user[u] : u \in us}
      closed == {i \in Slot : PanelOf(i) \in of /\ Placed(PanelOf(i))}
      twice(e) == \E u, v \in us : u # v /\ user[u] = e /\ user[v] = e IN
  /\ fault' = \E e \in of : ~elem[e].shell \/ (Placed(e) /\ twice(e))
  /\ elem' = [e \in Elem |-> IF e \notin of THEN elem[e]
                             ELSE IF Placed(e) THEN Cleared
                             ELSE [elem[e] EXCEPT !.resource = None]]
  /\ user' = [u \in Ui |-> IF u \in us THEN None ELSE user[u]]
  /\ view' = [u \in Ui |-> IF u \in us THEN None ELSE view[u]]
  /\ mapped' = mapped \ us
  /\ lose' = IF TheWidget \in of THEN {} ELSE lose
  /\ covered' = IF TheLocker \in of THEN {} ELSE covered
  /\ height' = [i \in Slot |-> height[i] /\ i \notin closed]
  /\ idle' = idle \o InOrder(closed)

(* The next request, with what its handler does. *)
Receive ==
  LET r == Head(toServer) IN
  /\ toServer # <<>>
  /\ toServer' = Tail(toServer)
  /\ \/ r.type = "panel"      /\ CreatePanel(r.ui, r.slot)
     \/ r.type = "background" /\ CreateBackground(r.ui, r.slot)
     \/ r.type = "widget"     /\ LaunchWidget(r.ui, r.slot)
     \/ r.type = "locker"     /\ CreateLocker(r.ui)
     \/ r.type = "commit"     /\ Commit(r.ui)
     \/ r.type = "destroy"    /\ Unbind({r.ui})
  /\ UNCHANGED <<outputVars, shell, toClient>>

(* The user presses escape on the widget, clicks or touches beside it. *)
LoseFocus(what) ==
  /\ what \in lose
  /\ lose' = lose \ {what}
  /\ toClient' = Append(toClient, Event("close", elem[TheWidget].resource))
  /\ UNCHANGED <<outputVars, elem, user, view, mapped, covered, height, idle,
                 shell, fault, toServer>>

(* The client's end: all its objects are destroyed.  shell_resource keeps  *)
(* pointing to the one it had.                                             *)
Hangup ==
  /\ shell = "bound"
  /\ Unbind({u \in Ui : user[u] # None})
  /\ shell' = "freed"
  /\ toClient' = <<>> /\ toServer' = <<>>
  /\ UNCHANGED outputVars

InitServer ==
  /\ \E start \in Starts :
       /\ slot = [i \in Slot |-> IF i < Len(start) THEN start[i + 1] ELSE None]
       /\ screens = {start[k] : k \in 1..Len(start)}
  /\ elem = [e \in Elem |-> Cleared]
  /\ user = [u \in Ui |-> None] /\ view = [u \in Ui |-> None] /\ mapped = {}
  /\ lose = {} /\ covered = {}
  /\ height = [i \in Slot |-> FALSE] /\ idle = <<>>
  /\ shell = "none" /\ top = TRUE
  /\ area = [o \in Output |-> "whole"] /\ moved = {} /\ fault = FALSE
================================================================================
