--------------------------------- MODULE Grabs ---------------------------------
(***************************************************************************)
(* The grabs of the desktop (server/desktop/desktop.c) and the windows     *)
(* they move and resize on a workspace (workspace.c, layout_floating.c):   *)
(* the pointer and the keyboard, clients that ask to be moved, maximized   *)
(* or shown on the full screen, windows that come and go.                  *)
(*                                                                         *)
(* Where a window is: a place the user or the layout chose, the space      *)
(* beside the panel, the whole screen, a tile, or the corner where a       *)
(* window without an old geometry is restored.  How large it is: what it   *)
(* covers, a tile, or a size of its own; the desktop notes a size it asks  *)
(* for, and the one a client draws only when the offset of its visible     *)
(* part changes with it.                                                   *)
(***************************************************************************)
EXTENDS Naturals, FiniteSets

CONSTANTS
  Window,
  Place,       \* where the user may leave a window
  Own,         \* the sizes a window may have of its own
  MaxButtons,  \* the buttons of the mouse
  MaxKeys,     \* the keys the user presses at once
  MaxAsks,     \* bound on what clients ask for and draw
  Second,      \* how much of that a window counts for that comes beside another
  None

Space == "space"
Screen == "screen"
Tile == "tile"
Corner == "corner"
Position == Place \cup {Space, Screen, Tile, Corner}
Size     == Own \cup {Space, Screen, Tile}
Geometry == [place : Position, size : Size \cup {None}]
Geo(p, s) == [place |-> p, size |-> s]

ASSUME GrabsAssumption ==
  /\ MaxButtons \in Nat /\ MaxKeys \in Nat /\ MaxAsks \in Nat /\ Second \in Nat
  /\ None \notin Window \cup Size /\ Place \cap {Space, Screen, Tile, Corner} = {}

VARIABLES
  \* the windows
  alive,
  type,        \* recent_view.type
  layer,       \* the layer of its view
  geometry,    \* where it is, and the size noted in visible_geometry: None while zero
  old_geometry, \* what it returns to
  wanted,      \* "maximized", "fullscreen", as the desktop last set them
  acked,       \* as the client last committed them
  \* the pointer
  buttons,     \* button_count
  focus,       \* the window under it
  grab,        \* "default", "moving", "resizing", "alpha", or "popup" of libweston
  \* the keyboard
  keys,        \* the keys held down
  kgrab,       \* "default", "task_switch", or "popup" of libweston
  view,        \* grab_interface.view of each grab
  \* what is only observed
  fits,        \* the windows whose client drew itself last at the size noted
  home,        \* where a window was when it was last asked to cover something, and
               \* its size if it was one of those
  asks,        \* counts for the bound only
  fault        \* memory that is gone, or NULL, was used

windows  == <<alive, type, layer, geometry, old_geometry, wanted, acked>>
pointer  == <<buttons, focus, grab>>
keyboard == <<keys, kgrab>>
observed == <<fits, home, asks>>
vars     == <<windows, pointer, keyboard, view, observed, fault>>

(***************************************************************************)
(* Windows                                                                 *)
(***************************************************************************)

Cornered == Geo(Corner, None)

(* apply_layout_operations skips a size of zero: the old one stays noted.   *)
Applied(g, op) == Geo(op.place, IF op.size = None THEN g.size ELSE op.size)

(* A client that is given another size has yet to draw itself at it. *)
Refitted(w) ==
  fits' = IF geometry'[w].size = geometry[w].size THEN fits ELSE fits \ {w}

(* The floating layout picks a place at random, and no size. *)
Chosen(t) == IF t = "floating" THEN {Geo(p, None) : p \in Place} ELSE {Geo(Tile, Tile)}

(* twdesk_surface_added *)
SurfaceAdded(w) ==
  /\ w \notin alive /\ \A g \in DOMAIN view : view[g] # w
  /\ alive' = alive \cup {w}
  /\ asks' = (IF alive = {} THEN asks ELSE asks + Second) /\ asks' <= MaxAsks
  /\ \E t \in {"floating", "tiling"} :
       /\ type' = [type EXCEPT ![w] = t] /\ layer' = [layer EXCEPT ![w] = t]
       /\ \E op \in Chosen(t) : geometry' = [geometry EXCEPT ![w] = Applied(Cornered, op)]
  /\ UNCHANGED <<old_geometry, wanted, acked, pointer, keyboard, view, fits, home, fault>>

(* Of a window that is gone nothing is remembered. *)
Forgotten(w) ==
  /\ type' = [type EXCEPT ![w] = "floating"] /\ layer' = [layer EXCEPT ![w] = "floating"]
  /\ geometry' = [geometry EXCEPT ![w] = Cornered]
  /\ old_geometry' = [old_geometry EXCEPT ![w] = Cornered]
  /\ wanted' = [wanted EXCEPT ![w] = {}] /\ acked' = [acked EXCEPT ![w] = {}]
  /\ fits' = fits \ {w} /\ home' = [home EXCEPT ![w] = Cornered]

(* twdesk_surface_removed: a grab on the window is not told. *)
SurfaceRemoved(w) ==
  /\ w \in alive /\ alive' = alive \ {w}
  /\ focus' = IF focus = w THEN None ELSE focus
  /\ Forgotten(w)
  /\ UNCHANGED <<buttons, grab, keyboard, view, asks, fault>>

(* A client asks for something, or draws itself. *)
Asking(w) == w \in alive /\ asks < MaxAsks /\ asks' = asks + 1

(* workspace_reinsert_view, whether the window covered anything or not. *)
Reinserted(w) ==
  IF type[w] = "tiling" THEN Geo(Tile, Tile) ELSE Applied(geometry[w], old_geometry[w])

(* Mutant of Covering: the old geometry is kept whichever way it goes. *)
CoveringBothWays(w, on, cover) ==
  /\ old_geometry' = [old_geometry EXCEPT ![w] = geometry[w]]
  /\ geometry' = [geometry EXCEPT ![w] = IF on THEN Geo(cover, cover) ELSE
                    IF type[w] = "tiling" THEN Geo(Tile, Tile) ELSE geometry[w]]

(* workspace_fullmax_view *)
Covering(w, on, cover) ==
  IF on
  THEN /\ old_geometry' = [old_geometry EXCEPT ![w] = geometry[w]]
       /\ geometry' = [geometry EXCEPT ![w] = Geo(cover, cover)]
  ELSE UNCHANGED old_geometry /\ geometry' = [geometry EXCEPT ![w] = Reinserted(w)]

(* What the window is to be. *)
Wanting(w, state, on) ==
  /\ wanted' = [wanted EXCEPT ![w] = IF on THEN @ \cup {state} ELSE @ \ {state}]
  /\ home' = [home EXCEPT ![w] =
       IF wanted'[w] = {} THEN Cornered
       ELSE IF ~on THEN @
       ELSE [geometry[w] EXCEPT !.size = IF w \in fits THEN @ ELSE None]]

(* twdesk_fullscreen and workspace_fullscreen_view *)
Fullscreen(w, on) ==
  /\ Asking(w) /\ Wanting(w, "fullscreen", on)
  /\ Covering(w, on, Screen) /\ Refitted(w)
  /\ layer' = [layer EXCEPT ![w] = IF on THEN "fullscreen" ELSE type[w]]
  /\ UNCHANGED <<alive, type, acked, pointer, keyboard, view, fault>>

(* twdesk_maximized and workspace_maximize_view *)
Maximize(w, on) ==
  /\ Asking(w) /\ Wanting(w, "maximized", on)
  /\ Covering(w, on, Space) /\ Refitted(w)
  /\ layer' = [layer EXCEPT ![w] = IF on THEN @ ELSE type[w]]
  /\ UNCHANGED <<alive, type, acked, pointer, keyboard, view, fault>>

(* twdesk_minimized and workspace_minimize_view *)
Minimize(w) ==
  /\ Asking(w) /\ layer' = [layer EXCEPT ![w] = "hidden"]
  /\ UNCHANGED <<alive, type, geometry, old_geometry, wanted, acked, pointer, keyboard,
                 view, fits, home, fault>>

(* The client has drawn itself, at the size it was asked for or another.    *)
(* Only when it has drawn itself as it is wanted does libweston call it     *)
(* maximized or fullscreen.  twdesk_surface_committed notes the size when   *)
(* the visible part is offset otherwise than before, and keeps the place.   *)
Commit(w) ==
  /\ Asking(w)
  /\ acked' \in {acked, [acked EXCEPT ![w] = wanted[w]]}
  /\ \E s \in Size :
       \/ geometry' = [geometry EXCEPT ![w].size = s] /\ fits' = fits \cup {w}
       \/ s # geometry[w].size /\ UNCHANGED geometry /\ fits' = fits \ {w}
  /\ UNCHANGED <<alive, type, layer, old_geometry, wanted, pointer, keyboard, view, home,
                 fault>>

(* workspace_switch_layout: the floating layout picks a new place. *)
SwitchLayout(w) ==
  /\ Asking(w) /\ layer[w] \in {"floating", "tiling"}
  /\ LET t == IF type[w] = "tiling" THEN "floating" ELSE "tiling"
     IN /\ type' = [type EXCEPT ![w] = t] /\ layer' = [layer EXCEPT ![w] = t]
        /\ \E op \in Chosen(t) : geometry' = [geometry EXCEPT ![w] = Applied(@, op)]
  /\ Refitted(w)
  /\ UNCHANGED <<alive, old_geometry, wanted, acked, pointer, keyboard, view, home,
                 fault>>

(* workspace_move_view *)
Moved(w) ==
  IF layer[w] = "floating" /\ acked[w] = {}
  THEN \E p \in Place : geometry' = [geometry EXCEPT ![w].place = p]
  ELSE UNCHANGED geometry

(* workspace_resize_view to floating_resize, maximized or not; a tile stays *)
(* a tile, and there is no layout for the other layers.                     *)
Resized(w) ==
  \/ /\ layer[w] = "floating"
     /\ \E p \in Place \cup {geometry[w].place}, s \in Own \cup {None} :
          geometry' = [geometry EXCEPT ![w] = Applied(@, Geo(p, s))]
  \/ layer[w] = "tiling" /\ geometry' = [geometry EXCEPT ![w] = Geo(Tile, Tile)]
  \/ layer[w] \notin {"floating", "tiling"} /\ UNCHANGED geometry

(* tw_desktop_start_resize_grab, which is a step of keys and no grab. *)
ResizeByKey(w) ==
  /\ Asking(w) /\ Resized(w) /\ Refitted(w)
  /\ UNCHANGED <<alive, type, layer, old_geometry, wanted, acked, pointer, keyboard,
                 view, home, fault>>

(***************************************************************************)
(* The pointer                                                             *)
(***************************************************************************)

(* grab_interface_start_pointer: the view is kept also when another grab    *)
(* runs and this one is not started.                                        *)
StartPointer(g, w) ==
  IF view[g] # None THEN UNCHANGED <<view, grab>>
  ELSE /\ view' = [view EXCEPT ![g] = w]
       /\ grab' = IF grab = "default" THEN g ELSE grab

(* pointer_grab_cancel *)
CancelPointer == grab' = "default" /\ view' = [view EXCEPT ![grab] = None]

Ours == {"moving", "resizing", "alpha"}

(* Without a grab of the desktop the pointer chooses what is under it. *)
Point ==
  /\ grab \notin Ours /\ focus' \in (alive \cup {None}) /\ focus' # focus
  /\ UNCHANGED <<windows, buttons, grab, keyboard, view, observed, fault>>

(* A button goes down; with the modifier and on a window the binding        *)
(* moving_surface_pointer may start to move it.                             *)
Press ==
  /\ buttons < MaxButtons /\ buttons' = buttons + 1
  /\ \/ UNCHANGED <<grab, view>>
     \/ focus # None /\ grab = "default" /\ StartPointer("moving", focus)
  /\ UNCHANGED <<windows, focus, keyboard, observed, fault>>

(* A button goes up: move_grab_button.  The transparency grab stays. *)
Release ==
  /\ buttons > 0 /\ buttons' = buttons - 1
  /\ IF grab \in {"moving", "resizing"} /\ buttons' = 0 THEN CancelPointer
     ELSE UNCHANGED <<grab, view>>
  /\ UNCHANGED <<windows, focus, keyboard, observed, fault>>

(* Mutant of ClientGrab: the client is believed that a button is down. *)
ClientGrabUnpressed(w) ==
  /\ Asking(w) /\ focus # None
  /\ \E g \in {"moving", "resizing"} : StartPointer(g, w)
  /\ UNCHANGED <<windows, buttons, focus, keyboard, fits, home, fault>>

(* twdesk_surface_move and twdesk_surface_resize: a client, the one under   *)
(* the pointer or another, wants to be moved or resized.                    *)
ClientGrab(w) ==
  /\ Asking(w) /\ focus # None /\ buttons > 0
  /\ \E g \in {"moving", "resizing"} : StartPointer(g, w)
  /\ UNCHANGED <<windows, buttons, focus, keyboard, fits, home, fault>>

(* alpha_axis and tw_desktop_start_transparency_grab *)
StartTransparency ==
  /\ grab # "alpha" /\ focus # None /\ StartPointer("alpha", focus)
  /\ UNCHANGED <<windows, buttons, focus, keyboard, observed, fault>>

(* alpha_grab_pointer_axis: the window under the pointer may be gone. *)
Axis ==
  /\ grab = "alpha" /\ fault' = (focus = None)
  /\ UNCHANGED <<windows, pointer, keyboard, view, observed>>

(* move_grab_pointer_motion and resize_grab_pointer_motion *)
Motion ==
  /\ grab \in {"moving", "resizing"}
  /\ LET w == view[grab]
     IN IF w = None THEN UNCHANGED <<geometry, fits, fault>>
        ELSE IF w \notin alive THEN fault' = TRUE /\ UNCHANGED <<geometry, fits>>
        ELSE /\ IF grab = "moving" THEN Moved(w) ELSE Resized(w)
             /\ Refitted(w) /\ UNCHANGED fault
  /\ UNCHANGED <<alive, type, layer, old_geometry, wanted, acked, pointer, keyboard,
                 view, home, asks>>

(* A menu of a client takes the pointer and the keyboard, whatever grab     *)
(* runs, and gives them back to no grab: one of the desktop that ran keeps  *)
(* its view.                                                                *)
Popup ==
  /\ \/ grab # "popup" /\ grab' = "popup" /\ kgrab' = "popup"
     \/ grab = "popup" /\ grab' = "default" /\ kgrab' = "default"
  /\ UNCHANGED <<windows, buttons, focus, keys, view, observed, fault>>

(* The mouse is gone: libweston cancels the grab and forgets the buttons.   *)
(* A menu that is cancelled gives the keyboard back as well.                *)
RemoveMouse ==
  /\ buttons' = 0 /\ focus' = None
  /\ IF grab \in Ours THEN CancelPointer ELSE grab' = "default" /\ UNCHANGED view
  /\ kgrab' = IF grab = "popup" THEN "default" ELSE kgrab
  /\ UNCHANGED <<windows, keys, observed, fault>>

(***************************************************************************)
(* The keyboard                                                            *)
(***************************************************************************)

(* A key goes down; the binding of task switching starts its grab when no   *)
(* other runs, on the window that has the focus next.  With a view left     *)
(* behind grab_interface_start_keyboard starts nothing, and the key is      *)
(* passed, without a time, to whichever client has the keyboard.            *)
PressKey ==
  /\ keys < MaxKeys /\ keys' = keys + 1
  /\ \/ UNCHANGED <<kgrab, view, fault>>
     \/ /\ kgrab = "default" /\ view["task_switch"] = None /\ kgrab' = "task_switch"
        /\ \E w \in alive : view' = [view EXCEPT !["task_switch"] = w]
        /\ UNCHANGED fault
     \/ /\ kgrab = "default" /\ view["task_switch"] # None /\ alive # {}
        /\ fault' \in BOOLEAN /\ UNCHANGED <<kgrab, view>>
  /\ UNCHANGED <<windows, pointer, observed>>

(* task_switch_grab_cancel *)
CancelKeyboard == kgrab' = "default" /\ view' = [view EXCEPT !["task_switch"] = None]

(* Mutant of ReleaseKey: only the release of the last key is seen. *)
ReleaseKeyIgnored ==
  /\ keys > 0 /\ keys' = keys - 1
  /\ UNCHANGED <<kgrab, view, windows, pointer, observed, fault>>

(* task_switch_grab_key for a key that goes up, whichever it is. *)
ReleaseKey ==
  /\ keys > 0 /\ keys' = keys - 1
  /\ IF kgrab = "task_switch" THEN CancelKeyboard ELSE UNCHANGED <<kgrab, view>>
  /\ UNCHANGED <<windows, pointer, observed, fault>>

(***************************************************************************)
(* The desktop                                                             *)
(***************************************************************************)

Init ==
  /\ alive = {} /\ type = [w \in Window |-> "floating"]
  /\ layer = [w \in Window |-> "floating"]
  /\ geometry = [w \in Window |-> Cornered]
  /\ old_geometry = geometry /\ home = geometry /\ fits = {}
  /\ wanted = [w \in Window |-> {}] /\ acked = wanted
  /\ buttons = 0 /\ focus = None /\ grab = "default" /\ keys = 0 /\ kgrab = "default"
  /\ view = [g \in Ours \cup {"task_switch"} |-> None] /\ asks = 0 /\ fault = FALSE

WindowNext ==
  \E w \in Window :
    \/ SurfaceAdded(w) \/ SurfaceRemoved(w) \/ Commit(w)
    \/ Minimize(w) \/ SwitchLayout(w) \/ ResizeByKey(w)
    \/ \E on \in BOOLEAN : Fullscreen(w, on) \/ Maximize(w, on)

Next ==
  /\ ~fault
  /\ \/ WindowNext \/ (\E w \in Window : ClientGrab(w))
     \/ Point \/ Press \/ Release \/ Motion \/ StartTransparency \/ Axis
     \/ Popup \/ RemoveMouse
     \/ PressKey \/ ReleaseKey

Spec == Init /\ [][Next]_vars

(* A grab that moves or resizes runs only while a button is down, whoever   *)
(* asked for it and whatever runs beside it; and a grab that runs knows its *)
(* window (grab_interface_start_pointer, move_grab_button).                 *)
PointerGrabGrounded ==
  /\ grab \in {"moving", "resizing"} => buttons > 0
  /\ grab \in Ours => view[grab] # None

(* The task switch runs only while a key is down, so that the keyboard      *)
(* comes back to the windows, and it knows its window.  A menu may take the *)
(* keyboard from it at any time, and then leaves the window behind          *)
(* (tw_desktop_start_task_switch_grab, task_switch_grab_key).               *)
KeyboardGrabGrounded ==
  kgrab = "task_switch" => keys > 0 /\ view["task_switch"] # None

(* A floating window that no longer covers the screen, or the space on it,  *)
(* returns to where it was when it was last asked to, and to the size it    *)
(* had drawn then if the desktop had noted that size, whatever moved,       *)
(* resized, redrew or hid it in between (workspace_fullmax_view,            *)
(* workspace_reinsert_view).  Asked again while it covered something, that  *)
(* is the place it covered then.                                            *)
Restored ==
  [][\A w \in alive :
       w \in alive' /\ wanted[w] # {} /\ wanted'[w] = {} /\ type[w] = "floating"
         => /\ geometry'[w].place = home[w].place
            /\ home[w].size # None => geometry'[w].size = home[w].size]_vars
================================================================================
