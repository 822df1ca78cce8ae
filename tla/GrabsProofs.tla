------------------------------ MODULE GrabsProofs ------------------------------
(***************************************************************************)
(* Grabs for every set of windows and places, any number of buttons and    *)
(* keys, and any number of requests: a grab is grounded, and a window      *)
(* returns to where it was, with the size it was noted to have.            *)
(***************************************************************************)
EXTENDS Grabs, TLAPS

Types ==
  /\ alive \subseteq Window /\ focus \in Window \cup {None}
  /\ type \in [Window -> {"floating", "tiling"}]
  /\ geometry \in [Window -> Geometry]
  /\ old_geometry \in [Window -> Geometry] /\ home \in [Window -> Geometry]
  /\ wanted \in [Window -> SUBSET {"maximized", "fullscreen"}]
  /\ buttons \in Nat /\ keys \in Nat
  /\ grab \in Ours \cup {"default", "popup"} /\ kgrab \in {"default", "task_switch", "popup"}
  /\ view \in [Ours \cup {"task_switch"} -> Window \cup {None}]

(* A window that is to cover something has the place it was at, and the     *)
(* size if it was noted then.                                               *)
Kept(old, was) == old.place = was.place /\ (was.size # None => old.size = was.size)
Remembered == \A w \in Window : wanted[w] # {} => Kept(old_geometry[w], home[w])

IInv == Types /\ Remembered /\ PointerGrabGrounded /\ KeyboardGrabGrounded

(***************************************************************************)
(* Lemmas about what several steps share                                   *)
(***************************************************************************)

(* Places and sizes make a geometry. *)
LEMMA GeoLemma ==
  ASSUME NEW p \in Position, NEW z \in Size \cup {None}
  PROVE  Geo(p, z) \in Geometry
  BY DEF Geo, Geometry

LEMMA CornerLemma == Cornered \in Geometry
  BY GeoLemma DEF Cornered, Position

(* What apply_layout_operations makes of a geometry is one. *)
LEMMA AppliedLemma ==
  ASSUME NEW g \in Geometry, NEW op \in Geometry
  PROVE  Applied(g, op) \in Geometry
<1>1. /\ g.size \in Size \cup {None}
      /\ op.place \in Position /\ op.size \in Size \cup {None}
  BY DEF Geometry
<1> QED BY <1>1, GeoLemma DEF Applied

(* What the layouts choose is one. *)
LEMMA ChosenLemma ==
  ASSUME NEW t \in {"floating", "tiling"}
  PROVE  Chosen(t) \subseteq Geometry
  BY GeoLemma DEF Chosen, Position, Size

LEMMA ReinsertedLemma ==
  ASSUME NEW w, geometry[w] \in Geometry, old_geometry[w] \in Geometry
  PROVE  Reinserted(w) \in Geometry
<1>1. Geo(Tile, Tile) \in Geometry
  BY GeoLemma DEF Position, Size
<1>2. Applied(geometry[w], old_geometry[w]) \in Geometry
  BY AppliedLemma
<1> QED BY <1>1, <1>2 DEF Reinserted

(* Starting a pointer grab that has a window never leaves one without.      *)
LEMMA StartPointerLemma ==
  ASSUME IInv, NEW g \in Ours, NEW w \in Window, StartPointer(g, w),
         g \in {"moving", "resizing"} => buttons' > 0,
         buttons' >= buttons, buttons' \in Nat
  PROVE  /\ grab' \in Ours \cup {"default", "popup"}
         /\ view' \in [Ours \cup {"task_switch"} -> Window \cup {None}]
         /\ view'["task_switch"] = view["task_switch"]
         /\ PointerGrabGrounded'
<1>1. CASE view[g] # None
  BY <1>1, SMT DEF StartPointer, IInv, Types, PointerGrabGrounded, Ours
<1>2. CASE view[g] = None
  <2>1. view' = [view EXCEPT ![g] = w] /\ grab' = (IF grab = "default" THEN g ELSE grab)
    BY <1>2 DEF StartPointer
  <2>2. w # None
    BY GrabsAssumption
  <2> QED BY <2>1, <2>2, SMT DEF IInv, Types, PointerGrabGrounded, Ours
<1> QED BY <1>1, <1>2

(* Cancelling the pointer grab of the desktop clears its window. *)
LEMMA CancelPointerLemma ==
  ASSUME IInv, grab \in Ours, CancelPointer
  PROVE  /\ grab' = "default"
         /\ view' \in [Ours \cup {"task_switch"} -> Window \cup {None}]
         /\ view'["task_switch"] = view["task_switch"]
  BY DEF CancelPointer, IInv, Types, Ours

(* What steps on windows keep of the grabs, and steps on grabs of windows.  *)
LEMMA WindowsOnly ==
  ASSUME IInv, UNCHANGED <<buttons, grab, keyboard, view>>
  PROVE  PointerGrabGrounded' /\ KeyboardGrabGrounded'
  BY DEF IInv, PointerGrabGrounded, KeyboardGrabGrounded, keyboard

LEMMA GrabsOnly ==
  ASSUME IInv, UNCHANGED <<old_geometry, wanted, home>>
  PROVE  Remembered'
  BY DEF IInv, Remembered

(* A request to cover something, or to end it, keeps what is remembered.    *)
LEMMA CoveringLemma ==
  ASSUME IInv, NEW w \in Window, NEW on \in BOOLEAN,
         NEW state \in {"maximized", "fullscreen"}, NEW cover \in {Space, Screen},
         Wanting(w, state, on), Covering(w, on, cover)
  PROVE  /\ geometry' \in [Window -> Geometry]
         /\ old_geometry' \in [Window -> Geometry]
         /\ wanted' \in [Window -> SUBSET {"maximized", "fullscreen"}]
         /\ home' \in [Window -> Geometry]
         /\ Remembered'
<1>1. Types /\ Remembered
  BY DEF IInv
<1>2. geometry[w] \in Geometry /\ home[w] \in Geometry /\ old_geometry[w] \in Geometry
  BY <1>1 DEF Types
<1>3. wanted' = [wanted EXCEPT ![w] = IF on THEN @ \cup {state} ELSE @ \ {state}]
  BY DEF Wanting
<1>4. wanted' \in [Window -> SUBSET {"maximized", "fullscreen"}] /\ (on => wanted'[w] # {})
  BY <1>1, <1>3 DEF Types
<1>5. PICK h : /\ home' = [home EXCEPT ![w] = h]
               /\ h = IF wanted'[w] = {} THEN Cornered
                      ELSE IF ~on THEN home[w]
                      ELSE [geometry[w] EXCEPT !.size = IF w \in fits THEN @ ELSE None]
  BY <1>1 DEF Wanting, Types
<1>6. on => h.place = geometry[w].place /\ (h.size # None => h.size = geometry[w].size)
  BY <1>2, <1>4, <1>5 DEF Geometry
<1>7. h \in Geometry
  <2>1. CASE wanted'[w] = {}
    BY <1>5, <2>1, CornerLemma
  <2>2. CASE wanted'[w] # {} /\ ~on
    BY <1>2, <1>5, <2>2
  <2>3. CASE wanted'[w] # {} /\ on
    BY <1>2, <1>5, <2>3 DEF Geometry
  <2> QED BY <2>1, <2>2, <2>3
<1>8. home' \in [Window -> Geometry]
  BY <1>1, <1>5, <1>7 DEF Types
<1>9. Reinserted(w) \in Geometry
  BY <1>2, ReinsertedLemma
<1>10. Geo(cover, cover) \in Geometry
  BY GeoLemma DEF Position, Size
<1>11. old_geometry' = [old_geometry EXCEPT ![w] = IF on THEN geometry[w] ELSE @]
  BY <1>1 DEF Covering, Types
<1>12. geometry' \in [Window -> Geometry]
  BY <1>1, <1>9, <1>10 DEF Covering, Types
<1>13. old_geometry' \in [Window -> Geometry]
  BY <1>1, <1>2, <1>11 DEF Types
<1>14. ASSUME NEW x \in Window, wanted'[x] # {}
       PROVE  Kept(old_geometry'[x], home'[x])
  <2>1. CASE x # w
    <3>1. wanted[x] # {} /\ home'[x] = home[x] /\ old_geometry'[x] = old_geometry[x]
      BY <2>1, <1>1, <1>3, <1>5, <1>11, <1>14 DEF Types
    <3> QED BY <3>1, <1>1 DEF Remembered
  <2>2. CASE x = w /\ on
    <3>1. home'[x] = h /\ old_geometry'[x] = geometry[w]
      BY <2>2, <1>1, <1>5, <1>11 DEF Types
    <3> QED BY <3>1, <2>2, <1>6 DEF Kept
  <2>3. CASE x = w /\ ~on
    <3>1. wanted[x] # {} /\ home'[x] = home[x] /\ old_geometry'[x] = old_geometry[x]
      BY <2>3, <1>1, <1>3, <1>5, <1>11, <1>14 DEF Types
    <3> QED BY <3>1, <1>1 DEF Remembered
  <2> QED BY <2>1, <2>2, <2>3
<1> QED BY <1>4, <1>8, <1>12, <1>13, <1>14 DEF Remembered

LEMMA MovedLemma ==
  ASSUME IInv, NEW w \in Window, Moved(w) \/ Resized(w)
  PROVE  geometry' \in [Window -> Geometry]
<1>1. geometry \in [Window -> Geometry] /\ geometry[w] \in Geometry
  BY DEF IInv, Types
<1>2. CASE UNCHANGED geometry
  BY <1>1, <1>2
<1>3. ASSUME NEW p \in Place, geometry' = [geometry EXCEPT ![w].place = p]
      PROVE  geometry' \in [Window -> Geometry]
  <2>1. [geometry[w] EXCEPT !.place = p] \in Geometry
    BY <1>1 DEF Geometry, Position
  <2> QED BY <1>1, <1>3, <2>1
<1>4. ASSUME NEW p \in Place \cup {geometry[w].place}, NEW z \in Own \cup {None},
             geometry' = [geometry EXCEPT ![w] = Applied(@, Geo(p, z))]
      PROVE  geometry' \in [Window -> Geometry]
  <2>1. p \in Position /\ z \in Size \cup {None}
    BY <1>1 DEF Geometry, Position, Size
  <2>2. Applied(geometry[w], Geo(p, z)) \in Geometry
    BY <1>1, <2>1, GeoLemma, AppliedLemma
  <2>3. geometry' = [geometry EXCEPT ![w] = Applied(geometry[w], Geo(p, z))]
    BY <1>4
  <2> QED BY <1>1, <2>2, <2>3
<1>5. CASE geometry' = [geometry EXCEPT ![w] = Geo(Tile, Tile)]
  <2>1. Geo(Tile, Tile) \in Geometry
    BY GeoLemma DEF Position, Size
  <2> QED BY <1>1, <1>5, <2>1
<1> QED BY <1>2, <1>3, <1>4, <1>5 DEF Moved, Resized

(***************************************************************************)
(* The invariant                                                           *)
(***************************************************************************)
LEMMA InitInv == Init => IInv
  BY CornerLemma, SMT
  DEF Init, IInv, Types, Remembered, PointerGrabGrounded, KeyboardGrabGrounded, Ours

(* Requests about windows, by the window they are about. *)
LEMMA WindowInv ==
  ASSUME IInv, NEW w \in Window,
         \/ SurfaceAdded(w) \/ SurfaceRemoved(w) \/ Commit(w)
         \/ Minimize(w) \/ SwitchLayout(w) \/ ResizeByKey(w)
         \/ \E on \in BOOLEAN : Fullscreen(w, on) \/ Maximize(w, on)
  PROVE  IInv'
<1> USE DEF keyboard, pointer, observed
<1>1. Types /\ Remembered
  BY DEF IInv
<1>2. ASSUME UNCHANGED <<buttons, grab, keyboard, view>>, Types',
             UNCHANGED <<old_geometry, wanted, home>>
      PROVE  IInv'
  BY <1>2, WindowsOnly, GrabsOnly DEF IInv
<1>3. CASE SurfaceAdded(w)
  <2>1. UNCHANGED <<buttons, focus, grab, keyboard, view, old_geometry, wanted, home>>
    BY <1>3 DEF SurfaceAdded
  <2>2. PICK t \in {"floating", "tiling"} :
          /\ type' = [type EXCEPT ![w] = t]
          /\ \E op \in Chosen(t) : geometry' = [geometry EXCEPT ![w] = Applied(Cornered, op)]
    BY <1>3 DEF SurfaceAdded
  <2>3. PICK op \in Geometry : geometry' = [geometry EXCEPT ![w] = Applied(Cornered, op)]
    BY <2>2, ChosenLemma
  <2>4. Applied(Cornered, op) \in Geometry
    BY CornerLemma, AppliedLemma
  <2>5. geometry' \in [Window -> Geometry] /\ type' \in [Window -> {"floating", "tiling"}]
    BY <1>1, <2>2, <2>3, <2>4 DEF Types
  <2>6. Types'
    BY <1>1, <1>3, <2>1, <2>5 DEF Types, SurfaceAdded
  <2> QED BY <1>2, <2>1, <2>6
<1>4. CASE SurfaceRemoved(w)
  <2>1. UNCHANGED <<buttons, grab, keyboard, view>>
    BY <1>4 DEF SurfaceRemoved
  <2>2. /\ geometry' \in [Window -> Geometry] /\ old_geometry' \in [Window -> Geometry]
        /\ home' \in [Window -> Geometry]
    BY <1>1, <1>4, CornerLemma DEF Types, SurfaceRemoved, Forgotten
  <2>3. Types'
    BY <1>1, <1>4, <2>1, <2>2 DEF Types, SurfaceRemoved, Forgotten
  <2>4. ASSUME NEW x \in Window, wanted'[x] # {}
        PROVE  Kept(old_geometry'[x], home'[x])
    <3>1. x # w
      BY <1>1, <1>4, <2>4 DEF Types, SurfaceRemoved, Forgotten
    <3>2. wanted[x] # {} /\ old_geometry'[x] = old_geometry[x] /\ home'[x] = home[x]
      BY <1>1, <1>4, <2>4, <3>1 DEF Types, SurfaceRemoved, Forgotten
    <3> QED BY <1>1, <3>2 DEF Remembered
  <2>5. Remembered'
    BY <2>4 DEF Remembered
  <2> QED BY <2>1, <2>3, <2>5, WindowsOnly DEF IInv
<1>5. CASE Commit(w)
  <2>1. UNCHANGED <<alive, type, buttons, focus, grab, keyboard, view, old_geometry, wanted, home>>
    BY <1>5 DEF Commit
  <2>2. PICK z \in Size : geometry' = [geometry EXCEPT ![w].size = z] \/ UNCHANGED geometry
    BY <1>5 DEF Commit
  <2>3. [geometry[w] EXCEPT !.size = z] \in Geometry
    BY <1>1 DEF Geometry, Types
  <2>4. geometry' \in [Window -> Geometry]
    BY <1>1, <2>2, <2>3 DEF Types
  <2>5. Types'
    BY <1>1, <2>1, <2>4 DEF Types
  <2> QED BY <1>2, <2>1, <2>5
<1>6. CASE Minimize(w)
  <2>1. UNCHANGED <<alive, type, geometry, buttons, focus, grab, keyboard, view, old_geometry, wanted, home>>
    BY <1>6 DEF Minimize
  <2>2. Types'
    BY <1>1, <2>1 DEF Types
  <2> QED BY <1>2, <2>1, <2>2
<1>7. CASE SwitchLayout(w)
  <2>1. UNCHANGED <<alive, buttons, focus, grab, keyboard, view, old_geometry, wanted, home>>
    BY <1>7 DEF SwitchLayout
  <2>2. PICK t \in {"floating", "tiling"} :
          /\ type' = [type EXCEPT ![w] = t]
          /\ \E op \in Chosen(t) : geometry' = [geometry EXCEPT ![w] = Applied(@, op)]
    BY <1>7 DEF SwitchLayout
  <2>3. PICK op \in Geometry : geometry' = [geometry EXCEPT ![w] = Applied(geometry[w], op)]
    BY <2>2, ChosenLemma
  <2>4. Applied(geometry[w], op) \in Geometry
    BY <1>1, AppliedLemma DEF Types
  <2>5. geometry' \in [Window -> Geometry] /\ type' \in [Window -> {"floating", "tiling"}]
    BY <1>1, <2>2, <2>3, <2>4 DEF Types
  <2>6. Types'
    BY <1>1, <2>1, <2>5 DEF Types
  <2> QED BY <1>2, <2>1, <2>6
<1>10. CASE ResizeByKey(w)
  <2>1. UNCHANGED <<alive, type, buttons, focus, grab, keyboard, view, old_geometry, wanted, home>>
    BY <1>10 DEF ResizeByKey
  <2>2. geometry' \in [Window -> Geometry]
    BY <1>10, MovedLemma DEF ResizeByKey
  <2>3. Types'
    BY <1>1, <2>1, <2>2 DEF Types
  <2> QED BY <1>2, <2>1, <2>3
<1>8. ASSUME NEW on \in BOOLEAN, Fullscreen(w, on) PROVE IInv'
  <2>1. UNCHANGED <<alive, type, buttons, focus, grab, keyboard, view>>
    BY <1>8 DEF Fullscreen
  <2>2. Wanting(w, "fullscreen", on) /\ Covering(w, on, Screen)
    BY <1>8 DEF Fullscreen
  <2>3. Types' /\ Remembered'
    BY <1>1, <2>1, <2>2, CoveringLemma DEF Types
  <2> QED BY <2>1, <2>3, WindowsOnly DEF IInv
<1>9. ASSUME NEW on \in BOOLEAN, Maximize(w, on) PROVE IInv'
  <2>1. UNCHANGED <<alive, type, buttons, focus, grab, keyboard, view>>
    BY <1>9 DEF Maximize
  <2>2. Wanting(w, "maximized", on) /\ Covering(w, on, Space)
    BY <1>9 DEF Maximize
  <2>3. Types' /\ Remembered'
    BY <1>1, <2>1, <2>2, CoveringLemma DEF Types
  <2> QED BY <2>1, <2>3, WindowsOnly DEF IInv
<1> QED BY <1>3, <1>4, <1>5, <1>6, <1>7, <1>8, <1>9, <1>10

(* The pointer: buttons, motion, clients that want to be moved. *)
LEMMA PointerInv ==
  ASSUME IInv,
         \/ \E w \in Window : ClientGrab(w)
         \/ Point \/ Press \/ Release \/ Motion \/ StartTransparency \/ Axis
         \/ Popup \/ RemoveMouse
  PROVE  IInv'
<1> USE DEF keyboard, pointer, observed, windows
<1>1. Types /\ PointerGrabGrounded /\ KeyboardGrabGrounded
  BY DEF IInv
<1>2. ASSUME UNCHANGED <<windows, home, keys>>,
             kgrab' = kgrab \/ kgrab' \in {"default", "popup"},
             focus' \in Window \cup {None}, buttons' \in Nat,
             grab' \in Ours \cup {"default", "popup"},
             view' \in [Ours \cup {"task_switch"} -> Window \cup {None}],
             view'["task_switch"] = view["task_switch"],
             PointerGrabGrounded'
      PROVE  IInv'
  <2>1. Types'
    BY <1>1, <1>2 DEF Types
  <2>2. Remembered'
    BY <1>2, GrabsOnly
  <2>3. KeyboardGrabGrounded'
    BY <1>1, <1>2 DEF KeyboardGrabGrounded
  <2> QED BY <1>2, <2>1, <2>2, <2>3 DEF IInv
<1>3. ASSUME NEW w \in Window, ClientGrab(w) PROVE IInv'
  <2>1. PICK g \in {"moving", "resizing"} : StartPointer(g, w)
    BY <1>3 DEF ClientGrab
  <2>2. buttons' = buttons /\ buttons > 0 /\ g \in Ours /\ UNCHANGED <<windows, focus, keyboard, home>>
    BY <1>3 DEF ClientGrab, Ours
  <2> QED BY <1>1, <1>2, <2>1, <2>2, StartPointerLemma DEF Types
<1>4. CASE Point
  <2>1. PointerGrabGrounded'
    BY <1>1, <1>4 DEF Point, PointerGrabGrounded
  <2> QED BY <1>1, <1>2, <1>4, <2>1 DEF Point, Types
<1>5. CASE Press
  <2>1. buttons' = buttons + 1 /\ buttons' \in Nat /\ buttons' > 0 /\ buttons' >= buttons
    BY <1>1, <1>5 DEF Press, Types
  <2>2. UNCHANGED <<windows, focus, keyboard, home>>
    BY <1>5 DEF Press
  <2>3. CASE UNCHANGED <<grab, view>>
    <3>1. PointerGrabGrounded'
      BY <1>1, <2>1, <2>3 DEF PointerGrabGrounded
    <3> QED BY <1>1, <1>2, <2>1, <2>2, <2>3, <3>1 DEF Types
  <2>4. CASE focus # None /\ StartPointer("moving", focus)
    <3>1. focus \in Window /\ "moving" \in Ours
      BY <1>1, <2>4 DEF Types, Ours
    <3> QED BY <1>1, <1>2, <2>1, <2>2, <2>4, <3>1, StartPointerLemma DEF Types
  <2> QED BY <1>5, <2>3, <2>4 DEF Press
<1>6. CASE Release
  <2>1. buttons' \in Nat
    BY <1>1, <1>6 DEF Release, Types
  <2>2. UNCHANGED <<windows, focus, keyboard, home>>
    BY <1>6 DEF Release
  <2>3. CASE grab \in {"moving", "resizing"} /\ buttons' = 0
    <3>1. CancelPointer /\ grab \in Ours
      BY <1>6, <2>3 DEF Release, Ours
    <3>2. PointerGrabGrounded'
      BY <3>1, CancelPointerLemma DEF PointerGrabGrounded, Ours
    <3> QED BY <1>1, <1>2, <2>1, <2>2, <3>1, <3>2, CancelPointerLemma DEF Types
  <2>4. CASE ~(grab \in {"moving", "resizing"} /\ buttons' = 0)
    <3>1. UNCHANGED <<grab, view>>
      BY <1>6, <2>4 DEF Release
    <3>2. grab \in {"moving", "resizing"} => buttons' > 0
      BY <2>1, <2>4
    <3>3. PointerGrabGrounded'
      BY <1>1, <3>1, <3>2 DEF PointerGrabGrounded
    <3> QED BY <1>1, <1>2, <2>1, <2>2, <3>1, <3>3 DEF Types
  <2> QED BY <2>3, <2>4
<1>7. CASE Motion
  <2>1. /\ UNCHANGED <<alive, type, old_geometry, wanted, home>>
        /\ UNCHANGED <<buttons, focus, grab, keyboard, view>>
    BY <1>7 DEF Motion
  <2>2. geometry' \in [Window -> Geometry]
    <3>1. CASE UNCHANGED geometry
      BY <1>1, <3>1 DEF Types
    <3>2. CASE view[grab] \in alive /\ (Moved(view[grab]) \/ Resized(view[grab]))
      BY <1>1, <3>2, MovedLemma DEF Types
    <3> QED BY <1>7, <3>1, <3>2 DEF Motion
  <2>3. Types'
    BY <1>1, <2>1, <2>2 DEF Types
  <2>4. Remembered'
    BY <2>1 DEF IInv, Remembered
  <2> QED BY <2>1, <2>3, <2>4, WindowsOnly DEF IInv
<1>8. CASE StartTransparency
  <2>1. focus \in Window /\ "alpha" \in Ours /\ StartPointer("alpha", focus)
    BY <1>1, <1>8 DEF StartTransparency, Types, Ours
  <2>2. UNCHANGED <<windows, buttons, focus, keyboard, home>>
    BY <1>8 DEF StartTransparency
  <2> QED BY <1>1, <1>2, <2>1, <2>2, StartPointerLemma DEF Types
<1>9. CASE Axis
  <2>1. PointerGrabGrounded'
    BY <1>1, <1>9 DEF Axis, PointerGrabGrounded
  <2> QED BY <1>1, <1>2, <1>9, <2>1 DEF Axis, Types
<1>10. CASE Popup
  <2>1. /\ grab' \in {"default", "popup"} /\ kgrab' \in {"default", "popup"}
        /\ UNCHANGED <<windows, buttons, focus, keys, view, home>>
    BY <1>10 DEF Popup
  <2>2. PointerGrabGrounded'
    BY <2>1 DEF PointerGrabGrounded, Ours
  <2> QED BY <1>1, <1>2, <2>1, <2>2 DEF Types
<1>11. CASE RemoveMouse
  <2>1. /\ buttons' = 0 /\ focus' = None /\ UNCHANGED <<windows, keys, home>>
        /\ kgrab' = kgrab \/ kgrab' \in {"default", "popup"}
    BY <1>11 DEF RemoveMouse
  <2>2. CASE grab \in Ours
    <3>1. CancelPointer
      BY <1>11, <2>2 DEF RemoveMouse
    <3>2. PointerGrabGrounded'
      BY <2>2, <3>1, CancelPointerLemma DEF PointerGrabGrounded, Ours
    <3> QED BY <1>1, <1>2, <2>1, <2>2, <3>1, <3>2, CancelPointerLemma DEF Types
  <2>3. CASE grab \notin Ours
    <3>1. grab' = "default" /\ view' = view
      BY <1>11, <2>3 DEF RemoveMouse
    <3>2. PointerGrabGrounded'
      BY <3>1 DEF PointerGrabGrounded, Ours
    <3> QED BY <1>1, <1>2, <2>1, <3>1, <3>2 DEF Types
  <2> QED BY <2>2, <2>3
<1> QED BY <1>3, <1>4, <1>5, <1>6, <1>7, <1>8, <1>9, <1>10, <1>11

(* The keyboard: any key that goes up ends the task switch. *)
LEMMA KeyboardInv == IInv /\ (PressKey \/ ReleaseKey) => IInv'
<1> SUFFICES ASSUME IInv, PressKey \/ ReleaseKey PROVE IInv'
  OBVIOUS
<1> USE DEF keyboard, pointer, observed, windows
<1>1. Types /\ Remembered /\ PointerGrabGrounded /\ KeyboardGrabGrounded /\ None \notin Window
  BY GrabsAssumption DEF IInv
<1>2. UNCHANGED <<windows, pointer, home>>
  BY DEF PressKey, ReleaseKey
<1>3. Remembered'
  BY <1>2, GrabsOnly
<1>4. CASE UNCHANGED <<kgrab, view>> /\ keys' = keys + 1  \* with or without a fault
  <2>1. Types'
    BY <1>1, <1>2, <1>4 DEF Types
  <2>2. PointerGrabGrounded' /\ KeyboardGrabGrounded'
    BY <1>1, <1>2, <1>4 DEF Types, PointerGrabGrounded, KeyboardGrabGrounded
  <2> QED BY <1>3, <2>1, <2>2 DEF IInv
<1>5. CASE /\ kgrab' = "task_switch" /\ keys' = keys + 1
           /\ \E w \in alive : view' = [view EXCEPT !["task_switch"] = w]
  <2>1. PICK w \in Window : view' = [view EXCEPT !["task_switch"] = w]
    BY <1>1, <1>5 DEF Types
  <2>2. Types'
    BY <1>1, <1>2, <1>5, <2>1 DEF Types
  <2>3. PointerGrabGrounded'
    BY <1>1, <1>2, <2>1 DEF Types, PointerGrabGrounded, Ours
  <2>4. view'["task_switch"] = w /\ keys' > 0
    BY <1>1, <1>5, <2>1 DEF Types
  <2>5. KeyboardGrabGrounded'
    BY <1>1, <1>5, <2>4 DEF KeyboardGrabGrounded
  <2> QED BY <1>3, <2>2, <2>3, <2>5 DEF IInv
<1>6. CASE ReleaseKey /\ kgrab = "task_switch"
  <2>1. kgrab' = "default" /\ view' = [view EXCEPT !["task_switch"] = None]
    BY <1>6 DEF ReleaseKey, CancelKeyboard
  <2>2. keys' \in Nat
    BY <1>1, <1>6 DEF ReleaseKey, Types
  <2>3. Types'
    BY <1>1, <1>2, <2>1, <2>2 DEF Types
  <2>4. PointerGrabGrounded'
    BY <1>1, <1>2, <2>1 DEF Types, PointerGrabGrounded, Ours
  <2>5. KeyboardGrabGrounded'
    BY <1>1, <2>1 DEF KeyboardGrabGrounded, Types
  <2> QED BY <1>3, <2>3, <2>4, <2>5 DEF IInv
<1>7. CASE ReleaseKey /\ kgrab # "task_switch"
  <2>1. UNCHANGED <<kgrab, view>> /\ keys' \in Nat
    BY <1>1, <1>7 DEF ReleaseKey, Types
  <2>2. Types'
    BY <1>1, <1>2, <2>1 DEF Types
  <2>3. PointerGrabGrounded' /\ KeyboardGrabGrounded'
    BY <1>1, <1>2, <1>7, <2>1 DEF PointerGrabGrounded, KeyboardGrabGrounded
  <2> QED BY <1>3, <2>2, <2>3 DEF IInv
<1> QED BY <1>4, <1>5, <1>6, <1>7 DEF PressKey

LEMMA NextInv == IInv /\ [Next]_vars => IInv'
<1> SUFFICES ASSUME IInv, [Next]_vars PROVE IInv'
  OBVIOUS
<1>1. CASE UNCHANGED vars
  BY <1>1 DEF vars, windows, pointer, keyboard, observed, IInv, Types, Remembered,
              PointerGrabGrounded, KeyboardGrabGrounded
<1>2. CASE WindowNext
  BY <1>2, WindowInv DEF WindowNext
<1>3. CASE Next /\ ~WindowNext
  BY <1>3, PointerInv, KeyboardInv DEF Next
<1> QED BY <1>1, <1>2, <1>3

THEOREM Invariance == Spec => []IInv
<1> QED BY InitInv, NextInv, PTL DEF Spec

(***************************************************************************)
(* The theorems                                                            *)
(***************************************************************************)
(* For any number of windows, buttons and requests, a grab of the pointer   *)
(* that moves or resizes runs only while a button is down, and every grab   *)
(* of the desktop knows its window.                                         *)
THEOREM PointerGrabsGrounded == Spec => []PointerGrabGrounded
<1>1. IInv => PointerGrabGrounded
  BY DEF IInv
<1> QED BY <1>1, Invariance, PTL

(* For any number of keys and windows, and whatever menus open beside it,   *)
(* the task switch runs only while a key is down, and knows its window.     *)
THEOREM KeyboardGrabsGrounded == Spec => []KeyboardGrabGrounded
<1>1. IInv => KeyboardGrabGrounded
  BY DEF IInv
<1> QED BY <1>1, Invariance, PTL

(* Whatever moved, resized, redrew or hid it in between, a floating window  *)
(* returns to where it was when it was last asked to cover something, and   *)
(* to the size it had drawn then if the desktop had noted that size.        *)
THEOREM WindowsRestored == Spec => Restored
<1> DEFINE A == \A w \in alive :
                  w \in alive' /\ wanted[w] # {} /\ wanted'[w] = {} /\ type[w] = "floating"
                    => /\ geometry'[w].place = home[w].place
                       /\ home[w].size # None => geometry'[w].size = home[w].size
<1>1. ASSUME IInv, [Next]_vars PROVE [A]_vars
  <2> SUFFICES ASSUME Next, NEW w \in alive, w \in alive',
                      wanted[w] # {}, wanted'[w] = {}, type[w] = "floating"
               PROVE  /\ geometry'[w].place = home[w].place
                      /\ home[w].size # None => geometry'[w].size = home[w].size
    BY <1>1
  <2>1. Types /\ Remembered /\ w \in Window
    BY <1>1 DEF IInv, Types
  <2>2. wanted' # wanted
    OBVIOUS
  <2>3. PICK v \in Window, on \in BOOLEAN : Fullscreen(v, on) \/ Maximize(v, on)
    BY <2>1, <2>2 DEF Next, WindowNext, SurfaceAdded, SurfaceRemoved, Forgotten, Commit, Minimize, SwitchLayout,
         ResizeByKey, ClientGrab, Point, Press, Release, Motion, StartTransparency, Axis, Popup,
         RemoveMouse, PressKey, ReleaseKey, windows, Types
  <2>4. \E state \in {"maximized", "fullscreen"}, cover \in {Screen, Space} :
          Wanting(v, state, on) /\ Covering(v, on, cover)
    BY <2>3 DEF Fullscreen, Maximize
  <2>5. v = w /\ ~on
    BY <2>1, <2>4 DEF Wanting, Types
  <2>6. geometry'[w] = Reinserted(w)
    BY <2>1, <2>4, <2>5 DEF Covering, Types
  <2>7. Kept(old_geometry[w], home[w])
    BY <2>1 DEF Remembered
  <2>8. geometry'[w] = Geo(old_geometry[w].place,
                           IF old_geometry[w].size = None THEN geometry[w].size ELSE old_geometry[w].size)
    BY <2>6 DEF Reinserted, Applied
  <2> QED BY <2>7, <2>8 DEF Kept, Geo
<1>2. Spec => [][A]_vars
  BY <1>1, Invariance, PTL DEF Spec
<1> QED BY <1>2 DEF Restored
================================================================================
