-------------------------------- MODULE Desktop --------------------------------
(***************************************************************************)
(* The desktop of the compositor: its workspaces, the layer of a workspace *)
(* each window is on, the order in which windows were last used, and the   *)
(* keyboard focus (server/desktop/desktop.c, workspace.c, and the key      *)
(* bindings of server/config/config_bindings.c that drive them).           *)
(*                                                                         *)
(* What is abstracted: geometry, the stacking order inside a layer, and    *)
(* the shape of the tiling trees, of which only the number of leaves each  *)
(* window has is kept (TilingTree models the tree itself; here there is    *)
(* one screen, and an insertion finds room).                               *)
(*                                                                         *)
(* The event loop is single threaded: one handler is one action.  Clients  *)
(* send requests whenever they like, also for a window on a workspace that *)
(* is not the active one; Background says whether they do.                 *)
(***************************************************************************)
EXTENDS Integers, Sequences, FiniteSets, SequencesExt

CONSTANTS
  Views,         \* windows
  XViews,        \* those that are X11 windows
  MaxWorkspace,  \* MAX_WORKSPACE (8): the desktop has one workspace more
  Background,    \* may a window off the active workspace send requests?
  LeafBound,     \* bound on the leaves one window has in one tree
  Nowhere, NoView

Workspaces == 0..MaxWorkspace

ASSUME DesktopAssumption ==
  /\ MaxWorkspace \in Nat \ {0}
  /\ XViews \subseteq Views
  /\ Background \in BOOLEAN
  /\ LeafBound \in Nat \ {0}
  /\ Nowhere \notin Workspaces /\ NoView \notin Views

VARIABLES
  live,       \* the windows that have a recent_view
  home,       \* the workspace whose layer the window is on ...
  kind,       \* ... and which of its layers
  type,       \* recent_view.type: the layer the window returns to
  fullscreen, \* the windows that were told they are fullscreen
  recent,     \* recent[w]: the recent_views list of workspace w
  leaves,     \* leaves[w][v]: v's leaves in the tiling tree of workspace w
  layout,     \* layout[w]: the type new windows get on w (current_layout)
  position,   \* position[w][k]: where layer k of workspace w is shown
  active,     \* actived_workspace[0]
  last,       \* actived_workspace[1]
  focus,      \* the window with the keyboard focus
  fault       \* "none", or how the compositor went down

layers == <<home, kind>>
vars == <<live, home, kind, type, fullscreen, recent, leaves, layout, position,
          active, last, focus, fault>>

Types  == {"tiling", "floating"}
Kinds  == Types \cup {"fullscreen", "hidden"}
Shown  == Types \cup {"fullscreen"}
Positions == {"off", "back", "front", "top"}
Faults == {"none", "no top view", "freed view", "past the buffer"}
LeafCounts == [Workspaces -> [Views -> 0..LeafBound]]

(* Where workspace_switch puts the layers of a workspace. *)
Off     == [k \in Shown |-> "off"]
Resting == [tiling |-> "back", floating |-> "front", fullscreen |-> "top"]

Other(t) == IF t = "tiling" THEN "floating" ELSE "tiling"

(* is_view_on_workspace: the view is on one of w's four layers. *)
On(v, w) == home[v] = w

(***************************************************************************)
(* Operations of a workspace                                               *)
(***************************************************************************)

(* wl_list_remove of a view's link, whichever list it is in. *)
Without(s, v) ==
  IF Contains(s, v) THEN RemoveAt(s, CHOOSE i \in 1..Len(s) : s[i] = v) ELSE s

(* Mutant of Unlinked: the link of a view that goes stays in its list. *)
UnlinkedNever(r, v) == r

Unlinked(r, v) == [w \in Workspaces |-> Without(r[w], v)]

(* Mutant of Focused: the link is added without being removed first. *)
FocusedTwice(r, w, v) == [r EXCEPT ![w] = <<v>> \o @]

(* Mutant of Focused: the view goes to the front of the list it is in. *)
FocusedInPlace(r, w, v) ==
  LET own == {u \in Workspaces : Contains(r[u], v)}
      u   == IF own = {} THEN w ELSE CHOOSE x \in own : TRUE
  IN  [Unlinked(r, v) EXCEPT ![u] = <<v>> \o @]

(* workspace_focus_view on the recent views: v becomes the first of w. *)
Focused(r, w, v) == [Unlinked(r, v) EXCEPT ![w] = <<v>> \o @]

(* Mutants of Defocused: the view goes back to the front; it is lost. *)
DefocusedToFront(r, w, v) == Focused(r, w, v)
DefocusedLost(r, w, v) == Unlinked(r, v)

(* workspace_defocus_view: v becomes the last of w. *)
Defocused(r, w, v) ==
  IF On(v, w) THEN [Unlinked(r, v) EXCEPT ![w] = Append(@, v)] ELSE r

(* workspace_get_top_view *)
Top(r, w) == IF r[w] = <<>> THEN NoView ELSE Head(r[w])

(* workspace_focus_view on the layers: v's layer to the front, the other of *)
(* the tiling and the floating layer behind it.                             *)
Raised(w, k) ==
  IF k \in Types
  THEN [position EXCEPT ![w] = [@ EXCEPT ![k] = "front", ![Other(k)] = "back"]]
  ELSE position

(* Mutant of Uprooted: the leaf of a removed view stays in the tree. *)
UprootedNever(w, v) == leaves

(* workspace_remove_view on the tiling tree of w: only a view on w's tiling *)
(* layer is deleted from it.                                                *)
Uprooted(w, v) ==
  IF On(v, w) /\ kind[v] = "tiling"
  THEN [leaves EXCEPT ![w][v] = IF leaves[w][v] > 0 THEN leaves[w][v] - 1 ELSE 0]
  ELSE leaves

Planted(l, w, v, t) ==
  IF t = "tiling" THEN [l EXCEPT ![w][v] = @ + 1] ELSE l

(* Mutant of MoveTo: the layer of the layout, not of the view's type. *)
MoveToLayoutLayer(w, v, t) ==
  /\ home' = [home EXCEPT ![v] = w]
  /\ kind' = [kind EXCEPT ![v] = layout[w]]
  /\ leaves' = Planted(Uprooted(w, v), w, v, layout[w])
  /\ leaves' \in LeafCounts
  /\ recent' = Focused(recent, w, v)
  /\ position' = Raised(w, layout[w])

(* Mutant of MoveTo: a floating view is not inserted into a layer. *)
MoveToTilesOnly(w, v, t) ==
  /\ home' = [home EXCEPT ![v] = IF t = "tiling" THEN w ELSE Nowhere]
  /\ kind' = [kind EXCEPT ![v] = IF t = "tiling" THEN t ELSE "none"]
  /\ leaves' = Planted(Uprooted(w, v), w, v, t)
  /\ leaves' \in LeafCounts
  /\ recent' = Focused(recent, w, v)
  /\ position' = Raised(w, t)

(* workspace_remove_view followed by workspace_add_view or                  *)
(* workspace_reinsert_view, for a view of type t; these end in              *)
(* workspace_focus_view.                                                    *)
MoveTo(w, v, t) ==
  /\ home' = [home EXCEPT ![v] = w]
  /\ kind' = [kind EXCEPT ![v] = t]
  /\ leaves' = Planted(Uprooted(w, v), w, v, t)
  /\ leaves' \in LeafCounts
  /\ recent' = Focused(recent, w, v)
  /\ position' = Raised(w, t)

(* workspace_switch_layout of a view on one of w's layers. *)
SwitchLayout(w, v) ==
  /\ On(v, w) /\ kind[v] \in Types
  /\ type' = [type EXCEPT ![v] = Other(@)]
  /\ MoveTo(w, v, Other(type[v]))

Fault(cause) ==
  /\ fault' = cause
  /\ UNCHANGED <<live, layers, type, fullscreen, recent, leaves, layout, position,
                 active, last, focus>>

(***************************************************************************)
(* Requests of clients                                                     *)
(***************************************************************************)
Requests(v) == v \in live /\ (Background \/ On(v, active))

(* twdesk_surface_added *)
SurfaceAdded(v) ==
  LET t == IF v \in XViews THEN "floating" ELSE layout[active] IN
  /\ v \notin live
  /\ live' = live \cup {v}
  /\ type' = [type EXCEPT ![v] = t]
  /\ MoveTo(active, v, t)
  /\ focus' = v
  /\ UNCHANGED <<fullscreen, layout, active, last, fault>>

(* twdesk_surface_removed.  The next window to focus is the first of the    *)
(* active workspace's recent views that is not on its hidden layer.         *)
SurfaceRemoved(v) ==
  LET rest == Unlinked(recent, v)
      mine == rest[active]
      visible == {i \in 1..Len(mine) :
                    ~(On(mine[i], active) /\ kind[mine[i]] = "hidden")}
      Refocus(next) ==
        /\ focus' = next
        /\ \/ /\ On(next, active)
              /\ recent' = Focused(rest, active, next)
              /\ position' = Raised(active, kind[next])
           \/ /\ ~On(next, active)
              /\ recent' = rest
              /\ UNCHANGED position
  IN
  /\ v \in live
  /\ live' = live \ {v}
  /\ home' = [home EXCEPT ![v] = Nowhere]
  /\ kind' = [kind EXCEPT ![v] = "none"]
  /\ type' = [type EXCEPT ![v] = "floating"]
  /\ fullscreen' = fullscreen \ {v}
  /\ leaves' = Uprooted(home[v], v)
  /\ \/ /\ visible = {}
        /\ recent' = rest
        /\ focus' = IF focus = v THEN NoView ELSE focus
        /\ UNCHANGED position
     \/ \E i \in visible : (\A j \in visible : i <= j) /\ Refocus(mine[i])
  /\ UNCHANGED <<layout, active, last, fault>>

(* twdesk_fullscreen, workspace_fullscreen_view *)
Fullscreen(v) ==
  /\ Requests(v)
  /\ fullscreen' = fullscreen \cup {v}
  /\ leaves' = Uprooted(active, v)
  /\ home' = [home EXCEPT ![v] = active]
  /\ kind' = [kind EXCEPT ![v] = "fullscreen"]
  /\ UNCHANGED <<live, type, recent, layout, position, active, last, focus, fault>>

Unfullscreen(v) ==
  /\ Requests(v)
  /\ fullscreen' = fullscreen \ {v}
  /\ MoveTo(active, v, type[v])
  /\ UNCHANGED <<live, type, layout, active, last, focus, fault>>

(* twdesk_maximized, workspace_maximize_view: maximizing only changes the   *)
(* geometry, the end of it puts the window back on its layer.               *)
Unmaximize(v) ==
  /\ Requests(v)
  /\ MoveTo(active, v, type[v])
  /\ UNCHANGED <<live, type, fullscreen, layout, active, last, focus, fault>>

(* twdesk_minimized, workspace_minimize_view *)
Minimize(v) ==
  LET r == Defocused(recent, active, v) IN
  /\ Requests(v)
  /\ \/ Top(r, active) = NoView /\ Fault("no top view")
     \/ /\ Top(r, active) # NoView
        /\ leaves' = Uprooted(active, v)
        /\ kind' = IF On(v, active) THEN [kind EXCEPT ![v] = "hidden"] ELSE kind
        /\ recent' = r
        /\ focus' = Top(r, active)
        /\ UNCHANGED <<live, home, type, fullscreen, layout, position, active, last,
                       fault>>

(* twdesk_xwayland_pos: an X11 window that names its position floats. *)
XwaylandPosition(v) ==
  /\ Requests(v) /\ v \in XViews
  /\ On(v, active) /\ type[v] # "floating"
  /\ SwitchLayout(active, v)
  /\ UNCHANGED <<live, fullscreen, layout, active, last, focus, fault>>

(***************************************************************************)
(* The user                                                                *)
(***************************************************************************)

(* click_activate_surface, touch_activate_view: tw_desktop_activate_view of *)
(* a window under the pointer.                                              *)
Activate(v) ==
  /\ v \in live /\ On(v, active) /\ kind[v] # "hidden"
  /\ recent' = Focused(recent, active, v)
  /\ position' = Raised(active, kind[v])
  /\ focus' = v
  /\ UNCHANGED <<live, layers, type, fullscreen, leaves, layout, active, last, fault>>

(* tw_desktop_start_task_switch_grab: the first window goes last, and the   *)
(* one that is then first gets the focus.                                   *)
TaskSwitch ==
  LET r == Defocused(recent, active, Top(recent, active))
      v == Top(r, active)
  IN
  /\ recent[active] # <<>>
  /\ focus' = v
  /\ \/ /\ On(v, active)
        /\ recent' = Focused(r, active, v)
        /\ position' = Raised(active, kind[v])
     \/ /\ ~On(v, active)
        /\ recent' = r
        /\ UNCHANGED position
  /\ UNCHANGED <<live, layers, type, fullscreen, leaves, layout, active, last, fault>>

(* toggle_view_layout: tw_desktop_toggle_view_layout of the focused window, *)
(* on the workspace it is on.                                               *)
ToggleLayout ==
  /\ focus # NoView
  /\ SwitchLayout(home[focus], focus)
  /\ UNCHANGED <<live, fullscreen, layout, active, last, focus, fault>>

(* tw_desktop_get_current_workspace: the loop stops before the last one. *)
Current == IF active < MaxWorkspace THEN active ELSE 0

(* Mutant of Switched: the layers of the workspace left stay shown. *)
SwitchedUncovered(w) == [position EXCEPT ![w] = Resting]

(* workspace_switch from the active workspace to w *)
Switched(w) == [position EXCEPT ![active] = Off, ![w] = Resting]

(* Mutant of SwitchTo: the keyboard focus stays where it was. *)
SwitchToKeepsFocus(w) ==
  /\ active' = w
  /\ position' = Switched(w)
  /\ UNCHANGED <<live, layers, type, fullscreen, recent, leaves, layout, last, focus,
                 fault>>

(* tw_desktop_switch_workspace; the key binding moves the keyboard focus. *)
SwitchTo(w) ==
  /\ active' = w
  /\ position' = Switched(w)
  /\ focus' = Top(recent, w)
  /\ UNCHANGED <<live, layers, type, fullscreen, recent, leaves, layout, last, fault>>

(* switch_workspace *)
SwitchWorkspace(left) ==
  SwitchTo(IF left THEN (IF Current > 0 THEN Current - 1 ELSE 0)
                   ELSE (IF Current < MaxWorkspace THEN Current + 1 ELSE MaxWorkspace))

(* switch_workspace_last; tw_desktop_get_last_workspace has the same loop. *)
SwitchWorkspaceLast == SwitchTo(IF last < MaxWorkspace THEN last ELSE 0)

(* tw_desktop_set_workspace_layout, from the configuration *)
SetWorkspaceLayout(w, t) ==
  /\ layout' = [layout EXCEPT ![w] = t]
  /\ UNCHANGED <<live, layers, type, fullscreen, recent, leaves, position, active,
                 last, focus, fault>>

(* A shell surface takes the keyboard; desktop_should_focus gives it back.  *)
ShellTakesFocus ==
  /\ focus' = NoView
  /\ UNCHANGED <<live, layers, type, fullscreen, recent, leaves, layout, position,
                 active, last, fault>>

WidgetClosed ==
  /\ recent[active] # <<>>
  /\ focus' = Top(recent, active)
  /\ UNCHANGED <<live, layers, type, fullscreen, recent, leaves, layout, position,
                 active, last, fault>>

(* desktop_output_resized, desktop_area_changed: the trees of all           *)
(* workspaces are arranged, one operation per leaf into a buffer with room  *)
(* for the windows of the tiling and the floating layer.  What another      *)
(* handler can run into while arranging is no more than this.               *)
OutputResized ==
  \/ /\ \E w \in Workspaces, v \in Views \ live : leaves[w][v] > 0
     /\ Fault("freed view")
  \/ /\ \E w \in Workspaces :
          Cardinality(UNION {{v} \X (1..leaves[w][v]) : v \in Views})
            > Cardinality({v \in live : On(v, w) /\ kind[v] \in Types})
     /\ Fault("past the buffer")

(* tw_setup_desktop *)
Init ==
  /\ live = {}
  /\ home = [v \in Views |-> Nowhere]
  /\ kind = [v \in Views |-> "none"]
  /\ type = [v \in Views |-> "floating"]
  /\ fullscreen = {}
  /\ recent = [w \in Workspaces |-> <<>>]
  /\ leaves = [w \in Workspaces |-> [v \in Views |-> 0]]
  /\ layout = [w \in Workspaces |-> "tiling"]
  /\ position = [w \in Workspaces |-> IF w = 0 THEN Resting ELSE Off]
  /\ active = 0
  /\ last = 1
  /\ focus = NoView
  /\ fault = "none"

ClientNext ==
  \E v \in Views :
    \/ SurfaceAdded(v) \/ SurfaceRemoved(v) \/ Fullscreen(v) \/ Unfullscreen(v)
    \/ Unmaximize(v) \/ Minimize(v) \/ XwaylandPosition(v)

UserNext ==
  \/ \E v \in Views : Activate(v)
  \/ TaskSwitch \/ ToggleLayout
  \/ \E left \in BOOLEAN : SwitchWorkspace(left)
  \/ SwitchWorkspaceLast
  \/ \E w \in Workspaces, t \in Types : SetWorkspaceLayout(w, t)
  \/ ShellTakesFocus \/ WidgetClosed \/ OutputResized

Next == fault = "none" /\ (ClientNext \/ UserNext)

Spec == Init /\ [][Next]_vars

(***************************************************************************)
(* Properties                                                              *)
(***************************************************************************)
TypeOK ==
  /\ live \subseteq Views
  /\ home \in [Views -> Workspaces \cup {Nowhere}]
  /\ kind \in [Views -> Kinds \cup {"none"}]
  /\ type \in [Views -> Types]
  /\ fullscreen \subseteq live
  /\ recent \in [Workspaces -> Seq(Views)]
  /\ leaves \in LeafCounts
  /\ layout \in [Workspaces -> Types]
  /\ position \in [Workspaces -> [Shown -> Positions]]
  /\ active \in Workspaces
  /\ last \in Workspaces
  /\ focus \in live \cup {NoView}
  /\ fault \in Faults

(* A window is on a layer exactly while it lives: no request, not even one  *)
(* for a window of another workspace, leaves it off every layer, where      *)
(* get_workspace_for_view would answer the last workspace.                  *)
LiveOnLayer ==
  \A v \in Views :
    /\ v \in live <=> home[v] # Nowhere
    /\ v \in live <=> kind[v] # "none"

(* The tiling and the floating layer hold windows of their own type, and    *)
(* the fullscreen layer windows that were told so: remove_view looks at the *)
(* layer, reinsert_view at the type, and a window of the tiling type on the *)
(* floating layer would keep its leaf.                                      *)
LayerFitsView ==
  \A v \in live :
    /\ kind[v] \in Types => kind[v] = type[v]
    /\ kind[v] = "fullscreen" => v \in fullscreen

(* Every window is in the recent list of exactly one workspace, once: its   *)
(* one link is moved between lists by handlers that do not know which list  *)
(* it is in.                                                                *)
OneRecentPlace ==
  /\ \A w \in Workspaces : IsInjective(recent[w])
  /\ \A v \in Views : v \in live <=> \E w \in Workspaces : Contains(recent[w], v)
  /\ \A v \in Views : \A w, u \in Workspaces :
       Contains(recent[w], v) /\ Contains(recent[u], v) => w = u

(* A window on the tiling, the floating or the hidden layer of a workspace  *)
(* is in the recent list of that workspace, whoever moved it.               *)
RecentFollowsLayer ==
  \A v \in live : kind[v] # "fullscreen" => Contains(recent[home[v]], v)

(* Of all workspaces only the active one is shown, and there one of the     *)
(* tiling and the floating layer is before the other.                       *)
OnlyActiveShown ==
  \A w \in Workspaces :
    IF w = active
    THEN /\ {position[w][t] : t \in Types} = {"back", "front"}
         /\ position[w]["fullscreen"] = "top"
    ELSE position[w] = Off

(* The focused window, when it is on a tiling or a floating layer, is on    *)
(* the active workspace: toggling its layout then raises layers that are    *)
(* shown already.                                                           *)
FocusShown == focus # NoView /\ kind[focus] \in Types => home[focus] = active

(***************************************************************************)
(* What holds as long as windows off the active workspace stay silent      *)
(***************************************************************************)

(* The recent list of a workspace holds just the windows on its layers, so  *)
(* switching to it and cycling there reach its own windows only.            *)
RecentIsWorkspace ==
  \A w \in Workspaces : ToSet(recent[w]) = {v \in live : On(v, w)}

(* A window has one leaf in the tree of the workspace whose tiling layer it *)
(* is on, and none elsewhere: the tree keeps plain pointers to views.       *)
TreeFollowsLayer ==
  \A w \in Workspaces, v \in Views :
    leaves[w][v] = IF On(v, w) /\ kind[v] = "tiling" THEN 1 ELSE 0

(* No handler dereferences a view that is not there. *)
StaysUp == fault = "none"

(* Cycling through windows (README.md:67 "cycle through applications")      *)
(* rotates the recent list, so that every window of the workspace has its   *)
(* turn, and focuses the window that is then first.                         *)
TaskSwitchRotates ==
  [][fault = "none" /\ TaskSwitch =>
       /\ recent'[active] = Append(Tail(recent[active]), Head(recent[active]))
       /\ focus' = Head(recent'[active])]_vars
================================================================================
