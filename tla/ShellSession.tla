----------------------------- MODULE ShellSession ------------------------------
(***************************************************************************)
(* The compositor's half of the shell and the shell client, joined by the  *)
(* two streams of their connection, with the user, screens that come and   *)
(* go, and the client's end at any time.                                   *)
(***************************************************************************)
EXTENDS ShellServer, ShellClient

CONSTANTS
  MaxPosts,  \* bound on the events in flight beyond which the compositor's environment waits
  MaxRequests,  \* the same for requests and the client's user
  MaxTurns   \* bound on what happens to the screens, notifications and settings

VARIABLE turns   \* how often that happened; counts for the bound only

vars == <<serverVars, clientVars, toClient, toServer, turns>>

(* Object ids libwayland may hand out: not in use on either side. *)
Fresh == Ui \ (proxies \cup {u \in Ui : user[u] # None}
                       \cup {toServer[k].ui : k \in 1..Len(toServer)})

(* An id is left for each kind of object, so that MaxUi never holds up the  *)
(* client in the runs.                                                     *)
Supply == Kind = {u[1] : u \in Fresh}

Init == InitServer /\ InitClient /\ toClient = <<>> /\ toServer = <<>> /\ turns = 0

Room == Len(toClient) < MaxPosts

(* The screens after the first are alike: they come in order. *)
Alike(o) == \A p \in Output : 1 < p /\ p < o => p \in screens

(* What happens beside the session of the client.  Screens come and go and *)
(* the panel changes its side twice as often as the rest.                  *)
Turn ==
  \/ /\ \/ \E o \in Output : (Room /\ Alike(o) /\ Plug(o)) \/ Unplug(o)
        \/ Room /\ SetPanelPos
     /\ turns < MaxTurns /\ turns' = turns + 1
  \/ /\ Room
     /\ PostNotification \/ (\E o \in Output : Resize(o))
     /\ turns + 1 < MaxTurns /\ turns' = turns + 2

MessageNext == CompositorIdle \/ \E what \in Loss : LoseFocus(what)

(* The user of the client can click what no locker covers. *)
UserNext ==
  \/ \E w \in Widget : slot[0] # None /\ slot[0] \notin covered /\ ClickPanel(w)
  \/ \E i \in Slot : /\ slot[i] # None /\ slot[i] \notin covered
                     /\ Supply /\ LaunchMenu(i, Fresh)
  \/ Enter
  \/ Exit

(* What the client and the compositor do without being asked. *)
ClientNext ==
  \/ Supply /\ Dispatch(Fresh)
  \/ Supply /\ PanelLaunchWidget(Fresh)
  \/ \E b \in BOOLEAN : RunPam(b)
ServerNext ==
  \/ running /\ Bind /\ UNCHANGED clientVars
  \/ Receive /\ UNCHANGED clientVars
  \/ RunIdle /\ UNCHANGED clientVars
  \/ ~running /\ toServer = <<>> /\ Hangup /\ UNCHANGED clientVars

Next ==
  /\ ~fault
  /\ \/ Turn /\ UNCHANGED clientVars
     \/ Room /\ MessageNext /\ UNCHANGED <<clientVars, turns>>
     \/ BindAgain /\ UNCHANGED <<clientVars, turns>>
     \/ Len(toServer) < MaxRequests /\ UserNext /\ UNCHANGED <<serverVars, turns>>
     \/ ClientNext /\ UNCHANGED <<serverVars, turns>>
     \/ ServerNext /\ UNCHANGED turns

(* What is on its way to nobody, and with everything read. *)
Quiet == running /\ shell = "bound" /\ ~fault /\ toClient = <<>> /\ toServer = <<>>

(* When nothing is on its way both sides agree on what exists: the same    *)
(* objects, the widget that is open, the locker, where the panel goes      *)
(* (shell.c create_ui_element and shell_ui_unbind against the client's     *)
(* records in shell_ui.c, shell_lock.c and shell_msgs.c).                  *)
SidesAgree ==
  Quiet => /\ proxies = {u \in Ui : user[u] # None}
           /\ elem[TheWidget].resource = IF current = None THEN None ELSE proxy[current]
           /\ elem[TheLocker].resource = transient
           /\ clientTop = top

(* A request to close that the client will still act on is about the       *)
(* widget it will close, though it looks at what is current, not at what   *)
(* the request names.                                                      *)
ClosesItsOwn ==
  \A k \in 1..Len(toClient) :
    toClient[k].type = "close" /\ toClient[k].arg \in proxies =>
      current # None /\ proxy[current] = toClient[k].arg

(* The bindings that close a widget are installed only while its object    *)
(* lives: does_ui_lose_* never sends to a resource that is gone.           *)
LosersLive ==
  lose # {} => \E u \in Ui : user[u] = TheWidget /\ elem[TheWidget].resource = u

(* Was the desktop told of slot i's space as it is, or of as much of it on *)
(* the other side, the position of the panel having changed since?         *)
Heard(i) ==
  \/ area[slot[i]] = Space(i)
  \/ slot[i] \in moved /\ area[slot[i]] # "whole" /\ Space(i) # "whole"

(* While the shell lives, the desktop has been told of the space each      *)
(* panel leaves, or is about to be: commit_panel, shell_ui_unbind and the   *)
(* output listeners leave no screen out.  What it may not know is that the *)
(* panel went to the other side since, for tw_shell_set_panel_pos does not *)
(* tell it.  An announcement that finds its screen gone is a fault.        *)
SpaceKnown ==
  ~fault /\ shell = "bound" =>
    \A i \in Slot : slot[i] # None =>
      Heard(i) \/ \E k \in 1..Len(idle) : idle[k] = i

Spec == Init /\ [][Next]_vars

(* Both processes are scheduled, and each reads its side of the connection *)
(* in every round of its event loop.  The user, the screens and the rest   *)
(* of the compositor may do nothing.                                       *)
ReadClient == ~fault /\ Supply /\ Dispatch(Fresh)
              /\ UNCHANGED <<serverVars, turns>>
ReadServer == ~fault /\ Receive /\ UNCHANGED <<clientVars, turns>>

FairSpec == Spec /\ WF_vars(ReadClient) /\ WF_vars(ReadServer)

(* A session that is to be locked gets a locker: the request to lock       *)
(* reaches a client that shows one, or has one on its way already          *)
(* (shell_compositor_idle to create_shell_locker).  What the surroundings   *)
(* and the user start meanwhile is bounded by MaxPosts and MaxRequests.     *)
LockArrives ==
  (\E k \in 1..Len(toClient) : toClient[k].type = "lock")
    ~> (elem[TheLocker].resource # None \/ fault \/ ~running)

(* A widget that lost the pointer, the keyboard or the touch goes away     *)
(* (does_ui_lose_pointer to shell_ui_unbind), within the same bounds.       *)
WidgetCloses ==
  (elem[TheWidget].resource # None /\ lose # Loss)
    ~> (elem[TheWidget].resource = None \/ lose = Loss \/ fault \/ ~running)
================================================================================
