------------------------------ MODULE ShellClient ------------------------------
(***************************************************************************)
(* The shell client (clients/desktop_shell): what it keeps of each screen, *)
(* the one widget that is open, the locker, and its own deferred events.   *)
(*                                                                         *)
(* It is one thread around twclient's event queue.  Drawing is left out,   *)
(* except that the first drawing of a surface commits it.  An event for an *)
(* object the client has destroyed is dropped by libwayland.               *)
(***************************************************************************)
EXTENDS ShellWire

CONSTANTS
  MaxClicks,  \* bound on the clicks on the panel that wait to be acted on,
  MaxEnters   \* and on the passwords that do

VARIABLES
  running,     \* the client runs
  background,  \* background[i]: the object of shell_outputs[i]'s background
  panel,       \* that of the panel of slot 0, which is main_output once it is set
  current,     \* widget_launch.current
  chosen,      \* widget_launch.widget, while an event waits that reads it,
  at,          \* and widget_launch.output, by its index
  proxy,       \* proxy[w]: the object of widget w
  clicks,      \* panel_launch_widget events that wait
  enters,      \* run_pam events that wait
  transient,   \* the locker's object
  proxies,     \* the objects the client has not destroyed
  clientTop    \* panel_pos as the client knows it

clientVars == <<running, background, panel, current, chosen, at, proxy, clicks,
                enters, transient, proxies, clientTop>>
popupVars == <<current, chosen, at, proxy>>

Send(requests) == toServer' = toServer \o requests

(* The process ends, with all it had. *)
Crash ==
  /\ running' = FALSE
  /\ background' = [i \in Slot |-> None] /\ panel' = None
  /\ current' = None /\ chosen' = None /\ at' = 0
  /\ proxy' = [w \in Popup |-> None]
  /\ clicks' = 0 /\ enters' = 0 /\ transient' = None
  /\ proxies' = {} /\ clientTop' = TRUE
  /\ UNCHANGED toServer

(* Mutant of Closing: the object of the closed widget is never destroyed. *)
ClosingNothing == <<>>

(***************************************************************************)
(* Widgets                                                                 *)
(***************************************************************************)
(* shell_close_widget, if one is open: what it sends and what is left. *)
Closing   == IF current = None THEN <<>>
             ELSE <<Request("destroy", proxy[current], 0)>>
Closed    == IF current = None THEN proxy ELSE [proxy EXCEPT ![current] = None]
Remaining == IF current = None THEN proxies ELSE proxies \ {proxy[current]}

(* What widget_launch is to say, when n events wait that will read it. *)
Choose(w, i, n) == chosen' = (IF n = 0 THEN None ELSE w) /\ at' = (IF n = 0 THEN 0 ELSE i)

(* Mutant of Launch: the open widget is not closed first. *)
LaunchOver(w, i, fresh) ==
  LET u == New("widget", fresh) IN
  /\ IF current = w
     THEN UNCHANGED <<current, proxy, proxies, toServer>>
     ELSE /\ current' = w
          /\ proxy' = [proxy EXCEPT ![w] = u]
          /\ proxies' = proxies \cup {u}
          /\ Send(<<Request("widget", u, i), Request("commit", u, 0)>>)

(* shell_launch_widget of w on output i, with a new object. *)
Launch(w, i, fresh) ==
  LET u == New("widget", fresh) IN
  /\ IF current = w
     THEN UNCHANGED <<current, proxy, proxies, toServer>>
     ELSE /\ current' = w
          /\ proxy' = [Closed EXCEPT ![w] = u]
          /\ proxies' = Remaining \cup {u}
          /\ Send(Closing \o <<Request("widget", u, i), Request("commit", u, 0)>>)

(* A widget on the panel is clicked, which is launched by an idle event.   *)
(* Not while it is open, and not while another surface is occupying.       *)
ClickPanel(w) ==
  /\ running /\ panel # None
  /\ proxy[w] = None /\ transient = None
  /\ clicks < MaxClicks
  /\ clicks' = clicks + 1
  /\ Choose(w, 0, clicks + 1)
  /\ UNCHANGED <<running, background, panel, current, proxy, enters, transient,
                 proxies, clientTop, toClient, toServer>>

PanelLaunchWidget(fresh) ==
  /\ running /\ clicks > 0
  /\ clicks' = clicks - 1
  /\ Launch(chosen, at, fresh)
  /\ Choose(chosen, at, clicks - 1)
  /\ UNCHANGED <<running, background, panel, enters, transient, clientTop, toClient>>

(* The right button on a background.  An open menu is opened anew. *)
LaunchMenu(i, fresh) ==
  LET u == New("widget", fresh) IN
  /\ running /\ background[i] # None
  /\ Choose(Menu, i, clicks) /\ current' = Menu
  /\ proxy' = [Closed EXCEPT ![Menu] = u]
  /\ proxies' = Remaining \cup {u}
  /\ Send(Closing \o <<Request("widget", u, i), Request("commit", u, 0)>>)
  /\ UNCHANGED <<running, background, panel, clicks, enters, transient, clientTop,
                 toClient>>

(***************************************************************************)
(* Events of the compositor                                                *)
(***************************************************************************)
(* shell_init_bg_for_output and shell_init_panel_for_output. *)
NewBackground(b, i) == Request("background", b, i)
NewPanel(p, i) == Request("panel", p, i)

(* shell_output_init.  A slot that is used again gets a new background,    *)
(* and the panel it had is drawn again.                                    *)
Connected(i, fresh) ==
  LET b == New("background", fresh)
      first == i = 0 /\ panel = None
      p == IF first THEN New("panel", fresh) ELSE panel IN
  /\ background' = [background EXCEPT ![i] = b]
  /\ panel' = IF i = 0 THEN p ELSE panel
  /\ proxies' = proxies \cup {b} \cup (IF first THEN {p} ELSE {})
  /\ Send(<<NewBackground(b, i)>>
          \o (IF first THEN <<NewPanel(p, i)>> ELSE <<>>)
          \o (IF i = 0 THEN <<Request("commit", p, 0)>> ELSE <<>>)
          \o <<Request("commit", b, 0)>>)
  /\ UNCHANGED <<running, popupVars, clicks, enters, transient, clientTop>>

Changed(i) ==
  /\ Send(<<Request("commit", background[i], 0)>>
          \o (IF i = 0 THEN <<Request("commit", panel, 0)>> ELSE <<>>))
  /\ UNCHANGED clientVars

(* Mutant of SetupLocker: the open widget stays open. *)
SetupLockerOver(fresh) ==
  LET u == New("locker", fresh) IN
  /\ transient' = u
  /\ current' = None
  /\ proxies' = proxies \cup {u}
  /\ Send(<<Request("locker", u, 0), Request("commit", u, 0)>>)
  /\ UNCHANGED <<running, background, panel, chosen, at, proxy, clicks, enters,
                 clientTop>>

(* desktop_shell_setup_locker; it needs the size of main_output. *)
SetupLocker(fresh) ==
  LET u == New("locker", fresh) IN
  /\ transient' = u
  /\ current' = None /\ proxy' = Closed
  /\ proxies' = Remaining \cup {u}
  /\ Send(Closing \o <<Request("locker", u, 0), Request("commit", u, 0)>>)
  /\ UNCHANGED <<running, background, panel, chosen, at, clicks, enters, clientTop>>

(* Mutant of Lock: not over an open widget. *)
LockLater(fresh) ==
  IF transient # None \/ current # None THEN UNCHANGED <<clientVars, toServer>>
  ELSE IF panel = None THEN Crash
  ELSE SetupLocker(fresh)

Lock(fresh) ==
  IF transient # None THEN UNCHANGED <<clientVars, toServer>>
  ELSE IF panel = None THEN Crash
  ELSE SetupLocker(fresh)

(* A notification does not race an open widget. *)
Notify(fresh) ==
  IF current # None THEN UNCHANGED <<clientVars, toServer>>
  ELSE IF panel = None THEN Crash
  ELSE /\ Launch(Notification, 0, fresh) /\ Choose(Notification, 0, clicks)
       /\ UNCHANGED <<running, background, panel, clicks, enters, transient, clientTop>>

(* widget_should_close closes the current widget, whichever object it is about. *)
ShouldClose(u) ==
  IF u \notin proxies THEN UNCHANGED <<clientVars, toServer>>
  ELSE IF current = None THEN Crash
  ELSE /\ Send(Closing)
       /\ current' = None /\ proxy' = Closed /\ proxies' = Remaining
       /\ UNCHANGED <<running, background, panel, chosen, at, clicks, enters,
                      transient, clientTop>>

Dispatch(fresh) ==
  LET e == Head(toClient) IN
  /\ running /\ toClient # <<>>
  /\ toClient' = Tail(toClient)
  /\ \/ e.type = "connected" /\ e.arg = Beyond /\ Crash
     \/ e.type = "connected" /\ e.arg # Beyond /\ Connected(e.arg, fresh)
     \/ e.type = "change" /\ Changed(e.arg)
     \/ e.type = "lock" /\ Lock(fresh)
     \/ e.type = "notification" /\ Notify(fresh)
     \/ e.type = "close" /\ ShouldClose(e.arg)
     \/ /\ e.type = "panel_pos" /\ clientTop' = e.arg
        /\ UNCHANGED <<running, background, panel, popupVars, clicks, enters,
                       transient, proxies, toServer>>

(***************************************************************************)
(* The locker                                                              *)
(***************************************************************************)
Enter ==
  /\ running /\ transient # None /\ enters < MaxEnters
  /\ enters' = enters + 1
  /\ UNCHANGED <<running, background, panel, popupVars, clicks, transient, proxies,
                 clientTop, toClient, toServer>>

(* run_pam ends the locker if the user is authenticated.  A second event   *)
(* finds none to end.                                                      *)
RunPam(authenticated) ==
  /\ running /\ enters > 0
  /\ UNCHANGED toClient
  /\ IF authenticated /\ transient = None THEN Crash
     ELSE /\ enters' = enters - 1
          /\ transient' = IF authenticated THEN None ELSE transient
          /\ proxies' = IF authenticated THEN proxies \ {transient} ELSE proxies
          /\ Send(IF authenticated THEN <<Request("destroy", transient, 0)>> ELSE <<>>)
          /\ UNCHANGED <<running, background, panel, popupVars, clicks, clientTop>>

Exit == Crash /\ running /\ UNCHANGED toClient

InitClient ==
  /\ running = TRUE
  /\ background = [i \in Slot |-> None] /\ panel = None
  /\ current = None /\ chosen = None /\ at = 0
  /\ proxy = [w \in Popup |-> None]
  /\ clicks = 0 /\ enters = 0 /\ transient = None
  /\ proxies = {} /\ clientTop = TRUE
================================================================================
