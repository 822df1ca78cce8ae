----------------------------- MODULE ConsoleSession -----------------------------
(***************************************************************************)
(* The console's window: the compositor's half (server/desktop/console.c,  *)
(* with the element shell.c makes for it and the launch of the client in   *)
(* server/taiwins.c), the client's (clients/desktop_console/console.c) and *)
(* the connection between them.  The threads that search are the module    *)
(* ConsoleModule; here an answer of theirs is any of Results.              *)
(***************************************************************************)
EXTENDS Naturals, Sequences, FiniteSets

CONSTANTS
  Surface,     \* the ids libwayland may give to the console's surfaces
  Entry,       \* what the modules may find
  Results,     \* the lists of entries the modules may show
  MaxPosts,    \* bound on the events in flight beyond which the user waits
  MaxStarts,   \* bound on the times the user asks for the console
  MaxIdle,     \* bound on the idle events waiting beyond which the client runs them
  None

ASSUME ConsoleSessionAssumption ==
  /\ Surface \subseteq Nat /\ None \notin Surface /\ None \notin Entry
  /\ Results \subseteq Seq(Entry) /\ <<>> \in Results
  /\ MaxPosts \in Nat /\ MaxStarts \in Nat /\ MaxIdle \in Nat

VARIABLES
  \* struct console
  client,      \* "unlaunched", "live", "null" or, the memory gone, "dangling"
  bound,       \* resource is there
  surface,     \* surface
  listens,     \* the surfaces whose destroy list leads to close_console_listener
  shown,       \* the surfaces with a view
  focus,       \* the one with the keyboard
  \* struct desktop_console and its event queue
  phase,       \* "none", "starting", "bound", "running" or "dead"
  open,        \* the surface of its window
  owned,       \* its wl_surfaces
  text,        \* something is typed
  counted,     \* prev_cmd_len, the length at the last draw, is not 0
  results,     \* search_results
  selected,
  tall,        \* the window has the height for results
  idle,        \* idle events: "submit", "grow", "shrink"
  draining,    \* idle events are being run
  exec_id,
  \* the connection and the world
  toClient, toServer,
  starts,      \* how often the user asked; counts for the bound only
  again,       \* the user asked while an earlier start was unanswered
  chosen,      \* what the user submitted and is not executed yet
  submitting,  \* console_do_submit is queued for it
  awaiting,    \* console_do_submit sent it
  redrawn,     \* the window was drawn between the two
  fault

server  == <<client, bound, surface, listens, shown, focus>>
window  == <<open, owned, tall, idle, draining>>
search  == <<text, counted, results, selected>>
history == <<chosen, submitting, awaiting, redrawn>>
world   == <<starts, again>>
vars    == <<server, phase, window, search, exec_id, toClient, toServer, world, history, fault>>

Event(t, a) == [type |-> t, arg |-> a]
Has(queue, t) == \E k \in 1..Len(queue) : queue[k].type = t

Keys == {"edit", "tab", "enter", "up", "down", "motion", "esc"}

(***************************************************************************)
(* The compositor's half                                                   *)
(***************************************************************************)

(* tw_launch_client from the idle launch_console_client.  Without a socket, *)
(* a process or a wl_client the credentials of NULL are asked for; a child  *)
(* that cannot execute the path exits before it speaks.                     *)
LaunchClient ==
  /\ client = "unlaunched"
  /\ \/ /\ client' = "live" /\ phase' \in {"starting", "dead"} /\ UNCHANGED fault
     \/ fault' = TRUE /\ UNCHANGED <<client, phase>>
  /\ UNCHANGED <<bound, surface, listens, shown, focus, window, search, exec_id, toClient,
                 toServer, world, history>>

(* bind_console, asked for by announce_globals. *)
Bind ==
  /\ phase = "starting" /\ phase' = "bound" /\ bound' = TRUE
  /\ UNCHANGED <<client, surface, listens, shown, focus, window, search, exec_id, toClient,
                 toServer, world, history, fault>>

(* tw_console_start_client, for the key that opens the console.  The path   *)
(* without a client is silent; one without a resource sends to NULL.        *)
StartConsole ==
  /\ starts < MaxStarts /\ Len(toClient) < MaxPosts
  /\ client \in {"live", "dangling"}
  /\ surface \notin shown
  /\ IF ~bound THEN fault' = TRUE /\ UNCHANGED <<toClient, again>>
     ELSE /\ toClient' = Append(toClient, Event("start", None))
          /\ again' = (again \/ Has(toClient, "start") \/ Has(toServer, "launch"))
          /\ UNCHANGED fault
  /\ starts' = starts + 1
  /\ UNCHANGED <<server, phase, window, search, exec_id, toServer, history>>

(* Mutant of SetConsole: the surface is not listened to. *)
SetConsoleDeaf(s) ==
  /\ surface' = s /\ shown' = shown \cup {s} /\ focus' = s
  /\ UNCHANGED <<client, bound, listens, toClient, fault>>

(* set_console: the element gets a view and the keyboard; the listener is   *)
(* linked in its destroy list, whatever list it was linked in before.       *)
SetConsole(s) ==
  /\ surface' = s /\ listens' = listens \cup {s}
  /\ shown' = shown \cup {s} /\ focus' = s
  /\ UNCHANGED <<client, bound, toClient, fault>>

(* Mutant of CloseConsole: the decision is kept, and nothing goes back. *)
CloseConsoleSilent(id) == UNCHANGED <<toClient, server, fault>>

(* close_console: the decision goes back to the client at once. *)
CloseConsole(id) ==
  /\ toClient' = Append(toClient, Event("exec", id))
  /\ UNCHANGED <<server, fault>>

(* The element of the console goes, shell_ui_unbind_free: the desktop may   *)
(* take the keyboard (desktop_should_focus).                                *)
CloseWidget ==
  /\ focus' \in {None, focus}
  /\ UNCHANGED <<client, bound, surface, listens, shown, toClient, fault>>

(* A surface is destroyed, console_surface_destroy_cb.  The listener is in   *)
(* one list only, but an earlier surface's list still leads to it: emitting *)
(* that one never ends.                                                     *)
DestroySurface(s) ==
  /\ shown' = shown \ {s} /\ listens' = listens \ {s}
  /\ focus' = IF focus = s THEN None ELSE focus
  /\ surface' = IF s \in listens THEN None ELSE surface
  /\ fault' = (s \in listens /\ s # surface)
  /\ UNCHANGED <<client, bound, toClient>>

(* The compositor reads a request. *)
Receive ==
  /\ toServer # <<>> /\ toServer' = Tail(toServer)
  /\ LET r == Head(toServer)
     IN \/ r.type = "launch"  /\ SetConsole(r.arg)
        \/ r.type = "submit"  /\ CloseConsole(r.arg)
        \/ r.type = "ui"      /\ CloseWidget
        \/ r.type = "surface" /\ DestroySurface(r.arg)
  /\ UNCHANGED <<phase, window, search, exec_id, world, history>>

(* The client is gone, unbind_console and the end of its surfaces.  Nothing *)
(* launches it again; a client that never bound leaves its pointer behind.  *)
Hangup ==
  /\ client = "live" /\ phase = "dead" /\ toServer = <<>>
  /\ client' = IF bound THEN "null" ELSE "dangling"
  /\ bound' = FALSE /\ surface' = None /\ listens' = {} /\ shown' = {} /\ focus' = None
  /\ fault' = \E s \in listens : s # surface
  /\ UNCHANGED <<phase, window, search, exec_id, toClient, toServer, world, history>>

(* The user clicks elsewhere: the keyboard goes there. *)
ClickElsewhere ==
  /\ focus # None /\ focus' = None
  /\ UNCHANGED <<client, bound, surface, listens, shown, phase, window, search, exec_id,
                 toClient, toServer, world, history, fault>>

(* Input for the console: keys with the keyboard, clicks on its view. *)
Input ==
  /\ Len(toClient) < MaxPosts
  /\ \/ \E k \in Keys : focus # None /\ toClient' = Append(toClient, Event(k, None))
     \/ \E e \in Entry : shown # {} /\ toClient' = Append(toClient, Event("click", e))
  /\ UNCHANGED <<server, phase, window, search, exec_id, toServer, world, history, fault>>

(***************************************************************************)
(* The client                                                              *)
(***************************************************************************)

(* main and post_init_console, after a roundtrip that may have read a start *)
(* already: start_console with nothing initialised.                         *)
PostInit ==
  /\ phase = "bound"
  /\ \/ phase' = "running" /\ UNCHANGED fault
     \/ Has(toClient, "start") /\ fault' = TRUE /\ UNCHANGED phase
  /\ UNCHANGED <<server, window, search, exec_id, toClient, toServer, world, history>>

Dead == phase' = "dead" /\ UNCHANGED <<window, search, exec_id, toServer, world, history>>

(* console_update_search_results: what the modules answered, or still the   *)
(* last results, and none without a text.                                   *)
UpdatedResults == IF text THEN Results \cup {results} ELSE {<<>>}

(* console_update_selected: the first entry by default. *)
UpdatedSelected(res) ==
  IF selected = None /\ res # <<>> THEN res[1] ELSE selected

Index(res, e) == CHOOSE i \in 1..Len(res) : res[i] = e
Known(res, e) == \E i \in 1..Len(res) : res[i] = e

(* console_handle_nav: the neighbour of the selected entry; the last two    *)
(* entries stand in when the selected one is not among the results.         *)
Neighbour(res, e, up) ==
  LET at == IF Known(res, e) THEN Index(res, e) ELSE Len(res)
  IN IF up THEN res[IF at > 1 THEN at - 1 ELSE 1]
     ELSE res[IF at < Len(res) THEN at + 1 ELSE Len(res)]

(* The end of console_draw: a window of a height is to have the one its     *)
(* results need.                                                            *)
Resizing(res, high) ==
  IF (res # <<>>) = high THEN <<>> ELSE IF high THEN <<"shrink">> ELSE <<"grow">>

(* console_draw without a key that uses the selection: a text it has not    *)
(* counted is searched and the selection cleared; a submit forgets the      *)
(* count.                                                                   *)
Drawn(res, typed, edited) ==
  /\ results' = res /\ text' = typed /\ counted' = typed
  /\ selected' = IF edited \/ counted # typed THEN None ELSE UpdatedSelected(res)

(* console_draw in between. *)
Passing == redrawn' = (redrawn \/ submitting) /\ UNCHANGED <<chosen, submitting, awaiting>>

(* The user submits what is selected; prev_cmd_len is set to 0. *)
Submits(res, typed, e) ==
  /\ results' = res /\ text' = typed /\ counted' = FALSE
  /\ selected' = e /\ chosen' = e /\ submitting' = TRUE /\ redrawn' = FALSE
  /\ UNCHANGED awaiting

(* console_draw for input k, a click one on entry e.  Up and down without   *)
(* results assign from NULL.                                                *)
Draw(k, e) ==
  \E res \in UpdatedResults :
    LET default == UpdatedSelected(res)
        submit  == k = "enter" \/ (k = "click" /\ Known(res, e))
    IN IF k \in {"up", "down"} /\ res = <<>> THEN Dead
       ELSE /\ \/ submit /\ Submits(res, text, IF k = "click" THEN e ELSE default)
               \/ /\ ~submit /\ Passing
                  /\ \/ /\ k = "edit"
                        /\ \E typed \in {TRUE, ~text} : Drawn(res, typed, TRUE)
                     \/ /\ k \in {"tab", "up", "down"}
                        /\ results' = res
                        /\ text' = (text \/ (k = "tab" /\ default # None)) /\ counted' = text'
                        /\ selected' = IF k = "tab" THEN default
                                       ELSE Neighbour(res, default, k = "up")
                     \/ k \in {"motion", "click"} /\ Drawn(res, text, FALSE)
            /\ idle' = idle \o (IF submit THEN <<"submit">> ELSE <<>>) \o Resizing(res, tall)
            /\ UNCHANGED <<phase, open, owned, tall, draining, exec_id, toServer, world>>

(* suspend_console_on_esc: nothing is selected and nothing is drawn. *)
SuspendOnEsc ==
  /\ selected' = None /\ idle' = Append(idle, "submit")
  /\ chosen' = None /\ submitting' = TRUE /\ redrawn' = FALSE
  /\ UNCHANGED <<phase, open, owned, tall, draining, text, counted, results, exec_id, toServer,
                 world, awaiting>>

(* start_console, whether a window is open or not; the first frame draws. *)
Start ==
  /\ \E s \in Surface \ (owned \cup shown) :
       /\ open' = s /\ owned' = owned \cup {s}
       /\ toServer' = Append(toServer, Event("launch", s))
       /\ \A r \in Surface \ (owned \cup shown) : s <= r
  /\ tall' = FALSE
  /\ \E res \in UpdatedResults : Drawn(res, text, FALSE) /\ idle' = idle \o Resizing(res, FALSE)
  /\ Passing
  /\ UNCHANGED <<phase, draining, exec_id, world>>

(* exec_application: the selected entry is executed when the order fits. *)
ExecApplication(id) ==
  /\ selected' = IF id = exec_id THEN None ELSE selected
  /\ text' = FALSE /\ exec_id' = exec_id + 1
  /\ awaiting' = FALSE /\ chosen' = None /\ redrawn' = FALSE
  /\ UNCHANGED <<phase, window, counted, results, toServer, world, submitting>>

(* The client reads an event.  Input without a window is for nobody. *)
Dispatch ==
  /\ phase = "running" /\ ~draining /\ Len(idle) < MaxIdle
  /\ toClient # <<>> /\ toClient' = Tail(toClient)
  /\ LET e == Head(toClient)
     IN \/ e.type = "start" /\ Start
        \/ e.type = "exec" /\ ExecApplication(e.arg)
        \/ e.type = "esc" /\ open # None /\ SuspendOnEsc
        \/ e.type \notin {"start", "exec", "esc"} /\ open # None /\ Draw(e.type, e.arg)
        \/ /\ e.type \notin {"start", "exec"} /\ open = None
           /\ UNCHANGED <<phase, window, search, exec_id, toServer, world, history>>
  /\ UNCHANGED <<server, fault>>

(* Mutant of DoSubmit: the order is counted when it is sent. *)
DoSubmitCounting ==
  /\ open # None
  /\ toServer' = toServer \o <<Event("submit", exec_id), Event("ui", open),
                               Event("surface", open)>>
  /\ open' = None /\ owned' = owned \ {open} /\ exec_id' = exec_id + 1
  /\ submitting' = FALSE /\ awaiting' = TRUE
  /\ UNCHANGED <<phase, tall, search, world, chosen, redrawn>>

(* Mutant of DoSubmit: what was selected is forgotten with the window. *)
DoSubmitForgetting ==
  /\ open # None
  /\ toServer' = toServer \o <<Event("submit", exec_id), Event("ui", open),
                               Event("surface", open)>>
  /\ open' = None /\ owned' = owned \ {open} /\ selected' = None
  /\ submitting' = FALSE /\ awaiting' = TRUE
  /\ UNCHANGED <<phase, tall, text, counted, results, exec_id, world, chosen, redrawn>>

(* console_do_submit; the second one in a row destroys a proxy that is NULL. *)
DoSubmit ==
  \/ /\ open # None
     /\ toServer' = toServer \o <<Event("submit", exec_id), Event("ui", open),
                                  Event("surface", open)>>
     /\ open' = None /\ owned' = owned \ {open}
     /\ submitting' = FALSE /\ awaiting' = TRUE
     /\ UNCHANGED <<phase, tall, search, exec_id, world, chosen, redrawn>>
  \/ /\ open = None /\ phase' = "dead"
     /\ UNCHANGED <<open, owned, tall, search, exec_id, toServer, world, history>>

(* console_resize draws the window in its new height. *)
DoResize(high) ==
  /\ \/ /\ open # None /\ tall' = high
        /\ \E res \in UpdatedResults :
             Drawn(res, text, FALSE) /\ idle' = Tail(idle) \o Resizing(res, high)
        /\ Passing
     \/ open = None /\ idle' = Tail(idle) /\ UNCHANGED <<tall, search, history>>
  /\ UNCHANGED <<phase, open, owned, exec_id, toServer, world>>

(* The idle events run in a row before anything more is read. *)
RunIdle ==
  /\ phase = "running" /\ idle # <<>>
  /\ \/ Head(idle) = "submit" /\ idle' = Tail(idle) /\ DoSubmit
     \/ Head(idle) # "submit" /\ DoResize(Head(idle) = "grow")
  /\ draining' = (idle' # <<>>)
  /\ UNCHANGED <<server, toClient, fault>>

(* The client ends at any time. *)
Exit ==
  /\ phase \in {"starting", "bound", "running"} /\ Dead
  /\ UNCHANGED <<server, toClient, fault>>

(***************************************************************************)
(* The system                                                              *)
(***************************************************************************)

(* tw_setup_console, before any client. *)
Init ==
  /\ client = "unlaunched" /\ bound = FALSE /\ surface = None /\ listens = {}
  /\ shown = {} /\ focus = None
  /\ phase = "none" /\ open = None /\ owned = {} /\ text = FALSE /\ counted = FALSE
  /\ results = <<>>
  /\ selected = None /\ tall = FALSE /\ idle = <<>> /\ draining = FALSE /\ exec_id = 0
  /\ toClient = <<>> /\ toServer = <<>> /\ starts = 0 /\ again = FALSE
  /\ chosen = None /\ submitting = FALSE /\ awaiting = FALSE /\ redrawn = FALSE /\ fault = FALSE

Next ==
  /\ ~fault
  /\ \/ LaunchClient \/ Bind \/ StartConsole \/ Receive \/ Hangup
     \/ ClickElsewhere \/ Input
     \/ PostInit \/ Dispatch \/ RunIdle \/ Exit

(* Both processes run: each reads its side of the connection in every round *)
(* of its loop, and the client runs its idle events.  The user may stop.    *)
Spec == /\ Init /\ [][Next]_vars
        /\ WF_vars(~fault /\ Receive)
        /\ WF_vars(~fault /\ Dispatch)
        /\ WF_vars(~fault /\ RunIdle)

(* An execution the compositor sends is the one the client waits for,       *)
(* unless the user asked again for a console that was not there yet: the    *)
(* order exec_application calls inconsistent comes from nowhere else.       *)
ExecInOrder ==
  ~again => \A k \in 1..Len(toClient) :
              toClient[k].type = "exec" => toClient[k].arg = exec_id

(* From the key or the click that submits to the execution the selection    *)
(* stays the one the user made, whatever input is still on its way, but for *)
(* one case: a draw before console_do_submit, for which a submit forgot the *)
(* length of the text, clears it or selects the first entry.                *)
ChoiceLostOnlyByDraw ==
  ~again /\ phase = "running" /\ (submitting \/ awaiting) /\ selected # chosen => redrawn

(* The compositor's pointer to the console's surface never outlives it      *)
(* (set_console, console_surface_destroy_cb).                               *)
SurfaceKnown == ~fault /\ surface # None => surface \in shown

(* What was submitted is executed, or at least answered: the text is        *)
(* cleared for the next time (close_console to exec_application).           *)
ExecArrives == awaiting ~> (~awaiting \/ fault \/ phase = "dead")

================================================================================
