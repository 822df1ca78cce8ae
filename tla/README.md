# Taiwins in TLA+

TLA+ models of the parts of taiwins that decide something: which window is on
which layer of which workspace, what the tiling tree looks like, what a grab
does to a window, who has the keyboard, what a key sequence means, which
configuration is in force, and what the compositor and its two clients know of
each other. Each module names the code it models; `PROJECT.json` maps every
definition to its lines.

* `TilingTree`, `WindowRow` and `TilingProofs`: the tiling layout and what it
  promises
* `Desktop` and `DesktopProofs`: workspaces, layers, recency and focus
* `Grabs` and `GrabsProofs`: the pointer, the keyboard and the windows they move
* `Bindings`, `KeyMap` and `BindingsProofs`: key sequences, and configurations
  that replace them
* `ConfigReload` and `ConfigProofs`: trying, taking over and applying a
  configuration
* `ShellWire`, `ShellServer`, `ShellClient`, composed by `ShellSession`, and
  `ShellProofs`: the shell on both sides of its connection
* `ConsoleSession` and `ConsoleSessionProofs`: the window of the console, on both
  sides of its connection
* `ConsoleModule` and `ConsoleProofs`: a search module of the console client and
  its thread

Modules that start with `MC` instantiate these for TLC and hold the
properties that only TLC checks, liveness above all.

    tlc -workers 2 -config TilingSteady.cfg MCTilingTree
    tlc -workers 2 -config ShellSession.cfg MCShellSession
    tlapm DesktopProofs.tla

## 1. The system

Taiwins is a wayland compositor on libweston (`server/`) with two clients of
its own, a shell and a console (`clients/`). The compositor is one thread
around an event loop: requests of clients, input, signals of libweston and
idle callbacks are handlers that run to completion. The clients are event loops
too, except that the console runs one thread per search module.

| Component | State | Operations | Talks to |
|---|---|---|---|
| tiling layout `layout_tiling.c` | a tree per output, `coding`/`level`/portions per node | add, del, resize, split, merge, toggle, outputs | called by workspaces; writes layout operations into their buffer |
| floating layout `layout_floating.c` | none | add, resize, move | workspaces |
| workspaces `workspace.c` | four layers, `recent_views`, current layout, a tiling and a floating layout | add, remove, reinsert, focus, defocus, fullscreen, maximize, minimize, switch | desktop, libweston layers |
| desktop `desktop.c` | nine workspaces, the active and the last one, four grabs, gaps | libweston-desktop callbacks, output signals, key bindings | workspaces, shell (messages and signals), libweston |
| grabs in `desktop.c` | the view each grab acts on | start, motion, key, cancel | desktop, libweston seats |
| server side of the shell `shell.c` | outputs, panel, background, widget, locker, the bound resource | bind/unbind, create ui elements, output signals, post messages | shell client by protocol; desktop by signals |
| server side of the console `console.c` | client, resource, surface | launch, start, submit, unbind | console client, shell |
| configuration `config*.c`, `theme_lua.c` | lua state, binding table, registry, error message, dirty tables | try, swap, run, apply | every component that registers an object |
| bindings `bindings.c` | a trie of key sequences, the list to apply, installed bindings | add key/button/axis/touch, apply, walk a sequence | configuration, libweston seats |
| backend `backend.c` | pool of outputs | head changed, enable, disable | libweston backends |
| start-up, children, xwayland `compositor.c`, `taiwins.c`, `xwayland.c` | list of subprocesses, xwayland state | launch, SIGCHLD, SIGUSR1 | operating system |
| bus and theme `bus.c`, `theme.c` | watches; a theme file | add/toggle/remove, copy | D-Bus |
| console client `desktop_console/` | modules with a thread each, commands and results, the window | command, search, execute, take results, submit | server console |
| shell client `desktop_shell/` | outputs, widgets, locker, notifications | configure, launch and close widgets, lock, messages | server shell |
| widgets, icon cache | drawing state | anchors, updates | shell client |

### What is hard

* **Order of requests.** Nothing orders the requests of clients against the
  keys of the user. A client may ask for fullscreen when its window is on a
  hidden workspace, and the handlers use the active workspace.
* **Three records of one fact.** A window is on a layer, in a recent list and,
  when tiled, in a tree; it also has a type. The handlers read one record and
  write another.
* **A tree with copied paths.** Each node carries the path to it, copied when
  it was inserted. Later insertions and removals beside an ancestor make it
  stale.
* **Screens come and go**, and libweston assigns views to outputs by itself.
* **Space may run out**, after a window was taken out and before it is put
  back.
* **Deferred work.** Idle callbacks, timers and listeners hold pointers to
  things that may be gone.
* **Threads** in the console: commands and results are handed over in slots
  under two mutexes and one semaphore.
* **Clients die and return**, with the server still holding their resources.

### What makes a component correct

| Component | Properties |
|---|---|
| tiling layout | the tree is a tree; a handler leaves the other windows in place; an emptied container goes; areas are computed for the right node; no freed node is used |
| workspaces, desktop | every window on one layer and in one recent list of the same workspace; type, layer and tree agree; only the active workspace is shown; focus stays on it; cycling reaches everyone |
| grabs | a grab runs only while a button or key is down, and has a window; a window returns to where it was, at the size it had; a grab's window is alive |
| shell | both sides agree on the elements; a request to close a widget closes that one; the desktop knows what a panel leaves, and on which side; a session that is to be locked gets a locker |
| console | orders come back in order; what the user submits is what is executed; the compositor keeps no surface that is gone; a submit is executed |
| bindings | the trie is prefix free and reflects what was added; a refused sequence changes nothing; a sequence being typed is in a live trie |
| configuration | of a configuration that failed nothing is in force beyond what waking the compositor needs; a setting that waits is not forgotten; each configuration is released once |
| console threads | the results shown are all that a search for their text finds; a command runs once; no wake-up is lost; release ends |
| backend | slots are given back |

`PROJECT.json` lists the components with what is modelled of each, and the
hazards with the line where each bites.

## 2. Modules

### TilingTree

One workspace's `layout_tiling.c`. `tree` is a function from node addresses to
records with the fields of `struct tiling_view` the control flow reads; `root`
the root of each output's tree; `layer` the windows of the tiling layer, last
focused first (the layout asks it for the focused view); `vout` the output
libweston believes a view is on. A freed address is a name that left the
domain and can be reused.

`Add`, `Del`, `Split`, `Merge`, `Toggle`, `Resize`, `AddOutput` and
`RemoveOutput` are the handlers; `Focus` is what `workspace_focus_view` does to
the layer; `AssignOutput` is libweston's. Where a handler would dereference
something missing, index past a row or fail its assertion, the action sets
`fault`: the compositor is gone.

Portions and pixels are abstracted. Whether a row has room depends on nothing
else in the state, so `Fits` lists the answers that may come: `{TRUE}` for ample
space, `BOOLEAN` for any space.

`Reached` follows a path as `tiling_subtree_space` does, so a stale path leads
where the code's leads. `Renumber` does what `tiling_update_children` does and
no more.

`WindowRow` is the abstraction: a row of windows in which one at a time opens,
closes or moves. `TilingTree!ImplementsRow` maps the tree to its leaves from
left to right.

### Desktop

`desktop.c`, `workspace.c` and the bindings that drive them. `home` and `kind`
are the layer a view is linked in (`view->layer_link`), `type` is
`recent_view.type`, `recent` the `recent_views` lists, `leaves` counts the
leaves a view has in each workspace's tree, `position` where each layer is
shown. `active` and `last` are `actived_workspace[0]` and `[1]`. The code keeps
no record of the workspace a view belongs to; neither does the model.

One action per libweston-desktop callback and per binding. `MoveTo` is remove
followed by add or reinsert, the sequence every callback that changes a layer
uses, with the focus at its end. `Background` says whether windows that are not
on the active workspace send requests.

### Grabs

The three pointer grabs of `desktop.c` (moving, resizing, transparency) and the
keyboard grab of the task switch, with the windows of a workspace as
`workspace.c` and `layout_floating.c` place them. `grab` and `kgrab` are what
libweston's pointer and keyboard have installed, `view` the `view` field of each
`grab_interface`, `buttons` is `button_count`. A window has `type` and `layer` as
in `Desktop`, `geometry` and `old_geometry` of its `recent_view`, what the desktop
`wanted` it to be and what its client `acked`.

A geometry is where a window is (a place of the user's, the space beside the
panel, the screen, a tile, or the corner a window without an old geometry is put
in) and the size in `visible_geometry`, `None` while that is 0x0 as it is for a new
window. The size is written where the code writes it: by `apply_layout_operations`,
which skips a size of zero (`Applied`), and by `twdesk_surface_committed` when the
offset of the visible part changes (the two disjuncts of `Commit`). So the old
geometry may hold a size that was never drawn, or none. The arithmetic on pixels
is abstracted; that a move is refused for a maximized window and a resize is not is
kept (`Moved`, `Resized`). What tiling one window does to the other tiles is in
`TilingTree`.

`Press` and `PressKey` may start a grab, as the bindings do when their modifier
is held. `Popup` is the grab of a client's menu. libweston installs it on the pointer
and the keyboard, over whatever grab runs: one of the desktop's is gone without its
`cancel`, so its `view` stays. `ClientGrab` is a client that asks to be moved or
resized, the window under the pointer or any other. `RemoveMouse` is
`weston_pointer` being destroyed.

`fits` and `home` only observe: the windows whose clients drew last at the size
noted, and where a window was, and how large if it was one of these, when it was last
asked to cover something.

### Bindings

`bindings.c`, with the parts of `config.c` and `config_bindings.c` that install,
take over and discard bindings. A node of the trie is named by the presses that
lead to it; `tree` maps it to its `key_binding`, `None` inside. `main` and `temp`
are the `tw_bindings` of the running configuration and of the one on trial,
`weston` what libweston was told, with the `tw_bindings` each entry calls.

`tw_run_config` is one call in the code and several steps here: `AddKey` and
`AddPointer` for each binding `tw_config_install_bindings` adds, then `Swap` or
`Discard`; at start-up `ApplyDefault` follows a discarded one. Nothing else is
enabled while `loading` is not `None`, so no step comes between them.

`PressKey` is what libweston does with a key: a grab gets it, or else a binding for it is
looked up, whose `tw_start_keybinding` installs a grab that gets the same key
(`Follow`, `Hit`). `Run` is the binding at the end of a sequence; `reload_config`
starts a trial, after the grab was cancelled. A key that holds a modifier is a
press no sequence continues with, so it ends the attempt: a sequence whose
second press needs a modifier the first did not have cannot be typed.

`KeyMap` is the abstraction: a set of bindings none of which hides another, and the
sequence typed so far. `ImplementsKeyMap` maps the trie to its bound
paths and the grab to the path of its node.

With two keyboards one may reload while the other is inside a sequence. Its grab
then points to a freed node, `GrabsLive` fails, and `fault` says so at the next
press; the run and the theorem are about one keyboard.

### ConfigReload

`config.c` and what a script in `config_lua.c` does to it. `tables` are the
`tw_config_table`s of all configurations ever tried, `table` the one the main
configuration has; a freed one keeps its content, because
`tw_config_table_apply` may still be queued for it (`idle`). `parts` are the
objects in the registry, `applied` the value of each setting the compositor goes
by. A setting's value is the number of the configuration that asked for it.

A script makes settings, wakes the compositor or not, makes more, fails or not, and
its bindings can be installed or not (`Script`); one that is not there is `None`.
The first waking applies the settings made so far (`Ran`,
`tw_config_wake_compositor`); `flushed` observes which. `Start`, `StartWithDefault`
and `Reload` are one call of `tw_run_config` each, with `Accept` or `Reject` at its
end. `Change` is a lua binding that makes a setting later, `RunIdle` the deferred
application. `Needs` says which part a setting is applied to, `Asking`, `Quiet`,
`Guarded` and `Deaf` how the setters differ; `Zero` is a repeat rate or delay that
is not positive, which stays pending.

A null pointer that is followed sets `fault`; using memory that was freed may or
may not (`Undefined`).

### The shell

`ShellWire` has the two streams of the connection and the objects both sides
name. `ShellServer` is `shell.c`, `ShellClient` the process in
`clients/desktop_shell`; `ShellSession` composes them with screens, a user, and
the end of the client.

`ShellServer`: `slot` is `tw_outputs[].output`, `NOutputs` counts to the first hole
as `shell_n_outputs` does; `elem` are the `shell_ui` elements, memory that outlives
the `taiwins_ui` objects which `user` maps to them; `lose` are the three bindings
that close the widget; `idle` the deferred announcements of the space a panel
leaves, `area` the part of each screen the desktop was told is free (all of it, what
is below the panel or above it), `moved` observes the screens it heard nothing of
since the panel changed its side; `shell` is `shell_resource`, which keeps
pointing to the resource of a client that is gone. `Receive` is the next request
of the client with the whole of its handler; `Unbind` takes a set, because
the end of a client destroys all its objects in one call.

`ShellClient`: `current`, `chosen`, `at` are `widget_launch`, `clicks` and `enters`
the idle events of twclient that wait, `transient` the locker's object. Each
`Dispatch` reads one event. `Crash` is a client that follows a null pointer.

### ConsoleSession

`server/desktop/console.c` with the launch of its client in `taiwins.c`, and the
window part of `clients/desktop_console/console.c`. Server: `client`, `bound`
(`resource`), `surface`, `listens` (the destroy lists the one listener is linked
in). Client: `open`, `results`, `selected`, `text`, `tall`, the idle events of its
queue, `exec_id`.

Input is an event like `start` and `exec`, so keys typed before the window closed
arrive after. `Draw` is `console_draw` for one input with everything it calls: the
update of results and selection, navigation, and the submit and resize events it
queues. `counted` is its static `prev_cmd_len`, which a submit sets to 0: the next
draw takes the text for edited, searches it again and clears the selection
(`Drawn`). `RunIdle` runs these in a row, nothing else is read in between. What a
module answers is any of `Results`; `ConsoleModule` says which those are.

`chosen`, `submitting`, `awaiting` and `redrawn` observe the submit that is not executed
yet: what was chosen, whether its closing is queued or sent, and whether the window was
drawn before it closed. `again` observes whether
the user asked for a console while an earlier request was unanswered: from there
on two windows exist, and the order of executions is lost (see below).

### ConsoleModule

`console_module.c`, and how `console.c` calls it. The state is `struct
console_module` (`quit`, `search_command`, `exec_command`, `search_results`,
`exec_res`, `semaphore`), the locals of `thread_run_module` (`command`,
`program`, `output`, `answer`, `cache`) with its place `pc`, and what the
console thread keeps (`at`, `typed`, `selected`, `shown`).

An action is what a thread does between two points where the other can
interfere. A critical section of `command_mutex` is one action (`TakeExec`,
`TakeSearch`, `StoreSearch`, `StoreExec`). `results_mutex` is different: the
taker uses `trylock` and gives up when it is held, so the module thread takes it
(`LockResults`) and publishes (`PublishExec`, `PublishSearch`) in two steps, and
`Draw` meets it held. Storing a command and posting the semaphore are two steps;
so are reading its value and posting it in `console_module_release` (`Peek`,
`PostQuit`). The thread starts before the fields are set (`CreateThread`,
`SetFields`).

A search is a text, an execution a number. Of texts the model keeps which entries a
search finds (`Found`), which the filter of the module keeps (`Kept`) and which text
extends which (`Extends`). The filter need not be the search: that of `cmd_module`
compares the first word and its search the whole text. What is assumed is that a
longer text finds no more than its prefix and that the filter drops nothing a
search finds, which holds for the modules in the repository (that of the application
module is the same `strcasestr`, the path module finds nothing, and modules in lua
are not cached). `Leftovers` is what the uninitialised `exec_res` may hold; freeing
garbage sets `fault`. Left out: return codes, and
`desktop_console_take_exec_result`, which nothing calls.

## 3. Runs

### Passing

| Run | Instance | Shows |
|---|---|---|
| TilingSteady | one screen, 4 levels, room for all | `NoHollowNode`, and the refinement `ImplementsRow` |
| TilingHotplug | three windows, two screens that come and go, rows that may be full, views reassigned | `WellFormed`, `OwnPlace`, `TouchesOneWindow` |
| DesktopForeground | two wayland windows and an X11 one, two workspaces | `RecentIsWorkspace`, `TreeFollowsLayer`, `StaysUp`, `TaskSwitchRotates` |
| DesktopBackground | two windows, two workspaces, requests from anywhere | `LiveOnLayer`, `LayerFitsView`, `OneRecentPlace`, `RecentFollowsLayer`, `OnlyActiveShown`, `FocusShown` |
| Grabs | one or two windows, two places, two buttons, two keys, menus, a mouse that goes away | `PointerGrabGrounded`, `KeyboardGrabGrounded`, `Restored` |
| Bindings | one keyboard, two keys with and without a modifier, configurations of up to three bindings, loaded at will | `TrieShape`, `StartsOnce`, `GrabsLive`, and the refinement `ImplementsKeyMap` |
| ConfigReload | three settings, up to three configurations that fail, stay silent or change one setting before and after they wake the compositor | `FailedOnlyByWake`, `NothingForgotten`, and, under fairness, `SettingArrives` |
| ShellSession | three screens for two slots, a widget, menu, notifications, locker | `SidesAgree`, `ClosesItsOwn`, `LosersLive`, `SpaceKnown` |
| ShellFair | one screen, both sides scheduled | `LockArrives`, `WidgetCloses` |
| ConsoleSession | two surfaces, two entries, two starts, two events in flight | `ExecInOrder`, `ChoiceLostOnlyByDraw`, `SurfaceKnown`, and, under fairness, `ExecArrives` |
| ConsoleThread | three texts, two entries, three commands, modules with and without cache | `NoLostWakeUp`, `AnswersCover`, `ExecOnce`, and, under fairness, `CommandPickedUp` and `ReleaseEnds` |

Each property has a mutant in `PROJECT.json`: a definition changed the way a
plausible mistake in the code would change it, for which TLC finds the property
violated.

### Violation

`DesktopRemoved` checks `RemovedEverywhere`, which states what the comment at
`desktop.c:259-260` says. A window that went fullscreen while its workspace was
hidden is on another workspace when it closes, and leaves its leaf in the tree of
the first.

### Bounds

* `TilingTree`: `Nodes` bounds the live nodes of all trees. Seven are a root, three
  windows and three containers among them on one screen; six on two screens are two
  roots, three windows and a container or a leaf of a window tiled on both. Trees with
  more nodes exist (single windows in chains of containers) and are cut: an insertion
  that would need another node is not taken. Freed addresses are reused, which is
  when stale links would show. The theorems hold for any number of nodes.
  `MaxLevel` is 31 in the code and 2 or 4 here: the launch point's
  retreat at the deepest level and the assertion both happen at any depth bound.
* `Desktop`: `MaxWorkspace` is 8 in the code and 1 here: two workspaces, an active
  and a hidden one. Handlers never involve more than these two and the last one.
  `LeafBound` bounds the leaves a view can collect in a tree it never leaves; it
  is reached only when `Background` holds.
* `Grabs`: two windows, so that a grab's window and the one under the pointer can
  differ; two buttons and two keys, so that one is released while another is held;
  `MaxAsks` = 3 requests and redraws of clients: one that notes a size, one that
  covers and one that returns, or two that cover, or a grab between them. The window
  that comes second counts for two (`Second`), because a window's geometry does not
  depend on another's: two windows are there for the grabs.
* `Bindings`: the sequences offered extend, equal and branch off each other, up
  to three presses (`MAX_KEY_SEQ_LEN` is 5), and one is empty: the collisions of
  `tw_bindings_add_key` are between two sequences. `MaxAdd` bounds the list to
  apply, so a configuration has up to three first presses and buttons.
* `ConfigReload`: three runs, the first, one that is taken over or not, and one that
  meets what it left; one setting that needs no part and may be zero, one that needs
  a part and one that must ask for its part; two callbacks queued. Scripts make at
  most one setting before and one after waking.
* `ShellSession`: `Slots` is 16 in the code and 2 here, with three screens, so that
  holes, both ends of the table and a screen beyond it occur. `MaxPosts` and
  `MaxRequests` = 1 let the compositor's surroundings and the client's user act only while
  nothing is on its way to the other side; the answers of handlers are not
  bounded, so both streams hold more than that, and a click and an event do cross.
  `MaxTurns` bounds what happens to screens and settings, `MaxUi` = 3 the objects
  of a kind; the client is never held up by it. A widget loses the
  pointer only: the three bindings are installed and removed together.
* `ShellFair` is smaller, one screen in one slot, because liveness is costly;
  what could hold up a message there is another message, not another screen. One
  event of the surroundings (a screen, a notification, the idle signal) is in flight at
  a time, beside the requests and events it leads to and a click of the user.
* `ConsoleSession`: two surfaces, since a second window may be opened before the
  first is gone; two entries; two idle events, after which the client runs them.
* `ConsoleModule`: `MaxIssue` bounds the commands of a session at three: one
  executing or searching, one stored, and one that replaces it. The texts are a
  prefix, an extension of it and an unrelated one: the three cases of `cachable`.

Windows are interchangeable in `TilingTree`, `Desktop` (wayland and X11 windows
apart) and `Grabs`, whose places are too, so these runs use symmetry; all but
these are ordinary state spaces, and no run with liveness under fairness uses it.
`VIEW Structure` of the tiling runs forgets node addresses and split directions,
which no guard reads.

Deadlock is checked in `Bindings`, where a key can always be pressed. It is not in
the other runs: `fault` states are meant to have no successor, a released module
or a client that ended is at its end, and the counted inputs run out.

### Fairness

`TilingTree`, `Desktop`, `Grabs` and `Bindings` state none: users and clients are
free to do nothing, and the handlers run to completion, so these modules state
safety only.

`ConfigReload`: libwayland runs idle callbacks in the next round of the event
loop, so `RunIdle` is weakly fair; nobody needs to reload.

`ShellSession!FairSpec`: both processes are scheduled and read their connection
in every round of their loops, so `ReadClient` and `ReadServer` are weakly fair.
Nothing is assumed of the user, the screens, the password or the end of the
client. `ConsoleSession` assumes the same of `Receive` and `Dispatch`, and of
`RunIdle`, since twclient runs its idle events after each dispatch.

`ConsoleModule` has two threads of one process. The operating system runs both,
so the steps of each are weakly fair: `ThreadNext` (the module's `search` and
`exec` return) and `ConsoleNext`, what the console does without being asked
(finishing a start, a post, a release). Waiting for the semaphore is not
enabled while it is zero, which weak fairness respects. Nothing is assumed of
`UserNext`: nobody needs to type, draw or leave.

## 4. Proofs

Eight modules hold proofs, one for each component below. Their temporal theorems
follow one scheme: an inductive invariant `IInv`, one lemma for each group of
actions, `NextInv` that puts them together, and `PTL` at the end.

`DesktopProofs` proves for every number of windows and workspaces, with requests
from hidden workspaces, that `TypeOK`, `LiveOnLayer`, `LayerFitsView`,
`OneRecentPlace`, `RecentFollowsLayer`, `OnlyActiveShown` and `FocusShown` hold.

The inductive invariant `IInv` is the conjunction of the seven. None is
inductive alone: that a moved link leaves exactly one list (`OneRecentPlace`)
needs that it was in one; that reinserting leaves `RecentFollowsLayer` needs
`LayerFitsView`, because a window that only changes its position stays where its
type says; `FocusShown` across a switch needs both. The lists are handled by four
lemmas (`WithoutLemma`, `FrontLemma`, `EndLemma` and their lift to all
workspaces, `UnlinkedLemma`, `FocusedLemma`, `DefocusedLemma`); `MoveToLemma`
covers the sequence remove, insert, focus; then one lemma per action.

While windows off the active workspace send no requests (`Background = FALSE`, the
condition of `DesktopForeground`), it proves `RecentIsWorkspace`,
`TreeFollowsLayer`, `StaysUp` and the action property `TaskSwitchRotates`. `FInv`,
their conjunction, is inductive on top of `IInv`: the handlers look a window up
in the recent list and edit the tree of the active workspace, which are the window's
own only if lists and layers agree, and only then is what they dereference there.
Without the condition all four are false; `DesktopRemoved` shows it for the tree.

`TilingProofs` proves `TypeOK`, `WellFormed` and `OwnPlace` for any windows,
screens, nodes and depth, and `NoHollowNode` if every row has room (`FALSE \notin
Fits`), with screens that stay and with screens that are unplugged. Its invariant
`TInv` is `Sound(tree, root)` with the types. `Sound` adds to the properties that a
root is at level 0 and holds no window: a leaf found for a window thus has a parent,
which every handler uses unchecked. The three ways to edit a tree have a lemma each:
`RenumberLemma`, `InsertLemma`, `EraseLemma`. They are stated with exceptions,
`Placed(t, P)` and `Full(t, P)`, because between the steps of a handler the rows of
`P` are not numbered, or its containers empty. Erasing needs most: `Erased` is
recursive, so `ErasedLemma` first shows that its equation has a solution (the least
set closed under it). The rest uses the equation only: the nodes erased are a chain,
one to a level (`ChainLemma`), its top hangs from the node the cascade returns, and
nothing that is kept hangs from it (`CascadeLemma`). Both argue by the least or
greatest level at which they would fail. `NoHollowNode` is not true of full rows: a
split that finds no room for its second window leaves the container empty.

It also proves what a user sees of the layout. `NoOtherWindowIsTouched` is
`TouchesOneWindow`, for any screens and any answers about space. `TreeImplementsRow` is
the refinement `ImplementsRow`: every step of the tree opens, closes or moves one
window of `WindowRow`, or shows the same row. It takes a single screen that stays
(`Outputs = {o}`, `SteadySpec`), as the run does: with more, libweston may believe a
window on another screen than the one whose tree has its leaf, and it is tiled in
both. Unlike the run it assumes nothing about space: a window that is refused is not
opened, and one lost by a merge is closed. The row
of a tree is recursive (`RowsBelow`), so `RowsLemma` first shows that its equation has
a solution, from the deepest level of the tree up (`RowsExist`). `GraftRows` and
`PruneRows` then follow one edit up to the root: hanging a window below a node, or
taking the chain that `Erased` frees, changes no row in which that window is left
out. The handlers are compositions of these edits (`About` and its lemmas).
`WindowsAreTiledOnce` adds what the refinement needs: on one screen a window has one
leaf at most, and none unless it is on the layer. With it `OneAboveLemma` finds one child at
each level that leads to the window, so the row is that of the others with the window
slipped in at one place (`TiledRow`).

`ConsoleProofs` proves `TypeOK`, `NoLostWakeUp`, `AnswersCover` and
`ExecOnce` for any texts, entries, caching, leftovers and number of commands.
Its `IInv` adds three things the properties lack: `SemaphoreBound`, how far the
semaphore may have counted at each place of the console thread (without it
`TypeOK` is not inductive); `Phases`, that a console which releases has set
`quit` and that the thread is born once (the last part of `NoLostWakeUp` needs
that a thread passing the loop's test while it is joined sees `quit`); and
`KnownIssued`, that no number is known before it is issued (`ExecOnce`). The
cache is treated by `FilteredLemma`: filtering the cached answer of a prefix leaves out
nothing a search finds, by the assumptions on `Found` and `Kept`. It may hold more.
Whatever is shown after a text that was answered before is exempt (`again`): the code
answers it with nothing.

`BindingsProofs` proves `TypeOK`, `TrieShape` and `StartsOnce` for any sequences,
configurations and keyboards, and for one keyboard `GrabsLive` and that `Bindings`
implements `KeyMap` (`BindingsImplementKeyMap`). `TypeOK` and
`TrieShape` are inductive together (`GrownLemma`: what a trie promises survives an
addition that collides with nothing; a refused one changes nothing). `StartsOnce`
needs `SInv`: while a list is built it has each first press of its trie once
(`Listed`), and the running bindings are untouched until the first trial ended,
which is when the default ones are installed into them. `GrabsLive` needs `Quiet`,
that nobody is inside a sequence while bindings are installed; this is where one
keyboard matters, because the grab is cancelled before its binding runs. The
refinement follows: every step that concerns configurations is a `Load`, which
needs `Quiet` and that a shaped trie is prefix free (`ShapedPrefixFree`); a press
is a `Type`, whose three cases are a node with children, which some bound
sequence continues (`LeadsOn`), one without, which is bound (`LeafLemma`), and no
node, so no bound sequence begins that way (`Closed`).

`GrabsProofs` proves `PointerGrabGrounded`, `KeyboardGrabGrounded` and the action
property `Restored` for any windows, places, sizes, buttons, keys and number of requests.
Besides types its `IInv` adds `Remembered`: a window that is to cover something has, as
its old geometry, the place it was at when it was last asked to, and the size it
had drawn then if that was noted. Without it `Restored` does not follow, since
the step that returns a window reads `old_geometry` only.

`ConfigProofs` proves `FailedOnlyByWake` (as `RejectedOnlyByWake`) and
`NothingForgotten` for any settings, scripts and number of reloads. `Untainted`
strengthens the first: neither a table, freed or not, nor the lua state holds a
value of a configuration that failed, because a later flush would apply it, and one
that is in force nevertheless was flushed by the first waking. `Waking` (the parts
are set up all at once, and before the first of them nothing waits) is needed for
the second, which speaks of the time after that. `RanSound` says what any script
leaves behind.

`ShellProofs` proves `ClosesItsOwn` and `LosersLive` for any number of screens,
slots, widgets and messages in flight. Its `IInv` relates the client's objects, the
requests on their way and the compositor's elements: each object in use is of the
kind of its element; a request is for an object of its own kind; the only widget
object the client has is the one that is open (`ClientKnown`), and the bindings
belong to a living one (`ServerKnown`). A request to close may thus be stale, but
then its object is gone and libwayland drops it.

It also proves `SidesAgree` and `SpaceKnown`, which speak of moments when nothing is
on its way and so need to know what is on its way at all others. `SInv` has a part
for each side (`ServerHalf`, `ClientHalf`: an object is the one its element names,
the widget and the locker have one object at most, a screen has one slot) and a part
for each stream. `RequestsLead`: the requests in flight, replayed in order on the
objects the compositor has, end with those the client has, and each is lawful where
the replay has got to (`Lawful`, `Leads`). The replay is a function of the position
in the stream, so a request that is sent lengthens it at one end (`SentLead`) and
one that is read shortens it at the other. `ScreensAnnounced` and `PlaceAnnounced`:
the client is told of each screen before it is told of its change, and the last
position of the panel it hears of is the one that holds. With both streams empty
these say what `SidesAgree` says. `SpaceTold` is `SpaceKnown` from before the shell
is bound; a panel that changes its side keeps the height it takes (`PanelPosHalf`),
which is all the desktop still knows. TLC found no state of `ShellSession` that
violates `SInv` before it was proved.

`ConsoleSessionProofs` proves `SurfaceKnown`, `ExecInOrder` and
`ChoiceLostOnlyByDraw` (as `ChoiceIsLostOnlyByDraw`) for any surfaces, entries,
messages in flight and starts. `SurfaceInv` adds to the first that the listener is
in the list of the surface. For the other two the invariant is `again \/ StageInv`:
as long as nobody asked twice, there is one window at most, known to nobody
(`Away`), to the client (`Asked`) or to both (`There`), and each of these says what
the two queues hold and in which order (`Ordered`). `ExecInOrder` is not inductive
since the number travels to the compositor and back: a submit on its way must carry
`exec_id` already, and there may be only one.

The only assumptions are the named ones about the constants (`DesktopAssumption`,
`ConsoleAssumption`, `BindingsAssumption`, `GrabsAssumption`, `ConfigAssumption`,
`ShellAssumption`, `StartsAssumption`, `ElementAssumption`,
`ConsoleSessionAssumption`); TLC evaluates them.

Model-checked and not proved: the liveness properties `CommandPickedUp`,
`ReleaseEnds`, `SettingArrives`, `LockArrives`, `WidgetCloses` and `ExecArrives`,
since the prover handles neither fairness nor `ENABLED`. Nothing proved depends on
what `Reached` and `Ancestors` compute: a path that leads nowhere is a fault, and a
row that is rewritten is numbered whichever it is.

## 5. What the code does otherwise

Met while modelling. Only `DesktopRemoved` is a run; the rest are behaviours of the
models (often a `fault`), or were seen beside them.

Tiling. Opening a window beside a container leaves the paths inside the container
leading elsewhere: `tiling_update_children` rewrites the last index of direct
children only (`layout_tiling.c:323`). Merging the only window of nested containers
inserts it into a freed one (`layout_tiling.c:736`). A new window opens at the left
of its row (`docs/layout.md:8` says right). A merge into a full row loses the
window (the TODO at `layout_tiling.c:735`). Unplugging a screen leaves its windows
without a leaf though another screen is there (`desktop.c:521`). A split at the
deepest level fails the assertion at `layout_tiling.c:316`.

Desktop. With requests from hidden workspaces, cycling stops at a window that went
fullscreen elsewhere. The last workspace is never recorded (`desktop.c:897`); from
workspace 8 previous and next are counted from workspace 0 (`desktop.c:803`).

Grabs. A window destroyed while it is moved or resized stays in `view`, and the next
motion uses it (`desktop.c:264`). A view stored while another grab runs is never
cleared, so later moves are refused (`desktop.c:157`). A menu replaces a grab that
runs, which leaves its view as well; after a task switch was replaced none starts
any more, and its key is passed to the client that has the keyboard with no time
(`tw_desktop_start_task_switch_grab`). The transparency grab ends only with the
mouse, and reads the focus without a look whether there is one. A maximized window
can be moved until its client commits, and resized always. Maximize and fullscreen,
or maximize twice, overwrite the old geometry (`workspace.c:399`).
`visible_geometry` starts at 0x0 and is noted only when the offset of the content
changes or a layout sets a size (`desktop.c:302`, `workspace.c:142`): a window whose
size was never noted keeps the covering size when it is un-maximized, and one that
was resized by its client since gets an earlier size. A window that is un-maximized
without having been maximized goes to the corner; un-maximizing one that is
fullscreen puts it on the floating layer, fullscreen still set. A minimized window
comes back only by un-maximize or un-fullscreen.

Configuration. `tw_swap_config` closes the lua state it replaced a second time
(`config.c:213`). `err_msg` is freed and not cleared, and freed again
(`config.c:243`). A script that is done but did not set up every part has its
missing message copied. A reload overwrites the parts of the main configuration
with NULL, also when it fails, since the compositor is woken once only: the next
click looks for the desktop there. Without a file nothing wakes the compositor.
So a panel position that waits then never arrives (`SettingArrives` names this
outcome). A first script that wakes the compositor and then fails leaves its lock timer
and keyboard layout in force under the default configuration, for the waking had flushed
them (`config.c:342`); only the repeat settings are replaced. A repeat rate or delay
that is not positive is never applied and stays pending.
After a swap the registry of lua leads to the freed temporary configuration, so a
binding that asks for a part uses it. The keyboard model queues no application;
the output of a scale or transform is never entered in the table. A queued
application runs on a freed table after a reload (`config.c:468`).

Shell. An idle callback that runs after its screen was unplugged follows a NULL
output (`shell.c:230`). A screen that is unplugged and plugged again gets a second
background, and the end of the client unbinds one element twice. A commit after the
screen was unplugged needs its output. `shell_resource` is never cleared
(`shell.c:749`), so anything sent after the client's end uses it, and a second
shell, beside the first or after it, is refused with a resource that is used further
on. A screen without a slot is announced by index -1, which no array of the client
has. A new position of the panel is sent to the client only: the desktop keeps the
old side until the screen is resized or the panel made anew, for `commit_panel`
looks at the height alone (`shell.c:435`). The locker covers the screens up to the
first hole, and none plugged later (`shell.c:514`). A widget or notification may
open over the locker. The end of a second authentication after the first ended the
locker destroys a NULL object.

Console. A submit sets the remembered length of the text to 0 (`console.c:551-554`),
so a draw before `console_do_submit` takes the text for edited and clears what was
selected, or the first entry is selected anew: nothing, or another entry, is
executed. The same draw after Escape may execute the first entry. A start before the
client bound the interface goes to a NULL resource (`server/desktop/console.c`), one
read before `post_init_console` meets nothing initialised. A client that could not
be launched has its credentials asked for; one that ended is never launched again.
Enter twice, or Escape and Enter, before the window closes destroys a proxy that is
NULL; up or down without results assigns from NULL. Asking for the console twice
opens a second window: the listener is in two lists, and emitting the first never
ends.

Console threads. A text typed again, or searched again because the thread kept it,
finds nothing: `cache_filter` returns without filling the result
(`console_module.c:127`). With the filter of `cmd_module` a text of several words
shows, from the cache, entries a search for it would not find
(`console_cmd.c:38-48`, 103-107). `console_module_command` leaves the results of an
earlier text to the next drawing (`console_module.c:320`; the comment at 75-76 says
it cleans them). The first round of a thread may store an uninitialised `exec_res`
that the next one frees (`console_module.c:171`). A search and an execution issued
before the next drawing leave no entries (`console_module.c:157-158`).

Seen and not modelled: `drm_head_disable` never returns the slot of an output to a
pool of 32 (`backend.c:151`).

## 6. Not modelled

* Pixel geometry and portions, gaps, what a view looks like, drawing: data.
* `backend.c`: heads and outputs belong to libweston; its own state is the pool
  above.
* `xwayland.c`, `bus.c`, `theme.c`: a fork, a pipe and a signal; watches of the
  tdbus library; a theme copied to a file.
* The lua glue of the shell and console clients, the console's modules and their
  directory scans, widgets, icon cache, protocols (whose descriptions are a
  submodule), tests: what they find or draw is a choice in the models, if it
  reaches them at all.
* A shell client is not restarted, because nothing in the code does.

libweston, libweston-desktop, twclient, libwayland, the containers in `ctypes` and
PAM are external: they appear where the code depends on what they do
(`AssignOutput`, focus, grabs, idle events, object ids, resource destruction).
