----------------------------- MODULE ConsoleModule -----------------------------
(***************************************************************************)
(* A module of the console client and its thread                           *)
(* (clients/desktop_console/console_module.c, and how console.c calls it). *)
(*                                                                         *)
(* The console thread stores commands, the module thread executes and      *)
(* searches and stores results; command_mutex and results_mutex guard the  *)
(* stores, a semaphore wakes the module thread.  One action is what a      *)
(* thread does between two points where the other can interfere.           *)
(*                                                                         *)
(* A search is a text, an execution a number (the order of issue, which    *)
(* the code does not keep).  Of texts matter: which entries a search finds, *)
(* which the module's filter keeps, and which text extends which.          *)
(***************************************************************************)
EXTENDS Naturals, FiniteSets

CONSTANTS
  Texts,         \* what the user may type
  Entries,       \* what may be found
  Found,         \* Found[t]: the entries a search for text t finds
  Kept,          \* Kept[t]: the entries filter_test accepts for text t
  Extends,       \* <<t, u>>: u is t with something appended
  CacheSupport,  \* the values of support_cache in the modules considered
  Leftovers,     \* what an uninitialised char * may hold: "null", "garbage"
  MaxIssue,      \* bound on the commands issued
  None

(* Longer texts find no more, and no filter rejects what a search finds:    *)
(* cmd_module searches for the whole text and filters by its first word,    *)
(* app_module does both alike, path_module finds nothing.                   *)
ASSUME ConsoleAssumption ==
  /\ Found \in [Texts -> SUBSET Entries]
  /\ Kept \in [Texts -> SUBSET Entries]
  /\ \A t \in Texts : Found[t] \subseteq Kept[t]
  /\ Extends \subseteq Texts \X Texts
  /\ \A x \in Extends : Found[x[2]] \subseteq Found[x[1]]
  /\ CacheSupport \subseteq BOOLEAN
  /\ Leftovers \subseteq {"null", "garbage"}
  /\ MaxIssue \in Nat
  /\ None \notin Texts

VARIABLES
  \* struct console_module
  caching,        \* support_cache
  quit,
  search_command, \* the command to search, or None
  exec_command,   \* the number of the command to execute, or 0
  search_results, \* an answer; taken is the mark len = -1
  exec_res,       \* "null", "garbage" or "result"
  semaphore,
  \* the module thread
  pc,
  held,           \* the thread holds results_mutex
  command,        \* its local search_command
  program,        \* its local exec_command
  output,         \* its local exec_res
  answer,         \* its local search_results
  cache,          \* the last command and its results
  ran,            \* the number of the last command executed
  fault,
  \* the console thread
  at,             \* where it is
  typed,          \* the text edited; None when empty
  selected,       \* an entry is selected
  issued,         \* the number of commands issued
  shown           \* console->search_results

module  == <<caching, quit, search_command, exec_command, search_results, exec_res,
             semaphore>>
thread  == <<pc, held, command, program, output, answer, cache, ran, fault>>
console == <<at, typed, selected, issued, shown>>
vars    == <<module, thread, console>>

(* again is not in the code: the text answered before was the same.         *)
Empty == [request |-> None, entries |-> {}, again |-> FALSE]
Answers == [request : Texts \cup {None}, entries : SUBSET Entries, again : BOOLEAN]

(***************************************************************************)
(* The cache                                                               *)
(***************************************************************************)

(* Mutant of Cachable: the prefix test is the wrong way round. *)
CachableReversed(c, t) ==
  /\ t # None /\ c.request # None
  /\ t = c.request \/ <<t, c.request>> \in Extends

(* cachable: the cached command is the command or a prefix of it. *)
Cachable(c, t) ==
  /\ t # None /\ c.request # None
  /\ t = c.request \/ <<c.request, t>> \in Extends

(* cache_filter: the same text again returns before anything is filtered. *)
Filtered(c, t) ==
  [request |-> t, again |-> t = c.request,
   entries |-> IF t = c.request THEN {} ELSE c.entries \cap Kept[t]]

(* What cache_filter leaves in the cache. *)
Refined(c, t) == IF t = c.request THEN c ELSE Filtered(c, t)

(* module->search *)
Searched(c, t) == [request |-> t, again |-> t = c.request, entries |-> Found[t]]

(***************************************************************************)
(* The module thread: thread_run_module                                    *)
(***************************************************************************)

(* Mutant of TakeExec: the command is not taken out of the module. *)
TakeExecKept ==
  /\ pc = "loop"
  /\ \/ /\ quit
        /\ pc' = "done" /\ cache' = Empty
        /\ UNCHANGED <<program, exec_command>>
     \/ /\ ~quit
        /\ pc' = IF exec_command # 0 THEN "exec" ELSE "lock_exec"
        /\ program' = exec_command
        /\ UNCHANGED <<cache, exec_command>>
  /\ UNCHANGED <<caching, quit, search_command, search_results, exec_res, semaphore,
                 held, command, output, answer, ran, fault, console>>

(* The loop's test of quit, and the first critical section. *)
TakeExec ==
  /\ pc = "loop"
  /\ \/ /\ quit
        /\ pc' = "done" /\ cache' = Empty
        /\ UNCHANGED <<program, exec_command>>
     \/ /\ ~quit
        /\ pc' = IF exec_command # 0 THEN "exec" ELSE "lock_exec"
        /\ program' = exec_command
        /\ exec_command' = 0
        /\ UNCHANGED cache
  /\ UNCHANGED <<caching, quit, search_command, search_results, exec_res, semaphore,
                 held, command, output, answer, ran, fault, console>>

(* module->exec; it may leave its result argument as it was. *)
Exec ==
  /\ pc = "exec"
  /\ pc' = "lock_exec"
  /\ output' \in {"null", "result", output}
  /\ ran' = program /\ program' = 0
  /\ UNCHANGED <<module, held, command, answer, cache, fault, console>>

LockResults ==
  /\ pc \in {"lock_exec", "lock_search"}
  /\ held' = TRUE
  /\ pc' = IF pc = "lock_exec" THEN "publish_exec" ELSE "publish_search"
  /\ UNCHANGED <<module, command, program, output, answer, cache, ran, fault, console>>

(* The result of an execution that was not taken is freed. *)
PublishExec ==
  /\ pc = "publish_exec"
  /\ \/ /\ exec_res = "garbage"
        /\ fault' = "garbage freed"
        /\ UNCHANGED <<exec_res, output, pc, held>>
     \/ /\ exec_res # "garbage"
        /\ exec_res' = output
        /\ output' = "null"
        /\ held' = FALSE
        /\ pc' = "take_search"
        /\ UNCHANGED fault
  /\ UNCHANGED <<caching, quit, search_command, exec_command, search_results,
                 semaphore, command, program, answer, cache, ran, console>>

(* Mutant of TakeSearch: a command that is still there is not replaced. *)
TakeSearchOnce ==
  /\ pc = "take_search"
  /\ pc' = "search"
  /\ IF command = None
     THEN command' = search_command /\ search_command' = None
     ELSE UNCHANGED <<command, search_command>>
  /\ UNCHANGED <<caching, quit, exec_command, search_results, exec_res, semaphore,
                 held, program, output, answer, cache, ran, fault, console>>

(* Without a new command the thread keeps the one it has. *)
TakeSearch ==
  /\ pc = "take_search"
  /\ pc' = "search"
  /\ command' = IF search_command # None THEN search_command ELSE command
  /\ search_command' = None
  /\ UNCHANGED <<caching, quit, exec_command, search_results, exec_res, semaphore,
                 held, program, output, answer, cache, ran, fault, console>>

(* An answer out of the cache leaves the local command as it is. *)
Search ==
  /\ pc = "search"
  /\ pc' = "lock_search"
  /\ \/ /\ caching /\ Cachable(cache, command)
        /\ answer' = Filtered(cache, command)
        /\ cache' = Refined(cache, command)
        /\ UNCHANGED command
     \/ /\ ~(caching /\ Cachable(cache, command))
        /\ command # None
        /\ answer' = Searched(cache, command)
        /\ cache' = Searched(cache, command)
        /\ command' = None
     \/ /\ command = None
        /\ UNCHANGED <<answer, cache, command>>
  /\ UNCHANGED <<module, held, program, output, ran, fault, console>>

(* Mutant of PublishSearch: it uses up the wake-ups that came meanwhile. *)
PublishSearchDrains ==
  /\ pc = "publish_search"
  /\ search_results' = [taken |-> FALSE, answer |-> answer]
  /\ answer' = Empty
  /\ semaphore' = 0
  /\ held' = FALSE
  /\ pc' = "wait"
  /\ UNCHANGED <<caching, quit, search_command, exec_command, exec_res,
                 command, program, output, cache, ran, fault, console>>

(* The results are replaced, taken or not, whether or not there was a       *)
(* command.                                                                 *)
PublishSearch ==
  /\ pc = "publish_search"
  /\ search_results' = [taken |-> FALSE, answer |-> answer]
  /\ answer' = Empty
  /\ held' = FALSE
  /\ pc' = "wait"
  /\ UNCHANGED <<caching, quit, search_command, exec_command, exec_res, semaphore,
                 command, program, output, cache, ran, fault, console>>

Wait ==
  /\ pc = "wait"
  /\ semaphore > 0
  /\ semaphore' = semaphore - 1
  /\ pc' = "loop"
  /\ UNCHANGED <<caching, quit, search_command, exec_command, search_results, exec_res,
                 held, command, program, output, answer, cache, ran, fault, console>>

ThreadNext ==
  \/ TakeExec \/ Exec \/ LockResults \/ PublishExec
  \/ TakeSearch \/ Search \/ PublishSearch \/ Wait

(***************************************************************************)
(* The console thread                                                      *)
(***************************************************************************)

(* console_module_init: the thread runs before the fields are set. *)
CreateThread ==
  /\ at = "create"
  /\ pc' = "loop"
  /\ output' \in Leftovers
  /\ at' = "set_fields"
  /\ UNCHANGED <<module, held, command, program, answer, cache, ran, fault, typed,
                 selected, issued, shown>>

SetFields ==
  /\ at = "set_fields"
  /\ quit' = FALSE
  /\ search_command' = None /\ exec_command' = 0
  /\ search_results' = [taken |-> FALSE, answer |-> Empty]
  /\ exec_res' = "null"
  /\ at' = "idle"
  /\ UNCHANGED <<caching, semaphore, thread, typed, selected, issued, shown>>

(* console_update_search_results, at the start of every drawing:            *)
(* desktop_console_take_search_result gives up when the mutex is held.      *)
(* With results an entry is selected.                                       *)
Draw ==
  /\ at = "idle"
  /\ at' = "edit"
  /\ \/ /\ typed = None
        /\ shown' = Empty
        /\ UNCHANGED search_results
     \/ /\ typed # None
        /\ held \/ search_results.taken
        /\ UNCHANGED <<shown, search_results>>
     \/ /\ typed # None
        /\ ~held /\ ~search_results.taken
        /\ shown' = search_results.answer
        /\ search_results' = [taken |-> TRUE, answer |-> Empty]
  /\ selected' = (selected \/ shown'.entries # {})
  /\ UNCHANGED <<caching, quit, search_command, exec_command, exec_res, semaphore,
                 thread, typed, issued>>

(* The rest of the drawing: the text is as before, was emptied, or is new   *)
(* and console_module_command stores it, replacing one not yet taken.  New  *)
(* is also the old text after a submit, which forgets its length.  The      *)
(* selection is cleared unless a key used it.                               *)
Unedited ==
  /\ at = "edit"
  /\ \/ UNCHANGED <<typed, selected>>
     \/ typed' = None /\ selected' \in {selected, FALSE}
  /\ at' = "idle"
  /\ UNCHANGED <<module, thread, issued, shown>>

StoreSearch(t) ==
  /\ at = "edit"
  /\ issued < MaxIssue
  /\ issued' = issued + 1
  /\ typed' = t /\ selected' \in {selected, FALSE}
  /\ search_command' = t
  /\ at' = "post"
  /\ UNCHANGED <<caching, quit, exec_command, search_results, exec_res, semaphore,
                 thread, shown>>

(* exec_application, for a selected entry *)
StoreExec ==
  /\ at = "idle"
  /\ issued < MaxIssue /\ selected
  /\ issued' = issued + 1
  /\ typed' = None /\ selected' = FALSE
  /\ exec_command' = issued + 1
  /\ at' = "post"
  /\ UNCHANGED <<caching, quit, search_command, search_results, exec_res, semaphore,
                 thread, shown>>

Post ==
  /\ at = "post"
  /\ semaphore' = semaphore + 1
  /\ at' = "idle"
  /\ UNCHANGED <<caching, quit, search_command, exec_command, search_results, exec_res,
                 thread, typed, selected, issued, shown>>

(* Mutant of Release: quit is not set. *)
ReleaseUntold ==
  /\ at = "idle"
  /\ at' = "peek"
  /\ UNCHANGED <<module, thread, typed, selected, issued, shown>>

(* console_module_release *)
Release ==
  /\ at = "idle"
  /\ quit' = TRUE
  /\ at' = "peek"
  /\ UNCHANGED <<caching, search_command, exec_command, search_results, exec_res,
                 semaphore, thread, typed, selected, issued, shown>>

(* The condition under which the loop of sem_getvalue and sem_post ends. *)
Awake(value) == value > 0

Peek ==
  /\ at = "peek"
  /\ at' = IF Awake(semaphore) THEN "post_last" ELSE "post_again"
  /\ UNCHANGED <<module, thread, typed, selected, issued, shown>>

PostQuit ==
  /\ at \in {"post_again", "post_last"}
  /\ semaphore' = semaphore + 1
  /\ at' = IF at = "post_last" THEN "join" ELSE "peek"
  /\ UNCHANGED <<caching, quit, search_command, exec_command, search_results, exec_res,
                 thread, typed, selected, issued, shown>>

Join ==
  /\ at = "join" /\ pc = "done"
  /\ search_command' = None /\ exec_command' = 0
  /\ search_results' = [taken |-> FALSE, answer |-> Empty]
  /\ at' = "released"
  /\ UNCHANGED <<caching, quit, exec_res, semaphore, thread, typed, selected, issued, shown>>

(* What the console thread does by itself, and what the user decides. *)
ConsoleNext == CreateThread \/ SetFields \/ Post \/ Peek \/ PostQuit \/ Join
UserNext == Draw \/ Unedited \/ (\E t \in Texts : StoreSearch(t)) \/ StoreExec \/ Release

Init ==
  /\ caching \in CacheSupport
  /\ quit = FALSE
  /\ search_command = None /\ exec_command = 0
  /\ search_results = [taken |-> FALSE, answer |-> Empty]
  /\ exec_res = "null"
  /\ semaphore = 0
  /\ pc = "unborn" /\ held = FALSE
  /\ command = None /\ program = 0 /\ output = "null" /\ answer = Empty
  /\ cache = Empty /\ ran = 0 /\ fault = "none"
  /\ at = "create" /\ typed = None /\ selected = FALSE /\ issued = 0 /\ shown = Empty

Next == fault = "none" /\ (ThreadNext \/ ConsoleNext \/ UserNext)

(* The scheduler runs both threads, and the module's callbacks return.      *)
(* Nothing makes the user do anything.                                      *)
Fairness ==
  /\ WF_vars(fault = "none" /\ ThreadNext)
  /\ WF_vars(fault = "none" /\ ConsoleNext)

Spec == Init /\ [][Next]_vars /\ Fairness

(***************************************************************************)
(* Properties                                                              *)
(***************************************************************************)
ModuleTypes ==
  /\ caching \in BOOLEAN /\ quit \in BOOLEAN
  /\ search_command \in Texts \cup {None}
  /\ exec_command \in 0..MaxIssue
  /\ search_results \in [taken : BOOLEAN, answer : Answers]
  /\ exec_res \in {"null", "garbage", "result"}
  /\ semaphore \in 0..MaxIssue + 2

ThreadTypes ==
  /\ pc \in {"unborn", "loop", "exec", "lock_exec", "publish_exec", "take_search",
             "search", "lock_search", "publish_search", "wait", "done"}
  /\ held \in BOOLEAN
  /\ command \in Texts \cup {None}
  /\ program \in 0..MaxIssue
  /\ output \in {"null", "garbage", "result"}
  /\ answer \in Answers /\ cache \in Answers
  /\ ran \in 0..MaxIssue
  /\ fault \in {"none", "garbage freed"}

ConsoleTypes ==
  /\ at \in {"create", "set_fields", "idle", "edit", "post", "peek", "post_again",
             "post_last", "join", "released"}
  /\ typed \in Texts \cup {None} /\ selected \in BOOLEAN
  /\ issued \in 0..MaxIssue
  /\ shown \in Answers

TypeOK == ModuleTypes /\ ThreadTypes /\ ConsoleTypes

(* No wake-up is lost: when the thread is past the place where it would     *)
(* take a command that is there, or was told to quit, the semaphore lets it *)
(* go round once more, or the console is about to post.  The thread looks   *)
(* and sleeps under no common lock, so this rests on the count alone.       *)
NoLostWakeUp ==
  /\ search_command # None /\ pc \in {"search", "lock_search", "publish_search", "wait"}
       => semaphore > 0 \/ at = "post"
  /\ exec_command # 0 /\ pc \notin {"unborn", "loop", "done"}
       => semaphore > 0 \/ at = "post"
  /\ at = "join" /\ pc \notin {"loop", "done"} => semaphore > 0

(* Whatever was typed and in whichever order results were cached, taken or  *)
(* dropped, an answer leaves out nothing a search for its text finds, and   *)
(* shows nothing its filter rejects.  The one answer that may be short is   *)
(* to the text answered just before, which cache_filter does not fill.      *)
Covers(a) ==
  IF a.request = None THEN a.entries = {}
  ELSE /\ a.entries \subseteq Kept[a.request]
       /\ a.again \/ Found[a.request] \subseteq a.entries

AnswersCover ==
  /\ Covers(answer) /\ Covers(search_results.answer) /\ Covers(shown)
  /\ cache.request # None =>
       Found[cache.request] \subseteq cache.entries /\ cache.entries \subseteq Kept[cache.request]

(* A command is executed at most once, and after those issued before it:    *)
(* the thread and the console replace each other's commands in one field.   *)
ExecOnce ==
  /\ program # 0 => ran < program
  /\ exec_command # 0 => ran < exec_command /\ program < exec_command
=============================================================================
