------------------------------ MODULE ConfigReload -----------------------------
(***************************************************************************)
(* Loading the configuration (server/config/config.c, config_lua.c).  A    *)
(* script runs in a configuration of its own, which the main one takes     *)
(* over when all went well.  A script may wake the compositor, which sets  *)
(* up its parts.  Settings are collected in a table that is applied to the *)
(* parts when the script is done, and later by an idle callback whenever a *)
(* lua binding changes one.  The bindings are in module Bindings.          *)
(*                                                                         *)
(* Configurations are numbered in the order they are tried; a setting's    *)
(* value is the number of the configuration that asked for it.  Where the  *)
(* code follows a null pointer fault is set, and nothing more happens;     *)
(* where it uses or frees freed memory it may or may not.                  *)
(***************************************************************************)
EXTENDS Integers, Sequences, FiniteSets

CONSTANTS
  Setting,   \* the settings the scripts of this instance make
  Scripts,   \* the scripts that are tried
  MaxRuns,   \* bound on the configurations that are tried
  MaxIdle,   \* bound on the callbacks that wait, beyond which the user does
  None,
  Zero       \* a repeat rate or delay that is not positive

(* The parts in the order they are set up. *)
Order == <<"backend", "bus", "shell", "console", "desktop", "theme", "xwayland">>
Part  == {Order[k] : k \in 1..Len(Order)}

(* The settings, with the part each is applied to, if it needs one. *)
Needs == [lock_timer |-> None, keyboard_model |-> None, keyboard_layout |-> None,
          repeat_rate |-> None, repeat_delay |-> None, panel_pos |-> "shell", enable_xwayland |-> "xwayland",
          desktop_gaps |-> "desktop", set_layout |-> "desktop", read_theme |-> "theme",
          scale |-> "backend"]

(* To make one of these, a script must get a part from its configuration. *)
Asking == {"desktop_gaps", "set_layout", "read_theme", "scale"}

(* This one does not queue the application of the table. *)
Quiet == {"keyboard_model"}

(* These are applied if they are positive, and wait for ever if not; the    *)
(* default configuration has values of its own for them.                   *)
Guarded == {"repeat_rate", "repeat_delay"}

(* Nobody enters the output these are for into the table. *)
Deaf == {"scale"}

Gen == 0..MaxRuns

(* A script makes settings, wakes the compositor or not, makes more, ends  *)
(* with an error or not, and its bindings can be installed or not.  Those   *)
(* in zero are not positive.                                               *)
Script == [first : SUBSET Setting, wakes : BOOLEAN, later : SUBSET Setting,
           zero : SUBSET Guarded, errs : BOOLEAN, binds : BOOLEAN]

ASSUME ConfigAssumption ==
  /\ Setting \subseteq DOMAIN Needs /\ Scripts \subseteq Script
  /\ MaxRuns \in Nat \ {0} /\ MaxIdle \in Nat
  /\ None \notin Gen /\ Zero \notin Gen \cup {None}

VARIABLES
  runs,         \* configurations tried
  broken,       \* index of the first part that cannot be set up, if any
  table,        \* the main configuration's table, by its configuration
  tables,       \* tables[t][s]: the value pending in table t; kept after free()
  lua,          \* the configuration whose lua state the main one has
  parts,        \* the parts the main configuration has in its registry
  initialized,  \* all parts were set up
  awake,        \* some were
  err,          \* main_config->err_msg: "null", "live", or "freed" and still set
  applied,      \* applied[s]: the value the compositor goes by
  idle,         \* tw_config_table_apply callbacks, by the table they were given
  rejected,     \* history: configurations that failed
  flushed,      \* history: <<g, s>> if waking the compositor put setting s of
                \* configuration g in force before all parts were set up
  fault         \* undefined behaviour ended the compositor

vars == <<runs, broken, table, tables, lua, parts, initialized, awake, err,
          applied, idle, rejected, flushed, fault>>

NoSettings == [s \in Setting |-> None]

(* A null pointer is followed, or memory freed before is used. *)
Undefined(null, freed) ==
  fault' \in (IF null THEN {TRUE} ELSE IF freed THEN BOOLEAN ELSE {FALSE})

(***************************************************************************)
(* Tables                                                                  *)
(***************************************************************************)
(* What a flush of content applies, of the settings whose parts are known. *)
Due(content, known) ==
  {s \in Setting \ Deaf : content[s] \notin {None, Zero} /\ Needs[s] \in known \cup {None}}
Left(content, due) == [s \in Setting |-> IF s \in due THEN None ELSE content[s]]
Values(content, due) == [s \in Setting |-> IF s \in due THEN content[s] ELSE applied[s]]

(* Mutant of Flush: what is left pending is lost. *)
FlushLosing(t, known) ==
  LET due == Due(tables[t], known) IN
  /\ applied' = applied
  /\ tables' = [tables EXCEPT ![t] = Left(@, due)]

(* tw_config_table_flush of table t. *)
Flush(t, known) ==
  LET due == Due(tables[t], known) IN
  /\ applied' = Values(tables[t], due)
  /\ tables' = [tables EXCEPT ![t] = Left(@, due)]

(***************************************************************************)
(* Trying a configuration                                                  *)
(***************************************************************************)
(* tw_config_wake_compositor: the parts, if they were not all set up yet. *)
Woken == IF initialized THEN {} ELSE {Order[k] : k \in 1..(broken - 1)}

(* The value setting s has when script asks for it as configuration g. *)
Asked(script, s, g) == IF s \in script.zero THEN Zero ELSE g

(* Mutant of Ran: waking the compositor applies the table every time. *)
RanFlushing(script, g) ==
  LET known == IF script.wakes THEN Woken ELSE {}
      early == [s \in Setting |-> IF s \in script.first THEN Asked(script, s, g) ELSE None]
      due   == IF script.wakes THEN Due(early, {}) ELSE {} IN
  [done |-> ~script.errs, binds |-> script.binds, known |-> known, all |-> initialized \/ known = Part,
   pending |-> Left(early, due), applied |-> Values(early, due)]

(* What script leaves behind when it ran as configuration g. *)
Ran(script, g) ==
  LET wakes == script.wakes /\ script.first \cap Asking = {}
      known == IF wakes THEN Woken ELSE {}
      stops == \/ script.first \cap Asking # {}
               \/ \E s \in script.later \cap Asking : Needs[s] \notin known
      early == [s \in Setting |-> IF s \in script.first THEN Asked(script, s, g) ELSE None]
      due   == IF wakes /\ ~initialized THEN Due(early, {}) ELSE {} IN
  [done    |-> ~stops /\ ~script.errs,
   binds   |-> script.binds,
   known   |-> known,
   all     |-> initialized \/ known = Part,
   pending |-> [s \in Setting |-> IF s \in script.later /\ ~stops
                                  THEN Asked(script, s, g) ELSE Left(early, due)[s]],
   applied |-> Values(early, due)]

(* Without a file nothing is run, and the parts are not missed. *)
NoScript ==
  [done |-> TRUE, binds |-> TRUE, known |-> {}, all |-> TRUE, pending |-> NoSettings, applied |-> applied]
Result(script, g) == IF script = None THEN NoScript ELSE Ran(script, g)
Loads(r) == r.done /\ r.all /\ r.binds

(* The main configuration takes g over: tw_swap_config and the flush.  The *)
(* lua state it had is closed twice, and so is the message it had freed.   *)
Accept(r, g) ==
  LET due == Due(r.pending, r.known) IN
  /\ table' = g /\ lua' = g
  /\ tables' = [tables EXCEPT ![g] = Left(r.pending, due)]
  /\ applied' = [s \in Setting |-> IF s \in due THEN r.pending[s] ELSE r.applied[s]]
  /\ parts' = r.known
  /\ err' = (IF err = "null" THEN "null" ELSE "freed")
  /\ UNCHANGED rejected

(* The message of a script is kept; bindings that conflict leave none. *)
Reject(r, g, message) ==
  /\ err' = (IF message THEN "live" ELSE IF err = "null" THEN "null" ELSE "freed")
  /\ parts' = r.known
  /\ applied' = r.applied
  /\ tables' = tables /\ UNCHANGED <<table, lua>>
  /\ rejected' = rejected \cup {g}

(* What waking the compositor put in force before the parts were set up. *)
Woke(r, g) ==
  flushed' = IF initialized THEN flushed
             ELSE flushed \cup {<<g, s>> : s \in {x \in Setting : r.applied[x] = g}}

(* tw_run_config.  A script that is done but leaves a part that was not    *)
(* set up has no message, which is copied nevertheless.                    *)
TryConfig(script, r, g) ==
  /\ runs' = g
  /\ IF Loads(r) THEN Accept(r, g) ELSE Reject(r, g, ~(r.done /\ r.all))
  /\ initialized' = (IF script = None THEN initialized ELSE r.all)
  /\ awake' = (awake \/ r.known # {})
  /\ Woke(r, g)

(* The start of the compositor with its first configuration.  Without a    *)
(* file that is an empty one, and nothing wakes the compositor.            *)
Start(script) ==
  LET r == Result(script, 1) IN
  /\ runs = 0
  /\ r.done /\ (r.all => Loads(r))
  /\ TryConfig(script, r, 1)
  /\ Undefined(~r.all, FALSE)
  /\ UNCHANGED <<broken, idle>>

(* When it fails the default configuration wakes the compositor. *)
StartWithDefault(script) ==
  LET r == Ran(script, 1)
      missing == IF r.all THEN {} ELSE Woken IN
  /\ runs = 0 /\ runs' = 1
  /\ ~r.done \/ (r.all /\ ~script.binds)
  /\ err' = (IF r.done THEN "null" ELSE "live")
  /\ parts' = r.known \cup missing
  /\ awake' = TRUE
  /\ initialized' = (r.all \/ missing = Part)
  /\ applied' = [s \in Setting |-> IF s \in Guarded THEN 0 ELSE r.applied[s]]
  /\ rejected' = rejected \cup {1} /\ Woke(r, 1)
  /\ UNCHANGED <<broken, table, tables, lua, idle, fault>>

(* The reload binding.  The message of a failure is posted to the shell    *)
(* the configuration had before; both may be null.                         *)
Reload(script) ==
  LET r == Result(script, runs + 1)
      ok == Loads(r) IN
  /\ awake /\ runs < MaxRuns
  /\ TryConfig(script, r, runs + 1)
  /\ Undefined(\/ r.done /\ ~r.all
               \/ ~ok /\ ("shell" \notin parts \/ err' = "null"),
               IF ok THEN err # "null" \/ lua # None ELSE "freed" \in {err, err'})
  /\ UNCHANGED <<broken, idle>>

(***************************************************************************)
(* Afterwards                                                              *)
(***************************************************************************)
(* Mutant of Change: the application is not queued. *)
ChangeQuietly(s) ==
  /\ awake /\ lua # None /\ Len(idle) < MaxIdle
  /\ tables' = [tables EXCEPT ![table][s] = lua]
  /\ fault' = FALSE
  /\ UNCHANGED <<runs, broken, table, lua, parts, initialized, awake, err, applied,
                 rejected, flushed, idle>>

(* A lua binding makes setting s.  One that must ask its configuration for *)
(* a part asks the one that was freed after the script had run: it gets    *)
(* nothing, at best.                                                       *)
Change(s) ==
  /\ awake /\ lua # None /\ Len(idle) < MaxIdle
  /\ IF s \in Asking
     THEN Undefined(FALSE, TRUE) /\ UNCHANGED <<tables, idle>>
     ELSE /\ \E value \in {lua} \cup (IF s \in Guarded THEN {Zero} ELSE {}) :
               tables' = [tables EXCEPT ![table][s] = value]
          /\ idle' = IF s \in Quiet THEN idle ELSE Append(idle, table)
          /\ UNCHANGED fault
  /\ UNCHANGED <<runs, broken, table, lua, parts, initialized, awake, err, applied,
                 rejected, flushed>>

(* tw_config_table_apply.  The table may have been freed with the          *)
(* configuration it was of: then its contents, or anything, are applied.   *)
RunIdle ==
  /\ idle # <<>>
  /\ idle' = Tail(idle)
  /\ Flush(Head(idle), parts)
  /\ Undefined(FALSE, Head(idle) # table)
  /\ UNCHANGED <<runs, broken, table, lua, parts, initialized, awake, err, rejected,
                 flushed>>

(* A builtin binding that needs the desktop, such as a click. *)
UseDesktop ==
  /\ awake /\ "desktop" \notin parts
  /\ fault' = TRUE
  /\ UNCHANGED <<runs, broken, table, tables, lua, parts, initialized, awake, err,
                 applied, idle, rejected, flushed>>

Init ==
  /\ runs = 0 /\ broken \in {Len(Order), Len(Order) + 1}
  /\ table = 0 /\ tables = [t \in Gen |-> NoSettings]
  /\ lua = None /\ parts = {} /\ initialized = FALSE
  /\ awake = FALSE /\ err = "null"
  /\ applied = [s \in Setting |-> 0] /\ idle = <<>>
  /\ rejected = {} /\ flushed = {} /\ fault = FALSE

User == (\E s \in Setting : Change(s)) \/ UseDesktop

Next ==
  /\ ~fault
  /\ \/ \E script \in Scripts \cup {None} : Start(script) \/ Reload(script)
     \/ \E script \in Scripts : StartWithDefault(script)
     \/ User
     \/ RunIdle

(* Idle callbacks run in the next round of the event loop.  The user may   *)
(* do nothing.                                                             *)
FairIdle == ~fault /\ RunIdle
Spec == Init /\ [][Next]_vars /\ WF_vars(FairIdle)

(***************************************************************************)
(* Properties                                                              *)
(***************************************************************************)
TypeOK ==
  /\ runs \in Gen /\ broken \in 1..(Len(Order) + 1) /\ table \in Gen
  /\ tables \in [Gen -> [Setting -> Gen \cup {None, Zero}]] /\ lua \in Gen \cup {None}
  /\ parts \subseteq Part /\ initialized \in BOOLEAN /\ awake \in BOOLEAN
  /\ err \in {"null", "live", "freed"} /\ applied \in [Setting -> Gen]
  /\ idle \in Seq(Gen) /\ rejected \subseteq Gen
  /\ flushed \subseteq Gen \X Setting /\ fault \in BOOLEAN

(* Of a configuration that failed to load nothing is ever in force but what *)
(* it asked for before it woke the compositor, if the parts were not set up *)
(* before: tw_config_table_flush runs in the middle of the script then.     *)
(* However late a table is applied, and whichever table that is, the rest   *)
(* never is (tw_run_config: "The configuration runs in protective mode").   *)
FailedOnlyByWake ==
  \A s \in Setting : applied[s] \in rejected => <<applied[s], s>> \in flushed

(* Once all parts are set up, a setting that waits for its application and *)
(* could be applied has a callback queued for the table it is in, whatever *)
(* was loaded in between (tw_config_table_dirty), unless it is a quiet one.*)
Waiting(s) ==
  /\ initialized /\ tables[table][s] \notin {None, Zero}
  /\ Needs[s] \in parts \cup {None}
NothingForgotten ==
  \A s \in Setting \ (Quiet \cup Deaf) :
    Waiting(s) => \E k \in 1..Len(idle) : idle[k] = table

(* A setting that waits is in force in the end, whatever reloads are tried  *)
(* and fail meanwhile, unless another configuration is loaded or a reload   *)
(* took the part away that it needs, or it is set again to what cannot be   *)
(* applied (tw_config_table_dirty to tw_config_table_flush).                *)
SettingArrives ==
  \A s \in Setting \ (Quiet \cup Deaf), g \in 1..MaxRuns :
    (Waiting(s) /\ table = g) ~>
      \/ applied[s] = g
      \/ table # g
      \/ Needs[s] \notin parts \cup {None} \/ tables[table][s] = Zero
      \/ fault

================================================================================
